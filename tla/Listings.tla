-------------------------------- MODULE Listings --------------------------------
(***************************************************************************)
(* Who is shown whom.  A request is let through by a guard that looks up   *)
(* the teams its user manages, or the manager of the one team it is about, *)
(* and is answered by reads that follow; a list comes page by page, each   *)
(* page a request of its own, from the row on that the last one ended at.  *)
(*                                                                         *)
(* The roles are those in the tokens.  Abstracted: other organizations,    *)
(* what a row says, filters but the team; other lists are paged alike.     *)
(***************************************************************************)
EXTENDS Calls, FiniteSets, SequencesExt

CONSTANTS
  Readers,      \* portal users
  TokenRole,    \* TokenRole[u]: the role in the token of u
  Entries,      \* learners
  Groups,       \* teams
  Limit         \* rows of a page, a bound

EntryRow == [group : Groups, made : Nat, gone : BOOLEAN]
\* A page has a row; a time and a row are no None.
ASSUME ListingsAssumption == Limit \in Nat \ {0} /\ IsFiniteSet(Entries) /\ None \notin Nat \cup EntryRow

VARIABLES
  entry,        \* entry[l]: [group, made, gone], made: when created; or None
  leads,        \* leads[t]: the manager of a team, or None
  today,        \* what time it is
  crowded,      \* times at which more than one learner may have been created
  walked,       \* the last list that was read to its end, or None
  opened        \* the last learner that was shown alone, or None

listVars == <<entry, leads, today, crowded, walked, opened>>

FirstDay == 3
ListingsInit(start) ==
  /\ entry = start.entry /\ leads = start.leads /\ today = FirstDay /\ crowded = {} /\ walked = None /\ opened = None

Listed == {l \in Entries : entry[l] # None /\ ~entry[l].gone}
GroupsOf(u) == {t \in Groups : leads[t] = u}

-----------------------------------------------------------------------------
(* Lists.                                                                  *)

\* requireTeamScopedList: administrators see all, managers their teams, nobody else anything.
AllowedToList(u) == TokenRole[u] \in {"ADMIN", "DEPARTMENT_MANAGER"}
Scope(u) == IF TokenRole[u] = "ADMIN" THEN [all |-> TRUE, groups |-> {}] ELSE [all |-> FALSE, groups |-> GroupsOf(u)]
\* Mutant: no teams is taken for all of them.
ScopedUnlessEmpty(scope, filter) ==
  {l \in Listed : /\ scope.all \/ scope.groups = {} \/ entry[l].group \in scope.groups
                  /\ filter = None \/ entry[l].group = filter}
ScopedRows(scope, filter) ==
  {l \in Listed : /\ scope.all \/ entry[l].group \in scope.groups
                  /\ filter = None \/ entry[l].group = filter}
\* findMany: behind the cursor, in the order of creation; rows created at once come in any order.
After(rows, cursor) == {l \in rows : cursor = None \/ entry[l].made > cursor}
Orders(rows) ==
  {order \in SetToSeqs(rows) : \A n, m \in 1 .. Len(order) : n < m => entry[order[n]].made <= entry[order[m]].made}

Walk(c) ==
  /\ \E u \in Readers, filter \in Groups \cup {None} :
       /\ AllowedToList(u)
       /\ Begin(c, "walk", "guard", [user |-> u, filter |-> filter],
                [cursor |-> None, scope |-> None, rows |-> <<>>, atFirst |-> entry])
  /\ UNCHANGED listVars
\* One page: the guard, and the rows.
GuardPage(c) ==
  /\ At(c, "walk", "guard")
  /\ Goto(c, "page", [call[c].seen EXCEPT !.scope = Scope(call[c].arg.user)], {})
  /\ UNCHANGED listVars
ReadPage(c) ==
  /\ At(c, "walk", "page")
  /\ LET seen == call[c].seen
     IN \E order \in Orders(After(ScopedRows(seen.scope, call[c].arg.filter), seen.cursor)) :
          LET hasNext == Len(order) > Limit
              data == IF hasNext THEN SubSeq(order, 1, Limit) ELSE order
          IN IF hasNext
             THEN /\ Goto(c, "guard", [seen EXCEPT !.cursor = entry[Last(data)].made, !.rows = @ \o data], {})
                  /\ UNCHANGED walked
             ELSE /\ walked' = [user |-> call[c].arg.user, filter |-> call[c].arg.filter, rows |-> seen.rows \o data,
                                throughout |-> {l \in Listed : seen.atFirst[l] = entry[l]}, rowsAtEnd |-> entry,
                                leads |-> leads, ledAnew |-> Stale(c, "leads"), crowded |-> crowded]
                  /\ End(c, None, {})
  /\ UNCHANGED <<entry, leads, today, crowded, opened>>

-----------------------------------------------------------------------------
(* One learner: his team is looked up, then its manager, then himself.     *)

Open(c) ==
  /\ \E u \in Readers, l \in Listed :
       /\ TokenRole[u] \in {"ADMIN", "DEPARTMENT_MANAGER"}
       /\ Begin(c, "open", IF TokenRole[u] = "ADMIN" THEN "read" ELSE "manager", [user |-> u, entry |-> l], entry[l].group)
  /\ UNCHANGED listVars
CheckManager(c) ==
  /\ At(c, "open", "manager")
  /\ IF leads[call[c].seen] = call[c].arg.user THEN Goto(c, "read", call[c].seen, {}) ELSE End(c, "refused", {})
  /\ UNCHANGED listVars
ReadOne(c) ==
  /\ At(c, "open", "read")
  /\ LET l == call[c].arg.entry
     IN IF l \notin Listed THEN End(c, "missing", {}) /\ UNCHANGED opened
        ELSE /\ opened' = [user |-> call[c].arg.user, entry |-> l, group |-> entry[l].group,
                           leads |-> leads, ledAnew |-> Stale(c, "leads"), enrolledAnew |-> Stale(c, "entries")]
             /\ End(c, None, {})
  /\ UNCHANGED <<entry, leads, today, crowded, walked>>

-----------------------------------------------------------------------------
(* Managers change; learners are removed and imported again.               *)

Appoint(c) ==
  /\ \E t \in Groups, u \in {v \in Readers : TokenRole[v] = "DEPARTMENT_MANAGER"} \cup {None} :
       leads[t] # u /\ leads' = [leads EXCEPT ![t] = u]
  /\ Atomically(c, "appoint", {"leads"})
  /\ UNCHANGED <<entry, today, crowded, walked, opened>>
Dismiss(c) ==
  /\ \E l \in Listed : entry' = [entry EXCEPT ![l].gone = TRUE]
  /\ Atomically(c, "dismiss", {"entries"})
  /\ UNCHANGED <<leads, today, crowded, walked, opened>>
\* A row of its own, maybe created at the same time as another one.
Enroll(c) ==
  /\ \E l \in {k \in Entries : entry[k] = None}, t \in Groups, tick \in {0, 1} :
       /\ today' = today + tick
       /\ entry' = [entry EXCEPT ![l] = [group |-> t, made |-> today', gone |-> FALSE]]
       /\ crowded' = IF tick = 0 THEN crowded \cup {today} ELSE crowded
  /\ Atomically(c, "enroll", {"entries"})
  /\ UNCHANGED <<leads, walked, opened>>

ListStep(c) ==
  \/ Walk(c) \/ GuardPage(c) \/ ReadPage(c) \/ Open(c) \/ CheckManager(c) \/ ReadOne(c)
  \/ Appoint(c) \/ Dismiss(c) \/ Enroll(c)

-----------------------------------------------------------------------------
(* Properties.                                                             *)

\* Nobody was created in the future.
ListingsTypeOK == \A l \in Listed : entry[l].made <= today /\ entry[l].group \in Groups

\* authorize.guard.ts:62-80: a manager is shown learners of teams that he manages, no others,
\* unless a team got another manager, or the learner another team, while he was answered.
ShownInScope ==
  /\ walked # None /\ ~walked.ledAnew /\ TokenRole[walked.user] # "ADMIN" =>
       \A n \in 1 .. Len(walked.rows) :
         LET l == walked.rows[n]
         IN l \in walked.throughout => walked.leads[walked.rowsAtEnd[l].group] = walked.user
  /\ opened # None /\ ~opened.ledAnew /\ ~opened.enrolledAnew /\ TokenRole[opened.user] # "ADMIN" =>
       opened.leads[opened.group] = opened.user
\* base.repository.ts:98-125: who is there from the first page to the last, and was created at
\* a time of his own, is on a page; nobody is on two.
PagesComplete == walked # None =>
  /\ IsInjective(walked.rows)
  /\ LET now(l) == walked.rowsAtEnd[l]
         own == {l \in walked.throughout : now(l).made \notin walked.crowded}
     IN ~walked.ledAnew =>
          \A l \in own : /\ TokenRole[walked.user] = "ADMIN" \/ walked.leads[now(l).group] = walked.user
                         /\ walked.filter \in {None, now(l).group}
                         => \E n \in 1 .. Len(walked.rows) : walked.rows[n] = l
\* Both.
ListsHold == ShownInScope /\ PagesComplete
=============================================================================
