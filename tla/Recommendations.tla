--------------------------- MODULE Recommendations ---------------------------
(***************************************************************************)
(* What becomes of a recommendation once the pipeline (PlanBuilding) has   *)
(* ranked its items: its row is created, then its items one by one, then   *)
(* the outcomes that no content covers are reported.  A manager rejects,   *)
(* moves or replaces items until the recommendation is confirmed.  Every   *)
(* one of these checks on a read what it writes later.                     *)
(*                                                                         *)
(* One learner is modelled.  Abstracted: the texts of the reasons, audit   *)
(* rows, and ACCEPT, which writes nothing.  The reads of one generation    *)
(* are taken together.                                                     *)
(***************************************************************************)
EXTENDS Calls, FiniteSets

PB == INSTANCE PlanBuilding

CONSTANTS
  Assignments,    \* ids of the learner's assignments to levels
  Recs,           \* ids of recommendations
  Items           \* ids of their items

VARIABLES
  active,         \* the active assignment, or None
  rows,           \* rows[a]: a's LearnerOutcome rows, as PlanBuilding has them
  library,        \* the content, as PlanBuilding has it
  announced,      \* assignments whose learner.level.assigned is not handled yet
  rec,            \* rec[r]: [assignment, trigger, status, due, stocked] or None
  item,           \* item[i]: [rec, content, outcome, rank, reason, status, by] or None
  noticed,        \* <<r, o>>: outcome o was reported as a gap of r
  partial         \* recommendations whose generation was cut short

recVars == <<active, rows, library, announced, rec, item, noticed, partial>>

RecInit(start) ==
  /\ active = start.active /\ rows = start.rows /\ library = start.library
  /\ announced = {}
  /\ rec = [r \in Recs |-> None] /\ item = [i \in Items |-> None]
  /\ noticed = {} /\ partial = {}

FreshRec == CHOOSE r \in Recs : rec[r] = None
FreshItem == CHOOSE i \in Items : item[i] = None
\* Bounds: what is created finds an id left.
RecRoom == \E r \in Recs : rec[r] = None
ItemRoom == \E i \in Items : item[i] = None
ItemsOf(r) == {i \in Items : item[i] # None /\ item[i].rec = r}
Editable(r) == rec[r] # None /\ rec[r].status = "PROPOSED"
Titles(content) == {content[n] : n \in DOMAIN content}
Available(c) == \E s \in DOMAIN library.content : c \in Titles(library.content[s])

-----------------------------------------------------------------------------
(* Generating.                                                             *)

Assign(c) ==
  /\ \E a \in Assignments \ {active} : active' = a /\ announced' = announced \cup {a}
  /\ Atomically(c, "assign", {})
  /\ UNCHANGED <<rows, library, rec, item, noticed, partial>>

\* explain: the strongest reason that applies; gapMatch never does.
HighEffectiveness == 75
Reason(row, content) ==
  LET effect == library.effect[content][row.outcome]
  IN IF PB!CarriedOver(row) THEN "OUTCOME_CARRIED_OVER"
     ELSE IF effect # None /\ effect >= HighEffectiveness THEN "HIGH_EFFECTIVENESS"
     ELSE "OUTCOME_NOT_ACHIEVED"
Explained(ranked, due) == [n \in DOMAIN ranked |->
  [content |-> ranked[n].content, outcome |-> ranked[n].outcome,
   reason |-> Reason(CHOOSE row \in due : row.outcome = ranked[n].outcome, ranked[n].content)]]
\* Mutant: an outcome that was never tried is not reported.
GapsOfTried(due, ranked) ==
  {row.outcome : row \in {d \in due : d.attempts > 0}} \ {ranked[n].outcome : n \in DOMAIN ranked}
\* detect: the outstanding outcomes that no item is for.
Gaps(due, ranked) == {row.outcome : row \in due} \ {ranked[n].outcome : n \in DOMAIN ranked}

\* What a generation makes of its reads.  An outcome of another level, that was added
\* for this learner, is not resolved: no content is looked for, and no gap reported.
Read(a) ==
  LET ranked == PB!Recommend(rows[a], library)
      due == {rows[a][n] : n \in {n \in DOMAIN rows[a] : PB!Outstanding(rows[a][n]) /\ rows[a][n].ofLevel}}
      stocked == {row \in due : row.skill # None /\ library.content[row.skill] # <<>>}
  IN [assignment |-> a, rec |-> None, items |-> Explained(ranked, due), rank |-> 0,
      gaps |-> Gaps(due, ranked),
      due |-> {row.outcome : row \in due}, stocked |-> {row.outcome : row \in stocked}]

\* Whatever was announced, the assignment is the one that is active now.
Generate(c) ==
  /\ active # None
  /\ \/ /\ \E a \in announced : announced' = announced \ {a}
        /\ Begin(c, "handle", "create", "LEVEL_ASSIGNED", Read(active))
     \/ /\ UNCHANGED announced
        /\ Begin(c, "generate", "create", "PLAN_BUILD", Read(active))
  /\ UNCHANGED <<active, rows, library, rec, item, noticed, partial>>
Generating(c) == call[c].op \in {"handle", "generate"}
CreateRec(c) ==
  /\ Generating(c) /\ call[c].pc = "create" /\ RecRoom
  /\ LET seen == call[c].seen
     IN /\ rec' = [rec EXCEPT ![FreshRec] =
             [assignment |-> seen.assignment, trigger |-> call[c].arg, status |-> "PROPOSED",
              due |-> seen.due, stocked |-> seen.stocked]]
        /\ Goto(c, "items", [seen EXCEPT !.rec = FreshRec], {})
  /\ UNCHANGED <<active, rows, library, announced, item, noticed, partial>>
\* Content that was deleted since is refused by the foreign key, and the rest is not written.
PersistItem(c) ==
  /\ Generating(c) /\ call[c].pc = "items" /\ call[c].seen.items # <<>>
  /\ LET seen == call[c].seen
         next == Head(seen.items)
     IN IF Available(next.content)
        THEN /\ ItemRoom
             /\ item' = [item EXCEPT ![FreshItem] =
                  [rec |-> seen.rec, content |-> next.content, outcome |-> next.outcome, rank |-> seen.rank,
                   reason |-> next.reason, status |-> "PROPOSED", by |-> None]]
             /\ Goto(c, "items", [seen EXCEPT !.items = Tail(@), !.rank = @ + 1], {})
             /\ UNCHANGED partial
        ELSE /\ partial' = partial \cup {seen.rec}
             /\ End(c, "referenced", {})
             /\ UNCHANGED item
  /\ UNCHANGED <<active, rows, library, announced, rec, noticed>>
Notify(c) ==
  /\ Generating(c) /\ call[c].pc = "items" /\ call[c].seen.items = <<>>
  /\ noticed' = noticed \cup ({call[c].seen.rec} \X call[c].seen.gaps)
  /\ End(c, None, {})
  /\ UNCHANGED <<active, rows, library, announced, rec, item, partial>>

\* Elsewhere an outcome is achieved, or content that no item names is deleted.
Achieve(c) ==
  /\ \E a \in DOMAIN rows : \E n \in DOMAIN rows[a] :
       PB!Outstanding(rows[a][n]) /\ rows' = [rows EXCEPT ![a][n].status = "ACHIEVED"]
  /\ Atomically(c, "achieve", {})
  /\ UNCHANGED <<active, library, announced, rec, item, noticed, partial>>
DeleteContent(c) ==
  /\ \E s \in DOMAIN library.content : \E n \in DOMAIN library.content[s] :
       LET gone == library.content[s][n]
       IN /\ \A i \in Items : item[i] # None => item[i].content # gone
          /\ library' = [library EXCEPT !.content[s] = SelectSeq(@, LAMBDA x : x # gone)]
  /\ Atomically(c, "deleteContent", {})
  /\ UNCHANGED <<active, rows, announced, rec, item, noticed, partial>>

-----------------------------------------------------------------------------
(* Editing and confirming (ConfirmationService).                           *)

Edit(c) ==
  /\ \E i \in Items :
       /\ item[i] # None /\ Editable(item[i].rec)
       /\ \/ Begin(c, "reject", "update", i, None)
          \/ \E n \in {item[j].rank : j \in ItemsOf(item[i].rec)} : Begin(c, "reorder", "update", i, n)
          \/ \E s \in DOMAIN library.content : \E content \in Titles(library.content[s]) :
               Begin(c, "replace", "create", i, [content |-> content, of |-> item[i]])
  /\ UNCHANGED recVars
\* The item is written whatever has become of it and of its recommendation.
UpdateItem(c) ==
  /\ At(c, "reject", "update") \/ At(c, "reorder", "update")
  /\ item' = IF call[c].op = "reject" THEN [item EXCEPT ![call[c].arg].status = "REJECTED"]
             ELSE [item EXCEPT ![call[c].arg].rank = call[c].seen]
  /\ End(c, None, {})
  /\ UNCHANGED <<active, rows, library, announced, rec, noticed, partial>>
CreateReplacement(c) ==
  /\ At(c, "replace", "create")
  /\ LET seen == call[c].seen
     IN IF Available(seen.content)
        THEN /\ ItemRoom
             /\ item' = [item EXCEPT ![FreshItem] =
                  [seen.of EXCEPT !.content = seen.content, !.reason = "MANAGER_REPLACED",
                                  !.status = "PROPOSED", !.by = None]]
             /\ Goto(c, "override", FreshItem, {})
        ELSE UNCHANGED item /\ End(c, "referenced", {})
  /\ UNCHANGED <<active, rows, library, announced, rec, noticed, partial>>
OverrideItem(c) ==
  /\ At(c, "replace", "override")
  /\ item' = [item EXCEPT ![call[c].arg].status = "OVERRIDDEN", ![call[c].arg].by = call[c].seen]
  /\ End(c, None, {})
  /\ UNCHANGED <<active, rows, library, announced, rec, noticed, partial>>

Confirm(c) ==
  /\ \E r \in Recs : Editable(r) /\ Begin(c, "confirm", "update", r, None)
  /\ UNCHANGED recVars
ConfirmRec(c) ==
  /\ At(c, "confirm", "update")
  /\ rec' = [rec EXCEPT ![call[c].arg].status = "CONFIRMED"]
  /\ End(c, None, {<<"confirmed", call[c].arg>>})
  /\ UNCHANGED <<active, rows, library, announced, item, noticed, partial>>

\* The server goes down in the middle of a generation, or of a replacement, with the
\* events that were announced on it.
CrashRec(c) ==
  /\ call[c].op \in {"handle", "generate", "replace"} /\ call[c].pc \in {"create", "items", "override"}
  /\ "crash" \in DOMAIN left /\ left["crash"] > 0
  /\ left' = [left EXCEPT !["crash"] = @ - 1]
  /\ call' = [call EXCEPT ![c] = Idle]
  /\ partial' = IF call[c].pc = "items" THEN partial \cup {call[c].seen.rec} ELSE partial
  /\ \E kept \in SUBSET announced : announced' = kept
  /\ UNCHANGED <<active, rows, library, rec, item, noticed, crossed>>

RecStep(c) ==
  \/ Assign(c) \/ Generate(c) \/ CreateRec(c) \/ PersistItem(c) \/ Notify(c)
  \/ Achieve(c) \/ DeleteContent(c)
  \/ Edit(c) \/ UpdateItem(c) \/ CreateReplacement(c) \/ OverrideItem(c)
  \/ Confirm(c) \/ ConfirmRec(c) \/ CrashRec(c)

-----------------------------------------------------------------------------
(* Properties.                                                             *)

\* Ids, enumerations, and that an item and what overrides it are of one
\* recommendation and outcome.
RecTypeOK ==
  /\ active \in Assignments \cup {None} /\ partial \subseteq Recs
  /\ \A r \in Recs : rec[r] # None =>
       rec[r].assignment \in Assignments /\ rec[r].status \in {"PROPOSED", "CONFIRMED"}
  /\ \A i \in Items : item[i] # None =>
       /\ rec[item[i].rec] # None /\ item[i].rank \in Nat
       /\ item[i].status \in {"PROPOSED", "REJECTED", "OVERRIDDEN"}
       /\ item[i].by # None => LET j == item[i].by IN
            item[j] # None /\ item[j].rec = item[i].rec /\ item[j].outcome = item[i].outcome

\* confirmation.service.ts:162: confirming commits the recommendation: from then on
\* its items change only by the hand of a call that was under way when it happened.
ConfirmedIsFinal == \A r \in Recs :
  LET Of == [i \in ItemsOf(r) |-> item[i]]
  IN rec[r] # None /\ rec[r].status = "CONFIRMED" /\ Of' # Of =>
       \E c \in Callers : Stale(c, <<"confirmed", r>>) /\ call'[c] # call[c]

\* coverage-gap.service.ts:14: an outstanding outcome of the level is never silently
\* dropped: a generation that was not cut short has an item for it when its skill had
\* content, and reports it when it had none.
GapsAreReal == \A r \in Recs \ partial :
  rec[r] # None /\ (\A c \in Callers : ~(Generating(c) /\ call[c].pc = "items" /\ call[c].seen.rec = r)) =>
    /\ {o \in rec[r].due : <<r, o>> \in noticed} = rec[r].due \ rec[r].stocked
    /\ \A o \in rec[r].stocked : \E i \in ItemsOf(r) : item[i].outcome = o

\* Both, of every step.
RecommendationsStand == [][GapsAreReal' /\ ConfirmedIsFinal]_<<rec, item, noticed, partial, call>>
=============================================================================
