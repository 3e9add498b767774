------------------------------- MODULE Roster -------------------------------
(***************************************************************************)
(* The people of one organization: the users of the portal, who come by an *)
(* invite that their first Microsoft sign-in accepts, the teams they       *)
(* manage, and the learners on the teams.  A team may be told to wait for  *)
(* a manager who was only just invited.  Calls says how calls run beside   *)
(* each other; a sign-in writes in several steps and may end in a crash.   *)
(*                                                                         *)
(* The database contributes unique columns (an organization's Microsoft    *)
(* tenant, a user's address, the invite a team waits for, a learner's      *)
(* Microsoft account) and foreign keys that forbid a deletion.             *)
(*                                                                         *)
(* Abstracted: other organizations, departments (Catalogue), passwords and *)
(* tokens, texts, mails, and the sign-in of a user who has signed in       *)
(* before, which writes nothing of this.                                   *)
(***************************************************************************)
EXTENDS Calls, FiniteSets, TLC

CONSTANTS
  People,         \* users of the portal, each one Microsoft account and one address
  Personal,       \* those of them whose account belongs to no organization
  Invites,        \* ids of invites
  Teams,          \* ids of teams
  Accounts,       \* Microsoft accounts of learners
  Learners,       \* ids of learners
  Lists           \* what is imported: sequences of accounts

ASSUME PersonalArePeople == Personal \subseteq People

VARIABLES
  founded,        \* the organization is there
  user,           \* user[p]: [role, entra, active] or None
  invite,         \* invite[i]: [email, role, status, expired] or None
  team,           \* team[t]: [manager, waits] or None
  learner,        \* learner[l]: [account, team, status, plans] or None
  chosen,         \* chosen[t]: the manager, or the invite, that was last granted for t
  deleted,        \* ids of rows that are gone; an id is never used again
  raced           \* teams and invites caught in an overlap, or in a crash

portal == <<founded, user, invite>>
vars == <<portal, team, learner, chosen, deleted, raced, callVars>>

Init(start) ==
  /\ founded = start.founded /\ user = start.user /\ invite = start.invite
  /\ team = start.team /\ learner = start.learner
  /\ chosen = team
  /\ deleted = {} /\ raced = {}
  /\ CallsInit(start.calls)

Fresh(f, ids) == CHOOSE x \in ids \ deleted : f[x] = None
\* A bound: a row that is created finds an id left.
RowRoom(f, ids) == \E x \in ids \ deleted : f[x] = None
SignedIn(p) == user[p] # None /\ user[p].entra
\* Users are managed by an administrator, and nobody his own role.
AdminBeside(p) == \E q \in People \ {p} : user[q] # None /\ user[q].role = "ADMIN" /\ user[q].active
Pending(i) == invite[i] # None /\ invite[i].status = "PENDING"
InvitesTo(p) == {i \in Invites : invite[i] # None /\ invite[i].email = p}
WaitingFor(i) == {t \in Teams : team[t] # None /\ team[t].waits = i}
\* Mutant: only the members that a team's page counts.
ActiveMembersOf(t) == {l \in Learners : learner[l] # None /\ learner[l].team = t /\ learner[l].status # "INACTIVE"}
\* TeamRepository.countLearners.
MembersOf(t) == {l \in Learners : learner[l] # None /\ learner[l].team = t}
Placed(t) == \E l \in Learners : learner[l] # None /\ learner[l].team = t
RowsOf(account) == {l \in Learners : learner[l] # None /\ learner[l].account = account}

-----------------------------------------------------------------------------
(* A first sign-in with Microsoft (signInWithMicrosoft).                   *)

\* An invite must be pending, not expired and for this address; without one a
\* newcomer may only come to a tenant that has no organization yet.
SignIn(c) ==
  /\ \E p \in People :
       /\ ~SignedIn(p)
       /\ \/ \E i \in Invites :
               /\ Pending(i) /\ ~invite[i].expired /\ invite[i].email = p
               /\ Begin(c, "signIn", "user", [person |-> p, invite |-> i], None)
          \/ /\ p \notin Personal /\ ~founded
             /\ Begin(c, "signIn", "find", [person |-> p, invite |-> None], None)
  /\ UNCHANGED <<portal, team, learner, chosen, deleted, raced>>
\* resolveOrCreateOrganizationByTenant.
FindOrganization(c) ==
  /\ At(c, "signIn", "find")
  /\ Goto(c, IF founded THEN "user" ELSE "create", None, {})
  /\ UNCHANGED <<portal, team, learner, chosen, deleted, raced>>
CreateOrganization(c) ==
  /\ At(c, "signIn", "create")
  /\ IF founded THEN End(c, "clash", {}) ELSE Goto(c, "user", None, {<<"founded", None>>})
  /\ founded' = TRUE
  /\ UNCHANGED <<user, invite, team, learner, chosen, deleted, raced>>
WriteUser(c) ==
  /\ At(c, "signIn", "user")
  /\ LET p == call[c].arg.person
         i == call[c].arg.invite
         role == IF i = None THEN "ADMIN" ELSE invite[i].role
     IN IF user[p] # None
        THEN End(c, "clash", {}) /\ UNCHANGED <<user, raced>>
        ELSE /\ user' = [user EXCEPT ![p] = [role |-> role, entra |-> TRUE, active |-> TRUE]]
             /\ raced' = IF Stale(c, <<"invited", p>>) THEN raced \cup (InvitesTo(p) \ {i}) ELSE raced
             /\ IF i = None THEN End(c, None, {<<"user", p>>})
                ELSE Goto(c, "accept", None, {<<"user", p>>})
  /\ UNCHANGED <<founded, invite, team, learner, chosen, deleted>>
Accept(c) ==
  /\ At(c, "signIn", "accept")
  /\ LET i == call[c].arg.invite
     IN /\ invite' = [invite EXCEPT ![i].status = "ACCEPTED"]
        /\ Goto(c, "teams", None, {<<"accept", i>>})
  /\ UNCHANGED <<founded, user, team, learner, chosen, deleted, raced>>
FindTeams(c) ==
  /\ At(c, "signIn", "teams")
  /\ LET waiting == WaitingFor(call[c].arg.invite)
     IN IF waiting = {} THEN End(c, None, {}) ELSE Reread(c, "manager", waiting)
  /\ UNCHANGED <<portal, team, learner, chosen, deleted, raced>>
\* Whatever has become of the team since; only one can wait for an invite.
FillManager(c) ==
  /\ At(c, "signIn", "manager")
  /\ \E t \in call[c].seen :
       IF team[t] = None
       THEN End(c, "missing", {}) /\ UNCHANGED <<team, raced>>
       ELSE /\ team' = [team EXCEPT ![t] = [manager |-> call[c].arg.person, waits |-> None]]
            /\ raced' = IF Stale(c, <<"choice", t>>) THEN raced \cup {t} ELSE raced
            /\ End(c, None, {})
  /\ UNCHANGED <<portal, learner, chosen, deleted>>
\* The server goes down with a sign-in that has written its user; there is no retry.
Crash(c) ==
  /\ call[c].op = "signIn" /\ call[c].pc \in {"accept", "teams", "manager"}
  /\ "crash" \in DOMAIN left /\ left["crash"] > 0
  /\ left' = [left EXCEPT !["crash"] = @ - 1]
  /\ call' = [call EXCEPT ![c] = Idle]
  /\ raced' = raced \cup {call[c].arg.invite}
  /\ UNCHANGED <<portal, team, learner, chosen, deleted, crossed>>

-----------------------------------------------------------------------------
(* Invites and users.                                                      *)

\* An invite that has expired is still pending here.
CreateInvite(c) ==
  /\ \E p \in People, role \in {"DEPARTMENT_MANAGER", "CONTENT_CREATOR"} :
       /\ AdminBeside(p) /\ user[p] = None /\ \A i \in Invites : Pending(i) => invite[i].email # p
       /\ Begin(c, "createInvite", "write", [email |-> p, role |-> role], None)
  /\ UNCHANGED <<portal, team, learner, chosen, deleted, raced>>
InsertInvite(c) ==
  /\ At(c, "createInvite", "write") /\ RowRoom(invite, Invites)
  /\ LET i == Fresh(invite, Invites)
         p == call[c].arg.email
     IN /\ invite' = [invite EXCEPT ![i] = call[c].arg @@ [status |-> "PENDING", expired |-> FALSE]]
        /\ raced' = IF Stale(c, <<"user", p>>) THEN raced \cup {i}
                    ELSE IF Stale(c, <<"invited", p>>) THEN raced \cup {i} \cup InvitesTo(p) ELSE raced
        /\ End(c, None, {<<"invited", p>>})
  /\ UNCHANGED <<founded, user, team, learner, chosen, deleted>>
RevokeInvite(c) ==
  /\ \E i \in Invites : Pending(i) /\ Begin(c, "revoke", "write", i, None)
  /\ UNCHANGED <<portal, team, learner, chosen, deleted, raced>>
SaveRevoked(c) ==
  /\ At(c, "revoke", "write")
  /\ invite' = [invite EXCEPT ![call[c].arg].status = "REVOKED"]
  /\ End(c, None, {})
  /\ UNCHANGED <<founded, user, team, learner, chosen, deleted, raced>>
Expire(c) ==
  /\ \E i \in Invites :
       /\ Pending(i) /\ ~invite[i].expired
       /\ invite' = [invite EXCEPT ![i].expired = TRUE]
  /\ Atomically(c, "expire", {})
  /\ UNCHANGED <<founded, user, team, learner, chosen, deleted, raced>>

\* An administrator adds a user, who has not signed in with Microsoft.
CreateUser(c) ==
  /\ \E p \in People, role \in {"DEPARTMENT_MANAGER", "CONTENT_CREATOR", "ADMIN"} :
       AdminBeside(p) /\ user[p] = None /\ Begin(c, "createUser", "write", [person |-> p, role |-> role], None)
  /\ UNCHANGED <<portal, team, learner, chosen, deleted, raced>>
InsertUser(c) ==
  /\ At(c, "createUser", "write")
  /\ LET p == call[c].arg.person
     IN IF user[p] # None
        THEN End(c, "clash", {}) /\ UNCHANGED user
        ELSE /\ user' = [user EXCEPT ![p] = [role |-> call[c].arg.role, entra |-> FALSE, active |-> TRUE]]
             /\ End(c, None, {<<"user", p>>})
  /\ UNCHANGED <<founded, invite, team, learner, chosen, deleted, raced>>
UpdateUser(c) ==
  /\ \E p \in People :
       /\ AdminBeside(p) /\ user[p] # None
       /\ \/ \E role \in {"DEPARTMENT_MANAGER", "CONTENT_CREATOR", "ADMIN"} :
               user' = [user EXCEPT ![p].role = role]
          \/ user' = [user EXCEPT ![p].active = ~@]
  /\ Atomically(c, "updateUser", {})
  /\ UNCHANGED <<founded, invite, team, learner, chosen, deleted, raced>>

-----------------------------------------------------------------------------
(* Teams.                                                                  *)

\* Mutant: an invite that is no longer pending will do.
ManagerChoicesOfAnyInvite ==
  {[manager |-> p, waits |-> None] : p \in {q \in People : user[q] # None /\ user[q].role = "DEPARTMENT_MANAGER"}}
    \cup {[manager |-> None, waits |-> i] : i \in {j \in Invites : invite[j] # None /\ invite[j].role = "DEPARTMENT_MANAGER"}}
\* resolveManagerId, resolvePendingManagerInviteId.
ManagerChoices ==
  {[manager |-> p, waits |-> None] : p \in {q \in People : user[q] # None /\ user[q].role = "DEPARTMENT_MANAGER"}}
    \cup {[manager |-> None, waits |-> i] : i \in {j \in Invites : Pending(j) /\ invite[j].role = "DEPARTMENT_MANAGER"}}
WaitedForBy(i, others) == i # None /\ WaitingFor(i) \cap others # {}
\* A team that takes up an invite that was accepted since the call looked at it.
MarkChoice(c, t, choice) ==
  raced' = IF choice.waits # None /\ Stale(c, <<"accept", choice.waits>>) THEN raced \cup {t} ELSE raced \ {t}

CreateTeam(c) ==
  /\ \E choice \in ManagerChoices : Begin(c, "createTeam", "write", choice, None)
  /\ UNCHANGED <<portal, team, learner, chosen, deleted, raced>>
InsertTeam(c) ==
  /\ At(c, "createTeam", "write") /\ RowRoom(team, Teams)
  /\ LET t == Fresh(team, Teams)
         choice == call[c].arg
     IN IF WaitedForBy(choice.waits, Teams)
        THEN End(c, "clash", {}) /\ UNCHANGED <<team, chosen, raced>>
        ELSE /\ team' = [team EXCEPT ![t] = choice]
             /\ chosen' = [chosen EXCEPT ![t] = choice]
             /\ MarkChoice(c, t, choice)
             /\ End(c, None, {})
  /\ UNCHANGED <<portal, learner, deleted>>
UpdateTeam(c) ==
  /\ \E t \in Teams, choice \in ManagerChoices :
       team[t] # None /\ Begin(c, "updateTeam", "write", [team |-> t, choice |-> choice], None)
  /\ UNCHANGED <<portal, team, learner, chosen, deleted, raced>>
\* Mutant: a manager leaves the invite in place.
ChosenBesideInvite(old, choice) ==
  IF choice.waits = None THEN [old EXCEPT !.manager = choice.manager] ELSE choice
\* A manager clears the invite, an invite the manager.
Chosen(old, choice) == choice
SaveTeam(c) ==
  /\ At(c, "updateTeam", "write")
  /\ LET t == call[c].arg.team
         choice == call[c].arg.choice
         result == FirstOf(<<Problem(team[t] = None, "missing"),
                             Problem(WaitedForBy(choice.waits, Teams \ {t}), "clash")>>)
     IN IF result # None
        THEN End(c, result, {}) /\ UNCHANGED <<team, chosen, raced>>
        ELSE /\ team' = [team EXCEPT ![t] = Chosen(@, choice)]
             /\ chosen' = [chosen EXCEPT ![t] = choice]
             /\ MarkChoice(c, t, choice)
             /\ End(c, None, {<<"choice", t>>})
  /\ UNCHANGED <<portal, learner, deleted>>
DeleteTeam(c) ==
  /\ \E t \in Teams : team[t] # None /\ MembersOf(t) = {} /\ Begin(c, "deleteTeam", "write", t, None)
  /\ UNCHANGED <<portal, team, learner, chosen, deleted, raced>>
RemoveTeam(c) ==
  /\ At(c, "deleteTeam", "write")
  /\ LET t == call[c].arg
         result == FirstOf(<<Problem(team[t] = None, "missing"), Problem(Placed(t), "referenced")>>)
     IN IF result # None
        THEN End(c, result, {}) /\ UNCHANGED <<team, deleted>>
        ELSE /\ team' = [team EXCEPT ![t] = None]
             /\ deleted' = deleted \cup {t}
             /\ End(c, None, {<<"deleted", t>>})
  /\ UNCHANGED <<portal, learner, chosen, raced>>

-----------------------------------------------------------------------------
(* Learners, each a Microsoft account that is on one team.                 *)

Insertion(account, t) == FirstOf(<<Problem(RowsOf(account) # {}, "clash"), Problem(team[t] = None, "referenced")>>)
Added(account, t, status) ==
  [learner EXCEPT ![Fresh(learner, Learners)] = [account |-> account, team |-> t, status |-> status, plans |-> "none"]]

\* Account after account; one that is a learner already is passed over.
Import(c) ==
  /\ \E t \in Teams, accounts \in Lists :
       team[t] # None /\ Begin(c, "import", "next", [team |-> t, accounts |-> accounts], None)
  /\ UNCHANGED <<portal, team, learner, chosen, deleted, raced>>
NextEntry(c) ==
  /\ At(c, "import", "next")
  /\ LET todo == call[c].seen
         rest == IF todo = None THEN call[c].arg.accounts ELSE todo
     IN IF rest = <<>> THEN End(c, None, {})
        ELSE IF RowsOf(rest[1]) # {} THEN Goto(c, "next", Tail(rest), {})
        ELSE Goto(c, "insert", rest, {})
  /\ UNCHANGED <<portal, team, learner, chosen, deleted, raced>>
InsertLearner(c) ==
  /\ At(c, "import", "insert") /\ RowRoom(learner, Learners)
  /\ LET account == call[c].seen[1]
         t == call[c].arg.team
         result == Insertion(account, t)
     IN IF result # None
        THEN End(c, result, {}) /\ UNCHANGED learner
        ELSE /\ learner' = Added(account, t, "ACTIVE")
             /\ Goto(c, "next", Tail(call[c].seen), {<<"account", account>>, <<"members", t>>})
  /\ UNCHANGED <<portal, team, chosen, deleted, raced>>

\* The guest's account comes from Graph; a row of his that is INACTIVE is used again.
InviteLearner(c) ==
  /\ \E t \in Teams, account \in Accounts :
       /\ team[t] # None /\ \A l \in RowsOf(account) : learner[l].status = "INACTIVE"
       /\ Begin(c, "inviteLearner", "write", [team |-> t, account |-> account], RowsOf(account))
  /\ UNCHANGED <<portal, team, learner, chosen, deleted, raced>>
SaveInvited(c) ==
  /\ At(c, "inviteLearner", "write")
  /\ LET t == call[c].arg.team
         account == call[c].arg.account
         found == call[c].seen
         result == IF found = {} THEN Insertion(account, t)
                   ELSE FirstOf(<<Problem(\E l \in found : learner[l] = None, "missing"),
                                  Problem(team[t] = None, "referenced")>>)
     IN /\ End(c, result, IF result = None THEN {<<"account", account>>, <<"members", t>>} ELSE {})
        /\ found = {} => RowRoom(learner, Learners)
        /\ learner' = IF result # None THEN learner
                      ELSE IF found = {} THEN Added(account, t, "PENDING_INVITE")
                      ELSE [l \in Learners |-> IF l \in found
                              THEN [learner[l] EXCEPT !.team = t, !.status = "PENDING_INVITE"] ELSE learner[l]]
  /\ UNCHANGED <<portal, team, chosen, deleted, raced>>

\* deactivate, reactivate; the learner stays on the team.
SetStatus(c) ==
  /\ \E l \in Learners :
       /\ learner[l] # None
       /\ learner' = [learner EXCEPT ![l].status = IF @ = "INACTIVE" THEN "ACTIVE" ELSE "INACTIVE"]
  /\ Atomically(c, "setStatus", {})
  /\ UNCHANGED <<portal, team, chosen, deleted, raced>>

\* The learner's plans go before the sessions, which refer to them.
RemoveLearner(c) ==
  /\ \E l \in Learners : learner[l] # None /\ Begin(c, "removeLearner", "write", l, None)
  /\ UNCHANGED <<portal, team, learner, chosen, deleted, raced>>
DeleteLearner(c) ==
  /\ At(c, "removeLearner", "write")
  /\ LET l == call[c].arg
         result == IF learner[l] = None THEN "missing"
                   ELSE Problem(learner[l].plans = "scheduled", "referenced")
     IN /\ End(c, result, IF result = None THEN {<<"deleted", l>>} ELSE {})
        /\ learner' = IF result = None THEN [learner EXCEPT ![l] = None] ELSE learner
        /\ deleted' = IF result = None THEN deleted \cup {l} ELSE deleted
  /\ UNCHANGED <<portal, team, chosen, raced>>
\* Plans are made for the learner, later with sessions; TrainingPlans says how.
Plan(c) ==
  /\ \E l \in Learners :
       /\ learner[l] # None /\ learner[l].plans # "scheduled"
       /\ learner' = [learner EXCEPT ![l].plans = IF @ = "none" THEN "draft" ELSE "scheduled"]
  /\ Atomically(c, "plan", {})
  /\ UNCHANGED <<portal, team, chosen, deleted, raced>>

-----------------------------------------------------------------------------
Step(c) ==
  \/ SignIn(c) \/ FindOrganization(c) \/ CreateOrganization(c) \/ WriteUser(c)
  \/ Accept(c) \/ FindTeams(c) \/ FillManager(c) \/ Crash(c)
  \/ CreateInvite(c) \/ InsertInvite(c) \/ RevokeInvite(c) \/ SaveRevoked(c) \/ Expire(c)
  \/ CreateUser(c) \/ InsertUser(c) \/ UpdateUser(c)
  \/ CreateTeam(c) \/ InsertTeam(c) \/ UpdateTeam(c) \/ SaveTeam(c) \/ DeleteTeam(c) \/ RemoveTeam(c)
  \/ Import(c) \/ NextEntry(c) \/ InsertLearner(c) \/ InviteLearner(c) \/ SaveInvited(c)
  \/ SetStatus(c) \/ RemoveLearner(c) \/ DeleteLearner(c) \/ Plan(c)

-----------------------------------------------------------------------------
(* Properties.                                                             *)

\* The types of all variables, and what the schema demands: a learner's team is
\* there, an account is one learner at most, and no two teams wait for one invite.
TypeOK ==
  /\ \A p \in People : user[p] # None =>
       /\ user[p].role \in {"ADMIN", "DEPARTMENT_MANAGER", "CONTENT_CREATOR"}
       /\ user[p].entra \in BOOLEAN /\ user[p].active \in BOOLEAN /\ founded
  /\ \A i \in Invites : invite[i] # None =>
       /\ invite[i].email \in People /\ invite[i].expired \in BOOLEAN
       /\ invite[i].status \in {"PENDING", "ACCEPTED", "REVOKED"}
  /\ \A t \in Teams : team[t] # None =>
       /\ team[t].manager # None => user[team[t].manager] # None
       /\ team[t].waits # None => invite[team[t].waits] # None
       /\ None \in {team[t].manager, team[t].waits}
  /\ \A i \in Invites : Cardinality(WaitingFor(i)) <= 1
  /\ \A l \in Learners : learner[l] # None =>
       /\ team[learner[l].team] # None /\ RowsOf(learner[l].account) = {l}
       /\ learner[l].status \in {"ACTIVE", "INACTIVE", "PENDING_INVITE"}
       /\ learner[l].plans \in {"none", "draft", "scheduled"}
  /\ deleted \subseteq Teams \cup Learners /\ raced \subseteq Teams \cup Invites
  /\ \A c \in Callers :
       /\ call[c].op \in DOMAIN left \cup {None}
       /\ call[c].result \in {None, "clash", "referenced", "missing"}

\* schema.prisma:341-344, team.service.ts:220: a team has the manager it was last
\* given; one told to wait for an invited manager gets that manager when the invite
\* is accepted, and waits on only while it is not.  Exempt are a team that was
\* changed while the invite was being accepted, and one whose invite was caught in a
\* crash or in a second invite to the same address.
TeamsGetTheirManager == \A t \in Teams : team[t] # None =>
  LET i == chosen[t].waits
      accepting == \E c \in Callers : call[c].op = "signIn" /\ call[c].arg.invite = i /\ call[c].pc # "idle"
  IN \/ t \in raced \/ i \in raced
     \/ i = None /\ team[t] = chosen[t]
     \/ i # None /\ team[t] = [manager |-> invite[i].email, waits |-> None]
     \/ /\ i # None /\ team[t] = chosen[t]
        /\ invite[i].status = "REVOKED" \/ ~SignedIn(invite[i].email) \/ accepting

\* The calls that are modelled here; a module that extends this one has others.
RosterCalls == {"signIn", "createUser", "createTeam", "updateTeam", "deleteTeam", "import", "inviteLearner", "removeLearner"}
\* A call that passed its own checks is refused by the database only for what others
\* wrote since; or, unchecked, because an administrator has entered the invited
\* address, because another team waits for the same invite, or because the learner
\* has sessions (learner.repository.ts:72-81 means to delete those first).
RefusedForAReason == [][\A c \in Callers :
  LET arg == call[c].arg
      result == call'[c].result
      while(kind, x) == Stale(c, <<kind, x>>)
      others(t) == {u \in Teams \ {t} : team[u] # None}
      awaited(choice, t) == \E u \in others(t) : team[u].waits = choice.waits
  IN call[c].op \in RosterCalls /\ call[c].pc # "idle" /\ call'[c].pc = "idle" /\ result # None =>
     \/ /\ call[c].op = "signIn"
        /\ \/ call[c].pc = "create" /\ while("founded", None)
           \/ call[c].pc = "user" /\ (while("user", arg.person) \/ ~SignedIn(arg.person))
           \/ call[c].pc = "manager" /\ \E t \in call[c].seen : while("deleted", t)
     \/ call[c].op = "createUser" /\ while("user", arg.person)
     \/ call[c].op = "createTeam" /\ awaited(arg, None)
     \/ call[c].op = "updateTeam" /\ (while("deleted", arg.team) \/ awaited(arg.choice, arg.team))
     \/ call[c].op = "deleteTeam" /\ (while("deleted", arg) \/ while("members", arg))
     \/ /\ call[c].op = "import"
        /\ \/ result = "clash" /\ while("account", call[c].seen[1])
           \/ result = "referenced" /\ while("deleted", arg.team)
     \/ /\ call[c].op = "inviteLearner"
        /\ \/ result = "clash" /\ while("account", arg.account)
           \/ result = "referenced" /\ while("deleted", arg.team)
           \/ result = "missing" /\ \E l \in call[c].seen : while("deleted", l)
     \/ /\ call[c].op = "removeLearner"
        /\ \/ result = "missing" /\ while("deleted", arg)
           \/ result = "referenced" /\ learner[arg].plans = "scheduled"]_vars
=============================================================================
