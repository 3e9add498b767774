--------------------------- MODULE TrainingPlans ---------------------------
(***************************************************************************)
(* The training plans of one learner and the managers' calls on them:      *)
(* create, update, suggest, confirm, cancel, remove, the plan's copy of    *)
(* its track, rescheduling a session, and withdrawing the learner.  One    *)
(* action per await that another call can tell apart; a call that fails    *)
(* keeps what it has written.  The jobs that create meetings and the       *)
(* completion of sessions are the environment: MeetingLifecycle and        *)
(* SessionCompletion say how they go.                                      *)
(*                                                                         *)
(* Abstracted: LIVE stands for SCHEDULED, INVITED and IN_PROGRESS, which   *)
(* every test of this code takes together, COMPLETED for NO_SHOW as well;  *)
(* a day is a number; a plan is numbered in order of creation.             *)
(***************************************************************************)
EXTENDS PlanBuilding

CONSTANTS
  Callers,      \* requests that may be served at once
  Plans,        \* 1 .. the most plans the learner ever gets
  Ids,          \* ids of sessions; one that nothing refers to is used again
  Cases         \* what is there at the start, and what is asked for

Operations == {"create", "update", "suggest", "confirm", "cancel", "remove",
               "snapshot", "removeSkill", "reschedule", "withdraw"}

ASSUME PlansAssumption ==
  /\ IsFiniteSet(Plans) /\ Plans = 1 .. Cardinality(Plans)
  /\ Ids \subseteq Nat
  /\ None \notin Nat \cup Operations
ASSUME CasesAssumption ==
  \A k \in Cases : \A i \in DOMAIN k.rows :
    "status" \in DOMAIN k.rows[i] /\ k.rows[i].status \in {"NOT_STARTED", "IN_PROGRESS", "ACHIEVED"}

VARIABLES
  case,       \* the Case of this behaviour
  rows,       \* the learner's outcome rows
  assigned,   \* has the learner an active assignment?
  active,     \* is the learner ACTIVE?
  plan,       \* plan[p]: the row of plan p, and its copy of the track
  sessions,   \* the session rows
  jobs,       \* sessions with a meeting.create job queued
  call,       \* call[c]: how far c's call has got
  left,       \* left[op]: how often op may still be called, a bound
  crossed     \* pairs of operations that were in flight together; "end" is a session's

vars == <<case, rows, assigned, active, plan, sessions, jobs, call, left, crossed>>

-----------------------------------------------------------------------------
(* The rows.                                                               *)

\* Nothing in the code writes ACTIVE or COMPLETED to a plan.
PlanStatus == {"DRAFT", "CONFIRMED", "CANCELLED"}
Editable == {"DRAFT", "CONFIRMED"}
Exists(p) == plan[p].status \in PlanStatus
Open(p) == plan[p].status \in Editable

OfPlan(p) == {s \in sessions : s.plan = p}
Shown(p) == {s \in OfPlan(p) : s.status # "CANCELLED"}
\* Mutant: sessions whose meeting is not there yet are not cancelled.
CancellableMeetings(S) == {s.id : s \in {t \in S : t.status = "LIVE" /\ t.graph}}
Cancellable(S) == {s.id : s \in {t \in S : t.status = "LIVE"}}
SetStatus(id, status) ==
  {IF s.id = id THEN [s EXCEPT !.status = status] ELSE s : s \in sessions}
IsStatus(id, status) == \E s \in sessions : s.id = id /\ s.status = status

Idle == [op |-> None, pc |-> "idle", plan |-> None, seen |-> None, todo |-> {},
         proposal |-> <<>>, plans |-> {}, failed |-> FALSE, session |-> None, day |-> None]
InFlight(op) == {c \in Callers : call[c].op = op}
Referenced == {s.id : s \in sessions} \cup jobs \cup UNION {call[c].todo : c \in Callers}
                \cup {call[c].session : c \in Callers}
Free == Ids \ Referenced

Init ==
  /\ case \in Cases
  /\ rows = case.rows
  /\ assigned = TRUE
  /\ active = TRUE
  /\ plan = [p \in Plans |->
       [status |-> IF p = 1 /\ case.planned THEN "DRAFT" ELSE "none",
        days |-> case.days[1], start |-> 1, tree |-> None]]
  /\ sessions = {}
  /\ jobs = {}
  /\ call = [c \in Callers |-> Idle]
  /\ left = [op \in Operations |-> IF op \in DOMAIN case.calls THEN case.calls[op] ELSE 0]
  /\ crossed = {}

-----------------------------------------------------------------------------
(* Calls.                                                                  *)

Asked(c, op) ==
  /\ call[c].pc = "idle" /\ left[op] > 0
  /\ left' = [left EXCEPT ![op] = @ - 1]
\* A call starts with its first read; from here others may run between its awaits.
Begin(c, op, state) ==
  /\ Asked(c, op)
  /\ call' = [call EXCEPT ![c] = [state EXCEPT !.op = op]]
  /\ crossed' = crossed \cup {{op, call[d].op} : d \in {e \in Callers : call[e].pc # "idle"}}
\* A call of one write, or whose reads and write nothing can come between.
Atomically(c, op) == Asked(c, op) /\ UNCHANGED <<call, crossed>>
At(c, op, pc) == call[c].pc = pc /\ call[c].op = op
Goto(c, state) == call' = [call EXCEPT ![c] = state] /\ UNCHANGED <<left, crossed>>
End(c) == Goto(c, Idle)

people == <<rows, assigned, active>>
data == <<people, plan, sessions, jobs>>

\* TrainingPlanService.create: the plan to cancel first, if any.
Create(c) ==
  /\ Cardinality(InFlight("create")) < Cardinality({p \in Plans : plan[p].status = "none"})
  /\ LET open == {p \in Plans : Open(p)}
     IN Begin(c, "create",
              IF open = {} THEN [Idle EXCEPT !.pc = "sessions"]
              ELSE [Idle EXCEPT !.pc = "cancel", !.plan = CHOOSE p \in open : \A q \in open : q <= p])
  /\ UNCHANGED <<case, data>>

\* Its end: the learner needs an active assignment, but not to be ACTIVE.
InsertPlan(c) ==
  /\ At(c, "create", "sessions") /\ call[c].todo = {}
  /\ IF assigned
     THEN LET p == CHOOSE q \in Plans : /\ plan[q].status = "none"
                                        /\ \A r \in Plans : r < q => plan[r].status # "none"
          IN \E d \in DOMAIN case.days :
               plan' = [plan EXCEPT ![p] = [@ EXCEPT !.status = "DRAFT", !.days = case.days[d]]]
     ELSE UNCHANGED plan
  /\ End(c) /\ UNCHANGED <<case, people, sessions, jobs>>

Update(c) ==
  /\ Atomically(c, "update")
  /\ \E p \in Plans, d \in DOMAIN case.days, start \in 1 .. 2 :
       /\ Open(p)
       /\ plan' = [plan EXCEPT ![p].days = case.days[d], ![p].start = start]
  /\ UNCHANGED <<case, people, sessions, jobs>>

\* cancel, on its own or for create and withdraw: the row and then its sessions.
Cancel(c) ==
  /\ \E p \in Plans : Exists(p) /\ Begin(c, "cancel", [Idle EXCEPT !.pc = "cancel", !.plan = p])
  /\ UNCHANGED <<case, data>>

\* A withdrawal notes the failure and goes on with the learner's other plans.
Fail(c) ==
  Goto(c, IF call[c].op = "withdraw" THEN [call[c] EXCEPT !.pc = "withdraw", !.failed = TRUE,
                                                         !.todo = {}]
          ELSE Idle)

CancelPlan(c) ==
  /\ call[c].pc = "cancel"
  /\ LET p == call[c].plan IN
     IF Open(p)
     THEN /\ plan' = [plan EXCEPT ![p].status = "CANCELLED"]
          /\ Goto(c, [call[c] EXCEPT !.pc = "sessions", !.todo = Cancellable(OfPlan(p))])
     ELSE Fail(c) /\ UNCHANGED plan
  /\ UNCHANGED <<case, people, sessions, jobs>>

\* SessionService.cancel for one of the sessions the call has listed.  It throws
\* for a row that is gone or ended; the last sweep of a withdrawal goes on.
CancelSession(c) ==
  /\ call[c].pc \in {"sessions", "sweep"}
  /\ \E id \in call[c].todo :
       IF IsStatus(id, "LIVE") \/ IsStatus(id, "CANCELLED")
       THEN /\ sessions' = SetStatus(id, "CANCELLED")
            /\ jobs' = jobs \ {id}
            /\ Goto(c, [call[c] EXCEPT !.todo = @ \ {id}])
       ELSE /\ IF call[c].pc = "sweep"
               THEN Goto(c, [call[c] EXCEPT !.todo = @ \ {id}, !.failed = TRUE])
               ELSE Fail(c)
            /\ UNCHANGED <<sessions, jobs>>
  /\ UNCHANGED <<case, people, plan>>

CancelDone(c) ==
  /\ At(c, "cancel", "sessions") /\ call[c].todo = {}
  /\ End(c) /\ UNCHANGED <<case, data>>

-----------------------------------------------------------------------------
(* Suggest.                                                                *)

SuggestPlan(c) ==
  /\ \E p \in Plans :
       Open(p) /\ Begin(c, "suggest", [Idle EXCEPT !.pc = "list", !.plan = p, !.seen = plan[p]])
  /\ UNCHANGED <<case, data>>

\* findSessionsByPlan, for suggest, confirm and remove.
List(c) ==
  /\ call[c].pc = "list"
  /\ LET shown == Shown(call[c].plan)
         refused == CASE call[c].op = "suggest" -> FALSE
                      [] call[c].op = "confirm" -> shown = {}
                      [] call[c].op = "remove" -> \E s \in shown : s.status = "COMPLETED"
         wanted == IF call[c].op = "confirm" THEN {s.id : s \in shown} ELSE Cancellable(shown)
     IN IF refused THEN End(c)
        ELSE Goto(c, [call[c] EXCEPT !.todo = wanted,
                                     !.pc = IF call[c].op = "confirm" THEN "write" ELSE "sessions"])
  /\ UNCHANGED <<case, data>>

\* What PlanBuilderService reads and proposes for plan p: nothing without a copy
\* of the track or an active assignment.
Material(p) == IF plan[p].tree # None THEN FromSnapshot(plan[p].tree, case.library)
               ELSE FromCatalogue(rows, case.library)
Proposal(p, days) == Suggest(Material(p), days, case.minutes)

\* Mutant: a confirmed plan is not reopened.
BuildWithoutReopening(c) ==
  /\ At(c, "suggest", "sessions") /\ call[c].todo = {}
  /\ LET p == call[c].plan
         proposal == Proposal(p, call[c].seen.days)
     IN IF (plan[p].tree = None /\ ~assigned) \/ proposal.uncovered > 0 THEN End(c)
        ELSE Goto(c, [call[c] EXCEPT !.pc = "replace", !.proposal = proposal.sessions])
  /\ UNCHANGED <<case, data>>
\* The plan is reopened by what suggest read of it, whatever it is now; then the
\* sessions are proposed, or refused when a skill would get none.
Build(c) ==
  /\ At(c, "suggest", "sessions") /\ call[c].todo = {}
  /\ LET p == call[c].plan
         reopen == call[c].seen.status # "DRAFT"
         proposal == Proposal(p, call[c].seen.days)
     IN IF reopen /\ ~Exists(p) THEN End(c) /\ UNCHANGED plan
        ELSE /\ plan' = IF reopen THEN [plan EXCEPT ![p].status = "DRAFT"] ELSE plan
             /\ IF (plan[p].tree = None /\ ~assigned) \/ proposal.uncovered > 0
                THEN End(c)
                ELSE Goto(c, [call[c] EXCEPT !.pc = "replace", !.proposal = proposal.sessions])
  /\ UNCHANGED <<case, people, sessions, jobs>>

\* replaceSessionsForPlan: one transaction that holds the plan's row.  A session
\* with a meeting stays, for the job that withdraws it.
Kept(p) == {s \in sessions : s.plan # p \/ s.graph}
Replace(c) ==
  /\ At(c, "suggest", "replace")
  /\ LET p == call[c].plan
         proposed == call[c].proposal
         ids == {f \in [DOMAIN proposed -> Free] : IsInjective(f)}
         new == CHOOSE f \in ids : TRUE
     IN IF ~Exists(p) THEN UNCHANGED sessions
        ELSE /\ ids # {}
             /\ sessions' = Kept(p) \cup
                  {[id |-> new[n], plan |-> p, seq |-> n, day |-> call[c].seen.start + n - 1,
                    outcomes |-> ToSet(proposed[n].outcomes), status |-> "LIVE",
                    graph |-> FALSE] : n \in DOMAIN proposed}
  /\ End(c) /\ UNCHANGED <<case, people, plan, jobs>>

-----------------------------------------------------------------------------
(* Confirm, remove, reschedule, withdraw, and the plan's copy of the track.*)

Confirm(c) ==
  /\ \E p \in Plans :
       /\ plan[p].status = "DRAFT"
       /\ Begin(c, "confirm", [Idle EXCEPT !.pc = "list", !.plan = p])
  /\ UNCHANGED <<case, data>>

\* The status is written over whatever it is now, a job queued per listed session.
ConfirmWrites(c) ==
  /\ At(c, "confirm", "write")
  /\ IF Exists(call[c].plan)
     THEN /\ plan' = [plan EXCEPT ![call[c].plan].status = "CONFIRMED"]
          /\ jobs' = jobs \cup call[c].todo
     ELSE UNCHANGED <<plan, jobs>>
  /\ End(c) /\ UNCHANGED <<case, people, sessions>>

RemovePlan(c) ==
  /\ \E p \in Plans : Exists(p) /\ Begin(c, "remove", [Idle EXCEPT !.pc = "list", !.plan = p])
  /\ UNCHANGED <<case, data>>

DeleteSessions(c) ==
  /\ At(c, "remove", "sessions") /\ call[c].todo = {}
  /\ sessions' = sessions \ OfPlan(call[c].plan)
  /\ Goto(c, [call[c] EXCEPT !.pc = "delete"])
  /\ UNCHANGED <<case, people, plan, jobs>>

\* A session that came since holds the plan's row: the delete fails.
DeletePlan(c) ==
  /\ At(c, "remove", "delete")
  /\ plan' = IF Exists(call[c].plan) /\ OfPlan(call[c].plan) = {}
             THEN [plan EXCEPT ![call[c].plan].status = "deleted", ![call[c].plan].tree = None]
             ELSE plan
  /\ End(c) /\ UNCHANGED <<case, people, sessions, jobs>>

\* SessionService.reschedule: assertNoSameDaySession, then the write.
DayTaken(day, id) == \E s \in sessions : s.id # id /\ s.day = day /\ s.status # "CANCELLED"
Reschedule(c) ==
  /\ \E s \in sessions, day \in 1 .. case.horizon :
       /\ s.status = "LIVE" /\ day # s.day /\ ~DayTaken(day, s.id)
       /\ Begin(c, "reschedule", [Idle EXCEPT !.pc = "move", !.session = s.id, !.day = day])
  /\ UNCHANGED <<case, data>>

Move(c) ==
  /\ At(c, "reschedule", "move")
  /\ sessions' = {IF s.id = call[c].session THEN [s EXCEPT !.day = call[c].day] ELSE s : s \in sessions}
  /\ End(c) /\ UNCHANGED <<case, people, plan, jobs>>

\* deactivateLearner: withdrawLearnerFromTraining, cancelAllForLearner, deactivate.
Withdraw(c) ==
  /\ Begin(c, "withdraw", [Idle EXCEPT !.pc = "withdraw", !.plans = {p \in Plans : Open(p)}])
  /\ UNCHANGED <<case, data>>

NextPlan(c) ==
  /\ \/ At(c, "withdraw", "withdraw")
     \/ At(c, "withdraw", "sessions") /\ call[c].todo = {}
  /\ LET open == call[c].plans IN
     IF open # {}
     THEN LET p == CHOOSE q \in open : \A r \in open : q <= r
          IN /\ Goto(c, [call[c] EXCEPT !.pc = "cancel", !.plan = p, !.plans = open \ {p}])
             /\ UNCHANGED assigned
     ELSE /\ assigned' = (assigned /\ call[c].failed)
          /\ Goto(c, [call[c] EXCEPT !.pc = "sweep", !.todo = Cancellable(sessions)])
  /\ UNCHANGED <<case, rows, active, plan, sessions, jobs>>

Deactivate(c) ==
  /\ At(c, "withdraw", "sweep") /\ call[c].todo = {}
  /\ active' = (active /\ call[c].failed)
  /\ End(c) /\ UNCHANGED <<case, rows, assigned, plan, sessions, jobs>>

\* PlanSnapshotService.createFromMasterTrack: one copy per plan.
CopyTrack(c) ==
  /\ Atomically(c, "snapshot")
  /\ \E p \in Plans : /\ Exists(p) /\ plan[p].tree = None
                      /\ plan' = [plan EXCEPT ![p].tree = case.track]
  /\ UNCHANGED <<case, people, sessions, jobs>>

RemoveSkill(c) ==
  /\ Atomically(c, "removeSkill")
  /\ \E p \in Plans : /\ Exists(p) /\ plan[p].tree # None
                      /\ \E k \in DOMAIN plan[p].tree : plan' = [plan EXCEPT ![p].tree[k].removed = TRUE]
  /\ UNCHANGED <<case, people, sessions, jobs>>

-----------------------------------------------------------------------------
(* The environment.                                                        *)

MeetingCreated(id) ==
  /\ id \in jobs
  /\ jobs' = jobs \ {id}
  /\ sessions' = {IF s.id = id /\ s.status = "LIVE" THEN [s EXCEPT !.graph = TRUE] ELSE s : s \in sessions}
  /\ UNCHANGED <<case, people, plan, call, left, crossed>>

\* Every outcome of the session gets its verdict, in the active assignment's row.
SessionEnds(s, achieved) ==
  /\ s \in sessions /\ s.status = "LIVE" /\ s.graph
  /\ sessions' = SetStatus(s.id, "COMPLETED")
  /\ rows' = [i \in DOMAIN rows |->
       IF rows[i].outcome \in s.outcomes /\ rows[i].active /\ assigned
       THEN [rows[i] EXCEPT !.status = IF achieved THEN "ACHIEVED" ELSE "IN_PROGRESS", !.attempts = 1]
       ELSE rows[i]]
  /\ crossed' = crossed \cup {{call[c].op, "end"} : c \in {d \in Callers : s.id \in call[d].todo}}
  /\ UNCHANGED <<case, assigned, active, plan, jobs, call, left>>

Next ==
  \/ \E c \in Callers :
       \/ Create(c) \/ InsertPlan(c) \/ Update(c) \/ Cancel(c) \/ CancelPlan(c)
       \/ CancelSession(c) \/ CancelDone(c) \/ SuggestPlan(c) \/ List(c) \/ Build(c) \/ Replace(c)
       \/ Confirm(c) \/ ConfirmWrites(c) \/ RemovePlan(c) \/ DeleteSessions(c) \/ DeletePlan(c)
       \/ Reschedule(c) \/ Move(c) \/ Withdraw(c) \/ NextPlan(c) \/ Deactivate(c)
       \/ CopyTrack(c) \/ RemoveSkill(c)
  \/ \E id \in Ids : MeetingCreated(id)
  \/ \E s \in sessions, achieved \in BOOLEAN : SessionEnds(s, achieved)

Spec == Init /\ [][Next]_vars

-----------------------------------------------------------------------------
(* Properties.  Some hold whatever overlaps; the others say which pairs of *)
(* operations must not have run at the same time.                          *)

Crossed(ops, others) == \E a \in ops, b \in others : {a, b} \in crossed

\* The state's shape; every session is of a plan, and ids are not shared.
TypeOK ==
  /\ case \in Cases /\ assigned \in BOOLEAN /\ active \in BOOLEAN
  /\ \A i \in DOMAIN rows : rows[i].status \in {"NOT_STARTED", "IN_PROGRESS", "ACHIEVED"}
  /\ \A p \in Plans : plan[p].status \in PlanStatus \cup {"none", "deleted"}
  /\ \A s, t \in sessions : s.id = t.id => s = t
  /\ \A s \in sessions : s.status \in {"LIVE", "COMPLETED", "CANCELLED"} /\ Exists(s.plan)
  /\ jobs \subseteq Ids
  /\ \A c \in Callers : call[c].todo \subseteq Ids /\ (call[c].pc = "idle" <=> call[c] = Idle)

\* What suggest proposes teaches every outcome that is due and no other: the
\* outcomes the learner has not achieved, of former assignments too, or those the
\* plan's copy of the track still holds (suggest: "refuse rather than hand back a
\* schedule that silently covers only the first N skills").
Due(p) ==
  IF plan[p].tree = None THEN {row.outcome : row \in {r \in ToSet(rows) : Outstanding(r)}}
  ELSE UNION {{o.outcome : o \in {q \in ToSet(skill.outcomes) : ~q.removed}} :
                skill \in {k \in ToSet(plan[p].tree) : ~k.removed}}
Proposes(c) == At(c, "suggest", "sessions") /\ call'[c].pc = "replace"
Teaches(c) == UNION {ToSet(s.outcomes) : s \in ToSet(call'[c].proposal)}

\* And within a skill, unless its prerequisites form a cycle, no item comes before
\* one it needs, though the days are cut and what did not fit is put off (RC-02).
Acyclic(needs, ids) ==
  \A S \in SUBSET ids \ {{}} : \E c \in S : \A d \in S : <<c, d>> \notin needs
InOrder(c) ==
  LET ranked == {item.content : item \in ToSet(Material(call[c].plan).items)}
      shown == FlatMap(call'[c].proposal, LAMBDA s : s.content)
      needs == case.library.needs
      SameSkill(a, b) == \E k \in DOMAIN case.library.content :
                           {a, b} \subseteq ToSet(case.library.content[k])
  IN Acyclic(needs, ranked) =>
       \A j \in DOMAIN shown, d \in ranked :
         <<shown[j], d>> \in needs /\ SameSkill(shown[j], d) => \E i \in 1 .. j - 1 : shown[i] = d
ProposalIsSound ==
  [][\A c \in Callers : Proposes(c) => Teaches(c) = Due(call[c].plan) /\ InOrder(c)]_vars

\* When no skill has more items than one session holds, suggest is refused only if
\* the plan has fewer days than skills (its comment: "the portal sends one day per
\* active skill").  Without the premise one skill may use up every day.
Refuses(c) == /\ At(c, "suggest", "sessions") /\ call[c].todo = {} /\ call'[c].pc = "idle"
              /\ Exists(call[c].plan) /\ (plan[call[c].plan].tree # None \/ assigned)
EnoughDays(c) ==
  LET m == Material(call[c].plan)
      Items(k) == SelectSeq(m.items, LAMBDA item : m.skill[item.outcome] = k)
      skills == {m.skill[o] : o \in Due(call[c].plan)}
  IN \/ call[c].seen.days < Cardinality(skills)
     \/ \E k \in skills : Len(Items(k)) > Fitting(case.minutes)
RefusedForLackOfDays == [][\A c \in Callers : Refuses(c) => EnoughDays(c)]_vars

\* Overlapping suggests leave one proposal, not a mix of both
\* (replaceSessionsForPlan); only a confirm meanwhile keeps part of another.
OneProposal ==
  \A s, t \in sessions :
    s.plan = t.plan /\ s.seq = t.seq /\ s.status = "LIVE" /\ t.status = "LIVE"
      => s = t \/ Crossed({"suggest"}, {"confirm"})

\* A confirmed plan's sessions have their meeting, or a job to create it: suggest
\* reopens the plan "instead of leaving them unconfirmed forever".  A suggest that
\* read the plan before a confirm replaces its sessions all the same.
ConfirmedMeets ==
  \A s \in sessions : s.status = "LIVE" /\ plan[s.plan].status = "CONFIRMED"
    => s.graph \/ s.id \in jobs \/ Crossed({"suggest"}, {"confirm"})

\* A learner has one plan that is not over (create's comment).  Two creates at
\* once break it, and a suggest or confirm that revives a plan cancelled under it.
OneActivePlan ==
  \/ Cardinality({p \in Plans : Open(p)}) <= 1
  \/ Crossed({"create"}, {"create"})
  \/ Crossed({"suggest", "confirm"}, {"create", "cancel", "withdraw"})

\* A live session belongs to an open plan of an active learner, or a call is about
\* to cancel it.  Broken by a suggest or confirm while the plan is cancelled, and
\* by a session that ends under the loop: the rest of the loop is not run, and the
\* cancelled plan cannot be cancelled again.  A plan that is created while the
\* learner is withdrawn outlives the withdrawal, and suggest asks for no ACTIVE one.
LiveSessionsBelong ==
  \A s \in sessions : s.status = "LIVE"
    => \/ Open(s.plan) /\ active
       \/ \E c \in Callers : s.id \in call[c].todo
       \/ Crossed({"suggest", "confirm"}, {"create", "cancel", "withdraw"})
       \/ Crossed({"create", "cancel", "withdraw"}, {"end"})
       \/ Crossed({"create"}, {"withdraw"})

\* Plans and sessions keep their shape and agree: one proposal, one plan that is not over, no session beside it
\* (training-plan.service.ts:57-81, 386-425).
SessionsBelong == TypeOK /\ OneProposal /\ OneActivePlan /\ LiveSessionsBelong
=============================================================================
