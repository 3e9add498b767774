------------------------- MODULE SessionCompletion -------------------------
(***************************************************************************)
(* How a training session is completed, and what follows.  Three paths     *)
(* race to complete one session: the agent's call (CompleteSessionService),*)
(* the AI trainer's webhook and the sweep that stands in for a lost        *)
(* webhook (both ExternalSessionCompleteService).  Each reads the session, *)
(* writes verdicts in one transaction, then updates the learner's outcomes *)
(* one by one, and at last publishes session.completed, whose handlers     *)
(* create and queue the reports.  One action per await that another call   *)
(* can tell apart.                                                         *)
(*                                                                         *)
(* Abstracted: all sessions are one learner's; a status before completion  *)
(* is LIVE; PARTIALLY_ACHIEVED counts as NOT_ACHIEVED, as it does for a    *)
(* learner outcome; scores, mails, audit rows and the SESSION_ENDED        *)
(* recommendation (an isolated handler) are left out.                      *)
(***************************************************************************)
EXTENDS Naturals, FiniteSets, Sequences

CONSTANTS
  Sessions,      \* the learner's sessions
  Order,         \* the sessions by scheduledEnd
  Outcomes,      \* outcomes of the learner's level
  OutcomesOf,    \* the outcomes a session covers
  Tracked,       \* outcomes the learner's active assignment has a row for
  Trainers,      \* ids the AI trainer gives to its external sessions
  Dispatched,    \* the external session each session starts with, or None
  Unreachable,   \* external sessions whose status call always fails
  Findings,      \* what the trainer may find for one outcome
  Agents,        \* calls of the agent's complete, each made at most once
  Answers,       \* calls of submitAnswer, submitNotes or submitTranscript
  About,         \* the sessions each of these calls may be about
  Webhooks,      \* deliveries of the trainer's webhook
  Sweep,         \* the reconcile job's own calls of complete
  BatchSize,     \* EXTERNAL_SESSION_RECONCILE_BATCH_SIZE
  Recipients,    \* who gets a report: the learner, and the manager if any
  None,          \* no session, external session, outcome or verdict
  Disturbances   \* what may go wrong, or be done by managers, in this run

DisturbanceKinds ==
  {"dbError",              \* a call fails at an await
   "crash",                \* the process, API and worker in one, restarts
   "enqueueError",         \* an event handler fails
   "recommendationError",  \* RecommendationService.generate throws
   "trainerDown",          \* a status or evaluation call fails
   "unevaluated",          \* the trainer ends a session without an evaluation
   "cancel",               \* a manager cancels a session
   "withdraw",             \* the learner is deactivated
   "redispatch"}           \* a reschedule dispatches the trainer again

External == Webhooks \cup {Sweep}
Calls == Agents \cup Answers \cup External
Verdicts == {"ACHIEVED", "NOT_ACHIEVED"}

ASSUME ConstantsAssumption ==
  /\ None \notin Sessions \cup Trainers \cup Outcomes \cup Verdicts
  /\ Order \in Seq(Sessions)
  /\ \A i, j \in 1 .. Len(Order) : Order[i] = Order[j] => i = j
  /\ OutcomesOf \in [Sessions -> SUBSET Outcomes]
  /\ Tracked \subseteq Outcomes
  /\ Dispatched \in [Sessions -> Trainers \cup {None}]
  /\ \A s, t \in Sessions : Dispatched[s] = Dispatched[t] => s = t \/ Dispatched[s] = None
  /\ Unreachable \subseteq Trainers
  /\ Findings # {} /\ Findings \subseteq {"passed", "failed", "unmatched"}
  /\ Agents \cap Answers = {} /\ (Agents \cup Answers) \cap External = {}
  /\ Sweep \notin Webhooks
  /\ About \in [Agents \cup Answers -> SUBSET Sessions]
  /\ BatchSize \in Nat \ {0}
  /\ "learner" \in Recipients /\ Recipients \subseteq {"learner", "manager"}
  /\ Disturbances \subseteq DisturbanceKinds

VARIABLES
  session,         \* session[s]: status, verdict and external session of the row
  sessionOutcome,  \* sessionOutcome[s][o]: the verdict of o in s
  assessments,     \* assessments[s]: how many Assessment rows s has
  learnerOutcome,  \* learnerOutcome[o]: status and attemptCount
  assigned,        \* does the learner have an active assignment?
  trainer,         \* trainer[x]: what the AI trainer knows of x
  stored,          \* external sessions whose evaluation is saved
  call,            \* call[c]: how far the call c has got
  sweep,           \* what is left of the reconcile job's batch: place in Order, external session
  overdue,         \* how many of Order ended longer than the grace time ago
  cancelling,      \* sessions whose cancel has read a live status
  handler,         \* handler[c][s]: c's run of the report handler for s
  escalating,      \* escalating[c]: outcomes whose escalation handler is running
  escalated,       \* outcomes for which outcome.escalate was queued
  report,          \* report[s][r]: Report rows of s for r
  generate         \* generate[s][r]: report.generate jobs queued for them

vars == <<session, sessionOutcome, assessments, learnerOutcome, assigned, trainer, stored,
          call, sweep, overdue, cancelling, handler, escalating, escalated, report, generate>>

-----------------------------------------------------------------------------
(* The state's parts.                                                      *)

Status == {"LIVE", "COMPLETED", "CANCELLED"}
TrainerState == {"unused", "running", "evaluated", "unevaluated"}
InFlight == {"store", "assess", "create", "complete", "assignment", "outcomes", "apply", "recommend"}

\* external is the external session whose evaluation the call carries; seen the
\* attemptCount of the learner outcome it holds.
Ended(c) == [pc |-> IF c = Sweep THEN "idle" ELSE "done", session |-> None, external |-> None,
             verdict |-> None, todo |-> {}, outcome |-> None, seen |-> 0]
Call == [pc : InFlight \cup {"idle", "done"}, session : Sessions \cup {None},
         external : Trainers \cup {None}, verdict : Verdicts \cup {None},
         todo : SUBSET Outcomes, outcome : Outcomes \cup {None}, seen : Nat]
NoHandler == [pc |-> "idle", todo |-> {}]
Handler == [pc : {"idle", "create", "enqueue"}, todo : SUBSET Recipients]

Init ==
  /\ session = [s \in Sessions |->
       [status |-> "LIVE", verdict |-> None, external |-> Dispatched[s]]]
  /\ sessionOutcome = [s \in Sessions |-> [o \in Outcomes |-> None]]
  /\ assessments = [s \in Sessions |-> 0]
  /\ learnerOutcome = [o \in Outcomes |-> [status |-> "NOT_STARTED", attempts |-> 0]]
  /\ assigned = TRUE
  /\ trainer = [x \in Trainers |->
       [state |-> IF \E s \in Sessions : Dispatched[s] = x THEN "running" ELSE "unused",
        verdict |-> None, found |-> [o \in Outcomes |-> "unmatched"]]]
  /\ stored = {}
  /\ call = [c \in Calls |-> [Ended(c) EXCEPT !.pc = "idle"]]
  /\ sweep = {}
  /\ overdue = 0
  /\ cancelling = {}
  /\ handler = [c \in Calls |-> [s \in Sessions |-> NoHandler]]
  /\ escalating = [c \in Calls |-> {}]
  /\ escalated = {}
  /\ report = [s \in Sessions |-> [r \in Recipients |-> 0]]
  /\ generate = [s \in Sessions |-> [r \in Recipients |-> 0]]

Enter(c, pc) == call' = [call EXCEPT ![c].pc = pc]
End(c) == call' = [call EXCEPT ![c] = Ended(c)]

rows == <<session, sessionOutcome, assessments, learnerOutcome, assigned>>
world == <<trainer, overdue, cancelling>>
events == <<handler, escalating, escalated, report, generate>>

-----------------------------------------------------------------------------
(* The first steps of a call.                                              *)

\* The agent's complete answers 409 for a terminal session, its other calls
\* only need the session to exist.
Lookup(c) ==
  /\ c \in Agents \cup Answers /\ call[c].pc = "idle"
  /\ \E s \in About[c] :
       IF c \in Agents /\ session[s].status # "LIVE"
       THEN End(c)
       ELSE call' = [call EXCEPT ![c].pc = "assess", ![c].session = s]
  /\ UNCHANGED <<rows, world, stored, sweep, events>>

\* What ExternalSessionCompleteService.complete reads: NotFound when no session
\* points at x any more, alreadyCompleted when it is terminal.
LookupExternal(c, x) ==
  \E s \in Sessions \cup {None} :
    /\ IF s = None THEN \A t \in Sessions : session[t].external # x
                   ELSE session[s].external = x
    /\ IF s = None \/ session[s].status # "LIVE"
       THEN End(c)
       ELSE call' = [call EXCEPT ![c].pc = "store", ![c].session = s, ![c].external = x]

\* The trainer posts its evaluation of x; it may post it again.
Deliver(c, x) ==
  /\ c \in Webhooks /\ call[c].pc = "idle" /\ trainer[x].state = "evaluated"
  /\ LookupExternal(c, x)
  /\ UNCHANGED <<rows, world, stored, sweep, events>>

\* completeExternal, the first write: the evaluation is saved beside its session.
StoreEvaluation(c) ==
  /\ call[c].pc = "store"
  /\ stored' = stored \cup {call[c].external}
  /\ Enter(c, "assess")
  /\ UNCHANGED <<rows, world, sweep, events>>

\* findOrCreateForSession: the read ...
FindAssessment(c) ==
  /\ call[c].pc = "assess"
  /\ IF assessments[call[c].session] = 0 THEN Enter(c, "create")
     ELSE IF c \in Answers THEN End(c) ELSE Enter(c, "complete")
  /\ UNCHANGED <<rows, world, stored, sweep, events>>

\* ... and the create.
CreateAssessment(c) ==
  /\ call[c].pc = "create"
  /\ assessments' = [assessments EXCEPT ![call[c].session] = @ + 1]
  /\ IF c \in Answers THEN End(c) ELSE Enter(c, "complete")
  /\ UNCHANGED <<session, sessionOutcome, learnerOutcome, assigned, world, stored, sweep, events>>

-----------------------------------------------------------------------------
(* Completion.                                                             *)

\* What the trainer found for the outcome, where the two can be matched by title;
\* an agent says nothing of single outcomes.
Found(c, o) == IF c \in Agents THEN "unmatched" ELSE trainer[call[c].external].found[o]
\* The verdict of one outcome: the trainer's own, otherwise the session's.
OutcomeVerdict(c, o, verdict) ==
  CASE Found(c, o) = "passed" -> "ACHIEVED"
    [] Found(c, o) = "failed" -> "NOT_ACHIEVED"
    [] OTHER -> verdict

\* completeSession, one transaction that looks at no status.  The agent's
\* verdict comes from its answers and the rubric.
CompleteSession(c) ==
  LET s == call[c].session IN
  /\ call[c].pc = "complete"
  /\ \E v \in IF c \in Agents THEN Verdicts ELSE {trainer[call[c].external].verdict} :
       /\ session' = [session EXCEPT ![s].status = "COMPLETED", ![s].verdict = v]
       /\ sessionOutcome' = [sessionOutcome EXCEPT ![s] =
            [o \in Outcomes |-> IF o \in OutcomesOf[s] THEN OutcomeVerdict(c, o, v) ELSE @[o]]]
       /\ call' = [call EXCEPT ![c].pc = "assignment", ![c].verdict = v]
  /\ UNCHANGED <<assessments, learnerOutcome, assigned, world, stored, sweep, events>>

-----------------------------------------------------------------------------
(* updateLearnerOutcomes.                                                  *)

ReadAssignment(c) ==
  /\ call[c].pc = "assignment"
  /\ call' = [call EXCEPT ![c].pc = "outcomes",
       ![c].todo = IF assigned THEN OutcomesOf[call[c].session] \cap Tracked ELSE {}]
  /\ UNCHANGED <<rows, world, stored, sweep, events>>

FindOutcome(c) ==
  /\ call[c].pc = "outcomes"
  /\ \E o \in call[c].todo :
       call' = [call EXCEPT ![c].pc = "apply", ![c].outcome = o,
                            ![c].seen = learnerOutcome[o].attempts]
  /\ UNCHANGED <<rows, world, stored, sweep, events>>

\* Mutant: the caller writes the count it has read, plus one.
ApplyVerdictFromRead(c) ==
  LET o == call[c].outcome
      achieved == call[c].verdict = "ACHIEVED"
      repeat == ~achieved /\ call[c].seen > 0 IN
  /\ call[c].pc = "apply"
  /\ learnerOutcome' = [learnerOutcome EXCEPT ![o] =
       [status |-> IF achieved THEN "ACHIEVED" ELSE "IN_PROGRESS", attempts |-> call[c].seen + 1]]
  /\ escalating' = [escalating EXCEPT ![c] = IF repeat THEN @ \cup {o} ELSE @]
  /\ call' = [call EXCEPT ![c].pc = IF repeat THEN "recommend" ELSE "outcomes",
                          ![c].todo = @ \ {o}, ![c].outcome = None, ![c].seen = 0]
  /\ UNCHANGED <<session, sessionOutcome, assessments, assigned, world, stored, sweep,
                 handler, escalated, report, generate>>

\* applyVerdict, with its atomic increment, and the publish of a repeat failure.
ApplyVerdict(c) ==
  LET o == call[c].outcome
      achieved == call[c].verdict = "ACHIEVED"
      attempts == learnerOutcome[o].attempts + 1
      repeat == ~achieved /\ attempts > 1 IN
  /\ call[c].pc = "apply"
  /\ learnerOutcome' = [learnerOutcome EXCEPT ![o] =
       [status |-> IF achieved THEN "ACHIEVED" ELSE "IN_PROGRESS", attempts |-> attempts]]
  /\ escalating' = [escalating EXCEPT ![c] = IF repeat THEN @ \cup {o} ELSE @]
  /\ call' = [call EXCEPT ![c].pc = IF repeat THEN "recommend" ELSE "outcomes",
                          ![c].todo = @ \ {o}, ![c].outcome = None, ![c].seen = 0]
  /\ UNCHANGED <<session, sessionOutcome, assessments, assigned, world, stored, sweep,
                 handler, escalated, report, generate>>

\* The OUTCOME_FAILED recommendation is awaited: what it throws ends the call.
Recommend(c) ==
  /\ call[c].pc = "recommend" /\ assigned
  /\ Enter(c, "outcomes")
  /\ UNCHANGED <<rows, world, stored, sweep, events>>

RecommendFails(c) ==
  /\ call[c].pc = "recommend" /\ (assigned => "recommendationError" \in Disturbances)
  /\ End(c)
  /\ UNCHANGED <<rows, world, stored, sweep, events>>

-----------------------------------------------------------------------------
(* session.completed and its handlers.                                     *)

\* Mutant: the event is published before the learner's outcomes are updated.
PublishBeforeOutcomes(c) ==
  /\ call[c].pc = "outcomes"
  /\ handler' = [handler EXCEPT ![c][call[c].session] = [pc |-> "create", todo |-> Recipients]]
  /\ End(c)
  /\ UNCHANGED <<rows, world, stored, sweep, escalating, escalated, report, generate>>

Publish(c) ==
  /\ call[c].pc = "outcomes" /\ call[c].todo = {}
  /\ handler' = [handler EXCEPT ![c][call[c].session] = [pc |-> "create", todo |-> Recipients]]
  /\ End(c)
  /\ UNCHANGED <<rows, world, stored, sweep, escalating, escalated, report, generate>>

\* The learner's report first, then the manager's.
Recipient(todo) == IF "learner" \in todo THEN "learner" ELSE "manager"

CreateReport(c, s) ==
  /\ handler[c][s].pc = "create"
  /\ report' = [report EXCEPT ![s][Recipient(handler[c][s].todo)] = @ + 1]
  /\ handler' = [handler EXCEPT ![c][s].pc = "enqueue"]
  /\ UNCHANGED <<rows, world, stored, sweep, call, escalating, escalated, generate>>

\* Mutant: the handler returns after its first recipient.
EnqueueFirstOnly(c, s) ==
  /\ handler[c][s].pc = "enqueue"
  /\ generate' = [generate EXCEPT ![s][Recipient(handler[c][s].todo)] = @ + 1]
  /\ handler' = [handler EXCEPT ![c][s] = NoHandler]
  /\ UNCHANGED <<rows, world, stored, sweep, call, escalating, escalated, report>>

EnqueueGenerate(c, s) ==
  LET r == Recipient(handler[c][s].todo)
      rest == handler[c][s].todo \ {r} IN
  /\ handler[c][s].pc = "enqueue"
  /\ generate' = [generate EXCEPT ![s][r] = @ + 1]
  /\ handler' = [handler EXCEPT ![c][s] =
       IF rest = {} THEN NoHandler ELSE [pc |-> "create", todo |-> rest]]
  /\ UNCHANGED <<rows, world, stored, sweep, call, escalating, escalated, report>>

\* EventBus logs what a handler throws and goes on.
HandlerFails(c, s) ==
  /\ "enqueueError" \in Disturbances /\ handler[c][s].pc # "idle"
  /\ handler' = [handler EXCEPT ![c][s] = NoHandler]
  /\ UNCHANGED <<rows, world, stored, sweep, call, escalating, escalated, report, generate>>

Escalate(c, o) ==
  /\ o \in escalating[c]
  /\ escalating' = [escalating EXCEPT ![c] = @ \ {o}]
  /\ escalated' = escalated \cup {o}
  /\ UNCHANGED <<rows, world, stored, sweep, call, handler, report, generate>>

EscalationFails(c, o) ==
  /\ "enqueueError" \in Disturbances /\ o \in escalating[c]
  /\ escalating' = [escalating EXCEPT ![c] = @ \ {o}]
  /\ UNCHANGED <<rows, world, stored, sweep, call, handler, escalated, report, generate>>

-----------------------------------------------------------------------------
(* The reconcile job.                                                      *)

\* Mutant: the query forgets that only dispatched sessions can be asked about.
StuckOrUndispatched(s) == session[s].status = "LIVE"

Stuck(s) == session[s].status = "LIVE" /\ session[s].external # None

\* findStuckExternalSessions: the oldest first, at most a batch of them.
StartSweep ==
  LET stuck == {i \in 1 .. overdue : Stuck(Order[i])}
      batch == {i \in stuck : Cardinality({j \in stuck : j < i}) < BatchSize} IN
  /\ sweep = {} /\ call[Sweep].pc = "idle" /\ stuck # {}
  /\ sweep' = {<<i, session[Order[i]].external>> : i \in batch}
  /\ UNCHANGED <<rows, world, stored, call, events>>

\* The turn of p has come.
Turn(p) == /\ call[Sweep].pc = "idle"
           /\ p \in sweep /\ \A q \in sweep : p[1] <= q[1]

\* Mutant: one unreachable session aborts the sweep.
SweepAborts(p) ==
  /\ Turn(p)
  /\ p[2] \in Unreachable \/ "trainerDown" \in Disturbances
  /\ sweep' = {}
  /\ UNCHANGED <<rows, world, stored, call, events>>

\* The trainer cannot be reached: the session's turn is over, the sweep goes on.
SweepUnreachable(p) ==
  /\ Turn(p)
  /\ p[2] \in Unreachable \/ "trainerDown" \in Disturbances
  /\ sweep' = sweep \ {p}
  /\ UNCHANGED <<rows, world, stored, call, events>>

\* Still running, or ended without an evaluation.
SweepPasses(p) ==
  /\ Turn(p) /\ p[2] \notin Unreachable /\ trainer[p[2]].state # "evaluated"
  /\ sweep' = sweep \ {p}
  /\ UNCHANGED <<rows, world, stored, call, events>>

\* The webhook was lost: the job makes its call.
SweepCompletes(p) ==
  /\ Turn(p) /\ p[2] \notin Unreachable /\ trainer[p[2]].state = "evaluated"
  /\ LookupExternal(Sweep, p[2])
  /\ sweep' = sweep \ {p}
  /\ UNCHANGED <<rows, world, stored, events>>

-----------------------------------------------------------------------------
(* Failures, and the world outside.                                        *)

CallFails(c) ==
  /\ "dbError" \in Disturbances /\ call[c].pc \in InFlight
  /\ End(c)
  /\ UNCHANGED <<rows, world, stored, sweep, events>>

\* What is in the database survives, every call, handler and sweep is gone.
Crash ==
  /\ "crash" \in Disturbances
  /\ call' = [c \in Calls |-> IF call[c].pc \in InFlight THEN Ended(c) ELSE call[c]]
  /\ sweep' = {}
  /\ cancelling' = {}
  /\ handler' = [c \in Calls |-> [s \in Sessions |-> NoHandler]]
  /\ escalating' = [c \in Calls |-> {}]
  /\ UNCHANGED <<rows, trainer, stored, overdue, escalated, report, generate>>

\* The trainer leaves the meeting, with or without an evaluation.
TrainerEnds(x) ==
  /\ trainer[x].state = "running"
  /\ \/ \E v \in Verdicts, found \in [Outcomes -> Findings] :
          trainer' = [trainer EXCEPT ![x] = [state |-> "evaluated", verdict |-> v, found |-> found]]
     \/ /\ "unevaluated" \in Disturbances
        /\ trainer' = [trainer EXCEPT ![x].state = "unevaluated"]
  /\ UNCHANGED <<rows, stored, call, sweep, overdue, cancelling, events>>

TimePasses ==
  /\ overdue < Len(Order)
  /\ overdue' = overdue + 1
  /\ UNCHANGED <<rows, trainer, cancelling, stored, call, sweep, events>>

\* dispatchToAiTrainer once more, before the meeting is overdue: a new external
\* session, and the row points at it from now on.
Redispatch(s, x) ==
  /\ "redispatch" \in Disturbances
  /\ session[s].status = "LIVE" /\ trainer[x].state = "unused"
  /\ \A i \in 1 .. overdue : Order[i] # s
  /\ trainer' = [trainer EXCEPT ![x].state = "running"]
  /\ session' = [session EXCEPT ![s].external = x]
  /\ UNCHANGED <<sessionOutcome, assessments, learnerOutcome, assigned, overdue, cancelling,
                 stored, call, sweep, events>>

\* SessionService.cancel checks a status it has read ...
CancelRead(s) ==
  /\ "cancel" \in Disturbances /\ session[s].status = "LIVE"
  /\ cancelling' = cancelling \cup {s}
  /\ UNCHANGED <<rows, trainer, overdue, stored, call, sweep, events>>

\* ... and writes whatever the status is by then.
CancelRow(s) ==
  /\ s \in cancelling
  /\ cancelling' = cancelling \ {s}
  /\ session' = [session EXCEPT ![s].status = "CANCELLED"]
  /\ UNCHANGED <<sessionOutcome, assessments, learnerOutcome, assigned, trainer, overdue,
                 stored, call, sweep, events>>

\* The learner is deactivated, which retires the assignment.
Withdraw ==
  /\ "withdraw" \in Disturbances /\ assigned
  /\ assigned' = FALSE
  /\ UNCHANGED <<session, sessionOutcome, assessments, learnerOutcome, world, stored, call,
                 sweep, events>>

-----------------------------------------------------------------------------

CallStep(c) ==
  \/ StoreEvaluation(c) \/ FindAssessment(c) \/ CreateAssessment(c) \/ CompleteSession(c)
  \/ ReadAssignment(c) \/ FindOutcome(c) \/ ApplyVerdict(c) \/ Recommend(c)
  \/ RecommendFails(c) \/ Publish(c)

HandlerStep(c) ==
  \/ \E s \in Sessions : CreateReport(c, s) \/ EnqueueGenerate(c, s) \/ HandlerFails(c, s)
  \/ \E o \in Outcomes : Escalate(c, o) \/ EscalationFails(c, o)

SweepStep ==
  StartSweep \/ \E p \in sweep : SweepUnreachable(p) \/ SweepPasses(p) \/ SweepCompletes(p)

Next ==
  \/ \E c \in Calls : CallStep(c) \/ HandlerStep(c) \/ Lookup(c) \/ CallFails(c)
  \/ \E c \in Webhooks, x \in Trainers : Deliver(c, x)
  \/ SweepStep \/ Crash \/ TimePasses \/ Withdraw
  \/ \E x \in Trainers : TrainerEnds(x)
  \/ \E s \in Sessions : CancelRead(s) \/ CancelRow(s)
  \/ \E s \in Sessions, x \in Trainers : Redispatch(s, x)

Spec == Init /\ [][Next]_vars

\* A call or handler that runs goes on, the cron fires again and time passes;
\* nobody has to call, and a webhook may never come.
Fairness ==
  /\ \A c \in Calls : WF_vars(CallStep(c)) /\ WF_vars(HandlerStep(c))
  /\ WF_vars(SweepStep) /\ WF_vars(TimePasses)

FairSpec == Spec /\ Fairness

-----------------------------------------------------------------------------
(* Properties.                                                             *)

\* Every variable keeps its type.
TypeOK ==
  /\ session \in [Sessions -> [status : Status, verdict : Verdicts \cup {None},
                               external : Trainers \cup {None}]]
  /\ sessionOutcome \in [Sessions -> [Outcomes -> Verdicts \cup {None}]]
  /\ assessments \in [Sessions -> Nat]
  /\ learnerOutcome \in [Outcomes -> [status : {"NOT_STARTED", "IN_PROGRESS", "ACHIEVED"},
                                      attempts : Nat]]
  /\ assigned \in BOOLEAN
  /\ trainer \in [Trainers -> [state : TrainerState, verdict : Verdicts \cup {None},
                               found : [Outcomes -> {"passed", "failed", "unmatched"}]]]
  /\ stored \subseteq Trainers
  /\ call \in [Calls -> Call]
  /\ sweep \subseteq (1 .. Len(Order)) \X Trainers
  /\ overdue \in 0 .. Len(Order)
  /\ cancelling \subseteq Sessions
  /\ handler \in [Calls -> [Sessions -> Handler]]
  /\ escalating \in [Calls -> SUBSET Outcomes]
  /\ escalated \subseteq Outcomes
  /\ report \in [Sessions -> [Recipients -> Nat]]
  /\ generate \in [Sessions -> [Recipients -> Nat]]

\* session.completed is out: its handler runs, or has left a report.
Announced(s) == \/ \E c \in Calls : handler[c][s].pc # "idle"
                \/ \E r \in Recipients : report[s][r] > 0

\* The session's own transaction has committed.
Committed(s) ==
  /\ session[s].verdict # None
  /\ \A o \in OutcomesOf[s] : sessionOutcome[s][o] # None

\* session.completed is published after everything it announces is committed:
\* the session's verdict, each of its outcomes', and, while the assignment
\* stands, an attempt on each outcome the learner is assigned
\* (CompleteSessionService, "publish-after-commit").
AnnouncedAfterCommit ==
  \A s \in Sessions : Announced(s) =>
    /\ Committed(s)
    /\ assigned => \A o \in OutcomesOf[s] \cap Tracked : learnerOutcome[o].attempts > 0

\* No call, handler or sweep is under way.
Settled ==
  \A c \in Calls : /\ call[c].pc \in {"idle", "done"} /\ escalating[c] = {}
                   /\ \A s \in Sessions : handler[c][s].pc = "idle"

FailedSessions(o) ==
  {s \in Sessions : o \in OutcomesOf[s] /\ session[s].verdict = "NOT_ACHIEVED"}

\* An outcome failed in two sessions is escalated, however the calls that
\* completed them overlapped: applyVerdict decides on the count it wrote, not
\* on the one its caller read.
FailuresEscalate ==
  Settled /\ assigned =>
    \A o \in Tracked : Cardinality(FailedSessions(o)) > 1 => o \in escalated

\* A session is completed once: each recipient gets one report of it.
CompletedOnce == \A s \in Sessions, r \in Recipients : report[s][r] <= 1

\* A session has at most one Assessment, whoever needs it first.
OneAssessmentPerSession == \A s \in Sessions : assessments[s] <= 1

\* An outcome escalated as failed repeatedly was failed in two sessions.
EscalationIsGenuine == \A o \in escalated : Cardinality(FailedSessions(o)) > 1

\* An outcome no session demonstrated is not achieved.
UndemonstratedNotAchieved ==
  \A o \in Outcomes : learnerOutcome[o].status = "ACHIEVED" =>
    \E s \in Sessions : sessionOutcome[s][o] = "ACHIEVED"

\* An achieved outcome stays achieved.
AchievedLocksIn ==
  [][\A o \in Outcomes : learnerOutcome[o].status = "ACHIEVED"
                           => learnerOutcome'[o].status = "ACHIEVED"]_vars

\* A cancelled session is not completed.
CancelledIsNotCompleted ==
  [][\A s \in Sessions : session[s].status = "CANCELLED"
                           => session'[s].status = "CANCELLED"]_vars

\* A session whose trainer has an evaluation leaves the live ones, even if no
\* webhook is ever delivered: the sweep sees to it, past sessions it cannot
\* reach or that have no evaluation.
LostWebhookRecovered ==
  \A s \in Sessions, x \in Trainers \ Unreachable :
    session[s].external = x /\ trainer[x].state = "evaluated"
      ~> session[s].status # "LIVE" \/ session[s].external # x

\* Every recipient of a completed session has a report on its way.
CompletionReported ==
  \A s \in Sessions, r \in Recipients : session[s].status = "COMPLETED" ~> generate[s][r] > 0
============================================================================
