----------------------- MODULE SessionCompletionProofs -----------------------
(***************************************************************************)
(* SessionCompletion, proved for all values of its constants: its types,   *)
(* that session.completed announces only what is committed, and, as long   *)
(* as nothing fails half-way, that a repeated failure is escalated.        *)
(***************************************************************************)
EXTENDS SessionCompletion, FiniteSetTheorems, TLAPS

USE DEF External, Calls, Verdicts, Status, InFlight

\* An ended call is a call with nothing left to do.
LEMMA EndedType ==
  ASSUME NEW c \in Calls PROVE Ended(c) \in Call /\ Ended(c).pc \in {"idle", "done"}
  BY DEF Ended, Call

\* Ending a call keeps the type of call.
LEMMA EndType ==
  ASSUME call \in [Calls -> Call], NEW c \in Calls, End(c)
  PROVE call' \in [Calls -> Call]
  BY EndedType DEF End

\* Moving a call to another step keeps the type of call.
LEMMA EnterType ==
  ASSUME call \in [Calls -> Call], NEW c \in Calls, NEW pc \in InFlight, Enter(c, pc)
  PROVE call' \in [Calls -> Call]
  <1>1. [call[c] EXCEPT !.pc = pc] \in Call
    BY DEF Call
  <1> QED BY <1>1 DEF Enter

-----------------------------------------------------------------------------
(* The inductive invariant.                                                *)

\* A call in flight is about a session; one made for the trainer carries an
\* evaluation; one that submits an answer goes no further than the assessment.
InFlightAt(c) ==
  call[c].pc \in InFlight =>
    /\ call[c].session \in Sessions
    /\ c \in External => /\ call[c].external \in Trainers
                         /\ trainer[call[c].external].state = "evaluated"
    /\ c \in Answers => call[c].pc \in {"assess", "create"}
    /\ call[c].pc = "store" => c \in External
    /\ call[c].pc = "apply" => call[c].outcome \in Outcomes
InFlightOK == \A c \in Calls : InFlightAt(c)

\* An evaluation comes with a verdict.
EvaluationOK == \A x \in Trainers : trainer[x].state = "evaluated" => trainer[x].verdict \in Verdicts

\* A running handler still has a recipient to serve.
HandlerOK == \A c \in Calls, s \in Sessions : handler[c][s].pc # "idle" => handler[c][s].todo # {}

\* A call past its transaction has committed the session, and what it no
\* longer has to do for the learner's outcomes is done.
CommittedAt(c) ==
  /\ call[c].pc \in {"assignment", "outcomes", "apply", "recommend"} => Committed(call[c].session)
  /\ call[c].pc \in {"outcomes", "apply", "recommend"} /\ assigned =>
       \A o \in OutcomesOf[call[c].session] \cap Tracked :
         o \in call[c].todo \/ learnerOutcome[o].attempts > 0
CommittedOK == \A c \in Calls : CommittedAt(c)

IInv == TypeOK /\ InFlightOK /\ EvaluationOK /\ HandlerOK /\ CommittedOK /\ AnnouncedAfterCommit

-----------------------------------------------------------------------------
(* Types.                                                                  *)

\* The initial state is well typed.
LEMMA TypeInit == ASSUME ConstantsAssumption, Init PROVE TypeOK
  <1>1. call \in [Calls -> Call]
    BY DEF Init, Ended, Call
  <1>2. overdue \in 0 .. Len(Order)
    BY DEF Init, ConstantsAssumption
  <1>3. session \in [Sessions -> [status : Status, verdict : Verdicts \cup {None},
                                  external : Trainers \cup {None}]]
    BY DEF Init, ConstantsAssumption
  <1>4. trainer \in [Trainers -> [state : TrainerState, verdict : Verdicts \cup {None},
                                  found : [Outcomes -> {"passed", "failed", "unmatched"}]]]
    BY DEF Init, TrainerState
  <1>5. handler \in [Calls -> [Sessions -> Handler]]
    BY DEF Init, NoHandler, Handler
  <1> QED
    BY <1>1, <1>2, <1>3, <1>4, <1>5 DEF Init, TypeOK

\* The recipient a running handler serves next is one of the recipients.
LEMMA RecipientType ==
  ASSUME ConstantsAssumption, NEW todo \in SUBSET Recipients, todo # {}
  PROVE Recipient(todo) \in todo
  <1>1. todo \subseteq {"learner", "manager"}
    BY DEF ConstantsAssumption
  <1>2. CASE "learner" \in todo
    BY <1>2 DEF Recipient
  <1>3. CASE "learner" \notin todo
    <2>1. PICK r \in todo : TRUE
      OBVIOUS
    <2>2. r = "manager"
      BY <1>1, <1>3, <2>1
    <2>3. "manager" \in todo
      BY <2>1, <2>2
    <2> QED BY <1>3, <2>3 DEF Recipient
  <1> QED BY <1>2, <1>3

\* One more report, or job, of one recipient.
LEMMA CountType ==
  ASSUME NEW f \in [Sessions -> [Recipients -> Nat]], NEW s \in Sessions, NEW r \in Recipients
  PROVE [f EXCEPT ![s][r] = @ + 1] \in [Sessions -> [Recipients -> Nat]]
  <1>1. f[s][r] + 1 \in Nat
    OBVIOUS
  <1> QED BY <1>1

\* The verdict of an outcome is a verdict.
LEMMA OutcomeVerdictType ==
  ASSUME TypeOK, InFlightOK, NEW c \in Calls, call[c].pc = "complete",
         NEW o \in Outcomes, NEW v \in Verdicts
  PROVE OutcomeVerdict(c, o, v) \in Verdicts
  <1>1. Found(c, o) \in {"passed", "failed", "unmatched"}
    <2>1. CASE c \in Agents
      BY <2>1 DEF Found
    <2>2. CASE c \notin Agents
      <3>1. c \in External
        BY <2>2 DEF InFlightOK, InFlightAt
      <3>2. trainer[call[c].external].found \in [Outcomes -> {"passed", "failed", "unmatched"}]
        BY <3>1 DEF TypeOK, InFlightOK, InFlightAt
      <3> QED BY <2>2, <3>2 DEF Found
    <2> QED BY <2>1, <2>2
  <1>2. CASE Found(c, o) = "passed"
    BY <1>2 DEF OutcomeVerdict
  <1>3. CASE Found(c, o) = "failed"
    BY <1>3 DEF OutcomeVerdict
  <1>4. CASE Found(c, o) = "unmatched"
    BY <1>4 DEF OutcomeVerdict
  <1> QED BY <1>1, <1>2, <1>3, <1>4

\* Changing the trainer's state of an external session keeps the type of trainer.
LEMMA StateType ==
  ASSUME TypeOK, NEW x \in Trainers, NEW state \in TrainerState
  PROVE [trainer EXCEPT ![x].state = state]
          \in [Trainers -> [state : TrainerState, verdict : Verdicts \cup {None},
                            found : [Outcomes -> {"passed", "failed", "unmatched"}]]]
  <1>1. trainer[x] \in [state : TrainerState, verdict : Verdicts \cup {None},
                        found : [Outcomes -> {"passed", "failed", "unmatched"}]]
    BY DEF TypeOK
  <1>2. [trainer[x] EXCEPT !.state = state]
          \in [state : TrainerState, verdict : Verdicts \cup {None},
               found : [Outcomes -> {"passed", "failed", "unmatched"}]]
    BY <1>1
  <1> QED BY <1>2 DEF TypeOK

\* What completeSession writes, for a verdict that is one.
Completes(c, v) ==
  /\ session' = [session EXCEPT ![call[c].session].status = "COMPLETED",
                                ![call[c].session].verdict = v]
  /\ sessionOutcome' = [sessionOutcome EXCEPT ![call[c].session] =
       [o \in Outcomes |-> IF o \in OutcomesOf[call[c].session] THEN OutcomeVerdict(c, o, v)
                                                                ELSE @[o]]]
  /\ call' = [call EXCEPT ![c].pc = "assignment", ![c].verdict = v]

\* Every completion writes a verdict.
LEMMA CompletesWithVerdict ==
  ASSUME ConstantsAssumption, IInv, NEW c \in Calls, CompleteSession(c)
  PROVE /\ call[c].session \in Sessions
        /\ \E v \in Verdicts : Completes(c, v)
  <1>1. call[c].session \in Sessions /\ c \notin Answers
    BY DEF CompleteSession, IInv, InFlightOK, InFlightAt
  <1>2. PICK v \in IF c \in Agents THEN Verdicts ELSE {trainer[call[c].external].verdict} :
          Completes(c, v)
    BY DEF CompleteSession, Completes
  <1>3. v \in Verdicts
    <2>1. CASE c \in Agents
      BY <1>2, <2>1
    <2>2. CASE c \in External /\ c \notin Agents
      <3>1. call[c].external \in Trainers /\ trainer[call[c].external].state = "evaluated"
        BY <2>2 DEF CompleteSession, IInv, InFlightOK, InFlightAt
      <3>2. v = trainer[call[c].external].verdict
        BY <1>2, <2>2
      <3> QED BY <3>1, <3>2 DEF IInv, EvaluationOK
    <2> QED BY <1>1, <2>1, <2>2
  <1> QED BY <1>1, <1>2, <1>3

\* The trainer's evaluation finds its session, or ends the call.
LEMMA LookupExternalType ==
  ASSUME TypeOK, NEW c \in Calls, NEW x \in Trainers, LookupExternal(c, x)
  PROVE call' \in [Calls -> Call]
  <1>1. CASE End(c)
    BY <1>1, EndType DEF TypeOK
  <1>2. CASE \E s \in Sessions :
               call' = [call EXCEPT ![c].pc = "store", ![c].session = s, ![c].external = x]
    <2>1. PICK s \in Sessions :
               call' = [call EXCEPT ![c].pc = "store", ![c].session = s, ![c].external = x]
      BY <1>2
    <2>2. call[c] \in Call
      BY DEF TypeOK
    <2>3. [call[c] EXCEPT !.pc = "store", !.session = s, !.external = x] \in Call
      BY <2>2 DEF Call, InFlight
    <2> QED BY <2>1, <2>3 DEF TypeOK
  <1> QED BY <1>1, <1>2 DEF LookupExternal

\* Every step keeps the types.
LEMMA TypeStep == ASSUME ConstantsAssumption, IInv, [Next]_vars PROVE TypeOK'
  <1> USE DEF rows, world, events
  <1>t. TypeOK
    BY DEF IInv
  <1>c. \A c \in Calls : call[c] \in Call
    BY <1>t DEF TypeOK
  <1>1. ASSUME NEW c \in Calls, Lookup(c) PROVE TypeOK'
    <2>1. CASE End(c)
      BY <1>1, <1>t, <2>1, EndType DEF Lookup, TypeOK
    <2>2. CASE ~End(c)
      <3>1. PICK s \in Sessions : call' = [call EXCEPT ![c].pc = "assess", ![c].session = s]
        BY <1>1, <2>2 DEF Lookup, ConstantsAssumption
      <3>2. [call[c] EXCEPT !.pc = "assess", !.session = s] \in Call
        <4>1. call[c] \in Call
          BY <1>c
        <4> QED BY <4>1 DEF Call
      <3>3. call' \in [Calls -> Call]
        BY <1>t, <3>1, <3>2 DEF TypeOK
      <3> QED BY <1>1, <1>t, <3>3 DEF Lookup, TypeOK
    <2> QED BY <2>1, <2>2
  <1>2. ASSUME NEW c \in Calls, FindAssessment(c) PROVE TypeOK'
    <2>1. call' \in [Calls -> Call]
      BY <1>2, <1>t, EndType, EnterType DEF FindAssessment, TypeOK
    <2> QED BY <1>2, <1>t, <2>1 DEF FindAssessment, TypeOK
  <1>3. ASSUME NEW c \in Calls, CreateAssessment(c) PROVE TypeOK'
    <2>1. call' \in [Calls -> Call]
      BY <1>3, <1>t, EndType, EnterType DEF CreateAssessment, TypeOK
    <2>2. assessments' \in [Sessions -> Nat]
      <3>1. call[c].session \in Sessions
        BY <1>3 DEF CreateAssessment, IInv, InFlightOK, InFlightAt
      <3>2. assessments[call[c].session] + 1 \in Nat
        BY <1>t, <3>1 DEF TypeOK
      <3> QED BY <1>3, <1>t, <3>2 DEF CreateAssessment, TypeOK
    <2> QED BY <1>3, <1>t, <2>1, <2>2 DEF CreateAssessment, TypeOK
  <1>4. ASSUME NEW c \in Calls, CompleteSession(c) PROVE TypeOK'
    <2> DEFINE s == call[c].session
    <2>1. PICK v \in Verdicts : Completes(c, v)
      BY <1>4, CompletesWithVerdict
    <2>2. s \in Sessions
      BY <1>4, CompletesWithVerdict
    <2>3. \A o \in Outcomes : OutcomeVerdict(c, o, v) \in Verdicts
      BY <1>4, <1>t, OutcomeVerdictType DEF CompleteSession, IInv
    <2>4. [session[s] EXCEPT !.status = "COMPLETED", !.verdict = v]
            \in [status : Status, verdict : Verdicts \cup {None}, external : Trainers \cup {None}]
      <3>1. session[s] \in [status : Status, verdict : Verdicts \cup {None},
                            external : Trainers \cup {None}]
        BY <1>t, <2>2 DEF TypeOK
      <3> QED BY <3>1
    <2>5. session' \in [Sessions -> [status : Status, verdict : Verdicts \cup {None},
                                     external : Trainers \cup {None}]]
      BY <1>t, <2>1, <2>2, <2>4 DEF TypeOK, Completes
    <2>6. sessionOutcome' \in [Sessions -> [Outcomes -> Verdicts \cup {None}]]
      BY <1>t, <2>1, <2>2, <2>3 DEF TypeOK, Completes
    <2>7. [call[c] EXCEPT !.pc = "assignment", !.verdict = v] \in Call
      <3>1. call[c] \in Call
        BY <1>c
      <3> QED BY <3>1 DEF Call
    <2>8. call' \in [Calls -> Call]
      BY <1>t, <2>1, <2>7 DEF TypeOK, Completes
    <2> QED BY <1>4, <1>t, <2>5, <2>6, <2>8 DEF CompleteSession, TypeOK
  <1>5. ASSUME NEW c \in Calls, ReadAssignment(c) PROVE TypeOK'
    <2> DEFINE todo == IF assigned THEN OutcomesOf[call[c].session] \cap Tracked ELSE {}
    <2>1. todo \in SUBSET Outcomes
      BY DEF ConstantsAssumption
    <2>2. [call[c] EXCEPT !.pc = "outcomes", !.todo = todo] \in Call
      <3>1. call[c] \in Call
        BY <1>c
      <3> QED BY <2>1, <3>1 DEF Call
    <2>3. call' \in [Calls -> Call]
      BY <1>5, <1>t, <2>2 DEF ReadAssignment, TypeOK
    <2> QED BY <1>5, <1>t, <2>3 DEF ReadAssignment, TypeOK
  <1>6. ASSUME NEW c \in Calls, FindOutcome(c) PROVE TypeOK'
    <2>1. PICK o \in call[c].todo :
            call' = [call EXCEPT ![c].pc = "apply", ![c].outcome = o,
                                 ![c].seen = learnerOutcome[o].attempts]
      BY <1>6 DEF FindOutcome
    <2>2. o \in Outcomes
      BY <1>c, <2>1 DEF Call
    <2>3. learnerOutcome[o].attempts \in Nat
      BY <1>t, <2>2 DEF TypeOK
    <2>4. [call[c] EXCEPT !.pc = "apply", !.outcome = o, !.seen = learnerOutcome[o].attempts]
            \in Call
      <3>1. call[c] \in Call
        BY <1>c
      <3> QED BY <2>2, <2>3, <3>1 DEF Call
    <2>5. call' \in [Calls -> Call]
      BY <1>t, <2>1, <2>4 DEF TypeOK
    <2> QED BY <1>6, <1>t, <2>5 DEF FindOutcome, TypeOK
  <1>7. ASSUME NEW c \in Calls, ApplyVerdict(c) PROVE TypeOK'
    <2> DEFINE o == call[c].outcome
               repeat == call[c].verdict # "ACHIEVED" /\ learnerOutcome[o].attempts + 1 > 1
    <2>1. o \in Outcomes
      BY <1>7 DEF ApplyVerdict, IInv, InFlightOK, InFlightAt
    <2>2. learnerOutcome[o].attempts \in Nat
      BY <1>t, <2>1 DEF TypeOK
    <2>3. learnerOutcome' \in [Outcomes -> [status : {"NOT_STARTED", "IN_PROGRESS", "ACHIEVED"},
                                            attempts : Nat]]
      BY <1>7, <1>t, <2>1, <2>2 DEF ApplyVerdict, TypeOK
    <2>4. escalating' \in [Calls -> SUBSET Outcomes]
      BY <1>7, <1>t, <2>1 DEF ApplyVerdict, TypeOK
    <2>5. ASSUME NEW pc \in InFlight
          PROVE [call[c] EXCEPT !.pc = pc, !.todo = @ \ {o}, !.outcome = None, !.seen = 0] \in Call
      <3>1. call[c] \in Call
        BY <1>c
      <3>2. call[c].todo \ {o} \in SUBSET Outcomes
        BY <3>1 DEF Call
      <3> QED BY <3>1, <3>2 DEF Call
    <2>6. call' \in [Calls -> Call]
      <3>1. PICK pc \in InFlight :
              call' = [call EXCEPT ![c].pc = pc, ![c].todo = @ \ {o}, ![c].outcome = None,
                                   ![c].seen = 0]
        BY <1>7 DEF ApplyVerdict
      <3> QED BY <1>t, <2>5, <3>1 DEF TypeOK
    <2> QED BY <1>7, <1>t, <2>3, <2>4, <2>6 DEF ApplyVerdict, TypeOK
  <1>8. ASSUME NEW c \in Calls, Recommend(c) \/ RecommendFails(c) PROVE TypeOK'
    <2>1. call' \in [Calls -> Call]
      BY <1>8, <1>t, EndType, EnterType DEF Recommend, RecommendFails, TypeOK
    <2> QED BY <1>8, <1>t, <2>1 DEF Recommend, RecommendFails, TypeOK
  <1>9. ASSUME NEW c \in Calls, Publish(c) PROVE TypeOK'
    <2>1. call' \in [Calls -> Call]
      BY <1>9, <1>t, EndType DEF Publish, TypeOK
    <2>2. handler' \in [Calls -> [Sessions -> Handler]]
      <3>1. [pc |-> "create", todo |-> Recipients] \in Handler
        BY DEF Handler
      <3> QED BY <1>9, <1>t, <3>1 DEF Publish, TypeOK
    <2> QED BY <1>9, <1>t, <2>1, <2>2 DEF Publish, TypeOK
  <1>10. ASSUME NEW c \in Calls, NEW s \in Sessions, CreateReport(c, s) PROVE TypeOK'
    <2> DEFINE r == Recipient(handler[c][s].todo)
    <2>1. handler[c][s] \in Handler
      BY <1>t DEF TypeOK
    <2>2. r \in Recipients
      BY <1>10, <2>1, RecipientType DEF CreateReport, IInv, HandlerOK, Handler
    <2>3. report' \in [Sessions -> [Recipients -> Nat]]
      BY <1>10, <1>t, <2>2, CountType DEF CreateReport, TypeOK
    <2>4. [handler[c][s] EXCEPT !.pc = "enqueue"] \in Handler
      BY <2>1 DEF Handler
    <2>5. handler' \in [Calls -> [Sessions -> Handler]]
      BY <1>10, <1>t, <2>4 DEF CreateReport, TypeOK
    <2> QED BY <1>10, <1>t, <2>3, <2>5 DEF CreateReport, TypeOK
  <1>11. ASSUME NEW c \in Calls, NEW s \in Sessions, EnqueueGenerate(c, s) PROVE TypeOK'
    <2> DEFINE r == Recipient(handler[c][s].todo)
               rest == handler[c][s].todo \ {r}
    <2>1. handler[c][s] \in Handler
      BY <1>t DEF TypeOK
    <2>2. r \in Recipients
      BY <1>11, <2>1, RecipientType DEF EnqueueGenerate, IInv, HandlerOK, Handler
    <2>3. generate' \in [Sessions -> [Recipients -> Nat]]
      BY <1>11, <1>t, <2>2, CountType DEF EnqueueGenerate, TypeOK
    <2>4. (IF rest = {} THEN NoHandler ELSE [pc |-> "create", todo |-> rest]) \in Handler
      <3>1. rest \in SUBSET Recipients
        BY <2>1 DEF Handler
      <3> QED BY <3>1 DEF Handler, NoHandler
    <2>5. handler' \in [Calls -> [Sessions -> Handler]]
      BY <1>11, <1>t, <2>4 DEF EnqueueGenerate, TypeOK
    <2> QED BY <1>11, <1>t, <2>3, <2>5 DEF EnqueueGenerate, TypeOK
  <1>12. ASSUME NEW c \in Calls, NEW s \in Sessions, HandlerFails(c, s) PROVE TypeOK'
    <2>1. NoHandler \in Handler
      BY DEF NoHandler, Handler
    <2> QED BY <1>12, <1>t, <2>1 DEF HandlerFails, TypeOK
  <1>13. ASSUME NEW c \in Calls, NEW o \in Outcomes, Escalate(c, o) \/ EscalationFails(c, o)
         PROVE TypeOK'
    <2>1. escalating' \in [Calls -> SUBSET Outcomes]
      BY <1>13, <1>t DEF Escalate, EscalationFails, TypeOK
    <2>2. escalated' \subseteq Outcomes
      BY <1>13, <1>t DEF Escalate, EscalationFails, TypeOK
    <2> QED BY <1>13, <1>t, <2>1, <2>2 DEF Escalate, EscalationFails, TypeOK
  <1>14. ASSUME StartSweep PROVE TypeOK'
    <2>1. sweep' \subseteq (1 .. Len(Order)) \X Trainers
      <3>1. ASSUME NEW i \in 1 .. overdue, Stuck(Order[i])
            PROVE <<i, session[Order[i]].external>> \in (1 .. Len(Order)) \X Trainers
        <4>1. i \in 1 .. Len(Order) /\ Order[i] \in Sessions
          BY <1>t DEF TypeOK, ConstantsAssumption
        <4> QED BY <1>t, <3>1, <4>1 DEF TypeOK, Stuck
      <3> DEFINE stuck == {i \in 1 .. overdue : Stuck(Order[i])}
                 batch == {i \in stuck : Cardinality({j \in stuck : j < i}) < BatchSize}
      <3>2. sweep' = {<<i, session[Order[i]].external>> : i \in batch}
        BY <1>14 DEF StartSweep
      <3>3. \A i \in batch : i \in 1 .. overdue /\ Stuck(Order[i])
        OBVIOUS
      <3> HIDE DEF batch
      <3> QED BY <3>1, <3>2, <3>3
    <2> QED BY <1>14, <1>t, <2>1 DEF StartSweep, TypeOK
  <1>15. ASSUME NEW p \in sweep, SweepUnreachable(p) \/ SweepPasses(p) PROVE TypeOK'
    BY <1>15, <1>t DEF SweepUnreachable, SweepPasses, TypeOK
  <1>16. ASSUME NEW p \in sweep, SweepCompletes(p) PROVE TypeOK'
    <2>1. p[2] \in Trainers
      BY <1>t DEF TypeOK
    <2>2. call' \in [Calls -> Call]
      BY <1>16, <1>t, <2>1, LookupExternalType DEF SweepCompletes
    <2> QED BY <1>16, <1>t, <2>2 DEF SweepCompletes, TypeOK
  <1>17. ASSUME NEW c \in Webhooks, NEW x \in Trainers, Deliver(c, x) PROVE TypeOK'
    <2>1. call' \in [Calls -> Call]
      BY <1>17, <1>t, LookupExternalType DEF Deliver
    <2> QED BY <1>17, <1>t, <2>1 DEF Deliver, TypeOK
  <1>25. ASSUME NEW c \in Calls, StoreEvaluation(c) PROVE TypeOK'
    <2>1. call' \in [Calls -> Call]
      BY <1>25, <1>t, EnterType DEF StoreEvaluation, TypeOK, InFlight
    <2>2. call[c].external \in Trainers
      BY <1>25 DEF StoreEvaluation, IInv, InFlightOK, InFlightAt, InFlight
    <2> QED BY <1>25, <1>t, <2>1, <2>2 DEF StoreEvaluation, TypeOK
  <1>18. ASSUME NEW c \in Calls, CallFails(c) PROVE TypeOK'
    <2>1. call' \in [Calls -> Call]
      BY <1>18, <1>t, EndType DEF CallFails, TypeOK
    <2> QED BY <1>18, <1>t, <2>1 DEF CallFails, TypeOK
  <1>19. ASSUME Crash PROVE TypeOK'
    <2>1. call' \in [Calls -> Call]
      BY <1>19, <1>t, EndedType DEF Crash, TypeOK
    <2>2. handler' \in [Calls -> [Sessions -> Handler]]
      BY <1>19 DEF Crash, NoHandler, Handler
    <2> QED BY <1>19, <1>t, <2>1, <2>2 DEF Crash, TypeOK
  <1>20. ASSUME NEW x \in Trainers, TrainerEnds(x) PROVE TypeOK'
    <2>1. trainer' \in [Trainers -> [state : TrainerState, verdict : Verdicts \cup {None},
                                     found : [Outcomes -> {"passed", "failed", "unmatched"}]]]
      <3>1. ASSUME NEW v \in Verdicts, NEW found \in [Outcomes -> Findings],
                   trainer' = [trainer EXCEPT ![x] =
                     [state |-> "evaluated", verdict |-> v, found |-> found]]
            PROVE trainer' \in [Trainers -> [state : TrainerState, verdict : Verdicts \cup {None},
                                    found : [Outcomes -> {"passed", "failed", "unmatched"}]]]
        <4>1. found \in [Outcomes -> {"passed", "failed", "unmatched"}]
          BY DEF ConstantsAssumption
        <4> QED BY <1>t, <3>1, <4>1 DEF TypeOK, TrainerState
      <3>2. CASE trainer' = [trainer EXCEPT ![x].state = "unevaluated"]
        BY <1>t, <3>2, StateType DEF TrainerState
      <3> QED BY <1>20, <3>1, <3>2 DEF TrainerEnds
    <2> QED BY <1>20, <1>t, <2>1 DEF TrainerEnds, TypeOK
  <1>21. ASSUME TimePasses PROVE TypeOK'
    BY <1>21, <1>t DEF TimePasses, TypeOK, ConstantsAssumption
  <1>22. ASSUME NEW s \in Sessions, NEW x \in Trainers, Redispatch(s, x) PROVE TypeOK'
    <2>1. trainer' \in [Trainers -> [state : TrainerState, verdict : Verdicts \cup {None},
                                     found : [Outcomes -> {"passed", "failed", "unmatched"}]]]
      BY <1>22, <1>t, StateType DEF Redispatch, TrainerState
    <2>2. session' \in [Sessions -> [status : Status, verdict : Verdicts \cup {None},
                                     external : Trainers \cup {None}]]
      <3>1. session[s] \in [status : Status, verdict : Verdicts \cup {None},
                            external : Trainers \cup {None}]
        BY <1>t DEF TypeOK
      <3>2. [session[s] EXCEPT !.external = x]
              \in [status : Status, verdict : Verdicts \cup {None}, external : Trainers \cup {None}]
        BY <3>1
      <3> QED BY <1>22, <1>t, <3>2 DEF Redispatch, TypeOK
    <2> QED BY <1>22, <1>t, <2>1, <2>2 DEF Redispatch, TypeOK
  <1>23. ASSUME NEW s \in Sessions, CancelRead(s) \/ CancelRow(s) PROVE TypeOK'
    <2>1. session' \in [Sessions -> [status : Status, verdict : Verdicts \cup {None},
                                     external : Trainers \cup {None}]]
      <3>1. session[s] \in [status : Status, verdict : Verdicts \cup {None},
                            external : Trainers \cup {None}]
        BY <1>t DEF TypeOK
      <3>2. [session[s] EXCEPT !.status = "CANCELLED"]
              \in [status : Status, verdict : Verdicts \cup {None}, external : Trainers \cup {None}]
        BY <3>1
      <3>3. session' = session \/ session' = [session EXCEPT ![s].status = "CANCELLED"]
        BY <1>23 DEF CancelRead, CancelRow, rows
      <3>4. session \in [Sessions -> [status : Status, verdict : Verdicts \cup {None},
                                      external : Trainers \cup {None}]]
        BY <1>t DEF TypeOK
      <3>5. CASE session' = session
        BY <3>4, <3>5
      <3>6. CASE session' = [session EXCEPT ![s].status = "CANCELLED"]
        BY <3>2, <3>4, <3>6
      <3> QED BY <3>3, <3>5, <3>6
    <2>2. cancelling' \subseteq Sessions
      BY <1>23, <1>t DEF CancelRead, CancelRow, TypeOK
    <2>3. UNCHANGED <<sessionOutcome, assessments, learnerOutcome, assigned, trainer, overdue,
                      stored, call, sweep, handler, escalating, escalated, report, generate>>
      BY <1>23 DEF CancelRead, CancelRow, rows, events
    <2> QED BY <1>t, <2>1, <2>2, <2>3 DEF TypeOK
  <1>24. ASSUME Withdraw \/ UNCHANGED vars PROVE TypeOK'
    BY <1>24, <1>t DEF Withdraw, vars, TypeOK
  <1> QED
    BY <1>1, <1>2, <1>3, <1>4, <1>5, <1>6, <1>7, <1>8, <1>9, <1>10, <1>11, <1>12, <1>13, <1>14,
       <1>15, <1>16, <1>17, <1>18, <1>19, <1>20, <1>21, <1>22, <1>23, <1>24, <1>25
    DEF Next, CallStep, HandlerStep, SweepStep

-----------------------------------------------------------------------------
(* Which actions write what.                                               *)

WritesSession == \/ \E c \in Calls : CompleteSession(c)
                 \/ \E s \in Sessions, x \in Trainers : Redispatch(s, x)
                 \/ \E s \in Sessions : CancelRow(s)
WritesOutcome == \E c \in Calls : ApplyVerdict(c)
WritesTrainer == \/ \E x \in Trainers : TrainerEnds(x)
                 \/ \E s \in Sessions, x \in Trainers : Redispatch(s, x)
WritesReport == \/ \E c \in Calls : Publish(c)
                \/ \E c \in Calls, s \in Sessions :
                     CreateReport(c, s) \/ EnqueueGenerate(c, s) \/ HandlerFails(c, s)
                \/ Crash
Frame ==
  /\ WritesSession \/ UNCHANGED <<session, sessionOutcome>>
  /\ WritesOutcome \/ UNCHANGED learnerOutcome
  /\ WritesTrainer \/ UNCHANGED trainer
  /\ WritesReport \/ UNCHANGED <<handler, report>>
  /\ assigned' => assigned

\* Every other action leaves these variables alone.
LEMMA StepFrame == ASSUME [Next]_vars PROVE Frame
  <1> USE DEF rows, world, events
  <1>1. ASSUME NEW c \in Calls, Lookup(c) PROVE Frame
    BY <1>1 DEF Lookup, Frame
  <1>0. ASSUME NEW c \in Calls, StoreEvaluation(c) PROVE Frame
    BY <1>0 DEF StoreEvaluation, Frame
  <1>2. ASSUME NEW c \in Calls, FindAssessment(c) PROVE Frame
    BY <1>2 DEF FindAssessment, Frame
  <1>3. ASSUME NEW c \in Calls, CreateAssessment(c) PROVE Frame
    BY <1>3 DEF CreateAssessment, Frame
  <1>4. ASSUME NEW c \in Calls, CompleteSession(c) PROVE Frame
    BY <1>4 DEF CompleteSession, Frame, WritesSession
  <1>5. ASSUME NEW c \in Calls, ReadAssignment(c) PROVE Frame
    BY <1>5 DEF ReadAssignment, Frame
  <1>6. ASSUME NEW c \in Calls, FindOutcome(c) PROVE Frame
    BY <1>6 DEF FindOutcome, Frame
  <1>7. ASSUME NEW c \in Calls, ApplyVerdict(c) PROVE Frame
    BY <1>7 DEF ApplyVerdict, Frame, WritesOutcome
  <1>8. ASSUME NEW c \in Calls, Recommend(c) PROVE Frame
    BY <1>8 DEF Recommend, Frame
  <1>9. ASSUME NEW c \in Calls, RecommendFails(c) PROVE Frame
    BY <1>9 DEF RecommendFails, Frame
  <1>10. ASSUME NEW c \in Calls, Publish(c) PROVE Frame
    BY <1>10 DEF Publish, Frame, WritesReport
  <1>11. ASSUME NEW c \in Calls, CallFails(c) PROVE Frame
    BY <1>11 DEF CallFails, Frame
  <1>12. ASSUME NEW c \in Calls, NEW s \in Sessions, CreateReport(c, s) PROVE Frame
    BY <1>12 DEF CreateReport, Frame, WritesReport
  <1>13. ASSUME NEW c \in Calls, NEW s \in Sessions, EnqueueGenerate(c, s) PROVE Frame
    BY <1>13 DEF EnqueueGenerate, Frame, WritesReport
  <1>14. ASSUME NEW c \in Calls, NEW s \in Sessions, HandlerFails(c, s) PROVE Frame
    BY <1>14 DEF HandlerFails, Frame, WritesReport
  <1>15. ASSUME NEW c \in Calls, NEW o \in Outcomes, Escalate(c, o) PROVE Frame
    BY <1>15 DEF Escalate, Frame
  <1>16. ASSUME NEW c \in Calls, NEW o \in Outcomes, EscalationFails(c, o) PROVE Frame
    BY <1>16 DEF EscalationFails, Frame
  <1>17. ASSUME NEW c \in Webhooks, NEW x \in Trainers, Deliver(c, x) PROVE Frame
    BY <1>17 DEF Deliver, Frame
  <1>18. ASSUME NEW p \in sweep, SweepUnreachable(p) PROVE Frame
    BY <1>18 DEF SweepUnreachable, Frame
  <1>19. ASSUME NEW p \in sweep, SweepPasses(p) PROVE Frame
    BY <1>19 DEF SweepPasses, Frame
  <1>20. ASSUME NEW p \in sweep, SweepCompletes(p) PROVE Frame
    BY <1>20 DEF SweepCompletes, Frame
  <1>21. ASSUME StartSweep PROVE Frame
    BY <1>21 DEF StartSweep, Frame
  <1>22. ASSUME Crash PROVE Frame
    BY <1>22 DEF Crash, Frame, WritesReport
  <1>23. ASSUME TimePasses PROVE Frame
    BY <1>23 DEF TimePasses, Frame
  <1>24. ASSUME Withdraw PROVE Frame
    BY <1>24 DEF Withdraw, Frame
  <1>25. ASSUME NEW x \in Trainers, TrainerEnds(x) PROVE Frame
    BY <1>25 DEF TrainerEnds, Frame, WritesTrainer
  <1>26. ASSUME NEW s \in Sessions, CancelRead(s) PROVE Frame
    BY <1>26 DEF CancelRead, Frame
  <1>27. ASSUME NEW s \in Sessions, CancelRow(s) PROVE Frame
    BY <1>27 DEF CancelRow, Frame, WritesSession
  <1>28. ASSUME NEW s \in Sessions, NEW x \in Trainers, Redispatch(s, x) PROVE Frame
    BY <1>28 DEF Redispatch, Frame, WritesSession, WritesTrainer
  <1>29. ASSUME UNCHANGED vars PROVE Frame
    BY <1>29 DEF vars, Frame
  <1> QED
    BY <1>0, <1>1, <1>2, <1>3, <1>4, <1>5, <1>6, <1>7, <1>8, <1>9, <1>10, <1>11, <1>12, <1>13, <1>14,
       <1>15, <1>16, <1>17, <1>18, <1>19, <1>20, <1>21, <1>22, <1>23, <1>24, <1>25, <1>26,
       <1>27, <1>28, <1>29
    DEF Next, CallStep, HandlerStep, SweepStep

-----------------------------------------------------------------------------
(* What steps never undo.                                                  *)

\* A committed session stays committed.
LEMMA CommittedStays ==
  ASSUME ConstantsAssumption, IInv, [Next]_vars, NEW s \in Sessions, Committed(s)
  PROVE Committed(s)'
  <1>t. TypeOK
    BY DEF IInv
  <1>1. ASSUME NEW c \in Calls, CompleteSession(c) PROVE Committed(s)'
    <2>1. PICK v \in Verdicts : Completes(c, v)
      BY <1>1, CompletesWithVerdict
    <2>2. call[c].session \in Sessions
      BY <1>1, CompletesWithVerdict
    <2>3. \A o \in Outcomes : OutcomeVerdict(c, o, v) \in Verdicts
      BY <1>1, <1>t, OutcomeVerdictType DEF CompleteSession, IInv
    <2>4. None \notin Verdicts /\ OutcomesOf[s] \subseteq Outcomes
      BY DEF ConstantsAssumption
    <2>5. CASE s = call[c].session
      <3>1. session'[s].verdict = v
        BY <1>t, <2>1, <2>5 DEF Completes, TypeOK
      <3>2. \A o \in OutcomesOf[s] : sessionOutcome'[s][o] = OutcomeVerdict(c, o, v)
        BY <1>t, <2>1, <2>4, <2>5 DEF Completes, TypeOK
      <3> QED BY <2>3, <2>4, <3>1, <3>2 DEF Committed
    <2>6. CASE s # call[c].session
      <3>1. session'[s] = session[s] /\ sessionOutcome'[s] = sessionOutcome[s]
        BY <1>t, <2>1, <2>2, <2>6 DEF Completes, TypeOK
      <3> QED BY <3>1 DEF Committed
    <2> QED BY <2>5, <2>6
  <1>2. ASSUME UNCHANGED sessionOutcome, session'[s].verdict = session[s].verdict
        PROVE Committed(s)'
    BY <1>2 DEF Committed
  <1>3. ASSUME NEW r \in Sessions, NEW x \in Trainers, Redispatch(r, x) PROVE Committed(s)'
    BY <1>2, <1>3, <1>t DEF Redispatch, TypeOK
  <1>4. ASSUME NEW r \in Sessions, CancelRow(r) PROVE Committed(s)'
    BY <1>2, <1>4, <1>t DEF CancelRow, TypeOK
  <1>5. CASE UNCHANGED <<session, sessionOutcome>>
    BY <1>2, <1>5
  <1> QED
    BY <1>1, <1>3, <1>4, <1>5, StepFrame DEF Frame, WritesSession

\* An outcome once attempted stays attempted.
LEMMA AttemptedStays ==
  ASSUME ConstantsAssumption, IInv, [Next]_vars,
         NEW o \in Outcomes, learnerOutcome[o].attempts > 0
  PROVE learnerOutcome'[o].attempts > 0
  <1>t. TypeOK
    BY DEF IInv
  <1>1. ASSUME NEW c \in Calls, ApplyVerdict(c) PROVE learnerOutcome'[o].attempts > 0
    <2>1. call[c].outcome \in Outcomes
      BY <1>1 DEF ApplyVerdict, IInv, InFlightOK, InFlightAt
    <2>2. CASE o = call[c].outcome
      BY <1>1, <1>t, <2>1, <2>2 DEF ApplyVerdict, TypeOK
    <2>3. CASE o # call[c].outcome
      BY <1>1, <1>t, <2>1, <2>3 DEF ApplyVerdict, TypeOK
    <2> QED BY <2>2, <2>3
  <1>2. CASE UNCHANGED learnerOutcome
    BY <1>2
  <1> QED
    BY <1>1, <1>2, StepFrame DEF Frame, WritesOutcome

\* An evaluation is never changed, and comes with a verdict.
LEMMA EvaluationStep ==
  ASSUME ConstantsAssumption, IInv, [Next]_vars
  PROVE /\ \A x \in Trainers : trainer[x].state = "evaluated" => trainer'[x] = trainer[x]
        /\ EvaluationOK'
  <1>t. TypeOK /\ EvaluationOK
    BY DEF IInv
  <1>1. ASSUME NEW y \in Trainers, TrainerEnds(y)
        PROVE /\ \A x \in Trainers : trainer[x].state = "evaluated" => trainer'[x] = trainer[x]
              /\ EvaluationOK'
    <2>1. trainer[y].state = "running" /\ \A x \in Trainers \ {y} : trainer'[x] = trainer[x]
      BY <1>1, <1>t DEF TrainerEnds, TypeOK
    <2>2. trainer'[y].state = "evaluated" => trainer'[y].verdict \in Verdicts
      BY <1>1, <1>t DEF TrainerEnds, TypeOK
    <2> QED BY <1>t, <2>1, <2>2 DEF EvaluationOK
  <1>2. ASSUME NEW r \in Sessions, NEW y \in Trainers, Redispatch(r, y)
        PROVE /\ \A x \in Trainers : trainer[x].state = "evaluated" => trainer'[x] = trainer[x]
              /\ EvaluationOK'
    <2>1. trainer[y].state = "unused" /\ \A x \in Trainers \ {y} : trainer'[x] = trainer[x]
      BY <1>2, <1>t DEF Redispatch, TypeOK
    <2>2. trainer'[y].state = "running"
      BY <1>2, <1>t DEF Redispatch, TypeOK
    <2> QED BY <1>t, <2>1, <2>2 DEF EvaluationOK
  <1>3. CASE UNCHANGED trainer
    BY <1>3, <1>t DEF EvaluationOK
  <1> QED
    BY <1>1, <1>2, <1>3, StepFrame DEF Frame, WritesTrainer

-----------------------------------------------------------------------------
(* Calls.                                                                  *)

\* The call d makes a step of its own, other than failing.
Moves(d) ==
  \/ Lookup(d) \/ StoreEvaluation(d) \/ FindAssessment(d) \/ CreateAssessment(d)
  \/ CompleteSession(d) \/ ReadAssignment(d) \/ FindOutcome(d) \/ ApplyVerdict(d) \/ Recommend(d)
  \/ d \in External /\ \E x \in Trainers : LookupExternal(d, x) /\ trainer[x].state = "evaluated"

\* A call that does not move stays where it is, or ends.
LEMMA Stays ==
  ASSUME ConstantsAssumption, TypeOK, [Next]_vars, NEW d \in Calls, ~Moves(d)
  PROVE call'[d] = call[d] \/ call'[d] = Ended(d)
  <1> DEFINE Goal == call'[d] = call[d] \/ call'[d] = Ended(d)
  <1>t. call \in [Calls -> Call]
    BY DEF TypeOK
  <1>1. ASSUME NEW c \in Calls, NEW e, call' = [call EXCEPT ![c] = e], d # c PROVE Goal
    BY <1>t, <1>1
  <1>2. ASSUME NEW c \in Calls, End(c) PROVE Goal
    BY <1>t, <1>2 DEF End
  <1>3. ASSUME NEW c \in Calls, NEW pc, Enter(c, pc), d # c PROVE Goal
    BY <1>t, <1>3 DEF Enter
  <1>4. ASSUME UNCHANGED call PROVE Goal
    BY <1>4
  <1>5. ASSUME NEW c \in Calls, Lookup(c) PROVE Goal
    <2>1. d # c
      BY <1>5 DEF Moves
    <2> QED BY <1>t, <1>2, <1>5, <2>1 DEF Lookup
  <1>0. ASSUME NEW c \in Calls, StoreEvaluation(c) PROVE Goal
    <2>1. d # c
      BY <1>0 DEF Moves
    <2> QED BY <1>3, <1>0, <2>1 DEF StoreEvaluation
  <1>6. ASSUME NEW c \in Calls, FindAssessment(c) \/ CreateAssessment(c) PROVE Goal
    <2>1. d # c
      BY <1>6 DEF Moves
    <2> QED BY <1>2, <1>3, <1>6, <2>1 DEF FindAssessment, CreateAssessment
  <1>7. ASSUME NEW c \in Calls, CompleteSession(c) PROVE Goal
    <2>1. d # c
      BY <1>7 DEF Moves
    <2> QED BY <1>t, <1>7, <2>1 DEF CompleteSession
  <1>8. ASSUME NEW c \in Calls, ReadAssignment(c) PROVE Goal
    <2>1. d # c
      BY <1>8 DEF Moves
    <2> QED BY <1>t, <1>8, <2>1 DEF ReadAssignment
  <1>9. ASSUME NEW c \in Calls, FindOutcome(c) PROVE Goal
    <2>1. d # c
      BY <1>9 DEF Moves
    <2> QED BY <1>t, <1>9, <2>1 DEF FindOutcome
  <1>10. ASSUME NEW c \in Calls, ApplyVerdict(c) PROVE Goal
    <2>1. d # c
      BY <1>10 DEF Moves
    <2> QED BY <1>t, <1>10, <2>1 DEF ApplyVerdict
  <1>11. ASSUME NEW c \in Calls, Recommend(c) PROVE Goal
    <2>1. d # c
      BY <1>11 DEF Moves
    <2> QED BY <1>3, <1>11, <2>1 DEF Recommend
  <1>12. ASSUME NEW c \in Calls, RecommendFails(c) \/ Publish(c) \/ CallFails(c) PROVE Goal
    BY <1>2, <1>12 DEF RecommendFails, Publish, CallFails
  <1>13. ASSUME NEW c \in External, NEW x \in Trainers, LookupExternal(c, x),
                trainer[x].state = "evaluated"
         PROVE Goal
    <2>1. d # c
      BY <1>13 DEF Moves
    <2> QED BY <1>t, <1>2, <1>13, <2>1 DEF LookupExternal
  <1>14. ASSUME Crash PROVE Goal
    BY <1>14 DEF Crash
  <1>15. ASSUME NEW p \in sweep, SweepCompletes(p) PROVE Goal
    <2>1. p[2] \in Trainers
      BY DEF TypeOK
    <2> QED BY <1>13, <1>15, <2>1 DEF SweepCompletes
  <1>16. ASSUME NEW c \in Webhooks, NEW x \in Trainers, Deliver(c, x) PROVE Goal
    BY <1>13, <1>16 DEF Deliver
  <1>17. ASSUME NEW c \in Calls, HandlerStep(c) PROVE Goal
    BY <1>4, <1>17 DEF HandlerStep, CreateReport, EnqueueGenerate, HandlerFails, Escalate,
       EscalationFails
  <1>18. ASSUME StartSweep PROVE Goal
    BY <1>4, <1>18 DEF StartSweep
  <1>19. ASSUME NEW p \in sweep, SweepUnreachable(p) \/ SweepPasses(p) PROVE Goal
    BY <1>4, <1>19 DEF SweepUnreachable, SweepPasses
  <1>20. ASSUME TimePasses \/ Withdraw \/ UNCHANGED vars PROVE Goal
    BY <1>4, <1>20 DEF TimePasses, Withdraw, vars
  <1>21. ASSUME NEW x \in Trainers, TrainerEnds(x) PROVE Goal
    BY <1>4, <1>21 DEF TrainerEnds
  <1>22. ASSUME NEW s \in Sessions, CancelRead(s) \/ CancelRow(s) PROVE Goal
    BY <1>4, <1>22 DEF CancelRead, CancelRow
  <1>23. ASSUME NEW s \in Sessions, NEW x \in Trainers, Redispatch(s, x) PROVE Goal
    BY <1>4, <1>23 DEF Redispatch
  <1> HIDE DEF Goal
  <1>q. Goal
    BY <1>0, <1>5, <1>6, <1>7, <1>8, <1>9, <1>10, <1>11, <1>12, <1>14, <1>15, <1>16, <1>17, <1>18,
       <1>19, <1>20, <1>21, <1>22, <1>23
    DEF Next, CallStep, SweepStep
  <1> QED BY <1>q DEF Goal

\* A call that stays or ends is still about what it was about.
LEMMA StaysOK ==
  ASSUME ConstantsAssumption, IInv, [Next]_vars, NEW d \in Calls,
         call'[d] = call[d] \/ call'[d] = Ended(d)
  PROVE InFlightAt(d)' /\ CommittedAt(d)'
  <1>1. CASE call'[d] = Ended(d)
    <2>1. call'[d].pc \in {"idle", "done"}
      BY <1>1, EndedType
    <2> QED BY <2>1 DEF InFlightAt, CommittedAt
  <1>2. CASE call'[d] = call[d]
    <2>1. InFlightAt(d) /\ CommittedAt(d)
      BY DEF IInv, InFlightOK, CommittedOK
    <2>2. InFlightAt(d)'
      BY <1>2, <2>1, EvaluationStep DEF InFlightAt
    <2>3. call[d].pc \in {"assignment", "outcomes", "apply", "recommend"}
            => call[d].session \in Sessions
      BY <2>1 DEF InFlightAt
    <2>4. Tracked \subseteq Outcomes
      BY DEF ConstantsAssumption
    <2>5. ASSUME call[d].pc \in {"assignment", "outcomes", "apply", "recommend"},
                 NEW s \in Sessions, s = call[d].session
          PROVE Committed(s)'
      BY <2>1, <2>3, <2>5, CommittedStays DEF CommittedAt
    <2>6. ASSUME call[d].pc \in {"outcomes", "apply", "recommend"}, assigned',
                 NEW o \in OutcomesOf[call[d].session] \cap Tracked
          PROVE o \in call[d].todo \/ learnerOutcome'[o].attempts > 0
      <3>1. assigned
        BY <2>6, StepFrame DEF Frame
      <3> QED BY <2>1, <2>4, <2>6, <3>1, AttemptedStays DEF CommittedAt
    <2>7. CommittedAt(d)'
      <3>1. call'[d].pc \in {"assignment", "outcomes", "apply", "recommend"}
              => Committed(call[d].session)'
        BY <1>2, <2>3, <2>5 DEF Committed
      <3>2. call'[d].pc \in {"outcomes", "apply", "recommend"} /\ assigned' =>
              \A o \in OutcomesOf[call'[d].session] \cap Tracked :
                o \in call'[d].todo \/ learnerOutcome'[o].attempts > 0
        BY <1>2, <2>6
      <3> QED BY <3>1, <3>2 DEF CommittedAt, Committed
    <2> QED BY <2>2, <2>7
  <1> QED BY <1>1, <1>2

\* A call that moves before its transaction has nothing committed to answer for.
LEMMA EarlyMoves ==
  ASSUME ConstantsAssumption, IInv, [Next]_vars, NEW d \in Calls,
         \/ Lookup(d) \/ StoreEvaluation(d) \/ FindAssessment(d) \/ CreateAssessment(d)
         \/ d \in External /\ \E x \in Trainers : LookupExternal(d, x) /\ trainer[x].state = "evaluated"
  PROVE InFlightAt(d)' /\ CommittedAt(d)'
  <1>t. call[d] \in Call /\ call \in [Calls -> Call]
    BY DEF IInv, TypeOK
  <1>e. ASSUME End(d) PROVE InFlightAt(d)' /\ CommittedAt(d)'
    BY <1>t, <1>e, StaysOK DEF End
  <1>f. Agents \cap External = {} /\ Answers \cap External = {} /\ Agents \cap Answers = {}
    BY DEF ConstantsAssumption
  <1>1. ASSUME Lookup(d), ~End(d) PROVE InFlightAt(d)' /\ CommittedAt(d)'
    <2>1. PICK s \in Sessions : call' = [call EXCEPT ![d].pc = "assess", ![d].session = s]
      BY <1>1 DEF Lookup, ConstantsAssumption
    <2>2. call'[d].pc = "assess" /\ call'[d].session = s
      BY <1>t, <2>1 DEF Call
    <2>3. d \notin External
      BY <1>1, <1>f DEF Lookup
    <2> QED BY <2>2, <2>3 DEF InFlightAt, CommittedAt
  <1>2. ASSUME FindAssessment(d) \/ CreateAssessment(d), ~End(d)
        PROVE InFlightAt(d)' /\ CommittedAt(d)'
    <2>1. PICK pc \in {"create", "complete"} : Enter(d, pc) /\ (d \in Answers => pc = "create")
      BY <1>2 DEF FindAssessment, CreateAssessment
    <2>2. /\ call'[d].pc = pc
          /\ call'[d].session = call[d].session /\ call'[d].external = call[d].external
      BY <1>t, <2>1 DEF Enter, Call
    <2>3. call[d].pc \in InFlight /\ InFlightAt(d)
      BY <1>2 DEF FindAssessment, CreateAssessment, IInv, InFlightOK
    <2> QED BY <2>1, <2>2, <2>3, EvaluationStep DEF InFlightAt, CommittedAt
  <1>3. ASSUME NEW x \in Trainers, LookupExternal(d, x), trainer[x].state = "evaluated",
               d \in External, ~End(d)
        PROVE InFlightAt(d)' /\ CommittedAt(d)'
    <2>1. PICK s \in Sessions : call' = [call EXCEPT ![d].pc = "store", ![d].session = s,
                                                      ![d].external = x]
      BY <1>3 DEF LookupExternal
    <2>2. call'[d].pc = "store" /\ call'[d].session = s /\ call'[d].external = x
      BY <1>t, <2>1 DEF Call
    <2>3. trainer'[x].state = "evaluated"
      BY <1>3, EvaluationStep
    <2> QED BY <1>f, <1>3, <2>2, <2>3 DEF InFlightAt, CommittedAt
  <1>4. ASSUME StoreEvaluation(d) PROVE InFlightAt(d)' /\ CommittedAt(d)'
    <2>1. /\ call'[d].pc = "assess"
          /\ call'[d].session = call[d].session /\ call'[d].external = call[d].external
      BY <1>t, <1>4 DEF StoreEvaluation, Enter, Call
    <2>2. call[d].pc \in InFlight /\ InFlightAt(d)
      BY <1>4 DEF StoreEvaluation, IInv, InFlightOK, InFlight
    <2> QED BY <2>1, <2>2, EvaluationStep DEF InFlightAt, CommittedAt
  <1> QED BY <1>e, <1>1, <1>2, <1>3, <1>4

\* The transaction commits its session.
LEMMA CompletesOK ==
  ASSUME ConstantsAssumption, IInv, [Next]_vars, NEW d \in Calls, CompleteSession(d)
  PROVE InFlightAt(d)' /\ CommittedAt(d)'
  <1>t. TypeOK /\ call[d] \in Call
    BY DEF IInv, TypeOK
  <1>1. PICK v \in Verdicts : Completes(d, v)
    BY CompletesWithVerdict
  <1> DEFINE s == call[d].session
  <1>2. s \in Sessions
    BY CompletesWithVerdict
  <1>3. /\ call'[d].pc = "assignment" /\ call'[d].session = s
        /\ call'[d].external = call[d].external
    BY <1>t, <1>1 DEF Completes, TypeOK, Call
  <1>4. \A o \in Outcomes : OutcomeVerdict(d, o, v) \in Verdicts
    BY <1>t, OutcomeVerdictType DEF CompleteSession, IInv
  <1>5. None \notin Verdicts /\ OutcomesOf[s] \subseteq Outcomes
    BY <1>2 DEF ConstantsAssumption
  <1>6. session'[s].verdict = v
    BY <1>t, <1>1, <1>2 DEF Completes, TypeOK
  <1>7. \A o \in OutcomesOf[s] : sessionOutcome'[s][o] = OutcomeVerdict(d, o, v)
    BY <1>t, <1>1, <1>2, <1>5 DEF Completes, TypeOK
  <1>8. session'[call'[d].session].verdict # None
    BY <1>3, <1>5, <1>6
  <1>9. \A o \in OutcomesOf[call'[d].session] : sessionOutcome'[call'[d].session][o] # None
    BY <1>3, <1>4, <1>5, <1>7
  <1>10. CommittedAt(d)'
    BY <1>3, <1>8, <1>9 DEF CommittedAt, Committed
  <1>11. InFlightAt(d)'
    <2>1. call[d].pc = "complete" /\ InFlightAt(d)
      BY DEF CompleteSession, IInv, InFlightOK
    <2> QED BY <1>2, <1>3, <2>1, EvaluationStep DEF InFlightAt
  <1> QED BY <1>10, <1>11

\* Past its transaction, a call keeps its session and its evaluation, and only
\* lets go of an outcome whose attempt it has counted.
LEMMA LateMoves ==
  ASSUME ConstantsAssumption, IInv, [Next]_vars, NEW d \in Calls,
         ReadAssignment(d) \/ FindOutcome(d) \/ ApplyVerdict(d) \/ Recommend(d)
  PROVE InFlightAt(d)' /\ CommittedAt(d)'
  <1> DEFINE late == {"outcomes", "apply", "recommend"}
             s == call[d].session
  <1>t. TypeOK /\ call[d] \in Call /\ InFlightAt(d) /\ CommittedAt(d)
    BY DEF IInv, TypeOK, InFlightOK, CommittedOK
  <1>u. call \in [Calls -> Call]
    BY <1>t DEF TypeOK
  <1>r. ASSUME ReadAssignment(d)
        PROVE /\ call[d].pc = "assignment" /\ call'[d].pc = "outcomes"
              /\ call'[d].session = s /\ call'[d].external = call[d].external
              /\ call'[d].todo = IF assigned THEN OutcomesOf[s] \cap Tracked ELSE {}
    BY <1>t, <1>u, <1>r DEF ReadAssignment, Call
  <1>f. ASSUME FindOutcome(d)
        PROVE /\ call[d].pc = "outcomes" /\ call'[d].pc = "apply"
              /\ call'[d].session = s /\ call'[d].external = call[d].external
              /\ call'[d].todo = call[d].todo
    <2>1. PICK o \in call[d].todo :
            call' = [call EXCEPT ![d].pc = "apply", ![d].outcome = o,
                                 ![d].seen = learnerOutcome[o].attempts]
      BY <1>f DEF FindOutcome
    <2> QED BY <1>t, <1>u, <1>f, <2>1 DEF FindOutcome, Call
  <1>a. ASSUME ApplyVerdict(d)
        PROVE /\ call[d].pc = "apply" /\ call'[d].pc \in {"recommend", "outcomes"}
              /\ call'[d].session = s /\ call'[d].external = call[d].external
              /\ call'[d].todo = call[d].todo \ {call[d].outcome}
    BY <1>t, <1>u, <1>a DEF ApplyVerdict, Call
  <1>m. ASSUME Recommend(d)
        PROVE /\ call[d].pc = "recommend" /\ call'[d].pc = "outcomes"
              /\ call'[d].session = s /\ call'[d].external = call[d].external
              /\ call'[d].todo = call[d].todo
    BY <1>t, <1>u, <1>m DEF Recommend, Enter, Call
  <1>1. call[d].pc \in late \cup {"assignment"}
    BY <1>r, <1>f, <1>a, <1>m
  <1>2. /\ call'[d].pc \in late
        /\ call'[d].session = s /\ call'[d].external = call[d].external
    BY <1>r, <1>f, <1>a, <1>m
  <1>3. s \in Sessions /\ d \notin Answers
    BY <1>t, <1>1 DEF InFlightAt
  <1>4. call'[d].pc = "apply" => call'[d].outcome \in Outcomes
    <2>1. CASE FindOutcome(d)
      <3>1. PICK o \in call[d].todo :
              call' = [call EXCEPT ![d].pc = "apply", ![d].outcome = o,
                                   ![d].seen = learnerOutcome[o].attempts]
        BY <2>1 DEF FindOutcome
      <3>2. o \in Outcomes
        BY <1>t DEF Call
      <3>3. call'[d].outcome = o
        BY <1>t, <3>1 DEF TypeOK, Call
      <3> QED BY <3>2, <3>3
    <2>2. CASE ReadAssignment(d) \/ ApplyVerdict(d) \/ Recommend(d)
      <3>1. call'[d].pc # "apply"
        BY <2>2, <1>r, <1>a, <1>m
      <3> QED BY <3>1
    <2> QED BY <2>1, <2>2
  <1>5. InFlightAt(d)'
    BY <1>t, <1>1, <1>2, <1>3, <1>4, EvaluationStep DEF InFlightAt
  <1>6. Committed(s)
    BY <1>t, <1>1 DEF CommittedAt
  <1>7. session'[s].verdict # None /\ \A o \in OutcomesOf[s] : sessionOutcome'[s][o] # None
    <2>1. PICK r \in Sessions : r = s
      BY <1>3
    <2>2. Committed(r)'
      BY <1>6, <2>1, CommittedStays
    <2> QED BY <2>1, <2>2 DEF Committed
  <1>8. ASSUME assigned', NEW o \in OutcomesOf[s] \cap Tracked
        PROVE o \in call'[d].todo \/ learnerOutcome'[o].attempts > 0
    <2>1. assigned
      BY <1>8, StepFrame DEF Frame
    <2>2. o \in Outcomes
      BY DEF ConstantsAssumption
    <2>3. CASE ReadAssignment(d)
      <3>1. call'[d].todo = OutcomesOf[s] \cap Tracked
        BY <2>1, <2>3, <1>r
      <3> QED BY <3>1
    <2>4. CASE FindOutcome(d) \/ Recommend(d)
      <3>1. call'[d].todo = call[d].todo /\ call[d].pc \in late
        BY <2>4, <1>f, <1>m
      <3> QED BY <1>t, <2>1, <2>2, <3>1, AttemptedStays DEF CommittedAt
    <2>5. CASE ApplyVerdict(d)
      <3>1. call'[d].todo = call[d].todo \ {call[d].outcome} /\ call[d].pc = "apply"
        BY <2>5, <1>a
      <3>2. CASE o = call[d].outcome
        BY <1>t, <2>2, <2>5, <3>2 DEF ApplyVerdict, TypeOK
      <3>3. CASE o # call[d].outcome
        BY <1>t, <2>1, <2>2, <3>1, <3>3, AttemptedStays DEF CommittedAt
      <3> QED BY <3>2, <3>3
    <2> QED BY <2>3, <2>4, <2>5
  <1>9. CommittedAt(d)'
    BY <1>2, <1>7, <1>8 DEF CommittedAt, Committed
  <1> QED BY <1>5, <1>9

\* Whatever a call does, it answers for what it has committed.
LEMMA CallsStep ==
  ASSUME ConstantsAssumption, IInv, [Next]_vars
  PROVE (InFlightOK /\ CommittedOK)'
  <1>1. ASSUME NEW d \in Calls PROVE InFlightAt(d)' /\ CommittedAt(d)'
    <2>t. TypeOK
      BY DEF IInv
    <2>1. CASE ~Moves(d)
      BY <2>t, <2>1, Stays, StaysOK
    <2>2. CASE Moves(d)
      BY <2>2, EarlyMoves, CompletesOK, LateMoves DEF Moves
    <2> QED BY <2>1, <2>2
  <1> QED BY <1>1 DEF InFlightOK, CommittedOK

-----------------------------------------------------------------------------
(* Announcements.                                                          *)

\* A handler that goes on has a recipient left to serve.
LEMMA HandlerStepOK == ASSUME ConstantsAssumption, IInv, [Next]_vars PROVE HandlerOK'
  <1>t. handler \in [Calls -> [Sessions -> Handler]] /\ HandlerOK
    BY DEF IInv, TypeOK
  <1>1. ASSUME NEW c \in Calls, NEW s \in Sessions, NEW h,
               handler' = [handler EXCEPT ![c][s] = h], h.pc # "idle" => h.todo # {}
        PROVE HandlerOK'
    <2>1. ASSUME NEW d \in Calls, NEW t \in Sessions
          PROVE handler'[d][t] = IF d = c /\ t = s THEN h ELSE handler[d][t]
      BY <1>t, <1>1
    <2> QED BY <1>t, <1>1, <2>1 DEF HandlerOK
  <1>2. ASSUME NEW c \in Calls, Publish(c) PROVE HandlerOK'
    <2>1. call[c].session \in Sessions
      BY <1>2 DEF Publish, IInv, InFlightOK, InFlightAt
    <2>2. Recipients # {}
      BY DEF ConstantsAssumption
    <2> DEFINE h == [pc |-> "create", todo |-> Recipients]
    <2>3. handler' = [handler EXCEPT ![c][call[c].session] = h]
      BY <1>2 DEF Publish
    <2>4. h.todo # {}
      BY <2>2
    <2> HIDE DEF h
    <2> QED BY <1>1, <2>1, <2>3, <2>4
  <1>3. ASSUME NEW c \in Calls, NEW s \in Sessions, CreateReport(c, s) PROVE HandlerOK'
    <2>1. [handler[c][s] EXCEPT !.pc = "enqueue"].todo # {}
      <3>1. handler[c][s] \in Handler
        BY <1>t
      <3>2. handler[c][s].todo # {}
        BY <1>t, <1>3 DEF CreateReport, HandlerOK
      <3> QED BY <3>1, <3>2 DEF Handler
    <2>2. handler' = [handler EXCEPT ![c][s] = [handler[c][s] EXCEPT !.pc = "enqueue"]]
      BY <1>t, <1>3 DEF CreateReport
    <2> QED BY <1>1, <2>1, <2>2
  <1>4. ASSUME NEW c \in Calls, NEW s \in Sessions, EnqueueGenerate(c, s) PROVE HandlerOK'
    <2> DEFINE rest == handler[c][s].todo \ {Recipient(handler[c][s].todo)}
               h == IF rest = {} THEN NoHandler ELSE [pc |-> "create", todo |-> rest]
    <2>1. handler' = [handler EXCEPT ![c][s] = h]
      BY <1>4 DEF EnqueueGenerate
    <2>2. h.pc # "idle" => h.todo # {}
      BY DEF NoHandler
    <2> HIDE DEF h
    <2> QED BY <1>1, <2>1, <2>2
  <1>5. ASSUME NEW c \in Calls, NEW s \in Sessions, HandlerFails(c, s) PROVE HandlerOK'
    BY <1>1, <1>5 DEF HandlerFails, NoHandler
  <1>6. ASSUME Crash PROVE HandlerOK'
    BY <1>6 DEF Crash, HandlerOK, NoHandler
  <1>7. ASSUME UNCHANGED handler PROVE HandlerOK'
    BY <1>t, <1>7 DEF HandlerOK
  <1> QED BY <1>2, <1>3, <1>4, <1>5, <1>6, <1>7, StepFrame DEF Frame, WritesReport

\* A session's completion is announced by Publish only: the handlers leave a
\* report of what has been announced before.
LEMMA NewlyAnnounced ==
  ASSUME ConstantsAssumption, IInv, [Next]_vars, NEW s \in Sessions, Announced(s)', ~Announced(s)
  PROVE \E c \in Calls : Publish(c) /\ call[c].session = s
  <1>t. /\ handler \in [Calls -> [Sessions -> Handler]]
        /\ report \in [Sessions -> [Recipients -> Nat]]
    BY DEF IInv, TypeOK
  <1>n. /\ \A c \in Calls : handler[c][s].pc = "idle"
        /\ \A r \in Recipients : ~(report[s][r] > 0)
    BY DEF Announced
  <1>1. ASSUME NEW c \in Calls, Publish(c) PROVE call[c].session = s
    <2>1. CASE call[c].session # s
      <3>1. \A d \in Calls : handler'[d][s] = handler[d][s]
        BY <1>t, <1>1, <2>1 DEF Publish
      <3> QED BY <1>1, <1>n, <3>1 DEF Announced, Publish
    <2> QED BY <2>1
  <1>2. ASSUME NEW c \in Calls, NEW u \in Sessions, handler[c][u].pc # "idle",
               \A d \in Calls, v \in Sessions :
                 d # c \/ v # u => handler'[d][v] = handler[d][v],
               \A v \in Sessions : v # u => report'[v] = report[v]
        PROVE FALSE
    BY <1>2, <1>n DEF Announced
  <1>3. ASSUME NEW c \in Calls, NEW u \in Sessions,
               CreateReport(c, u) \/ EnqueueGenerate(c, u) \/ HandlerFails(c, u)
        PROVE FALSE
    <2>1. handler[c][u].pc # "idle"
      BY <1>3 DEF CreateReport, EnqueueGenerate, HandlerFails
    <2>2. \A d \in Calls, v \in Sessions : d # c \/ v # u => handler'[d][v] = handler[d][v]
      BY <1>t, <1>3 DEF CreateReport, EnqueueGenerate, HandlerFails
    <2>3. \A v \in Sessions : v # u => report'[v] = report[v]
      BY <1>t, <1>3 DEF CreateReport, EnqueueGenerate, HandlerFails
    <2> QED BY <1>2, <2>1, <2>2, <2>3
  <1>4. ASSUME Crash PROVE FALSE
    BY <1>4, <1>n DEF Crash, Announced, NoHandler, events
  <1>5. ASSUME UNCHANGED <<handler, report>> PROVE FALSE
    BY <1>5, <1>n DEF Announced
  <1> QED BY <1>1, <1>3, <1>4, <1>5, StepFrame DEF Frame, WritesReport

\* What is announced is committed, and stays so.
LEMMA AnnouncedStep ==
  ASSUME ConstantsAssumption, IInv, [Next]_vars PROVE AnnouncedAfterCommit'
  <1>1. ASSUME NEW s \in Sessions, Announced(s)'
        PROVE /\ Committed(s)'
              /\ assigned' => \A o \in OutcomesOf[s] \cap Tracked : learnerOutcome'[o].attempts > 0
    <2>1. /\ Committed(s)
          /\ assigned => \A o \in OutcomesOf[s] \cap Tracked : learnerOutcome[o].attempts > 0
      <3>1. CASE Announced(s)
        BY <3>1 DEF IInv, AnnouncedAfterCommit
      <3>2. CASE ~Announced(s)
        <4>1. PICK c \in Calls : Publish(c) /\ call[c].session = s
          BY <1>1, <3>2, NewlyAnnounced
        <4>2. CommittedAt(c) /\ call[c].pc = "outcomes" /\ call[c].todo = {}
          BY <4>1 DEF Publish, IInv, CommittedOK
        <4> QED BY <4>1, <4>2 DEF CommittedAt
      <3> QED BY <3>1, <3>2
    <2>2. Tracked \subseteq Outcomes
      BY DEF ConstantsAssumption
    <2>3. Committed(s)'
      BY <2>1, CommittedStays
    <2>4. assigned' => assigned
      BY StepFrame DEF Frame
    <2> QED BY <2>1, <2>2, <2>3, <2>4, AttemptedStays
  <1> QED BY <1>1 DEF AnnouncedAfterCommit

-----------------------------------------------------------------------------
(* The theorems.                                                           *)

\* IInv holds initially.
LEMMA InvInit == ASSUME ConstantsAssumption, Init PROVE IInv
  <1>1. TypeOK
    BY TypeInit
  <1>2. \A c \in Calls : call[c].pc = "idle"
    BY DEF Init, Ended
  <1>3. InFlightOK /\ CommittedOK
    BY <1>2 DEF InFlightOK, InFlightAt, CommittedOK, CommittedAt
  <1>4. EvaluationOK
    BY DEF Init, EvaluationOK
  <1>5. \A c \in Calls, s \in Sessions : handler[c][s].pc = "idle"
    BY DEF Init, NoHandler
  <1>6. HandlerOK
    BY <1>5 DEF HandlerOK
  <1>7. AnnouncedAfterCommit
    BY <1>5 DEF Init, AnnouncedAfterCommit, Announced
  <1> QED BY <1>1, <1>3, <1>4, <1>6, <1>7 DEF IInv

\* IInv is inductive.
LEMMA InvStep == ASSUME ConstantsAssumption, IInv, [Next]_vars PROVE IInv'
  BY TypeStep, CallsStep, EvaluationStep, HandlerStepOK, AnnouncedStep DEF IInv

\* IInv holds in every state.
THEOREM CompletionInvariant == Spec => []IInv
  <1>1. Init => IInv
    BY InvInit, ConstantsAssumption
  <1>2. IInv /\ [Next]_vars => IInv'
    BY InvStep, ConstantsAssumption
  <1> QED BY <1>1, <1>2, PTL DEF Spec

\* Every variable keeps its type, whatever the calls, the trainer, the sweep
\* and the managers do, and wherever a call fails or the process restarts.
THEOREM CompletionTypeCorrect == Spec => []TypeOK
  <1>1. IInv => TypeOK
    BY DEF IInv
  <1> QED BY <1>1, CompletionInvariant, PTL

\* session.completed is published after its commit, for any number of sessions,
\* outcomes and concurrent calls (CompleteSessionService and
\* ExternalSessionCompleteService: "publish-after-commit").
THEOREM AnnouncementsFollowCommits == Spec => []AnnouncedAfterCommit
  <1>1. IInv => AnnouncedAfterCommit
    BY DEF IInv
  <1> QED BY <1>1, CompletionInvariant, PTL

-----------------------------------------------------------------------------
(* Escalation.                                                             *)

\* No call, handler or process fails half-way; managers may still cancel,
\* withdraw and redispatch, and the trainer may be down or not evaluate.
NothingFails ==
  Disturbances \cap {"dbError", "crash", "enqueueError", "recommendationError"} = {}

\* The call c has yet to count the failure of o in s.
Fails(c, s, o) ==
  /\ call[c].session = s /\ call[c].verdict = "NOT_ACHIEVED" /\ o \in OutcomesOf[s]
  /\ \/ call[c].pc = "assignment"
     \/ call[c].pc \in {"outcomes", "apply", "recommend"} /\ o \in call[c].todo

\* The failure of o in s has been counted.
Counted(s, o) == s \in FailedSessions(o) /\ \A c \in Calls : ~Fails(c, s, o)

Escalating(o) == o \in escalated \/ \E c \in Calls : o \in escalating[c]

\* While the assignment stands, a failure that has been counted is an attempt,
\* and the second one is escalated by whoever counted it.
EscalationOK ==
  assigned => \A o \in Tracked :
    /\ \A s \in Sessions : Counted(s, o) => learnerOutcome[o].attempts > 0
    /\ \A s, t \in Sessions : Counted(s, o) /\ Counted(t, o) => s = t \/ Escalating(o)

\* The call c counts a failure of o.
Counts(c, o) ==
  ApplyVerdict(c) /\ call[c].outcome = o /\ call[c].verdict = "NOT_ACHIEVED"

\* What is being escalated is escalated in the end.
LEMMA EscalatingStays ==
  ASSUME NothingFails, TypeOK, [Next]_vars, NEW o \in Outcomes, Escalating(o)
  PROVE  Escalating(o)'
  <1> USE DEF rows, world, events
  <1>t. escalating \in [Calls -> SUBSET Outcomes]
    BY DEF TypeOK
  <1>1. ASSUME UNCHANGED <<escalating, escalated>> PROVE Escalating(o)'
    BY <1>1 DEF Escalating
  <1>2. ASSUME NEW c \in Calls, ApplyVerdict(c) PROVE Escalating(o)'
    <2>1. escalated' = escalated /\ \A d \in Calls : escalating[d] \subseteq escalating'[d]
      BY <1>t, <1>2 DEF ApplyVerdict
    <2> QED BY <2>1 DEF Escalating
  <1>3. ASSUME NEW c \in Calls, NEW p \in Outcomes, Escalate(c, p) PROVE Escalating(o)'
    <2>1. /\ escalated' = escalated \cup {p}
          /\ \A d \in Calls : escalating[d] \subseteq escalating'[d] \cup {p}
      BY <1>t, <1>3 DEF Escalate
    <2> QED BY <2>1 DEF Escalating
  <1>4. /\ ~Crash
        /\ \A c \in Calls, p \in Outcomes : ~EscalationFails(c, p)
    BY DEF NothingFails, Crash, EscalationFails
  <1>5. ASSUME NEW c \in Calls, CallStep(c), ~ApplyVerdict(c) PROVE Escalating(o)'
    BY <1>1, <1>5 DEF CallStep, StoreEvaluation, FindAssessment, CreateAssessment,
       CompleteSession, ReadAssignment, FindOutcome, Recommend, RecommendFails, Publish
  <1>6. ASSUME NEW c \in Calls, HandlerStep(c), \A p \in Outcomes : ~Escalate(c, p)
        PROVE Escalating(o)'
    BY <1>1, <1>4, <1>6 DEF HandlerStep, CreateReport, EnqueueGenerate, HandlerFails
  <1>7. ASSUME NEW c \in Calls, Lookup(c) \/ CallFails(c) PROVE Escalating(o)'
    BY <1>1, <1>7 DEF Lookup, CallFails
  <1>8. ASSUME NEW c \in Webhooks, NEW x \in Trainers, Deliver(c, x) PROVE Escalating(o)'
    BY <1>1, <1>8 DEF Deliver
  <1>9. ASSUME SweepStep PROVE Escalating(o)'
    BY <1>1, <1>9 DEF SweepStep, StartSweep, SweepUnreachable, SweepPasses, SweepCompletes
  <1>10. ASSUME \/ TimePasses \/ Withdraw \/ UNCHANGED vars
                \/ \E x \in Trainers : TrainerEnds(x)
                \/ \E s \in Sessions : CancelRead(s) \/ CancelRow(s)
                \/ \E s \in Sessions, x \in Trainers : Redispatch(s, x)
         PROVE Escalating(o)'
    BY <1>1, <1>10 DEF TimePasses, Withdraw, vars, TrainerEnds, CancelRead, CancelRow, Redispatch
  <1> QED
    BY <1>2, <1>3, <1>4, <1>5, <1>6, <1>7, <1>8, <1>9, <1>10 DEF Next

\* A session's verdict is written by completeSession, and the call that wrote a
\* failure has yet to count it.
LEMMA FailureIsOwed ==
  ASSUME ConstantsAssumption, IInv, [Next]_vars, NEW s \in Sessions, NEW o \in Tracked,
         s \in FailedSessions(o)'
  PROVE  s \in FailedSessions(o) \/ \E c \in Calls : Fails(c, s, o)'
  <1>t. TypeOK
    BY DEF IInv
  <1>0. session'[s].verdict = "NOT_ACHIEVED" /\ o \in OutcomesOf[s]
    BY DEF FailedSessions
  <1>1. ASSUME NEW c \in Calls, CompleteSession(c)
        PROVE  s \in FailedSessions(o) \/ Fails(c, s, o)'
    <2>1. PICK v \in Verdicts : Completes(c, v)
      BY <1>1, CompletesWithVerdict
    <2>2. call[c].session \in Sessions
      BY <1>1, CompletesWithVerdict
    <2>3. CASE s = call[c].session
      <3>1. session'[s].verdict = v
        BY <1>t, <2>1, <2>3 DEF Completes, TypeOK
      <3>2. call'[c].pc = "assignment" /\ call'[c].session = s /\ call'[c].verdict = v
        BY <1>t, <2>1, <2>3 DEF Completes, TypeOK, Call
      <3> QED BY <1>0, <3>1, <3>2 DEF Fails
    <2>4. CASE s # call[c].session
      <3>1. session'[s] = session[s]
        BY <1>t, <2>1, <2>2, <2>4 DEF Completes, TypeOK
      <3> QED BY <1>0, <3>1 DEF FailedSessions
    <2> QED BY <2>3, <2>4
  <1>2. ASSUME session'[s].verdict = session[s].verdict PROVE s \in FailedSessions(o)
    BY <1>0, <1>2 DEF FailedSessions
  <1>3. ASSUME NEW r \in Sessions, NEW x \in Trainers, Redispatch(r, x)
        PROVE s \in FailedSessions(o)
    BY <1>2, <1>3, <1>t DEF Redispatch, TypeOK
  <1>4. ASSUME NEW r \in Sessions, CancelRow(r) PROVE s \in FailedSessions(o)
    BY <1>2, <1>4, <1>t DEF CancelRow, TypeOK
  <1>5. CASE UNCHANGED session
    BY <1>2, <1>5
  <1> QED
    BY <1>1, <1>3, <1>4, <1>5, StepFrame DEF Frame, WritesSession

\* How a call that has left its transaction ends: not before its outcomes.
LEMMA LateCallsEnd ==
  ASSUME NothingFails, ConstantsAssumption, IInv, [Next]_vars, assigned, NEW d \in Calls,
         call[d].pc \in {"assignment", "outcomes", "apply", "recommend"},
         ~ReadAssignment(d), ~FindOutcome(d), ~ApplyVerdict(d), ~Recommend(d)
  PROVE  call'[d] = call[d] \/ (call[d].pc = "outcomes" /\ call[d].todo = {})
  <1> DEFINE Goal == call'[d] = call[d] \/ (call[d].pc = "outcomes" /\ call[d].todo = {})
  <1>t. call \in [Calls -> Call] /\ sweep \subseteq (1 .. Len(Order)) \X Trainers
    BY DEF IInv, TypeOK
  <1>1. ASSUME NEW c \in Calls, NEW e, call' = [call EXCEPT ![c] = e], d # c PROVE Goal
    BY <1>t, <1>1
  <1>3. ASSUME UNCHANGED call PROVE Goal
    BY <1>3
  <1>4. ASSUME NEW c \in Calls, Moves(c), c # d PROVE Goal
    <2>1. CASE Lookup(c) \/ StoreEvaluation(c) \/ FindAssessment(c) \/ CreateAssessment(c)
      BY <1>t, <1>4, <2>1 DEF Lookup, StoreEvaluation, FindAssessment, CreateAssessment, Enter, End
    <2>2. CASE CompleteSession(c)
      BY <1>t, <1>4, <2>2 DEF CompleteSession
    <2>3. CASE ReadAssignment(c)
      BY <1>t, <1>4, <2>3 DEF ReadAssignment
    <2>4. CASE FindOutcome(c)
      BY <1>t, <1>4, <2>4 DEF FindOutcome
    <2>5. CASE ApplyVerdict(c) \/ Recommend(c)
      BY <1>t, <1>4, <2>5 DEF ApplyVerdict, Recommend, Enter
    <2>6. CASE \E x \in Trainers : LookupExternal(c, x)
      BY <1>t, <1>4, <2>6 DEF LookupExternal, End
    <2> QED BY <1>4, <2>1, <2>2, <2>3, <2>4, <2>5, <2>6 DEF Moves
  <1>5. ASSUME NEW c \in Calls, Publish(c) PROVE Goal
    BY <1>1, <1>5 DEF Publish, End
  <1>6. ASSUME NEW c \in Calls, RecommendFails(c) \/ CallFails(c) PROVE FALSE
    BY <1>6 DEF RecommendFails, CallFails, NothingFails
  <1>7. ~Crash
    BY DEF Crash, NothingFails
  <1> HIDE DEF Goal
  <1>8. ASSUME NEW c \in Webhooks, NEW x \in Trainers, Deliver(c, x) PROVE Goal
    <2>1. c # d /\ LookupExternal(c, x) /\ trainer[x].state = "evaluated"
      BY <1>8 DEF Deliver
    <2> QED BY <1>4, <2>1 DEF Moves
  <1>9. ASSUME NEW p \in sweep, SweepCompletes(p) PROVE Goal
    <2>1. p[2] \in Trainers
      BY <1>t
    <2>2. Sweep # d /\ LookupExternal(Sweep, p[2]) /\ trainer[p[2]].state = "evaluated"
      BY <1>9 DEF SweepCompletes, Turn
    <2> QED BY <1>4, <2>1, <2>2 DEF Moves
  <1>10. ASSUME NEW c \in Calls, HandlerStep(c) PROVE Goal
    BY <1>3, <1>10 DEF HandlerStep, CreateReport, EnqueueGenerate, HandlerFails, Escalate,
       EscalationFails
  <1>11. ASSUME StartSweep \/ \E p \in sweep : SweepUnreachable(p) \/ SweepPasses(p) PROVE Goal
    BY <1>3, <1>11 DEF StartSweep, SweepUnreachable, SweepPasses
  <1>12. ASSUME \/ TimePasses \/ Withdraw \/ UNCHANGED vars
                \/ \E x \in Trainers : TrainerEnds(x)
                \/ \E s \in Sessions : CancelRead(s) \/ CancelRow(s)
                \/ \E s \in Sessions, x \in Trainers : Redispatch(s, x)
         PROVE Goal
    BY <1>3, <1>12 DEF TimePasses, Withdraw, vars, TrainerEnds, CancelRead, CancelRow, Redispatch
  <1>13. /\ ~Lookup(d) /\ ~StoreEvaluation(d) /\ ~FindAssessment(d)
         /\ ~CreateAssessment(d) /\ ~CompleteSession(d)
         /\ ~ReadAssignment(d) /\ ~FindOutcome(d) /\ ~ApplyVerdict(d) /\ ~Recommend(d)
    BY DEF Lookup, StoreEvaluation, FindAssessment, CreateAssessment, CompleteSession
  <1>14. ASSUME NEW c \in Calls, CallStep(c) \/ Lookup(c) PROVE Goal
    BY <1>4, <1>5, <1>6, <1>13, <1>14 DEF CallStep, Moves
  <1>q. Goal
    BY <1>6, <1>7, <1>8, <1>9, <1>10, <1>11, <1>12, <1>14 DEF Next, SweepStep
  <1> QED BY <1>q DEF Goal

\* A failure a call has yet to count is counted by that call, or stays to be counted.
LEMMA OwedStays ==
  ASSUME NothingFails, ConstantsAssumption, IInv, [Next]_vars, assigned,
         NEW s \in Sessions, NEW o \in Tracked, NEW c \in Calls, Fails(c, s, o)
  PROVE  Fails(c, s, o)' \/ Counts(c, o)
  <1>t. call \in [Calls -> Call] /\ call[c] \in Call
    BY DEF IInv, TypeOK
  <1>0. /\ call[c].session = s /\ call[c].verdict = "NOT_ACHIEVED" /\ o \in OutcomesOf[s]
        /\ call[c].pc \in {"assignment", "outcomes", "apply", "recommend"}
        /\ call[c].pc # "assignment" => o \in call[c].todo
    BY DEF Fails
  <1>1. CASE call'[c] = call[c]
    BY <1>1 DEF Fails
  <1>2. CASE ReadAssignment(c)
    <2>1. /\ call'[c].pc = "outcomes" /\ call'[c].session = s
          /\ call'[c].verdict = "NOT_ACHIEVED" /\ call'[c].todo = OutcomesOf[s] \cap Tracked
      BY <1>t, <1>0, <1>2 DEF ReadAssignment, Call
    <2> QED BY <1>0, <2>1 DEF Fails
  <1>3. CASE FindOutcome(c)
    <2>1. PICK p \in call[c].todo :
            call' = [call EXCEPT ![c].pc = "apply", ![c].outcome = p,
                                 ![c].seen = learnerOutcome[p].attempts]
      BY <1>3 DEF FindOutcome
    <2>2. /\ call'[c].pc = "apply" /\ call'[c].session = s
          /\ call'[c].verdict = "NOT_ACHIEVED" /\ call'[c].todo = call[c].todo
      BY <1>t, <1>0, <2>1 DEF Call
    <2>3. call[c].pc = "outcomes"
      BY <1>3 DEF FindOutcome
    <2> QED BY <1>0, <2>2, <2>3 DEF Fails
  <1>4. CASE ApplyVerdict(c) /\ call[c].outcome # o
    <2>1. /\ call'[c].pc \in {"recommend", "outcomes"} /\ call'[c].session = s
          /\ call'[c].verdict = "NOT_ACHIEVED" /\ call'[c].todo = call[c].todo \ {call[c].outcome}
      BY <1>t, <1>0, <1>4 DEF ApplyVerdict, Call
    <2>2. call[c].pc = "apply"
      BY <1>4 DEF ApplyVerdict
    <2> QED BY <1>0, <1>4, <2>1, <2>2 DEF Fails
  <1>5. CASE Recommend(c)
    <2>1. /\ call'[c].pc = "outcomes" /\ call'[c].session = s
          /\ call'[c].verdict = "NOT_ACHIEVED" /\ call'[c].todo = call[c].todo
          /\ call[c].pc = "recommend"
      BY <1>t, <1>0, <1>5 DEF Recommend, Enter, Call
    <2> QED BY <1>0, <2>1 DEF Fails
  <1> QED BY <1>0, <1>1, <1>2, <1>3, <1>4, <1>5, LateCallsEnd DEF Counts

\* Counting a failure is an attempt, and the second one escalates.
LEMMA CountsEscalates ==
  ASSUME ConstantsAssumption, IInv, NEW c \in Calls, NEW o \in Tracked, Counts(c, o)
  PROVE  /\ learnerOutcome'[o].attempts > 0
         /\ learnerOutcome[o].attempts > 0 => Escalating(o)'
         /\ \A d \in Calls \ {c} : call'[d] = call[d]
         /\ call[c].pc = "apply" /\ call'[c].pc # "apply"
  <1>t. /\ o \in Outcomes /\ call \in [Calls -> Call] /\ escalating \in [Calls -> SUBSET Outcomes]
        /\ learnerOutcome[o].attempts \in Nat
        /\ learnerOutcome \in [Outcomes ->
             [status : {"NOT_STARTED", "IN_PROGRESS", "ACHIEVED"}, attempts : Nat]]
    BY DEF ConstantsAssumption, IInv, TypeOK
  <1>1. learnerOutcome' = [learnerOutcome EXCEPT ![o] =
          [status |-> "IN_PROGRESS", attempts |-> learnerOutcome[o].attempts + 1]]
    BY DEF Counts, ApplyVerdict
  <1>2. learnerOutcome'[o].attempts > 0
    BY <1>t, <1>1
  <1>3. ASSUME learnerOutcome[o].attempts > 0 PROVE o \in escalating'[c]
    <2>1. escalating' = [escalating EXCEPT ![c] = @ \cup {o}]
      <3>1. learnerOutcome[o].attempts + 1 > 1 /\ call[c].verdict # "ACHIEVED"
        BY <1>t, <1>3 DEF Counts
      <3>2. escalating' = [escalating EXCEPT ![c] =
              IF call[c].verdict # "ACHIEVED" /\ learnerOutcome[o].attempts + 1 > 1
              THEN escalating[c] \cup {o} ELSE escalating[c]]
        BY <1>t DEF Counts, ApplyVerdict
      <3> QED BY <3>1, <3>2
    <2> QED BY <1>t, <2>1
  <1>4. /\ \A d \in Calls \ {c} : call'[d] = call[d]
        /\ call[c].pc = "apply" /\ call'[c].pc # "apply"
    BY <1>t DEF Counts, ApplyVerdict, Call
  <1> QED BY <1>2, <1>3, <1>4 DEF Escalating

\* A failure that is newly counted was counted in this step.
LEMMA NewlyCounted ==
  ASSUME NothingFails, ConstantsAssumption, IInv, [Next]_vars, assigned,
         NEW s \in Sessions, NEW o \in Tracked, Counted(s, o)'
  PROVE  \/ Counted(s, o)
         \/ \E c \in Calls : Counts(c, o) /\ call[c].session = s
  <1>1. /\ s \in FailedSessions(o)'
        /\ \A c \in Calls : ~Fails(c, s, o)'
    BY DEF Counted, Fails
  <1>2. s \in FailedSessions(o)
    BY <1>1, FailureIsOwed
  <1>3. ASSUME NEW c \in Calls, Fails(c, s, o) PROVE Counts(c, o) /\ call[c].session = s
    <2>1. Counts(c, o)
      BY <1>1, <1>3, OwedStays
    <2> QED BY <1>3, <2>1 DEF Fails
  <1> QED BY <1>2, <1>3 DEF Counted

\* Every step keeps EscalationOK.
LEMMA EscalationStep ==
  ASSUME NothingFails, ConstantsAssumption, IInv, EscalationOK, [Next]_vars
  PROVE  EscalationOK'
  <1> SUFFICES ASSUME assigned', NEW o \in Tracked
               PROVE  /\ \A s \in Sessions : Counted(s, o)' => learnerOutcome'[o].attempts > 0
                      /\ \A s, t \in Sessions : Counted(s, o)' /\ Counted(t, o)'
                                                 => s = t \/ Escalating(o)'
    BY DEF EscalationOK
  <1>t. o \in Outcomes /\ TypeOK
    BY DEF ConstantsAssumption, IInv
  <1>0. assigned
    BY StepFrame DEF Frame
  <1>1. ASSUME NEW s \in Sessions, Counted(s, o)' PROVE learnerOutcome'[o].attempts > 0
    <2>1. CASE Counted(s, o)
      BY <1>0, <1>t, <2>1, AttemptedStays DEF EscalationOK
    <2>2. CASE \E c \in Calls : Counts(c, o)
      BY <2>2, CountsEscalates
    <2> QED BY <1>0, <1>1, <2>1, <2>2, NewlyCounted
  <1>2. ASSUME NEW s \in Sessions, NEW t \in Sessions, Counted(s, o)', Counted(t, o)', s # t
        PROVE  Escalating(o)'
    <2>1. CASE Counted(s, o) /\ Counted(t, o)
      <3>1. Escalating(o)
        BY <1>0, <1>2, <2>1 DEF EscalationOK
      <3> QED BY <1>t, <3>1, EscalatingStays
    <2>2. CASE (Counted(s, o) \/ Counted(t, o)) /\ \E c \in Calls : Counts(c, o)
      <3>1. learnerOutcome[o].attempts > 0
        BY <1>0, <2>2 DEF EscalationOK
      <3> QED BY <2>2, <3>1, CountsEscalates
    <2>3. ASSUME NEW c \in Calls, Counts(c, o), call[c].session = s,
                 NEW d \in Calls, Counts(d, o), call[d].session = t
          PROVE  FALSE
      <3>1. d \in Calls \ {c}
        BY <1>2, <2>3
      <3>2. call'[d] = call[d] /\ call[d].pc = "apply" /\ call'[d].pc # "apply"
        BY <2>3, <3>1, CountsEscalates
      <3> QED BY <3>2
    <2>4. /\ Counted(s, o) \/ \E c \in Calls : Counts(c, o) /\ call[c].session = s
          /\ Counted(t, o) \/ \E d \in Calls : Counts(d, o) /\ call[d].session = t
      BY <1>0, <1>2, NewlyCounted
    <2> QED BY <2>1, <2>2, <2>3, <2>4
  <1> QED BY <1>1, <1>2

\* Where everything has settled, what failed twice has been escalated.
LEMMA SettledEscalated ==
  ASSUME ConstantsAssumption, EscalationOK
  PROVE  FailuresEscalate
  <1> SUFFICES ASSUME Settled, assigned, NEW o \in Tracked, Cardinality(FailedSessions(o)) > 1
               PROVE  o \in escalated
    BY DEF FailuresEscalate
  <1>1. \A s \in FailedSessions(o) : s \in Sessions /\ Counted(s, o)
    BY DEF Settled, Counted, Fails, FailedSessions
  <1>2. PICK s \in FailedSessions(o), t \in FailedSessions(o) : s # t
    <2>1. CASE FailedSessions(o) = {}
      BY <2>1, FS_EmptySet
    <2>2. ASSUME NEW s \in FailedSessions(o), FailedSessions(o) = {s} PROVE FALSE
      <3>1. Cardinality({s}) = 1
        BY FS_Singleton
      <3>2. Cardinality({s}) > 1
        BY <2>2
      <3> QED BY <3>1, <3>2
    <2> QED BY <2>1, <2>2
  <1>3. Escalating(o)
    BY <1>1, <1>2 DEF EscalationOK
  <1> QED BY <1>3 DEF Escalating, Settled

\* While nothing fails half-way, an outcome failed in two sessions of a learner is
\* escalated, for any number of sessions, outcomes and calls and however they
\* overlap (applyVerdict's atomic increment, CompleteSessionService).
THEOREM RepeatedFailuresEscalate ==
  ASSUME NothingFails
  PROVE  Spec => []FailuresEscalate
  <1>1. Init => EscalationOK
    <2> SUFFICES ASSUME Init PROVE EscalationOK
      OBVIOUS
    <2>1. \A o \in Tracked : FailedSessions(o) = {}
      BY ConstantsAssumption DEF Init, FailedSessions
    <2> QED BY <2>1 DEF EscalationOK, Counted
  <1>2. IInv /\ EscalationOK /\ [Next]_vars => EscalationOK'
    BY EscalationStep, ConstantsAssumption
  <1>3. EscalationOK => FailuresEscalate
    BY SettledEscalated, ConstantsAssumption
  <1> QED BY <1>1, <1>2, <1>3, CompletionInvariant, PTL DEF Spec
=============================================================================
