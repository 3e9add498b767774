----------------------- MODULE MeetingLifecycleProofs -----------------------
(***************************************************************************)
(* MeetingLifecycle, proved for all values of its constants: its types,    *)
(* that a cancelled session is not invited again, and, each as long as the *)
(* faults it names stay away, that a removal is owed and that an invited   *)
(* session has its trainer coming.                                         *)
(***************************************************************************)
EXTENDS MeetingLifecycle, TLAPS

\* A session that is not there.
LEMMA RowType == NoRow \in Row
<1>1. None \in EventOrNone
  BY DEF EventOrNone
<1> QED BY <1>1 DEF NoRow, Row, Status, Live

\* A worker at rest.
LEMMA IdleType == Idle \in Attempt
<1>1. None \in EventOrNone /\ None \in SessionOrNone
  BY DEF EventOrNone, SessionOrNone
<1>2. 0 \in Tries
  BY ConstantsAssumption DEF Tries
<1> QED BY <1>1, <1>2 DEF Idle, Attempt, WorkerPc

\* The types hold at the start.
LEMMA InitType == Init => TypeOK
<1> SUFFICES ASSUME Init PROVE TypeOK
  OBVIOUS
<1> USE ConstantsAssumption
<1>1. plan \in [Sessions -> {"DRAFT", "CONFIRMED"}]
  BY DEF Init
<1>2. session \in [Sessions -> Row]
  <2>1. \A s \in Sessions : Booked[s] \in EventOrNone
    BY DEF EventOrNone
  <2> QED BY <2>1 DEF Init, Row, Status, Live
<1>3. event \in [Events -> GraphEvent]
  <2> SUFFICES ASSUME NEW e \in Events PROVE event[e] \in GraphEvent
    BY DEF Init
  <2>1. CASE \E s \in Sessions : Booked[s] = e
    <3>1. (CHOOSE s \in Sessions : Booked[s] = e) \in SessionOrNone
      BY <2>1 DEF SessionOrNone
    <3> QED BY <2>1, <3>1 DEF Init, GraphEvent
  <2>2. CASE ~ \E s \in Sessions : Booked[s] = e
    BY <2>2 DEF Init, GraphEvent, SessionOrNone
  <2> QED BY <2>1, <2>2
<1>4. /\ creates \in [Sessions -> [Tries -> Nat]]
      /\ updates \in [Sessions -> [Tries -> Nat]]
      /\ dispatch \in [Sessions -> Nat]
      /\ failed \subseteq {"meeting.create", "meeting.update"} \X Sessions
  BY DEF Init
<1>5. worker \in [Workers -> Attempt]
  BY IdleType DEF Init
<1>6. request \in [Requests -> [pc : RequestPc, session : SessionOrNone, reopens : BOOLEAN]]
  BY DEF Init, RequestPc, SessionOrNone
<1>7. /\ \A w \in Workers : worker[w].pc # "idle" => worker[w].session \in Sessions
      /\ \A w \in Workers : worker[w].pc \in WithEvent => worker[w].event \in Events
      /\ \A r \in Requests : request[r].pc \notin {"new", "done"} => request[r].session \in Sessions
  BY DEF Init, Idle, WithEvent
<1> QED BY <1>1, <1>2, <1>3, <1>4, <1>5, <1>6, <1>7 DEF TypeOK, JobsOK, WorkersOK, RequestsOK

-----------------------------------------------------------------------------
(* What the building blocks of the actions preserve.                       *)

\* An attempt that goes on is well typed.
LEMMA StepType ==
  ASSUME WorkersOK, NEW w \in Workers, worker[w].pc # "idle", NEW pc \in WorkerPc, Step(w, pc),
         pc \in WithEvent => worker[w].event \in Events
  PROVE  WorkersOK'
BY DEF WorkersOK, Step, Attempt

\* So is the worker of one that ends.
LEMMA FinishType ==
  ASSUME WorkersOK, NEW w \in Workers, Finish(w)
  PROVE  WorkersOK'
BY IdleType DEF WorkersOK, Finish, Idle, WithEvent

\* An attempt that throws leaves well typed jobs, too.
LEMMA ThrowType ==
  ASSUME WorkersOK, JobsOK, NEW w \in Workers, worker[w].pc # "idle", Throw(w),
         UNCHANGED dispatch
  PROVE  WorkersOK' /\ JobsOK'
<1> DEFINE a == worker[w]
           Retry(jobs) == [jobs EXCEPT ![a.session][a.tries + 1] = @ + 1]
<1>1. WorkersOK'
  BY FinishType DEF Throw
<1>2. a.session \in Sessions /\ a.tries \in Tries
  BY DEF WorkersOK, Attempt
<1>3. ASSUME NEW jobs \in [Sessions -> [Tries -> Nat]], a.tries < RetryLimit
      PROVE  Retry(jobs) \in [Sessions -> [Tries -> Nat]]
  <2>1. a.tries + 1 \in Tries
    BY <1>2, <1>3, ConstantsAssumption DEF Tries
  <2> QED BY <1>2, <2>1
<1>4. creates' \in [Sessions -> [Tries -> Nat]] /\ updates' \in [Sessions -> [Tries -> Nat]]
  BY <1>3 DEF Throw, JobsOK
<1>5. failed' \subseteq {"meeting.create", "meeting.update"} \X Sessions
  BY <1>2 DEF Throw, JobsOK
<1> QED BY <1>1, <1>4, <1>5 DEF JobsOK

\* A worker takes a job.
LEMMA TakeType ==
  ASSUME WorkersOK, NEW w \in Workers, NEW s \in Sessions, NEW t \in Tries, Take(w, s, t)
  PROVE  WorkersOK'
BY DEF WorkersOK, Take, Attempt, WorkerPc, SessionOrNone, EventOrNone, WithEvent

\* A request goes on.
LEMMA GotoType ==
  ASSUME RequestsOK, NEW r \in Requests, NEW pc \in RequestPc, request[r].session \in Sessions,
         Goto(r, pc)
  PROVE  RequestsOK'
BY DEF RequestsOK, Goto

-----------------------------------------------------------------------------
(* Every step preserves the types.                                         *)

\* Each of the workers' jobs is taken up.
LEMMA TakeStepType ==
  ASSUME TypeOK, NEW w \in MeetingWorkers, TakeCreate(w) \/ TakeUpdate(w)
  PROVE  TypeOK'
<1>1. w \in Workers
  BY DEF Workers
<1>2. CASE TakeCreate(w)
  <2>1. PICK s \in Sessions, t \in Tries :
          /\ creates[s][t] > 0
          /\ creates' = [creates EXCEPT ![s][t] = @ - 1]
          /\ Take(w, s, t)
    BY <1>2 DEF TakeCreate
  <2>2. WorkersOK'
    BY <1>1, <2>1, TakeType DEF TypeOK
  <2>3. creates' \in [Sessions -> [Tries -> Nat]]
    BY <2>1 DEF TypeOK, JobsOK
  <2> QED BY <1>2, <2>2, <2>3 DEF TakeCreate, TypeOK, JobsOK, RequestsOK
<1>3. CASE TakeUpdate(w)
  <2>1. PICK s \in Sessions, t \in Tries :
          /\ updates[s][t] > 0
          /\ updates' = [updates EXCEPT ![s][t] = @ - 1]
          /\ Take(w, s, t)
    BY <1>3 DEF TakeUpdate
  <2>2. WorkersOK'
    BY <1>1, <2>1, TakeType DEF TypeOK
  <2>3. updates' \in [Sessions -> [Tries -> Nat]]
    BY <2>1 DEF TypeOK, JobsOK
  <2> QED BY <1>3, <2>2, <2>3 DEF TakeUpdate, TypeOK, JobsOK, RequestsOK
<1> QED BY <1>2, <1>3

\* A new event is about the session of the attempt that created it.
LEMMA PostType ==
  ASSUME TypeOK, NEW w \in Workers, NEW e \in Events, NEW joinUrl \in BOOLEAN,
         worker[w].pc # "idle", Post(w, e, joinUrl)
  PROVE  event' \in [Events -> GraphEvent]
BY DEF TypeOK, WorkersOK, Attempt, Post, GraphEvent

\* Steps that create a meeting.
LEMMA MeetingStepType ==
  ASSUME TypeOK, NEW w \in MeetingWorkers, MeetingStep(w)
  PROVE  TypeOK'
<1>1. w \in Workers
  BY DEF Workers
<1>2. WorkersOK /\ JobsOK /\ RequestsOK
  BY DEF TypeOK
<1>3. CASE CreateMeeting(w)
  <2>1. PICK e \in Events :
          /\ Post(w, e, TRUE)
          /\ worker' = [worker EXCEPT ![w].pc = "record", ![w].event = e]
    BY <1>3 DEF CreateMeeting
  <2>2. worker[w].pc # "idle"
    BY <1>3 DEF CreateMeeting, Creating
  <2>3. WorkersOK'
    BY <1>1, <1>2, <2>1, <2>2 DEF WorkersOK, Attempt, WorkerPc, EventOrNone
  <2>4. event' \in [Events -> GraphEvent]
    BY <1>1, <2>1, <2>2, PostType
  <2> QED BY <1>3, <2>3, <2>4 DEF CreateMeeting, TypeOK, JobsOK, RequestsOK
<1>4. CASE CreateMeetingWithoutJoinUrl(w)
  <2>1. PICK e \in Events :
          /\ Post(w, e, FALSE)
          /\ \/ /\ worker' = [worker EXCEPT ![w].pc = "recordEvent", ![w].event = e]
                /\ UNCHANGED <<creates, updates, failed>>
             \/ Throw(w)
    BY <1>4 DEF CreateMeetingWithoutJoinUrl
  <2>2. worker[w].pc # "idle" /\ UNCHANGED dispatch
    BY <1>4 DEF CreateMeetingWithoutJoinUrl, Creating
  <2>3. event' \in [Events -> GraphEvent]
    BY <1>1, <2>1, <2>2, PostType
  <2>4. WorkersOK' /\ JobsOK'
    <3>1. CASE Throw(w)
      BY <1>1, <1>2, <2>2, <3>1, ThrowType
    <3>2. CASE /\ worker' = [worker EXCEPT ![w].pc = "recordEvent", ![w].event = e]
               /\ UNCHANGED <<creates, updates, failed>>
      <4>1. WorkersOK'
        BY <1>1, <1>2, <2>2, <3>2 DEF WorkersOK, Attempt, WorkerPc, EventOrNone
      <4> QED BY <1>2, <2>2, <3>2, <4>1 DEF JobsOK
    <3> QED BY <2>1, <3>1, <3>2
  <2> QED BY <1>4, <2>3, <2>4 DEF CreateMeetingWithoutJoinUrl, TypeOK, RequestsOK
<1>5. CASE CreateMeetingReplyLost(w)
  <2>1. worker[w].pc # "idle" /\ Throw(w) /\ UNCHANGED dispatch
    BY <1>5 DEF CreateMeetingReplyLost, Creating
  <2>2. event' \in [Events -> GraphEvent]
    BY <1>1, <1>5, <2>1, PostType DEF CreateMeetingReplyLost
  <2>3. WorkersOK' /\ JobsOK'
    BY <1>1, <1>2, <2>1, ThrowType
  <2> QED BY <1>5, <2>2, <2>3 DEF CreateMeetingReplyLost, TypeOK, RequestsOK
<1>6. CASE RecordMeetingCreated(w)
  <2> DEFINE s == worker[w].session
             e == worker[w].event
  <2>1. worker[w].pc # "idle" /\ UNCHANGED dispatch
    BY <1>6 DEF RecordMeetingCreated
  <2>2. s \in Sessions /\ e \in EventOrNone
    BY <1>1, <1>2, <2>1 DEF WorkersOK, Attempt
  <2>3. session' \in [Sessions -> Row]
    BY <1>6, <2>2 DEF RecordMeetingCreated, TypeOK, Row, Status, Live
  <2>4. \/ Throw(w)
        \/ /\ \E pc \in WorkerPc \ WithEvent : Step(w, pc)
           /\ UNCHANGED <<creates, updates, failed>>
    BY <1>6 DEF RecordMeetingCreated, WorkerPc, WithEvent
  <2>5. WorkersOK' /\ JobsOK'
    <3>1. CASE Throw(w)
      BY <1>1, <1>2, <2>1, <3>1, ThrowType
    <3>2. CASE (\E pc \in WorkerPc \ WithEvent : Step(w, pc)) /\ UNCHANGED <<creates, updates, failed>>
      <4>1. WorkersOK'
        BY <1>1, <1>2, <2>1, <3>2, StepType
      <4> QED BY <1>2, <2>1, <3>2, <4>1 DEF JobsOK
    <3> QED BY <2>4, <3>1, <3>2
  <2> QED BY <1>6, <2>3, <2>5 DEF RecordMeetingCreated, TypeOK, RequestsOK
<1>7. CASE EnqueueRemovalJob(w)
  <2>1. worker[w].session \in Sessions /\ 0 \in Tries
    BY <1>1, <1>2, <1>7, ConstantsAssumption DEF EnqueueRemovalJob, WorkersOK, Tries
  <2>2. updates' \in [Sessions -> [Tries -> Nat]]
    BY <1>2, <1>7, <2>1 DEF EnqueueRemovalJob, Send, JobsOK
  <2>3. WorkersOK'
    BY <1>1, <1>2, <1>7, FinishType DEF EnqueueRemovalJob
  <2> QED BY <1>7, <2>2, <2>3 DEF EnqueueRemovalJob, TypeOK, JobsOK, RequestsOK
<1>8. CASE ArmDispatch(w)
  <2>1. worker[w].session \in Sessions
    BY <1>1, <1>2, <1>8 DEF ArmDispatch, WorkersOK
  <2>2. dispatch' \in [Sessions -> Nat]
    BY <1>2, <1>8, <2>1 DEF ArmDispatch, SendDispatch, JobsOK
  <2>3. WorkersOK'
    BY <1>1, <1>2, <1>8, FinishType DEF ArmDispatch
  <2> QED BY <1>8, <2>2, <2>3 DEF ArmDispatch, TypeOK, JobsOK, RequestsOK
<1> QED BY <1>3, <1>4, <1>5, <1>6, <1>7, <1>8 DEF MeetingStep

\* An attempt goes on to another point, or dies; Graph and the row are as they were.
LEMMA AttemptType ==
  ASSUME WorkersOK, JobsOK, NEW w \in Workers, worker[w].pc # "idle", UNCHANGED dispatch,
         \/ Throw(w)
         \/ Finish(w) /\ UNCHANGED <<creates, updates, failed>>
         \/ /\ \E pc \in WorkerPc :
                 Step(w, pc) /\ (pc \in WithEvent => worker[w].event \in Events)
            /\ UNCHANGED <<creates, updates, failed>>
         \/ /\ \E pc \in WorkerPc, e \in EventOrNone, start \in Nat :
                 /\ worker' = [worker EXCEPT ![w].pc = pc, ![w].event = e, ![w].start = start]
                 /\ pc \in WithEvent => e \in Events
            /\ UNCHANGED <<creates, updates, failed>>
  PROVE  WorkersOK' /\ JobsOK'
<1>1. CASE Throw(w)
  BY <1>1, ThrowType
<1>2. CASE UNCHANGED <<creates, updates, failed>>
  <2>1. JobsOK'
    BY <1>2 DEF JobsOK
  <2>2. CASE Finish(w)
    BY <2>1, <2>2, FinishType
  <2>3. CASE \E pc \in WorkerPc : Step(w, pc) /\ (pc \in WithEvent => worker[w].event \in Events)
    BY <2>1, <2>3, StepType
  <2>4. CASE \E pc \in WorkerPc, e \in EventOrNone, start \in Nat :
               /\ worker' = [worker EXCEPT ![w].pc = pc, ![w].event = e, ![w].start = start]
               /\ pc \in WithEvent => e \in Events
    <3>1. PICK pc \in WorkerPc, e \in EventOrNone, start \in Nat :
            /\ worker' = [worker EXCEPT ![w].pc = pc, ![w].event = e, ![w].start = start]
            /\ pc \in WithEvent => e \in Events
      BY <2>4
    <3>2. worker[w] \in Attempt /\ worker[w].session \in Sessions
      BY DEF WorkersOK
    <3>3. /\ [worker[w] EXCEPT !.pc = pc, !.event = e, !.start = start] \in Attempt
          /\ [worker[w] EXCEPT !.pc = pc, !.event = e, !.start = start].session \in Sessions
          /\ [worker[w] EXCEPT !.pc = pc, !.event = e, !.start = start].pc = pc
          /\ [worker[w] EXCEPT !.pc = pc, !.event = e, !.start = start].event = e
      BY <3>2 DEF Attempt
    <3>4. worker' = [worker EXCEPT ![w] = [worker[w] EXCEPT !.pc = pc, !.event = e, !.start = start]]
      BY <3>1
    <3> DEFINE b == [worker[w] EXCEPT !.pc = pc, !.event = e, !.start = start]
    <3>5. /\ b \in Attempt /\ b.session \in Sessions
          /\ b.pc \in WithEvent => b.event \in Events
      BY <3>1, <3>3
    <3> HIDE DEF b
    <3>6. worker' = [worker EXCEPT ![w] = b]
      BY <3>4 DEF b
    <3>7. WorkersOK'
      BY <3>5, <3>6 DEF WorkersOK
    <3> QED BY <2>1, <3>7
  <2> QED BY <1>1, <1>2, <2>2, <2>3, <2>4, ThrowType
<1> QED BY <1>1, <1>2

\* Steps of the create job.
LEMMA CreateStepType ==
  ASSUME TypeOK, NEW w \in CreateWorkers, CreateStep(w)
  PROVE  TypeOK'
<1>1. w \in Workers /\ WorkersOK /\ JobsOK
  BY DEF Workers, MeetingWorkers, TypeOK
<1>2. worker[w].pc # "idle" /\ UNCHANGED <<plan, event, dispatch, request>>
  BY DEF CreateStep, CreateRead, RecoverJoinUrl, RecordGraphEventOnly
<1>3. worker[w].session \in Sessions /\ worker[w].event \in EventOrNone
  BY <1>1, <1>2 DEF WorkersOK, Attempt
<1>4. session' \in [Sessions -> Row]
  BY <1>3 DEF CreateStep, CreateRead, RecoverJoinUrl, RecordGraphEventOnly, TypeOK, Row
<1>5. WorkersOK' /\ JobsOK'
  <2>1. CASE CreateRead(w)
    <3> DEFINE row == session[worker[w].session]
    <3>1. row.graphEventId \in EventOrNone /\ row.start \in Nat
      BY <1>3 DEF TypeOK, Row
    <3>2. /\ UNCHANGED <<creates, updates, failed, dispatch>>
          /\ \/ Step(w, "requeue")
             \/ Finish(w)
             \/ worker' = [worker EXCEPT ![w].pc = "graph", ![w].event = row.graphEventId,
                                         ![w].start = row.start]
      BY <2>1 DEF CreateRead
    <3> QED BY <1>1, <1>2, <3>1, <3>2, AttemptType DEF WorkerPc, WithEvent
  <2>2. CASE RecoverJoinUrl(w)
    <3>1. worker[w].event \in Events
      BY <1>3, <2>2 DEF RecoverJoinUrl, EventOrNone
    <3> QED BY <1>1, <1>2, <2>2, <3>1, AttemptType DEF RecoverJoinUrl, WorkerPc
  <2>3. CASE RecordGraphEventOnly(w)
    BY <1>1, <1>2, <2>3, AttemptType DEF RecordGraphEventOnly, WorkerPc, WithEvent
  <2> QED BY <2>1, <2>2, <2>3 DEF CreateStep
<1> QED BY <1>2, <1>4, <1>5 DEF TypeOK, RequestsOK

\* Steps of the update job.
LEMMA UpdateStepType ==
  ASSUME TypeOK, NEW w \in UpdateWorkers, UpdateStep(w)
  PROVE  TypeOK'
<1>1. w \in Workers /\ WorkersOK /\ JobsOK
  BY DEF Workers, MeetingWorkers, TypeOK
<1>2. worker[w].pc # "idle" /\ UNCHANGED <<plan, request>>
  BY DEF UpdateStep, UpdateRead, CancelMeeting, MarkMeetingCancelled, UpdateMeeting, DisarmDispatch
<1>3. /\ worker[w].session \in Sessions
      /\ worker[w].event \in EventOrNone
      /\ worker[w].start \in Nat
  BY <1>1, <1>2 DEF WorkersOK, Attempt
<1>4. session' \in [Sessions -> Row]
  <2>1. CASE MarkMeetingCancelled(w)
    <3>1. session[worker[w].session] \in Row
      BY <1>3 DEF TypeOK
    <3>2. [session[worker[w].session] EXCEPT !.meetingCancelledAt = TRUE] \in Row
      BY <3>1 DEF Row
    <3> QED BY <1>3, <2>1, <3>2 DEF MarkMeetingCancelled, TypeOK
  <2>2. CASE ~MarkMeetingCancelled(w)
    BY <2>2 DEF UpdateStep, UpdateRead, CancelMeeting, UpdateMeeting, DisarmDispatch, TypeOK
  <2> QED BY <2>1, <2>2
<1>5. event' \in [Events -> GraphEvent]
  BY <1>3 DEF UpdateStep, UpdateRead, CancelMeeting, MarkMeetingCancelled, UpdateMeeting,
              DisarmDispatch, TypeOK, GraphEvent
<1>6. WorkersOK' /\ JobsOK'
  <2>1. CASE UpdateRead(w)
    <3> DEFINE row == session[worker[w].session]
    <3>1. row.graphEventId \in EventOrNone /\ row.start \in Nat
      BY <1>3 DEF TypeOK, Row
    <3>2. /\ UNCHANGED <<creates, updates, failed, dispatch>>
          /\ \/ Finish(w)
             \/ \E pc \in {"delete", "graph", "patch"} :
                  /\ worker' = [worker EXCEPT ![w].pc = pc, ![w].event = row.graphEventId,
                                              ![w].start = row.start]
                  /\ pc # "graph" => row.graphEventId # None
      BY <2>1 DEF UpdateRead
    <3>3. \/ Finish(w)
          \/ \E pc \in WorkerPc, e \in EventOrNone, start \in Nat :
               /\ worker' = [worker EXCEPT ![w].pc = pc, ![w].event = e, ![w].start = start]
               /\ pc \in WithEvent => e \in Events
      <4>1. CASE Finish(w)
        BY <4>1
      <4>2. ASSUME NEW pc \in {"delete", "graph", "patch"},
                   worker' = [worker EXCEPT ![w].pc = pc, ![w].event = row.graphEventId,
                                            ![w].start = row.start],
                   pc # "graph" => row.graphEventId # None
            PROVE  \E p \in WorkerPc, e \in EventOrNone, start \in Nat :
                     /\ worker' = [worker EXCEPT ![w].pc = p, ![w].event = e, ![w].start = start]
                     /\ p \in WithEvent => e \in Events
        <5>1. pc \in WorkerPc /\ (pc \in WithEvent => row.graphEventId \in Events)
          BY <3>1, <4>2 DEF WorkerPc, WithEvent, EventOrNone
        <5> HIDE DEF row
        <5> QED BY <3>1, <4>2, <5>1
      <4> QED BY <3>2, <4>1, <4>2
    <3> QED BY <1>1, <1>2, <3>2, <3>3, AttemptType
  <2>2. CASE CancelMeeting(w)
    BY <1>1, <1>2, <2>2, AttemptType DEF CancelMeeting, WorkerPc, WithEvent
  <2>3. CASE MarkMeetingCancelled(w)
    BY <1>1, <1>2, <2>3, AttemptType DEF MarkMeetingCancelled, WorkerPc, WithEvent
  <2>4. CASE UpdateMeeting(w)
    <3>1. CASE worker' = [worker EXCEPT ![w].pc = "graph", ![w].event = None]
      <4>1. WorkersOK'
        BY <1>1, <1>2, <3>1 DEF WorkersOK, Attempt, WorkerPc, EventOrNone, WithEvent
      <4>2. UNCHANGED dispatch /\ (Throw(w) \/ UNCHANGED <<creates, updates, failed>>)
        BY <2>4 DEF UpdateMeeting
      <4> QED BY <1>1, <1>2, <4>1, <4>2, ThrowType DEF JobsOK
    <3>2. CASE Throw(w) \/ (Step(w, "disarm") /\ UNCHANGED <<creates, updates, failed>>)
      <4>1. UNCHANGED dispatch
        BY <2>4 DEF UpdateMeeting
      <4> QED BY <1>1, <1>2, <3>2, <4>1, AttemptType DEF WorkerPc, WithEvent
    <3> QED BY <2>4, <3>1, <3>2 DEF UpdateMeeting
  <2>5. CASE DisarmDispatch(w)
    <3>1. WorkersOK'
      BY <1>1, <1>2, <2>5, StepType DEF DisarmDispatch, WorkerPc, WithEvent
    <3>2. dispatch' \in [Sessions -> Nat]
      BY <1>1, <1>3, <2>5 DEF DisarmDispatch, JobsOK
    <3> QED BY <1>1, <2>5, <3>1, <3>2 DEF DisarmDispatch, JobsOK
  <2> QED BY <2>1, <2>2, <2>3, <2>4, <2>5 DEF UpdateStep
<1> QED BY <1>2, <1>4, <1>5, <1>6 DEF TypeOK, RequestsOK

\* Steps of the dispatch job.
LEMMA DispatchStepType ==
  ASSUME TypeOK, NEW w \in DispatchWorkers,
         TakeDispatch(w) \/ RecordExternalSession(w) \/ DispatchDies(w)
  PROVE  TypeOK'
<1>1. w \in Workers /\ WorkersOK /\ JobsOK
  BY DEF Workers, TypeOK
<1>2. CASE TakeDispatch(w)
  <2>1. PICK s \in Sessions :
          /\ dispatch[s] > 0
          /\ dispatch' = [dispatch EXCEPT ![s] = @ - 1]
          /\ \/ worker' = [worker EXCEPT ![w] = [Idle EXCEPT !.pc = "join", !.session = s]]
             \/ UNCHANGED worker
    BY <1>2 DEF TakeDispatch
  <2>2. dispatch' \in [Sessions -> Nat]
    BY <1>1, <2>1 DEF JobsOK
  <2>3. /\ [Idle EXCEPT !.pc = "join", !.session = s] \in Attempt
        /\ [Idle EXCEPT !.pc = "join", !.session = s].session \in Sessions
        /\ [Idle EXCEPT !.pc = "join", !.session = s].pc \notin WithEvent
    BY IdleType DEF Attempt, WorkerPc, SessionOrNone, WithEvent
  <2>4. WorkersOK'
    BY <1>1, <2>1, <2>3 DEF WorkersOK
  <2> QED BY <1>2, <2>2, <2>4 DEF TakeDispatch, TypeOK, JobsOK, RequestsOK
<1>3. CASE RecordExternalSession(w)
  <2>1. worker[w].session \in Sessions
    BY <1>1, <1>3 DEF RecordExternalSession, WorkersOK
  <2>2. [session[worker[w].session] EXCEPT !.externalSession = TRUE] \in Row
    BY <2>1 DEF TypeOK, Row
  <2>3. session' \in [Sessions -> Row]
    BY <1>3, <2>1, <2>2 DEF RecordExternalSession, TypeOK
  <2>4. WorkersOK'
    BY <1>1, <1>3, FinishType DEF RecordExternalSession
  <2> QED BY <1>3, <2>3, <2>4 DEF RecordExternalSession, TypeOK, JobsOK, RequestsOK
<1>4. CASE DispatchDies(w)
  <2>1. worker[w].session \in Sessions
    BY <1>1, <1>4 DEF DispatchDies, WorkersOK
  <2>2. dispatch' \in [Sessions -> Nat]
    BY <1>1, <1>4, <2>1 DEF DispatchDies, JobsOK
  <2>3. WorkersOK'
    BY <1>1, <1>4, FinishType DEF DispatchDies
  <2> QED BY <1>4, <2>2, <2>3 DEF DispatchDies, TypeOK, JobsOK, RequestsOK
<1> QED BY <1>2, <1>3, <1>4

\* Faults.
LEMMA FaultStepType ==
  ASSUME TypeOK
  PROVE  /\ \A w \in MeetingWorkers : GraphCallFails(w) \/ AttemptDies(w) => TypeOK'
         /\ \A e \in Events : TeamsProvisions(e) \/ DeletedInOutlook(e) => TypeOK'
         /\ \A r \in Requests : RequestDies(r) => TypeOK'
<1>1. ASSUME NEW w \in MeetingWorkers, GraphCallFails(w) \/ AttemptDies(w) PROVE TypeOK'
  <2>1. w \in Workers /\ WorkersOK /\ JobsOK
    BY DEF Workers, TypeOK
  <2>2. /\ worker[w].pc # "idle" /\ Throw(w)
        /\ UNCHANGED <<plan, session, event, dispatch, request>>
    BY <1>1 DEF GraphCallFails, AttemptDies
  <2> QED BY <2>1, <2>2, ThrowType DEF TypeOK, RequestsOK
<1>2. ASSUME NEW e \in Events, TeamsProvisions(e) \/ DeletedInOutlook(e) PROVE TypeOK'
  <2>1. event[e] \in GraphEvent
    BY DEF TypeOK
  <2>2. /\ [event[e] EXCEPT !.joinUrl = TRUE] \in GraphEvent
        /\ [event[e] EXCEPT !.state = "gone"] \in GraphEvent
    BY <2>1 DEF GraphEvent
  <2>3. event' \in [Events -> GraphEvent]
    BY <1>2, <2>2 DEF TeamsProvisions, DeletedInOutlook, TypeOK
  <2> QED BY <1>2, <2>3
        DEF TeamsProvisions, DeletedInOutlook, TypeOK, JobsOK, WorkersOK, RequestsOK
<1>3. ASSUME NEW r \in Requests, RequestDies(r) PROVE TypeOK'
  <2>1. request[r].session \in Sessions
    BY <1>3 DEF RequestDies, TypeOK, RequestsOK
  <2>2. RequestsOK'
    BY <1>3, <2>1, GotoType DEF RequestDies, RequestPc, TypeOK
  <2> QED BY <1>3, <2>2 DEF RequestDies, TypeOK, JobsOK, WorkersOK
<1> QED BY <1>1, <1>2, <1>3

\* A request comes in.
LEMMA ReceiveType ==
  ASSUME TypeOK, NEW r \in Requests, Receive(r)
  PROVE  TypeOK'
<1>1. PICK s \in Sessions :
        request' = [request EXCEPT ![r] =
                     [pc |-> FirstStep(OperationOf[r], s), session |-> s,
                      reopens |-> OperationOf[r] = "suggest" /\ plan[s] # "DRAFT"]]
  BY DEF Receive
<1>2. OperationOf[r] \in Operations
  BY ConstantsAssumption
<1>3. FirstStep(OperationOf[r], s) \in RequestPc
  <2>1. CASE ~Exists(s)
    BY <2>1 DEF FirstStep, RequestPc
  <2>2. CASE Exists(s)
    BY <1>2, <2>2 DEF FirstStep, RequestPc, Operations
  <2> QED BY <2>1, <2>2
<1>4. RequestsOK'
  BY <1>1, <1>3 DEF TypeOK, RequestsOK, SessionOrNone
<1> QED BY <1>4 DEF Receive, TypeOK, JobsOK, WorkersOK

\* Steps of the requests.
LEMMA RequestStepType ==
  ASSUME TypeOK, NEW r \in Requests, RequestStep(r)
  PROVE  TypeOK'
<1> DEFINE s == request[r].session
<1>1. request[r].pc \notin {"new", "done"}
  BY DEF RequestStep, ConfirmPlan, EnqueueCreate, RescheduleRow, EnqueueUpdate, CancelRead,
         CancelRow, EnqueueRemoval, DropJobs, ReopenPlan, DeleteRow, StartSession,
         CompleteSession, SetStatus
<1>2. s \in Sessions /\ session[s] \in Row /\ 0 \in Tries
  BY <1>1, ConstantsAssumption DEF TypeOK, RequestsOK, Tries
<1>3. RequestsOK'
  <2>1. \E pc \in RequestPc : Goto(r, pc)
    BY DEF RequestStep, ConfirmPlan, EnqueueCreate, RescheduleRow, EnqueueUpdate, CancelRead,
           CancelRow, EnqueueRemoval, DropJobs, ReopenPlan, DeleteRow, StartSession,
           CompleteSession, SetStatus, RequestPc
  <2> QED BY <1>2, <2>1, GotoType DEF TypeOK
<1>4. CASE ConfirmPlan(r)
  BY <1>2, <1>3, <1>4 DEF ConfirmPlan, TypeOK, JobsOK, WorkersOK
<1>5. CASE EnqueueCreate(r)
  <2>1. creates' \in [Sessions -> [Tries -> Nat]]
    BY <1>2, <1>5 DEF EnqueueCreate, SendKeyed, Send, TypeOK, JobsOK
  <2> QED BY <1>3, <1>5, <2>1 DEF EnqueueCreate, TypeOK, JobsOK, WorkersOK
<1>6. CASE RescheduleRow(r)
  <2>1. [session[s] EXCEPT !.start = @ + 1] \in Row
    BY <1>2 DEF Row
  <2>2. session' \in [Sessions -> Row]
    BY <1>2, <1>6, <2>1 DEF RescheduleRow, TypeOK
  <2> QED BY <1>3, <1>6, <2>2 DEF RescheduleRow, TypeOK, JobsOK, WorkersOK
<1>7. CASE EnqueueUpdate(r) \/ EnqueueRemoval(r)
  <2>1. updates' = Send(updates, s)
    BY <1>7 DEF EnqueueUpdate, EnqueueRemoval
  <2>2. updates' \in [Sessions -> [Tries -> Nat]]
    BY <1>2, <2>1 DEF Send, TypeOK, JobsOK
  <2> QED BY <1>3, <1>7, <2>2 DEF EnqueueUpdate, EnqueueRemoval, TypeOK, JobsOK, WorkersOK
<1>8. CASE CancelRead(r)
  BY <1>3, <1>8 DEF CancelRead, TypeOK, JobsOK, WorkersOK
<1>9. CASE CancelRow(r)
  <2>1. [session[s] EXCEPT !.status = "CANCELLED"] \in Row
    BY <1>2 DEF Row, Status
  <2>2. session' \in [Sessions -> Row]
    BY <1>2, <1>9, <2>1 DEF CancelRow, TypeOK
  <2> QED BY <1>3, <1>9, <2>2 DEF CancelRow, TypeOK, JobsOK, WorkersOK
<1>10. CASE DropJobs(r)
  <2>1. creates' \in [Sessions -> [Tries -> Nat]] /\ dispatch' \in [Sessions -> Nat]
    BY <1>2, <1>10 DEF DropJobs, RemoveJobs, TypeOK, JobsOK
  <2>2. WorkersOK'
    <3>1. \A w \in Workers :
            /\ worker'[w] \in {worker[w], [worker[w] EXCEPT !.job = FALSE]}
            /\ worker'[w] \in Attempt
      BY <1>10 DEF DropJobs, TypeOK, WorkersOK, Attempt
    <3>2. worker' \in [Workers -> Attempt]
      BY <1>10, <3>1 DEF DropJobs
    <3>3. \A w \in Workers :
            /\ worker'[w].pc = worker[w].pc /\ worker'[w].session = worker[w].session
            /\ worker'[w].event = worker[w].event
      BY <3>1 DEF TypeOK, WorkersOK, Attempt
    <3> QED BY <3>2, <3>3 DEF TypeOK, WorkersOK
  <2> QED BY <1>3, <1>10, <2>1, <2>2 DEF DropJobs, TypeOK, JobsOK
<1>11. CASE ReopenPlan(r)
  BY <1>2, <1>3, <1>11 DEF ReopenPlan, TypeOK, JobsOK, WorkersOK
<1>12. CASE DeleteRow(r)
  <2>1. session' \in [Sessions -> Row]
    BY <1>2, <1>12, RowType DEF DeleteRow, TypeOK
  <2> QED BY <1>3, <1>12, <2>1 DEF DeleteRow, TypeOK, JobsOK, WorkersOK
<1>13. CASE StartSession(r) \/ CompleteSession(r)
  <2>1. \A status \in Status : [session[s] EXCEPT !.status = status] \in Row
    BY <1>2 DEF Row
  <2>2. session' \in [Sessions -> Row]
    BY <1>2, <1>13, <2>1 DEF StartSession, CompleteSession, SetStatus, TypeOK, Status, Live
  <2> QED BY <1>3, <1>13, <2>2 DEF StartSession, CompleteSession, SetStatus, TypeOK, JobsOK,
                                   WorkersOK
<1> QED BY <1>4, <1>5, <1>6, <1>7, <1>8, <1>9, <1>10, <1>11, <1>12, <1>13 DEF RequestStep

\* Every step keeps the types.
LEMMA NextType == TypeOK /\ [Next]_vars => TypeOK'
<1> SUFFICES ASSUME TypeOK, [Next]_vars PROVE TypeOK'
  OBVIOUS
<1>1. CASE UNCHANGED vars
  BY <1>1 DEF vars, TypeOK, JobsOK, WorkersOK, RequestsOK
<1>2. CASE Next
  BY <1>2, TakeStepType, MeetingStepType, CreateStepType, UpdateStepType, DispatchStepType,
     FaultStepType, ReceiveType, RequestStepType DEF Next, MeetingWorkers
<1> QED BY <1>1, <1>2

\* Every reachable state is well-typed, whatever the faults and the requests: in
\* particular no attempt runs without a session and no count of jobs goes negative.
THEOREM TypeCorrect == Spec => []TypeOK
BY InitType, NextType, PTL DEF Spec

-----------------------------------------------------------------------------
(* Who writes what.                                                        *)

\* The steps that write a session's row.
LEMMA SessionWriters ==
  ASSUME [Next]_vars
  PROVE  \/ UNCHANGED session
         \/ \E w \in MeetingWorkers : RecordMeetingCreated(w)
         \/ \E w \in CreateWorkers : RecordGraphEventOnly(w)
         \/ \E w \in UpdateWorkers : MarkMeetingCancelled(w)
         \/ \E w \in DispatchWorkers : RecordExternalSession(w)
         \/ \E r \in Requests :
              \/ RescheduleRow(r) \/ CancelRow(r) \/ DeleteRow(r)
              \/ StartSession(r) \/ CompleteSession(r)
BY DEF Next, vars, MeetingStep, CreateStep, UpdateStep, RequestStep, TakeCreate, TakeUpdate,
       CreateMeeting, CreateMeetingWithoutJoinUrl, CreateMeetingReplyLost, EnqueueRemovalJob,
       ArmDispatch, CreateRead, RecoverJoinUrl, UpdateRead, CancelMeeting, UpdateMeeting,
       DisarmDispatch, TakeDispatch, DispatchDies, GraphCallFails, AttemptDies, TeamsProvisions,
       DeletedInOutlook, Receive, RequestDies, ConfirmPlan, EnqueueCreate, EnqueueUpdate,
       CancelRead, EnqueueRemoval, DropJobs, ReopenPlan

\* The steps that move an attempt.
LEMMA AttemptMovers ==
  ASSUME [Next]_vars
  PROVE  \/ UNCHANGED worker
         \/ \E v \in MeetingWorkers : MeetingStep(v) \/ GraphCallFails(v) \/ AttemptDies(v)
         \/ \E v \in CreateWorkers : TakeCreate(v) \/ CreateStep(v)
         \/ \E v \in UpdateWorkers : TakeUpdate(v) \/ UpdateStep(v)
         \/ \E v \in DispatchWorkers :
              TakeDispatch(v) \/ RecordExternalSession(v) \/ DispatchDies(v)
         \/ \E r \in Requests : DropJobs(r)
BY DEF Next, vars, RequestStep, TeamsProvisions, DeletedInOutlook, Receive, RequestDies,
       ConfirmPlan, EnqueueCreate, RescheduleRow, EnqueueUpdate, CancelRead, CancelRow,
       EnqueueRemoval, ReopenPlan, DeleteRow, StartSession, CompleteSession, SetStatus

\* The steps that move a request.
LEMMA RequestMovers ==
  ASSUME [Next]_vars
  PROVE  UNCHANGED request \/ \E q \in Requests : Receive(q) \/ RequestStep(q) \/ RequestDies(q)
BY DEF Next, vars, MeetingStep, CreateStep, UpdateStep, TakeCreate, TakeUpdate, CreateMeeting,
       CreateMeetingWithoutJoinUrl, CreateMeetingReplyLost, RecordMeetingCreated,
       EnqueueRemovalJob, ArmDispatch, CreateRead, RecoverJoinUrl, RecordGraphEventOnly,
       UpdateRead, CancelMeeting, MarkMeetingCancelled, UpdateMeeting, DisarmDispatch,
       TakeDispatch, RecordExternalSession, DispatchDies, GraphCallFails, AttemptDies,
       TeamsProvisions, DeletedInOutlook

-----------------------------------------------------------------------------
(* The late worker.                                                        *)

\* A session that is cancelled does not become INVITED again.
LEMMA StepNotReinvited ==
  ASSUME TypeOK, [Next]_vars
  PROVE  \A s \in Sessions : Cancelled(s) => session'[s].status # "INVITED"
<1> SUFFICES ASSUME NEW s \in Sessions, Cancelled(s) PROVE session'[s].status # "INVITED"
  OBVIOUS
<1>1. session[s] \in Row /\ session[s].status # "INVITED"
  BY DEF TypeOK, Cancelled
<1>2. CASE UNCHANGED session
  BY <1>1, <1>2
<1>3. ASSUME NEW w \in MeetingWorkers, RecordMeetingCreated(w)
      PROVE  session'[s].status # "INVITED"
  BY <1>1, <1>3 DEF RecordMeetingCreated, TypeOK, Row, Cancelled
<1>4. ASSUME NEW w \in Workers,
             RecordGraphEventOnly(w) \/ MarkMeetingCancelled(w) \/ RecordExternalSession(w)
      PROVE  session'[s].status # "INVITED"
  BY <1>1, <1>4 DEF RecordGraphEventOnly, MarkMeetingCancelled, RecordExternalSession, TypeOK, Row
<1>5. ASSUME NEW r \in Requests,
             \/ RescheduleRow(r) \/ CancelRow(r) \/ DeleteRow(r)
             \/ StartSession(r) \/ CompleteSession(r)
      PROVE  session'[s].status # "INVITED"
  BY <1>1, <1>5 DEF RescheduleRow, CancelRow, DeleteRow, StartSession, CompleteSession, SetStatus,
                    NoRow, TypeOK, Row
<1>6. \/ UNCHANGED session
      \/ \E w \in MeetingWorkers : RecordMeetingCreated(w)
      \/ \E w \in Workers :
           RecordGraphEventOnly(w) \/ MarkMeetingCancelled(w) \/ RecordExternalSession(w)
      \/ \E r \in Requests :
           \/ RescheduleRow(r) \/ CancelRow(r) \/ DeleteRow(r)
           \/ StartSession(r) \/ CompleteSession(r)
  BY SessionWriters DEF Workers, MeetingWorkers
<1> QED BY <1>2, <1>3, <1>4, <1>5, <1>6

\* A worker whose Graph call returns after a cancellation never turns the
\* cancelled session into an invited one.
THEOREM CancelledStaysUninvited == Spec => CancelledNotReinvited
<1>1. TypeOK /\ [Next]_vars
        => [\A s \in Sessions : Cancelled(s) => session'[s].status # "INVITED"]_vars
  BY StepNotReinvited
<1> QED BY <1>1, TypeCorrect, PTL DEF Spec, CancelledNotReinvited

-----------------------------------------------------------------------------
(* The removal of a cancelled session's event.                             *)

\* No attempt and no request dies half-way.
NoCrash == Faults \cap {"crash", "apiCrash"} = {}

\* The agent API, which writes a status without a condition on the row, is not used.
NoAgent == \A r \in Requests : OperationOf[r] \notin {"start", "complete"}

\* What makes RemovalOwed inductive: an id is only held for an event that was
\* created, a job of meeting.update is never dropped, its attempt deletes and
\* marks cancelled rows only, and only a cancelled row is marked.
HeldIsCreated ==
  /\ \A s \in Sessions :
       session[s].graphEventId # None => event[session[s].graphEventId].state # "unused"
  /\ \A w \in MeetingWorkers :
       worker[w].event # None => event[worker[w].event].state # "unused"

UpdatesAreKept == \A w \in UpdateWorkers : worker[w].pc # "idle" => worker[w].job

RemovesOnlyCancelled ==
  /\ \A w \in MeetingWorkers : worker[w].pc \in {"delete", "mark"} =>
       /\ w \in UpdateWorkers
       /\ session[worker[w].session].status \in {"CANCELLED", "DELETED"}
  /\ \A s \in Sessions : session[s].meetingCancelledAt => Cancelled(s)
  /\ \A r \in Requests : request[r].pc \notin {"start", "complete"}

RemovalInv ==
  /\ TypeOK /\ HeldIsCreated /\ UpdatesAreKept /\ RemovesOnlyCancelled
  /\ RemovalOwed

\* The workers of different queues are different.
LEMMA WorkersDisjoint ==
  /\ \A w \in UpdateWorkers : w \notin CreateWorkers
  /\ \A w \in MeetingWorkers : w \in Workers /\ w \notin DispatchWorkers
  /\ \A w \in DispatchWorkers : w \in Workers /\ w \notin MeetingWorkers
BY ConstantsAssumption DEF MeetingWorkers, Workers

\* An event that was created is never created again: it stays, or goes.
LEMMA EventsStayCreated ==
  ASSUME TypeOK, [Next]_vars, NEW e \in Events, event[e].state # "unused"
  PROVE  event'[e].state \in {event[e].state, "gone"}
<1>1. CASE UNCHANGED event
  BY <1>1
<1>2. ASSUME NEW w \in Workers, NEW f \in Events, NEW joinUrl \in BOOLEAN, Post(w, f, joinUrl)
      PROVE  event'[e].state \in {event[e].state, "gone"}
  BY <1>2 DEF Post, TypeOK
<1>3. ASSUME NEW w \in Workers, CancelMeeting(w) \/ UpdateMeeting(w)
      PROVE  event'[e].state \in {event[e].state, "gone"}
  BY <1>3 DEF CancelMeeting, UpdateMeeting, TypeOK, GraphEvent
<1>4. ASSUME NEW f \in Events, TeamsProvisions(f) \/ DeletedInOutlook(f)
      PROVE  event'[e].state \in {event[e].state, "gone"}
  BY <1>4 DEF TeamsProvisions, DeletedInOutlook, TypeOK, GraphEvent
<1>5. \/ UNCHANGED event
      \/ \E w \in Workers, f \in Events, joinUrl \in BOOLEAN : Post(w, f, joinUrl)
      \/ \E w \in Workers : CancelMeeting(w) \/ UpdateMeeting(w)
      \/ \E f \in Events : TeamsProvisions(f) \/ DeletedInOutlook(f)
  BY DEF Next, vars, Workers, MeetingWorkers, MeetingStep, CreateStep, UpdateStep, RequestStep,
         TakeCreate, TakeUpdate, CreateMeeting, CreateMeetingWithoutJoinUrl, CreateMeetingReplyLost,
         RecordMeetingCreated, EnqueueRemovalJob, ArmDispatch, CreateRead, RecoverJoinUrl,
         RecordGraphEventOnly, UpdateRead, MarkMeetingCancelled, DisarmDispatch, TakeDispatch,
         RecordExternalSession, DispatchDies, GraphCallFails, AttemptDies, Receive, RequestDies, ConfirmPlan,
         EnqueueCreate, RescheduleRow, EnqueueUpdate, CancelRead, CancelRow, EnqueueRemoval,
         DropJobs, ReopenPlan, DeleteRow, StartSession, CompleteSession, SetStatus
<1> QED BY <1>1, <1>2, <1>3, <1>4, <1>5

\* A row's event is one an attempt has just brought it, or none after a delete.
LEMMA RowEvents ==
  ASSUME TypeOK, [Next]_vars, NEW s \in Sessions
  PROVE  \/ session'[s].graphEventId \in {None, session[s].graphEventId}
         \/ \E w \in MeetingWorkers : session'[s].graphEventId = worker[w].event
<1>1. session[s] \in Row
  BY DEF TypeOK
<1>2. CASE UNCHANGED session
  BY <1>2
<1>3. ASSUME NEW w \in MeetingWorkers, RecordMeetingCreated(w) \/ RecordGraphEventOnly(w)
      PROVE  session'[s].graphEventId \in {session[s].graphEventId, worker[w].event}
  BY <1>1, <1>3 DEF RecordMeetingCreated, RecordGraphEventOnly, TypeOK, Row
<1>4. ASSUME NEW w \in Workers, MarkMeetingCancelled(w) \/ RecordExternalSession(w)
      PROVE  session'[s].graphEventId = session[s].graphEventId
  BY <1>1, <1>4 DEF MarkMeetingCancelled, RecordExternalSession, TypeOK, Row
<1>5. ASSUME NEW r \in Requests,
             \/ RescheduleRow(r) \/ CancelRow(r) \/ DeleteRow(r)
             \/ StartSession(r) \/ CompleteSession(r)
      PROVE  session'[s].graphEventId \in {None, session[s].graphEventId}
  BY <1>1, <1>5 DEF RescheduleRow, CancelRow, DeleteRow, StartSession, CompleteSession, SetStatus,
                    NoRow, TypeOK, Row
<1>6. \/ UNCHANGED session
      \/ \E w \in MeetingWorkers : RecordMeetingCreated(w) \/ RecordGraphEventOnly(w)
      \/ \E w \in Workers : MarkMeetingCancelled(w) \/ RecordExternalSession(w)
      \/ \E r \in Requests :
           \/ RescheduleRow(r) \/ CancelRow(r) \/ DeleteRow(r)
           \/ StartSession(r) \/ CompleteSession(r)
  BY SessionWriters DEF Workers, MeetingWorkers
<1> QED BY <1>2, <1>3, <1>4, <1>5, <1>6

\* A meeting attempt moves to another point with the event it holds, reads its
\* row's event, creates one, or starts over without any.
LEMMA AttemptEvents ==
  ASSUME TypeOK, [Next]_vars, NEW w \in MeetingWorkers
  PROVE  \/ worker'[w].event \in {None, worker[w].event}
         \/ \E s \in Sessions : worker'[w].event = session[s].graphEventId
         \/ event'[worker'[w].event].state = "live"
<1>1. w \in Workers /\ w \notin DispatchWorkers /\ worker[w] \in Attempt
  BY WorkersDisjoint DEF TypeOK, WorkersOK
<1> DEFINE Moved(v) == \/ UNCHANGED worker
                       \/ \E pc \in WorkerPc : Step(v, pc)
                       \/ Finish(v)
                       \/ \E s \in Sessions, n \in Tries : Take(v, s, n)
           Read(v) == \E pc \in WorkerPc : \E s \in Sessions :
                        worker' = [worker EXCEPT ![v].pc = pc, ![v].event = session[s].graphEventId,
                                                 ![v].start = session[s].start]
           Created(v) == \E pc \in WorkerPc : \E e \in Events :
                           /\ event'[e].state = "live"
                           /\ worker' = [worker EXCEPT ![v].pc = pc, ![v].event = e]
           Lost(v) == worker' = [worker EXCEPT ![v].pc = "graph", ![v].event = None]
<1>2. ASSUME NEW v \in Workers, Moved(v) PROVE worker'[w].event \in {None, worker[w].event}
  BY <1>1, <1>2 DEF Step, Finish, Take, Idle, Attempt, TypeOK, WorkersOK
<1>3. ASSUME NEW v \in Workers, Read(v)
      PROVE  \/ worker'[w].event = worker[w].event
             \/ \E s \in Sessions : worker'[w].event = session[s].graphEventId
  BY <1>1, <1>3 DEF Attempt, TypeOK, WorkersOK
<1>4. ASSUME NEW v \in Workers, Created(v)
      PROVE  worker'[w].event = worker[w].event \/ event'[worker'[w].event].state = "live"
  BY <1>1, <1>4 DEF Attempt, TypeOK, WorkersOK
<1>5. ASSUME NEW v \in Workers, Lost(v)
      PROVE  worker'[w].event \in {None, worker[w].event}
  BY <1>1, <1>5 DEF Attempt, TypeOK, WorkersOK
<1> HIDE DEF Moved, Read, Created, Lost
<1>6. CASE UNCHANGED worker
  BY <1>6
<1>7. ASSUME NEW v \in MeetingWorkers, MeetingStep(v) \/ GraphCallFails(v) \/ AttemptDies(v)
      PROVE  Moved(v) \/ Created(v)
  <2>1. CASE CreateMeeting(v) \/ CreateMeetingWithoutJoinUrl(v)
    <3>1. PICK e \in Events, joinUrl \in BOOLEAN :
            /\ Post(v, e, joinUrl)
            /\ \/ \E pc \in WorkerPc : worker' = [worker EXCEPT ![v].pc = pc, ![v].event = e]
               \/ Throw(v)
      BY <2>1 DEF CreateMeeting, CreateMeetingWithoutJoinUrl, WorkerPc
    <3>2. event'[e].state = "live"
      BY <3>1 DEF Post, TypeOK
    <3> QED BY <3>1, <3>2 DEF Moved, Created, Throw
  <2>2. CASE ~(CreateMeeting(v) \/ CreateMeetingWithoutJoinUrl(v))
    BY <1>7, <2>2 DEF Moved, MeetingStep, CreateMeetingReplyLost, RecordMeetingCreated,
         EnqueueRemovalJob, ArmDispatch, GraphCallFails, AttemptDies, Throw, WorkerPc
  <2> QED BY <2>1, <2>2
<1>8. ASSUME NEW v \in CreateWorkers, TakeCreate(v) \/ CreateStep(v)
      PROVE  Moved(v) \/ Read(v)
  <2>1. CASE CreateRead(v)
    <3>1. worker[v].session \in Sessions
      BY <2>1 DEF CreateRead, TypeOK, WorkersOK, Workers, MeetingWorkers
    <3> QED BY <2>1, <3>1 DEF Moved, Read, CreateRead, WorkerPc
  <2>2. CASE ~CreateRead(v)
    BY <1>8, <2>2 DEF Moved, TakeCreate, CreateStep, RecoverJoinUrl, RecordGraphEventOnly, Throw,
                      WorkerPc
  <2> QED BY <2>1, <2>2
<1>9. ASSUME NEW v \in UpdateWorkers, TakeUpdate(v) \/ UpdateStep(v)
      PROVE  Moved(v) \/ Read(v) \/ Lost(v)
  <2>1. CASE UpdateRead(v)
    <3>1. worker[v].session \in Sessions
      BY <2>1 DEF UpdateRead, TypeOK, WorkersOK, Workers, MeetingWorkers
    <3>2. \/ Finish(v)
          \/ \E pc \in {"delete", "graph", "patch"} :
               worker' = [worker EXCEPT
                 ![v].pc = pc, ![v].event = session[worker[v].session].graphEventId,
                 ![v].start = session[worker[v].session].start]
      BY <2>1 DEF UpdateRead
    <3> QED BY <3>1, <3>2 DEF Moved, Read, WorkerPc
  <2>2. CASE ~UpdateRead(v)
    BY <1>9, <2>2 DEF Moved, Lost, TakeUpdate, UpdateStep, CancelMeeting, MarkMeetingCancelled,
                      UpdateMeeting, DisarmDispatch, Throw, WorkerPc
  <2> QED BY <2>1, <2>2
<1>10. ASSUME NEW v \in DispatchWorkers,
              TakeDispatch(v) \/ RecordExternalSession(v) \/ DispatchDies(v)
       PROVE  worker'[w] = worker[w]
  BY <1>1, <1>10 DEF TakeDispatch, RecordExternalSession, DispatchDies, Finish, TypeOK, WorkersOK
<1>11. ASSUME NEW r \in Requests, DropJobs(r)
       PROVE  worker'[w].event = worker[w].event
  BY <1>1, <1>11 DEF DropJobs, Attempt
<1>12. \/ UNCHANGED worker
       \/ \E v \in MeetingWorkers : MeetingStep(v) \/ GraphCallFails(v) \/ AttemptDies(v)
       \/ \E v \in CreateWorkers : TakeCreate(v) \/ CreateStep(v)
       \/ \E v \in UpdateWorkers : TakeUpdate(v) \/ UpdateStep(v)
       \/ \E v \in DispatchWorkers :
            TakeDispatch(v) \/ RecordExternalSession(v) \/ DispatchDies(v)
       \/ \E r \in Requests : DropJobs(r)
  BY AttemptMovers
<1> QED BY <1>2, <1>3, <1>4, <1>5, <1>6, <1>7, <1>8, <1>9, <1>10, <1>11, <1>12
        DEF Workers, MeetingWorkers

\* What a row or an attempt holds has been created.
LEMMA HeldStep ==
  ASSUME TypeOK, TypeOK', HeldIsCreated, [Next]_vars
  PROVE  HeldIsCreated'
<1>1. ASSUME NEW s \in Sessions, session'[s].graphEventId # None
      PROVE  event'[session'[s].graphEventId].state # "unused"
  <2>1. session'[s].graphEventId \in Events
    BY <1>1 DEF TypeOK, Row, EventOrNone
  <2>2. event[session'[s].graphEventId].state # "unused"
    BY <1>1, RowEvents DEF HeldIsCreated
  <2> QED BY <2>1, <2>2, EventsStayCreated
<1>2. ASSUME NEW w \in MeetingWorkers, worker'[w].event # None
      PROVE  event'[worker'[w].event].state # "unused"
  <2>1. worker'[w].event \in Events
    BY <1>2, WorkersDisjoint DEF TypeOK, WorkersOK, Attempt, EventOrNone
  <2>2. CASE event'[worker'[w].event].state = "live"
    BY <2>2
  <2>3. CASE event'[worker'[w].event].state # "live"
    <3>1. event[worker'[w].event].state # "unused"
      BY <1>2, <2>3, AttemptEvents DEF HeldIsCreated
    <3> QED BY <2>1, <3>1, EventsStayCreated
  <2> QED BY <2>2, <2>3
<1> QED BY <1>1, <1>2 DEF HeldIsCreated

\* Only its own step changes an attempt, but for the job it loses to a cancel.
LEMMA OthersKeepTheirAttempt ==
  ASSUME TypeOK, [Next]_vars, NEW w \in MeetingWorkers
  PROVE  \/ worker'[w] = worker[w]
         \/ MeetingStep(w) \/ GraphCallFails(w) \/ AttemptDies(w)
         \/ w \in CreateWorkers /\ (TakeCreate(w) \/ CreateStep(w))
         \/ w \in UpdateWorkers /\ (TakeUpdate(w) \/ UpdateStep(w))
         \/ w \in CreateWorkers /\ worker'[w] = [worker[w] EXCEPT !.job = FALSE]
<1>1. w \in Workers /\ w \notin DispatchWorkers /\ worker \in [Workers -> Attempt]
  BY WorkersDisjoint DEF TypeOK, WorkersOK
<1>2. CASE UNCHANGED worker
  BY <1>2
<1>3. ASSUME NEW v \in Workers, v # w,
             \/ MeetingStep(v) \/ GraphCallFails(v) \/ AttemptDies(v)
             \/ TakeCreate(v) \/ CreateStep(v) \/ TakeUpdate(v) \/ UpdateStep(v)
             \/ TakeDispatch(v) \/ RecordExternalSession(v) \/ DispatchDies(v)
      PROVE  worker'[w] = worker[w]
  BY <1>1, <1>3
     DEF MeetingStep, CreateMeeting, CreateMeetingWithoutJoinUrl, CreateMeetingReplyLost,
         RecordMeetingCreated, EnqueueRemovalJob, ArmDispatch, GraphCallFails, AttemptDies,
         TakeCreate, CreateStep, CreateRead, RecoverJoinUrl, RecordGraphEventOnly, TakeUpdate,
         UpdateStep, UpdateRead, CancelMeeting, MarkMeetingCancelled, UpdateMeeting,
         DisarmDispatch, TakeDispatch, RecordExternalSession, DispatchDies, Throw, Finish, Step,
         Take
<1>4. ASSUME NEW r \in Requests, DropJobs(r)
      PROVE  \/ worker'[w] = worker[w]
             \/ w \in CreateWorkers /\ worker'[w] = [worker[w] EXCEPT !.job = FALSE]
  BY <1>1, <1>4 DEF DropJobs
<1>5. \/ UNCHANGED worker
      \/ \E v \in MeetingWorkers : MeetingStep(v) \/ GraphCallFails(v) \/ AttemptDies(v)
      \/ \E v \in CreateWorkers : TakeCreate(v) \/ CreateStep(v)
      \/ \E v \in UpdateWorkers : TakeUpdate(v) \/ UpdateStep(v)
      \/ \E v \in DispatchWorkers :
           TakeDispatch(v) \/ RecordExternalSession(v) \/ DispatchDies(v)
      \/ \E r \in Requests : DropJobs(r)
  BY AttemptMovers
<1> QED BY <1>1, <1>2, <1>3, <1>4, <1>5 DEF Workers, MeetingWorkers

\* An update job stays with the worker that has taken it.
LEMMA KeptStep ==
  ASSUME TypeOK, UpdatesAreKept, [Next]_vars
  PROVE  UpdatesAreKept'
<1> SUFFICES ASSUME NEW w \in UpdateWorkers, worker'[w].pc # "idle" PROVE worker'[w].job
  BY DEF UpdatesAreKept
<1>1. w \in MeetingWorkers /\ w \notin CreateWorkers /\ w \in Workers /\ worker[w] \in Attempt
  BY WorkersDisjoint DEF MeetingWorkers, TypeOK, WorkersOK
<1>2. CASE worker'[w] = worker[w]
  BY <1>2 DEF UpdatesAreKept
<1>3. CASE TakeUpdate(w)
  BY <1>1, <1>3 DEF TakeUpdate, Take, TypeOK, WorkersOK
<1>4. CASE MeetingStep(w) \/ GraphCallFails(w) \/ AttemptDies(w) \/ UpdateStep(w)
  <2>1. worker[w].pc # "idle"
    BY <1>4 DEF MeetingStep, CreateMeeting, CreateMeetingWithoutJoinUrl, CreateMeetingReplyLost,
         Creating, RecordMeetingCreated, EnqueueRemovalJob, ArmDispatch, GraphCallFails,
         AttemptDies, UpdateStep, UpdateRead, CancelMeeting, MarkMeetingCancelled, UpdateMeeting,
         DisarmDispatch
  <2>2. CASE worker' = [worker EXCEPT ![w] = Idle]
    BY <1>1, <2>2 DEF Idle, TypeOK, WorkersOK
  <2>3. CASE worker' # [worker EXCEPT ![w] = Idle]
    <3>1. \/ \E pc \in WorkerPc : worker' = [worker EXCEPT ![w].pc = pc]
          \/ \E pc \in WorkerPc, e \in EventOrNone : worker' = [worker EXCEPT ![w].pc = pc,
                                                                        ![w].event = e]
          \/ \E pc \in WorkerPc : \E row \in Row :
               worker' = [worker EXCEPT ![w].pc = pc, ![w].event = row.graphEventId,
                                        ![w].start = row.start]
      <4>1. CASE MeetingStep(w) \/ GraphCallFails(w) \/ AttemptDies(w)
        BY <2>3, <4>1
           DEF MeetingStep, CreateMeeting, CreateMeetingWithoutJoinUrl, CreateMeetingReplyLost,
               RecordMeetingCreated, EnqueueRemovalJob, ArmDispatch, GraphCallFails, AttemptDies,
               Throw, Finish, Step, WorkerPc, EventOrNone
      <4>2. CASE UpdateRead(w)
        <5>1. worker[w].session \in Sessions
          BY <1>1, <2>1 DEF TypeOK, WorkersOK
        <5> QED BY <2>3, <4>2, <5>1 DEF UpdateRead, Finish, WorkerPc, TypeOK
      <4>3. CASE UpdateStep(w) /\ ~UpdateRead(w)
        BY <2>3, <4>3 DEF UpdateStep, CancelMeeting, MarkMeetingCancelled, UpdateMeeting,
                          DisarmDispatch, Throw, Finish, Step, WorkerPc, EventOrNone
      <4> QED BY <1>4, <4>1, <4>2, <4>3
    <3>2. worker'[w].job = worker[w].job
      <4>1. CASE \E pc \in WorkerPc : worker' = [worker EXCEPT ![w].pc = pc]
        BY <1>1, <4>1 DEF TypeOK, WorkersOK, Attempt
      <4>2. CASE \E pc \in WorkerPc, e \in EventOrNone : worker' = [worker EXCEPT ![w].pc = pc,
                                                                              ![w].event = e]
        BY <1>1, <4>2 DEF TypeOK, WorkersOK, Attempt
      <4>3. CASE \E pc \in WorkerPc : \E row \in Row :
                   worker' = [worker EXCEPT ![w].pc = pc, ![w].event = row.graphEventId,
                                            ![w].start = row.start]
        <5>1. PICK pc, e, start :
                worker' = [worker EXCEPT ![w].pc = pc, ![w].event = e, ![w].start = start]
          BY <4>3
        <5> QED BY <1>1, <5>1 DEF TypeOK, WorkersOK, Attempt
      <4> QED BY <3>1, <4>1, <4>2, <4>3
    <3> QED BY <2>1, <3>2 DEF UpdatesAreKept
  <2> QED BY <2>2, <2>3
<1> QED BY <1>1, <1>2, <1>3, <1>4, OthersKeepTheirAttempt

\* Without the agent API nothing leaves CANCELLED but by the deletion of the row,
\* and only a cancelled row is marked.
LEMMA CancelledStays ==
  ASSUME TypeOK, RemovesOnlyCancelled, [Next]_vars, NEW s \in Sessions
  PROVE  /\ session[s].status \in {"CANCELLED", "DELETED"}
             => session'[s].status \in {"CANCELLED", "DELETED"}
         /\ session'[s].meetingCancelledAt => session'[s].status = "CANCELLED"
<1>1. /\ session[s] \in Row
      /\ session[s].meetingCancelledAt => session[s].status = "CANCELLED"
  BY DEF TypeOK, RemovesOnlyCancelled, Cancelled
<1>2. CASE UNCHANGED session
  BY <1>1, <1>2
<1>3. ASSUME NEW w \in MeetingWorkers, RecordMeetingCreated(w)
      PROVE  /\ session[s].status \in {"CANCELLED", "DELETED"} => session'[s].status = session[s].status
             /\ session'[s].meetingCancelledAt => session'[s].status = "CANCELLED"
  BY <1>1, <1>3 DEF RecordMeetingCreated, Exists, Cancelled, TypeOK, Row
<1>4. ASSUME NEW w \in CreateWorkers, RecordGraphEventOnly(w)
      PROVE  /\ session'[s].status = session[s].status
             /\ session'[s].meetingCancelledAt = session[s].meetingCancelledAt
  BY <1>1, <1>4 DEF RecordGraphEventOnly, TypeOK, Row
<1>5. ASSUME NEW w \in MeetingWorkers, MarkMeetingCancelled(w)
      PROVE  /\ session'[s].status = session[s].status
             /\ session'[s].meetingCancelledAt => session'[s].status = "CANCELLED"
  <2>1. session[worker[w].session].status \in {"CANCELLED", "DELETED"}
    BY <1>5 DEF MarkMeetingCancelled, RemovesOnlyCancelled
  <2> QED BY <1>1, <1>5, <2>1 DEF MarkMeetingCancelled, Exists, TypeOK, Row
<1>6. ASSUME NEW w \in DispatchWorkers, RecordExternalSession(w)
      PROVE  /\ session'[s].status = session[s].status
             /\ session'[s].meetingCancelledAt = session[s].meetingCancelledAt
  BY <1>1, <1>6 DEF RecordExternalSession, TypeOK, Row
<1>7. ASSUME NEW r \in Requests, RescheduleRow(r) \/ CancelRow(r) \/ DeleteRow(r)
      PROVE  /\ session[s].status \in {"CANCELLED", "DELETED"}
                 => session'[s].status \in {"CANCELLED", "DELETED"}
             /\ session'[s].meetingCancelledAt => session'[s].status = "CANCELLED"
  BY <1>1, <1>7 DEF RescheduleRow, CancelRow, DeleteRow, NoRow, Exists, TypeOK, Row
<1>8. ASSUME NEW r \in Requests PROVE ~StartSession(r) /\ ~CompleteSession(r)
  BY DEF RemovesOnlyCancelled, StartSession, CompleteSession, SetStatus
<1>9. \/ UNCHANGED session
      \/ \E w \in MeetingWorkers : RecordMeetingCreated(w) \/ MarkMeetingCancelled(w)
      \/ \E w \in CreateWorkers : RecordGraphEventOnly(w)
      \/ \E w \in DispatchWorkers : RecordExternalSession(w)
      \/ \E r \in Requests : RescheduleRow(r) \/ CancelRow(r) \/ DeleteRow(r)
  BY <1>8, SessionWriters DEF Workers, MeetingWorkers
<1> QED BY <1>1, <1>2, <1>3, <1>4, <1>5, <1>6, <1>7, <1>9

\* Only the meeting of a cancelled session is removed.
LEMMA RemovesStep ==
  ASSUME NoAgent, TypeOK, TypeOK', RemovesOnlyCancelled, [Next]_vars
  PROVE  RemovesOnlyCancelled'
<1>1. ASSUME NEW w \in MeetingWorkers, worker'[w].pc \in {"delete", "mark"}
      PROVE  /\ w \in UpdateWorkers
             /\ session'[worker'[w].session].status \in {"CANCELLED", "DELETED"}
  <2>1. w \in Workers /\ worker \in [Workers -> Attempt]
    BY WorkersDisjoint DEF TypeOK, WorkersOK
  <2>2. worker'[w].session \in Sessions
    BY <1>1, <2>1 DEF TypeOK, WorkersOK
  <2>3. CASE MeetingStep(w)
    <3>1. \/ worker' = [worker EXCEPT ![w] = Idle]
          \/ \E pc \in WorkerPc \ {"delete", "mark"} : worker' = [worker EXCEPT ![w].pc = pc]
          \/ \E pc \in WorkerPc \ {"delete", "mark"}, e \in Events :
               worker' = [worker EXCEPT ![w].pc = pc, ![w].event = e]
      BY <2>3
         DEF MeetingStep, CreateMeeting, CreateMeetingWithoutJoinUrl, CreateMeetingReplyLost,
             RecordMeetingCreated, EnqueueRemovalJob, ArmDispatch, Throw, Finish, Step, WorkerPc
    <3>2. CASE worker' = [worker EXCEPT ![w] = Idle]
      BY <1>1, <2>1, <3>2 DEF Idle
    <3>3. CASE \E pc \in WorkerPc \ {"delete", "mark"} : worker' = [worker EXCEPT ![w].pc = pc]
      BY <1>1, <2>1, <3>3 DEF Attempt
    <3>4. CASE \E pc \in WorkerPc \ {"delete", "mark"}, e \in Events :
                 worker' = [worker EXCEPT ![w].pc = pc, ![w].event = e]
      BY <1>1, <2>1, <3>4 DEF Attempt
    <3> QED BY <3>1, <3>2, <3>3, <3>4
  <2>4. CASE GraphCallFails(w) \/ AttemptDies(w)
    BY <1>1, <2>1, <2>4 DEF GraphCallFails, AttemptDies, Throw, Finish, Idle
  <2>5. CASE w \in CreateWorkers /\ (TakeCreate(w) \/ CreateStep(w))
    <3>1. worker'[w].pc \notin {"delete", "mark"}
      BY <2>1, <2>5 DEF TakeCreate, Take, CreateStep, CreateRead, RecoverJoinUrl,
                        RecordGraphEventOnly, Throw, Finish, Step, Idle, Attempt
    <3> QED BY <1>1, <3>1
  <2>6. CASE w \in UpdateWorkers /\ TakeUpdate(w)
    BY <1>1, <2>1, <2>6 DEF TakeUpdate, Take
  <2>7. CASE w \in UpdateWorkers /\ UpdateRead(w)
    <3>1. UNCHANGED session
      BY <2>7 DEF UpdateRead
    <3>2. CASE worker' = [worker EXCEPT ![w] = Idle]
      BY <1>1, <2>1, <3>2 DEF Idle
    <3>3. CASE worker' # [worker EXCEPT ![w] = Idle]
      <4>1. worker' = [worker EXCEPT
              ![w].pc = IF Cancelled(worker[w].session) THEN "delete"
                        ELSE IF session[worker[w].session].graphEventId = None
                             THEN "graph" ELSE "patch",
              ![w].event = session[worker[w].session].graphEventId,
              ![w].start = session[worker[w].session].start]
        BY <2>7, <3>3 DEF UpdateRead, Finish
      <4>2. /\ worker'[w].session = worker[w].session
            /\ worker'[w].pc = "delete" \/ worker'[w].pc = "mark" => Cancelled(worker[w].session)
        BY <2>1, <4>1 DEF Attempt
      <4> QED BY <1>1, <2>7, <3>1, <4>2 DEF Cancelled
    <3> QED BY <3>2, <3>3
  <2>8. CASE w \in UpdateWorkers /\ UpdateStep(w) /\ ~UpdateRead(w)
    <3>1. /\ worker[w].pc \in {"delete", "mark"} /\ worker'[w].session = worker[w].session
          /\ worker[w].session \in Sessions
      BY <1>1, <2>1, <2>8 DEF UpdateStep, CancelMeeting, MarkMeetingCancelled, UpdateMeeting,
         DisarmDispatch, Throw, Finish, Step, Idle, Attempt, TypeOK, WorkersOK
    <3>2. session[worker[w].session].status \in {"CANCELLED", "DELETED"}
      BY <3>1 DEF RemovesOnlyCancelled
    <3> QED BY <2>8, <3>1, <3>2, CancelledStays
  <2>9. CASE w \in CreateWorkers /\ worker'[w] = [worker[w] EXCEPT !.job = FALSE]
    <3>1. worker[w].pc = worker'[w].pc
      BY <2>1, <2>9 DEF Attempt
    <3> QED BY <1>1, <2>9, <3>1, WorkersDisjoint DEF RemovesOnlyCancelled
  <2>10. CASE worker'[w] = worker[w]
    BY <1>1, <2>2, <2>10, CancelledStays DEF RemovesOnlyCancelled
  <2> QED BY <2>3, <2>4, <2>5, <2>6, <2>7, <2>8, <2>9, <2>10, OthersKeepTheirAttempt
<1>2. ASSUME NEW s \in Sessions PROVE session'[s].meetingCancelledAt => session'[s].status = "CANCELLED"
  BY CancelledStays
<1>3. ASSUME NEW r \in Requests PROVE request'[r].pc \notin {"start", "complete"}
  <2>1. request[r].pc \notin {"start", "complete"} /\ request[r].session \in SessionOrNone
    BY DEF RemovesOnlyCancelled, TypeOK, RequestsOK
  <2>2. \A s \in Sessions : FirstStep(OperationOf[r], s) \notin {"start", "complete"}
    <3>1. OperationOf[r] \in Operations \ {"start", "complete"}
      BY ConstantsAssumption DEF NoAgent
    <3> QED BY <3>1 DEF FirstStep, Operations
  <2>3. CASE UNCHANGED request
    BY <2>1, <2>3
  <2>4. ASSUME NEW q \in Requests, Receive(q)
        PROVE  request'[r].pc \notin {"start", "complete"}
    BY <2>1, <2>2, <2>4 DEF Receive, TypeOK, RequestsOK
  <2>5. ASSUME NEW q \in Requests, RequestStep(q) \/ RequestDies(q)
        PROVE  request'[r].pc \notin {"start", "complete"}
    <3>1. \E pc \in RequestPc \ {"start", "complete"} : Goto(q, pc)
      BY <2>5 DEF RequestStep, RequestDies, ConfirmPlan, EnqueueCreate, RescheduleRow,
           EnqueueUpdate, CancelRead, CancelRow, EnqueueRemoval, DropJobs, ReopenPlan, DeleteRow,
           StartSession, CompleteSession, SetStatus, RequestPc
    <3> QED BY <2>1, <3>1 DEF Goto, TypeOK, RequestsOK
  <2>6. UNCHANGED request \/ \E q \in Requests : Receive(q) \/ RequestStep(q) \/ RequestDies(q)
    BY RequestMovers
  <2> QED BY <2>3, <2>4, <2>5, <2>6
<1> QED BY <1>1, <1>2, <1>3 DEF RemovesOnlyCancelled, Cancelled

\* What a step does to the jobs waiting in meeting.update.
LEMMA UpdatesStep ==
  ASSUME TypeOK, [Next]_vars, NEW s \in Sessions, Waiting(updates, s)
  PROVE  \/ Waiting(updates, s)'
         \/ \E w \in UpdateWorkers : worker'[w].session = s /\ worker'[w].pc = "read"
<1>1. PICK t \in Tries : updates[s][t] > 0
  BY DEF Waiting
<1>2. updates \in [Sessions -> [Tries -> Nat]] /\ worker \in [Workers -> Attempt]
  BY DEF TypeOK, JobsOK, WorkersOK
<1>3. CASE UNCHANGED updates
  BY <1>1, <1>3 DEF Waiting
<1>4. ASSUME NEW u \in Sessions, updates' = Send(updates, u)
      PROVE  Waiting(updates, s)'
  <2>1. updates'[s][t] > 0
    BY <1>1, <1>2, <1>4, ConstantsAssumption DEF Send, Tries
  <2> QED BY <2>1 DEF Waiting
<1>5. ASSUME NEW u \in Sessions, NEW n \in Nat, updates' = [updates EXCEPT ![u][n] = @ + 1]
      PROVE  Waiting(updates, s)'
  <2>1. updates'[s][t] > 0
    BY <1>1, <1>2, <1>5
  <2> QED BY <2>1 DEF Waiting
<1>6. ASSUME NEW w \in UpdateWorkers, TakeUpdate(w)
      PROVE  Waiting(updates, s)' \/ (worker'[w].session = s /\ worker'[w].pc = "read")
  <2>1. PICK u \in Sessions, n \in Tries :
          updates' = [updates EXCEPT ![u][n] = @ - 1] /\ Take(w, u, n)
    BY <1>6 DEF TakeUpdate
  <2>2. CASE u = s
    <3>1. w \in Workers
      BY DEF Workers, MeetingWorkers
    <3> QED BY <1>2, <2>1, <2>2, <3>1 DEF Take
  <2>3. CASE u # s
    <3>1. updates'[s][t] > 0
      BY <1>1, <1>2, <2>1, <2>3
    <3> QED BY <3>1 DEF Waiting
  <2> QED BY <2>2, <2>3
<1>7. ASSUME NEW w \in Workers, worker[w].pc # "idle", Throw(w)
      PROVE  Waiting(updates, s)'
  <2>1. worker[w].session \in Sessions /\ worker[w].tries + 1 \in Nat
    BY <1>7, ConstantsAssumption DEF TypeOK, WorkersOK, Attempt, Tries
  <2>2. UNCHANGED updates
        \/ updates' = [updates EXCEPT ![worker[w].session][worker[w].tries + 1] = @ + 1]
    BY <1>7 DEF Throw
  <2> QED BY <1>3, <1>5, <2>1, <2>2
<1>8. \/ UNCHANGED updates
      \/ \E u \in Sessions : updates' = Send(updates, u)
      \/ \E w \in UpdateWorkers : TakeUpdate(w)
      \/ \E w \in Workers : worker[w].pc # "idle" /\ Throw(w)
  <2>1. ASSUME NEW w \in MeetingWorkers, EnqueueRemovalJob(w)
        PROVE  \E u \in Sessions : updates' = Send(updates, u)
    BY <2>1 DEF EnqueueRemovalJob, TypeOK, WorkersOK, Workers
  <2>2. ASSUME NEW r \in Requests, EnqueueUpdate(r) \/ EnqueueRemoval(r)
        PROVE  \E u \in Sessions : updates' = Send(updates, u)
    BY <2>2 DEF EnqueueUpdate, EnqueueRemoval, TypeOK, RequestsOK
  <2> QED BY <2>1, <2>2
       DEF Next, vars, Workers, MeetingWorkers, MeetingStep, CreateStep, UpdateStep, RequestStep,
         TakeCreate, CreateMeeting, CreateMeetingWithoutJoinUrl, CreateMeetingReplyLost, Creating,
         RecordMeetingCreated, ArmDispatch, CreateRead, RecoverJoinUrl, RecordGraphEventOnly,
         UpdateRead, CancelMeeting, MarkMeetingCancelled, UpdateMeeting, DisarmDispatch,
         TakeDispatch, RecordExternalSession, DispatchDies, GraphCallFails, AttemptDies,
         TeamsProvisions, DeletedInOutlook, Receive, RequestDies, ConfirmPlan, EnqueueCreate, RescheduleRow,
         CancelRead, CancelRow, DropJobs, ReopenPlan, DeleteRow, StartSession, CompleteSession,
         SetStatus
<1> QED BY <1>3, <1>4, <1>6, <1>7, <1>8

\* A job that has failed for good stays so.
LEMMA FailedStays ==
  ASSUME [Next]_vars
  PROVE  failed \subseteq failed'
<1>1. ASSUME NEW w \in Workers, Throw(w) PROVE failed \subseteq failed'
  BY <1>1 DEF Throw
<1>2. UNCHANGED failed \/ \E w \in Workers : Throw(w)
  BY DEF Next, vars, Workers, MeetingWorkers, MeetingStep, CreateStep, UpdateStep, RequestStep,
       TakeCreate, TakeUpdate, CreateMeeting, CreateMeetingWithoutJoinUrl, CreateMeetingReplyLost,
       RecordMeetingCreated, EnqueueRemovalJob, ArmDispatch, CreateRead, RecoverJoinUrl,
       RecordGraphEventOnly, UpdateRead, CancelMeeting, MarkMeetingCancelled, UpdateMeeting,
       DisarmDispatch, TakeDispatch, RecordExternalSession, DispatchDies, GraphCallFails, AttemptDies,
       TeamsProvisions, DeletedInOutlook, Receive, RequestDies, ConfirmPlan, EnqueueCreate,
       RescheduleRow, EnqueueUpdate, CancelRead, CancelRow, EnqueueRemoval, DropJobs, ReopenPlan,
       DeleteRow, StartSession, CompleteSession, SetStatus
<1> QED BY <1>1, <1>2

\* A session is cancelled by CancelRow, which looks at the row it has just written.
LEMMA NewlyCancelled ==
  ASSUME TypeOK, RemovesOnlyCancelled, [Next]_vars, NEW s \in Sessions,
         ~Cancelled(s), Cancelled(s)', session'[s].graphEventId # None
  PROVE  \E r \in Requests : request'[r].session = s /\ request'[r].pc = "enqueueRemoval"
<1>1. session[s] \in Row /\ session'[s] # session[s] /\ ~session[s].meetingCancelledAt
  BY DEF TypeOK, RemovesOnlyCancelled, Cancelled
<1>2. ASSUME NEW w \in Workers,
             \/ RecordMeetingCreated(w) \/ RecordGraphEventOnly(w)
             \/ MarkMeetingCancelled(w) \/ RecordExternalSession(w)
      PROVE  FALSE
  <2>1. CASE RecordMeetingCreated(w)
    BY <1>1, <2>1 DEF RecordMeetingCreated, Exists, Cancelled, TypeOK, Row
  <2>2. CASE RecordGraphEventOnly(w)
    BY <1>1, <2>2 DEF RecordGraphEventOnly, Cancelled, TypeOK, Row
  <2>3. CASE MarkMeetingCancelled(w)
    BY <1>1, <2>3 DEF MarkMeetingCancelled, Cancelled, TypeOK, Row
  <2>4. CASE RecordExternalSession(w)
    BY <1>1, <2>4 DEF RecordExternalSession, Cancelled, TypeOK, Row
  <2> QED BY <1>2, <2>1, <2>2, <2>3, <2>4
<1>3. ASSUME NEW r \in Requests, RescheduleRow(r) \/ DeleteRow(r) \/ StartSession(r) \/ CompleteSession(r)
      PROVE  FALSE
  BY <1>1, <1>3 DEF RescheduleRow, DeleteRow, StartSession, CompleteSession, SetStatus, NoRow,
                    Cancelled, TypeOK, Row
<1>4. ASSUME NEW r \in Requests, CancelRow(r)
      PROVE  request'[r].session = s /\ request'[r].pc = "enqueueRemoval"
  <2>1. request[r].session = s /\ Exists(s)
    BY <1>1, <1>4 DEF CancelRow, TypeOK
  <2>2. session'[s] = [session[s] EXCEPT !.status = "CANCELLED"]
    BY <1>4, <2>1 DEF CancelRow, TypeOK
  <2>3. OwesRemoval(session[s])
    BY <1>1, <2>2 DEF OwesRemoval, Row
  <2> QED BY <1>4, <2>1, <2>3 DEF CancelRow, Goto, TypeOK, RequestsOK
<1>5. \/ UNCHANGED session
      \/ \E w \in Workers :
           \/ RecordMeetingCreated(w) \/ RecordGraphEventOnly(w)
           \/ MarkMeetingCancelled(w) \/ RecordExternalSession(w)
      \/ \E r \in Requests :
           RescheduleRow(r) \/ DeleteRow(r) \/ StartSession(r) \/ CompleteSession(r) \/ CancelRow(r)
  BY SessionWriters DEF Workers, MeetingWorkers
<1> QED BY <1>1, <1>2, <1>3, <1>4, <1>5

\* An attempt that attaches an event to a cancelled row goes on to queue its removal.
LEMMA AttachedToCancelled ==
  ASSUME TypeOK, [Next]_vars, NEW s \in Sessions, Cancelled(s), Cancelled(s)',
         session'[s].graphEventId # session[s].graphEventId
  PROVE  \E w \in MeetingWorkers : worker'[w].session = s /\ worker'[w].pc = "requeue"
<1>1. session[s] \in Row /\ session'[s] # session[s]
  BY DEF TypeOK
<1>2. ASSUME NEW w \in MeetingWorkers, RecordMeetingCreated(w) \/ RecordGraphEventOnly(w)
      PROVE  worker'[w].session = s /\ worker'[w].pc = "requeue"
  <2>1. w \in Workers /\ worker[w] \in Attempt
    BY WorkersDisjoint DEF TypeOK, WorkersOK
  <2>2. worker[w].session = s
    BY <1>1, <1>2 DEF RecordMeetingCreated, RecordGraphEventOnly, TypeOK
  <2>3. Step(w, "requeue")
    BY <1>2, <2>2 DEF RecordMeetingCreated, RecordGraphEventOnly, Cancelled, Exists
  <2> QED BY <2>1, <2>2, <2>3 DEF Step, TypeOK, WorkersOK, Attempt
<1>3. ASSUME NEW w \in Workers, MarkMeetingCancelled(w) \/ RecordExternalSession(w)
      PROVE  FALSE
  <2>1. CASE MarkMeetingCancelled(w)
    BY <1>1, <2>1 DEF MarkMeetingCancelled, TypeOK, Row
  <2>2. CASE RecordExternalSession(w)
    BY <1>1, <2>2 DEF RecordExternalSession, TypeOK, Row
  <2> QED BY <1>3, <2>1, <2>2
<1>4. ASSUME NEW r \in Requests,
             \/ RescheduleRow(r) \/ CancelRow(r) \/ DeleteRow(r)
             \/ StartSession(r) \/ CompleteSession(r)
      PROVE  FALSE
  BY <1>1, <1>4 DEF RescheduleRow, CancelRow, DeleteRow, StartSession, CompleteSession, SetStatus,
                    NoRow, Cancelled, TypeOK, Row
<1>5. \/ UNCHANGED session
      \/ \E w \in MeetingWorkers : RecordMeetingCreated(w) \/ RecordGraphEventOnly(w)
      \/ \E w \in Workers : MarkMeetingCancelled(w) \/ RecordExternalSession(w)
      \/ \E r \in Requests :
           \/ RescheduleRow(r) \/ CancelRow(r) \/ DeleteRow(r)
           \/ StartSession(r) \/ CompleteSession(r)
  BY SessionWriters DEF Workers, MeetingWorkers
<1> QED BY <1>1, <1>2, <1>3, <1>4, <1>5

\* An attempt that is about to remove an event, or to queue its removal, does so,
\* or hands the job on to its retry.
LEMMA PendingAttemptStays ==
  ASSUME NoCrash, RemovalInv, [Next]_vars, NEW s \in Sessions, Cancelled(s),
         HoldsLiveEvent(s), HoldsLiveEvent(s)',
         session'[s].graphEventId = session[s].graphEventId,
         NEW w \in MeetingWorkers, worker[w].session = s,
         \/ worker[w].pc = "requeue"
         \/ w \in UpdateWorkers /\ worker[w].pc = "read"
         \/ worker[w].pc = "delete" /\ worker[w].event = session[s].graphEventId
  PROVE  RemovalPending(s)' \/ <<"meeting.update", s>> \in failed'
<1>1. /\ w \in Workers /\ worker \in [Workers -> Attempt] /\ worker[w].tries \in Tries
      /\ updates \in [Sessions -> [Tries -> Nat]]
      /\ session[s].graphEventId \in Events
  BY WorkersDisjoint DEF RemovalInv, TypeOK, WorkersOK, JobsOK, Attempt, Row, EventOrNone, HoldsLiveEvent
<1>2. worker[w].pc = "delete" => w \in UpdateWorkers
  BY DEF RemovalInv, RemovesOnlyCancelled
<1>3. CASE worker'[w] = worker[w]
  BY <1>3 DEF RemovalPending
<1>4. CASE MeetingStep(w)
  <2>1. EnqueueRemovalJob(w)
    BY <1>4 DEF MeetingStep, CreateMeeting, CreateMeetingWithoutJoinUrl, CreateMeetingReplyLost,
                Creating, RecordMeetingCreated, ArmDispatch
  <2>2. 0 \in Tries
    BY ConstantsAssumption DEF Tries
  <2>3. updates'[s][0] > 0
    BY <1>1, <2>1, <2>2 DEF EnqueueRemovalJob, Send
  <2> QED BY <2>2, <2>3 DEF RemovalPending, Waiting
<1>5. CASE GraphCallFails(w) \/ AttemptDies(w)
  <2>1. worker[w].pc = "delete" /\ Throw(w)
    BY <1>5 DEF GraphCallFails, AttemptDies, NoCrash
  <2>2. w \in UpdateWorkers /\ w \notin CreateWorkers /\ worker[w].job
    BY <1>2, <2>1, WorkersDisjoint DEF RemovalInv, UpdatesAreKept
  <2>3. CASE worker[w].tries < RetryLimit
    <3>1. worker[w].tries + 1 \in Tries
      BY <1>1, <2>3, ConstantsAssumption DEF Tries
    <3>2. updates' = [updates EXCEPT ![s][worker[w].tries + 1] = @ + 1]
      BY <2>1, <2>2, <2>3 DEF Throw
    <3>3. updates'[s][worker[w].tries + 1] > 0
      BY <1>1, <3>1, <3>2
    <3> QED BY <3>1, <3>3 DEF RemovalPending, Waiting
  <2>4. CASE ~(worker[w].tries < RetryLimit)
    BY <2>1, <2>2, <2>4 DEF Throw
  <2> QED BY <2>3, <2>4
<1>6. CASE w \in CreateWorkers /\ (TakeCreate(w) \/ CreateStep(w))
  BY <1>2, <1>6, WorkersDisjoint
     DEF TakeCreate, CreateStep, CreateRead, RecoverJoinUrl, RecordGraphEventOnly
<1>7. CASE w \in UpdateWorkers /\ (TakeUpdate(w) \/ UpdateStep(w))
  <2>1. UpdateRead(w) \/ CancelMeeting(w)
    BY <1>7 DEF TakeUpdate, UpdateStep, MarkMeetingCancelled, UpdateMeeting, DisarmDispatch
  <2>2. CASE CancelMeeting(w)
    <3>1. event[session[s].graphEventId].state = "live" /\ worker[w].event = session[s].graphEventId
      BY <2>2 DEF CancelMeeting, HoldsLiveEvent
    <3>2. event' = [event EXCEPT ![session[s].graphEventId].state = "gone"]
      BY <2>2, <3>1 DEF CancelMeeting
    <3>3. event'[session[s].graphEventId].state = "gone"
      BY <1>1, <3>2 DEF RemovalInv, TypeOK, GraphEvent
    <3> QED BY <3>3 DEF HoldsLiveEvent
  <2>3. CASE UpdateRead(w)
    <3>1. session[s].graphEventId # None /\ Exists(s)
      BY DEF HoldsLiveEvent, Cancelled, Exists
    <3>2. worker' = [worker EXCEPT ![w].pc = "delete", ![w].event = session[s].graphEventId,
                                   ![w].start = session[s].start]
      BY <2>3, <3>1 DEF UpdateRead
    <3>3. /\ worker'[w].pc = "delete" /\ worker'[w].event = session[s].graphEventId
          /\ worker'[w].session = s
      BY <1>1, <3>2 DEF Attempt
    <3> QED BY <3>3 DEF RemovalPending
  <2> QED BY <2>1, <2>2, <2>3
<1>8. CASE w \in CreateWorkers /\ worker'[w] = [worker[w] EXCEPT !.job = FALSE]
  <2>1. /\ worker'[w].pc = worker[w].pc /\ worker'[w].event = worker[w].event
        /\ worker'[w].session = worker[w].session
    BY <1>1, <1>8 DEF Attempt
  <2> QED BY <2>1 DEF RemovalPending
<1>9. TypeOK
  BY DEF RemovalInv
<1> QED BY <1>3, <1>4, <1>5, <1>6, <1>7, <1>8, <1>9, OthersKeepTheirAttempt

\* A request that is about to queue the removal stays where it is, or queues it.
LEMMA PendingRequestStays ==
  ASSUME NoCrash, TypeOK, [Next]_vars, NEW s \in Sessions,
         NEW r \in Requests, request[r].session = s, request[r].pc = "enqueueRemoval"
  PROVE  RemovalPending(s)'
<1>1. request \in [Requests -> [pc : RequestPc, session : SessionOrNone, reopens : BOOLEAN]]
  BY DEF TypeOK, RequestsOK
<1>2. CASE request'[r] = request[r]
  BY <1>2 DEF RemovalPending
<1>3. CASE EnqueueRemoval(r)
  <2>1. updates'[s][0] > 0 /\ 0 \in Tries
    BY <1>3, ConstantsAssumption DEF EnqueueRemoval, Send, Tries, TypeOK, JobsOK
  <2> QED BY <2>1 DEF RemovalPending, Waiting
<1>4. request'[r] = request[r] \/ EnqueueRemoval(r)
  <2>1. CASE UNCHANGED request
    BY <2>1
  <2>2. ASSUME NEW q \in Requests, Receive(q) PROVE request'[r] = request[r]
    BY <1>1, <2>2 DEF Receive
  <2>3. ASSUME NEW q \in Requests, RequestDies(q) PROVE FALSE
    BY <2>3 DEF RequestDies, NoCrash
  <2>4. ASSUME NEW q \in Requests, RequestStep(q)
        PROVE  request'[r] = request[r] \/ EnqueueRemoval(r)
    <3>1. \E pc \in RequestPc : Goto(q, pc)
      BY <2>4 DEF RequestStep, ConfirmPlan, EnqueueCreate, RescheduleRow, EnqueueUpdate,
           CancelRead, CancelRow, EnqueueRemoval, DropJobs, ReopenPlan, DeleteRow, StartSession,
           CompleteSession, SetStatus, RequestPc
    <3>2. q # r => request'[r] = request[r]
      BY <1>1, <3>1 DEF Goto
    <3>3. RequestStep(r) => EnqueueRemoval(r)
      BY DEF RequestStep, ConfirmPlan, EnqueueCreate, RescheduleRow, EnqueueUpdate, CancelRead,
             CancelRow, DropJobs, ReopenPlan, DeleteRow, StartSession, CompleteSession, SetStatus
    <3> QED BY <2>4, <3>2, <3>3
  <2>5. UNCHANGED request \/ \E q \in Requests : Receive(q) \/ RequestStep(q) \/ RequestDies(q)
    BY RequestMovers
  <2> QED BY <2>1, <2>2, <2>3, <2>4, <2>5
<1> QED BY <1>2, <1>3, <1>4

\* A cancelled session's event is gone, or a job that will remove it is pending or has failed.
LEMMA RemovalStep ==
  ASSUME NoCrash, NoAgent, RemovalInv, TypeOK', [Next]_vars
  PROVE  RemovalOwed'
<1> SUFFICES ASSUME NEW s \in Sessions, Cancelled(s)', HoldsLiveEvent(s)'
             PROVE  RemovalPending(s)' \/ <<"meeting.update", s>> \in failed'
  BY DEF RemovalOwed
<1>1. TypeOK /\ HeldIsCreated /\ RemovesOnlyCancelled /\ RemovalOwed
  BY DEF RemovalInv
<1>2. session'[s].graphEventId # None
  BY DEF HoldsLiveEvent
<1>3. CASE ~Cancelled(s)
  BY <1>1, <1>2, <1>3, NewlyCancelled DEF RemovalPending
<1>4. CASE Cancelled(s) /\ session'[s].graphEventId # session[s].graphEventId
  BY <1>1, <1>4, AttachedToCancelled DEF RemovalPending
<1>5. CASE Cancelled(s) /\ session'[s].graphEventId = session[s].graphEventId
  <2>1. HoldsLiveEvent(s)
    <3>1. session[s].graphEventId \in Events /\ event[session[s].graphEventId].state # "unused"
      BY <1>1, <1>2, <1>5 DEF HeldIsCreated, TypeOK, Row, EventOrNone
    <3>2. event'[session[s].graphEventId].state \in {event[session[s].graphEventId].state, "gone"}
      BY <1>1, <3>1, EventsStayCreated
    <3> QED BY <1>2, <1>5, <3>2 DEF HoldsLiveEvent
  <2>2. CASE <<"meeting.update", s>> \in failed
    BY <2>2, FailedStays
  <2>3. CASE Waiting(updates, s)
    BY <1>1, <2>3, UpdatesStep DEF RemovalPending, MeetingWorkers
  <2>4. ASSUME NEW r \in Requests, request[r].session = s, request[r].pc = "enqueueRemoval"
        PROVE  RemovalPending(s)'
    BY <1>1, <2>4, PendingRequestStays
  <2>5. ASSUME NEW w \in MeetingWorkers, worker[w].session = s,
               \/ worker[w].pc = "requeue"
               \/ w \in UpdateWorkers /\ worker[w].pc = "read"
               \/ worker[w].pc = "delete" /\ worker[w].event = session[s].graphEventId
        PROVE  RemovalPending(s)' \/ <<"meeting.update", s>> \in failed'
    BY <1>5, <2>1, <2>5, PendingAttemptStays
  <2> QED BY <1>1, <1>5, <2>1, <2>2, <2>3, <2>4, <2>5 DEF RemovalOwed, RemovalPending
<1> QED BY <1>3, <1>4, <1>5

\* While no attempt and no request dies half-way and the agent API is not used, the
\* Teams event of a cancelled session is always on its way out, however many
\* requests, workers, events and retries there are and however Graph fails.
THEOREM RemovalIsOwed ==
  ASSUME NoCrash, NoAgent
  PROVE  Spec => []RemovalOwed
<1>1. Init => RemovalInv
  <2> SUFFICES ASSUME Init PROVE RemovalInv
    OBVIOUS
  <2>1. TypeOK
    BY InitType
  <2>2. HeldIsCreated
    <3>1. ASSUME NEW s \in Sessions, session[s].graphEventId # None
          PROVE  event[session[s].graphEventId].state # "unused"
      <4>1. Booked[s] \in Events /\ session[s].graphEventId = Booked[s]
        BY <3>1, ConstantsAssumption DEF Init
      <4> QED BY <4>1 DEF Init
    <3>2. \A w \in MeetingWorkers : worker[w].event = None
      BY WorkersDisjoint DEF Init, Idle
    <3> QED BY <3>1, <3>2 DEF HeldIsCreated
  <2>3. UpdatesAreKept /\ RemovesOnlyCancelled
    BY WorkersDisjoint DEF Init, Idle, UpdatesAreKept, RemovesOnlyCancelled, MeetingWorkers, Workers
  <2>4. RemovalOwed
    BY DEF Init, RemovalOwed, Cancelled
  <2> QED BY <2>1, <2>2, <2>3, <2>4 DEF RemovalInv
<1>2. RemovalInv /\ [Next]_vars => RemovalInv'
  <2> SUFFICES ASSUME RemovalInv, [Next]_vars PROVE RemovalInv'
    OBVIOUS
  <2>1. TypeOK /\ HeldIsCreated /\ UpdatesAreKept /\ RemovesOnlyCancelled
    BY DEF RemovalInv
  <2>2. TypeOK'
    BY <2>1, NextType
  <2> QED BY <2>1, <2>2, HeldStep, KeptStep, RemovesStep, RemovalStep DEF RemovalInv
<1>3. RemovalInv => RemovalOwed
  BY DEF RemovalInv
<1> QED BY <1>1, <1>2, <1>3, PTL DEF Spec

-----------------------------------------------------------------------------
(* The AI trainer comes to every session that is invited.                  *)

\* No attempt dies half-way, and the AI trainer takes what it is sent.
TrainerTakesIt == Faults \cap {"crash", "agentError"} = {}

\* A trainer is on its way to s, or an attempt is about to send for one.
Attended(s) ==
  \/ dispatch[s] > 0
  \/ session[s].externalSession
  \/ \E w \in DispatchWorkers : worker[w].session = s
  \/ \E w \in MeetingWorkers : worker[w].session = s /\ worker[w].pc \in {"disarm", "arm"}

\* What makes MeetingIsManned inductive: an invited row has the URL to join, a
\* free slot has no session, and only a cancelled session loses its dispatch.
AttendedOK ==
  /\ \A s \in Sessions : session[s].status = "INVITED" => session[s].joinUrl /\ Attended(s)
  /\ \A w \in DispatchWorkers : worker[w].pc = "idle" => worker[w].session = None
  /\ \A r \in Requests : request[r].pc \in {"enqueueRemoval", "dropJobs"} =>
       session[request[r].session].status \in {"CANCELLED", "DELETED"}

MannedInv == TypeOK /\ RemovesOnlyCancelled /\ AttendedOK

\* A dispatch leaves the queue when a slot takes it, when an update replaces it,
\* or when a cancel drops it.
LEMMA DispatchLeaves ==
  ASSUME TypeOK, [Next]_vars, NEW s \in Sessions, dispatch[s] > 0
  PROVE  \/ dispatch'[s] > 0
         \/ \E w \in DispatchWorkers : TakeDispatch(w)
         \/ \E w \in UpdateWorkers : DisarmDispatch(w) /\ worker[w].session = s
         \/ \E r \in Requests : DropJobs(r) /\ request[r].session = s
<1>1. dispatch \in [Sessions -> Nat]
  BY DEF TypeOK, JobsOK
<1>2. ASSUME NEW w \in MeetingWorkers, ArmDispatch(w) PROVE dispatch'[s] > 0
  BY <1>1, <1>2 DEF ArmDispatch, SendDispatch
<1>3. ASSUME NEW w \in UpdateWorkers, DisarmDispatch(w), worker[w].session # s
      PROVE  dispatch'[s] > 0
  BY <1>1, <1>3 DEF DisarmDispatch
<1>4. ASSUME NEW r \in Requests, DropJobs(r), request[r].session # s PROVE dispatch'[s] > 0
  BY <1>1, <1>4 DEF DropJobs
<1>5. ASSUME NEW w \in DispatchWorkers, DispatchDies(w) PROVE dispatch'[s] > 0
  <2>1. worker[w].session \in Sessions
    BY <1>5, WorkersDisjoint DEF DispatchDies, TypeOK, WorkersOK
  <2> QED BY <1>1, <1>5, <2>1 DEF DispatchDies
<1>6. \/ UNCHANGED dispatch
      \/ \E w \in MeetingWorkers : ArmDispatch(w)
      \/ \E w \in UpdateWorkers : DisarmDispatch(w)
      \/ \E w \in DispatchWorkers : TakeDispatch(w) \/ DispatchDies(w)
      \/ \E r \in Requests : DropJobs(r)
  BY DEF Next, vars, MeetingStep, CreateStep, UpdateStep, RequestStep, TakeCreate, TakeUpdate,
         CreateMeeting, CreateMeetingWithoutJoinUrl, CreateMeetingReplyLost, RecordMeetingCreated,
         EnqueueRemovalJob, CreateRead, RecoverJoinUrl, RecordGraphEventOnly, UpdateRead,
         CancelMeeting, MarkMeetingCancelled, UpdateMeeting, RecordExternalSession,
         GraphCallFails, AttemptDies, TeamsProvisions, DeletedInOutlook, Receive, RequestDies,
         ConfirmPlan, EnqueueCreate, RescheduleRow, EnqueueUpdate, CancelRead, CancelRow,
         EnqueueRemoval, ReopenPlan, DeleteRow, StartSession, CompleteSession, SetStatus
<1> QED BY <1>2, <1>3, <1>4, <1>5, <1>6

\* What an invited row was invited with, it keeps; it is invited by the attempt
\* that sends for the trainer next.
LEMMA InvitedRow ==
  ASSUME TypeOK, RemovesOnlyCancelled, [Next]_vars, NEW s \in Sessions,
         session'[s].status = "INVITED"
  PROVE  \/ /\ session[s].status = "INVITED"
            /\ session[s].joinUrl => session'[s].joinUrl
            /\ session[s].externalSession => session'[s].externalSession
         \/ /\ session'[s].joinUrl
            /\ \E w \in MeetingWorkers :
                 worker'[w].session = s /\ worker'[w].pc \in {"disarm", "arm"}
<1>1. session[s] \in Row /\ worker \in [Workers -> Attempt]
  BY DEF TypeOK, WorkersOK
<1> DEFINE Same == /\ session[s].status = "INVITED"
                   /\ session[s].joinUrl => session'[s].joinUrl
                   /\ session[s].externalSession => session'[s].externalSession
<1>2. CASE UNCHANGED session
  BY <1>2
<1>3. ASSUME NEW w \in MeetingWorkers, RecordMeetingCreated(w)
      PROVE  \/ Same
             \/ /\ session'[s].joinUrl /\ worker'[w].session = s
                /\ worker'[w].pc \in {"disarm", "arm"}
  <2>1. w \in Workers
    BY WorkersDisjoint
  <2>2. CASE worker[w].session # s
    BY <1>1, <1>3, <2>2 DEF RecordMeetingCreated, TypeOK
  <2>3. CASE worker[w].session = s
    <3>1. CASE Exists(s) /\ ~Cancelled(s)
      <4>1. session'[s].joinUrl /\ Step(w, IF w \in CreateWorkers THEN "arm" ELSE "disarm")
        BY <1>1, <1>3, <2>3, <3>1 DEF RecordMeetingCreated, TypeOK, Row, Exists, Cancelled
      <4> QED BY <1>1, <2>1, <2>3, <4>1 DEF Step
    <3>2. CASE ~(Exists(s) /\ ~Cancelled(s))
      BY <1>1, <1>3, <2>3, <3>2 DEF RecordMeetingCreated, TypeOK, Row, Exists, Cancelled
    <3> QED BY <3>1, <3>2
  <2> QED BY <2>2, <2>3
<1>4. ASSUME NEW w \in Workers,
             RecordGraphEventOnly(w) \/ MarkMeetingCancelled(w) \/ RecordExternalSession(w)
      PROVE  Same
  <2>1. CASE RecordGraphEventOnly(w)
    BY <1>1, <2>1 DEF RecordGraphEventOnly, TypeOK, Row
  <2>2. CASE MarkMeetingCancelled(w)
    BY <1>1, <2>2 DEF MarkMeetingCancelled, TypeOK, Row
  <2>3. CASE RecordExternalSession(w)
    BY <1>1, <2>3 DEF RecordExternalSession, TypeOK, Row
  <2> QED BY <1>4, <2>1, <2>2, <2>3
<1>5. ASSUME NEW r \in Requests, RescheduleRow(r) \/ CancelRow(r) \/ DeleteRow(r)
      PROVE  Same
  BY <1>1, <1>5 DEF RescheduleRow, CancelRow, DeleteRow, NoRow, TypeOK, Row
<1>6. ASSUME NEW r \in Requests PROVE ~StartSession(r) /\ ~CompleteSession(r)
  BY DEF RemovesOnlyCancelled, StartSession, CompleteSession, SetStatus
<1>7. \/ UNCHANGED session
      \/ \E w \in MeetingWorkers : RecordMeetingCreated(w)
      \/ \E w \in Workers :
           RecordGraphEventOnly(w) \/ MarkMeetingCancelled(w) \/ RecordExternalSession(w)
      \/ \E r \in Requests : RescheduleRow(r) \/ CancelRow(r) \/ DeleteRow(r)
  BY <1>6, SessionWriters DEF Workers, MeetingWorkers
<1> QED BY <1>2, <1>3, <1>4, <1>5, <1>7

\* Only a cancelled session's jobs are dropped.
LEMMA DropsStep ==
  ASSUME TypeOK, RemovesOnlyCancelled, AttendedOK, [Next]_vars, NEW r \in Requests,
         request'[r].pc \in {"enqueueRemoval", "dropJobs"}
  PROVE  session'[request'[r].session].status \in {"CANCELLED", "DELETED"}
<1>1. request \in [Requests -> [pc : RequestPc, session : SessionOrNone, reopens : BOOLEAN]]
  BY DEF TypeOK, RequestsOK
<1>2. CASE request'[r] = request[r]
  <2>1. request[r].session \in Sessions
    BY <1>2 DEF TypeOK, RequestsOK
  <2> QED BY <1>2, <2>1, CancelledStays DEF AttendedOK
<1>3. CASE CancelRead(r)
  <2>1. request[r].session \in Sessions /\ UNCHANGED session /\ request'[r].session = request[r].session
    BY <1>1, <1>3 DEF CancelRead, Goto, TypeOK, RequestsOK
  <2>2. Cancelled(request[r].session)
    BY <1>1, <1>3 DEF CancelRead, Goto
  <2> QED BY <2>1, <2>2 DEF Cancelled
<1>4. CASE CancelRow(r)
  <2>1. request[r].session \in Sessions /\ request'[r].session = request[r].session
    BY <1>1, <1>4 DEF CancelRow, Goto, TypeOK, RequestsOK
  <2> QED BY <1>1, <1>4, <2>1 DEF CancelRow, Goto, TypeOK, Row
<1>5. CASE EnqueueRemoval(r)
  <2>1. /\ request[r].session \in Sessions /\ request'[r].session = request[r].session
        /\ request[r].pc = "enqueueRemoval"
    BY <1>1, <1>5 DEF EnqueueRemoval, Goto, TypeOK, RequestsOK
  <2> QED BY <2>1, CancelledStays DEF AttendedOK
<1>6. ASSUME NEW q \in Requests, Receive(q) \/ RequestStep(q) \/ RequestDies(q), q # r
      PROVE  request'[r] = request[r]
  BY <1>1, <1>6
     DEF Receive, RequestStep, RequestDies, Goto, ConfirmPlan, EnqueueCreate, RescheduleRow,
         EnqueueUpdate, CancelRead, CancelRow, EnqueueRemoval, DropJobs, ReopenPlan, DeleteRow,
         StartSession, CompleteSession, SetStatus
<1>7. ASSUME \/ Receive(r) \/ RequestDies(r) \/ ConfirmPlan(r) \/ EnqueueCreate(r)
             \/ RescheduleRow(r) \/ EnqueueUpdate(r) \/ DropJobs(r) \/ ReopenPlan(r)
             \/ DeleteRow(r) \/ StartSession(r) \/ CompleteSession(r)
      PROVE  FALSE
  <2>1. CASE Receive(r)
    <3>1. PICK s \in Sessions :
            request' = [request EXCEPT ![r] =
                         [pc |-> FirstStep(OperationOf[r], s), session |-> s,
                          reopens |-> OperationOf[r] = "suggest" /\ plan[s] # "DRAFT"]]
      BY <2>1 DEF Receive
    <3>2. OperationOf[r] \in Operations
      BY ConstantsAssumption
    <3>3. FirstStep(OperationOf[r], s) \notin {"enqueueRemoval", "dropJobs"}
      BY <3>2 DEF FirstStep, Operations
    <3> QED BY <1>1, <3>1, <3>3
  <2>2. CASE DropJobs(r)
    BY <1>1, <2>2 DEF DropJobs, Goto
  <2>3. CASE RescheduleRow(r)
    BY <1>1, <2>3 DEF RescheduleRow, Goto
  <2> QED BY <1>1, <1>7, <2>1, <2>2, <2>3
     DEF RequestDies, Goto, ConfirmPlan, EnqueueCreate, EnqueueUpdate, ReopenPlan, DeleteRow,
         StartSession, CompleteSession, SetStatus
<1> QED BY <1>2, <1>3, <1>4, <1>5, <1>6, <1>7, RequestMovers DEF RequestStep

\* Only its own step changes a slot of agent.dispatch.
LEMMA DispatcherMovers ==
  ASSUME TypeOK, [Next]_vars, NEW w \in DispatchWorkers
  PROVE  worker'[w] = worker[w] \/ TakeDispatch(w) \/ RecordExternalSession(w) \/ DispatchDies(w)
<1>1. /\ w \in Workers /\ w \notin MeetingWorkers /\ w \notin CreateWorkers
      /\ worker \in [Workers -> Attempt]
  BY WorkersDisjoint DEF TypeOK, WorkersOK, MeetingWorkers
<1>2. ASSUME NEW v \in Workers, v # w,
             \/ MeetingStep(v) \/ GraphCallFails(v) \/ AttemptDies(v)
             \/ TakeCreate(v) \/ CreateStep(v) \/ TakeUpdate(v) \/ UpdateStep(v)
             \/ TakeDispatch(v) \/ RecordExternalSession(v) \/ DispatchDies(v)
      PROVE  worker'[w] = worker[w]
  BY <1>1, <1>2
     DEF MeetingStep, CreateMeeting, CreateMeetingWithoutJoinUrl, CreateMeetingReplyLost,
         RecordMeetingCreated, EnqueueRemovalJob, ArmDispatch, GraphCallFails, AttemptDies,
         TakeCreate, CreateStep, CreateRead, RecoverJoinUrl, RecordGraphEventOnly, TakeUpdate,
         UpdateStep, UpdateRead, CancelMeeting, MarkMeetingCancelled, UpdateMeeting,
         DisarmDispatch, TakeDispatch, RecordExternalSession, DispatchDies, Throw, Finish, Step,
         Take
<1>3. ASSUME NEW r \in Requests, DropJobs(r) PROVE worker'[w] = worker[w]
  BY <1>1, <1>3 DEF DropJobs
<1> QED BY <1>1, <1>2, <1>3, AttemptMovers DEF Workers, MeetingWorkers

\* A slot of agent.dispatch that has no job has no session.
LEMMA FreeDispatcher ==
  ASSUME TypeOK, AttendedOK, [Next]_vars, NEW w \in DispatchWorkers, worker'[w].pc = "idle"
  PROVE  worker'[w].session = None
<1>1. w \in Workers /\ w \notin MeetingWorkers /\ worker \in [Workers -> Attempt]
  BY WorkersDisjoint DEF TypeOK, WorkersOK
<1>2. CASE worker'[w] = worker[w]
  BY <1>2 DEF AttendedOK
<1>3. CASE TakeDispatch(w) \/ RecordExternalSession(w) \/ DispatchDies(w)
  <2>1. CASE RecordExternalSession(w) \/ DispatchDies(w)
    BY <1>1, <2>1 DEF RecordExternalSession, DispatchDies, Finish, Idle
  <2>2. CASE TakeDispatch(w) /\ UNCHANGED worker
    BY <2>2 DEF AttendedOK
  <2>3. ASSUME NEW s \in Sessions,
               worker' = [worker EXCEPT ![w] = [Idle EXCEPT !.pc = "join", !.session = s]]
        PROVE  FALSE
    <3>1. worker'[w] = [Idle EXCEPT !.pc = "join", !.session = s]
      BY <1>1, <2>3
    <3> QED BY <3>1 DEF Idle
  <2> QED BY <1>3, <2>1, <2>2, <2>3 DEF TakeDispatch
<1> QED BY <1>1, <1>2, <1>3, DispatcherMovers

\* A trainer that is on its way stays on its way, or arrives.
LEMMA AttendedStays ==
  ASSUME TrainerTakesIt, TypeOK, RemovesOnlyCancelled, AttendedOK, [Next]_vars,
         NEW s \in Sessions, session[s].status = "INVITED", session'[s].status = "INVITED",
         session[s].externalSession => session'[s].externalSession
  PROVE  Attended(s)'
<1>1. /\ session[s].joinUrl /\ session[s] \in Row
      /\ dispatch \in [Sessions -> Nat] /\ worker \in [Workers -> Attempt]
  BY DEF AttendedOK, TypeOK, JobsOK, WorkersOK
<1>2. CASE dispatch[s] > 0
  <2>1. ASSUME NEW w \in DispatchWorkers, TakeDispatch(w) PROVE Attended(s)'
    <3>1. PICK t \in Sessions :
            /\ dispatch[t] > 0
            /\ dispatch' = [dispatch EXCEPT ![t] = @ - 1]
            /\ \/ /\ session[t].status \in Live /\ session[t].joinUrl
                  /\ worker' = [worker EXCEPT ![w] = [Idle EXCEPT !.pc = "join", !.session = t]]
               \/ /\ ~(session[t].status \in Live /\ session[t].joinUrl)
                  /\ UNCHANGED worker
      BY <2>1 DEF TakeDispatch
    <3>2. CASE t # s
      BY <1>1, <1>2, <3>1, <3>2 DEF Attended
    <3>3. CASE t = s
      <4>1. worker'[w].session = s
        <5>1. session[t].status \in Live /\ session[t].joinUrl
          BY <1>1, <3>3 DEF Live
        <5>2. worker' = [worker EXCEPT ![w] = [Idle EXCEPT !.pc = "join", !.session = t]]
          BY <3>1, <5>1
        <5>3. worker'[w] = [Idle EXCEPT !.pc = "join", !.session = t]
          BY <1>1, <5>2, WorkersDisjoint
        <5> QED BY <3>3, <5>3 DEF Idle
      <4> QED BY <4>1 DEF Attended
    <3> QED BY <3>2, <3>3
  <2>2. ASSUME NEW w \in UpdateWorkers, DisarmDispatch(w), worker[w].session = s
        PROVE  Attended(s)'
    <3>1. w \in MeetingWorkers /\ w \in Workers
      BY WorkersDisjoint DEF MeetingWorkers
    <3>2. worker'[w].session = s /\ worker'[w].pc = "arm"
      BY <1>1, <2>2, <3>1 DEF DisarmDispatch, Step
    <3> QED BY <3>1, <3>2 DEF Attended
  <2>3. ASSUME NEW r \in Requests, DropJobs(r), request[r].session = s PROVE FALSE
    BY <2>3 DEF DropJobs, AttendedOK
  <2> QED BY <1>2, <2>1, <2>2, <2>3, DispatchLeaves DEF Attended
<1>3. CASE session[s].externalSession
  BY <1>3 DEF Attended
<1>4. ASSUME NEW w \in DispatchWorkers, worker[w].session = s PROVE Attended(s)'
  <2>1. worker[w].pc # "idle" /\ w \in Workers
    BY <1>4, ConstantsAssumption, WorkersDisjoint DEF AttendedOK
  <2>2. CASE RecordExternalSession(w)
    <3>1. session' = [session EXCEPT ![s].externalSession = TRUE]
      BY <1>4, <2>2 DEF RecordExternalSession, TrainerTakesIt, Exists
    <3>2. session'[s].externalSession
      BY <1>1, <3>1 DEF TypeOK
    <3> QED BY <3>2 DEF Attended
  <2>3. ~TakeDispatch(w) /\ ~DispatchDies(w)
    BY <2>1 DEF TakeDispatch, DispatchDies, TrainerTakesIt
  <2> QED BY <1>4, <2>2, <2>3, DispatcherMovers DEF Attended
<1>5. ASSUME NEW w \in MeetingWorkers, worker[w].session = s, worker[w].pc \in {"disarm", "arm"}
      PROVE  Attended(s)'
  <2>1. w \in Workers
    BY WorkersDisjoint
  <2>2. CASE worker'[w] = worker[w] \/ worker'[w] = [worker[w] EXCEPT !.job = FALSE]
    <3>1. worker'[w].session = s /\ worker'[w].pc \in {"disarm", "arm"}
      BY <1>1, <1>5, <2>1, <2>2 DEF Attempt
    <3> QED BY <3>1 DEF Attended
  <2>3. CASE ArmDispatch(w)
    BY <1>1, <1>5, <2>3 DEF ArmDispatch, SendDispatch, Attended
  <2>4. CASE DisarmDispatch(w)
    <3>1. worker'[w].session = s /\ worker'[w].pc = "arm"
      BY <1>1, <1>5, <2>1, <2>4 DEF DisarmDispatch, Step
    <3> QED BY <3>1 DEF Attended
  <2>5. ~AttemptDies(w)
    BY DEF AttemptDies, TrainerTakesIt
  <2> QED BY <1>5, <2>2, <2>3, <2>4, <2>5, OthersKeepTheirAttempt
     DEF MeetingStep, CreateMeeting, CreateMeetingWithoutJoinUrl, CreateMeetingReplyLost, Creating,
         RecordMeetingCreated, EnqueueRemovalJob, GraphCallFails, TakeCreate, CreateStep,
         CreateRead, RecoverJoinUrl, RecordGraphEventOnly, TakeUpdate, UpdateStep, UpdateRead,
         CancelMeeting, MarkMeetingCancelled, UpdateMeeting
<1> QED BY <1>2, <1>3, <1>4, <1>5 DEF AttendedOK, Attended

\* Every step keeps it.
LEMMA AttendedStep ==
  ASSUME TrainerTakesIt, TypeOK, RemovesOnlyCancelled, AttendedOK, [Next]_vars
  PROVE  AttendedOK'
<1>1. ASSUME NEW s \in Sessions, session'[s].status = "INVITED"
      PROVE  session'[s].joinUrl /\ Attended(s)'
  <2>1. CASE /\ session[s].status = "INVITED"
             /\ session[s].joinUrl => session'[s].joinUrl
             /\ session[s].externalSession => session'[s].externalSession
    BY <1>1, <2>1, AttendedStays DEF AttendedOK
  <2>2. CASE /\ session'[s].joinUrl
             /\ \E w \in MeetingWorkers :
                  worker'[w].session = s /\ worker'[w].pc \in {"disarm", "arm"}
    BY <2>2 DEF Attended
  <2> QED BY <1>1, <2>1, <2>2, InvitedRow
<1>2. \A w \in DispatchWorkers : worker'[w].pc = "idle" => worker'[w].session = None
  BY FreeDispatcher
<1>3. \A r \in Requests : request'[r].pc \in {"enqueueRemoval", "dropJobs"} =>
        session'[request'[r].session].status \in {"CANCELLED", "DELETED"}
  BY DropsStep
<1> QED BY <1>1, <1>2, <1>3 DEF AttendedOK

\* A session whose invite is out and whose jobs have run has the AI trainer coming,
\* however many requests, workers and retries there are and however Graph fails,
\* while no attempt dies half-way, the trainer takes its sessions and the agent API
\* does not write the status.
THEOREM InvitedIsManned ==
  ASSUME TrainerTakesIt, NoAgent
  PROVE  Spec => []MeetingIsManned
<1>1. Init => MannedInv
  <2> SUFFICES ASSUME Init PROVE MannedInv
    OBVIOUS
  <2>1. TypeOK
    BY InitType
  <2>2. RemovesOnlyCancelled
    BY WorkersDisjoint DEF Init, Idle, RemovesOnlyCancelled, MeetingWorkers, Workers
  <2>3. ASSUME NEW s \in Sessions, session[s].status = "INVITED"
        PROVE  session[s].joinUrl /\ dispatch[s] > 0
    <3>1. Booked[s] # None /\ session[s].joinUrl
      BY <2>3 DEF Init
    <3> QED BY <3>1 DEF Init
  <2>4. \A w \in DispatchWorkers : worker[w].session = None
    BY WorkersDisjoint DEF Init, Idle
  <2>5. \A r \in Requests : request[r].pc = "new"
    BY DEF Init
  <2> QED BY <2>1, <2>2, <2>3, <2>4, <2>5 DEF MannedInv, AttendedOK, Attended
<1>2. MannedInv /\ [Next]_vars => MannedInv'
  <2> SUFFICES ASSUME MannedInv, [Next]_vars PROVE MannedInv'
    OBVIOUS
  <2>1. TypeOK /\ RemovesOnlyCancelled /\ AttendedOK
    BY DEF MannedInv
  <2>2. TypeOK'
    BY <2>1, NextType
  <2> QED BY <2>1, <2>2, RemovesStep, AttendedStep DEF MannedInv
<1>3. MannedInv => MeetingIsManned
  BY DEF MannedInv, AttendedOK, Attended, MeetingIsManned, Settled
<1> QED BY <1>1, <1>2, <1>3, PTL DEF Spec

============================================================================
