-------------------------- MODULE MeetingLifecycle --------------------------
(***************************************************************************)
(* A training session's row in Postgres, the Teams calendar events that    *)
(* Microsoft Graph holds for it, and the pg-boss jobs that keep the two in *)
(* step.  API requests (SessionService, TrainingPlanService, the agent     *)
(* API) write the row and enqueue jobs; the workers of meeting.create,     *)
(* meeting.update and agent.dispatch read the row back and act on Graph.   *)
(* One action per await point: between two actions of one handler any     *)
(* other handler may run, and any attempt may die.                         *)
(*                                                                         *)
(* Abstracted: a time is the number of reschedules that led to it; a plan  *)
(* is seen through one of its sessions at a time, so plan[s] is the status *)
(* of the plan of s and the loops over a plan's sessions belong to the     *)
(* plan module; mails, audit rows, notifications and the two mail-only     *)
(* jobs (session.reminder, session.confirmationEmail) are left out.        *)
(***************************************************************************)
EXTENDS Naturals, FiniteSets

CONSTANTS
  Sessions,         \* session rows
  Events,           \* ids Graph can hand out: the bound on events ever created
  None,             \* no session, no event
  CreateWorkers,    \* slots working meeting.create (localConcurrency 1: one a process)
  UpdateWorkers,    \* slots working meeting.update
  DispatchWorkers,  \* slots working agent.dispatch
  Requests,         \* API calls; each is made at most once, on any session
  OperationOf,      \* what each request does
  Booked,           \* the event a session starts with, None if it is not yet invited
  RetryLimit,       \* pg-boss retryLimit of the two meeting queues
  KeyedDedup,       \* does pg-boss drop a send under a key that is already waiting?
  Faults            \* what may go wrong in this run

Operations == {"confirm", "reschedule", "silentReschedule", "cancel",
               "remove", "suggest", "start", "complete"}

FaultKinds ==
  {"graphError",   \* a Graph call fails without effect
   "lostReply",    \* a Graph call takes effect and its reply is lost
   "noJoinUrl",    \* an event is created before its Teams meeting is provisioned
   "outlook",      \* someone deletes the event in Outlook
   "noOrganizer",  \* the plan's creator has no Microsoft session
   "agentError",   \* the AI trainer refuses the start, or has no slide deck
   "crash",        \* a worker's attempt dies at any await
   "apiCrash"}     \* a request dies at any await

ASSUME ConstantsAssumption ==
  /\ None \notin Sessions /\ None \notin Events
  /\ CreateWorkers \cap UpdateWorkers = {}
  /\ DispatchWorkers \cap (CreateWorkers \cup UpdateWorkers) = {}
  /\ OperationOf \in [Requests -> Operations]
  /\ Booked \in [Sessions -> Events \cup {None}]
  /\ \A s, t \in Sessions : Booked[s] = Booked[t] => s = t \/ Booked[s] = None
  /\ RetryLimit \in Nat
  /\ KeyedDedup \in BOOLEAN
  /\ Faults \subseteq FaultKinds

VARIABLES
  plan,      \* plan[s]: is the plan of s DRAFT or CONFIRMED?
  session,   \* session[s]: the row of s
  event,     \* event[e]: what Graph knows of the event e
  creates,   \* creates[s][t]: waiting meeting.create jobs of s with t tries behind them
  updates,   \* updates[s][t]: the same for meeting.update
  dispatch,  \* dispatch[s]: waiting agent.dispatch jobs of s
  failed,    \* <<queue, session>> of the meeting jobs that ran out of retries
  worker,    \* worker[w]: the attempt slot w is making
  request    \* request[r]: how far the API call r has got

vars == <<plan, session, event, creates, updates, dispatch, failed, worker, request>>

-----------------------------------------------------------------------------
(* The state's parts.                                                      *)

Live == {"SCHEDULED", "INVITED", "IN_PROGRESS"}
Status == Live \cup {"COMPLETED", "CANCELLED", "DELETED"}  \* NO_SHOW is never written
Tries == 0 .. RetryLimit
MeetingWorkers == CreateWorkers \cup UpdateWorkers
Workers == MeetingWorkers \cup DispatchWorkers
EventOrNone == Events \cup {None}
SessionOrNone == Sessions \cup {None}

Row == [status : Status, graphEventId : EventOrNone, joinUrl : BOOLEAN,
        meetingCancelledAt : BOOLEAN, start : Nat, externalSession : BOOLEAN]

NoRow == [status |-> "DELETED", graphEventId |-> None, joinUrl |-> FALSE,
          meetingCancelledAt |-> FALSE, start |-> 0, externalSession |-> FALSE]

GraphEvent == [state : {"unused", "live", "gone"}, session : SessionOrNone,
               start : Nat, joinUrl : BOOLEAN]

WorkerPc == {"idle", "read", "graph", "recordEvent", "record", "requeue",
             "disarm", "arm", "delete", "mark", "patch", "join"}

\* `job`: does the job's own row still exist, so that a failed attempt is retried?
Attempt == [pc : WorkerPc, session : SessionOrNone, tries : Tries, job : BOOLEAN,
            event : EventOrNone, start : Nat]

Idle == [pc |-> "idle", session |-> None, tries |-> 0, job |-> FALSE,
         event |-> None, start |-> 0]

RequestPc == {"new", "confirm", "enqueueCreate", "reschedule", "enqueueUpdate",
              "cancelRead", "cancel", "enqueueRemoval", "dropJobs",
              "draft", "delete", "start", "complete", "done"}

JobsOK ==
  /\ creates \in [Sessions -> [Tries -> Nat]]
  /\ updates \in [Sessions -> [Tries -> Nat]]
  /\ dispatch \in [Sessions -> Nat]
  /\ failed \subseteq {"meeting.create", "meeting.update"} \X Sessions

\* The points at which an attempt has the event it works on in hand.
WithEvent == {"recordEvent", "record", "delete", "patch"}

\* An attempt or a request past its first step is about some session, and an
\* attempt that writes or changes an event knows which.
WorkersOK ==
  /\ worker \in [Workers -> Attempt]
  /\ \A w \in Workers : worker[w].pc # "idle" => worker[w].session \in Sessions
  /\ \A w \in Workers : worker[w].pc \in WithEvent => worker[w].event \in Events

\* `reopens`: is it a suggest that read the plan as confirmed?
RequestsOK ==
  /\ request \in [Requests -> [pc : RequestPc, session : SessionOrNone, reopens : BOOLEAN]]
  /\ \A r \in Requests : request[r].pc \notin {"new", "done"} => request[r].session \in Sessions

TypeOK ==
  /\ plan \in [Sessions -> {"DRAFT", "CONFIRMED"}]
  /\ session \in [Sessions -> Row]
  /\ event \in [Events -> GraphEvent]
  /\ JobsOK
  /\ WorkersOK
  /\ RequestsOK

Init ==
  /\ plan = [s \in Sessions |-> IF Booked[s] = None THEN "DRAFT" ELSE "CONFIRMED"]
  /\ session = [s \in Sessions |->
       [status |-> IF Booked[s] = None THEN "SCHEDULED" ELSE "INVITED",
        graphEventId |-> Booked[s], joinUrl |-> Booked[s] # None,
        meetingCancelledAt |-> FALSE, start |-> 0, externalSession |-> FALSE]]
  /\ event = [e \in Events |->
       IF \E s \in Sessions : Booked[s] = e
       THEN [state |-> "live", session |-> CHOOSE s \in Sessions : Booked[s] = e,
             start |-> 0, joinUrl |-> TRUE]
       ELSE [state |-> "unused", session |-> None, start |-> 0, joinUrl |-> FALSE]]
  /\ creates = [s \in Sessions |-> [t \in Tries |-> 0]]
  /\ updates = [s \in Sessions |-> [t \in Tries |-> 0]]
  /\ dispatch = [s \in Sessions |-> IF Booked[s] = None THEN 0 ELSE 1]
  /\ failed = {}
  /\ worker = [w \in Workers |-> Idle]
  /\ request = [r \in Requests |-> [pc |-> "new", session |-> None, reopens |-> FALSE]]

Exists(s) == session[s].status # "DELETED"
Cancelled(s) == session[s].status = "CANCELLED"

\* A CANCELLED row with an event and no timestamp still owes Graph a removal.
OwesRemoval(row) == row.graphEventId # None /\ ~row.meetingCancelledAt

-----------------------------------------------------------------------------
(* pg-boss.                                                                *)

Waiting(jobs, s) == \E t \in Tries : jobs[s][t] > 0

Send(jobs, s) == [jobs EXCEPT ![s][0] = @ + 1]

SendKeyed(jobs, s) == IF KeyedDedup /\ Waiting(jobs, s) THEN jobs ELSE Send(jobs, s)

RemoveJobs(jobs, s) == [jobs EXCEPT ![s] = [t \in Tries |-> 0]]

SendDispatch(s) == [dispatch EXCEPT ![s] = IF KeyedDedup /\ @ > 0 THEN @ ELSE @ + 1]

Step(w, pc) == worker' = [worker EXCEPT ![w].pc = pc]

\* The handler returned: its job is completed.
Finish(w) == worker' = [worker EXCEPT ![w] = Idle]

\* Mutant of Throw: the error is logged and swallowed, so pg-boss sees a success.
ThrowSwallowed(w) == Finish(w) /\ UNCHANGED <<creates, updates, failed>>

\* The handler threw: the job is retried while it has tries left and a row.
Throw(w) ==
  LET a == worker[w]
      retried == a.job /\ a.tries < RetryLimit
      Retry(jobs) == [jobs EXCEPT ![a.session][a.tries + 1] = @ + 1]
  IN /\ creates' = IF retried /\ w \in CreateWorkers THEN Retry(creates) ELSE creates
     /\ updates' = IF retried /\ w \in UpdateWorkers THEN Retry(updates) ELSE updates
     /\ failed' = IF a.job /\ ~retried
                  THEN failed \cup
                    {<<IF w \in CreateWorkers THEN "meeting.create" ELSE "meeting.update",
                       a.session>>}
                  ELSE failed
     /\ Finish(w)

Take(w, s, t) ==
  worker' = [worker EXCEPT ![w] = [pc |-> "read", session |-> s, tries |-> t, job |-> TRUE,
                                   event |-> None, start |-> 0]]

TakeCreate(w) ==
  /\ worker[w].pc = "idle"
  /\ \E s \in Sessions, t \in Tries :
       /\ creates[s][t] > 0
       /\ creates' = [creates EXCEPT ![s][t] = @ - 1]
       /\ Take(w, s, t)
  /\ UNCHANGED <<plan, session, event, updates, dispatch, failed, request>>

TakeUpdate(w) ==
  /\ worker[w].pc = "idle"
  /\ \E s \in Sessions, t \in Tries :
       /\ updates[s][t] > 0
       /\ updates' = [updates EXCEPT ![s][t] = @ - 1]
       /\ Take(w, s, t)
  /\ UNCHANGED <<plan, session, event, creates, dispatch, failed, request>>

-----------------------------------------------------------------------------
(* Calls to Graph that both queues make.                                   *)

Post(w, e, joinUrl) ==
  /\ event[e].state = "unused"
  /\ event' = [event EXCEPT ![e] = [state |-> "live", session |-> worker[w].session,
                                    start |-> worker[w].start, joinUrl |-> joinUrl]]

\* The attempt holds no event, so it calls createMeeting (POST /me/events).
Creating(w) == worker[w].pc = "graph" /\ worker[w].event = None

CreateMeeting(w) ==
  /\ Creating(w)
  /\ \E e \in Events :
       /\ Post(w, e, TRUE)
       /\ worker' = [worker EXCEPT ![w].pc = "record", ![w].event = e]
  /\ UNCHANGED <<plan, session, creates, updates, dispatch, failed, request>>

\* Mutant of CreateMeetingWithoutJoinUrl: the error does not carry the event's id.
CreateMeetingWithoutJoinUrlNameless(w) ==
  /\ "noJoinUrl" \in Faults
  /\ Creating(w)
  /\ \E e \in Events :
       /\ Post(w, e, FALSE)
       /\ \/ /\ w \in CreateWorkers
             /\ Step(w, "recordEvent")
             /\ UNCHANGED <<creates, updates, failed>>
          \/ /\ w \in UpdateWorkers
             /\ Throw(w)
  /\ UNCHANGED <<plan, session, dispatch, request>>

\* GraphMeetingCreatedWithoutJoinUrlError: meeting.create keeps the event's id,
\* recreateMeeting in meeting.update lets the error end the attempt.
CreateMeetingWithoutJoinUrl(w) ==
  /\ "noJoinUrl" \in Faults
  /\ Creating(w)
  /\ \E e \in Events :
       /\ Post(w, e, FALSE)
       /\ \/ /\ w \in CreateWorkers
             /\ worker' = [worker EXCEPT ![w].pc = "recordEvent", ![w].event = e]
             /\ UNCHANGED <<creates, updates, failed>>
          \/ /\ w \in UpdateWorkers
             /\ Throw(w)
  /\ UNCHANGED <<plan, session, dispatch, request>>

\* The POST took effect but its reply, or a join URL poll after it, failed.
CreateMeetingReplyLost(w) ==
  /\ "lostReply" \in Faults
  /\ Creating(w)
  /\ \E e \in Events, joinUrl \in BOOLEAN : Post(w, e, joinUrl)
  /\ Throw(w)
  /\ UNCHANGED <<plan, session, dispatch, request>>

\* Mutant of RecordMeetingCreated: the update is not conditional on the status.
RecordMeetingCreatedReviving(w) ==
  LET s == worker[w].session
  IN /\ worker[w].pc = "record"
     /\ \/ /\ Exists(s)
           /\ session' = [session EXCEPT ![s].graphEventId = worker[w].event,
                                         ![s].joinUrl = TRUE, ![s].status = "INVITED"]
           /\ Step(w, IF w \in CreateWorkers THEN "arm" ELSE "disarm")
           /\ UNCHANGED <<creates, updates, failed>>
        \/ /\ ~Exists(s)
           /\ Throw(w)
           /\ UNCHANGED session
     /\ UNCHANGED <<plan, event, dispatch, request>>

\* recordMeetingCreated, one transaction: the invite, unless the row is CANCELLED.
RecordMeetingCreated(w) ==
  LET s == worker[w].session
      e == worker[w].event
  IN /\ worker[w].pc = "record"
     /\ \/ /\ Exists(s) /\ ~Cancelled(s)
           /\ session' = [session EXCEPT ![s].graphEventId = e, ![s].joinUrl = TRUE,
                                         ![s].status = "INVITED"]
           /\ Step(w, IF w \in CreateWorkers THEN "arm" ELSE "disarm")
           /\ UNCHANGED <<creates, updates, failed>>
        \/ /\ Cancelled(s)
           /\ session' = [session EXCEPT ![s].graphEventId = e, ![s].joinUrl = TRUE]
           /\ Step(w, "requeue")
           /\ UNCHANGED <<creates, updates, failed>>
        \/ /\ ~Exists(s)      \* tx.session.update finds no row and throws
           /\ Throw(w)
           /\ UNCHANGED session
     /\ UNCHANGED <<plan, event, dispatch, request>>

\* The row was CANCELLED: queue the removal of its event.
EnqueueRemovalJob(w) ==
  /\ worker[w].pc = "requeue"
  /\ updates' = Send(updates, worker[w].session)
  /\ Finish(w)
  /\ UNCHANGED <<plan, session, event, creates, dispatch, failed, request>>

\* agent.dispatch is queued for shortly before the start; the handler returns.
ArmDispatch(w) ==
  /\ worker[w].pc = "arm"
  /\ dispatch' = SendDispatch(worker[w].session)
  /\ Finish(w)
  /\ UNCHANGED <<plan, session, event, creates, updates, failed, request>>

-----------------------------------------------------------------------------
(* meeting.create: processCreateMeetingJob.                                *)

\* Mutant of CreateRead: an event left without a join URL is not recovered.
CreateReadAnew(w) ==
  LET s == worker[w].session
      row == session[s]
  IN /\ w \in CreateWorkers /\ worker[w].pc = "read"
     /\ \/ /\ Cancelled(s) /\ OwesRemoval(row)
           /\ Step(w, "requeue")
        \/ /\ ~Exists(s) \/ (Cancelled(s) /\ ~OwesRemoval(row)) \/ row.joinUrl
           /\ Finish(w)
        \/ /\ Exists(s) /\ ~Cancelled(s) /\ ~row.joinUrl
           /\ worker' = [worker EXCEPT ![w].pc = "graph", ![w].start = row.start]
     /\ UNCHANGED <<plan, session, event, creates, updates, dispatch, failed, request>>

CreateRead(w) ==
  LET s == worker[w].session
      row == session[s]
  IN /\ w \in CreateWorkers /\ worker[w].pc = "read"
     /\ \/ /\ Cancelled(s) /\ OwesRemoval(row)
           /\ Step(w, "requeue")
        \/ /\ \/ ~Exists(s)
              \/ Cancelled(s) /\ ~OwesRemoval(row)
              \/ ~Cancelled(s) /\ row.graphEventId # None /\ row.joinUrl
              \/ ~Cancelled(s) /\ "noOrganizer" \in Faults
           /\ Finish(w)
        \/ /\ Exists(s) /\ ~Cancelled(s)
           /\ ~(row.graphEventId # None /\ row.joinUrl)
           /\ worker' = [worker EXCEPT ![w].pc = "graph", ![w].event = row.graphEventId,
                                       ![w].start = row.start]
     /\ UNCHANGED <<plan, session, event, creates, updates, dispatch, failed, request>>

\* An earlier attempt left an event without a join URL: getMeetingJoinUrl.
RecoverJoinUrl(w) ==
  LET e == worker[w].event
  IN /\ worker[w].pc = "graph" /\ e # None
     /\ \/ /\ event[e].state = "live" /\ event[e].joinUrl
           /\ Step(w, "record")
           /\ UNCHANGED <<creates, updates, failed>>
        \/ /\ ~(event[e].state = "live" /\ event[e].joinUrl)
           /\ Throw(w)
     /\ UNCHANGED <<plan, session, event, dispatch, request>>

\* Mutant of RecordGraphEventOnly: the error is always left to the retry.
RecordGraphEventOnlyRethrowing(w) ==
  LET s == worker[w].session
  IN /\ worker[w].pc = "recordEvent"
     /\ session' = IF Exists(s) THEN [session EXCEPT ![s].graphEventId = worker[w].event]
                   ELSE session
     /\ Throw(w)
     /\ UNCHANGED <<plan, event, dispatch, request>>

\* recordGraphEventOnly: the event's id alone; then the error is rethrown, or
\* the removal queued if the row has been CANCELLED meanwhile.
RecordGraphEventOnly(w) ==
  LET s == worker[w].session
  IN /\ worker[w].pc = "recordEvent"
     /\ session' = IF Exists(s) THEN [session EXCEPT ![s].graphEventId = worker[w].event]
                   ELSE session
     /\ \/ /\ Cancelled(s)
           /\ Step(w, "requeue")
           /\ UNCHANGED <<creates, updates, failed>>
        \/ /\ ~Cancelled(s)
           /\ Throw(w)
     /\ UNCHANGED <<plan, event, dispatch, request>>

-----------------------------------------------------------------------------
(* meeting.update: processMeetingUpdateJob.                                *)

UpdateRead(w) ==
  LET s == worker[w].session
      row == session[s]
  IN /\ w \in UpdateWorkers /\ worker[w].pc = "read"
     /\ \/ /\ ~Exists(s) \/ (Cancelled(s) /\ row.graphEventId = None)
           /\ Finish(w)
        \/ /\ Exists(s) /\ ~(Cancelled(s) /\ row.graphEventId = None)
           /\ worker' = [worker EXCEPT
                ![w].pc = IF Cancelled(s) THEN "delete"
                          ELSE IF row.graphEventId = None THEN "graph" ELSE "patch",
                ![w].event = row.graphEventId, ![w].start = row.start]
     /\ UNCHANGED <<plan, session, event, creates, updates, dispatch, failed, request>>

\* cancelMeeting is request('DELETE'): a 404 is a plain ExternalServiceError,
\* which the job rethrows; it never sees a GraphEventNotFoundError here.
CancelMeeting(w) ==
  LET e == worker[w].event
  IN /\ worker[w].pc = "delete"
     /\ \/ /\ event[e].state = "live"
           /\ event' = [event EXCEPT ![e].state = "gone"]
           /\ \/ /\ Step(w, "mark")
                 /\ UNCHANGED <<creates, updates, failed>>
              \/ /\ "lostReply" \in Faults
                 /\ Throw(w)
        \/ /\ event[e].state # "live"
           /\ Throw(w)
           /\ UNCHANGED event
     /\ UNCHANGED <<plan, session, dispatch, request>>

MarkMeetingCancelled(w) ==
  LET s == worker[w].session
  IN /\ worker[w].pc = "mark"
     /\ \/ /\ Exists(s)
           /\ session' = [session EXCEPT ![s].meetingCancelledAt = TRUE]
           /\ Finish(w)
           /\ UNCHANGED <<creates, updates, failed>>
        \/ /\ ~Exists(s)
           /\ Throw(w)
           /\ UNCHANGED session
     /\ UNCHANGED <<plan, event, dispatch, request>>

\* updateMeeting: moves the event; a 404 leads to recreateMeeting; an event
\* still without a join URL, or a PATCH whose reply is lost, is moved and then
\* ends the attempt.
UpdateMeeting(w) ==
  LET e == worker[w].event
  IN /\ worker[w].pc = "patch"
     /\ \/ /\ event[e].state = "live"
           /\ event' = [event EXCEPT ![e].start = worker[w].start]
           /\ \/ /\ event[e].joinUrl
                 /\ Step(w, "disarm")
                 /\ UNCHANGED <<creates, updates, failed>>
              \/ /\ ~event[e].joinUrl \/ "lostReply" \in Faults
                 /\ Throw(w)
        \/ /\ event[e].state # "live"
           /\ worker' = [worker EXCEPT ![w].pc = "graph", ![w].event = None]
           /\ UNCHANGED <<event, creates, updates, failed>>
     /\ UNCHANGED <<plan, session, dispatch, request>>

\* Mutant of DisarmDispatch: the old dispatch is removed and none is queued.
DisarmDispatchOnly(w) ==
  /\ worker[w].pc = "disarm"
  /\ dispatch' = [dispatch EXCEPT ![worker[w].session] = 0]
  /\ Finish(w)
  /\ UNCHANGED <<plan, session, event, creates, updates, failed, request>>

\* The dispatch queued for the old time goes before the new one is queued.
DisarmDispatch(w) ==
  /\ worker[w].pc = "disarm"
  /\ dispatch' = [dispatch EXCEPT ![worker[w].session] = 0]
  /\ Step(w, "arm")
  /\ UNCHANGED <<plan, session, event, creates, updates, failed, request>>

-----------------------------------------------------------------------------
(* agent.dispatch: processAgentDispatchJob and dispatchToAiTrainer.  What  *)
(* the AI trainer then does belongs to the completion module.              *)

TakeDispatch(w) ==
  /\ worker[w].pc = "idle"
  /\ \E s \in Sessions :
       /\ dispatch[s] > 0
       /\ dispatch' = [dispatch EXCEPT ![s] = @ - 1]
       /\ \/ /\ session[s].status \in Live /\ session[s].joinUrl
             /\ worker' = [worker EXCEPT ![w] = [Idle EXCEPT !.pc = "join", !.session = s]]
          \/ /\ ~(session[s].status \in Live /\ session[s].joinUrl)
             /\ UNCHANGED worker
  /\ UNCHANGED <<plan, session, event, creates, updates, failed, request>>

\* startExternalSession, then recordExternalSessionId if the row is still there;
\* no failure of either is thrown back to the job.
RecordExternalSession(w) ==
  LET s == worker[w].session
  IN /\ worker[w].pc = "join"
     /\ session' \in (IF Exists(s) THEN {[session EXCEPT ![s].externalSession = TRUE]}
                                   ELSE {session})
                    \cup (IF "agentError" \in Faults THEN {session} ELSE {})
     /\ Finish(w)
     /\ UNCHANGED <<plan, event, creates, updates, dispatch, failed, request>>

-----------------------------------------------------------------------------
(* What goes wrong in a worker, and what happens in Graph by itself.       *)

GraphCallFails(w) ==
  /\ "graphError" \in Faults
  /\ worker[w].pc \in {"graph", "delete", "patch"}
  /\ Throw(w)
  /\ UNCHANGED <<plan, session, event, dispatch, request>>

AttemptDies(w) ==
  /\ "crash" \in Faults
  /\ worker[w].pc # "idle"
  /\ Throw(w)
  /\ UNCHANGED <<plan, session, event, dispatch, request>>

\* An attempt of agent.dispatch dies: pg-boss makes it wait again, unless its
\* tries, which are not counted here, are spent or a cancel has removed the job.
DispatchDies(w) ==
  LET s == worker[w].session
  IN /\ "crash" \in Faults
     /\ worker[w].pc = "join"
     /\ dispatch' \in {dispatch, [dispatch EXCEPT ![s] = @ + 1]}
     /\ Finish(w)
     /\ UNCHANGED <<plan, session, event, creates, updates, failed, request>>

TeamsProvisions(e) ==
  /\ event[e].state = "live" /\ ~event[e].joinUrl
  /\ event' = [event EXCEPT ![e].joinUrl = TRUE]
  /\ UNCHANGED <<plan, session, creates, updates, dispatch, failed, worker, request>>

DeletedInOutlook(e) ==
  /\ "outlook" \in Faults
  /\ event[e].state = "live"
  /\ event' = [event EXCEPT ![e].state = "gone"]
  /\ UNCHANGED <<plan, session, creates, updates, dispatch, failed, worker, request>>

-----------------------------------------------------------------------------
(* API requests.                                                           *)

Goto(r, pc) == request' = [request EXCEPT ![r].pc = pc]

\* The first read of a request, which decides whether it is refused.
FirstStep(op, s) ==
  LET row == session[s]
  IN CASE ~Exists(s) -> "done"
       [] Exists(s) /\ op = "confirm" ->
            IF plan[s] = "DRAFT" /\ ~Cancelled(s) THEN "confirm" ELSE "done"
       [] Exists(s) /\ op \in {"reschedule", "silentReschedule"} ->
            IF row.status \in Live THEN "reschedule" ELSE "done"
       [] Exists(s) /\ op = "cancel" -> "cancelRead"
       [] Exists(s) /\ op = "remove" ->
            IF row.status \in Live THEN "cancelRead"
            ELSE IF Cancelled(s) THEN "delete" ELSE "done"
       [] Exists(s) /\ op = "suggest" ->
            IF row.status \in Live THEN "cancelRead" ELSE "draft"
       [] Exists(s) /\ op = "start" ->
            IF row.status \in {"INVITED", "SCHEDULED"} THEN "start" ELSE "done"
       [] Exists(s) /\ op = "complete" ->
            IF row.status \in Live THEN "complete" ELSE "done"

Receive(r) ==
  /\ request[r].pc = "new"
  /\ \E s \in Sessions :
       request' = [request EXCEPT ![r] =
                                [pc |-> FirstStep(OperationOf[r], s), session |-> s,
                                 reopens |-> OperationOf[r] = "suggest" /\ plan[s] # "DRAFT"]]
  /\ UNCHANGED <<plan, session, event, creates, updates, dispatch, failed, worker>>

\* TrainingPlanService.confirm: the DRAFT check is behind it.
ConfirmPlan(r) ==
  LET s == request[r].session
  IN /\ request[r].pc = "confirm"
     /\ plan' = [plan EXCEPT ![s] = "CONFIRMED"]
     /\ Goto(r, "enqueueCreate")
     /\ UNCHANGED <<session, event, creates, updates, dispatch, failed, worker>>

EnqueueCreate(r) ==
  LET s == request[r].session
  IN /\ request[r].pc = "enqueueCreate"
     /\ creates' = SendKeyed(creates, s)
     /\ Goto(r, "done")
     /\ UNCHANGED <<plan, session, event, updates, dispatch, failed, worker>>

\* SessionService.reschedule: the terminal check is behind it.
RescheduleRow(r) ==
  LET s == request[r].session
  IN /\ request[r].pc = "reschedule"
     /\ \/ /\ Exists(s)
           /\ session' = [session EXCEPT ![s].start = @ + 1]
           /\ Goto(r, IF OperationOf[r] = "silentReschedule" THEN "done" ELSE "enqueueUpdate")
        \/ /\ ~Exists(s)
           /\ Goto(r, "done")
           /\ UNCHANGED session
     /\ UNCHANGED <<plan, event, creates, updates, dispatch, failed, worker>>

EnqueueUpdate(r) ==
  LET s == request[r].session
  IN /\ request[r].pc = "enqueueUpdate"
     /\ updates' = Send(updates, s)
     /\ Goto(r, "done")
     /\ UNCHANGED <<plan, session, event, creates, dispatch, failed, worker>>

\* SessionService.cancel, also reached from remove and suggest.
CancelRead(r) ==
  LET s == request[r].session
  IN /\ request[r].pc = "cancelRead"
     /\ Goto(r, IF session[s].status \in Live THEN "cancel"
                ELSE IF ~Cancelled(s) THEN "done"     \* not found, or a conflict
                ELSE IF OwesRemoval(session[s]) THEN "enqueueRemoval" ELSE "dropJobs")
     /\ UNCHANGED <<plan, session, event, creates, updates, dispatch, failed, worker>>

CancelRow(r) ==
  LET s == request[r].session
  IN /\ request[r].pc = "cancel"
     /\ \/ /\ Exists(s)
           /\ session' = [session EXCEPT ![s].status = "CANCELLED"]
           /\ Goto(r, IF OwesRemoval(session[s]) THEN "enqueueRemoval" ELSE "dropJobs")
        \/ /\ ~Exists(s)
           /\ Goto(r, "done")
           /\ UNCHANGED session
     /\ UNCHANGED <<plan, event, creates, updates, dispatch, failed, worker>>

EnqueueRemoval(r) ==
  LET s == request[r].session
  IN /\ request[r].pc = "enqueueRemoval"
     /\ updates' = Send(updates, s)
     /\ Goto(r, "dropJobs")
     /\ UNCHANGED <<plan, session, event, creates, dispatch, failed, worker>>

\* removeJob on the keyed queues.  The row of an active job goes too: the
\* attempt runs on, but a failure of it is not retried.
DropJobs(r) ==
  LET s == request[r].session
      op == OperationOf[r]
  IN /\ request[r].pc = "dropJobs"
     /\ creates' = RemoveJobs(creates, s)
     /\ dispatch' = [dispatch EXCEPT ![s] = 0]
     /\ worker' = [w \in Workers |->
          IF w \in CreateWorkers /\ worker[w].session = s
          THEN [worker[w] EXCEPT !.job = FALSE] ELSE worker[w]]
     /\ Goto(r, CASE op = "remove" -> "delete" [] op = "suggest" -> "draft"
                  [] OTHER -> "done")
     /\ UNCHANGED <<plan, session, event, updates, failed>>

\* suggest: a plan it read as confirmed drops back to DRAFT before its rows are
\* replaced, whatever has been written since.
ReopenPlan(r) ==
  LET s == request[r].session
  IN /\ request[r].pc = "draft"
     /\ plan' = IF request[r].reopens THEN [plan EXCEPT ![s] = "DRAFT"] ELSE plan
     /\ Goto(r, "delete")
     /\ UNCHANGED <<session, event, creates, updates, dispatch, failed, worker>>

\* Mutant of DeleteRow: suggest deletes rows with a meeting, too.
DeleteRowWhateverItHolds(r) ==
  LET s == request[r].session
      deletes == OperationOf[r] = "remove" \/ session[s].status # "COMPLETED"
  IN /\ request[r].pc = "delete"
     /\ session' = IF deletes THEN [session EXCEPT ![s] = NoRow] ELSE session
     /\ Goto(r, "done")
     /\ UNCHANGED <<plan, event, creates, updates, dispatch, failed, worker>>

\* remove deletes the row unconditionally; suggest deletes it only without an
\* event, and its transaction fails on the assessment a COMPLETED row has.
DeleteRow(r) ==
  LET s == request[r].session
      deletes == OperationOf[r] = "remove"
                 \/ (session[s].graphEventId = None /\ session[s].status # "COMPLETED")
  IN /\ request[r].pc = "delete"
     /\ session' = IF deletes THEN [session EXCEPT ![s] = NoRow] ELSE session
     /\ Goto(r, "done")
     /\ UNCHANGED <<plan, event, creates, updates, dispatch, failed, worker>>

\* The agent API's start and complete write the status they decided on, with
\* no condition on the row.
SetStatus(r, pc, status) ==
  LET s == request[r].session
  IN /\ request[r].pc = pc
     /\ session' = IF Exists(s) THEN [session EXCEPT ![s].status = status] ELSE session
     /\ Goto(r, "done")
     /\ UNCHANGED <<plan, event, creates, updates, dispatch, failed, worker>>

StartSession(r) == SetStatus(r, "start", "IN_PROGRESS")

CompleteSession(r) == SetStatus(r, "complete", "COMPLETED")

RequestDies(r) ==
  /\ "apiCrash" \in Faults
  /\ request[r].pc \notin {"new", "done"}
  /\ Goto(r, "done")
  /\ UNCHANGED <<plan, session, event, creates, updates, dispatch, failed, worker>>

-----------------------------------------------------------------------------
(* The specification.                                                      *)

MeetingStep(w) ==
  \/ CreateMeeting(w) \/ CreateMeetingWithoutJoinUrl(w) \/ CreateMeetingReplyLost(w)
  \/ RecordMeetingCreated(w) \/ EnqueueRemovalJob(w) \/ ArmDispatch(w)

CreateStep(w) == CreateRead(w) \/ RecoverJoinUrl(w) \/ RecordGraphEventOnly(w)

UpdateStep(w) ==
  \/ UpdateRead(w) \/ CancelMeeting(w) \/ MarkMeetingCancelled(w)
  \/ UpdateMeeting(w) \/ DisarmDispatch(w)

RequestStep(r) ==
  \/ ConfirmPlan(r) \/ EnqueueCreate(r) \/ RescheduleRow(r) \/ EnqueueUpdate(r)
  \/ CancelRead(r) \/ CancelRow(r) \/ EnqueueRemoval(r) \/ DropJobs(r)
  \/ ReopenPlan(r) \/ DeleteRow(r) \/ StartSession(r) \/ CompleteSession(r)

Next ==
  \/ \E w \in CreateWorkers : TakeCreate(w) \/ CreateStep(w)
  \/ \E w \in UpdateWorkers : TakeUpdate(w) \/ UpdateStep(w)
  \/ \E w \in MeetingWorkers : MeetingStep(w) \/ GraphCallFails(w) \/ AttemptDies(w)
  \/ \E w \in DispatchWorkers :
       TakeDispatch(w) \/ RecordExternalSession(w) \/ DispatchDies(w)
  \/ \E e \in Events : TeamsProvisions(e) \/ DeletedInOutlook(e)
  \/ \E r \in Requests : Receive(r) \/ RequestStep(r) \/ RequestDies(r)

Spec == Init /\ [][Next]_vars

\* A worker that is up takes waiting jobs and finishes what it takes, and a
\* request under way is carried through; nobody has to make a request.
Fairness ==
  /\ \A w \in CreateWorkers : WF_vars(TakeCreate(w) \/ CreateStep(w) \/ MeetingStep(w))
  /\ \A w \in UpdateWorkers : WF_vars(TakeUpdate(w) \/ UpdateStep(w) \/ MeetingStep(w))
  /\ \A w \in DispatchWorkers : WF_vars(TakeDispatch(w) \/ RecordExternalSession(w))
  /\ \A r \in Requests : WF_vars(RequestStep(r))

FairSpec == Spec /\ Fairness
-----------------------------------------------------------------------------
(* What is true of the sessions and of Teams.                              *)

Failed(s) == \E q \in {"meeting.create", "meeting.update"} : <<q, s>> \in failed

\* The event the row of s names is on the calendar.
HoldsLiveEvent(s) ==
  session[s].graphEventId # None /\ event[session[s].graphEventId].state = "live"

\* Something that has been queued, or is about to be, will delete the event of s.
RemovalPending(s) ==
  \/ Waiting(updates, s)
  \/ \E r \in Requests : request[r].session = s /\ request[r].pc = "enqueueRemoval"
  \/ \E w \in MeetingWorkers :
       /\ worker[w].session = s
       /\ \/ worker[w].pc = "requeue"
          \/ w \in UpdateWorkers /\ worker[w].pc = "read"
          \/ worker[w].pc = "delete" /\ worker[w].event = session[s].graphEventId

\* Nothing is queued or running for s in the two meeting queues.
Settled(s) ==
  /\ ~Waiting(creates, s) /\ ~Waiting(updates, s)
  /\ \A w \in MeetingWorkers : worker[w].session # s

\* However cancel, the two workers and their failures interleave, the Teams
\* event of a cancelled session is on its way out, unless its job has run out
\* of retries: cancel looks at the row its own write returned, a worker that
\* attaches an event to a cancelled row queues its removal.
RemovalOwed ==
  \A s \in Sessions :
    Cancelled(s) /\ HoldsLiveEvent(s)
      => RemovalPending(s) \/ <<"meeting.update", s>> \in failed

\* No calendar event outlives the program's knowledge of it: each one is named
\* by its session's row, or held by the attempt about to write it there.
NoOrphanedMeeting ==
  \A e \in Events : event[e].state = "live" =>
    \/ session[event[e].session].graphEventId = e
    \/ \E w \in MeetingWorkers :
         worker[w].event = e /\ worker[w].pc \in {"record", "recordEvent"}

\* A session whose invite is out and whose jobs have run has the AI trainer
\* coming: its dispatch is queued, or has happened.
MeetingIsManned ==
  \A s \in Sessions :
    session[s].status = "INVITED" /\ Settled(s) /\ ~Failed(s) =>
      \/ dispatch[s] > 0
      \/ session[s].externalSession
      \/ \E w \in DispatchWorkers : worker[w].session = s

\* meetingCancelledAt means the Teams event is gone, so a cancelled row without
\* it is all a retry has to look for (findCancellationCandidatesByLearner).
MarkerSound ==
  \A s \in Sessions :
    Cancelled(s) /\ session[s].meetingCancelledAt /\ HoldsLiveEvent(s) => RemovalPending(s)

\* meeting.create never books a session twice.
NeverDoubleBooked ==
  \A s \in Sessions :
    Cardinality({e \in Events : event[e].state = "live" /\ event[e].session = s}) <= 1

\* A meeting removed in Outlook satisfies a cancel: the job that finds it gone
\* does not end as a failure.
AlreadyGoneIsSatisfied ==
  \A s \in Sessions :
    Cancelled(s) /\ <<"meeting.update", s>> \in failed => HoldsLiveEvent(s)

\* A worker that comes late from Graph does not revive a cancelled session.
CancelledNotReinvited ==
  [][\A s \in Sessions : Cancelled(s) => session'[s].status # "INVITED"]_vars

\* No Teams meeting is created for a plan the manager has not confirmed.
NothingDispatchedBeforeConfirm ==
  [][\A e \in Events :
       event[e].state = "unused" /\ event'[e].state = "live"
         => plan[event'[e].session] = "CONFIRMED"]_vars

\* A cancelled session is not started: start refuses every other status.
CancelledIsNotStarted ==
  [][\A s \in Sessions : Cancelled(s) => session'[s].status # "IN_PROGRESS"]_vars

\* With the workers up, every event in the calendar whose session has been
\* cancelled, or whose row is no longer there, leaves the calendar, or the job
\* that should have removed it is there to be seen as failed: a plan that is
\* suggested anew must not take the row away from under the queued removal.
CancelledMeetingIsWithdrawn ==
  \A e \in Events :
    event[e].state = "live" /\ session[event[e].session].status \in {"CANCELLED", "DELETED"}
      ~> event[e].state # "live" \/ <<"meeting.update", event[e].session>> \in failed

\* A rescheduled session's event moves to the time in the row, whatever the
\* order in which reschedules and their jobs run.
RescheduleReachesTeams ==
  \A s \in Sessions :
    HoldsLiveEvent(s) /\ event[session[s].graphEventId].start # session[s].start
      ~> \/ Cancelled(s) \/ Failed(s)
         \/ HoldsLiveEvent(s) /\ event[session[s].graphEventId].start = session[s].start

\* A session of a confirmed plan gets its meeting, or its job is seen to fail.
ConfirmedIsInvited ==
  \A s \in Sessions :
    plan[s] = "CONFIRMED" /\ session[s].status = "SCHEDULED"
      ~> session[s].status # "SCHEDULED" \/ Failed(s)
=============================================================================
