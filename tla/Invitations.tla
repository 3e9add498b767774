----------------------------- MODULE Invitations -----------------------------
(***************************************************************************)
(* What the learner of one session is sent and answers.  Beside each Teams *)
(* meeting stands an invitation row, found by the meeting when Microsoft   *)
(* reports the learner's answer.  Two delayed jobs wait in the queue: a    *)
(* reminder, and the mail with the link.  Whoever moves or cancels the     *)
(* session has to withdraw them; MeetingLifecycle has what becomes of the  *)
(* meeting itself and of the dispatched trainer.                           *)
(*                                                                         *)
(* The queue is external: a second job under the key of one that waits may *)
(* be dropped.  So is Microsoft: answers are reported in any order.        *)
(* Abstracted: texts, audit rows, retries of jobs that throw, the jobs     *)
(* that remove a cancelled session's meeting, and a meeting without a link *)
(* (both in MeetingLifecycle).  A reschedule queues the meeting's update   *)
(* and withdraws the reminder in one step.                                 *)
(***************************************************************************)
EXTENDS Calls, FiniteSets

CONSTANTS
  Meetings,       \* ids of Teams meetings
  Horizon         \* a bound: the last hour of the clock

VARIABLES
  clock,          \* hours
  session,        \* [status, start, event], event: its meeting or None
  outlook,        \* outlook[w]: [answer, nth, gone], the learner's last answer to w, or None
  letter,         \* letter[w]: [rsvp, nth, reminded], the invitation row of w, or None
  reminders,      \* hours at which a reminder job of the session is due
  mails,          \* hours at which a link mail of the session is due
  updates,        \* meeting.update jobs waiting
  notices,        \* answers that Microsoft has yet to report: [meeting, answer, nth]
  hushed,         \* moved without a word since the mail was queued
  mixed,          \* calls about the session overlapped, or one of them was cut short
  astray          \* meetings of which a report came before the row, or after a later one

letterVars == <<clock, session, outlook, letter, reminders, mails, updates, notices, hushed, mixed, astray>>

Answers == {"PENDING", "ACCEPTED", "DECLINED"}
OutlookRow == [answer : Answers, nth : Nat, gone : BOOLEAN]
LetterRow == [rsvp : Answers, nth : Nat, reminded : BOOLEAN]
SessionRow == [status : {"SCHEDULED", "INVITED", "CANCELLED"}, start : 1 .. Horizon, event : Meetings \cup {None}]

LetterInit(start) ==
  /\ clock = 0
  /\ session = [status |-> "SCHEDULED", start |-> start.at, event |-> None]
  /\ outlook = [w \in Meetings |-> None] /\ letter = [w \in Meetings |-> None]
  /\ reminders = {} /\ mails = {} /\ updates = 0 /\ notices = {}
  /\ hushed = FALSE /\ mixed = FALSE /\ astray = {}

ReminderLead == 2
MailLead == 1
Letters == {w \in Meetings : letter[w] # None}
FreshMeeting == CHOOSE w \in Meetings : outlook[w] = None
\* A bound: a meeting that is created finds an id left.
MeetingRoom == \E w \in Meetings : outlook[w] = None
Untouched(c) == mixed' = (mixed \/ Stale(c, <<"session", None>>))
\* send: may be dropped while another job waits under the key.
Queued(jobs, due) == {jobs \cup {due}} \cup (IF jobs = {} THEN {} ELSE {jobs})
\* removeJob: whatever waits under the key.
Removed(jobs) == {}

-----------------------------------------------------------------------------
(* The meeting and its invitation (create-meeting and meeting-update).     *)

CreateMeeting(c) ==
  /\ session.status # "CANCELLED" /\ session.event = None
  /\ Begin(c, "createMeeting", "graph", session.start, None)
  /\ UNCHANGED letterVars
UpdateMeeting(c) ==
  /\ updates > 0 /\ updates' = updates - 1
  /\ IF session.status = "CANCELLED" THEN Atomically(c, "updateMeeting", {})
     ELSE LET w == session.event
              lost == IF w = None THEN TRUE ELSE outlook[w].gone
          IN Begin(c, "updateMeeting", IF lost THEN "graph" ELSE "moved", session.start, None)
  /\ UNCHANGED <<clock, session, outlook, letter, reminders, mails, notices, hushed, mixed, astray>>
GraphCreates(c) ==
  /\ call[c].op \in {"createMeeting", "updateMeeting"} /\ call[c].pc = "graph" /\ MeetingRoom
  /\ outlook' = [outlook EXCEPT ![FreshMeeting] = [answer |-> "PENDING", nth |-> 0, gone |-> FALSE]]
  /\ Goto(c, "record", FreshMeeting, {})
  /\ UNCHANGED <<clock, session, letter, reminders, mails, updates, notices, hushed, mixed, astray>>
\* recordMeetingCreated: a cancelled session only learns which meeting to remove.
RecordMeeting(c) ==
  /\ call[c].op \in {"createMeeting", "updateMeeting"} /\ call[c].pc = "record"
  /\ LET w == call[c].seen
     IN IF session.status = "CANCELLED"
        THEN /\ session' = [session EXCEPT !.event = w]
             /\ End(c, None, {<<"session", None>>})
             /\ UNCHANGED letter
        ELSE /\ session' = [session EXCEPT !.event = w, !.status = "INVITED"]
             /\ letter' = [letter EXCEPT ![w] = [rsvp |-> "PENDING", nth |-> 0, reminded |-> FALSE]]
             /\ Goto(c, IF call[c].op = "createMeeting" THEN "mail" ELSE "moved", w, {<<"session", None>>})
  /\ Untouched(c)
  /\ UNCHANGED <<clock, outlook, reminders, mails, updates, notices, hushed, astray>>
QueueMail(c) ==
  /\ At(c, "createMeeting", "mail")
  /\ mails' \in Queued(mails, call[c].arg - MailLead)
  /\ hushed' = FALSE
  /\ Goto(c, "remind", None, {}) /\ Untouched(c)
  /\ UNCHANGED <<clock, session, outlook, letter, reminders, updates, notices, astray>>
\* Only a reminder that still lies ahead is queued.
QueueReminder(c) ==
  /\ call[c].op \in {"createMeeting", "reschedule"} /\ call[c].pc = "remind"
  /\ LET due == (IF call[c].op = "createMeeting" THEN call[c].arg ELSE call[c].arg.start) - ReminderLead
     IN IF due > clock THEN reminders' \in Queued(reminders, due) ELSE UNCHANGED reminders
  /\ End(c, None, {}) /\ Untouched(c)
  /\ UNCHANGED <<clock, session, outlook, letter, mails, updates, notices, hushed, astray>>
\* The mail that the session moved carries the link; the delayed one is withdrawn.
TellMoved(c) ==
  /\ At(c, "updateMeeting", "moved")
  /\ mails' = Removed(mails)
  /\ End(c, None, {}) /\ Untouched(c)
  /\ UNCHANGED <<clock, session, outlook, letter, reminders, updates, notices, hushed, astray>>
\* The worker goes down; the job's retry finds a meeting, and does nothing.
CrashCreate(c) ==
  /\ call[c].op = "createMeeting" /\ call[c].pc \in {"mail", "remind"}
  /\ "crashCreate" \in DOMAIN left /\ left["crashCreate"] > 0
  /\ left' = [left EXCEPT !["crashCreate"] = @ - 1]
  /\ call' = [call EXCEPT ![c] = Idle]
  /\ mixed' = TRUE
  /\ UNCHANGED <<crossed, clock, session, outlook, letter, reminders, mails, updates, notices, hushed, astray>>

-----------------------------------------------------------------------------
(* The manager moves or cancels the session.                               *)

Reschedule(c) ==
  /\ session.status # "CANCELLED"
  /\ \E start \in clock + 1 .. Horizon, silent \in BOOLEAN :
       Begin(c, "reschedule", "write", [start |-> start, silent |-> silent], None)
  /\ UNCHANGED letterVars
MoveRow(c) ==
  /\ At(c, "reschedule", "write")
  /\ session' = [session EXCEPT !.start = call[c].arg.start]
  /\ Goto(c, "queue", None, {<<"session", None>>}) /\ Untouched(c)
  /\ UNCHANGED <<clock, outlook, letter, reminders, mails, updates, notices, hushed, astray>>
QueueMove(c) ==
  /\ At(c, "reschedule", "queue")
  /\ updates' = IF call[c].arg.silent THEN updates ELSE updates + 1
  /\ hushed' = (hushed \/ call[c].arg.silent)
  /\ reminders' = Removed(reminders)
  /\ Goto(c, "remind", None, {}) /\ Untouched(c)
  /\ UNCHANGED <<clock, session, outlook, letter, mails, notices, astray>>
Cancel(c) ==
  /\ Begin(c, "cancel", "write", None, None)
  /\ UNCHANGED letterVars
\* One that is cancelled already has its jobs withdrawn again.
CancelRow(c) ==
  /\ At(c, "cancel", "write")
  /\ session' = [session EXCEPT !.status = "CANCELLED"]
  /\ Goto(c, "drop", None, {<<"session", None>>}) /\ Untouched(c)
  /\ UNCHANGED <<clock, outlook, letter, reminders, mails, updates, notices, hushed, astray>>
DropJobs(c) ==
  /\ At(c, "cancel", "drop")
  /\ reminders' = Removed(reminders) /\ mails' = Removed(mails)
  /\ End(c, None, {}) /\ Untouched(c)
  /\ UNCHANGED <<clock, session, outlook, letter, updates, notices, hushed, astray>>

-----------------------------------------------------------------------------
(* The delayed jobs.                                                       *)

Tick(c) ==
  /\ clock < Horizon /\ clock' = clock + 1
  /\ Atomically(c, "tick", {})
  /\ UNCHANGED <<session, outlook, letter, reminders, mails, updates, notices, hushed, mixed, astray>>
\* findBySession: one of its invitations, whichever.
RunReminder(c) ==
  /\ \E due \in reminders : due <= clock /\ reminders' = reminders \ {due}
  /\ IF session.status = "CANCELLED" \/ Letters = {} THEN Atomically(c, "runReminder", {})
     ELSE \E w \in Letters : Begin(c, "runReminder", "mark", w, None)
  /\ UNCHANGED <<clock, session, outlook, letter, mails, updates, notices, hushed, mixed, astray>>
MarkReminded(c) ==
  /\ At(c, "runReminder", "mark")
  /\ letter' = [letter EXCEPT ![call[c].arg].reminded = TRUE]
  /\ End(c, None, {})
  /\ UNCHANGED <<clock, session, outlook, reminders, mails, updates, notices, hushed, mixed, astray>>
\* Sent at once, or not at all: no state keeps it.
RunMail(c) ==
  /\ \E due \in mails : due <= clock /\ mails' = mails \ {due}
  /\ Atomically(c, "runMail", {})
  /\ UNCHANGED <<clock, session, outlook, letter, reminders, updates, notices, hushed, mixed, astray>>

-----------------------------------------------------------------------------
(* Answers.                                                                *)

Answer(c) ==
  /\ \E w \in Meetings, answer \in {"ACCEPTED", "DECLINED"} :
       /\ outlook[w] # None /\ ~outlook[w].gone
       /\ outlook' = [outlook EXCEPT ![w].answer = answer, ![w].nth = @ + 1]
       /\ notices' = notices \cup {[meeting |-> w, answer |-> answer, nth |-> outlook[w].nth + 1]}
  /\ Atomically(c, "answer", {})
  /\ UNCHANGED <<clock, session, letter, reminders, mails, updates, hushed, mixed, astray>>
DeleteInOutlook(c) ==
  /\ \E w \in Meetings : /\ outlook[w] # None /\ ~outlook[w].gone
                         /\ outlook' = [outlook EXCEPT ![w].gone = TRUE]
  /\ Atomically(c, "deleteInOutlook", {})
  /\ UNCHANGED <<clock, session, letter, reminders, mails, updates, notices, hushed, mixed, astray>>
\* Mutant: the invitation is looked for by the session.
BySession(w) == Letters
ByGraphEventId(w) == Letters \cap {w}
Report(c) ==
  /\ \E n \in notices :
       LET w == n.meeting
       IN /\ notices' = notices \ {n}
          /\ astray' = IF w \notin Letters THEN astray \cup {w} ELSE astray
          /\ IF ByGraphEventId(w) = {} THEN Atomically(c, "report", {})
             ELSE \E row \in ByGraphEventId(w) : Begin(c, "report", "write", row, n)
  /\ UNCHANGED <<clock, session, outlook, letter, reminders, mails, updates, hushed, mixed>>
WriteAnswer(c) ==
  /\ At(c, "report", "write")
  /\ LET row == call[c].arg
         n == call[c].seen
     IN /\ letter' = [letter EXCEPT ![row].rsvp = n.answer, ![row].nth = n.nth]
        /\ astray' = IF n.nth < letter[row].nth THEN astray \cup {row} ELSE astray
  /\ End(c, None, {})
  /\ UNCHANGED <<clock, session, outlook, reminders, mails, updates, notices, hushed, mixed>>

LetterStep(c) ==
  \/ CreateMeeting(c) \/ UpdateMeeting(c) \/ GraphCreates(c) \/ RecordMeeting(c)
  \/ QueueMail(c) \/ QueueReminder(c) \/ TellMoved(c) \/ CrashCreate(c)
  \/ Reschedule(c) \/ MoveRow(c) \/ QueueMove(c) \/ Cancel(c) \/ CancelRow(c) \/ DropJobs(c)
  \/ Tick(c) \/ RunReminder(c) \/ MarkReminded(c) \/ RunMail(c)
  \/ Answer(c) \/ DeleteInOutlook(c) \/ Report(c) \/ WriteAnswer(c)

-----------------------------------------------------------------------------
(* Properties.                                                             *)

\* Ids, enumerations, and that an invited session has the invitation of its meeting.
LetterTypeOK ==
  /\ clock \in 0 .. Horizon /\ session.start \in 1 .. Horizon /\ updates \in Nat
  /\ session.status \in {"SCHEDULED", "INVITED", "CANCELLED"}
  /\ session.status = "INVITED" => session.event \in Letters
  /\ \A w \in Letters : outlook[w] # None /\ letter[w].rsvp \in {"PENDING", "ACCEPTED", "DECLINED"}
  /\ astray \subseteq Meetings

\* send-reminder.job.ts:13-18, meeting-update.job.ts:227: the delayed jobs follow the
\* session: once no call is under way and none have overlapped, a cancelled session has
\* none, an invited one is reminded at its time, and the link is mailed at its time.
RemindersFollow ==
  (\A c \in Callers : call[c].pc = "idle") /\ ~mixed =>
    /\ session.status = "CANCELLED" => reminders = {} /\ mails = {}
    /\ session.status # "CANCELLED" => reminders \subseteq {session.start - ReminderLead}
    /\ session.status = "INVITED" /\ session.start - ReminderLead > clock =>
         reminders = {session.start - ReminderLead}
    /\ updates = 0 /\ ~hushed => mails \subseteq {session.start - MailLead}

\* rsvp-webhook.service.ts:24-30: an answer is kept with the meeting it was given to, and
\* when every answer was reported, after the row was there and in the order given, the
\* row has the last.
AnswersAreTheirs == \A w \in Letters :
  LET reporting == \E c \in Callers : call[c].op = "report" /\ call[c].pc # "idle"
  IN w \notin astray /\ ~reporting =>
       /\ letter[w].nth <= outlook[w].nth
       /\ (\A n \in notices : n.meeting # w) => letter[w].rsvp = outlook[w].answer

\* Both.
InvitationsHold == RemindersFollow /\ AnswersAreTheirs
=============================================================================
