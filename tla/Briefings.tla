-------------------------------- MODULE Briefings --------------------------------
(***************************************************************************)
(* What is put together about a session from many tables and from the AI   *)
(* trainer: the context that an agent joins with, the transcript that a    *)
(* manager reads, and the contents of a report on it.  What the trainer    *)
(* said is stored once its webhook is called, and asked for until then.    *)
(*                                                                         *)
(* Abstracted: names, outcomes, scores and notes, which are copied as they *)
(* are; questions and rubric are in Rubrics; one learner and one team.     *)
(***************************************************************************)
EXTENDS Calls, FiniteSets

CONSTANTS Lessons, Slides    \* sessions, media assets of their content

VARIABLES
  dispatched,   \* sessions that the trainer knows
  marked,       \* sessions that have an assessment
  verdictOf,    \* verdictOf[s]: what the trainer says of s: [of, forManager, at], or None
  stored,       \* stored[s]: what his webhook has stored of it, or None
  chief,        \* the team has a manager
  slide,        \* slide[v]: "PENDING", "CLEAN" or "INFECTED", or None when it is deleted
  told,         \* the last report, or None
  transcribed,  \* the last transcript shown, or None
  briefed       \* the last context, or None

briefVars == <<dispatched, marked, verdictOf, stored, chief, slide, told, transcribed, briefed>>
saidVars == <<told, transcribed, briefed>>

Verdict == [of : Lessons, forManager : {None, "view"}]
Source == [kind : {"stored", "live"}, says : Verdict]
ASSUME BriefingsAssumption == None \notin Verdict \cup Source \cup {"CLEAN", "missing"}

BriefingsInit(start) ==
  /\ dispatched = start.dispatched /\ marked = start.marked /\ chief = start.chief /\ slide = start.slide
  /\ verdictOf = [s \in Lessons |-> None] /\ stored = [s \in Lessons |-> None]
  /\ told = None /\ transcribed = None /\ briefed = None

-----------------------------------------------------------------------------
(* A report for a learner or for a manager.                                *)

TellReport(c) ==
  /\ \E s \in Lessons, role \in {"LEARNER", "DEPARTMENT_MANAGER"} :
       s \in marked /\ Begin(c, "tell", "people", [lesson |-> s, role |-> role], [knew |-> stored[s] # None, source |-> None])
  /\ UNCHANGED briefVars
\* Without a manager, no report.
ReadPeople(c) ==
  /\ At(c, "tell", "people")
  /\ IF ~chief THEN End(c, "missing", {})
     ELSE Goto(c, IF call[c].arg.lesson \in dispatched THEN "stored" ELSE "write", call[c].seen, {})
  /\ UNCHANGED briefVars
\* Mutant: a learner is told what his manager is.
ForAnyone(role, says) == says.forManager
ManagerView(role, says) == IF role = "DEPARTMENT_MANAGER" THEN says.forManager ELSE None
ReadStored(c) ==
  /\ At(c, "tell", "stored")
  /\ LET says == stored[call[c].arg.lesson]
     IN IF says # None THEN Goto(c, "write", [call[c].seen EXCEPT !.source = [kind |-> "stored", says |-> says]], {})
        ELSE Goto(c, "ask", call[c].seen, {})
  /\ UNCHANGED briefVars
\* What cannot be had now is done without.
AskTrainer(c) ==
  /\ At(c, "tell", "ask")
  /\ \E says \in {verdictOf[call[c].arg.lesson], None} :
       Goto(c, "write", [call[c].seen EXCEPT !.source = IF says = None THEN None ELSE [kind |-> "live", says |-> says]], {})
  /\ UNCHANGED briefVars
WriteReport(c) ==
  /\ At(c, "tell", "write")
  /\ LET arg == call[c].arg
         seen == call[c].seen
     IN told' = [lesson |-> arg.lesson, role |-> arg.role, knew |-> seen.knew,
                 kind |-> IF seen.source = None THEN "notes" ELSE seen.source.kind,
                 of |-> IF seen.source = None THEN arg.lesson ELSE seen.source.says.of,
                 forManager |-> IF seen.source = None THEN None ELSE ManagerView(arg.role, seen.source.says)]
  /\ End(c, None, {})
  /\ UNCHANGED <<dispatched, marked, verdictOf, stored, chief, slide, transcribed, briefed>>

-----------------------------------------------------------------------------
(* The transcript: stored, or asked for; this time a failure is one.       *)

ShowTranscript(c) ==
  /\ \E s \in Lessons \cap dispatched : Begin(c, "transcript", "stored", s, stored[s] # None)
  /\ UNCHANGED briefVars
ReadTranscript(c) ==
  /\ At(c, "transcript", "stored")
  /\ IF stored[call[c].arg] # None
     THEN /\ transcribed' = [lesson |-> call[c].arg, knew |-> call[c].seen, kind |-> "stored", of |-> stored[call[c].arg].of]
          /\ End(c, None, {})
     ELSE Goto(c, "ask", call[c].seen, {}) /\ UNCHANGED transcribed
  /\ UNCHANGED <<dispatched, marked, verdictOf, stored, chief, slide, told, briefed>>
AskTranscript(c) ==
  /\ At(c, "transcript", "ask")
  /\ \/ /\ verdictOf[call[c].arg] # None
        /\ transcribed' = [lesson |-> call[c].arg, knew |-> call[c].seen, kind |-> "live", of |-> verdictOf[call[c].arg].of]
        /\ End(c, None, {})
     \/ End(c, "failed", {}) /\ UNCHANGED transcribed
  /\ UNCHANGED <<dispatched, marked, verdictOf, stored, chief, slide, told, briefed>>

-----------------------------------------------------------------------------
(* The context: the media that are clean, each with a link.                *)

Brief(c) ==
  /\ Begin(c, "brief", "assets", None, None)
  /\ UNCHANGED briefVars
ReadAssets(c) ==
  /\ At(c, "brief", "assets")
  /\ LET clean == {v \in Slides : slide[v] = "CLEAN"}
     IN Reread(c, "links", [media |-> clean, waiting |-> clean])
  /\ UNCHANGED briefVars
\* One that is gone fails the whole context.
LinkAsset(c) ==
  /\ At(c, "brief", "links")
  /\ \E v \in call[c].seen.waiting :
       IF slide[v] = None THEN End(c, "missing", {})
       ELSE Goto(c, "links", [call[c].seen EXCEPT !.waiting = @ \ {v}], {})
  /\ UNCHANGED briefVars
EndBrief(c) ==
  /\ At(c, "brief", "links") /\ call[c].seen.waiting = {}
  /\ briefed' = [media |-> call[c].seen.media, unclean |-> {v \in call[c].seen.media : slide[v] # "CLEAN"},
                 torn |-> Stale(c, "slides")]
  /\ End(c, None, {})
  /\ UNCHANGED <<dispatched, marked, verdictOf, stored, chief, slide, told, transcribed>>

-----------------------------------------------------------------------------
(* The trainer and his webhook, the virus scan, the team.                  *)

\* He may add what he has for the manager later on.
Evaluate(c) ==
  /\ \E s \in dispatched, forManager \in {None, "view"} :
       verdictOf' = [verdictOf EXCEPT ![s] = [of |-> s, forManager |-> forManager]]
  /\ Atomically(c, "evaluate", {})
  /\ UNCHANGED <<dispatched, marked, stored, chief, slide, saidVars>>
StoreEvaluation(c) ==
  /\ \E s \in Lessons : verdictOf[s] # None /\ stored' = [stored EXCEPT ![s] = verdictOf[s]]
  /\ Atomically(c, "storeEvaluation", {})
  /\ UNCHANGED <<dispatched, marked, verdictOf, chief, slide, saidVars>>
ChangeSlide(c) ==
  /\ \E v \in Slides, status \in {"CLEAN", "INFECTED", None} :
       /\ slide[v] # None /\ status # slide[v] /\ (status # None => slide[v] = "PENDING")
       /\ slide' = [slide EXCEPT ![v] = status]
  /\ Atomically(c, "changeSlide", {"slides"})
  /\ UNCHANGED <<dispatched, marked, verdictOf, stored, chief, saidVars>>
LoseManager(c) ==
  /\ chief' = FALSE
  /\ Atomically(c, "loseManager", {"chief"})
  /\ UNCHANGED <<dispatched, marked, verdictOf, stored, slide, saidVars>>

BriefStep(c) ==
  \/ TellReport(c) \/ ReadPeople(c) \/ ReadStored(c) \/ AskTrainer(c) \/ WriteReport(c)
  \/ ShowTranscript(c) \/ ReadTranscript(c) \/ AskTranscript(c)
  \/ Brief(c) \/ ReadAssets(c) \/ LinkAsset(c) \/ EndBrief(c)
  \/ Evaluate(c) \/ StoreEvaluation(c) \/ ChangeSlide(c) \/ LoseManager(c)

-----------------------------------------------------------------------------
(* Properties.                                                             *)

\* What is stored was said of that session, which the trainer knows.
BriefingsTypeOK == \A s \in Lessons : stored[s] # None => stored[s].of = s /\ s \in dispatched

\* report-data.service.ts:77-84,162-166: a report on a session says what the trainer said of that
\* session, as stored if it was when the report was begun; only a manager is told what is
\* for managers.  session.service.ts:304-307: so does a transcript.  agent: a context has clean
\* media only, and fails only when one was deleted meanwhile.
BriefingsAreTrue ==
  /\ told # None =>
       /\ told.of = told.lesson
       /\ told.knew /\ told.lesson \in dispatched => told.kind = "stored"
       /\ told.role = "LEARNER" => told.forManager = None
  /\ transcribed # None => transcribed.of = transcribed.lesson /\ (transcribed.knew => transcribed.kind = "stored")
  /\ briefed # None /\ ~briefed.torn => briefed.unclean = {}
  /\ \A c \in Callers : call[c].op = "brief" /\ call[c].result = "missing" => Stale(c, "slides")
=============================================================================
