--------------------------------- MODULE Sweeps ---------------------------------
(***************************************************************************)
(* The nightly jobs.  The clean-up deletes what is kept only for so long,  *)
(* in batches, and writes one summary of each sweep to the audit log; the  *)
(* recompute counts how often content was delivered and its outcome then   *)
(* achieved, and writes the counts pair by pair.  Either may also be asked *)
(* for by hand, while the other run of it is under way.                    *)
(*                                                                         *)
(* Abstracted: refresh tokens and handshakes are swept in Accounts, blobs  *)
(* without a row in ReportPipeline: here such a sweep ends or fails.  A    *)
(* score is the two counts it is made of.                                  *)
(***************************************************************************)
EXTENDS Calls, FiniteSets

CONSTANTS
  Papers,       \* assessments, each with its transcript
  BatchSize,    \* CLEANUP_BATCH_SIZE, a bound
  Pairs         \* content items with an outcome

PaperRow == [version : Nat, consented : BOOLEAN, due : BOOLEAN]
\* A batch has a row, and there are not more transcripts than can be counted; a row is no None.
ASSUME SweepsAssumption ==
  BatchSize \in Nat \ {0} /\ IsFiniteSet(Papers) /\ None \notin PaperRow \cup [times : Nat, achieved : Nat]

VARIABLES
  transcript,   \* transcript[p]: [version, consented, due], due: its time is over; or None
  handedIn,     \* how many transcripts were handed in
  logbook,      \* rows of the audit log: [id, old], old: its time is over
  summed,       \* rows of the log too, never old: what the summaries of a sweep add up to
  purged,       \* transcripts cleared: [paper, version, due, resubmitted]
  trimmed,      \* rows of the audit log deleted
  unsummed,     \* a clean-up was cut short, or another went on beside it
  delivered,    \* delivered[x]: [times, achieved], what the sessions say
  effect,       \* effect[x]: the same as last computed, or None
  counted       \* what the last recompute came to, or None

sweepVars == <<transcript, handedIn, logbook, summed, purged, trimmed, unsummed, delivered, effect, counted>>
cleanVars == <<transcript, handedIn, logbook, summed, purged, trimmed, unsummed>>
effectVars == <<delivered, effect, counted>>

SweepsInit(start) ==
  /\ transcript = start.transcript /\ handedIn = 0 /\ logbook = start.logbook
  /\ summed = [transcripts |-> 0, audit_logs |-> 0] /\ purged = {} /\ trimmed = {} /\ unsummed = FALSE
  /\ delivered = [x \in Pairs |-> [times |-> 0, achieved |-> 0]] /\ effect = [x \in Pairs |-> None] /\ counted = None

Cleaning(d) == call[d].op = "cleanup" /\ call[d].pc # "idle"
\* At most BatchSize of them, whichever the database gives.
Batches(ids) == {batch \in SUBSET ids : Cardinality(batch) = IF Cardinality(ids) < BatchSize THEN Cardinality(ids) ELSE BatchSize}
\* auditSweep: nothing was swept, nothing is said.
Summed(action, count) == [summed EXCEPT ![action] = @ + count]

-----------------------------------------------------------------------------
(* The clean-up: five sweeps beside each other, then the audit log.        *)

CleanUp(c) ==
  /\ Begin(c, "cleanup", "sweeps", None, [others |-> "running", batch |-> {}, last |-> FALSE, total |-> 0, ended |-> FALSE])
  /\ unsummed' = (unsummed \/ \E d \in Callers : Cleaning(d))
  /\ UNCHANGED <<transcript, handedIn, logbook, summed, purged, trimmed, effectVars>>
Sweeping(c) == At(c, "cleanup", "sweeps") \/ At(c, "cleanup", "failed")
Due == {p \in Papers : transcript[p] # None /\ transcript[p].due}
ReadBatch(c) ==
  /\ Sweeping(c) /\ call[c].seen.batch = {} /\ ~call[c].seen.last /\ Due # {}
  /\ \E batch \in Batches(Due) :
       Goto(c, call[c].pc, [call[c].seen EXCEPT !.batch = {[paper |-> p, version |-> transcript[p].version] : p \in batch},
                                                !.last = Cardinality(batch) < BatchSize], {})
  /\ UNCHANGED sweepVars
\* Its blob is deleted as well as may be; the row keeps everything else.  What was read counts.
ClearTranscript(c) ==
  /\ Sweeping(c)
  /\ \E read \in call[c].seen.batch :
       LET p == read.paper
       IN /\ transcript' = [transcript EXCEPT ![p] = None]
          /\ purged' = IF transcript[p] = None THEN purged
                       ELSE purged \cup {[paper |-> p, version |-> transcript[p].version, due |-> transcript[p].due,
                                          resubmitted |-> transcript[p].version # read.version]}
          /\ Goto(c, call[c].pc, [call[c].seen EXCEPT !.batch = @ \ {read}, !.total = @ + 1], {})
  /\ UNCHANGED <<handedIn, logbook, summed, trimmed, unsummed, effectVars>>
EndTranscripts(c) ==
  /\ Sweeping(c) /\ ~call[c].seen.ended /\ call[c].seen.batch = {} /\ (call[c].seen.last \/ Due = {})
  /\ summed' = Summed("transcripts", call[c].seen.total)
  /\ Goto(c, call[c].pc, [call[c].seen EXCEPT !.ended = TRUE, !.last = TRUE], {})
  /\ UNCHANGED <<transcript, handedIn, logbook, purged, trimmed, unsummed, effectVars>>
\* The four others end, or one of them fails: then the job has failed, and the sweep of the
\* transcripts goes on alone.
OthersEnd(c) ==
  /\ At(c, "cleanup", "sweeps") /\ call[c].seen.others = "running"
  /\ \/ Goto(c, "sweeps", [call[c].seen EXCEPT !.others = "ended"], {})
     \/ Goto(c, "failed", [call[c].seen EXCEPT !.others = "failed"], {})
  /\ UNCHANGED sweepVars
EndFailed(c) ==
  /\ At(c, "cleanup", "failed") /\ call[c].seen.ended
  /\ End(c, "failed", {})
  /\ UNCHANGED sweepVars
TrimLog(c) ==
  /\ At(c, "cleanup", "sweeps") /\ call[c].seen.ended /\ call[c].seen.others = "ended"
  /\ Goto(c, "trim", [call[c].seen EXCEPT !.total = 0], {})
  /\ UNCHANGED sweepVars
OldRows == {line \in logbook : line.old}
DeleteRows(c) ==
  /\ At(c, "cleanup", "trim")
  /\ \E batch \in Batches(OldRows) :
       /\ logbook' = logbook \ batch
       /\ trimmed' = trimmed \cup batch
       /\ LET total == call[c].seen.total + Cardinality(batch)
          IN IF Cardinality(batch) < BatchSize
             THEN summed' = Summed("audit_logs", total) /\ End(c, None, {})
             ELSE Goto(c, "trim", [call[c].seen EXCEPT !.total = total], {}) /\ UNCHANGED summed
  /\ UNCHANGED <<transcript, handedIn, purged, unsummed, effectVars>>
\* The process dies, or the database fails a statement of its own.
CrashCleanUp(c) ==
  /\ Cleaning(c) /\ "crashCleanup" \in DOMAIN left /\ left["crashCleanup"] > 0
  /\ left' = [left EXCEPT !["crashCleanup"] = @ - 1]
  /\ call' = [call EXCEPT ![c] = Idle]
  /\ unsummed' = TRUE
  /\ UNCHANGED <<crossed, transcript, handedIn, logbook, summed, purged, trimmed, effectVars>>

\* Time passes for one that consent was given for; a transcript is handed in, for the first
\* time or again.
TranscriptFallsDue(c) ==
  /\ Atomically(c, "fallDue", {})
  /\ \E p \in Papers : transcript[p] # None /\ transcript[p].consented /\ transcript' = [transcript EXCEPT ![p].due = TRUE]
  /\ UNCHANGED <<handedIn, logbook, summed, purged, trimmed, unsummed, effectVars>>
SubmitTranscript(c) ==
  /\ Atomically(c, "submitTranscript", {})
  /\ handedIn' = handedIn + 1
  /\ \E p \in Papers, consented \in BOOLEAN :
       transcript' = [transcript EXCEPT ![p] = [version |-> handedIn', consented |-> consented, due |-> FALSE]]
  /\ UNCHANGED <<logbook, summed, purged, trimmed, unsummed, effectVars>>

-----------------------------------------------------------------------------
(* Effectiveness.                                                          *)

Deliver(c) ==
  /\ \E x \in Pairs, achieved \in {0, 1} :
       /\ Atomically(c, "deliver", {"delivered"})
       /\ delivered' = [delivered EXCEPT ![x] = [times |-> @.times + 1, achieved |-> @.achieved + achieved]]
  /\ UNCHANGED <<cleanVars, effect, counted>>
\* A pair that was in a session has a row, delivered or not; the model knows those delivered.
Recompute(c) ==
  /\ Begin(c, "recompute", "upsert", \E d \in Callers : call[d].op = "recompute" /\ call[d].pc # "idle",
           [stats |-> delivered, waiting |-> {x \in Pairs : delivered[x].times > 0}])
  /\ UNCHANGED sweepVars
\* Mutant: a row that is there is left as it is.
OnlyNew(old, new) == IF old = None THEN new ELSE old
Upserted(old, new) == new
UpsertEffect(c) ==
  /\ At(c, "recompute", "upsert")
  /\ LET seen == call[c].seen
     IN \E x \in seen.waiting :
          /\ effect' = [effect EXCEPT ![x] = Upserted(@, seen.stats[x])]
          /\ Goto(c, "upsert", [seen EXCEPT !.waiting = @ \ {x}], {"effect"})
  /\ UNCHANGED <<cleanVars, delivered, counted>>
EndRecompute(c) ==
  /\ At(c, "recompute", "upsert") /\ call[c].seen.waiting = {}
  /\ counted' = [stats |-> call[c].seen.stats, effect |-> effect, torn |-> call[c].arg \/ Stale(c, "effect")]
  /\ End(c, None, {})
  /\ UNCHANGED <<cleanVars, delivered, effect>>

SweepsStep(c) ==
  \/ CleanUp(c) \/ ReadBatch(c) \/ ClearTranscript(c) \/ EndTranscripts(c) \/ OthersEnd(c) \/ EndFailed(c) \/ TrimLog(c) \/ DeleteRows(c)
  \/ CrashCleanUp(c) \/ TranscriptFallsDue(c) \/ SubmitTranscript(c)
  \/ Deliver(c) \/ Recompute(c) \/ UpsertEffect(c) \/ EndRecompute(c)

-----------------------------------------------------------------------------
(* Properties.                                                             *)

\* Nothing is achieved that was not delivered.
SweepsTypeOK == \A x \in Pairs :
  /\ delivered[x].achieved <= delivered[x].times
  /\ effect[x] # None => effect[x].achieved <= effect[x].times /\ effect[x].times <= delivered[x].times

\* cleanup.job.ts:44-49: a transcript is cleared when its time is over, or when it was handed
\* in again after the sweep had read the one before; only old rows of the log go; and the
\* summaries add up to what was swept, unless a clean-up was cut short or overlapped.
SweepsAreAudited ==
  /\ \A t \in purged : t.due \/ t.resubmitted
  /\ \A line \in trimmed : line.old
  /\ ~unsummed /\ (\A c \in Callers : ~Cleaning(c)) =>
       summed.transcripts = Cardinality(purged) /\ summed.audit_logs = Cardinality(trimmed)
\* content-effectiveness.repository.ts:40-49: a recompute that no other overlaps ends with the counts it read.
EffectIsCounted == counted # None /\ ~counted.torn =>
  \A x \in Pairs : counted.stats[x].times > 0 => counted.effect[x] = counted.stats[x]
\* Both.
NightlyJobsHold == SweepsAreAudited /\ EffectIsCounted
=============================================================================
