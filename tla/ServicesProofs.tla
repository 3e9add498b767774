---------------------------- MODULE ServicesProofs ----------------------------
(***************************************************************************)
(* The services of BackOffice beside each other, and those that run as     *)
(* jobs and scripts: the nightly jobs, the departments and the seeding,    *)
(* proved for all values of the constants.                                 *)
(***************************************************************************)
EXTENDS BackOffice, CatalogueProofs, FiniteSetTheorems, SequenceTheorems

-----------------------------------------------------------------------------
(* The services beside each other: a step of one spares the calls of all   *)
(* others.                                                                 *)

\* Seeding.
LEMMA SeedsSpare ==
  ASSUME CallsSound, NEW c \in Callers, NEW ops, None \notin ops, ops \cap SeedCalls = {}, SeedStep(c)
  PROVE CallsSound' /\ Spares(ops)
  <1>0. "seed" \notin ops /\ "giveSkill" \notin ops /\ "reassign" \notin ops
    BY DEF SeedCalls
  <1>1. CASE SeedNow(c)
    BY <1>0, <1>1, BeginSpares DEF SeedNow
  <1>2. CASE FindSown(c)
    BY <1>0, <1>2, GotoSpares DEF FindSown, At
  <1>3. CASE MissSown(c)
    BY <1>0, <1>3, GotoSpares DEF MissSown, At
  <1>4. ASSUME Sow(c), call[c].op = "seed"
        PROVE CallsSound' /\ Spares(ops)
    BY <1>0, <1>4, GotoSpares DEF Sow
  <1>5. CASE UpsertSown(c)
    BY <1>4, <1>5 DEF UpsertSown, At
  <1>6. CASE CreateSown(c)
    BY <1>0, <1>4, <1>6, EndSpares DEF CreateSown, At, Refusals
  <1>7. CASE CheckSkill(c)
    BY <1>0, <1>7, GotoSpares, EndSpares DEF CheckSkill, At, Refusals
  <1>8. CASE CompleteSown(c)
    BY <1>0, <1>8, GotoSpares DEF CompleteSown, At
  <1>9. CASE EndSeed(c)
    BY <1>0, <1>9, EndSpares DEF EndSeed, At, Refusals
  <1>10. CASE CrashSeed(c)
    BY <1>0, <1>10, CrashSpares DEF CrashSeed
  <1>11. CASE GiveSkill(c)
    BY <1>11, AtomicallySpares DEF GiveSkill
  <1>12. CASE Reassign(c)
    BY <1>12, AtomicallySpares DEF Reassign
  <1> QED
    BY <1>1, <1>2, <1>3, <1>5, <1>6, <1>7, <1>8, <1>9, <1>10, <1>11, <1>12 DEF SeedStep

\* Departments.
LEMMA RefusalKnown ==
  ASSUME NEW d PROVE Refusal(d) \in Refusals
  BY FirstOfTwo DEF Refusal, Problem, Refusals

\* The organization's units.
LEMMA UnitsSpare ==
  ASSUME CallsSound, NEW c \in Callers, NEW ops, None \notin ops, ops \cap UnitCalls = {}, UnitStep(c)
  PROVE CallsSound' /\ Spares(ops)
  <1>0. "createUnit" \notin ops /\ "updateUnit" \notin ops /\ "deleteUnit" \notin ops
        /\ "placeTeam" \notin ops /\ "movePerson" \notin ops /\ "joinTeam" \notin ops
        /\ "repair" \notin ops
    BY DEF UnitCalls
  <1>1. CASE CreateUnit(c)
    BY <1>0, <1>1, BeginSpares DEF CreateUnit
  <1>2. CASE InsertUnit(c)
    BY <1>0, <1>2, EndSpares DEF InsertUnit, At, Refusals
  <1>3. CASE UpdateUnit(c)
    BY <1>0, <1>3, BeginSpares DEF UpdateUnit
  <1>4. CASE SaveUnit(c)
    <2> DEFINE refusal == FirstOf(<<Problem(~Standing(call[c].arg.unit), "missing"),
                                    Problem(Taken(call[c].arg.to.name, call[c].arg.unit), "clash")>>)
    <2>1. refusal \in Refusals /\ None \in Refusals
      BY FirstOfTwo DEF Problem, Refusals
    <2>2. call[c].op = "updateUnit" /\ (End(c, refusal, {}) \/ End(c, None, {"units"}))
      BY <1>4 DEF SaveUnit, At
    <2> QED
      BY <1>0, <2>1, <2>2, EndSpares
  <1>5. CASE DeleteUnit(c)
    BY <1>0, <1>5, BeginSpares DEF DeleteUnit
  <1>6. CASE RemoveUnit(c)
    BY <1>0, <1>6, RefusalKnown, EndSpares DEF RemoveUnit, At, Refusals
  <1>7. CASE PlaceTeam(c)
    BY <1>0, <1>7, BeginSpares DEF PlaceTeam
  <1>8. CASE SavePlace(c)
    BY <1>0, <1>8, EndSpares DEF SavePlace, At, Refusals
  <1>9. CASE MovePerson(c)
    BY <1>0, <1>9, BeginSpares DEF MovePerson
  <1>10. CASE SaveMove(c)
    BY <1>0, <1>10, EndSpares DEF SaveMove, At, Refusals
  <1>11. CASE JoinTeam(c)
    BY <1>0, <1>11, BeginSpares DEF JoinTeam
  <1>12. CASE InsertPerson(c)
    BY <1>0, <1>12, EndSpares DEF InsertPerson, At, Refusals
  <1>13. CASE Repair(c)
    BY <1>0, <1>13, BeginSpares DEF Repair
  <1>14. CASE MoveMisplaced(c)
    BY <1>0, <1>14, GotoSpares, EndSpares DEF MoveMisplaced, At, Refusals
  <1>15. CASE Moved(c)
    BY <1>0, <1>15, GotoSpares DEF Moved, At
  <1>16. CASE Judge(c)
    BY <1>0, <1>16, GotoSpares DEF Judge, At
  <1>17. CASE DeleteEmptied(c)
    BY <1>0, <1>17, RefusalKnown, GotoSpares, EndSpares DEF DeleteEmptied, At, Refusals
  <1>18. CASE EndRepair(c)
    BY <1>0, <1>18, EndSpares DEF EndRepair, At, Refusals
  <1> QED
    BY <1>1, <1>2, <1>3, <1>4, <1>5, <1>6, <1>7, <1>8, <1>9, <1>10, <1>11, <1>12, <1>13, <1>14,
       <1>15, <1>16, <1>17, <1>18
       DEF UnitStep

\* The nightly jobs.
LEMMA SweepsSpare ==
  ASSUME CallsSound, NEW c \in Callers, NEW ops, None \notin ops, ops \cap SweepCalls = {}, SweepsStep(c)
  PROVE CallsSound' /\ Spares(ops)
  <1>0. "cleanup" \notin ops /\ "fallDue" \notin ops /\ "submitTranscript" \notin ops
        /\ "deliver" \notin ops /\ "recompute" \notin ops
    BY DEF SweepCalls
  <1>1. CASE CleanUp(c)
    BY <1>0, <1>1, BeginSpares DEF CleanUp
  <1>2. CASE ReadBatch(c)
    BY <1>0, <1>2, GotoSpares DEF ReadBatch, Sweeping, At
  <1>3. CASE ClearTranscript(c)
    BY <1>0, <1>3, GotoSpares DEF ClearTranscript, Sweeping, At
  <1>4. CASE EndTranscripts(c)
    BY <1>0, <1>4, GotoSpares DEF EndTranscripts, Sweeping, At
  <1>5. CASE OthersEnd(c)
    BY <1>0, <1>5, GotoSpares DEF OthersEnd, At
  <1>6. CASE EndFailed(c)
    BY <1>0, <1>6, EndSpares DEF EndFailed, At, Refusals
  <1>7. CASE TrimLog(c)
    BY <1>0, <1>7, GotoSpares DEF TrimLog, At
  <1>8. CASE DeleteRows(c)
    BY <1>0, <1>8, GotoSpares, EndSpares DEF DeleteRows, At, Refusals
  <1>9. CASE CrashCleanUp(c)
    BY <1>0, <1>9, CrashSpares DEF CrashCleanUp, Cleaning
  <1>10. CASE TranscriptFallsDue(c)
    BY <1>0, <1>10, AtomicallySpares DEF TranscriptFallsDue
  <1>11. CASE SubmitTranscript(c)
    BY <1>0, <1>11, AtomicallySpares DEF SubmitTranscript
  <1>12. CASE Deliver(c)
    BY <1>0, <1>12, AtomicallySpares DEF Deliver
  <1>13. CASE Recompute(c)
    BY <1>0, <1>13, BeginSpares DEF Recompute
  <1>14. CASE UpsertEffect(c)
    BY <1>0, <1>14, GotoSpares DEF UpsertEffect, At
  <1>15. CASE EndRecompute(c)
    BY <1>0, <1>15, EndSpares DEF EndRecompute, At, Refusals
  <1> QED
    BY <1>1, <1>2, <1>3, <1>4, <1>5, <1>6, <1>7, <1>8, <1>9, <1>10, <1>11, <1>12, <1>13, <1>14,
       <1>15
       DEF SweepsStep

\* Reports, transcripts and contexts.
LEMMA BriefsSpare ==
  ASSUME CallsSound, NEW c \in Callers, NEW ops, None \notin ops, ops \cap BriefCalls = {}, BriefStep(c)
  PROVE CallsSound' /\ Spares(ops)
  <1>0. "tell" \notin ops /\ "transcript" \notin ops /\ "brief" \notin ops
        /\ "evaluate" \notin ops /\ "storeEvaluation" \notin ops /\ "changeSlide" \notin ops
        /\ "loseManager" \notin ops
    BY DEF BriefCalls
  <1>1. CASE TellReport(c)
    BY <1>0, <1>1, BeginSpares DEF TellReport
  <1>2. CASE ReadPeople(c)
    BY <1>0, <1>2, GotoSpares, EndSpares DEF ReadPeople, At, Refusals
  <1>3. CASE ReadStored(c)
    BY <1>0, <1>3, GotoSpares DEF ReadStored, At
  <1>4. CASE AskTrainer(c)
    BY <1>0, <1>4, GotoSpares DEF AskTrainer, At
  <1>5. CASE WriteReport(c)
    BY <1>0, <1>5, EndSpares DEF WriteReport, At, Refusals
  <1>6. CASE ShowTranscript(c)
    BY <1>0, <1>6, BeginSpares DEF ShowTranscript
  <1>7. CASE ReadTranscript(c)
    BY <1>0, <1>7, GotoSpares, EndSpares DEF ReadTranscript, At, Refusals
  <1>8. CASE AskTranscript(c)
    BY <1>0, <1>8, EndSpares DEF AskTranscript, At, Refusals
  <1>9. CASE Brief(c)
    BY <1>0, <1>9, BeginSpares DEF Brief
  <1>10. CASE ReadAssets(c)
    BY <1>0, <1>10, RereadSpares DEF ReadAssets, At
  <1>11. CASE LinkAsset(c)
    BY <1>0, <1>11, GotoSpares, EndSpares DEF LinkAsset, At, Refusals
  <1>12. CASE EndBrief(c)
    BY <1>0, <1>12, EndSpares DEF EndBrief, At, Refusals
  <1>13. CASE Evaluate(c)
    BY <1>0, <1>13, AtomicallySpares DEF Evaluate
  <1>14. CASE StoreEvaluation(c)
    BY <1>0, <1>14, AtomicallySpares DEF StoreEvaluation
  <1>15. CASE ChangeSlide(c)
    BY <1>0, <1>15, AtomicallySpares DEF ChangeSlide
  <1>16. CASE LoseManager(c)
    BY <1>0, <1>16, AtomicallySpares DEF LoseManager
  <1> QED
    BY <1>1, <1>2, <1>3, <1>4, <1>5, <1>6, <1>7, <1>8, <1>9, <1>10, <1>11, <1>12, <1>13, <1>14,
       <1>15, <1>16
       DEF BriefStep

\* Lists.
LEMMA ListsSpare ==
  ASSUME CallsSound, NEW c \in Callers, NEW ops, None \notin ops, ops \cap ListCalls = {}, ListStep(c)
  PROVE CallsSound' /\ Spares(ops)
  <1>0. "walk" \notin ops /\ "open" \notin ops /\ "appoint" \notin ops /\ "dismiss" \notin ops
        /\ "enroll" \notin ops
    BY DEF ListCalls
  <1>1. CASE Walk(c)
    BY <1>0, <1>1, BeginSpares DEF Walk
  <1>2. CASE GuardPage(c)
    BY <1>0, <1>2, GotoSpares DEF GuardPage, At
  <1>3. CASE ReadPage(c)
    BY <1>0, <1>3, GotoSpares, EndSpares DEF ReadPage, At, Refusals
  <1>4. CASE Open(c)
    BY <1>0, <1>4, BeginSpares DEF Open
  <1>5. CASE CheckManager(c)
    BY <1>0, <1>5, GotoSpares, EndSpares DEF CheckManager, At, Refusals
  <1>6. CASE ReadOne(c)
    BY <1>0, <1>6, EndSpares DEF ReadOne, At, Refusals
  <1>7. CASE Appoint(c)
    BY <1>0, <1>7, AtomicallySpares DEF Appoint
  <1>8. CASE Dismiss(c)
    BY <1>0, <1>8, AtomicallySpares DEF Dismiss
  <1>9. CASE Enroll(c)
    BY <1>0, <1>9, AtomicallySpares DEF Enroll
  <1> QED
    BY <1>1, <1>2, <1>3, <1>4, <1>5, <1>6, <1>7, <1>8, <1>9 DEF ListStep

\* Whatever step is taken, the calls stay sound, and a service either takes it or is spared.
LEMMA OfficeCalls ==
  ASSUME CallsSound, [OfficeNext]_officeVars
  PROVE CallsSound'
  <1>1. CASE UNCHANGED officeVars
    BY <1>1, NoCallSpares DEF officeVars
  <1>2. ASSUME NEW c \in Callers, OfficeStep(c) PROVE CallsSound'
    <2>1. PICK ops : ops = {}
      OBVIOUS
    <2>2. None \notin ops /\ \A calls : ops \cap calls = {}
      BY <2>1
    <2> QED
      BY <1>2, <2>2, CatalogueSpares, SeedsSpare, UnitsSpare, SweepsSpare, BriefsSpare, ListsSpare
         DEF OfficeStep
  <1> QED
    BY <1>1, <1>2 DEF OfficeNext

-----------------------------------------------------------------------------
(* The clean-up: its books balance, whatever is handed in meanwhile.       *)

\* Of each paper the versions that were cleared are older than the one that is there.
PaperTables ==
  /\ transcript = [p \in Papers |-> transcript[p]] /\ handedIn \in Nat
  /\ \A p \in Papers : transcript[p] # None => transcript[p] \in PaperRow /\ transcript[p].version <= handedIn
  /\ \A t \in purged : /\ t.paper \in Papers /\ (t.due \/ t.resubmitted) /\ t.version \in Nat /\ t.version <= handedIn
                       /\ transcript[t.paper] # None => t.version < transcript[t.paper].version
  /\ \A line \in trimmed : line.old /\ line \notin logbook
  /\ IsFiniteSet(logbook) /\ IsFiniteSet(trimmed) /\ IsFiniteSet(purged)
  /\ summed = [transcripts |-> summed.transcripts, audit_logs |-> summed.audit_logs]
  /\ summed.transcripts \in Nat /\ summed.audit_logs \in Nat
\* A clean-up under way has read transcripts that were due, each once.
WasDue(r) == /\ r.paper \in Papers /\ r.version \in Nat /\ r.version <= handedIn
             /\ transcript[r.paper] # None /\ transcript[r.paper].version = r.version => transcript[r.paper].due
SweepSeen(s) == s = [others |-> s.others, batch |-> s.batch, last |-> s.last, total |-> s.total, ended |-> s.ended]
CleanKnows(x) ==
  /\ x.pc \in {"sweeps", "failed", "trim"}
  /\ SweepSeen(x.seen)
  /\ x.seen.total \in Nat
  /\ \A r \in x.seen.batch : WasDue(r)
  /\ \A r, s \in x.seen.batch : r.paper = s.paper => r = s
  /\ x.seen.ended => x.seen.batch = {} /\ x.seen.last
  /\ x.pc = "trim" => x.seen.ended
CleanCall(x) == x.op = "cleanup" /\ x.pc # "idle" => CleanKnows(x)
\* What it has not said yet is what it has counted.
Owes(x) ==
  /\ \A r \in x.seen.batch : transcript[r.paper] # None
  /\ summed.transcripts + (IF x.seen.ended THEN 0 ELSE x.seen.total) = Cardinality(purged)
  /\ summed.audit_logs + (IF x.pc = "trim" THEN x.seen.total ELSE 0) = Cardinality(trimmed)
AllSaid == summed.transcripts = Cardinality(purged) /\ summed.audit_logs = Cardinality(trimmed)
Books == ~unsummed =>
  /\ \A c, d \in Callers : Cleaning(c) /\ Cleaning(d) => c = d
  /\ \A c \in Callers : Cleaning(c) => Owes(call[c])
  /\ (\A c \in Callers : ~Cleaning(c)) => AllSaid
CleanInv == PaperTables /\ Books /\ \A d \in Callers : CleanCall(call[d])

\* It is what the run checks.
LEMMA CleanInvIsTrue ==
  ASSUME CleanInv PROVE SweepsAreAudited
  BY DEF CleanInv, PaperTables, Books, AllSaid, SweepsAreAudited

\* At the start nothing was swept.
LEMMA CleanStart ==
  ASSUME OfficeInit PROVE CleanInv
  <1>1. \A c \in Callers : call[c] = Idle
    BY CallsStart DEF OfficeInit, Init
  <1>2. Idle.pc = "idle"
    BY DEF Idle
  <1>3. PICK k \in Cases : transcript = k.sweeps.transcript /\ logbook = k.sweeps.logbook
    BY DEF OfficeInit, Init, SweepsInit
  <1>4. /\ handedIn = 0 /\ summed = [transcripts |-> 0, audit_logs |-> 0]
        /\ purged = {} /\ trimmed = {} /\ unsummed = FALSE
    BY DEF OfficeInit, SweepsInit
  <1>5. /\ transcript \in [Papers -> PaperRow \cup {None}] /\ IsFiniteSet(logbook)
        /\ \A p \in Papers : transcript[p] # None => transcript[p].version = 0
    BY <1>3, StartAssumption
  <1>6. IsFiniteSet({}) /\ Cardinality({}) = 0
    BY FS_EmptySet
  <1>7. summed.transcripts = 0 /\ summed.audit_logs = 0
    BY <1>4
  <1>8. PaperTables
    BY <1>4, <1>5, <1>6, <1>7 DEF PaperTables
  <1>9. \A c \in Callers : ~Cleaning(c)
    BY <1>1, <1>2 DEF Cleaning
  <1>10. Books
    BY <1>4, <1>6, <1>7, <1>9 DEF Books, AllSaid
  <1> QED
    BY <1>1, <1>2, <1>8, <1>10 DEF CleanInv, CleanCall

\* Transcripts are handed in anew with a version of their own, or fall due, or go.
PapersStay ==
  /\ handedIn \in Nat /\ handedIn' \in Nat /\ handedIn <= handedIn'
  /\ \A p \in Papers : \/ transcript'[p] = transcript[p] \/ transcript'[p] = None
                       \/ transcript'[p].version \in Nat /\ transcript'[p].version > handedIn
                       \/ transcript'[p].due
\* So what was read stays known.
LEMMA CleanOthersKnow ==
  ASSUME NEW x, CleanCall(x), PapersStay PROVE CleanCall(x)'
  <1>1. ASSUME NEW r, WasDue(r) PROVE WasDue(r)'
    BY <1>1 DEF WasDue, PapersStay
  <1> QED
    BY <1>1 DEF CleanCall, CleanKnows

\* A step keeps the invariant if its own call knows what it should and the books balance.
LEMMA CleanKeeps ==
  ASSUME CleanInv, NEW c \in Callers, PapersStay, PaperTables', Books', CleanCall(call[c])',
         \A d \in Callers \ {c} : call'[d] = call[d]
  PROVE CleanInv'
  <1>1. SUFFICES ASSUME NEW d \in Callers \ {c} PROVE CleanCall(call[d])'
    BY DEF CleanInv
  <1>2. PICK x : x = call[d]
    OBVIOUS
  <1>3. CleanCall(x)'
    BY <1>1, <1>2, CleanOthersKnow DEF CleanInv
  <1> QED
    BY <1>1, <1>2, <1>3

\* A step that is no clean-up's.
LEMMA CleanBeside ==
  ASSUME CleanInv, Spares({"cleanup"}), UNCHANGED cleanVars PROVE CleanInv'
  <1>1. PaperTables' /\ PapersStay
    BY DEF CleanInv, PaperTables, PapersStay, cleanVars
  <1>2. \A d \in Callers : Cleaning(d)' => call'[d] = call[d] /\ Cleaning(d)
    BY DEF Spares, Cleaning
  <1>3. \A d \in Callers : Cleaning(d) => call'[d] = call[d] /\ Cleaning(d)'
    BY DEF Spares, Cleaning
  <1>4. Books'
    BY <1>2, <1>3 DEF CleanInv, Books, AllSaid, Owes, cleanVars
  <1>5. SUFFICES ASSUME NEW d \in Callers PROVE CleanCall(call[d])'
    BY <1>1, <1>4 DEF CleanInv
  <1>6. PICK y : y = call'[d]
    OBVIOUS
  <1>7. CASE y.op = "cleanup"
    <2>1. CleanCall(y)
      BY <1>6, <1>7 DEF Spares, CleanInv
    <2> QED
      BY <1>1, <1>6, <2>1, CleanOthersKnow
  <1>8. CASE y.op # "cleanup"
    BY <1>6, <1>8 DEF CleanCall
  <1> QED
    BY <1>7, <1>8

\* The books of a clean-up that goes on.
LEMMA CleanGoesOn ==
  ASSUME CallsSound, CleanInv, NEW c \in Callers, call[c].op = "cleanup", call[c].pc # "idle",
         NEW pc, NEW seen, Goto(c, pc, seen, {}), pc # "idle",
         NEW y, y = [op |-> call[c].op, pc |-> pc, arg |-> call[c].arg, seen |-> seen, result |-> call[c].result],
         PapersStay, PaperTables', unsummed' = unsummed, CleanKnows(y)', ~unsummed /\ Owes(call[c]) => Owes(y)'
  PROVE CleanInv'
  <1>1. call'[c] = y /\ \A d \in Callers \ {c} : call'[d] = call[d]
    <2>1. CallsOK
      BY DEF CallsSound
    <2>2. /\ call'[c] = [op |-> call[c].op, pc |-> pc, arg |-> call[c].arg, seen |-> seen, result |-> call[c].result]
          /\ \A d \in Callers \ {c} : Sees(c, d, {})
      BY <2>1, GotoDoes
    <2> QED
      BY <2>2 DEF Sees
  <1>2. y.op = "cleanup" /\ y.pc = pc
    OBVIOUS
  <1>3. \A d \in Callers : Cleaning(d)' <=> Cleaning(d)
    BY <1>1, <1>2 DEF Cleaning
  <1>4. Books'
    <2>1. SUFFICES ASSUME ~unsummed
          PROVE /\ \A b, d \in Callers : Cleaning(b)' /\ Cleaning(d)' => b = d
                /\ \A d \in Callers : Cleaning(d)' => Owes(call[d])'
      BY <1>1, <1>2, <1>3 DEF Books, Cleaning
    <2>2. \A b, d \in Callers : Cleaning(b) /\ Cleaning(d) => b = d
      BY <2>1 DEF CleanInv, Books
    <2>3. Cleaning(c) /\ Owes(call[c])
      BY <2>1 DEF CleanInv, Books, Cleaning
    <2>4. Owes(call[c])'
      BY <1>1, <2>1, <2>3
    <2> QED
      BY <1>3, <2>2, <2>3, <2>4
  <1>5. CleanCall(call[c])'
    BY <1>1 DEF CleanCall
  <1> QED
    BY <1>1, <1>4, <1>5, CleanKeeps

\* And of one that ends.
LEMMA CleanEnds ==
  ASSUME CallsSound, CleanInv, NEW c \in Callers, call[c].op = "cleanup", call[c].pc # "idle",
         NEW result, End(c, result, {}),
         PapersStay, PaperTables', unsummed' = unsummed, ~unsummed /\ Owes(call[c]) => AllSaid'
  PROVE CleanInv'
  <1>1. call'[c].pc = "idle" /\ \A d \in Callers \ {c} : call'[d] = call[d]
    BY EndDoes DEF CallsSound, Sees
  <1>2. \A d \in Callers : Cleaning(d)' <=> Cleaning(d) /\ d # c
    BY <1>1 DEF Cleaning
  <1>3. Books'
    <2>1. SUFFICES ASSUME ~unsummed
          PROVE (\A d \in Callers : ~Cleaning(d)') /\ AllSaid'
      BY DEF Books
    <2>2. \A b, d \in Callers : Cleaning(b) /\ Cleaning(d) => b = d
      BY <2>1 DEF CleanInv, Books
    <2>3. Cleaning(c) /\ Owes(call[c])
      BY <2>1 DEF CleanInv, Books, Cleaning
    <2> QED
      BY <1>2, <2>1, <2>2, <2>3
  <1> QED
    BY <1>1, <1>3, CleanKeeps DEF CleanCall

\* Transcripts change beside it.
LEMMA PapersChange ==
  ASSUME CallsSound, CleanInv, NEW c \in Callers, NEW op, Atomically(c, op, {}),
         PapersStay, PaperTables', UNCHANGED <<unsummed, summed, purged, trimmed>>,
         \A p \in Papers : transcript[p] # None => transcript'[p] # None
  PROVE CleanInv'
  <1>1. call' = call
    BY AtomicallyDoes DEF CallsSound
  <1>2. \A d \in Callers : Cleaning(d)' <=> Cleaning(d)
    BY <1>1 DEF Cleaning
  <1>3. ASSUME NEW x, CleanKnows(x), Owes(x) PROVE Owes(x)'
    BY <1>3 DEF CleanKnows, WasDue, Owes
  <1>4. Books'
    <2>1. SUFFICES ASSUME ~unsummed
          PROVE Books'
      BY DEF Books
    <2>2. ASSUME NEW d \in Callers, Cleaning(d) PROVE Owes(call[d])'
      <3>1. PICK x : x = call[d]
        OBVIOUS
      <3>2. CleanKnows(x) /\ Owes(x)
        BY <2>1, <2>2, <3>1 DEF CleanInv, Books, Cleaning, CleanCall
      <3> QED
        BY <1>1, <1>3, <3>1, <3>2
    <2> QED
      BY <1>2, <2>1, <2>2 DEF CleanInv, Books, AllSaid
  <1>5. PICK x : x = call[c]
    OBVIOUS
  <1>6. CleanCall(call[c])'
    BY <1>1, <1>5, CleanOthersKnow DEF CleanInv
  <1> QED
    BY <1>1, <1>4, <1>6, CleanKeeps

\* What a clean-up knows, part by part.
LEMMA CleanParts ==
  ASSUME NEW s, NEW others, NEW batch, NEW last, NEW total, NEW ended,
         s = [others |-> others, batch |-> batch, last |-> last, total |-> total, ended |-> ended]
  PROVE /\ s.others = others /\ s.batch = batch /\ s.last = last /\ s.total = total /\ s.ended = ended
        /\ SweepSeen(s)
  BY DEF SweepSeen

Batched(s, b, l) == [s EXCEPT !.batch = b, !.last = l]
\* A new batch.
LEMMA BatchRead ==
  ASSUME NEW s, SweepSeen(s), NEW b, NEW l
  PROVE Batched(s, b, l) =
          [others |-> s.others, batch |-> b, last |-> l, total |-> s.total, ended |-> s.ended]
  <1>1. s \in [others : {s.others}, batch : {s.batch}, last : {s.last}, total : {s.total}, ended : {s.ended}]
    BY DEF SweepSeen
  <1>2. PICK y : y = [s EXCEPT !.batch = b, !.last = l]
    BY Zenon
  <1>3. y = [others |-> s.others, batch |-> b, last |-> l, total |-> s.total, ended |-> s.ended]
    BY <1>1, <1>2
  <1> QED
    BY <1>2, <1>3, Zenon DEF Batched

\* One of it is cleared.
LEMMA BatchCleared ==
  ASSUME NEW s, SweepSeen(s), NEW b, NEW n
  PROVE [s EXCEPT !.batch = b, !.total = n] =
          [others |-> s.others, batch |-> b, last |-> s.last, total |-> n, ended |-> s.ended]
  <1>1. s \in [others : {s.others}, batch : {s.batch}, last : {s.last}, total : {s.total}, ended : {s.ended}]
    BY DEF SweepSeen
  <1>2. PICK y : y = [s EXCEPT !.batch = b, !.total = n]
    BY Zenon
  <1>3. y = [others |-> s.others, batch |-> b, last |-> s.last, total |-> n, ended |-> s.ended]
    BY <1>1, <1>2
  <1> QED
    BY <1>2, <1>3, Zenon

Closed(s, e, l) == [s EXCEPT !.ended = e, !.last = l]
\* No batch is left.
LEMMA BatchesEnded ==
  ASSUME NEW s, SweepSeen(s), NEW e, NEW l
  PROVE Closed(s, e, l) =
          [others |-> s.others, batch |-> s.batch, last |-> l, total |-> s.total, ended |-> e]
  <1>1. s \in [others : {s.others}, batch : {s.batch}, last : {s.last}, total : {s.total}, ended : {s.ended}]
    BY DEF SweepSeen
  <1>2. PICK y : y = [s EXCEPT !.ended = e, !.last = l]
    BY Zenon
  <1>3. y = [others |-> s.others, batch |-> s.batch, last |-> l, total |-> s.total, ended |-> e]
    BY <1>1, <1>2
  <1> QED
    BY <1>2, <1>3, Zenon DEF Closed

\* The other sweeps have ended, or failed.
LEMMA OthersEnded ==
  ASSUME NEW s, SweepSeen(s), NEW o
  PROVE [s EXCEPT !.others = o] =
          [others |-> o, batch |-> s.batch, last |-> s.last, total |-> s.total, ended |-> s.ended]
  <1>1. s \in [others : {s.others}, batch : {s.batch}, last : {s.last}, total : {s.total}, ended : {s.ended}]
    BY DEF SweepSeen
  <1>2. PICK y : y = [s EXCEPT !.others = o]
    BY Zenon
  <1>3. y = [others |-> o, batch |-> s.batch, last |-> s.last, total |-> s.total, ended |-> s.ended]
    BY <1>1, <1>2
  <1> QED
    BY <1>2, <1>3, Zenon

\* Rows of the log are counted.
LEMMA CountedAnew ==
  ASSUME NEW s, SweepSeen(s), NEW n
  PROVE [s EXCEPT !.total = n] =
          [others |-> s.others, batch |-> s.batch, last |-> s.last, total |-> n, ended |-> s.ended]
  <1>1. s \in [others : {s.others}, batch : {s.batch}, last : {s.last}, total : {s.total}, ended : {s.ended}]
    BY DEF SweepSeen
  <1>2. PICK y : y = [s EXCEPT !.total = n]
    BY Zenon
  <1>3. y = [others |-> s.others, batch |-> s.batch, last |-> s.last, total |-> n, ended |-> s.ended]
    BY <1>1, <1>2
  <1> QED
    BY <1>2, <1>3, Zenon

\* It begins.
LEMMA CleanBegins ==
  ASSUME CallsSound, CleanInv, NEW c \in Callers, CleanUp(c) PROVE CleanInv'
  <1>1. PICK s : s = [others |-> "running", batch |-> {}, last |-> FALSE, total |-> 0, ended |-> FALSE]
    OBVIOUS
  <1>2. PICK y : y = [op |-> "cleanup", pc |-> "sweeps", arg |-> None, seen |-> s, result |-> None]
    OBVIOUS
  <1>3. /\ Begin(c, "cleanup", "sweeps", None, s)
        /\ unsummed' = (unsummed \/ \E d \in Callers : Cleaning(d))
        /\ UNCHANGED <<transcript, handedIn, logbook, summed, purged, trimmed>>
    BY <1>1 DEF CleanUp
  <1>4. call[c].pc = "idle" /\ call'[c] = y /\ \A d \in Callers \ {c} : call'[d] = call[d]
    <2>1. CallsOK
      BY DEF CallsSound
    <2>2. /\ call[c].pc = "idle"
          /\ call'[c] = [op |-> "cleanup", pc |-> "sweeps", arg |-> None, seen |-> s, result |-> None]
          /\ \A d \in Callers \ {c} : call'[d] = call[d]
      BY <1>3, <2>1, BeginDoes
    <2> QED
      BY <1>2, <2>2
  <1>5. PaperTables' /\ PapersStay
    BY <1>3 DEF CleanInv, PaperTables, PapersStay
  <1>6. /\ y.op = "cleanup" /\ y.pc = "sweeps" /\ y.seen = s
        /\ s.batch = {} /\ s.total = 0 /\ s.ended = FALSE
        /\ SweepSeen(s)
    BY <1>1, <1>2, CleanParts
  <1>7. CleanCall(y)'
    BY <1>6 DEF CleanCall, CleanKnows
  <1>8. Books'
    <2>1. SUFFICES ASSUME ~unsummed, \A d \in Callers : ~Cleaning(d) PROVE Books'
      BY <1>3 DEF Books
    <2>2. \A d \in Callers : Cleaning(d)' <=> d = c
      BY <1>4, <1>6, <2>1 DEF Cleaning
    <2>3. AllSaid
      BY <2>1 DEF CleanInv, Books
    <2>4. summed.transcripts \in Nat /\ summed.audit_logs \in Nat
      BY DEF CleanInv, PaperTables
    <2>5. Owes(y)'
      BY <1>3, <1>6, <2>3, <2>4 DEF Owes, AllSaid
    <2> QED
      BY <1>4, <2>2, <2>5 DEF Books
  <1> QED
    BY <1>4, <1>5, <1>7, <1>8, CleanKeeps

\* It reads a batch of what is due.
LEMMA CleanReads ==
  ASSUME CallsSound, CleanInv, NEW c \in Callers, ReadBatch(c) PROVE CleanInv'
  <1>1. PICK x : x = call[c]
    OBVIOUS
  <1>2. x.op = "cleanup" /\ x.pc \in {"sweeps", "failed"} /\ x.seen.batch = {} /\ ~x.seen.last /\ UNCHANGED sweepVars
    BY <1>1 DEF ReadBatch, Sweeping, At
  <1>3. PICK papers \in Batches(Due) :
          Goto(c, x.pc, [x.seen EXCEPT !.batch = {[paper |-> p, version |-> transcript[p].version] : p \in papers},
                                       !.last = Cardinality(papers) < BatchSize], {})
    BY <1>1 DEF ReadBatch
  <1>4. PICK batch, last : /\ batch = {[paper |-> p, version |-> transcript[p].version] : p \in papers}
                           /\ last = (Cardinality(papers) < BatchSize)
    OBVIOUS
  <1>5. CleanKnows(x)
    BY <1>1, <1>2 DEF CleanInv, CleanCall
  <1>6. PICK s : s = [others |-> x.seen.others, batch |-> batch, last |-> last, total |-> x.seen.total, ended |-> x.seen.ended]
    OBVIOUS
  <1>7. Goto(c, x.pc, s, {})
    <2>1. [x.seen EXCEPT !.batch = batch, !.last = last] = s
      <3>1. PICK old : old = x.seen /\ SweepSeen(old)
        BY <1>5 DEF CleanKnows
      <3>2. Batched(old, batch, last) =
              [others |-> old.others, batch |-> batch, last |-> last, total |-> old.total, ended |-> old.ended]
        BY <3>1, BatchRead
      <3> QED
        BY <1>6, <3>1, <3>2, Zenon DEF Batched
    <2> QED
      BY <1>3, <1>4, <2>1, Zenon
  <1>8. PICK y : y = [op |-> x.op, pc |-> x.pc, arg |-> x.arg, seen |-> s, result |-> x.result]
    OBVIOUS
  <1>9. /\ y.pc = x.pc /\ y.seen = s
        /\ s.batch = batch /\ s.total = x.seen.total /\ s.ended = x.seen.ended
        /\ SweepSeen(s)
    BY <1>6, <1>8, CleanParts
  <1>10. PaperTables' /\ PapersStay /\ unsummed' = unsummed
    BY <1>2 DEF CleanInv, PaperTables, PapersStay, sweepVars
  <1>11. \A r \in batch : \E p \in papers : r.paper = p /\ r.version = transcript[p].version
                                            /\ r = [paper |-> p, version |-> transcript[p].version]
    BY <1>4
  <1>12. \A p \in papers : p \in Papers /\ transcript[p] # None /\ transcript[p].due
                           /\ transcript[p].version \in Nat /\ transcript[p].version <= handedIn
    BY DEF Batches, Due, CleanInv, PaperTables, PaperRow
  <1>13. \A r \in batch : WasDue(r)
    BY <1>11, <1>12 DEF WasDue
  <1>14. \A r, t \in batch : r.paper = t.paper => r = t
    BY <1>11
  <1>15. ~x.seen.ended
    BY <1>2, <1>5 DEF CleanKnows
  <1>16. CleanKnows(y)
    BY <1>2, <1>5, <1>9, <1>13, <1>14, <1>15 DEF CleanKnows
  <1>17. CleanKnows(y)'
    BY <1>2, <1>16 DEF CleanKnows, WasDue, sweepVars
  <1>18. Owes(x) => Owes(y)'
    BY <1>2, <1>9, <1>11, <1>12 DEF Owes, sweepVars
  <1> QED
    BY <1>1, <1>2, <1>7, <1>8, <1>10, <1>17, <1>18, CleanGoesOn

\* It clears a transcript it has read.
LEMMA CleanClears ==
  ASSUME CallsSound, CleanInv, NEW c \in Callers, ClearTranscript(c) PROVE CleanInv'
  <1>1. PICK x : x = call[c]
    OBVIOUS
  <1>2. x.op = "cleanup" /\ x.pc \in {"sweeps", "failed"} /\ UNCHANGED <<handedIn, logbook, summed, trimmed, unsummed>>
    BY <1>1 DEF ClearTranscript, Sweeping, At
  <1>3. PICK read \in x.seen.batch :
          /\ transcript' = [transcript EXCEPT ![read.paper] = None]
          /\ purged' = IF transcript[read.paper] = None THEN purged
                       ELSE purged \cup {[paper |-> read.paper, version |-> transcript[read.paper].version,
                                          due |-> transcript[read.paper].due,
                                          resubmitted |-> transcript[read.paper].version # read.version]}
          /\ Goto(c, x.pc, [x.seen EXCEPT !.batch = x.seen.batch \ {read}, !.total = x.seen.total + 1], {})
    BY <1>1 DEF ClearTranscript
  <1>4. CleanKnows(x)
    BY <1>1, <1>2 DEF CleanInv, CleanCall
  <1>5. PICK p, batch, total : p = read.paper /\ batch = x.seen.batch \ {read} /\ total = x.seen.total + 1
    BY Zenon
  <1>6. PICK s : s = [others |-> x.seen.others, batch |-> batch, last |-> x.seen.last, total |-> total, ended |-> x.seen.ended]
    OBVIOUS
  <1>7. Goto(c, x.pc, s, {})
    <2>1. [x.seen EXCEPT !.batch = batch, !.total = total] = s
      BY <1>4, <1>6, BatchCleared DEF CleanKnows
    <2> QED
      BY <1>3, <1>5, <2>1, Zenon
  <1>8. PICK y : y = [op |-> x.op, pc |-> x.pc, arg |-> x.arg, seen |-> s, result |-> x.result]
    OBVIOUS
  <1>9. /\ y.pc = x.pc /\ y.seen = s
        /\ s.batch = batch /\ s.total = total /\ s.ended = x.seen.ended /\ s.last = x.seen.last
        /\ SweepSeen(s)
    BY <1>6, <1>8, CleanParts
  <1>10. /\ p \in Papers /\ WasDue(read) /\ ~x.seen.ended
         /\ total \in Nat /\ x.seen.total \in Nat /\ total = x.seen.total + 1
    BY <1>4, <1>5 DEF CleanKnows, WasDue
  <1>11. PaperTables
    BY DEF CleanInv
  <1>12. transcript' = [q \in Papers |-> IF q = p THEN None ELSE transcript[q]]
    BY <1>3, <1>5, <1>11 DEF PaperTables
  <1>13. PapersStay
    BY <1>2, <1>11, <1>12 DEF PapersStay, PaperTables
  <1>14. CleanKnows(y)'
    <2>1. \A r \in batch : WasDue(r)'
      BY <1>2, <1>4, <1>5, <1>12 DEF CleanKnows, WasDue
    <2>2. \A r, t \in batch : r.paper = t.paper => r = t
      BY <1>4, <1>5 DEF CleanKnows
    <2> QED
      BY <1>2, <1>4, <1>9, <1>10, <2>1, <2>2 DEF CleanKnows
  <1>15. \A r \in batch : r.paper # p /\ r.paper \in Papers /\ r \in x.seen.batch
    BY <1>4, <1>5 DEF CleanKnows, WasDue
  <1>16. Owes(x) => \A r \in batch : transcript'[r.paper] # None
    BY <1>12, <1>15 DEF Owes
  <1>17. CASE transcript[p] = None
    <2>1. purged' = purged
      BY <1>3, <1>5, <1>17
    <2>2. PaperTables'
      BY <1>2, <1>11, <1>12, <2>1 DEF PaperTables
    <2>3. ~Owes(x)
      BY <1>5, <1>17 DEF Owes
    <2> QED
      BY <1>1, <1>2, <1>7, <1>8, <1>13, <1>14, <2>2, <2>3, CleanGoesOn
  <1>18. CASE transcript[p] # None
    <2>1. PICK t : t = [paper |-> p, version |-> transcript[p].version, due |-> transcript[p].due,
                        resubmitted |-> transcript[p].version # read.version]
      OBVIOUS
    <2>2. purged' = purged \cup {t}
      BY <1>3, <1>5, <1>18, <2>1, Zenon
    <2>3. transcript[p].version \in Nat /\ transcript[p].version <= handedIn
      BY <1>10, <1>11, <1>18 DEF PaperTables, PaperRow
    <2>4. t.paper = p /\ t.version = transcript[p].version /\ (t.due \/ t.resubmitted)
      BY <1>5, <1>10, <1>18, <2>1 DEF WasDue
    <2>5. t \notin purged
      BY <1>11, <1>18, <2>3, <2>4 DEF PaperTables
    <2>6. IsFiniteSet(purged)
      BY <1>11 DEF PaperTables
    <2>7. IsFiniteSet(purged') /\ Cardinality(purged') = Cardinality(purged) + 1 /\ Cardinality(purged) \in Nat
      BY <2>2, <2>5, <2>6, FS_AddElement, FS_CardinalityType
    <2>8. PaperTables'
      <3>1. \A u \in purged' : /\ u.paper \in Papers /\ (u.due \/ u.resubmitted) /\ u.version \in Nat /\ u.version <= handedIn
                               /\ transcript'[u.paper] # None => u.version < transcript'[u.paper].version
        BY <1>10, <1>11, <1>12, <2>2, <2>3, <2>4 DEF PaperTables
      <3>2. \A q \in Papers : transcript'[q] # None => transcript'[q] \in PaperRow /\ transcript'[q].version <= handedIn
        BY <1>11, <1>12 DEF PaperTables
      <3> QED
        BY <1>2, <1>11, <1>12, <2>7, <3>1, <3>2 DEF PaperTables
    <2>9. Owes(x) => Owes(y)'
      <3>1. SUFFICES ASSUME Owes(x) PROVE Owes(y)'
        OBVIOUS
      <3>2. /\ summed.transcripts + x.seen.total = Cardinality(purged)
            /\ summed.audit_logs + 0 = Cardinality(trimmed)
            /\ summed.transcripts \in Nat /\ summed.audit_logs \in Nat
        BY <1>2, <1>10, <1>11, <3>1 DEF Owes, PaperTables
      <3>3. summed.transcripts + total = Cardinality(purged')
        BY <1>10, <2>7, <3>2
      <3> QED
        BY <1>2, <1>9, <1>10, <1>16, <3>1, <3>2, <3>3 DEF Owes
    <2> QED
      BY <1>1, <1>2, <1>7, <1>8, <1>13, <1>14, <2>8, <2>9, CleanGoesOn
  <1> QED
    BY <1>17, <1>18

\* Nothing is left to be cleared: it says what it has cleared.
LEMMA CleanSays ==
  ASSUME CallsSound, CleanInv, NEW c \in Callers, EndTranscripts(c) PROVE CleanInv'
  <1>1. PICK x : x = call[c]
    OBVIOUS
  <1>2. /\ x.op = "cleanup" /\ x.pc \in {"sweeps", "failed"} /\ ~x.seen.ended /\ x.seen.batch = {}
        /\ UNCHANGED <<transcript, handedIn, logbook, purged, trimmed, unsummed>>
        /\ summed' = [summed EXCEPT !["transcripts"] = @ + x.seen.total]
        /\ Goto(c, x.pc, [x.seen EXCEPT !.ended = TRUE, !.last = TRUE], {})
    BY <1>1 DEF EndTranscripts, Sweeping, At, Summed
  <1>3. CleanKnows(x)
    BY <1>1, <1>2 DEF CleanInv, CleanCall
  <1>4. PICK s : s = [others |-> x.seen.others, batch |-> x.seen.batch, last |-> TRUE, total |-> x.seen.total, ended |-> TRUE]
    OBVIOUS
  <1>5. Goto(c, x.pc, s, {})
    <2>1. [x.seen EXCEPT !.ended = TRUE, !.last = TRUE] = s
      <3>1. PICK old, yes : old = x.seen /\ yes = TRUE /\ SweepSeen(old)
        BY <1>3 DEF CleanKnows
      <3>2. Closed(old, yes, yes) =
              [others |-> old.others, batch |-> old.batch, last |-> yes, total |-> old.total, ended |-> yes]
        BY <3>1, BatchesEnded
      <3> QED
        BY <1>4, <3>1, <3>2, Zenon DEF Closed
    <2> QED
      BY <1>2, <2>1, Zenon
  <1>6. PICK y : y = [op |-> x.op, pc |-> x.pc, arg |-> x.arg, seen |-> s, result |-> x.result]
    OBVIOUS
  <1>7. /\ y.pc = x.pc /\ y.seen = s
        /\ s.batch = x.seen.batch /\ s.total = x.seen.total /\ s.ended = TRUE /\ s.last = TRUE
        /\ SweepSeen(s)
    BY <1>4, <1>6, CleanParts
  <1>8. PaperTables /\ x.seen.total \in Nat
    BY <1>3 DEF CleanInv, CleanKnows
  <1>9. summed'.transcripts = summed.transcripts + x.seen.total /\ summed'.audit_logs = summed.audit_logs
        /\ summed' = [transcripts |-> summed'.transcripts, audit_logs |-> summed'.audit_logs]
    <2>1. PICK m, a, b, n : m = summed /\ a = m.transcripts /\ b = m.audit_logs /\ n = a + x.seen.total
      BY Zenon
    <2>2. m = [transcripts |-> a, audit_logs |-> b]
      BY <1>8, <2>1 DEF PaperTables
    <2>3. [m EXCEPT !["transcripts"] = n] = [transcripts |-> n, audit_logs |-> b]
      BY <2>2
    <2>4. summed' = [transcripts |-> n, audit_logs |-> b]
      BY <1>2, <2>1, <2>3, Zenon
    <2> QED
      BY <2>1, <2>4
  <1>10. PaperTables' /\ PapersStay
    BY <1>2, <1>8, <1>9 DEF PaperTables, PapersStay
  <1>11. CleanKnows(y)'
    BY <1>2, <1>3, <1>7 DEF CleanKnows
  <1>12. Owes(x) => Owes(y)'
    <2>1. summed.transcripts \in Nat /\ summed.audit_logs \in Nat
      BY <1>8 DEF PaperTables
    <2> QED
      BY <1>2, <1>7, <1>8, <1>9, <2>1 DEF Owes
  <1> QED
    BY <1>1, <1>2, <1>5, <1>6, <1>10, <1>11, <1>12, CleanGoesOn

\* The other sweeps end, or one of them fails.
LEMMA OthersLeave ==
  ASSUME CallsSound, CleanInv, NEW c \in Callers, OthersEnd(c) PROVE CleanInv'
  <1>1. PICK x : x = call[c]
    OBVIOUS
  <1>2. x.op = "cleanup" /\ x.pc = "sweeps" /\ UNCHANGED sweepVars
    BY <1>1 DEF OthersEnd, At
  <1>3. PICK pc, others : pc \in {"sweeps", "failed"} /\ Goto(c, pc, [x.seen EXCEPT !.others = others], {})
    <2>1. CASE Goto(c, "sweeps", [x.seen EXCEPT !.others = "ended"], {})
      <3> WITNESS "sweeps", "ended"
      <3> QED
        BY <2>1, Zenon
    <2>2. CASE Goto(c, "failed", [x.seen EXCEPT !.others = "failed"], {})
      <3> WITNESS "failed", "failed"
      <3> QED
        BY <2>2, Zenon
    <2> QED
      BY <1>1, <2>1, <2>2, Zenon DEF OthersEnd
  <1>4. CleanKnows(x)
    BY <1>1, <1>2 DEF CleanInv, CleanCall
  <1>5. PICK s : s = [others |-> others, batch |-> x.seen.batch, last |-> x.seen.last, total |-> x.seen.total, ended |-> x.seen.ended]
    OBVIOUS
  <1>6. Goto(c, pc, s, {})
    <2>1. [x.seen EXCEPT !.others = others] = s
      BY <1>4, <1>5, OthersEnded DEF CleanKnows
    <2> QED
      BY <1>3, <2>1, Zenon
  <1>7. PICK y : y = [op |-> x.op, pc |-> pc, arg |-> x.arg, seen |-> s, result |-> x.result]
    OBVIOUS
  <1>8. /\ y.pc = pc /\ y.seen = s
        /\ s.batch = x.seen.batch /\ s.total = x.seen.total /\ s.ended = x.seen.ended /\ s.last = x.seen.last
        /\ SweepSeen(s)
    BY <1>5, <1>7, CleanParts
  <1>9. PaperTables' /\ PapersStay /\ unsummed' = unsummed
    BY <1>2 DEF CleanInv, PaperTables, PapersStay, sweepVars
  <1>10. CleanKnows(y)
    BY <1>2, <1>3, <1>4, <1>8 DEF CleanKnows
  <1>11. CleanKnows(y)'
    BY <1>2, <1>10 DEF CleanKnows, WasDue, sweepVars
  <1>12. Owes(x) => Owes(y)'
    BY <1>2, <1>3, <1>8 DEF Owes, sweepVars
  <1> QED
    BY <1>1, <1>2, <1>3, <1>6, <1>7, <1>9, <1>11, <1>12, CleanGoesOn

\* A clean-up that one of them has failed ends as well.
LEMMA CleanFails ==
  ASSUME CallsSound, CleanInv, NEW c \in Callers, EndFailed(c) PROVE CleanInv'
  <1>1. PICK x : x = call[c]
    OBVIOUS
  <1>2. x.op = "cleanup" /\ x.pc = "failed" /\ x.seen.ended /\ End(c, "failed", {}) /\ UNCHANGED sweepVars
    BY <1>1 DEF EndFailed, At
  <1>3. PaperTables' /\ PapersStay /\ unsummed' = unsummed
    BY <1>2 DEF CleanInv, PaperTables, PapersStay, sweepVars
  <1>4. summed.transcripts \in Nat /\ summed.audit_logs \in Nat
    BY DEF CleanInv, PaperTables
  <1>5. Owes(x) => AllSaid'
    BY <1>2, <1>4 DEF Owes, AllSaid, sweepVars
  <1> QED
    BY <1>1, <1>2, <1>3, <1>5, CleanEnds

\* When all have ended, rows of the log are next.
LEMMA CleanTrims ==
  ASSUME CallsSound, CleanInv, NEW c \in Callers, TrimLog(c) PROVE CleanInv'
  <1>1. PICK x : x = call[c]
    OBVIOUS
  <1>2. x.op = "cleanup" /\ x.pc = "sweeps" /\ x.seen.ended /\ UNCHANGED sweepVars
        /\ Goto(c, "trim", [x.seen EXCEPT !.total = 0], {})
    BY <1>1 DEF TrimLog, At
  <1>4. CleanKnows(x)
    BY <1>1, <1>2 DEF CleanInv, CleanCall
  <1>5. PICK s : s = [others |-> x.seen.others, batch |-> x.seen.batch, last |-> x.seen.last, total |-> 0, ended |-> x.seen.ended]
    OBVIOUS
  <1>6. Goto(c, "trim", s, {})
    <2>1. [x.seen EXCEPT !.total = 0] = s
      BY <1>4, <1>5, CountedAnew DEF CleanKnows
    <2> QED
      BY <1>2, <2>1, Zenon
  <1>7. PICK y : y = [op |-> x.op, pc |-> "trim", arg |-> x.arg, seen |-> s, result |-> x.result]
    OBVIOUS
  <1>8. /\ y.pc = "trim" /\ y.seen = s
        /\ s.batch = x.seen.batch /\ s.total = 0 /\ s.ended = x.seen.ended /\ s.last = x.seen.last
        /\ SweepSeen(s)
    BY <1>5, <1>7, CleanParts
  <1>9. PaperTables' /\ PapersStay /\ unsummed' = unsummed
    BY <1>2 DEF CleanInv, PaperTables, PapersStay, sweepVars
  <1>10. CleanKnows(y)
    BY <1>2, <1>4, <1>8 DEF CleanKnows
  <1>11. CleanKnows(y)'
    BY <1>2, <1>10 DEF CleanKnows, WasDue, sweepVars
  <1>12. Owes(x) => Owes(y)'
    <2>1. summed.transcripts \in Nat /\ summed.audit_logs \in Nat
      BY DEF CleanInv, PaperTables
    <2> QED
      BY <1>2, <1>8, <2>1 DEF Owes, sweepVars
  <1> QED
    BY <1>1, <1>2, <1>6, <1>7, <1>9, <1>11, <1>12, CleanGoesOn

\* Rows are deleted, and the last of them is followed by the summary.
LEMMA CleanDeletes ==
  ASSUME CallsSound, CleanInv, NEW c \in Callers, DeleteRows(c) PROVE CleanInv'
  <1>1. PICK x : x = call[c]
    OBVIOUS
  <1>2. x.op = "cleanup" /\ x.pc = "trim" /\ UNCHANGED <<transcript, handedIn, purged, unsummed>>
    BY <1>1 DEF DeleteRows, At
  <1>3. PICK rows \in Batches(OldRows) :
          /\ logbook' = logbook \ rows /\ trimmed' = trimmed \cup rows
          /\ IF Cardinality(rows) < BatchSize
             THEN summed' = Summed("audit_logs", x.seen.total + Cardinality(rows)) /\ End(c, None, {})
             ELSE Goto(c, "trim", [x.seen EXCEPT !.total = x.seen.total + Cardinality(rows)], {}) /\ UNCHANGED summed
    BY <1>1, Zenon DEF DeleteRows
  <1>4. CleanKnows(x) /\ PaperTables
    BY <1>1, <1>2 DEF CleanInv, CleanCall
  <1>5. rows \subseteq logbook /\ (\A line \in rows : line.old)
    BY DEF Batches, OldRows
  <1>6. /\ IsFiniteSet(rows) /\ IsFiniteSet(logbook') /\ IsFiniteSet(trimmed')
        /\ Cardinality(trimmed') = Cardinality(trimmed) + Cardinality(rows)
        /\ Cardinality(rows) \in Nat /\ Cardinality(trimmed) \in Nat
    <2>1. IsFiniteSet(rows) /\ IsFiniteSet(trimmed) /\ IsFiniteSet(logbook)
      BY <1>4, <1>5, FS_Subset DEF PaperTables
    <2>2. rows \cap trimmed = {}
      BY <1>4, <1>5 DEF PaperTables
    <2>3. /\ IsFiniteSet(trimmed \cup rows)
          /\ Cardinality(trimmed \cup rows) = Cardinality(trimmed) + Cardinality(rows) - Cardinality(trimmed \cap rows)
      BY <2>1, FS_Union
    <2>4. Cardinality(trimmed \cap rows) = 0
      BY <2>2, FS_EmptySet
    <2>5. IsFiniteSet(logbook \ rows)
      BY <2>1, FS_Difference
    <2> QED
      BY <1>3, <2>1, <2>3, <2>4, <2>5, FS_CardinalityType
  <1>7. PapersStay
    BY <1>2, <1>4 DEF PaperTables, PapersStay
  <1>8. summed.transcripts \in Nat /\ summed.audit_logs \in Nat /\ x.seen.total \in Nat /\ x.seen.ended
    BY <1>2, <1>4 DEF PaperTables, CleanKnows
  <1>9. PICK total : total = x.seen.total + Cardinality(rows)
    OBVIOUS
  <1>10. total \in Nat
    BY <1>6, <1>8, <1>9
  <1>11. CASE Cardinality(rows) < BatchSize
    <2>1. summed' = [summed EXCEPT !["audit_logs"] = @ + total] /\ End(c, None, {})
      BY <1>3, <1>9, <1>11 DEF Summed
    <2>2. summed'.transcripts = summed.transcripts /\ summed'.audit_logs = summed.audit_logs + total
          /\ summed' = [transcripts |-> summed'.transcripts, audit_logs |-> summed'.audit_logs]
      <3>1. PICK m, a, b, n : m = summed /\ a = m.transcripts /\ b = m.audit_logs /\ n = b + total
        BY Zenon
      <3>2. m = [transcripts |-> a, audit_logs |-> b]
        BY <1>4, <3>1 DEF PaperTables
      <3>3. [m EXCEPT !["audit_logs"] = n] = [transcripts |-> a, audit_logs |-> n]
        BY <3>2
      <3>4. summed' = [transcripts |-> a, audit_logs |-> n]
        BY <2>1, <3>1, <3>3, Zenon
      <3> QED
        BY <3>1, <3>4
    <2>3. PaperTables'
      BY <1>2, <1>3, <1>4, <1>5, <1>6, <1>8, <1>10, <2>2 DEF PaperTables
    <2>4. Owes(x) => AllSaid'
      BY <1>2, <1>6, <1>8, <1>9, <2>2 DEF Owes, AllSaid
    <2> QED
      BY <1>1, <1>2, <1>7, <2>1, <2>3, <2>4, CleanEnds
  <1>12. CASE ~(Cardinality(rows) < BatchSize)
    <2>1. PICK s : s = [others |-> x.seen.others, batch |-> x.seen.batch, last |-> x.seen.last, total |-> total, ended |-> x.seen.ended]
      OBVIOUS
    <2>2. Goto(c, "trim", s, {}) /\ UNCHANGED summed
      <3>1. [x.seen EXCEPT !.total = total] = s
        BY <1>4, <2>1, CountedAnew DEF CleanKnows
      <3> QED
        BY <1>3, <1>9, <1>12, <3>1, Zenon
    <2>3. PICK y : y = [op |-> x.op, pc |-> "trim", arg |-> x.arg, seen |-> s, result |-> x.result]
      OBVIOUS
    <2>4. /\ y.pc = "trim" /\ y.seen = s
          /\ s.batch = x.seen.batch /\ s.total = total /\ s.ended = x.seen.ended /\ s.last = x.seen.last
          /\ SweepSeen(s)
      BY <2>1, <2>3, CleanParts
    <2>5. PaperTables'
      BY <1>2, <1>3, <1>4, <1>5, <1>6, <2>2 DEF PaperTables
    <2>6. CleanKnows(y)
      BY <1>2, <1>4, <1>10, <2>4 DEF CleanKnows
    <2>7. CleanKnows(y)'
      BY <1>2, <2>6 DEF CleanKnows, WasDue
    <2>8. Owes(x) => Owes(y)'
      BY <1>2, <1>6, <1>8, <1>9, <2>2, <2>4 DEF Owes
    <2> QED
      BY <1>1, <1>2, <1>7, <2>2, <2>3, <2>5, <2>7, <2>8, CleanGoesOn
  <1> QED
    BY <1>11, <1>12

\* A transcript that falls due.
LEMMA DueParts ==
  ASSUME NEW e, e \in [version : Nat, consented : BOOLEAN, due : BOOLEAN]
  PROVE [e EXCEPT !.due = TRUE] = [version |-> e.version, consented |-> e.consented, due |-> TRUE]
  <1>1. PICK y : y = [e EXCEPT !.due = TRUE]
    BY Zenon
  <1>2. y = [version |-> e.version, consented |-> e.consented, due |-> TRUE]
    BY <1>1
  <1> QED
    BY <1>1, <1>2, Zenon

\* A step of the nightly jobs keeps the books.
LEMMA CleanGoesThrough ==
  ASSUME CallsSound, CleanInv, NEW c \in Callers, SweepsStep(c) PROVE CleanInv'
  <1>0. PaperTables
    BY DEF CleanInv
  <1>1. CASE CrashCleanUp(c)
    <2>1. /\ call' = [call EXCEPT ![c] = Idle] /\ unsummed' = TRUE
          /\ UNCHANGED <<transcript, handedIn, logbook, summed, purged, trimmed>>
      BY <1>1 DEF CrashCleanUp
    <2>2. PaperTables' /\ PapersStay
      BY <1>0, <2>1 DEF PaperTables, PapersStay
    <2>3. Books'
      BY <2>1 DEF Books
    <2>4. call'[c] = Idle /\ \A d \in Callers \ {c} : call'[d] = call[d]
      BY <2>1 DEF CallsSound, CallsOK
    <2>5. Idle.pc = "idle"
      BY DEF Idle
    <2>6. CleanCall(call[c])'
      BY <2>4, <2>5 DEF CleanCall
    <2> QED
      BY <2>2, <2>3, <2>4, <2>6, CleanKeeps
  <1>2. CASE TranscriptFallsDue(c)
    <2>1. PICK p \in Papers : transcript[p] # None /\ transcript' = [transcript EXCEPT ![p].due = TRUE]
      BY <1>2 DEF TranscriptFallsDue
    <2>2. Atomically(c, "fallDue", {}) /\ UNCHANGED <<handedIn, logbook, summed, purged, trimmed, unsummed>>
      BY <1>2 DEF TranscriptFallsDue
    <2>3. PICK r : r = [version |-> transcript[p].version, consented |-> transcript[p].consented, due |-> TRUE]
      OBVIOUS
    <2>4. transcript[p] \in PaperRow /\ transcript[p].version <= handedIn
      BY <1>0, <2>1 DEF PaperTables
    <2>5. transcript' = [q \in Papers |-> IF q = p THEN r ELSE transcript[q]]
      <3>1. PICK e : e = transcript[p]
        OBVIOUS
      <3>2. [e EXCEPT !.due = TRUE] = r
        <4>1. e \in [version : Nat, consented : BOOLEAN, due : BOOLEAN]
              /\ r = [version |-> e.version, consented |-> e.consented, due |-> TRUE]
          BY <2>3, <2>4, <3>1 DEF PaperRow
        <4> QED
          BY <4>1, DueParts
      <3>3. transcript' = [transcript EXCEPT ![p] = [e EXCEPT !.due = TRUE]]
        BY <2>1, <3>1, Zenon
      <3> QED
        BY <1>0, <3>2, <3>3 DEF PaperTables
    <2>6. r \in PaperRow /\ r # None /\ r.version = transcript[p].version /\ r.due = TRUE
      <3>1. r \in PaperRow
        BY <2>3, <2>4 DEF PaperRow
      <3> QED
        BY <2>3, <3>1, SweepsAssumption
    <2>7. PapersStay
      BY <1>0, <2>2, <2>5, <2>6 DEF PaperTables, PapersStay
    <2>8. PaperTables'
      BY <1>0, <2>1, <2>2, <2>4, <2>5, <2>6 DEF PaperTables
    <2>9. \A q \in Papers : transcript[q] # None => transcript'[q] # None
      BY <2>5, <2>6
    <2> QED
      BY <2>2, <2>7, <2>8, <2>9, PapersChange
  <1>3. CASE SubmitTranscript(c)
    <2>1. PICK p \in Papers, consented \in BOOLEAN :
            transcript' = [transcript EXCEPT ![p] = [version |-> handedIn', consented |-> consented, due |-> FALSE]]
      BY <1>3 DEF SubmitTranscript
    <2>2. Atomically(c, "submitTranscript", {}) /\ handedIn' = handedIn + 1
          /\ UNCHANGED <<logbook, summed, purged, trimmed, unsummed>>
      BY <1>3 DEF SubmitTranscript
    <2>3. PICK n : n = handedIn + 1
      OBVIOUS
    <2>4. PICK r : r = [version |-> n, consented |-> consented, due |-> FALSE]
      OBVIOUS
    <2>5. n \in Nat /\ handedIn < n /\ handedIn' = n
      BY <1>0, <2>2, <2>3 DEF PaperTables
    <2>6. r \in PaperRow /\ r # None /\ r.version = n
      <3>1. r \in PaperRow
        BY <2>4, <2>5 DEF PaperRow
      <3> QED
        BY <2>4, <3>1, SweepsAssumption
    <2>7. transcript' = [q \in Papers |-> IF q = p THEN r ELSE transcript[q]]
      BY <1>0, <2>1, <2>4, <2>5 DEF PaperTables
    <2>8. PapersStay
      BY <1>0, <2>5, <2>6, <2>7 DEF PaperTables, PapersStay
    <2>9. PaperTables'
      <3>1. \A q \in Papers : transcript'[q] # None => transcript'[q] \in PaperRow /\ transcript'[q].version <= handedIn'
        <4>1. SUFFICES ASSUME NEW q \in Papers, transcript'[q] # None
              PROVE transcript'[q] \in PaperRow /\ transcript'[q].version <= n
          BY <2>5
        <4>2. CASE q = p
          BY <2>5, <2>6, <2>7, <4>2
        <4>3. CASE q # p
          <5>1. transcript'[q] = transcript[q] /\ transcript[q] # None
            BY <2>7, <4>1, <4>3
          <5>2. transcript[q] \in PaperRow /\ transcript[q].version \in Nat /\ transcript[q].version <= handedIn /\ handedIn \in Nat
            BY <1>0, <5>1 DEF PaperTables, PaperRow
          <5> QED
            BY <2>5, <5>1, <5>2
        <4> QED
          BY <4>2, <4>3
      <3>2. ASSUME NEW t \in purged', transcript'[t.paper] # None PROVE t.version < transcript'[t.paper].version
        <4>1. t \in purged /\ t.paper \in Papers
          BY <1>0, <2>2 DEF PaperTables
        <4>2. CASE t.paper = p
          <5>1. t.version \in Nat /\ t.version <= handedIn /\ handedIn \in Nat
            BY <1>0, <4>1 DEF PaperTables
          <5>2. transcript'[t.paper].version = n
            BY <2>6, <2>7, <4>1, <4>2
          <5> QED
            BY <2>5, <5>1, <5>2
        <4>3. CASE t.paper # p
          BY <1>0, <2>7, <3>2, <4>1, <4>3 DEF PaperTables
        <4> QED
          BY <4>2, <4>3
      <3> QED
        <4>1. \A t \in purged : t.version \in Nat /\ t.version <= handedIn'
          BY <1>0, <2>5 DEF PaperTables
        <4> QED
          BY <1>0, <2>2, <2>5, <2>7, <3>1, <3>2, <4>1 DEF PaperTables
    <2>10. \A q \in Papers : transcript[q] # None => transcript'[q] # None
      BY <2>6, <2>7
    <2> QED
      BY <2>2, <2>8, <2>9, <2>10, PapersChange
  <1>4. PICK ops : ops = {"cleanup"}
    OBVIOUS
  <1>5. "deliver" \notin ops /\ "recompute" \notin ops /\ None \notin ops
    BY <1>4, OfficeAssumption DEF SweepCalls
  <1>6. CASE Deliver(c)
    <2>1. Atomically(c, "deliver", {"delivered"}) /\ UNCHANGED cleanVars
      BY <1>6 DEF Deliver
    <2> QED
      BY <1>4, <2>1, AtomicallySpares, CleanBeside
  <1>7. CASE Recompute(c)
    <2>1. UNCHANGED cleanVars
      BY <1>7 DEF Recompute, sweepVars, cleanVars
    <2>2. Spares(ops)
      BY <1>5, <1>7, BeginSpares DEF Recompute
    <2> QED
      BY <1>4, <2>1, <2>2, CleanBeside
  <1>8. CASE UpsertEffect(c)
    <2>1. UNCHANGED cleanVars
      BY <1>8 DEF UpsertEffect
    <2>2. Spares(ops)
      BY <1>5, <1>8, GotoSpares DEF UpsertEffect, At
    <2> QED
      BY <1>4, <2>1, <2>2, CleanBeside
  <1>9. CASE EndRecompute(c)
    <2>1. UNCHANGED cleanVars
      BY <1>9 DEF EndRecompute
    <2>2. Spares(ops)
      BY <1>5, <1>9, EndSpares DEF EndRecompute, At, Refusals
    <2> QED
      BY <1>4, <2>1, <2>2, CleanBeside
  <1> QED
    BY <1>1, <1>2, <1>3, <1>6, <1>7, <1>8, <1>9, CleanBegins, CleanReads, CleanClears, CleanSays, OthersLeave,
       CleanFails, CleanTrims, CleanDeletes DEF SweepsStep

-----------------------------------------------------------------------------
(* Effectiveness: what a recompute has written is what it has read, unless *)
(* another one wrote between.                                              *)

Stats == [times : Nat, achieved : Nat]
EffectTables ==
  /\ delivered \in [Pairs -> Stats] /\ effect \in [Pairs -> Stats \cup {None}]
  /\ \A x \in Pairs : delivered[x].achieved <= delivered[x].times
  /\ \A x \in Pairs : effect[x] # None => effect[x].achieved <= effect[x].times /\ effect[x].times <= delivered[x].times
CountKnows(y, written) ==
  /\ y.pc = "upsert" /\ y.seen = [stats |-> y.seen.stats, waiting |-> y.seen.waiting]
  /\ y.seen.stats \in [Pairs -> Stats] /\ y.seen.waiting \subseteq Pairs
  /\ \A x \in Pairs : y.seen.stats[x].achieved <= y.seen.stats[x].times /\ y.seen.stats[x].times <= delivered[x].times
  /\ "effect" \notin written =>
       \A x \in Pairs \ y.seen.waiting : y.seen.stats[x].times > 0 => effect[x] = y.seen.stats[x]
CountCall(y, written) == y.op = "recompute" /\ y.pc # "idle" => CountKnows(y, written)
EffectInv == EffectTables /\ EffectIsCounted /\ \A d \in Callers : CountCall(call[d], crossed[d])

\* It is what the run checks.
LEMMA EffectInvIsTrue ==
  ASSUME EffectInv PROVE EffectIsCounted /\ SweepsTypeOK
  BY DEF EffectInv, EffectTables, SweepsTypeOK

\* At the start nothing was delivered.
LEMMA EffectStart ==
  ASSUME OfficeInit PROVE EffectInv
  <1>1. \A c \in Callers : call[c] = Idle
    BY CallsStart DEF OfficeInit, Init
  <1>2. Idle.pc = "idle"
    BY DEF Idle
  <1>3. delivered = [x \in Pairs |-> [times |-> 0, achieved |-> 0]] /\ effect = [x \in Pairs |-> None] /\ counted = None
    BY DEF OfficeInit, SweepsInit
  <1> QED
    BY <1>1, <1>2, <1>3 DEF EffectInv, EffectTables, Stats, EffectIsCounted, CountCall

\* What is counted only grows.
StatsGrow == \A x \in Pairs : delivered[x].times <= delivered'[x].times
\* A call that is not concerned knows what it knew.
LEMMA CountOthersKnow ==
  ASSUME NEW y, NEW written, NEW more, CountCall(y, written), written \subseteq more, EffectTables, EffectTables', StatsGrow,
         effect' = effect \/ "effect" \in more
  PROVE CountCall(y, more)'
  <1>1. SUFFICES ASSUME CountKnows(y, written) PROVE CountKnows(y, more)'
    BY DEF CountCall
  <1>2. ASSUME NEW x \in Pairs PROVE y.seen.stats[x].times <= delivered'[x].times
    <2>1. y.seen.stats[x].times \in Nat /\ delivered[x].times \in Nat /\ delivered'[x].times \in Nat
      BY <1>1 DEF CountKnows, EffectTables, Stats
    <2>2. y.seen.stats[x].times <= delivered[x].times /\ delivered[x].times <= delivered'[x].times
      BY <1>1 DEF CountKnows, StatsGrow
    <2> QED
      BY <2>1, <2>2
  <1> QED
    BY <1>1, <1>2 DEF CountKnows

\* A step keeps the invariant if its own call knows what it should.
LEMMA CountKeeps ==
  ASSUME EffectInv, NEW c \in Callers, EffectTables', StatsGrow, EffectIsCounted', CountCall(call[c], crossed[c])',
         \A d \in Callers \ {c} : call'[d] = call[d] /\ crossed[d] \subseteq crossed'[d],
         effect' = effect \/ \A d \in Callers \ {c} : call[d].pc # "idle" => "effect" \in crossed'[d]
  PROVE EffectInv'
  <1>1. SUFFICES ASSUME NEW d \in Callers \ {c} PROVE CountCall(call[d], crossed[d])'
    BY DEF EffectInv
  <1>2. PICK x, w, m : x = call[d] /\ w = crossed[d] /\ m = crossed'[d]
    OBVIOUS
  <1>3. CASE x.pc = "idle"
    BY <1>1, <1>2, <1>3 DEF CountCall
  <1>4. CASE x.pc # "idle"
    <2>1. CountCall(x, w) /\ w \subseteq m /\ (effect' = effect \/ "effect" \in m) /\ EffectTables
      BY <1>1, <1>2, <1>4 DEF EffectInv
    <2>2. CountCall(x, m)'
      BY <2>1, CountOthersKnow
    <2> QED
      BY <1>1, <1>2, <2>2
  <1> QED
    BY <1>3, <1>4

\* A step that is no recompute's.
LEMMA CountBeside ==
  ASSUME EffectInv, Spares({"recompute"}), UNCHANGED effectVars PROVE EffectInv'
  <1>1. EffectTables /\ EffectTables' /\ EffectIsCounted' /\ StatsGrow /\ effect' = effect
    BY DEF EffectInv, EffectTables, Stats, EffectIsCounted, StatsGrow, effectVars
  <1>2. SUFFICES ASSUME NEW d \in Callers PROVE CountCall(call[d], crossed[d])'
    BY <1>1 DEF EffectInv
  <1>3. PICK y, w, m : y = call'[d] /\ w = crossed[d] /\ m = crossed'[d]
    OBVIOUS
  <1>4. CASE y.op = "recompute"
    <2>1. CountCall(y, w) /\ w \subseteq m
      BY <1>3, <1>4 DEF Spares, EffectInv
    <2>2. CountCall(y, m)'
      BY <1>1, <2>1, CountOthersKnow
    <2> QED
      BY <1>3, <2>2
  <1>5. CASE y.op # "recompute"
    BY <1>3, <1>5 DEF CountCall
  <1> QED
    BY <1>4, <1>5

\* Steps of the recompute, and those beside it.
LEMMA CountGoesOn ==
  ASSUME CallsSound, EffectInv, NEW c \in Callers, SweepsStep(c) PROVE EffectInv'
  <1>0. EffectTables /\ CallsOK
    BY DEF EffectInv, CallsSound
  <1>1. CASE Deliver(c)
    <2>1. PICK x \in Pairs, achieved \in {0, 1} :
            delivered' = [delivered EXCEPT ![x] = [times |-> @.times + 1, achieved |-> @.achieved + achieved]]
      BY <1>1 DEF Deliver
    <2>2. Atomically(c, "deliver", {"delivered"}) /\ UNCHANGED <<effect, counted>>
      BY <1>1 DEF Deliver
    <2>3. PICK r : r = [times |-> delivered[x].times + 1, achieved |-> delivered[x].achieved + achieved]
      OBVIOUS
    <2>4. delivered' = [z \in Pairs |-> IF z = x THEN r ELSE delivered[z]]
      BY <1>0, <2>1, <2>3 DEF EffectTables
    <2>5. delivered[x].times \in Nat /\ delivered[x].achieved \in Nat /\ delivered[x].achieved <= delivered[x].times
      BY <1>0 DEF EffectTables, Stats
    <2>6. r \in Stats /\ r.achieved <= r.times /\ delivered[x].times <= r.times
      BY <2>3, <2>5 DEF Stats
    <2>7. StatsGrow
      BY <1>0, <2>4, <2>6 DEF StatsGrow, EffectTables, Stats
    <2>8. EffectTables'
      <3>1. delivered' \in [Pairs -> Stats] /\ \A z \in Pairs : delivered'[z].achieved <= delivered'[z].times
        BY <1>0, <2>4, <2>6 DEF EffectTables
      <3>2. ASSUME NEW z \in Pairs, effect[z] # None PROVE effect[z].times <= delivered'[z].times
        <4>1. effect[z].times \in Nat /\ delivered[z].times \in Nat /\ delivered'[z].times \in Nat
              /\ effect[z].times <= delivered[z].times
          BY <1>0, <3>1, <3>2 DEF EffectTables, Stats
        <4> QED
          BY <2>7, <4>1 DEF StatsGrow
      <3> QED
        BY <1>0, <2>2, <3>1, <3>2 DEF EffectTables
    <2>9. call' = call /\ \A d \in Callers \ {c} : crossed[d] \subseteq crossed'[d]
      BY <1>0, <2>2, AtomicallyDoes DEF Sees
    <2>10. call[c].pc = "idle"
      BY <2>2 DEF Atomically, Asked
    <2>11. CountCall(call[c], crossed[c])' /\ EffectIsCounted'
      BY <2>2, <2>9, <2>10 DEF CountCall, EffectInv, EffectIsCounted
    <2> QED
      BY <2>2, <2>7, <2>8, <2>9, <2>11, CountKeeps
  <1>2. CASE Recompute(c)
    <2>1. PICK arg, seen : /\ Begin(c, "recompute", "upsert", arg, seen)
                           /\ seen = [stats |-> delivered, waiting |-> {x \in Pairs : delivered[x].times > 0}]
      BY <1>2, Zenon DEF Recompute
    <2>2. UNCHANGED effectVars
      BY <1>2 DEF Recompute, sweepVars, effectVars
    <2>3. PICK y : y = [op |-> "recompute", pc |-> "upsert", arg |-> arg, seen |-> seen, result |-> None]
      OBVIOUS
    <2>4. call'[c] = y /\ \A d \in Callers \ {c} : call'[d] = call[d] /\ crossed'[d] = crossed[d]
      <3>1. Begin(c, "recompute", "upsert", arg, seen)
        BY <2>1
      <3>2. /\ call'[c] = [op |-> "recompute", pc |-> "upsert", arg |-> arg, seen |-> seen, result |-> None]
            /\ \A d \in Callers \ {c} : call'[d] = call[d] /\ crossed'[d] = crossed[d]
        BY <1>0, <3>1, BeginDoes
      <3> QED
        BY <2>3, <3>2
    <2>5. y.op = "recompute" /\ y.pc = "upsert" /\ y.seen = seen /\ seen.stats = delivered
          /\ seen.waiting = {x \in Pairs : delivered[x].times > 0}
          /\ seen = [stats |-> seen.stats, waiting |-> seen.waiting]
      BY <2>1, <2>3
    <2>6. \A x \in Pairs : delivered[x].times \in Nat
      BY <1>0 DEF EffectTables, Stats
    <2>7. CountKnows(y, {})
      BY <1>0, <2>5, <2>6 DEF CountKnows, EffectTables
    <2>8. EffectTables' /\ StatsGrow /\ EffectIsCounted' /\ effect' = effect
      BY <1>0, <2>2, <2>6 DEF EffectInv, EffectTables, StatsGrow, EffectIsCounted, effectVars
    <2>9. CountCall(y, {})
      BY <2>7 DEF CountCall
    <2>10. PICK m : m = crossed'[c]
      OBVIOUS
    <2>11. CountCall(y, m)'
      BY <1>0, <2>8, <2>9, CountOthersKnow
    <2>12. CountCall(call[c], crossed[c])'
      BY <2>4, <2>10, <2>11
    <2> QED
      BY <2>4, <2>8, <2>12, CountKeeps
  <1>3. CASE UpsertEffect(c)
    <2>1. PICK x, w : x = call[c] /\ w = crossed[c]
      OBVIOUS
    <2>2. x.op = "recompute" /\ x.pc = "upsert" /\ UNCHANGED <<delivered, counted>>
      BY <1>3, <2>1 DEF UpsertEffect, At
    <2>3. CountKnows(x, w)
      BY <2>1, <2>2 DEF EffectInv, CountCall
    <2>4. PICK p \in x.seen.waiting :
            /\ effect' = [effect EXCEPT ![p] = x.seen.stats[p]]
            /\ Goto(c, "upsert", [x.seen EXCEPT !.waiting = x.seen.waiting \ {p}], {"effect"})
      BY <1>3, <2>1 DEF UpsertEffect, Upserted
    <2>5. PICK s : s = [stats |-> x.seen.stats, waiting |-> x.seen.waiting \ {p}]
      OBVIOUS
    <2>6. [x.seen EXCEPT !.waiting = x.seen.waiting \ {p}] = s
      <3>1. PICK old, left_ : old = x.seen /\ left_ = x.seen.waiting \ {p}
        BY Zenon
      <3>2. old = [stats |-> old.stats, waiting |-> old.waiting]
        BY <2>3, <3>1 DEF CountKnows
      <3>3. [old EXCEPT !.waiting = left_] = [stats |-> old.stats, waiting |-> left_]
        BY <3>2
      <3> QED
        BY <2>5, <3>1, <3>3, Zenon
    <2>7. Goto(c, "upsert", s, {"effect"})
      BY <2>4, <2>6
    <2>8. PICK y : y = [op |-> x.op, pc |-> "upsert", arg |-> x.arg, seen |-> s, result |-> x.result]
      OBVIOUS
    <2>9. /\ y.op = "recompute" /\ y.pc = "upsert" /\ y.seen = s /\ s.stats = x.seen.stats /\ s.waiting = x.seen.waiting \ {p}
          /\ s = [stats |-> s.stats, waiting |-> s.waiting]
      BY <2>2, <2>5, <2>8
    <2>10. p \in Pairs /\ x.seen.stats[p] \in Stats /\ x.seen.stats[p].achieved <= x.seen.stats[p].times
           /\ x.seen.stats[p].times <= delivered[p].times
      BY <2>3 DEF CountKnows
    <2>11. effect' = [z \in Pairs |-> IF z = p THEN x.seen.stats[p] ELSE effect[z]]
      BY <1>0, <2>4, <2>10 DEF EffectTables
    <2>12. EffectTables' /\ StatsGrow
      <3>1. \A z \in Pairs : delivered[z].times \in Nat
        BY <1>0 DEF EffectTables, Stats
      <3> QED
        BY <1>0, <2>2, <2>10, <2>11, <3>1 DEF EffectTables, StatsGrow
    <2>13. EffectIsCounted'
      BY <2>2 DEF EffectInv, EffectIsCounted
    <2>14. /\ call'[c] = y /\ crossed'[c] = w
           /\ \A d \in Callers \ {c} : call'[d] = call[d] /\ crossed[d] \subseteq crossed'[d]
           /\ \A d \in Callers \ {c} : call[d].pc # "idle" => "effect" \in crossed'[d]
      <3>1. /\ call'[c] = [op |-> call[c].op, pc |-> "upsert", arg |-> call[c].arg, seen |-> s, result |-> call[c].result]
            /\ crossed'[c] = crossed[c] /\ \A d \in Callers \ {c} : Sees(c, d, {"effect"})
        BY <1>0, <2>7, GotoDoes
      <3> QED
        BY <2>1, <2>8, <3>1 DEF Sees
    <2>15. CountKnows(y, w)'
      BY <2>2, <2>3, <2>9, <2>10, <2>11 DEF CountKnows
    <2>16. CountCall(call[c], crossed[c])'
      BY <2>14, <2>15 DEF CountCall
    <2> QED
      BY <2>12, <2>13, <2>14, <2>16, CountKeeps
  <1>4. CASE EndRecompute(c)
    <2>1. PICK x, w : x = call[c] /\ w = crossed[c]
      OBVIOUS
    <2>2. /\ x.op = "recompute" /\ x.pc = "upsert" /\ x.seen.waiting = {} /\ UNCHANGED <<delivered, effect>>
          /\ counted' = [stats |-> x.seen.stats, effect |-> effect, torn |-> x.arg \/ "effect" \in w]
          /\ End(c, None, {})
      BY <1>4, <2>1 DEF EndRecompute, At, Stale
    <2>3. CountKnows(x, w)
      BY <2>1, <2>2 DEF EffectInv, CountCall
    <2>4. /\ call'[c].pc = "idle"
          /\ \A d \in Callers \ {c} : call'[d] = call[d] /\ crossed[d] \subseteq crossed'[d]
      <3>1. PICK result, written : result = None /\ written = {} /\ End(c, result, written)
        BY <2>2
      <3>2. /\ call'[c].pc = "idle"
            /\ \A d \in Callers \ {c} : Sees(c, d, IF result = None THEN written ELSE {})
        BY <1>0, <3>1, EndDoes
      <3> QED
        BY <3>2 DEF Sees
    <2>5. EffectTables' /\ StatsGrow /\ effect' = effect
      BY <1>0, <2>2 DEF EffectTables, Stats, StatsGrow
    <2>6. EffectIsCounted'
      <3>1. counted'.stats = x.seen.stats /\ counted'.effect = effect /\ (~counted'.torn => "effect" \notin w)
        BY <2>2
      <3> QED
        BY <2>2, <2>3, <3>1 DEF EffectIsCounted, CountKnows
    <2> QED
      BY <2>4, <2>5, <2>6, CountKeeps DEF CountCall
  <1>5. PICK ops : ops = {"recompute"}
    OBVIOUS
  <1>6. "cleanup" \notin ops /\ "fallDue" \notin ops /\ "submitTranscript" \notin ops /\ None \notin ops
    BY <1>5, OfficeAssumption DEF SweepCalls
  <1>7. ASSUME UNCHANGED effectVars, Spares(ops) PROVE EffectInv'
    BY <1>5, <1>7, CountBeside
  <1>8. CASE CleanUp(c)
    BY <1>6, <1>7, <1>8, BeginSpares DEF CleanUp
  <1>9. ASSUME NEW pc, NEW seen, At(c, "cleanup", call[c].pc), Goto(c, pc, seen, {}), UNCHANGED effectVars PROVE EffectInv'
    BY <1>6, <1>7, <1>9, GotoSpares DEF At
  <1>10. CASE ReadBatch(c)
    BY <1>9, <1>10 DEF ReadBatch, Sweeping, At, sweepVars, effectVars
  <1>11. CASE ClearTranscript(c)
    BY <1>9, <1>11 DEF ClearTranscript, Sweeping, At
  <1>12. CASE EndTranscripts(c)
    BY <1>9, <1>12 DEF EndTranscripts, Sweeping, At
  <1>13. CASE OthersEnd(c)
    BY <1>9, <1>13 DEF OthersEnd, At, sweepVars, effectVars
  <1>14. CASE EndFailed(c)
    BY <1>6, <1>7, <1>14, EndSpares DEF EndFailed, At, Refusals, sweepVars, effectVars
  <1>15. CASE TrimLog(c)
    BY <1>9, <1>15 DEF TrimLog, At, sweepVars, effectVars
  <1>16. CASE DeleteRows(c)
    BY <1>6, <1>7, <1>9, <1>16, EndSpares DEF DeleteRows, At, Refusals
  <1>17. CASE CrashCleanUp(c)
    BY <1>6, <1>7, <1>17, CrashSpares DEF CrashCleanUp, Cleaning
  <1>18. CASE TranscriptFallsDue(c)
    BY <1>7, <1>18, AtomicallySpares DEF TranscriptFallsDue
  <1>19. CASE SubmitTranscript(c)
    BY <1>7, <1>19, AtomicallySpares DEF SubmitTranscript
  <1> QED
    BY <1>1, <1>2, <1>3, <1>4, <1>8, <1>10, <1>11, <1>12, <1>13, <1>14, <1>15, <1>16, <1>17, <1>18, <1>19 DEF SweepsStep

\* All that is done beside the nightly jobs leaves them alone.
LEMMA SweepsBesideOffice ==
  ASSUME CallsSound, [OfficeNext]_officeVars
  PROVE \/ \E c \in Callers : SweepsStep(c)
        \/ UNCHANGED sweepVars /\ Spares({"cleanup"}) /\ Spares({"recompute"})
  <1> DEFINE ops == {"cleanup", "recompute"}
  <1>1. None \notin ops /\ ops \cap CatalogueCalls = {} /\ ops \cap SeedCalls = {}
        /\ ops \cap UnitCalls = {}
        /\ ops \cap BriefCalls = {} /\ ops \cap ListCalls = {}
    BY OfficeAssumption DEF CatalogueCalls, SeedCalls, UnitCalls, SweepCalls, BriefCalls, ListCalls
  <1>2. Spares(ops) => Spares({"cleanup"}) /\ Spares({"recompute"})
    BY DEF Spares
  <1> HIDE DEF ops
  <1>3. CASE UNCHANGED officeVars
    BY <1>2, <1>3, NoCallSpares DEF officeVars
  <1>4. ASSUME NEW c \in Callers, OfficeStep(c) PROVE SweepsStep(c) \/ (UNCHANGED sweepVars
        /\ Spares(ops))
    BY <1>1, <1>4, CatalogueSpares, SeedsSpare, UnitsSpare, BriefsSpare, ListsSpare DEF OfficeStep
  <1> QED
    BY <1>2, <1>3, <1>4 DEF OfficeNext

\* The summaries of the clean-up add up to what it swept (cleanup.job.ts), and a recompute ends with
\* the counts it read (content-effectiveness.repository.ts), whatever else the back office does.
THEOREM NightlyJobsAddUp == OfficeSpec => [](NightlyJobsHold /\ SweepsTypeOK)
  <1>1. OfficeInit => CallsSound /\ CleanInv /\ EffectInv
    BY CleanStart, EffectStart, CallsStartSound DEF OfficeInit, Init
  <1>2. CallsSound /\ CleanInv /\ EffectInv /\ [OfficeNext]_officeVars => CallsSound' /\ CleanInv' /\ EffectInv'
    <2>1. ASSUME CallsSound, CleanInv, EffectInv, [OfficeNext]_officeVars PROVE CleanInv' /\ EffectInv'
      <3>1. CASE \E c \in Callers : SweepsStep(c)
        BY <2>1, <3>1, CleanGoesThrough, CountGoesOn
      <3>2. CASE UNCHANGED sweepVars /\ Spares({"cleanup"}) /\ Spares({"recompute"})
        <4>1. UNCHANGED cleanVars /\ UNCHANGED effectVars
          BY <3>2 DEF sweepVars, cleanVars, effectVars
        <4> QED
          BY <2>1, <3>2, <4>1, CleanBeside, CountBeside
      <3> QED
        BY <2>1, <3>1, <3>2, SweepsBesideOffice
    <2> QED
      BY <2>1, OfficeCalls
  <1>3. CleanInv /\ EffectInv => NightlyJobsHold /\ SweepsTypeOK
    BY CleanInvIsTrue, EffectInvIsTrue DEF NightlyJobsHold
  <1> QED
    BY <1>1, <1>2, <1>3, PTL DEF OfficeSpec

-----------------------------------------------------------------------------
(* Departments: what hangs on one hangs on one that is there, and the      *)
(* script does what a dry run says, as long as nothing comes between.      *)

UnitTables ==
  /\ unit \in [Units -> UnitRow \cup {None}] /\ base \in [Crews -> Units \cup {None}]
  /\ post \in [Persons -> PostRow \cup {None}]
  /\ UnitsTypeOK

\* A repair that nothing has come between.
VacatedBy(moves) == {moves[l].from : l \in DOMAIN moves} \ {None}
Forsaken(d, moves) == TeamsOf(d) = {} /\ \A l \in Persons \ DOMAIN moves : post[l] # None => post[l].unit # d
OnCourse(y) ==
  /\ \A l \in DOMAIN y.seen.moves :
       /\ y.seen.moves[l].to = base[post[l].team]
       /\ post[l].unit = IF l \in y.seen.waiting THEN y.seen.moves[l].from ELSE y.seen.moves[l].to
  /\ \A l \in Persons \ DOMAIN y.seen.moves :
       post[l] # None /\ post[l].unit # base[post[l].team] => y.arg.only /\ post[l].unit = None
  /\ y.seen.vacated \subseteq VacatedBy(y.seen.moves)
  /\ y.seen.foretold = {d \in VacatedBy(y.seen.moves) : Forsaken(d, y.seen.moves)}
  /\ y.seen.emptied = y.seen.foretold \ y.seen.vacated
  /\ y.pc = "move" => y.seen.vacated = VacatedBy(y.seen.moves)
  /\ y.pc = "judge" => y.seen.waiting = IF y.arg.apply THEN {} ELSE DOMAIN y.seen.moves
  /\ y.seen.vacated # {} => y.seen.deleted = {}
  /\ \A d \in VacatedBy(y.seen.moves) \ y.seen.deleted : Standing(d)
RepairSeen(s) == s = [moves |-> s.moves, waiting |-> s.waiting, vacated |-> s.vacated, emptied |-> s.emptied,
                      deleted |-> s.deleted, foretold |-> s.foretold]
RepairKnows(y, written) ==
  /\ y.pc \in {"move", "judge"} /\ RepairSeen(y.seen) /\ y.arg.apply \in BOOLEAN
  /\ y.seen.waiting \subseteq DOMAIN y.seen.moves
  /\ y.seen.vacated \subseteq Units /\ y.seen.emptied \subseteq Units
  /\ \A l \in DOMAIN y.seen.moves : l \in Persons /\ post[l] # None /\ y.seen.moves[l].to \in Units
                                   /\ y.seen.moves[l].from \in Units \cup {None}
  /\ y.pc = "move" => y.arg.apply
  /\ "units" \notin written => OnCourse(y)

\* Other calls, under way: their checks still hold unless something has come between.
UnitKnows(y, written) ==
  /\ y.op = "createUnit" => y.arg \in UnitNames /\ ("units" \notin written => ~Taken(y.arg, None))
  /\ y.op = "updateUnit" => /\ y.arg.unit \in Units /\ y.arg.to \in UnitRow
                            /\ "units" \notin written => Standing(y.arg.unit) /\ ~Taken(y.arg.to.name, y.arg.unit)
  /\ y.op = "deleteUnit" => y.arg \in Units /\ ("units" \notin written => Standing(y.arg) /\ Dependents(y.arg) = {})
  /\ y.op = "placeTeam" => y.arg.team \in Crews /\ y.arg.unit \in Units /\ ("units" \notin written => Standing(y.arg.unit))
  /\ y.op = "movePerson" => /\ y.arg.person \in Persons /\ post[y.arg.person] # None /\ y.arg.unit \in Units
                            /\ "units" \notin written => Standing(y.arg.unit)
  /\ y.op = "joinTeam" => /\ y.arg.person \in Persons /\ y.arg.team \in Crews /\ base[y.arg.team] # None /\ y.seen \in Units
                          /\ "units" \notin written => Standing(y.seen)
  /\ y.op = "repair" => RepairKnows(y, written)
UnitCall(y, written) == y.op \in UnitCalls =>
  /\ y.pc # "idle" => UnitKnows(y, written)
  /\ y.result # None => "units" \in written
ToldTruly == repaired # None /\ ~repaired.torn =>
  repaired.emptied = repaired.foretold /\ (repaired.apply => repaired.misplaced = {})
UnitInv == UnitTables /\ ToldTruly /\ \A d \in Callers : UnitCall(call[d], crossed[d])

\* It is what the run checks.
LEMMA UnitInvIsTrue ==
  ASSUME UnitInv PROVE UnitsTypeOK /\ RepairDoesWhatItSays
  BY DEF UnitInv, UnitTables, ToldTruly, UnitCall, UnitCalls, RepairDoesWhatItSays, Stale

\* At the start nobody has called.
LEMMA UnitStart ==
  ASSUME OfficeInit PROVE UnitInv
  <1>1. \A c \in Callers : call[c] = Idle
    BY CallsStart DEF OfficeInit, Init
  <1>2. Idle.pc = "idle" /\ Idle.op = None /\ Idle.result = None
    BY DEF Idle
  <1>3. PICK k \in Cases : unit = k.units.unit /\ base = k.units.base /\ post = k.units.post
    BY DEF OfficeInit, Init, UnitsInit
  <1>4. repaired = None
    BY DEF OfficeInit, UnitsInit
  <1>5. /\ unit \in [Units -> UnitRow \cup {None}] /\ base \in [Crews -> Units \cup {None}]
        /\ post \in [Persons -> PostRow \cup {None}]
        /\ \A t \in Crews : base[t] # None => unit[base[t]] # None
        /\ \A l \in Persons : post[l] # None => base[post[l].team] # None /\ (post[l].unit # None => unit[post[l].unit] # None)
        /\ \A d, e \in Units : unit[d] # None /\ unit[e] # None /\ d # e => unit[d].name # unit[e].name
    BY <1>3, StartAssumption
  <1>6. UnitTables
    BY <1>5 DEF UnitTables, UnitsTypeOK, Standing, Taken
  <1> QED
    BY <1>1, <1>2, <1>4, <1>6 DEF UnitInv, ToldTruly, UnitCall

\* Nobody is taken off his team, no team is removed.
NobodyGoes == /\ \A t \in Crews : base[t] # None => base'[t] # None
              /\ \A l \in Persons : post[l] # None => post'[l] # None
\* A call that is not concerned knows what it knew.
LEMMA UnitOthersKnow ==
  ASSUME NEW y, NEW written, NEW more, UnitCall(y, written), written \subseteq more, NobodyGoes,
         UNCHANGED <<unit, base, post>> \/ "units" \in more \/ y.pc = "idle"
  PROVE UnitCall(y, more)'
  <1>1. SUFFICES ASSUME y.op \in UnitCalls PROVE UnitCall(y, more)'
    BY DEF UnitCall
  <1>2. y.result # None => "units" \in more
    BY <1>1 DEF UnitCall
  <1>3. CASE y.pc = "idle"
    BY <1>2, <1>3 DEF UnitCall
  <1>4. CASE y.pc # "idle" /\ "units" \in more
    <2>1. UnitKnows(y, written)
      BY <1>1, <1>4 DEF UnitCall
    <2>2. RepairKnows(y, written) => RepairKnows(y, more)'
      BY <1>4 DEF RepairKnows, NobodyGoes
    <2>3. UnitKnows(y, more)'
      BY <1>4, <2>1, <2>2 DEF UnitKnows, NobodyGoes
    <2> QED
      BY <1>2, <2>3 DEF UnitCall
  <1>5. CASE y.pc # "idle" /\ "units" \notin more
    <2>1. UnitKnows(y, written) /\ UNCHANGED <<unit, base, post>> /\ "units" \notin written
      BY <1>1, <1>5 DEF UnitCall
    <2>2. \A d : Standing(d)' = Standing(d) /\ TeamsOf(d)' = TeamsOf(d) /\ PersonsOf(d)' = PersonsOf(d)
      BY <2>1 DEF Standing, TeamsOf, PersonsOf
    <2>3. \A d : Dependents(d)' = Dependents(d) /\ \A n : Taken(n, d)' <=> Taken(n, d)
      BY <2>1, <2>2 DEF Dependents, Taken
    <2>4. OnCourse(y) => OnCourse(y)'
      BY <2>1, <2>2 DEF OnCourse, Forsaken
    <2>5. RepairKnows(y, written) => RepairKnows(y, more)'
      BY <2>1, <2>4 DEF RepairKnows
    <2>6. UnitKnows(y, more)'
      BY <2>1, <2>2, <2>3, <2>5 DEF UnitKnows
    <2> QED
      BY <1>2, <2>6 DEF UnitCall
  <1> QED
    BY <1>3, <1>4, <1>5

\* A step keeps the invariant if its own call knows what it should.
LEMMA UnitKeeps ==
  ASSUME UnitInv, NEW c \in Callers, NobodyGoes, UnitTables', ToldTruly', UnitCall(call[c], crossed[c])',
         \A d \in Callers \ {c} : call'[d] = call[d] /\ crossed[d] \subseteq crossed'[d],
         \/ UNCHANGED <<unit, base, post>>
         \/ \A d \in Callers \ {c} : call[d].pc # "idle" => "units" \in crossed'[d]
  PROVE UnitInv'
  <1>1. SUFFICES ASSUME NEW d \in Callers \ {c} PROVE UnitCall(call[d], crossed[d])'
    BY DEF UnitInv
  <1>2. PICK x, w, m : x = call[d] /\ w = crossed[d] /\ m = crossed'[d]
    OBVIOUS
  <1>3. UnitCall(x, w) /\ w \subseteq m /\ (UNCHANGED <<unit, base, post>> \/ "units" \in m \/ x.pc = "idle")
    BY <1>1, <1>2 DEF UnitInv
  <1>4. UnitCall(x, m)'
    BY <1>3, UnitOthersKnow
  <1> QED
    BY <1>1, <1>2, <1>4

\* A step that is no department's.
LEMMA UnitBeside ==
  ASSUME UnitInv, Spares(UnitCalls), UNCHANGED unitVars PROVE UnitInv'
  <1>1. UNCHANGED <<unit, base, post>> /\ UNCHANGED repaired
    BY DEF unitVars
  <1>2. \A d : Standing(d)' = Standing(d) /\ \A n : Taken(n, d)' <=> Taken(n, d)
    BY <1>1 DEF Standing, Taken
  <1>3. UnitTables' /\ ToldTruly' /\ NobodyGoes
    BY <1>1, <1>2 DEF UnitInv, UnitTables, UnitsTypeOK, ToldTruly, NobodyGoes
  <1>4. SUFFICES ASSUME NEW d \in Callers PROVE UnitCall(call[d], crossed[d])'
    BY <1>3 DEF UnitInv
  <1>5. PICK y, w, m : y = call'[d] /\ w = crossed[d] /\ m = crossed'[d]
    OBVIOUS
  <1>6. CASE y.op \in UnitCalls
    <2>1. UnitCall(y, w) /\ w \subseteq m
      BY <1>5, <1>6 DEF Spares, UnitInv
    <2>2. UnitCall(y, m)'
      BY <1>1, <1>3, <2>1, UnitOthersKnow
    <2> QED
      BY <1>5, <2>2
  <1>7. CASE y.op \notin UnitCalls
    BY <1>5, <1>7 DEF UnitCall
  <1> QED
    BY <1>6, <1>7

\* A call begins.
LEMMA UnitBegins ==
  ASSUME CallsSound, UnitInv, NEW c \in Callers, NEW op, NEW pc, NEW arg, NEW seen, Begin(c, op, pc, arg, seen),
         NEW y, y = [op |-> op, pc |-> pc, arg |-> arg, seen |-> seen, result |-> None], UNCHANGED unitVars,
         UnitKnows(y, {})
  PROVE UnitInv'
  <1>1. /\ call'[c] = y /\ crossed'[c] = {}
        /\ \A d \in Callers \ {c} : call'[d] = call[d] /\ crossed'[d] = crossed[d]
    BY BeginDoes DEF CallsSound
  <1>2. UNCHANGED <<unit, base, post>> /\ UNCHANGED repaired
    BY DEF unitVars
  <1>3. \A d : Standing(d)' = Standing(d) /\ \A n : Taken(n, d)' <=> Taken(n, d)
    BY <1>2 DEF Standing, Taken
  <1>4. UnitTables' /\ ToldTruly' /\ NobodyGoes
    BY <1>2, <1>3 DEF UnitInv, UnitTables, UnitsTypeOK, ToldTruly, NobodyGoes
  <1>5. y.result = None
    OBVIOUS
  <1>6. UnitCall(y, {})
    BY <1>5 DEF UnitCall
  <1>7. UnitCall(y, {})'
    BY <1>2, <1>4, <1>6, UnitOthersKnow
  <1>8. UnitCall(call[c], crossed[c])'
    BY <1>1, <1>7
  <1> QED
    BY <1>1, <1>2, <1>4, <1>8, UnitKeeps

\* It is refused.
LEMMA UnitRefused ==
  ASSUME CallsSound, UnitInv, NEW c \in Callers, NEW result, result # None, End(c, result, {}),
         UNCHANGED unitVars, call[c].op \in UnitCalls => "units" \in crossed[c]
  PROVE UnitInv'
  <1>1. /\ call'[c].pc = "idle" /\ call'[c].op \in {None, call[c].op} /\ crossed'[c] = crossed[c]
        /\ \A d \in Callers \ {c} : call'[d] = call[d] /\ crossed[d] \subseteq crossed'[d]
    <2>1. CallsOK
      BY DEF CallsSound
    <2>2. /\ call'[c].pc = "idle" /\ call'[c].op \in {None, call[c].op} /\ crossed'[c] = crossed[c]
          /\ \A d \in Callers \ {c} : Sees(c, d, IF result = None THEN {} ELSE {})
      BY <2>1, EndDoes
    <2> QED
      BY <2>2 DEF Sees
  <1>2. UNCHANGED <<unit, base, post>> /\ UNCHANGED repaired
    BY DEF unitVars
  <1>3. \A d : Standing(d)' = Standing(d) /\ \A n : Taken(n, d)' <=> Taken(n, d)
    BY <1>2 DEF Standing, Taken
  <1>4. UnitTables' /\ ToldTruly' /\ NobodyGoes
    BY <1>2, <1>3 DEF UnitInv, UnitTables, UnitsTypeOK, ToldTruly, NobodyGoes
  <1>5. UnitCall(call[c], crossed[c])'
    BY <1>1, OfficeAssumption DEF UnitCall
  <1> QED
    BY <1>1, <1>2, <1>4, <1>5, UnitKeeps

\* It writes, and ends.
LEMMA UnitWrites ==
  ASSUME CallsSound, UnitInv, NEW c \in Callers, End(c, None, {"units"}), NobodyGoes, UnitTables', UNCHANGED repaired
  PROVE UnitInv'
  <1>1. /\ call'[c] = Idle
        /\ \A d \in Callers \ {c} : Sees(c, d, {"units"})
    <2>1. CallsOK
      BY DEF CallsSound
    <2>2. PICK result, written : result = None /\ written = {"units"} /\ End(c, result, written)
      OBVIOUS
    <2>3. /\ result = None => call'[c] = Idle
          /\ \A d \in Callers \ {c} : Sees(c, d, IF result = None THEN written ELSE {})
      BY <2>1, <2>2, EndDoes
    <2> QED
      BY <2>2, <2>3
  <1>2. Idle.pc = "idle" /\ Idle.result = None
    BY DEF Idle
  <1>3. ToldTruly'
    BY DEF UnitInv, ToldTruly
  <1>4. UnitCall(call[c], crossed[c])'
    BY <1>1, <1>2 DEF UnitCall
  <1>5. \A d \in Callers \ {c} : /\ call'[d] = call[d] /\ crossed[d] \subseteq crossed'[d]
                                 /\ call[d].pc # "idle" => "units" \in crossed'[d]
    BY <1>1 DEF Sees
  <1> QED
    BY <1>3, <1>4, <1>5, UnitKeeps

\* A step of it that is not the last.
LEMMA UnitGoesOn ==
  ASSUME CallsSound, UnitInv, NEW c \in Callers, NEW pc, NEW seen, NEW written, Goto(c, pc, seen, written),
         NEW y, y = [op |-> call[c].op, pc |-> pc, arg |-> call[c].arg, seen |-> seen, result |-> call[c].result],
         NobodyGoes, UnitTables', UNCHANGED repaired, UnitCall(y, crossed[c])',
         UNCHANGED <<unit, base, post>> \/ "units" \in written
  PROVE UnitInv'
  <1>1. /\ call'[c] = y /\ crossed'[c] = crossed[c]
        /\ \A d \in Callers \ {c} : Sees(c, d, written)
    BY GotoDoes DEF CallsSound
  <1>2. ToldTruly'
    BY DEF UnitInv, ToldTruly
  <1>3. UnitCall(call[c], crossed[c])'
    BY <1>1
  <1>4. \A d \in Callers \ {c} : /\ call'[d] = call[d] /\ crossed[d] \subseteq crossed'[d]
                                 /\ "units" \in written /\ call[d].pc # "idle" => "units" \in crossed'[d]
    BY <1>1 DEF Sees
  <1> QED
    BY <1>2, <1>3, <1>4, UnitKeeps

-----------------------------------------------------------------------------
(* What a write does to the tables.                                        *)

\* A department is added or renamed.
LEMMA UnitWritten ==
  ASSUME UnitTables, NEW d \in Units, NEW it \in UnitRow, ~Taken(it.name, d),
         unit' = [unit EXCEPT ![d] = it], UNCHANGED <<base, post>>
  PROVE UnitTables' /\ NobodyGoes
  <1>1. it # None
    BY UnitsAssumption
  <1>2. unit' = [e \in Units |-> IF e = d THEN it ELSE unit[e]]
    BY DEF UnitTables
  <1>3. \A e : Standing(e) /\ e \in Units => Standing(e)'
    BY <1>1, <1>2 DEF Standing
  <1>4. unit' \in [Units -> UnitRow \cup {None}]
    BY <1>2 DEF UnitTables
  <1>5. /\ \A t \in Crews : base[t] # None => Standing(base[t])'
        /\ \A l \in Persons : post[l] # None =>
             base[post[l].team] # None /\ (post[l].unit # None => Standing(post[l].unit)')
    BY <1>3 DEF UnitTables, UnitsTypeOK, PostRow
  <1>6. \A e \in Units : Standing(e)' => ~Taken(unit[e].name, e)'
    BY <1>1, <1>2 DEF UnitTables, UnitsTypeOK, Standing, Taken
  <1> QED
    BY <1>4, <1>5, <1>6 DEF UnitTables, UnitsTypeOK, NobodyGoes

\* A department that nothing hangs on is deleted.
LEMMA UnitRemoved ==
  ASSUME UnitTables, NEW d \in Units, Dependents(d) = {}, unit' = [unit EXCEPT ![d] = None], UNCHANGED <<base, post>>
  PROVE UnitTables' /\ NobodyGoes
  <1>1. unit' = [e \in Units |-> IF e = d THEN None ELSE unit[e]]
    BY DEF UnitTables
  <1>2. (\A t \in Crews : base[t] # d) /\ (\A l \in Persons : post[l] # None => post[l].unit # d)
    BY DEF Dependents, TeamsOf, PersonsOf
  <1>3. unit' \in [Units -> UnitRow \cup {None}]
    BY <1>1 DEF UnitTables
  <1>4. \A e \in Units \ {d} : Standing(e) => Standing(e)'
    BY <1>1 DEF Standing
  <1>5. /\ \A t \in Crews : base[t] # None => Standing(base[t])'
        /\ \A l \in Persons : post[l] # None =>
             base[post[l].team] # None /\ (post[l].unit # None => Standing(post[l].unit)')
    BY <1>2, <1>4 DEF UnitTables, UnitsTypeOK, PostRow
  <1>6. \A e \in Units : Standing(e)' => ~Taken(unit[e].name, e)'
    BY <1>1 DEF UnitTables, UnitsTypeOK, Standing, Taken
  <1> QED
    BY <1>3, <1>5, <1>6 DEF UnitTables, UnitsTypeOK, NobodyGoes

\* A team is put into a department.
LEMMA TeamPlaced ==
  ASSUME UnitTables, NEW t \in Crews, NEW d \in Units, Standing(d), base' = [base EXCEPT ![t] = d], UNCHANGED <<unit, post>>
  PROVE UnitTables' /\ NobodyGoes
  <1>1. base' = [u \in Crews |-> IF u = t THEN d ELSE base[u]] /\ d # None
    BY UnitsAssumption DEF UnitTables
  <1>2. \A e : Standing(e)' = Standing(e) /\ \A n : Taken(n, e)' = Taken(n, e)
    BY DEF Standing, Taken
  <1>3. base' \in [Crews -> Units \cup {None}] /\ \A u \in Crews : base'[u] # None => Standing(base'[u])
    BY <1>1 DEF UnitTables, UnitsTypeOK
  <1>4. \A l \in Persons : post[l] # None => post[l].team \in Crews
    BY DEF UnitTables, PostRow
  <1>5. NobodyGoes
    BY <1>1, UnitsAssumption DEF NobodyGoes
  <1> QED
    BY <1>2, <1>3, <1>4, <1>5 DEF UnitTables, UnitsTypeOK, NobodyGoes

\* A learner is put into a team or a department.
LEMMA PersonPlaced ==
  ASSUME UnitTables, NEW l \in Persons, NEW it \in PostRow, base[it.team] # None, it.unit # None => Standing(it.unit),
         post' = [post EXCEPT ![l] = it], UNCHANGED <<unit, base>>
  PROVE UnitTables' /\ NobodyGoes
  <1>1. post' = [m \in Persons |-> IF m = l THEN it ELSE post[m]] /\ it # None
    BY UnitsAssumption DEF UnitTables
  <1>2. \A e : Standing(e)' = Standing(e) /\ \A n : Taken(n, e)' = Taken(n, e)
    BY DEF Standing, Taken
  <1>3. post' \in [Persons -> PostRow \cup {None}]
    BY <1>1 DEF UnitTables
  <1>4. \A m \in Persons : post'[m] # None => base[post'[m].team] # None /\ (post'[m].unit # None => Standing(post'[m].unit))
    BY <1>1 DEF UnitTables, UnitsTypeOK
  <1> QED
    BY <1>1, <1>2, <1>3, <1>4 DEF UnitTables, UnitsTypeOK, NobodyGoes

\* A learner is moved to another department.
LEMMA PersonMoved ==
  ASSUME UnitTables, NEW l \in Persons, post[l] # None, NEW d \in Units, Standing(d),
         post' = [post EXCEPT ![l].unit = d], UNCHANGED <<unit, base>>
  PROVE UnitTables' /\ NobodyGoes /\ post' = [post EXCEPT ![l] = [team |-> post[l].team, unit |-> d]]
  <1>1. post[l] \in PostRow /\ post[l] = [team |-> post[l].team, unit |-> post[l].unit] /\ post[l].team \in Crews
    BY DEF UnitTables, PostRow
  <1>2. PICK it : it = [team |-> post[l].team, unit |-> d]
    OBVIOUS
  <1>3. [post[l] EXCEPT !.unit = d] = it
    BY <1>1, <1>2
  <1>4. post' = [post EXCEPT ![l] = it]
    BY <1>3
  <1>5. it \in PostRow /\ it.unit = d /\ it.team = post[l].team
    BY <1>1, <1>2 DEF PostRow
  <1>6. base[it.team] # None
    BY <1>5 DEF UnitTables, UnitsTypeOK
  <1>7. UnitTables' /\ NobodyGoes
    BY <1>4, <1>5, <1>6, PersonPlaced
  <1> QED
    BY <1>2, <1>4, <1>7

\* The database deletes a department that is there and that nothing hangs on.
LEMMA RefusalMeans ==
  ASSUME NEW d PROVE (Refusal(d) = None) <=> (Standing(d) /\ Dependents(d) = {})
  <1>1. None # "missing" /\ None # "referenced"
    BY CatalogueAssumption
  <1> QED
    BY <1>1, FirstOfTwo DEF Refusal, Problem

-----------------------------------------------------------------------------
(* One step after the other.                                               *)

\* A department is created.
LEMMA UnitsCreated ==
  ASSUME CallsSound, UnitInv, NEW c \in Callers, CreateUnit(c) \/ InsertUnit(c) PROVE UnitInv'
  <1>1. CASE CreateUnit(c)
    <2>1. PICK name \in UnitNames : ~Taken(name, None) /\ Begin(c, "createUnit", "insert", name, None)
      BY <1>1 DEF CreateUnit
    <2>2. PICK y : y = [op |-> "createUnit", pc |-> "insert", arg |-> name, seen |-> None, result |-> None]
      OBVIOUS
    <2>3. UnitKnows(y, {})
      BY <2>1, <2>2 DEF UnitKnows
    <2> QED
      BY <1>1, <2>1, <2>2, <2>3, UnitBegins DEF CreateUnit
  <1>2. CASE InsertUnit(c)
    <2>1. call[c].op = "createUnit" /\ call[c].pc = "insert" /\ UnitKnows(call[c], crossed[c])
      BY <1>2 DEF InsertUnit, At, UnitInv, UnitCall, UnitCalls
    <2>2. CASE Taken(call[c].arg, None)
      <3>1. End(c, "clash", {}) /\ UNCHANGED unitVars /\ "clash" # None
        BY <1>2, <2>2, CatalogueAssumption DEF InsertUnit
      <3>2. "units" \in crossed[c]
        BY <2>1, <2>2 DEF UnitKnows
      <3> QED
        BY <3>1, <3>2, UnitRefused
    <2>3. CASE ~Taken(call[c].arg, None)
      <3>1. PICK d \in Units : ~Standing(d) /\ unit' = [unit EXCEPT ![d] = [name |-> call[c].arg, enabled |-> TRUE]]
        BY <1>2, <2>3 DEF InsertUnit
      <3>2. PICK it : it = [name |-> call[c].arg, enabled |-> TRUE]
        OBVIOUS
      <3>3. it \in UnitRow /\ ~Taken(it.name, d)
        BY <2>1, <2>3, <3>2, UnitsAssumption DEF UnitKnows, UnitRow, Taken
      <3>4. UNCHANGED <<base, post>> /\ UNCHANGED repaired /\ End(c, None, {"units"})
        BY <1>2, <2>3 DEF InsertUnit
      <3>5. UnitTables
        BY DEF UnitInv
      <3>6. UnitTables' /\ NobodyGoes
        BY <3>1, <3>2, <3>3, <3>4, <3>5, UnitWritten
      <3> QED
        BY <3>4, <3>6, UnitWrites
    <2> QED
      BY <2>2, <2>3
  <1> QED
    BY <1>1, <1>2

\* It is renamed, or switched on or off.
LEMMA UnitsUpdated ==
  ASSUME CallsSound, UnitInv, NEW c \in Callers, UpdateUnit(c) \/ SaveUnit(c) PROVE UnitInv'
  <1>1. CASE UpdateUnit(c)
    <2>1. PICK d \in Units, name \in UnitNames, enabled \in BOOLEAN :
            /\ Standing(d) /\ (name # unit[d].name => ~Taken(name, None))
            /\ Begin(c, "updateUnit", "save", [unit |-> d, to |-> [name |-> name, enabled |-> enabled]], None)
      BY <1>1 DEF UpdateUnit
    <2>2. PICK arg, it : it = [name |-> name, enabled |-> enabled] /\ arg = [unit |-> d, to |-> it]
      OBVIOUS
    <2>3. PICK y : y = [op |-> "updateUnit", pc |-> "save", arg |-> arg, seen |-> None, result |-> None]
      OBVIOUS
    <2>4. arg.unit = d /\ arg.to \in UnitRow /\ arg.to.name = name
      BY <2>2 DEF UnitRow
    <2>5. ~Taken(name, d)
      BY <2>1, UnitsAssumption DEF UnitInv, UnitTables, UnitsTypeOK, Taken
    <2>6. UnitKnows(y, {})
      BY <2>1, <2>3, <2>4, <2>5 DEF UnitKnows
    <2>7. Begin(c, "updateUnit", "save", arg, None) /\ UNCHANGED unitVars
      BY <1>1, <2>1, <2>2 DEF UpdateUnit
    <2> QED
      BY <2>3, <2>6, <2>7, UnitBegins
  <1>2. CASE SaveUnit(c)
    <2>1. call[c].op = "updateUnit" /\ call[c].pc = "save" /\ UnitKnows(call[c], crossed[c])
      BY <1>2 DEF SaveUnit, At, UnitInv, UnitCall, UnitCalls
    <2>2. PICK d, to, refusal :
            /\ d = call[c].arg.unit /\ to = call[c].arg.to
            /\ refusal = FirstOf(<<Problem(~Standing(d), "missing"), Problem(Taken(to.name, d), "clash")>>)
            /\ IF refusal # None THEN End(c, refusal, {}) /\ UNCHANGED unit
               ELSE End(c, None, {"units"}) /\ unit' = [unit EXCEPT ![d] = to]
      BY <1>2 DEF SaveUnit
    <2>3. refusal = None <=> Standing(d) /\ ~Taken(to.name, d)
      <3>1. None # "missing" /\ None # "clash"
        BY CatalogueAssumption
      <3> QED
        BY <2>2, <3>1, FirstOfTwo DEF Problem
    <2>4. UNCHANGED <<base, post>> /\ UNCHANGED repaired
      BY <1>2 DEF SaveUnit
    <2>5. CASE refusal # None
      <3>1. "units" \in crossed[c]
        BY <2>1, <2>2, <2>3, <2>5 DEF UnitKnows
      <3>2. UNCHANGED unitVars
        BY <2>2, <2>4, <2>5 DEF unitVars
      <3> QED
        BY <2>2, <2>5, <3>1, <3>2, UnitRefused
    <2>6. CASE refusal = None
      <3>1. d \in Units /\ to \in UnitRow /\ ~Taken(to.name, d)
        BY <2>1, <2>2, <2>3, <2>6 DEF UnitKnows
      <3>2. UnitTables
        BY DEF UnitInv
      <3>3. UnitTables' /\ NobodyGoes
        BY <2>2, <2>4, <2>6, <3>1, <3>2, UnitWritten
      <3> QED
        BY <2>2, <2>4, <2>6, <3>3, UnitWrites
    <2> QED
      BY <2>5, <2>6
  <1> QED
    BY <1>1, <1>2

\* It is deleted.
LEMMA UnitsDeleted ==
  ASSUME CallsSound, UnitInv, NEW c \in Callers, DeleteUnit(c) \/ RemoveUnit(c) PROVE UnitInv'
  <1>1. CASE DeleteUnit(c)
    <2>1. PICK d \in Units : Standing(d) /\ Dependents(d) = {} /\ Begin(c, "deleteUnit", "delete", d, None)
      BY <1>1 DEF DeleteUnit
    <2>2. PICK y : y = [op |-> "deleteUnit", pc |-> "delete", arg |-> d, seen |-> None, result |-> None]
      OBVIOUS
    <2>3. UnitKnows(y, {})
      BY <2>1, <2>2 DEF UnitKnows
    <2> QED
      BY <1>1, <2>1, <2>2, <2>3, UnitBegins DEF DeleteUnit
  <1>2. CASE RemoveUnit(c)
    <2>1. call[c].op = "deleteUnit" /\ call[c].pc = "delete" /\ UnitKnows(call[c], crossed[c])
      BY <1>2 DEF RemoveUnit, At, UnitInv, UnitCall, UnitCalls
    <2>2. PICK d :
            /\ d = call[c].arg
            /\ IF Refusal(d) # None THEN End(c, Refusal(d), {}) /\ UNCHANGED unit
               ELSE End(c, None, {"units"}) /\ unit' = [unit EXCEPT ![d] = None]
      BY <1>2 DEF RemoveUnit
    <2>3. UNCHANGED <<base, post>> /\ UNCHANGED repaired
      BY <1>2 DEF RemoveUnit
    <2>4. CASE Refusal(d) # None
      <3>1. "units" \in crossed[c]
        BY <2>1, <2>2, <2>4, RefusalMeans DEF UnitKnows
      <3>2. UNCHANGED unitVars
        BY <2>2, <2>3, <2>4 DEF unitVars
      <3> QED
        BY <2>2, <2>4, <3>1, <3>2, UnitRefused
    <2>5. CASE Refusal(d) = None
      <3>1. d \in Units /\ Dependents(d) = {}
        BY <2>1, <2>2, <2>5, RefusalMeans DEF UnitKnows
      <3>2. UnitTables
        BY DEF UnitInv
      <3>3. UnitTables' /\ NobodyGoes
        BY <2>2, <2>3, <2>5, <3>1, <3>2, UnitRemoved
      <3> QED
        BY <2>2, <2>3, <2>5, <3>3, UnitWrites
    <2> QED
      BY <2>4, <2>5
  <1> QED
    BY <1>1, <1>2

\* A team is put into one.
LEMMA UnitsGetTeams ==
  ASSUME CallsSound, UnitInv, NEW c \in Callers, PlaceTeam(c) \/ SavePlace(c) PROVE UnitInv'
  <1>1. CASE PlaceTeam(c)
    <2>1. PICK t \in Crews, d \in Units : Accepts(d) /\ Begin(c, "placeTeam", "save", [team |-> t, unit |-> d], None)
      BY <1>1 DEF PlaceTeam
    <2>2. PICK arg : arg = [team |-> t, unit |-> d]
      OBVIOUS
    <2>3. PICK y : y = [op |-> "placeTeam", pc |-> "save", arg |-> arg, seen |-> None, result |-> None]
      OBVIOUS
    <2>4. arg.team = t /\ arg.unit = d
      BY <2>2
    <2>5. UnitKnows(y, {})
      BY <2>1, <2>3, <2>4 DEF UnitKnows, Accepts
    <2>6. Begin(c, "placeTeam", "save", arg, None) /\ UNCHANGED unitVars
      BY <1>1, <2>1, <2>2 DEF PlaceTeam
    <2> QED
      BY <2>3, <2>5, <2>6, UnitBegins
  <1>2. CASE SavePlace(c)
    <2>1. call[c].op = "placeTeam" /\ call[c].pc = "save" /\ UnitKnows(call[c], crossed[c])
      BY <1>2 DEF SavePlace, At, UnitInv, UnitCall, UnitCalls
    <2>2. PICK d, t :
            /\ d = call[c].arg.unit /\ t = call[c].arg.team
            /\ IF ~Standing(d) THEN End(c, "referenced", {}) /\ UNCHANGED base
               ELSE End(c, None, {"units"}) /\ base' = [base EXCEPT ![t] = d]
      BY <1>2 DEF SavePlace
    <2>3. UNCHANGED <<unit, post>> /\ UNCHANGED repaired
      BY <1>2 DEF SavePlace
    <2>4. CASE ~Standing(d)
      <3>1. "units" \in crossed[c]
        BY <2>1, <2>2, <2>4 DEF UnitKnows
      <3>2. UNCHANGED unitVars /\ "referenced" # None
        BY <2>2, <2>3, <2>4, CatalogueAssumption DEF unitVars
      <3> QED
        BY <2>2, <2>4, <3>1, <3>2, UnitRefused
    <2>5. CASE Standing(d)
      <3>1. d \in Units /\ t \in Crews
        BY <2>1, <2>2 DEF UnitKnows
      <3>2. UnitTables
        BY DEF UnitInv
      <3>3. UnitTables' /\ NobodyGoes
        BY <2>2, <2>3, <2>5, <3>1, <3>2, TeamPlaced
      <3> QED
        BY <2>2, <2>3, <2>5, <3>3, UnitWrites
    <2> QED
      BY <2>4, <2>5
  <1> QED
    BY <1>1, <1>2

\* A learner is moved, or imported into a team.
LEMMA UnitsGetPersons ==
  ASSUME CallsSound, UnitInv, NEW c \in Callers, MovePerson(c) \/ SaveMove(c) \/ JoinTeam(c) \/ InsertPerson(c) PROVE UnitInv'
  <1>1. CASE MovePerson(c)
    <2>1. PICK l \in Persons, d \in Units :
            post[l] # None /\ Accepts(d) /\ Begin(c, "movePerson", "save", [person |-> l, unit |-> d], None)
      BY <1>1 DEF MovePerson
    <2>2. PICK arg : arg = [person |-> l, unit |-> d]
      OBVIOUS
    <2>3. PICK y : y = [op |-> "movePerson", pc |-> "save", arg |-> arg, seen |-> None, result |-> None]
      OBVIOUS
    <2>4. arg.person = l /\ arg.unit = d
      BY <2>2
    <2>5. UnitKnows(y, {})
      BY <2>1, <2>3, <2>4 DEF UnitKnows, Accepts
    <2>6. Begin(c, "movePerson", "save", arg, None) /\ UNCHANGED unitVars
      BY <1>1, <2>1, <2>2 DEF MovePerson
    <2> QED
      BY <2>3, <2>5, <2>6, UnitBegins
  <1>2. CASE SaveMove(c)
    <2>1. call[c].op = "movePerson" /\ call[c].pc = "save" /\ UnitKnows(call[c], crossed[c])
      BY <1>2 DEF SaveMove, At, UnitInv, UnitCall, UnitCalls
    <2>2. PICK d, l :
            /\ d = call[c].arg.unit /\ l = call[c].arg.person
            /\ IF ~Standing(d) THEN End(c, "referenced", {}) /\ UNCHANGED post
               ELSE End(c, None, {"units"}) /\ post' = [post EXCEPT ![l].unit = d]
      BY <1>2 DEF SaveMove
    <2>3. UNCHANGED <<unit, base>> /\ UNCHANGED repaired
      BY <1>2 DEF SaveMove
    <2>4. CASE ~Standing(d)
      <3>1. "units" \in crossed[c]
        BY <2>1, <2>2, <2>4 DEF UnitKnows
      <3>2. UNCHANGED unitVars /\ "referenced" # None
        BY <2>2, <2>3, <2>4, CatalogueAssumption DEF unitVars
      <3> QED
        BY <2>2, <2>4, <3>1, <3>2, UnitRefused
    <2>5. CASE Standing(d)
      <3>1. d \in Units /\ l \in Persons /\ post[l] # None
        BY <2>1, <2>2 DEF UnitKnows
      <3>2. UnitTables
        BY DEF UnitInv
      <3>3. UnitTables' /\ NobodyGoes
        BY <2>2, <2>3, <2>5, <3>1, <3>2, PersonMoved
      <3> QED
        BY <2>2, <2>3, <2>5, <3>3, UnitWrites
    <2> QED
      BY <2>4, <2>5
  <1>3. CASE JoinTeam(c)
    <2>1. PICK l \in Persons, t \in Crews :
            post[l] = None /\ base[t] # None /\ Begin(c, "joinTeam", "insert", [person |-> l, team |-> t], base[t])
      BY <1>3 DEF JoinTeam
    <2>2. PICK arg, d : arg = [person |-> l, team |-> t] /\ d = base[t]
      OBVIOUS
    <2>3. PICK y : y = [op |-> "joinTeam", pc |-> "insert", arg |-> arg, seen |-> d, result |-> None]
      OBVIOUS
    <2>4. arg.person = l /\ arg.team = t
      BY <2>2
    <2>5. d \in Units /\ Standing(d)
      BY <2>1, <2>2 DEF UnitInv, UnitTables, UnitsTypeOK
    <2>6. UnitKnows(y, {})
      BY <2>1, <2>3, <2>4, <2>5 DEF UnitKnows
    <2>7. Begin(c, "joinTeam", "insert", arg, d) /\ UNCHANGED unitVars
      BY <1>3, <2>1, <2>2 DEF JoinTeam
    <2> QED
      BY <2>3, <2>6, <2>7, UnitBegins
  <1>4. CASE InsertPerson(c)
    <2>1. call[c].op = "joinTeam" /\ call[c].pc = "insert" /\ UnitKnows(call[c], crossed[c])
      BY <1>4 DEF InsertPerson, At, UnitInv, UnitCall, UnitCalls
    <2>2. PICK d, l, t, it :
            /\ d = call[c].seen /\ l = call[c].arg.person /\ t = call[c].arg.team /\ it = [team |-> t, unit |-> d]
            /\ IF ~Standing(d) THEN End(c, "referenced", {}) /\ UNCHANGED post
               ELSE End(c, None, {"units"}) /\ post' = [post EXCEPT ![l] = it]
      BY <1>4 DEF InsertPerson
    <2>3. UNCHANGED <<unit, base>> /\ UNCHANGED repaired
      BY <1>4 DEF InsertPerson
    <2>4. CASE ~Standing(d)
      <3>1. "units" \in crossed[c]
        BY <2>1, <2>2, <2>4 DEF UnitKnows
      <3>2. UNCHANGED unitVars /\ "referenced" # None
        BY <2>2, <2>3, <2>4, CatalogueAssumption DEF unitVars
      <3> QED
        BY <2>2, <2>4, <3>1, <3>2, UnitRefused
    <2>5. CASE Standing(d)
      <3>1. d \in Units /\ l \in Persons /\ t \in Crews /\ base[t] # None
        BY <2>1, <2>2 DEF UnitKnows
      <3>2. UnitTables
        BY DEF UnitInv
      <3>3. it \in PostRow /\ it.team = t /\ it.unit = d
        BY <2>2, <3>1 DEF PostRow
      <3>4. UnitTables' /\ NobodyGoes
        BY <2>2, <2>3, <2>5, <3>1, <3>2, <3>3, PersonPlaced
      <3> QED
        BY <2>2, <2>3, <2>5, <3>4, UnitWrites
    <2> QED
      BY <2>4, <2>5
  <1> QED
    BY <1>1, <1>2, <1>3, <1>4

-----------------------------------------------------------------------------
(* The script.                                                             *)

\* What it has seen, part by part.
LEMMA RepairParts ==
  ASSUME NEW m, NEW w, NEW v, NEW e, NEW x, NEW f, NEW s,
         s = [moves |-> m, waiting |-> w, vacated |-> v, emptied |-> e, deleted |-> x, foretold |-> f]
  PROVE /\ RepairSeen(s)
        /\ s.moves = m /\ s.waiting = w /\ s.vacated = v /\ s.emptied = e /\ s.deleted = x /\ s.foretold = f
  BY DEF RepairSeen

\* One waits no longer.
LEMMA WaitsNoMore ==
  ASSUME NEW s, RepairSeen(s), NEW w
  PROVE [s EXCEPT !.waiting = w] = [moves |-> s.moves, waiting |-> w, vacated |-> s.vacated, emptied |-> s.emptied,
                                    deleted |-> s.deleted, foretold |-> s.foretold]
  <1>1. s \in [moves : {s.moves}, waiting : {s.waiting}, vacated : {s.vacated}, emptied : {s.emptied},
               deleted : {s.deleted}, foretold : {s.foretold}]
    BY DEF RepairSeen
  <1>2. PICK y : y = [s EXCEPT !.waiting = w]
    BY Zenon
  <1>3. y = [moves |-> s.moves, waiting |-> w, vacated |-> s.vacated, emptied |-> s.emptied,
             deleted |-> s.deleted, foretold |-> s.foretold]
    BY <1>1, <1>2
  <1> QED
    BY <1>2, <1>3, Zenon

\* A department is judged.
LEMMA JudgedOnce ==
  ASSUME NEW s, RepairSeen(s), NEW v, NEW e
  PROVE [s EXCEPT !.vacated = v, !.emptied = e] = [moves |-> s.moves, waiting |-> s.waiting, vacated |-> v, emptied |-> e,
                                                   deleted |-> s.deleted, foretold |-> s.foretold]
  <1>1. s \in [moves : {s.moves}, waiting : {s.waiting}, vacated : {s.vacated}, emptied : {s.emptied},
               deleted : {s.deleted}, foretold : {s.foretold}]
    BY DEF RepairSeen
  <1>2. PICK y : y = [s EXCEPT !.vacated = v, !.emptied = e]
    BY Zenon
  <1>3. y = [moves |-> s.moves, waiting |-> s.waiting, vacated |-> v, emptied |-> e,
             deleted |-> s.deleted, foretold |-> s.foretold]
    BY <1>1, <1>2
  <1> QED
    BY <1>2, <1>3, Zenon

\* One is deleted.
LEMMA DeletedOne ==
  ASSUME NEW s, RepairSeen(s), NEW x
  PROVE [s EXCEPT !.deleted = x] = [moves |-> s.moves, waiting |-> s.waiting, vacated |-> s.vacated, emptied |-> s.emptied,
                                    deleted |-> x, foretold |-> s.foretold]
  <1>1. s \in [moves : {s.moves}, waiting : {s.waiting}, vacated : {s.vacated}, emptied : {s.emptied},
               deleted : {s.deleted}, foretold : {s.foretold}]
    BY DEF RepairSeen
  <1>2. PICK y : y = [s EXCEPT !.deleted = x]
    BY Zenon
  <1>3. y = [moves |-> s.moves, waiting |-> s.waiting, vacated |-> s.vacated, emptied |-> s.emptied,
             deleted |-> x, foretold |-> s.foretold]
    BY <1>1, <1>2
  <1> QED
    BY <1>2, <1>3, Zenon

\* Those who are to move from a department are, before they move, some of its learners, and after they have, none
\* when it has no team; it is held by the others.
LEMMA ForsakenMeans ==
  ASSUME UnitTables, NEW y, OnCourse(y), RepairKnows(y, {}), y.pc = "judge", NEW d \in Units, TeamsOf(d) = {}
  PROVE /\ y.arg.apply => (PersonsOf(d) = {} <=> Forsaken(d, y.seen.moves))
        /\ StillHeld(d, y.arg.apply, y.seen.moves) <= 0 <=> Forsaken(d, y.seen.moves)
  <1>1. PICK m : m = y.seen.moves
    OBVIOUS
  <1>2. DOMAIN m \subseteq Persons /\ \A l \in DOMAIN m : post[l] # None
    BY <1>1 DEF RepairKnows
  <1>3. d # None
    BY UnitsAssumption
  <1>4. IsFiniteSet(PersonsOf(d)) /\ Cardinality(PersonsOf(d)) \in Nat
    <2>1. IsFiniteSet(Persons) /\ PersonsOf(d) \subseteq Persons
      BY UnitsAssumption DEF PersonsOf
    <2> QED
      BY <2>1, FS_Subset, FS_CardinalityType
  <1>5. CASE y.arg.apply
    <2>1. \A l \in DOMAIN m : post[l].unit = base[post[l].team]
      BY <1>1, <1>5 DEF OnCourse
    <2>2. \A l \in DOMAIN m : post[l].unit # d
      BY <1>2, <2>1 DEF TeamsOf, UnitTables, PostRow
    <2>3. PersonsOf(d) = {} <=> Forsaken(d, m)
      BY <1>2, <2>2 DEF PersonsOf, Forsaken
    <2>4. Cardinality(PersonsOf(d)) <= 0 <=> PersonsOf(d) = {}
      <3>1. Cardinality(PersonsOf(d)) = 0 <=> PersonsOf(d) = {}
        BY <1>4, FS_EmptySet
      <3> QED
        BY <1>4, <3>1
    <2> QED
      BY <1>1, <1>5, <2>3, <2>4 DEF StillHeld
  <1>6. CASE ~y.arg.apply
    <2>1. PICK M : M = {l \in DOMAIN m : m[l].from = d}
      OBVIOUS
    <2>2. \A l \in DOMAIN m : post[l].unit = m[l].from
      BY <1>1, <1>6 DEF OnCourse
    <2>3. M \subseteq PersonsOf(d)
      BY <1>2, <2>1, <2>2 DEF PersonsOf
    <2>4. M = PersonsOf(d) <=> Forsaken(d, m)
      BY <1>2, <2>1, <2>2, <2>3 DEF PersonsOf, Forsaken
    <2>5. IsFiniteSet(M) /\ Cardinality(M) \in Nat /\ Cardinality(M) <= Cardinality(PersonsOf(d))
          /\ (Cardinality(PersonsOf(d)) = Cardinality(M) <=> M = PersonsOf(d))
      BY <1>4, <2>3, FS_Subset, FS_CardinalityType
    <2>6. Cardinality(PersonsOf(d)) - Cardinality(M) <= 0 <=> M = PersonsOf(d)
      BY <1>4, <2>5
    <2> QED
      BY <1>1, <1>6, <2>1, <2>4, <2>6 DEF StillHeld
  <1> QED
    BY <1>5, <1>6

\* The script begins: it reads who is out of place.
LEMMA RepairBegins ==
  ASSUME CallsSound, UnitInv, NEW c \in Callers, Repair(c) PROVE UnitInv'
  <1>1. PICK apply, only, moves :
          /\ apply \in BOOLEAN /\ only \in BOOLEAN
          /\ moves = [l \in Misplaced(only) |-> [from |-> post[l].unit, to |-> base[post[l].team]]]
          /\ Begin(c, "repair", IF apply THEN "move" ELSE "judge", [apply |-> apply, only |-> only],
                   [moves |-> moves, waiting |-> DOMAIN moves, vacated |-> Vacated(moves), emptied |-> {}, deleted |-> {},
                    foretold |-> {d \in Vacated(moves) : TeamsOf(d) = {} /\ PersonsOf(d) \subseteq DOMAIN moves}])
    BY Zenon DEF Repair
  <1>2. PICK pc, arg, f, s :
          /\ pc = (IF apply THEN "move" ELSE "judge") /\ arg = [apply |-> apply, only |-> only]
          /\ f = {d \in Vacated(moves) : TeamsOf(d) = {} /\ PersonsOf(d) \subseteq DOMAIN moves}
          /\ s = [moves |-> moves, waiting |-> DOMAIN moves, vacated |-> Vacated(moves), emptied |-> {}, deleted |-> {}, foretold |-> f]
    BY Zenon
  <1>3. PICK y : y = [op |-> "repair", pc |-> pc, arg |-> arg, seen |-> s, result |-> None]
    BY Zenon
  <1>4. Begin(c, "repair", pc, arg, s)
    BY <1>1, <1>2, Zenon
  <1>5. /\ RepairSeen(s) /\ s.moves = moves /\ s.waiting = DOMAIN moves /\ s.vacated = Vacated(moves)
        /\ s.emptied = {} /\ s.deleted = {} /\ s.foretold = f
    BY <1>2, RepairParts
  <1>6. y.op = "repair" /\ y.pc = pc /\ y.arg = arg /\ y.seen = s /\ y.result = None
    BY <1>3
  <1>7. arg.apply = apply /\ arg.only = only
    BY <1>2
  <1>8. DOMAIN moves = Misplaced(only) /\ \A l \in DOMAIN moves :
          /\ moves[l].from = post[l].unit /\ moves[l].to = base[post[l].team]
          /\ l \in Persons /\ post[l] # None /\ moves[l].to \in Units
          /\ moves[l].from # None => moves[l].from \in Units /\ Standing(moves[l].from)
    <2>1. DOMAIN moves = Misplaced(only) /\ \A l \in DOMAIN moves :
            moves[l] = [from |-> post[l].unit, to |-> base[post[l].team]]
      BY <1>1
    <2>2. SUFFICES ASSUME NEW l \in DOMAIN moves
                   PROVE /\ moves[l].from = post[l].unit /\ moves[l].to = base[post[l].team]
                         /\ l \in Persons /\ post[l] # None /\ moves[l].to \in Units
                         /\ moves[l].from # None => moves[l].from \in Units /\ Standing(moves[l].from)
      BY <2>1
    <2>3. moves[l].from = post[l].unit /\ moves[l].to = base[post[l].team] /\ l \in Persons /\ post[l] # None
      <3>1. moves[l].from = post[l].unit /\ moves[l].to = base[post[l].team]
        BY <2>1
      <3>2. l \in Misplaced(only)
        BY <2>1, Zenon
      <3>3. l \in Persons /\ post[l] # None
        BY <3>2, Zenon DEF Misplaced
      <3> QED
        BY <3>1, <3>3
    <2>4. post[l] \in PostRow
      BY <2>3 DEF UnitInv, UnitTables
    <2>5. base[post[l].team] \in Units
      BY <2>3, <2>4 DEF UnitInv, UnitTables, UnitsTypeOK, PostRow
    <2> QED
      BY <2>3, <2>4, <2>5 DEF UnitInv, UnitTables, UnitsTypeOK, PostRow
  <1>9. VacatedBy(moves) = Vacated(moves) /\ Vacated(moves) \subseteq Units
    BY <1>8 DEF VacatedBy, Vacated
  <1>10. f = {d \in VacatedBy(moves) : Forsaken(d, moves)}
    <2>1. \A d : PersonsOf(d) \subseteq DOMAIN moves <=> \A l \in Persons \ DOMAIN moves : post[l] # None => post[l].unit # d
      BY DEF PersonsOf
    <2> QED
      BY <1>2, <1>9, <2>1 DEF Forsaken
  <1>11. OnCourse(y)
    <2>1. \A l \in DOMAIN moves : moves[l].to = base[post[l].team] /\ post[l].unit = moves[l].from
      BY <1>8
    <2>2. \A l \in Persons \ DOMAIN moves :
            post[l] # None /\ post[l].unit # base[post[l].team] => only /\ post[l].unit = None
      BY <1>8 DEF Misplaced
    <2>3. \A d \in VacatedBy(moves) : Standing(d)
      BY <1>8 DEF VacatedBy
    <2>4. {} = f \ Vacated(moves)
      BY <1>9, <1>10
    <2> QED
      BY <1>2, <1>5, <1>6, <1>7, <1>9, <1>10, <2>1, <2>2, <2>3, <2>4 DEF OnCourse
  <1>12. UnitKnows(y, {})
    <2>1. apply \in BOOLEAN /\ pc \in {"move", "judge"} /\ (pc = "move" => apply)
      BY <1>1, <1>2, Zenon
    <2>2. RepairKnows(y, {})
      BY <1>5, <1>6, <1>7, <1>8, <1>9, <1>11, <2>1 DEF RepairKnows
    <2> QED
      BY <1>6, <2>2 DEF UnitKnows
  <1>13. UNCHANGED unitVars
    BY DEF Repair
  <1> QED
    BY <1>3, <1>4, <1>12, <1>13, UnitBegins

\* One is moved.
LEMMA RepairMoves ==
  ASSUME CallsSound, UnitInv, NEW c \in Callers, MoveMisplaced(c) PROVE UnitInv'
  <1>1. PICK x, w : x = call[c] /\ w = crossed[c]
    OBVIOUS
  <1>2. x.op = "repair" /\ x.pc = "move"
    BY <1>1 DEF MoveMisplaced, At
  <1>3. RepairKnows(x, w)
    BY <1>1, <1>2 DEF UnitInv, UnitCall, UnitCalls, UnitKnows
  <1>4. UnitTables /\ UNCHANGED <<unit, base>> /\ UNCHANGED repaired
    BY DEF UnitInv, MoveMisplaced
  <1>5. PICK l \in x.seen.waiting :
          IF ~Standing(x.seen.moves[l].to) THEN End(c, "referenced", {}) /\ UNCHANGED post
          ELSE /\ post' = [post EXCEPT ![l].unit = x.seen.moves[l].to]
               /\ Goto(c, "move", [x.seen EXCEPT !.waiting = @ \ {l}], {"units"})
    BY <1>1, Zenon DEF MoveMisplaced
  <1>6. PICK d : d = x.seen.moves[l].to
    OBVIOUS
  <1>7. l \in DOMAIN x.seen.moves /\ l \in Persons /\ post[l] # None /\ d \in Units
    BY <1>3, <1>6 DEF RepairKnows
  <1>8. CASE ~Standing(d)
    <2>1. End(c, "referenced", {}) /\ UNCHANGED post /\ "referenced" # None
      BY <1>5, <1>6, <1>8, CatalogueAssumption
    <2>2. "units" \in w
      <3>1. "units" \notin w => d = base[post[l].team]
        BY <1>3, <1>6, <1>7 DEF RepairKnows, OnCourse
      <3>2. base[post[l].team] # None /\ post[l].team \in Crews
        BY <1>4, <1>7 DEF UnitTables, UnitsTypeOK, PostRow
      <3> QED
        BY <1>4, <1>8, <3>1, <3>2 DEF UnitTables, UnitsTypeOK
    <2>3. UNCHANGED unitVars
      BY <1>4, <2>1 DEF unitVars
    <2> QED
      BY <1>1, <2>1, <2>2, <2>3, UnitRefused
  <1>9. CASE Standing(d)
    <2>1. post' = [post EXCEPT ![l].unit = d] /\ Goto(c, "move", [x.seen EXCEPT !.waiting = @ \ {l}], {"units"})
      BY <1>5, <1>6, <1>9, Zenon
    <2>2. PICK s : s = [moves |-> x.seen.moves, waiting |-> x.seen.waiting \ {l}, vacated |-> x.seen.vacated,
                        emptied |-> x.seen.emptied, deleted |-> x.seen.deleted, foretold |-> x.seen.foretold]
      OBVIOUS
    <2>3. Goto(c, "move", s, {"units"})
      <3>1. RepairSeen(x.seen)
        BY <1>3 DEF RepairKnows
      <3>2. [x.seen EXCEPT !.waiting = x.seen.waiting \ {l}] = s
        BY <2>2, <3>1, WaitsNoMore
      <3> QED
        BY <2>1, <3>2, Zenon
    <2>4. PICK y : y = [op |-> x.op, pc |-> "move", arg |-> x.arg, seen |-> s, result |-> x.result]
      OBVIOUS
    <2>5. /\ RepairSeen(s) /\ s.moves = x.seen.moves /\ s.waiting = x.seen.waiting \ {l} /\ s.vacated = x.seen.vacated
          /\ s.emptied = x.seen.emptied /\ s.deleted = x.seen.deleted /\ s.foretold = x.seen.foretold
      BY <2>2, RepairParts
    <2>6. y.op = "repair" /\ y.pc = "move" /\ y.arg = x.arg /\ y.seen = s /\ y.result = x.result
      BY <1>2, <2>4
    <2>7. UnitTables' /\ NobodyGoes /\ post' = [post EXCEPT ![l] = [team |-> post[l].team, unit |-> d]]
      BY <1>4, <1>7, <1>9, <2>1, PersonMoved
    <2>8. \A k \in Persons : k # l => post'[k] = post[k]
      BY <1>4, <2>7 DEF UnitTables
    <2>9. post'[l].team = post[l].team /\ post'[l].unit = d /\ post'[l] # None
      BY <1>4, <1>7, <2>7 DEF UnitTables, NobodyGoes
    <2>10. ASSUME OnCourse(x) PROVE OnCourse(y)'
      <3>1. \A k \in DOMAIN x.seen.moves : k \in Persons
        BY <1>3 DEF RepairKnows
      <3>2. \A k \in DOMAIN x.seen.moves :
              /\ x.seen.moves[k].to = base'[post'[k].team]
              /\ post'[k].unit = IF k \in s.waiting THEN x.seen.moves[k].from ELSE x.seen.moves[k].to
        BY <1>4, <1>6, <2>5, <2>8, <2>9, <2>10, <3>1 DEF OnCourse
      <3>3. \A k \in Persons \ DOMAIN x.seen.moves : post'[k] = post[k]
        BY <1>7, <2>8
      <3>4. \A e : Standing(e)' = Standing(e) /\ (Forsaken(e, x.seen.moves)' <=> Forsaken(e, x.seen.moves))
        BY <1>4, <3>3 DEF Standing, Forsaken, TeamsOf
      <3> QED
        BY <1>2, <1>4, <2>5, <2>6, <2>10, <3>2, <3>3, <3>4 DEF OnCourse
    <2>11. RepairKnows(y, w)'
      BY <1>2, <1>3, <2>5, <2>6, <2>7, <2>10 DEF RepairKnows, NobodyGoes
    <2>12. UnitCall(y, crossed[c])'
      <3>1. crossed'[c] = w
        BY <1>1, <2>3, GotoDoes DEF CallsSound
      <3>2. UnitCall(x, w)
        BY <1>1 DEF UnitInv
      <3>3. UnitCall(y, w)'
        BY <1>2, <2>6, <2>11, <3>2 DEF UnitCall, UnitCalls, UnitKnows
      <3> QED
        BY <3>1, <3>3
    <2> QED
      BY <1>1, <1>4, <2>3, <2>4, <2>7, <2>12, UnitGoesOn
  <1> QED
    BY <1>8, <1>9

\* All are moved.
LEMMA RepairMoved ==
  ASSUME CallsSound, UnitInv, NEW c \in Callers, Moved(c) PROVE UnitInv'
  <1>1. PICK x, w : x = call[c] /\ w = crossed[c]
    OBVIOUS
  <1>2. x.op = "repair" /\ x.pc = "move" /\ x.seen.waiting = {} /\ Goto(c, "judge", x.seen, {}) /\ UNCHANGED unitVars
    BY <1>1 DEF Moved, At
  <1>3. RepairKnows(x, w) /\ UnitCall(x, w)
    BY <1>1, <1>2 DEF UnitInv, UnitCall, UnitCalls, UnitKnows
  <1>4. PICK y : y = [op |-> x.op, pc |-> "judge", arg |-> x.arg, seen |-> x.seen, result |-> x.result]
    OBVIOUS
  <1>5. y.op = "repair" /\ y.pc = "judge" /\ y.arg = x.arg /\ y.seen = x.seen /\ y.result = x.result
    BY <1>2, <1>4
  <1>6. OnCourse(x) => OnCourse(y)
    <2>1. x.arg.apply = TRUE
      BY <1>2, <1>3 DEF RepairKnows
    <2>2. PICK s, a : s = x.seen /\ a = x.arg
      OBVIOUS
    <2>3. /\ x.seen = s /\ x.arg = a /\ y.seen = s /\ y.arg = a /\ s.waiting = {} /\ a.apply = TRUE
          /\ x.pc = "move" /\ y.pc = "judge"
      BY <1>2, <1>5, <2>1, <2>2
    <2> QED
      BY <2>3 DEF OnCourse
  <1>7. RepairKnows(y, w)
    BY <1>3, <1>5, <1>6 DEF RepairKnows
  <1>8. UnitCall(y, w)
    BY <1>2, <1>3, <1>5, <1>7 DEF UnitCall, UnitCalls, UnitKnows
  <1>9. UNCHANGED <<unit, base, post>> /\ UNCHANGED repaired /\ UnitTables' /\ NobodyGoes
    BY <1>2 DEF unitVars, UnitInv, UnitTables, UnitsTypeOK, Standing, Taken, NobodyGoes
  <1>10. UnitCall(y, crossed[c])'
    <2>1. crossed'[c] = w
      BY <1>1, <1>2, GotoDoes DEF CallsSound
    <2>2. UnitCall(y, w)'
      BY <1>8, <1>9, UnitOthersKnow
    <2> QED
      BY <2>1, <2>2
  <1> QED
    BY <1>1, <1>2, <1>4, <1>9, <1>10, UnitGoesOn

\* A department is judged: it is empty just if a dry run would have named it.
LEMMA RepairJudges ==
  ASSUME CallsSound, UnitInv, NEW c \in Callers, Judge(c) PROVE UnitInv'
  <1>1. PICK x, w : x = call[c] /\ w = crossed[c]
    OBVIOUS
  <1>2. x.op = "repair" /\ x.pc = "judge" /\ UNCHANGED unitVars
    BY <1>1 DEF Judge, At
  <1>3. RepairKnows(x, w) /\ UnitCall(x, w)
    BY <1>1, <1>2 DEF UnitInv, UnitCall, UnitCalls, UnitKnows
  <1>4. PICK d \in x.seen.vacated :
          Goto(c, "judge",
               [x.seen EXCEPT !.vacated = @ \ {d},
                              !.emptied = IF Standing(d) /\ TeamsOf(d) = {} /\ StillHeld(d, x.arg.apply, x.seen.moves) <= 0
                                          THEN @ \cup {d} ELSE @], {})
    BY <1>1, Zenon DEF Judge
  <1>5. PICK e, s :
          /\ e = (IF Standing(d) /\ TeamsOf(d) = {} /\ StillHeld(d, x.arg.apply, x.seen.moves) <= 0
                  THEN x.seen.emptied \cup {d} ELSE x.seen.emptied)
          /\ s = [moves |-> x.seen.moves, waiting |-> x.seen.waiting, vacated |-> x.seen.vacated \ {d}, emptied |-> e,
                  deleted |-> x.seen.deleted, foretold |-> x.seen.foretold]
    BY Zenon
  <1>6. Goto(c, "judge", s, {})
    <2>1. RepairSeen(x.seen)
      BY <1>3 DEF RepairKnows
    <2>2. [x.seen EXCEPT !.vacated = x.seen.vacated \ {d}, !.emptied = e] = s
      BY <1>5, <2>1, JudgedOnce
    <2> QED
      BY <1>4, <1>5, <2>2, Zenon
  <1>7. PICK y : y = [op |-> x.op, pc |-> "judge", arg |-> x.arg, seen |-> s, result |-> x.result]
    OBVIOUS
  <1>8. /\ RepairSeen(s) /\ s.moves = x.seen.moves /\ s.waiting = x.seen.waiting /\ s.vacated = x.seen.vacated \ {d}
        /\ s.emptied = e /\ s.deleted = x.seen.deleted /\ s.foretold = x.seen.foretold
    BY <1>5, RepairParts
  <1>9. y.op = "repair" /\ y.pc = "judge" /\ y.arg = x.arg /\ y.seen = s /\ y.result = x.result
    BY <1>2, <1>7
  <1>10. d \in Units /\ e \in {x.seen.emptied, x.seen.emptied \cup {d}}
    BY <1>3, <1>5 DEF RepairKnows
  <1>11. ASSUME "units" \notin w, OnCourse(x) PROVE OnCourse(y)
    <2>1. d \in VacatedBy(x.seen.moves) /\ x.seen.deleted = {} /\ Standing(d)
      BY <1>11 DEF OnCourse
    <2>2. RepairKnows(x, {}) /\ UnitTables
      BY <1>3, <1>11 DEF RepairKnows, UnitInv
    <2>3. TeamsOf(d) = {} => (StillHeld(d, x.arg.apply, x.seen.moves) <= 0 <=> Forsaken(d, x.seen.moves))
      BY <1>2, <1>10, <1>11, <2>2, ForsakenMeans
    <2>4. d \in x.seen.foretold <=> TeamsOf(d) = {} /\ StillHeld(d, x.arg.apply, x.seen.moves) <= 0
      <3>1. d \in x.seen.foretold <=> Forsaken(d, x.seen.moves)
        BY <1>11, <2>1 DEF OnCourse
      <3> QED
        BY <2>3, <3>1 DEF Forsaken
    <2>5. e = IF d \in x.seen.foretold THEN x.seen.emptied \cup {d} ELSE x.seen.emptied
      BY <1>5, <2>1, <2>4, Zenon
    <2>6. e = x.seen.foretold \ s.vacated
      <3>1. x.seen.emptied = x.seen.foretold \ x.seen.vacated
        BY <1>11 DEF OnCourse
      <3> QED
        BY <1>8, <2>5, <3>1
    <2>7. s.vacated \subseteq VacatedBy(s.moves)
      BY <1>8, <1>11 DEF OnCourse
    <2> QED
      BY <1>2, <1>8, <1>9, <1>11, <2>1, <2>6, <2>7 DEF OnCourse
  <1>12. RepairKnows(y, w)
    BY <1>2, <1>3, <1>8, <1>9, <1>10, <1>11 DEF RepairKnows
  <1>13. UnitCall(y, w)
    BY <1>2, <1>3, <1>9, <1>12 DEF UnitCall, UnitCalls, UnitKnows
  <1>14. UNCHANGED <<unit, base, post>> /\ UNCHANGED repaired /\ UnitTables' /\ NobodyGoes
    BY <1>2 DEF unitVars, UnitInv, UnitTables, UnitsTypeOK, Standing, Taken, NobodyGoes
  <1>15. UnitCall(y, crossed[c])'
    <2>1. crossed'[c] = w
      BY <1>1, <1>6, GotoDoes DEF CallsSound
    <2>2. UnitCall(y, w)'
      BY <1>13, <1>14, UnitOthersKnow
    <2> QED
      BY <2>1, <2>2
  <1> QED
    BY <1>1, <1>6, <1>7, <1>14, <1>15, UnitGoesOn

\* An empty one is deleted.
LEMMA RepairDeletes ==
  ASSUME CallsSound, UnitInv, NEW c \in Callers, DeleteEmptied(c) PROVE UnitInv'
  <1>1. PICK x, w : x = call[c] /\ w = crossed[c]
    OBVIOUS
  <1>2. x.op = "repair" /\ x.pc = "judge" /\ x.seen.vacated = {} /\ x.arg.apply
    BY <1>1 DEF DeleteEmptied, At
  <1>3. RepairKnows(x, w) /\ UnitCall(x, w)
    BY <1>1, <1>2 DEF UnitInv, UnitCall, UnitCalls, UnitKnows
  <1>4. UnitTables /\ UNCHANGED <<base, post>> /\ UNCHANGED repaired
    BY DEF UnitInv, DeleteEmptied
  <1>5. PICK d \in x.seen.emptied \ x.seen.deleted :
          IF Refusal(d) # None THEN End(c, Refusal(d), {}) /\ UNCHANGED unit
          ELSE /\ unit' = [unit EXCEPT ![d] = None]
               /\ Goto(c, "judge", [x.seen EXCEPT !.deleted = @ \cup {d}], {"units"})
    BY <1>1, Zenon DEF DeleteEmptied
  <1>6. d \in Units
    BY <1>3 DEF RepairKnows
  <1>7. CASE Refusal(d) # None
    <2>1. End(c, Refusal(d), {}) /\ UNCHANGED unit
      BY <1>5, <1>7
    <2>2. ASSUME "units" \notin w PROVE FALSE
      <3>1. OnCourse(x) /\ RepairKnows(x, {})
        BY <1>3, <2>2 DEF RepairKnows
      <3>2. d \in VacatedBy(x.seen.moves) /\ Forsaken(d, x.seen.moves) /\ Standing(d)
        BY <1>2, <3>1 DEF OnCourse
      <3>3. TeamsOf(d) = {}
        BY <3>2 DEF Forsaken
      <3>4. PersonsOf(d) = {}
        BY <1>2, <1>4, <1>6, <3>1, <3>2, <3>3, ForsakenMeans
      <3> QED
        BY <1>7, <3>2, <3>3, <3>4, RefusalMeans DEF Dependents
    <2>3. UNCHANGED unitVars
      BY <1>4, <2>1 DEF unitVars
    <2> QED
      BY <1>1, <1>7, <2>1, <2>2, <2>3, UnitRefused
  <1>8. CASE Refusal(d) = None
    <2>1. unit' = [unit EXCEPT ![d] = None] /\ Goto(c, "judge", [x.seen EXCEPT !.deleted = @ \cup {d}], {"units"})
      BY <1>5, <1>8, Zenon
    <2>2. PICK s : s = [moves |-> x.seen.moves, waiting |-> x.seen.waiting, vacated |-> x.seen.vacated,
                        emptied |-> x.seen.emptied, deleted |-> x.seen.deleted \cup {d}, foretold |-> x.seen.foretold]
      OBVIOUS
    <2>3. Goto(c, "judge", s, {"units"})
      <3>1. RepairSeen(x.seen)
        BY <1>3 DEF RepairKnows
      <3>2. [x.seen EXCEPT !.deleted = x.seen.deleted \cup {d}] = s
        BY <2>2, <3>1, DeletedOne
      <3> QED
        BY <2>1, <3>2, Zenon
    <2>4. PICK y : y = [op |-> x.op, pc |-> "judge", arg |-> x.arg, seen |-> s, result |-> x.result]
      OBVIOUS
    <2>5. /\ RepairSeen(s) /\ s.moves = x.seen.moves /\ s.waiting = x.seen.waiting /\ s.vacated = x.seen.vacated
          /\ s.emptied = x.seen.emptied /\ s.deleted = x.seen.deleted \cup {d} /\ s.foretold = x.seen.foretold
      BY <2>2, RepairParts
    <2>6. y.op = "repair" /\ y.pc = "judge" /\ y.arg = x.arg /\ y.seen = s /\ y.result = x.result
      BY <1>2, <2>4
    <2>7. UnitTables' /\ NobodyGoes
      BY <1>4, <1>6, <1>8, <2>1, RefusalMeans, UnitRemoved
    <2>8. \A e : e # d /\ e \in Units => Standing(e)' = Standing(e)
      BY <1>4, <2>1 DEF UnitTables, Standing
    <2>9. ASSUME OnCourse(x) PROVE OnCourse(y)'
      <3>1. \A e : Forsaken(e, x.seen.moves)' <=> Forsaken(e, x.seen.moves)
        BY <1>4 DEF Forsaken, TeamsOf
      <3>2. \A e \in VacatedBy(x.seen.moves) \ s.deleted : Standing(e)'
        <4>1. \A e \in VacatedBy(x.seen.moves) \ s.deleted : Standing(e) /\ e # d
          BY <2>5, <2>9 DEF OnCourse
        <4>2. VacatedBy(x.seen.moves) \subseteq Units
          BY <1>3 DEF RepairKnows, VacatedBy
        <4> QED
          BY <2>8, <4>1, <4>2
      <3> QED
        BY <1>2, <1>4, <2>5, <2>6, <2>9, <3>1, <3>2 DEF OnCourse
    <2>10. RepairKnows(y, w)'
      BY <1>2, <1>3, <1>4, <2>5, <2>6, <2>7, <2>9 DEF RepairKnows, NobodyGoes
    <2>11. UnitCall(y, crossed[c])'
      <3>1. crossed'[c] = w
        BY <1>1, <2>3, GotoDoes DEF CallsSound
      <3>2. UnitCall(y, w)'
        BY <1>2, <1>3, <2>6, <2>10 DEF UnitCall, UnitCalls, UnitKnows
      <3> QED
        BY <3>1, <3>2
    <2> QED
      BY <1>1, <1>4, <2>3, <2>4, <2>7, <2>11, UnitGoesOn
  <1> QED
    BY <1>7, <1>8

\* The script ends, and says what it found.
LEMMA RepairEnds ==
  ASSUME CallsSound, UnitInv, NEW c \in Callers, EndRepair(c) PROVE UnitInv'
  <1>1. PICK x, w : x = call[c] /\ w = crossed[c]
    OBVIOUS
  <1>2. x.op = "repair" /\ x.pc = "judge" /\ x.seen.vacated = {} /\ (x.arg.apply => x.seen.emptied = x.seen.deleted)
        /\ End(c, None, {}) /\ UNCHANGED <<unit, base, post>>
    BY <1>1 DEF EndRepair, At
  <1>3. RepairKnows(x, w)
    BY <1>1, <1>2 DEF UnitInv, UnitCall, UnitCalls, UnitKnows
  <1>4. PICK torn, still : torn \in BOOLEAN /\ (torn <=> "units" \in w)
          /\ still = Misplaced(x.arg.only)
          /\ repaired' = [apply |-> x.arg.apply, foretold |-> x.seen.foretold, emptied |-> x.seen.emptied,
                          misplaced |-> still, torn |-> torn]
    <2>1. repaired' = [apply |-> x.arg.apply, foretold |-> x.seen.foretold, emptied |-> x.seen.emptied,
                       misplaced |-> Misplaced(x.arg.only), torn |-> "units" \in w]
      BY <1>1, Zenon DEF EndRepair, Stale
    <2> WITNESS "units" \in w, Misplaced(x.arg.only)
    <2>2. ("units" \in w) \in BOOLEAN
      OBVIOUS
    <2> QED
      BY <2>1, <2>2, Zenon
  <1>5. /\ repaired'.apply = x.arg.apply /\ repaired'.foretold = x.seen.foretold /\ repaired'.emptied = x.seen.emptied
        /\ repaired'.misplaced = still /\ repaired'.torn = torn
    BY <1>4
  <1>6. ASSUME "units" \notin w PROVE x.seen.emptied = x.seen.foretold /\ (x.arg.apply => still = {})
    <2>1. OnCourse(x)
      BY <1>3, <1>6 DEF RepairKnows
    <2>2. x.seen.emptied = x.seen.foretold
      BY <1>2, <2>1 DEF OnCourse
    <2>3. ASSUME x.arg.apply, NEW l \in still PROVE FALSE
      <3>1. l \in Misplaced(x.arg.only)
        BY <1>4, Zenon
      <3>2. l \in Persons /\ post[l] # None /\ post[l].unit # base[post[l].team] /\ ~(x.arg.only /\ post[l].unit = None)
        BY <3>1, Zenon DEF Misplaced
      <3>3. l \in DOMAIN x.seen.moves => post[l].unit = base[post[l].team]
        BY <1>2, <2>1, <2>3 DEF OnCourse
      <3> QED
        BY <2>1, <3>2, <3>3 DEF OnCourse
    <2> QED
      BY <2>2, <2>3
  <1>7. ToldTruly'
    BY <1>4, <1>5, <1>6 DEF ToldTruly
  <1>8. /\ call'[c] = Idle
        /\ \A d \in Callers \ {c} : Sees(c, d, {})
    <2>1. CallsOK
      BY DEF CallsSound
    <2>2. PICK result, written : result = None /\ written = {} /\ End(c, result, written)
      BY <1>2
    <2>3. /\ result = None => call'[c] = Idle
          /\ \A d \in Callers \ {c} : Sees(c, d, IF result = None THEN written ELSE {})
      BY <2>1, <2>2, EndDoes
    <2> QED
      BY <2>2, <2>3
  <1>9. Idle.pc = "idle" /\ Idle.result = None
    BY DEF Idle
  <1>10. UnitCall(call[c], crossed[c])'
    BY <1>8, <1>9 DEF UnitCall
  <1>11. UnitTables' /\ NobodyGoes
    BY <1>2 DEF UnitInv, UnitTables, UnitsTypeOK, Standing, Taken, NobodyGoes
  <1>12. \A d \in Callers \ {c} : call'[d] = call[d] /\ crossed[d] \subseteq crossed'[d]
    BY <1>8 DEF Sees
  <1> QED
    BY <1>2, <1>7, <1>10, <1>11, <1>12, UnitKeeps

\* Whatever step of it.
LEMMA UnitsGoOn ==
  ASSUME CallsSound, UnitInv, NEW c \in Callers, UnitStep(c) PROVE UnitInv'
  BY UnitsCreated, UnitsUpdated, UnitsDeleted, UnitsGetTeams, UnitsGetPersons, RepairBegins, RepairMoves, RepairMoved,
     RepairJudges, RepairDeletes, RepairEnds DEF UnitStep

-----------------------------------------------------------------------------
(* The script of a seeding, step by step.                                  *)

\* The rows that the steps before one have found or made.
Earlier(i) == {Script[j].name : j \in {k \in 1 .. i - 1 : Makes(Script[k])}}

\* The script, step by step.
LEMMA ScriptIs ==
  /\ Len(Script) = 23 /\ DOMAIN Script = 1 .. 23
  /\ Script[1] = SeedDepartment /\ Script[2] = SeedTrack /\ Script[3] = SeedLevel
  /\ Script[4] = Guarded("discovery", {"level"}) /\ Script[5] = Guarded("proposition", {"level"})
  /\ Script[6] = SeedSkill /\ Script[7] = SeedPortalUser /\ Script[8] = SeedTeam /\ Script[9] = SeedLearner
  /\ Script[10] = SeedExperience /\ Script[11] = SeedContentItem /\ Script[12] = SeedMediaAsset
  /\ Script[13] = SeedQuestionBank /\ Script[14] = SeedQuestion /\ Script[15] = SeedRubric /\ Script[16] = SeedCriterion
  /\ Script[17] = SeedAssignment /\ Script[18] = SeedLearnerOutcome /\ Script[19] = SeedTrainingPlan
  /\ Script[20] = SeedSession /\ Script[21] = SeedComplete /\ Script[22] = SeedSessionContent /\ Script[23] = SeedAssessment
  <1>1. PICK s, t, u :
          /\ s = <<SeedDepartment, SeedTrack, SeedLevel>>
          /\ t = <<Guarded("discovery", {"level"}), Guarded("proposition", {"level"})>>
          /\ u = SeedDemo
    OBVIOUS
  <1>2. /\ Len(s) = 3 /\ s[1] = SeedDepartment /\ s[2] = SeedTrack /\ s[3] = SeedLevel
        /\ Len(t) = 2 /\ t[1] = Guarded("discovery", {"level"}) /\ t[2] = Guarded("proposition", {"level"})
    BY <1>1
  <1>3. /\ Len(u) = 18 /\ u[1] = SeedSkill /\ u[2] = SeedPortalUser /\ u[3] = SeedTeam /\ u[4] = SeedLearner
        /\ u[5] = SeedExperience /\ u[6] = SeedContentItem /\ u[7] = SeedMediaAsset /\ u[8] = SeedQuestionBank
        /\ u[9] = SeedQuestion /\ u[10] = SeedRubric /\ u[11] = SeedCriterion /\ u[12] = SeedAssignment
        /\ u[13] = SeedLearnerOutcome /\ u[14] = SeedTrainingPlan /\ u[15] = SeedSession /\ u[16] = SeedComplete
        /\ u[17] = SeedSessionContent /\ u[18] = SeedAssessment
    BY <1>1 DEF SeedDemo
  <1>4. PICK S : s \in Seq(S) /\ t \in Seq(S) /\ u \in Seq(S)
    <2> DEFINE S == {s[i] : i \in 1 .. 3} \cup {t[i] : i \in 1 .. 2} \cup {u[i] : i \in 1 .. 18}
    <2>1. s \in Seq(S)
      BY <1>1
    <2>2. t \in Seq(S)
      BY <1>1
    <2>3. u \in Seq(S)
      <3>1. u = [i \in 1 .. 18 |-> u[i]]
        BY <1>1 DEF SeedDemo
      <3>2. \A i \in 1 .. 18 : u[i] \in S
        OBVIOUS
      <3> QED
        BY <3>1, <3>2
    <2> QED
      BY <2>1, <2>2, <2>3
  <1>5. PICK v : v = s \o t
    OBVIOUS
  <1>6. v \in Seq(S) /\ Len(v) = 5 /\ \A i \in 1 .. 5 : v[i] = IF i <= 3 THEN s[i] ELSE t[i - 3]
    <2>1. v \in Seq(S) /\ Len(v) = Len(s) + Len(t) /\ \A i \in 1 .. Len(s) + Len(t) : v[i] = IF i <= Len(s) THEN s[i] ELSE t[i - Len(s)]
      BY <1>4, <1>5, ConcatProperties
    <2> QED
      BY <1>2, <2>1
  <1>7. Script = v \o u
    BY <1>1, <1>5 DEF Script, SeedCatalogue, SeedOutcomes
  <1>8. Len(Script) = 23 /\ DOMAIN Script = 1 .. 23 /\ \A i \in 1 .. 23 : Script[i] = IF i <= 5 THEN v[i] ELSE u[i - 5]
    <2>1. Len(Script) = Len(v) + Len(u) /\ Script \in Seq(S)
          /\ \A i \in 1 .. Len(v) + Len(u) : Script[i] = IF i <= Len(v) THEN v[i] ELSE u[i - Len(v)]
      BY <1>4, <1>6, <1>7, ConcatProperties
    <2> QED
      BY <1>3, <1>6, <2>1
  <1>9. ASSUME NEW i \in 1 .. 3 PROVE Script[i] = s[i]
    <2>1. i \in 1 .. 5 /\ i \in 1 .. 23 /\ i <= 3 /\ i <= 5
      OBVIOUS
    <2>2. Script[i] = v[i]
      BY <1>8, <2>1
    <2>3. v[i] = s[i]
      BY <1>6, <2>1
    <2> QED
      BY <2>2, <2>3
  <1>10. ASSUME NEW i \in 4 .. 5 PROVE Script[i] = t[i - 3]
    <2>1. i \in 1 .. 5 /\ i \in 1 .. 23 /\ ~(i <= 3) /\ i <= 5
      OBVIOUS
    <2>2. Script[i] = v[i]
      BY <1>8, <2>1
    <2>3. v[i] = t[i - 3]
      BY <1>6, <2>1
    <2> QED
      BY <2>2, <2>3
  <1>11. ASSUME NEW i \in 6 .. 23 PROVE Script[i] = u[i - 5]
    <2>1. i \in 1 .. 23 /\ ~(i <= 5)
      OBVIOUS
    <2> QED
      BY <1>8, <2>1
  <1> QED
    BY <1>2, <1>3, <1>8, <1>9, <1>10, <1>11
\* Each of its steps hangs on rows of earlier ones, their names differ, and one of them completes the session.
LEMMA ScriptFacts ==
  /\ \A i \in 1 .. Len(Script) : Script[i].of \subseteq Earlier(i)
  /\ \A i, j \in 1 .. Len(Script) : Makes(Script[i]) /\ Makes(Script[j]) /\ Script[i].name = Script[j].name => i = j
  /\ \A i \in 1 .. Len(Script) : Script[i].kind = "update" <=> i = 21
  /\ \A i \in 1 .. Len(Script) : Script[i].kind \in {"upsert", "guarded", "loose", "check", "update"}
  /\ Len(Script) = 23 /\ DOMAIN Script = 1 .. 23 /\ Makes(Script[20]) /\ Script[20].name = "session"
  <1>1. PICK s : s = Script
    OBVIOUS
  <1>2. Len(s) = 23 /\ DOMAIN s = 1 .. 23
    BY <1>1, ScriptIs
  <1>3. /\ s[1].name = "department" /\ s[1].kind = "upsert" /\ s[1].of = {}
        /\ s[2].name = "track" /\ s[2].kind = "upsert" /\ s[2].of = {}
        /\ s[3].name = "level" /\ s[3].kind = "upsert" /\ s[3].of = {"track"}
        /\ s[4].name = "discovery" /\ s[4].kind = "guarded" /\ s[4].of = {"level"}
        /\ s[5].name = "proposition" /\ s[5].kind = "guarded" /\ s[5].of = {"level"}
        /\ s[6].name = "skill" /\ s[6].kind = "check" /\ s[6].of = {"discovery"}
    BY <1>1, ScriptIs DEF SeedDepartment, SeedTrack, SeedLevel, SeedSkill, Upsert, Guarded, ScriptStep
  <1>4. /\ s[7].name = "manager" /\ s[7].kind = "upsert" /\ s[7].of = {}
        /\ s[8].name = "team" /\ s[8].kind = "loose" /\ s[8].of = {}
        /\ s[9].name = "learner" /\ s[9].kind = "upsert" /\ s[9].of = {}
        /\ s[10].name = "experience" /\ s[10].kind = "guarded" /\ s[10].of = {"learner"}
        /\ s[11].name = "playbook" /\ s[11].kind = "loose" /\ s[11].of = {"discovery"}
        /\ s[12].name = "media" /\ s[12].kind = "loose" /\ s[12].of = {"playbook"}
    BY <1>1, ScriptIs DEF SeedPortalUser, SeedTeam, SeedLearner, SeedExperience, SeedContentItem, SeedMediaAsset,
       Upsert, Guarded, Loose, ScriptStep
  <1>5. /\ s[13].name = "bank" /\ s[13].kind = "guarded" /\ s[13].of = {"discovery"}
        /\ s[14].name = "question" /\ s[14].kind = "loose" /\ s[14].of = {"bank"}
        /\ s[15].name = "rubric" /\ s[15].kind = "loose" /\ s[15].of = {"discovery"}
        /\ s[16].name = "criterion" /\ s[16].kind = "loose" /\ s[16].of = {"rubric"}
        /\ s[17].name = "assignment" /\ s[17].kind = "loose" /\ s[17].of = {"learner", "level"}
        /\ s[18].name = "progress" /\ s[18].kind = "upsert" /\ s[18].of = {"learner", "discovery", "assignment"}
    BY <1>1, ScriptIs DEF SeedQuestionBank, SeedQuestion, SeedRubric, SeedCriterion, SeedAssignment, SeedLearnerOutcome,
       Upsert, Guarded, Loose, ScriptStep
  <1>6. /\ s[19].name = "plan" /\ s[19].kind = "loose" /\ s[19].of = {"learner"}
        /\ s[20].name = "session" /\ s[20].kind = "loose" /\ s[20].of = {"plan"}
        /\ s[21].name = "complete" /\ s[21].kind = "update" /\ s[21].of = {"session"}
        /\ s[22].name = "content" /\ s[22].kind = "loose" /\ s[22].of = {"session", "playbook"}
        /\ s[23].name = "assessment" /\ s[23].kind = "loose" /\ s[23].of = {"session"}
    BY <1>1, ScriptIs DEF SeedTrainingPlan, SeedSession, SeedComplete, SeedSessionContent, SeedAssessment, Loose, ScriptStep
  <1>7. \A i \in 1 .. 23 : \/ i = 1 \/ i = 2 \/ i = 3 \/ i = 4 \/ i = 5 \/ i = 6 \/ i = 7 \/ i = 8 \/ i = 9 \/ i = 10 \/ i = 11
                           \/ i = 12 \/ i = 13 \/ i = 14 \/ i = 15 \/ i = 16 \/ i = 17 \/ i = 18 \/ i = 19 \/ i = 20 \/ i = 21
                           \/ i = 22 \/ i = 23
    OBVIOUS
  <1>8. /\ \A i \in 1 .. 23 : s[i].kind = "update" <=> i = 21
        /\ \A i \in 1 .. 23 : s[i].kind \in {"upsert", "guarded", "loose", "check", "update"}
        /\ \A i \in 1 .. 23 : s[i].kind \in {"check", "update"} <=> i \in {6, 21}
    BY <1>3, <1>4, <1>5, <1>6, <1>7
  <1>9. \A i \in 1 .. 23 : Makes(s[i]) <=> i # 6 /\ i # 21
    BY <1>8 DEF Makes
  <1>10. \A i, j \in 1 .. 23 : s[i].name = s[j].name => i = j
    <2>1. PICK rank : rank =
            [p \in {s[i].name : i \in 1 .. 23} |->
               IF p = "department" THEN 1 ELSE IF p = "track" THEN 2 ELSE IF p = "level" THEN 3
               ELSE IF p = "discovery" THEN 4 ELSE IF p = "proposition" THEN 5 ELSE IF p = "skill" THEN 6
               ELSE IF p = "manager" THEN 7 ELSE IF p = "team" THEN 8 ELSE IF p = "learner" THEN 9
               ELSE IF p = "experience" THEN 10 ELSE IF p = "playbook" THEN 11 ELSE IF p = "media" THEN 12
               ELSE IF p = "bank" THEN 13 ELSE IF p = "question" THEN 14 ELSE IF p = "rubric" THEN 15
               ELSE IF p = "criterion" THEN 16 ELSE IF p = "assignment" THEN 17 ELSE IF p = "progress" THEN 18
               ELSE IF p = "plan" THEN 19 ELSE IF p = "session" THEN 20 ELSE IF p = "complete" THEN 21
               ELSE IF p = "content" THEN 22 ELSE 23]
      OBVIOUS
    <2>2. /\ rank[s[1].name] = 1 /\ rank[s[2].name] = 2 /\ rank[s[3].name] = 3 /\ rank[s[4].name] = 4
          /\ rank[s[5].name] = 5 /\ rank[s[6].name] = 6
      BY <1>3, <2>1
    <2>3. /\ rank[s[7].name] = 7 /\ rank[s[8].name] = 8 /\ rank[s[9].name] = 9 /\ rank[s[10].name] = 10
          /\ rank[s[11].name] = 11 /\ rank[s[12].name] = 12
      BY <1>4, <2>1
    <2>4. /\ rank[s[13].name] = 13 /\ rank[s[14].name] = 14 /\ rank[s[15].name] = 15 /\ rank[s[16].name] = 16
          /\ rank[s[17].name] = 17 /\ rank[s[18].name] = 18
      BY <1>5, <2>1
    <2>5. /\ rank[s[19].name] = 19 /\ rank[s[20].name] = 20 /\ rank[s[21].name] = 21 /\ rank[s[22].name] = 22
          /\ rank[s[23].name] = 23
      BY <1>6, <2>1
    <2>6. \A i \in 1 .. 23 : rank[s[i].name] = i
      BY <1>7, <2>2, <2>3, <2>4, <2>5
    <2> QED
      BY <2>6
  <1>11. \A i \in 1 .. 23 : Earlier(i) = {s[j].name : j \in 1 .. i - 1 \ {6, 21}}
    <2>1. ASSUME NEW i \in 1 .. 23 PROVE {k \in 1 .. i - 1 : Makes(s[k])} = 1 .. i - 1 \ {6, 21}
      <3>1. \A k \in 1 .. i - 1 : k \in 1 .. 23
        OBVIOUS
      <3>2. \A k \in 1 .. i - 1 : Makes(s[k]) <=> k # 6 /\ k # 21
        BY <1>9, <3>1
      <3> QED
        BY <3>2
    <2> QED
      BY <1>1, <2>1 DEF Earlier
  <1>12. \A i \in 1 .. 23 : \A j \in 1 .. i - 1 : j # 6 /\ j # 21 => s[j].name \in Earlier(i)
    BY <1>11
  <1>13. \A i \in 1 .. 23 : s[i].of \subseteq Earlier(i)
    <2>1. ASSUME NEW i \in 1 .. 23, i <= 12 PROVE s[i].of \subseteq Earlier(i)
      BY <1>3, <1>4, <1>7, <1>12, <2>1
    <2>2. ASSUME NEW i \in 1 .. 23, i > 12 PROVE s[i].of \subseteq Earlier(i)
      BY <1>3, <1>4, <1>5, <1>6, <1>7, <1>12, <2>2
    <2> QED
      BY <2>1, <2>2
  <1> QED
    <2>1. Makes(s[20]) /\ s[20].name = "session"
      BY <1>6, <1>9
    <2>2. \A i, j \in 1 .. 23 : Makes(s[i]) /\ Makes(s[j]) /\ s[i].name = s[j].name => i = j
      BY <1>10
    <2> HIDE DEF Script
    <2> QED
      BY <1>1, <1>2, <1>8, <1>13, <2>1, <2>2, Zenon

\* A row's place is after those of the steps before.
LEMMA PlaceFacts ==
  /\ Place(0) = 0 /\ \A i \in 0 .. Len(Script) : Place(i) \in Nat
  /\ \A i \in 1 .. Len(Script) : Place(i) = IF Makes(Script[i]) THEN Place(i - 1) + 1 ELSE Place(i - 1)
  /\ \A i, j \in 0 .. Len(Script) : i <= j => Place(i) <= Place(j)
  /\ \A i \in 0 .. Len(Script), j \in 1 .. Len(Script) : i < j /\ Makes(Script[j]) => Place(i) < Place(j)
  <1> DEFINE M(i) == {j \in 1 .. i : Makes(Script[j])}
  <1>0. Len(Script) = 23
    BY ScriptFacts
  <1>1. ASSUME NEW i \in 0 .. 23 PROVE IsFiniteSet(M(i)) /\ Cardinality(M(i)) \in Nat /\ Place(i) = Cardinality(M(i))
    <2>1. IsFiniteSet(1 .. i)
      BY FS_Interval
    <2>2. M(i) \in SUBSET (1 .. i)
      OBVIOUS
    <2>3. IsFiniteSet(M(i))
      BY <2>1, <2>2, FS_Subset
    <2>4. Cardinality(M(i)) \in Nat
      BY <2>3, FS_CardinalityType
    <2> QED
      BY <2>3, <2>4 DEF Place
  <1>2. M(0) = {}
    OBVIOUS
  <1>3. Place(0) = 0
    BY <1>1, <1>2, FS_EmptySet
  <1>4. ASSUME NEW i \in 1 .. 23, Makes(Script[i]) PROVE Place(i) = Place(i - 1) + 1
    <2>1. M(i) = M(i - 1) \cup {i} /\ i \notin M(i - 1)
      BY <1>4
    <2>2. i - 1 \in 0 .. 23 /\ i \in 0 .. 23
      OBVIOUS
    <2>3. IsFiniteSet(M(i - 1)) /\ Place(i - 1) = Cardinality(M(i - 1)) /\ Place(i) = Cardinality(M(i))
      BY <1>1, <2>2
    <2> HIDE DEF M
    <2>4. Cardinality(M(i - 1) \cup {i}) = Cardinality(M(i - 1)) + 1
      BY <2>1, <2>3, FS_AddElement
    <2> QED
      BY <2>1, <2>3, <2>4
  <1>5. ASSUME NEW i \in 1 .. 23, ~Makes(Script[i]) PROVE Place(i) = Place(i - 1)
    <2>1. M(i) = M(i - 1)
      BY <1>5
    <2>2. i - 1 \in 0 .. 23 /\ i \in 0 .. 23
      OBVIOUS
    <2> HIDE DEF M
    <2> QED
      BY <1>1, <2>1, <2>2
  <1>6. ASSUME NEW i \in 0 .. 23, NEW j \in 0 .. 23, i <= j PROVE Place(i) <= Place(j)
    <2>1. M(i) \in SUBSET M(j)
      BY <1>6
    <2> HIDE DEF M
    <2> QED
      BY <1>1, <2>1, FS_Subset
  <1>7. ASSUME NEW i \in 0 .. 23, NEW j \in 1 .. 23, i < j, Makes(Script[j]) PROVE Place(i) < Place(j)
    <2>1. j - 1 \in 0 .. 23 /\ i <= j - 1
      BY <1>7
    <2>2. Place(i) <= Place(j - 1) /\ Place(j) = Place(j - 1) + 1 /\ Place(i) \in Nat /\ Place(j - 1) \in Nat
      BY <1>1, <1>4, <1>6, <1>7, <2>1
    <2> QED
      BY <2>2
  <1> QED
    <2>1. \A i \in 0 .. 23 : Place(i) \in Nat
      BY <1>1
    <2>2. \A i \in 1 .. 23 : Place(i) = IF Makes(Script[i]) THEN Place(i - 1) + 1 ELSE Place(i - 1)
      BY <1>4, <1>5
    <2> QED
      BY <1>0, <1>3, <1>6, <1>7, <2>1, <2>2

\* It is found under its name.
LEMMA PlaceOfName ==
  ASSUME NEW i \in 1 .. Len(Script), Makes(Script[i]) PROVE PlaceOf(Script[i].name) = Place(i)
  <1>1. \E j \in DOMAIN Script : Makes(Script[j]) /\ Script[j].name = Script[i].name
    BY ScriptFacts
  <1>2. PICK j : j = CHOOSE k \in DOMAIN Script : Makes(Script[k]) /\ Script[k].name = Script[i].name
    OBVIOUS
  <1>3. j \in DOMAIN Script /\ Makes(Script[j]) /\ Script[j].name = Script[i].name
    BY <1>1, <1>2
  <1>4. j = i
    BY <1>3, ScriptFacts
  <1> QED
    BY <1>2, <1>4 DEF PlaceOf

\* What the steps before one have found or made.
LEMMA EarlierGrows ==
  ASSUME NEW i \in 1 .. Len(Script)
  PROVE /\ Earlier(1) = {}
        /\ Earlier(i + 1) = IF Makes(Script[i]) THEN Earlier(i) \cup {Script[i].name} ELSE Earlier(i)
        /\ \A p \in Earlier(i + 1) : \E j \in 1 .. i : Makes(Script[j]) /\ p = Script[j].name
        /\ \A j \in 1 .. i : Makes(Script[j]) => Script[j].name \in Earlier(i + 1)
  <1>0. Len(Script) = 23
    BY ScriptFacts
  <1>1. {k \in 1 .. 1 - 1 : Makes(Script[k])} = {}
    OBVIOUS
  <1>2. {k \in 1 .. i + 1 - 1 : Makes(Script[k])} =
          IF Makes(Script[i]) THEN {k \in 1 .. i - 1 : Makes(Script[k])} \cup {i} ELSE {k \in 1 .. i - 1 : Makes(Script[k])}
    BY <1>0
  <1>3. i + 1 - 1 = i
    BY <1>0
  <1> QED
    BY <1>1, <1>2, <1>3 DEF Earlier

-----------------------------------------------------------------------------
(* Seedings: a row hangs on rows that were there before it; and as long as *)
(* no two overlap and nobody changes an assignment, every row is where one *)
(* seeding of an empty database would have it.                             *)

RowShape(r) == /\ r = [step |-> r.step, of |-> r.of, active |-> r.active, completed |-> r.completed]
               /\ r.active \in BOOLEAN /\ r.completed \in BOOLEAN
Plain == ~sownBeside /\ \A n \in 1 .. Len(sown) : sown[n].active
InPlace(n) == \E i \in 1 .. Len(Script) :
  /\ Makes(Script[i]) /\ Place(i) = n /\ sown[n].step = Script[i].name /\ sown[n].of = Links(i)
  /\ sown[n].completed => Script[i].name = "session"
SessionDone == sown[PlaceOf("session")].completed = TRUE
Singly == \A n, m \in 1 .. Len(sown) :
  n # m /\ sown[n].active /\ sown[m].active => sown[n].step # sown[m].step \/ sown[n].of # sown[m].of
SeedTables ==
  /\ \E S : sown \in Seq(S)
  /\ \A n \in 1 .. Len(sown) : RowShape(sown[n])
  /\ SeedsTypeOK
  /\ ~sownBeside => Singly
  /\ Plain => /\ \A n \in 1 .. Len(sown) : InPlace(n)
              /\ seeded => Len(sown) = Place(Len(Script)) /\ SessionDone

SeedKnows(x) ==
  /\ x.pc \in {"step", "create"} /\ x.seen.at \in 1 .. Len(Script) + 1
  /\ DOMAIN x.seen.found = Earlier(x.seen.at)
  /\ \A p \in DOMAIN x.seen.found : x.seen.found[p] \in 1 .. Len(sown)
  /\ x.pc = "create" =>
       /\ x.seen.at <= Len(Script) /\ Makes(Script[x.seen.at])
       /\ ~sownBeside => Matching(Script[x.seen.at], x.seen.found) = {}
  /\ Plain => /\ \A p \in DOMAIN x.seen.found : x.seen.found[p] = PlaceOf(p)
              /\ Place(x.seen.at - 1) <= Len(sown)
              /\ x.seen.at > 21 => SessionDone
SeedCall(x) == x.op = "seed" =>
  /\ x.pc # "idle" => SeedKnows(x)
  /\ ~sownBeside => x.result # "clash"
Sowing(x) == x.op = "seed" /\ x.pc # "idle"
Alone == ~sownBeside => \A d, e \in Callers : Sowing(call[d]) /\ Sowing(call[e]) => d = e
SeedInv == SeedTables /\ Alone /\ \A d \in Callers : SeedCall(call[d])

\* The rows make a sequence.
LEMMA SownIs ==
  ASSUME SeedTables
  PROVE /\ Len(sown) \in Nat /\ DOMAIN sown = 1 .. Len(sown)
        /\ \A r : /\ \E S : Append(sown, r) \in Seq(S)
                  /\ Len(Append(sown, r)) = Len(sown) + 1
                  /\ \A n \in 1 .. Len(sown) + 1 : Append(sown, r)[n] = IF n = Len(sown) + 1 THEN r ELSE sown[n]
        /\ \A r : \A n \in 1 .. Len(sown) :
             /\ \E S : [sown EXCEPT ![n] = r] \in Seq(S)
             /\ Len([sown EXCEPT ![n] = r]) = Len(sown)
             /\ \A m \in 1 .. Len(sown) : [sown EXCEPT ![n] = r][m] = IF m = n THEN r ELSE sown[m]
  <1>1. PICK S : sown \in Seq(S)
    BY DEF SeedTables
  <1>2. Len(sown) \in Nat /\ DOMAIN sown = 1 .. Len(sown)
    BY <1>1
  <1>3. ASSUME NEW r
        PROVE /\ \E T : Append(sown, r) \in Seq(T)
              /\ Len(Append(sown, r)) = Len(sown) + 1
              /\ \A n \in 1 .. Len(sown) + 1 : Append(sown, r)[n] = IF n = Len(sown) + 1 THEN r ELSE sown[n]
    <2>1. PICK T : T = S \cup {r}
      OBVIOUS
    <2>2. sown \in Seq(T) /\ r \in T
      BY <1>1, <2>1
    <2> QED
      BY <2>2, AppendProperties
  <1>4. ASSUME NEW n \in 1 .. Len(sown), NEW r
        PROVE /\ \E T : [sown EXCEPT ![n] = r] \in Seq(T)
              /\ Len([sown EXCEPT ![n] = r]) = Len(sown)
              /\ \A m \in 1 .. Len(sown) : [sown EXCEPT ![n] = r][m] = IF m = n THEN r ELSE sown[m]
    <2>1. PICK T : T = S \cup {r}
      OBVIOUS
    <2>2. sown \in Seq(T) /\ r \in T
      BY <1>1, <2>1
    <2>3. PICK s : s = [sown EXCEPT ![n] = r]
      OBVIOUS
    <2>4. s \in Seq(T) /\ Len(s) = Len(sown) /\ \A m \in 1 .. Len(sown) : s[m] = IF m = n THEN r ELSE sown[m]
      BY <1>2, <2>2, <2>3
    <2> QED
      BY <2>3, <2>4
  <1> QED
    BY <1>2, <1>3, <1>4

\* At the start nobody has called, and an earlier seeding may have been cut short.
LEMMA SeedStart ==
  ASSUME OfficeInit PROVE SeedInv
  <1>1. \A c \in Callers : call[c] = Idle
    BY CallsStart DEF OfficeInit, Init
  <1>2. Idle.pc = "idle" /\ Idle.op = None /\ "seed" # None
    BY OfficeAssumption DEF Idle, SeedCalls
  <1>3. PICK k, s : k \in 0 .. Len(Script) /\ s = SownBy(SubSeq(Script, 1, k)) /\ sown = s
    <2>1. case \in Cases /\ SeedsInit(case.seeds)
      BY DEF OfficeInit, Init
    <2> QED
      BY <2>1, StartAssumption DEF SeedsInit
  <1>4. seeded = FALSE /\ sownBeside = FALSE
    BY DEF OfficeInit, SeedsInit
  <1>5. /\ s \in Seq({s[n] : n \in DOMAIN s})
        /\ \A n \in 1 .. Len(s) : \E i \in 1 .. k :
             /\ Makes(Script[i]) /\ Place(i) = n
             /\ s[n] = [step |-> Script[i].name, of |-> Links(i), active |-> TRUE,
                        completed |-> Script[i].name = "session" /\ \E j \in 1 .. k : Script[j].kind = "update"]
    <2> DEFINE rows == SownBy(SubSeq(Script, 1, k))
    <2>1. rows \in Seq({rows[n] : n \in DOMAIN rows})
      BY <1>3, SeedsAssumption, Zenon
    <2>2. \A n \in 1 .. Len(rows) : \E i \in 1 .. k :
             /\ Makes(Script[i]) /\ Place(i) = n
             /\ rows[n] = [step |-> Script[i].name, of |-> Links(i), active |-> TRUE,
                           completed |-> Script[i].name = "session" /\ \E j \in 1 .. k : Script[j].kind = "update"]
      BY <1>3, SeedsAssumption, Zenon
    <2>3. s = rows
      BY <1>3
    <2> HIDE DEF rows
    <2> QED
      BY <2>1, <2>2, <2>3, Zenon
  <1>6. ASSUME NEW n \in 1 .. Len(s)
        PROVE RowShape(s[n]) /\ s[n].active = TRUE
              /\ \E i \in 1 .. Len(Script) : /\ Makes(Script[i]) /\ Place(i) = n /\ s[n].step = Script[i].name /\ s[n].of = Links(i)
                                             /\ s[n].completed => Script[i].name = "session"
    <2>1. PICK i \in 1 .. k, b \in BOOLEAN :
             /\ Makes(Script[i]) /\ Place(i) = n /\ (b => Script[i].name = "session")
             /\ s[n] = [step |-> Script[i].name, of |-> Links(i), active |-> TRUE, completed |-> b]
      BY <1>5, Zenon
    <2>2. PICK r, st, ol : r = s[n] /\ st = Script[i].name /\ ol = Links(i)
      OBVIOUS
    <2>3. r = [step |-> st, of |-> ol, active |-> TRUE, completed |-> b]
      BY <2>1, <2>2, Zenon
    <2>4. RowShape(r) /\ r.step = st /\ r.of = ol /\ r.active = TRUE /\ r.completed = b
      BY <2>3 DEF RowShape
    <2>5. i \in 1 .. Len(Script)
      <3>1. k \in 0 .. Len(Script)
        BY <1>3, Zenon
      <3>2. Len(Script) = 23
        BY ScriptFacts
      <3> QED
        BY <3>1, <3>2
    <2> QED
      BY <2>1, <2>2, <2>4, <2>5
  <1>7. \A n \in 1 .. Len(sown) : InPlace(n)
    BY <1>3, <1>6 DEF InPlace
  <1>8. SeedsTypeOK
    <2>1. SUFFICES ASSUME NEW n \in 1 .. Len(sown), NEW p \in DOMAIN sown[n].of PROVE sown[n].of[p] \in 1 .. n - 1
      BY DEF SeedsTypeOK
    <2>2. PICK i \in 1 .. Len(Script) : Makes(Script[i]) /\ Place(i) = n /\ sown[n].of = Links(i)
      BY <1>7 DEF InPlace
    <2>3. p \in Script[i].of /\ sown[n].of[p] = PlaceOf(p)
      BY <2>2 DEF Links
    <2>4. PICK j \in 1 .. i - 1 : Makes(Script[j]) /\ p = Script[j].name
      <3>1. p \in Earlier(i)
        BY <2>3, ScriptFacts
      <3> QED
        BY <3>1 DEF Earlier
    <2>5. Len(Script) = 23
      BY ScriptFacts
    <2>6. j \in 1 .. Len(Script) /\ j \in 0 .. Len(Script) /\ i \in 0 .. Len(Script) /\ 0 \in 0 .. Len(Script) /\ j < i /\ 0 < j
      <3>1. i \in 1 .. 23 /\ j \in 1 .. i - 1
        BY <2>5
      <3>2. j \in 1 .. 23 /\ j \in 0 .. 23 /\ i \in 0 .. 23 /\ 0 \in 0 .. 23 /\ j < i /\ 0 < j
        BY <3>1
      <3> QED
        BY <2>5, <3>2
    <2>7. PlaceOf(p) = Place(j)
      BY <2>4, <2>6, PlaceOfName, Zenon
    <2>8. Place(j) < Place(i) /\ Place(0) < Place(j) /\ Place(0) = 0 /\ Place(j) \in Nat /\ Place(i) \in Nat
      BY <2>2, <2>4, <2>6, PlaceFacts
    <2> QED
      BY <2>2, <2>3, <2>7, <2>8
  <1>9. Singly
    <2>1. SUFFICES ASSUME NEW n \in 1 .. Len(sown), NEW m \in 1 .. Len(sown), sown[n].step = sown[m].step PROVE n = m
      BY DEF Singly
    <2>2. PICK i \in 1 .. Len(Script) : Makes(Script[i]) /\ Place(i) = n /\ sown[n].step = Script[i].name
      BY <1>7 DEF InPlace
    <2>3. PICK j \in 1 .. Len(Script) : Makes(Script[j]) /\ Place(j) = m /\ sown[m].step = Script[j].name
      BY <1>7 DEF InPlace
    <2>4. i = j
      BY <2>1, <2>2, <2>3, ScriptFacts, Zenon
    <2> QED
      BY <2>2, <2>3, <2>4
  <1>10. SeedTables
    BY <1>3, <1>4, <1>5, <1>6, <1>7, <1>8, <1>9 DEF SeedTables
  <1> QED
    BY <1>1, <1>2, <1>10 DEF SeedInv, Alone, Sowing, SeedCall

\* Rows are not added, nor answer to more lookups, or an assignment has changed.
Shrinks == /\ \A st, f : Matching(st, f)' \subseteq Matching(st, f)
           /\ ~Plain' \/ UNCHANGED sown
\* A seeding that is not concerned knows what it knew.
LEMMA SeedOthersKnow ==
  ASSUME SeedTables, NEW y, SeedCall(y), Len(sown') \in Nat, Len(sown) <= Len(sown'), sownBeside => sownBeside',
         ~Sowing(y) \/ sownBeside' \/ Shrinks
  PROVE SeedCall(y)'
  <1>1. SUFFICES ASSUME y.op = "seed" PROVE SeedCall(y)'
    BY DEF SeedCall
  <1>2. ~sownBeside' => y.result # "clash"
    BY <1>1 DEF SeedCall
  <1>3. CASE y.pc = "idle"
    BY <1>2, <1>3 DEF SeedCall
  <1>4. CASE y.pc # "idle"
    <2>1. SeedKnows(y)
      BY <1>1, <1>4 DEF SeedCall
    <2>2. Len(sown) \in Nat
      BY SownIs
    <2>3. \A p \in DOMAIN y.seen.found : y.seen.found[p] \in 1 .. Len(sown')
      BY <2>1, <2>2 DEF SeedKnows
    <2>4. ~sownBeside' => ~sownBeside /\ Shrinks
      BY <1>1, <1>4 DEF Sowing
    <2>5. ~sownBeside' /\ y.pc = "create" => Matching(Script[y.seen.at], y.seen.found)' = {}
      BY <2>1, <2>4 DEF SeedKnows, Shrinks
    <2>6. Plain' => Plain /\ UNCHANGED sown
      BY <2>4 DEF Plain, Shrinks
    <2>7. SeedKnows(y)'
      BY <2>1, <2>3, <2>5, <2>6 DEF SeedKnows, SessionDone
    <2> QED
      BY <1>2, <2>7 DEF SeedCall
  <1> QED
    BY <1>3, <1>4

\* A step keeps the invariant if its own call knows what it should.
LEMMA SeedKeeps ==
  ASSUME SeedInv, NEW c \in Callers, SeedTables', Alone', SeedCall(call[c])',
         \A d \in Callers \ {c} : call'[d] = call[d], Len(sown) <= Len(sown'), sownBeside => sownBeside',
         Shrinks \/ \A d \in Callers \ {c} : Sowing(call[d]) => sownBeside'
  PROVE SeedInv'
  <1>1. SUFFICES ASSUME NEW d \in Callers \ {c} PROVE SeedCall(call[d])'
    BY DEF SeedInv
  <1>2. PICK x : x = call[d]
    OBVIOUS
  <1>3. SeedTables /\ SeedCall(x) /\ (~Sowing(x) \/ sownBeside' \/ Shrinks)
    BY <1>1, <1>2 DEF SeedInv
  <1>4. Len(sown') \in Nat
    <2>1. PICK S : sown' \in Seq(S)
      BY DEF SeedTables
    <2> QED
      BY <2>1
  <1>5. SeedCall(x)'
    BY <1>3, <1>4, SeedOthersKnow
  <1> QED
    BY <1>1, <1>2, <1>5

\* Nothing is written.
LEMMA SeedTablesStay ==
  ASSUME SeedTables, UNCHANGED <<sown, seeded>>, sownBeside => sownBeside'
  PROVE SeedTables' /\ Shrinks
  <1>1. UNCHANGED sown /\ UNCHANGED seeded
    OBVIOUS
  <1>2. \A st, f : Matching(st, f)' = Matching(st, f)
    BY <1>1 DEF Matching
  <1>3. Plain' => Plain
    BY <1>1 DEF Plain
  <1>4. /\ SeedsTypeOK' <=> SeedsTypeOK
        /\ Singly' <=> Singly
        /\ SessionDone' <=> SessionDone
        /\ \A n : InPlace(n)' <=> InPlace(n)
    BY <1>1 DEF SeedsTypeOK, Singly, SessionDone, InPlace
  <1> QED
    BY <1>1, <1>2, <1>3, <1>4 DEF SeedTables, Shrinks

\* A step that is no seeding's.
LEMMA SeedBeside ==
  ASSUME SeedInv, Spares({"seed"}), UNCHANGED seedVars PROVE SeedInv'
  <1>1. UNCHANGED <<sown, seeded>> /\ UNCHANGED sownBeside
    BY DEF seedVars
  <1>2. SeedTables' /\ Shrinks
    BY <1>1, SeedTablesStay DEF SeedInv
  <1>3. \A d \in Callers : call'[d].op = "seed" => call'[d] = call[d]
    BY DEF Spares
  <1>4. Alone'
    BY <1>1, <1>3 DEF SeedInv, Alone, Sowing
  <1>5. SUFFICES ASSUME NEW d \in Callers PROVE SeedCall(call[d])'
    BY <1>2, <1>4 DEF SeedInv
  <1>6. PICK y : y = call'[d]
    OBVIOUS
  <1>7. CASE y.op = "seed"
    <2>1. SeedCall(y) /\ SeedTables
      BY <1>3, <1>6, <1>7 DEF SeedInv
    <2>2. Len(sown') \in Nat /\ Len(sown) <= Len(sown')
      BY <1>1, <2>1, SownIs
    <2>3. SeedCall(y)'
      BY <1>1, <1>2, <2>1, <2>2, SeedOthersKnow
    <2> QED
      BY <1>6, <2>3
  <1>8. CASE y.op # "seed"
    BY <1>6, <1>8 DEF SeedCall
  <1> QED
    BY <1>7, <1>8

\* A seeding goes on: there is no other, or it is beside others.
LEMMA SeedGoesOn ==
  ASSUME CallsSound, SeedInv, NEW c \in Callers, Sowing(call[c]), NEW pc, NEW seen, Goto(c, pc, seen, {}), pc # "idle",
         NEW y, y = [op |-> call[c].op, pc |-> pc, arg |-> call[c].arg, seen |-> seen, result |-> call[c].result],
         SeedTables', UNCHANGED sownBeside, Len(sown) <= Len(sown'), SeedKnows(y)'
  PROVE SeedInv'
  <1>1. call'[c] = y /\ \A d \in Callers \ {c} : call'[d] = call[d]
    <2>1. CallsOK
      BY DEF CallsSound
    <2>2. /\ call'[c] = y
          /\ \A d \in Callers \ {c} : Sees(c, d, {})
      BY <2>1, GotoDoes
    <2> QED
      BY <2>2 DEF Sees
  <1>2. y.op = "seed" /\ y.pc = pc /\ y.result = call[c].result
    BY DEF Sowing
  <1>3. SeedCall(call[c])'
    BY <1>1, <1>2 DEF SeedInv, SeedCall, Sowing
  <1>4. \A d \in Callers \ {c} : Sowing(call[d]) => sownBeside'
    BY DEF SeedInv, Alone
  <1>5. Alone'
    BY <1>1, <1>4 DEF Alone, Sowing
  <1> QED
    BY <1>1, <1>3, <1>4, <1>5, SeedKeeps

\* It ends.
LEMMA SeedLeaves ==
  ASSUME SeedInv, NEW c \in Callers, call'[c].pc = "idle", call'[c].op = "seed" /\ ~sownBeside => call'[c].result # "clash",
         \A d \in Callers \ {c} : call'[d] = call[d], SeedTables', UNCHANGED sownBeside, UNCHANGED sown
  PROVE SeedInv'
  <1>1. SeedCall(call[c])'
    BY DEF SeedCall
  <1>2. Alone'
    BY DEF SeedInv, Alone, Sowing
  <1>3. Shrinks
    BY DEF Shrinks, Matching
  <1>4. Len(sown) <= Len(sown')
    BY SownIs DEF SeedInv
  <1> QED
    BY <1>1, <1>2, <1>3, <1>4, SeedKeeps

-----------------------------------------------------------------------------
(* One step after the other.                                               *)

\* Who seeds, knows where it is.
LEMMA SeedIsAt ==
  ASSUME SeedInv, NEW c \in Callers, call[c].op = "seed", call[c].pc # "idle"
  PROVE SeedKnows(call[c]) /\ Sowing(call[c]) /\ SeedTables /\ call[c].seen.at \in Nat
  <1>1. SeedKnows(call[c])
    BY DEF SeedInv, SeedCall
  <1>2. call[c].seen.at \in Nat
    <2>1. Len(Script) = 23
      BY ScriptFacts
    <2>2. call[c].seen.at \in 1 .. Len(Script) + 1
      BY <1>1 DEF SeedKnows
    <2> QED
      BY <2>1, <2>2
  <1> QED
    BY <1>1, <1>2 DEF SeedInv, Sowing

\* It begins.
LEMMA SeedBegins ==
  ASSUME CallsSound, SeedInv, NEW c \in Callers, SeedNow(c) PROVE SeedInv'
  <1>1. PICK f, s : f = [p \in {} |-> 0] /\ s = [at |-> 1, found |-> f]
    OBVIOUS
  <1>2. PICK y : y = [op |-> "seed", pc |-> "step", arg |-> None, seen |-> s, result |-> None]
    OBVIOUS
  <1>3. Begin(c, "seed", "step", None, s)
    BY <1>1 DEF SeedNow
  <1>4. call'[c] = y /\ (\A d \in Callers \ {c} : call'[d] = call[d]) /\ call[c].pc = "idle"
    <2>1. /\ call'[c] = y
          /\ \A d \in Callers \ {c} : call'[d] = call[d] /\ crossed'[d] = crossed[d]
      BY <1>2, <1>3, BeginDoes DEF CallsSound
    <2> QED
      BY <1>3, <2>1 DEF Begin, Asked
  <1>5. UNCHANGED <<sown, seeded>> /\ (sownBeside => sownBeside')
        /\ \A d \in Callers : Sowing(call[d]) => sownBeside'
    BY DEF SeedNow, Sowing
  <1>6. SeedTables /\ SeedTables' /\ Shrinks
    BY <1>5, SeedTablesStay DEF SeedInv
  <1>7. Alone'
    BY <1>4, <1>5 DEF Alone, Sowing
  <1>8. y.op = "seed" /\ y.pc = "step" /\ y.seen.at = 1 /\ y.seen.found = f /\ y.result = None
    BY <1>1, <1>2
  <1>9. DOMAIN f = {} /\ Earlier(1) = {} /\ 1 \in 1 .. Len(Script) + 1 /\ Place(1 - 1) = 0
    <2>1. Len(Script) = 23 /\ 1 \in 1 .. Len(Script)
      BY ScriptFacts
    <2>2. Earlier(1) = {}
      BY <2>1, EarlierGrows
    <2>3. 1 - 1 = 0 /\ Place(0) = 0
      BY PlaceFacts
    <2>4. Place(1 - 1) = 0
      BY <2>3
    <2>5. DOMAIN f = {}
      BY <1>1
    <2> QED
      BY <2>1, <2>2, <2>4, <2>5
  <1>10. Len(sown) \in Nat
    BY <1>6, SownIs
  <1>11. SeedKnows(y)
    BY <1>8, <1>9, <1>10 DEF SeedKnows
  <1>12. SeedCall(y)
    BY <1>8, <1>11, CatalogueAssumption DEF SeedCall
  <1>13. Len(sown') \in Nat /\ Len(sown) <= Len(sown')
    BY <1>5, <1>10
  <1>14. SeedCall(y)'
    BY <1>5, <1>6, <1>12, <1>13, SeedOthersKnow
  <1>15. SeedCall(call[c])'
    BY <1>4, <1>14
  <1> QED
    BY <1>4, <1>5, <1>6, <1>7, <1>13, <1>15, SeedKeeps

\* It goes on without a write.
LEMMA SeedPasses ==
  ASSUME CallsSound, SeedInv, NEW c \in Callers, Sowing(call[c]), NEW pc, NEW seen, Goto(c, pc, seen, {}), pc # "idle",
         NEW y, y = [op |-> call[c].op, pc |-> pc, arg |-> call[c].arg, seen |-> seen, result |-> call[c].result],
         UNCHANGED seedVars, SeedKnows(y)
  PROVE SeedInv'
  <1>1. UNCHANGED <<sown, seeded>> /\ UNCHANGED sownBeside
    BY DEF seedVars
  <1>2. SeedTables /\ SeedTables' /\ Shrinks
    BY <1>1, SeedTablesStay DEF SeedInv
  <1>3. Len(sown) \in Nat /\ Len(sown') \in Nat /\ Len(sown) <= Len(sown')
    BY <1>1, <1>2, SownIs
  <1>4. y.op = "seed" /\ y.pc # "idle" /\ y.result = call[c].result
    BY DEF Sowing
  <1>5. SeedCall(y)
    BY <1>4 DEF SeedInv, SeedCall, Sowing
  <1>6. SeedCall(y)'
    BY <1>1, <1>2, <1>3, <1>5, SeedOthersKnow
  <1>7. SeedKnows(y)'
    BY <1>4, <1>6 DEF SeedCall
  <1> QED
    BY <1>1, <1>2, <1>3, <1>7, SeedGoesOn

\* The row is there.
LEMMA SeedFinds ==
  ASSUME CallsSound, SeedInv, NEW c \in Callers, FindSown(c) PROVE SeedInv'
  <1>1. PICK x : x = call[c]
    OBVIOUS
  <1>2. PICK i, f : i = x.seen.at /\ f = x.seen.found
    OBVIOUS
  <1>3. x.op = "seed" /\ x.pc = "step" /\ i <= Len(Script) /\ Makes(Script[i]) /\ UNCHANGED seedVars
    BY <1>1, <1>2 DEF FindSown, At, Sown, SeedStepOf
  <1>4. PICK n \in Matching(Script[i], f) : Goto(c, "step", [at |-> i + 1, found |-> WithFound(f, Script[i], n)], {})
    BY <1>1, <1>2, Zenon DEF FindSown, Sown, SeedStepOf, Advance
  <1>5. SeedKnows(x) /\ Sowing(x) /\ SeedTables /\ i \in Nat
    BY <1>1, <1>2, <1>3, SeedIsAt
  <1>6. i \in 1 .. Len(Script) /\ Len(Script) = 23 /\ DOMAIN f = Earlier(i)
    <2>1. i >= 1 /\ DOMAIN f = Earlier(i)
      BY <1>2, <1>5 DEF SeedKnows
    <2>2. Len(Script) = 23
      BY ScriptFacts
    <2> QED
      BY <1>3, <1>5, <2>1, <2>2
  <1>7. n \in 1 .. Len(sown) /\ sown[n].step = Script[i].name
    BY DEF Matching
  <1>8. PICK g, s : g = WithFound(f, Script[i], n) /\ s = [at |-> i + 1, found |-> g]
    OBVIOUS
  <1>9. PICK y : y = [op |-> x.op, pc |-> "step", arg |-> x.arg, seen |-> s, result |-> x.result]
    OBVIOUS
  <1>10. y.pc = "step" /\ y.seen.at = i + 1 /\ y.seen.found = g
    BY <1>8, <1>9
  <1>11. DOMAIN g = Earlier(i + 1) /\ DOMAIN g = DOMAIN f \cup {Script[i].name}
         /\ \A p \in DOMAIN g : g[p] = IF p = Script[i].name THEN n ELSE f[p]
    <2>1. DOMAIN g = DOMAIN f \cup {Script[i].name}
          /\ \A p \in DOMAIN f \cup {Script[i].name} : g[p] = IF p = Script[i].name THEN n ELSE f[p]
      <3>1. PICK st : st = Script[i]
        OBVIOUS
      <3>2. g = WithFound(f, st, n)
        BY <1>8, <3>1
      <3> QED
        BY <3>1, <3>2 DEF WithFound
    <2>2. Earlier(i + 1) = Earlier(i) \cup {Script[i].name}
      BY <1>3, <1>6, EarlierGrows
    <2> QED
      BY <1>6, <2>1, <2>2
  <1>12. \A p \in DOMAIN g : g[p] \in 1 .. Len(sown)
    BY <1>2, <1>5, <1>7, <1>11 DEF SeedKnows
  <1>13. ASSUME Plain
         PROVE (\A p \in DOMAIN g : g[p] = PlaceOf(p)) /\ Place(i) <= Len(sown) /\ (i + 1 > 21 => SessionDone)
    <2>1. n = Place(i)
      <3>1. PICK j \in 1 .. Len(Script) : Makes(Script[j]) /\ Place(j) = n /\ sown[n].step = Script[j].name
        BY <1>5, <1>7, <1>13 DEF SeedTables, InPlace
      <3>2. j = i
        BY <1>3, <1>6, <1>7, <3>1, ScriptFacts, Zenon
      <3> QED
        BY <3>1, <3>2
    <2>2. PlaceOf(Script[i].name) = n
      BY <1>3, <1>6, <2>1, PlaceOfName
    <2>3. \A p \in DOMAIN g : g[p] = PlaceOf(p)
      BY <1>2, <1>5, <1>11, <1>13, <2>2 DEF SeedKnows
    <2>4. Place(i) <= Len(sown)
      BY <1>5, <1>7, <2>1, SownIs
    <2>5. i # 21
      BY <1>3, <1>6, ScriptFacts DEF Makes
    <2>6. i + 1 > 21 => SessionDone
      BY <1>2, <1>5, <1>6, <1>13, <2>5 DEF SeedKnows
    <2> QED
      BY <2>3, <2>4, <2>6
  <1>14. i + 1 - 1 = i /\ i + 1 \in 1 .. Len(Script) + 1
    BY <1>6
  <1>15. SeedKnows(y)
    <2>1. Plain => Place(i + 1 - 1) <= Len(sown)
      BY <1>13, <1>14
    <2> QED
      <3>1. y.pc \in {"step", "create"} /\ y.pc # "create" /\ y.seen.at \in 1 .. Len(Script) + 1
        BY <1>10, <1>14
      <3>2. DOMAIN y.seen.found = Earlier(y.seen.at) /\ \A p \in DOMAIN y.seen.found : y.seen.found[p] \in 1 .. Len(sown)
        BY <1>10, <1>11, <1>12
      <3>3. Plain => /\ \A p \in DOMAIN y.seen.found : y.seen.found[p] = PlaceOf(p)
                     /\ Place(y.seen.at - 1) <= Len(sown)
                     /\ y.seen.at > 21 => SessionDone
        <4>1. y.seen.at - 1 = i
          BY <1>6, <1>10
        <4>2. y.seen.at = i + 1 /\ y.seen.found = g
          BY <1>10
        <4> QED
          BY <1>13, <4>1, <4>2, Zenon
      <3> QED
        BY <3>1, <3>2, <3>3, Zenon DEF SeedKnows
  <1>16. Goto(c, "step", s, {})
    BY <1>4, <1>8
  <1> QED
    BY <1>1, <1>3, <1>5, <1>9, <1>15, <1>16, SeedPasses

\* It is not.
LEMMA SeedMisses ==
  ASSUME CallsSound, SeedInv, NEW c \in Callers, MissSown(c) PROVE SeedInv'
  <1>1. PICK x : x = call[c]
    OBVIOUS
  <1>2. PICK i : i = x.seen.at
    OBVIOUS
  <1>3. x.op = "seed" /\ x.pc = "step" /\ i <= Len(Script) /\ Script[i].kind \in {"guarded", "loose"}
        /\ Matching(Script[i], x.seen.found) = {} /\ Goto(c, "create", x.seen, {}) /\ UNCHANGED seedVars
    BY <1>1, <1>2 DEF MissSown, At, Sown, SeedStepOf
  <1>4. SeedKnows(x) /\ Sowing(x)
    BY <1>1, <1>3, SeedIsAt
  <1>5. PICK y : y = [op |-> x.op, pc |-> "create", arg |-> x.arg, seen |-> x.seen, result |-> x.result]
    OBVIOUS
  <1>6. y.pc = "create" /\ y.seen = x.seen /\ Makes(Script[i])
    BY <1>3, <1>5 DEF Makes
  <1>7. SeedKnows(y)
    BY <1>2, <1>3, <1>4, <1>6 DEF SeedKnows
  <1> QED
    BY <1>1, <1>3, <1>4, <1>5, <1>7, SeedPasses

\* A row is made only where there is none.
LEMMA SeedSows ==
  ASSUME CallsSound, SeedInv, NEW c \in Callers, call[c].op = "seed", call[c].pc # "idle", Sow(c),
         call[c].seen.at <= Len(Script), Makes(SeedStepOf(c)),
         ~sownBeside => Matching(SeedStepOf(c), call[c].seen.found) = {}
  PROVE SeedInv'
  <1>1. PICK x : x = call[c]
    OBVIOUS
  <1>2. PICK i, f, st, k : i = x.seen.at /\ f = x.seen.found /\ st = Script[i] /\ k = Len(sown)
    OBVIOUS
  <1>3. SeedStepOf(c) = st /\ Sown(c) = x.seen /\ i <= Len(Script) /\ Makes(st)
    BY <1>1, <1>2 DEF SeedStepOf, Sown
  <1>4. SeedKnows(x) /\ Sowing(x) /\ SeedTables /\ i \in Nat
    BY <1>1, <1>2, SeedIsAt
  <1>5. i \in 1 .. Len(Script) /\ Len(Script) = 23 /\ DOMAIN f = Earlier(i) /\ st.of \subseteq Earlier(i)
    <2>1. i \in 1 .. Len(Script) + 1 /\ DOMAIN f = Earlier(i)
      BY <1>2, <1>4 DEF SeedKnows
    <2>2. i \in 1 .. Len(Script) /\ Len(Script) = 23
      BY <1>3, <2>1, ScriptFacts
    <2> QED
      BY <1>2, <2>1, <2>2, ScriptFacts, Zenon
  <1>6. k \in Nat
    BY <1>2, <1>4, SownIs
  <1>7. PICK of, r : of = [p \in st.of |-> f[p]] /\ r = [step |-> st.name, of |-> of, active |-> TRUE, completed |-> FALSE]
    OBVIOUS
  <1>8. r = RowFor(st, f) /\ RowFor(st, f).of = of /\ RowShape(r) /\ r.step = st.name /\ r.of = of
        /\ r.active = TRUE /\ r.completed = FALSE
    BY <1>7 DEF RowFor, RowShape
  <1>9. PICK g, s : g = WithFound(f, st, k + 1) /\ s = [at |-> i + 1, found |-> g]
    OBVIOUS
  <1>10. sown' = Append(sown, r) /\ Goto(c, "step", s, {}) /\ UNCHANGED seeded /\ UNCHANGED sownBeside
    BY <1>2, <1>3, <1>8, <1>9 DEF Sow, Advance
  <1>11. /\ \E S : sown' \in Seq(S)
         /\ Len(sown') = k + 1
         /\ \A n \in 1 .. k + 1 : sown'[n] = IF n = k + 1 THEN r ELSE sown[n]
    BY <1>2, <1>4, <1>10, SownIs
  <1>12. /\ sown'[k + 1] = r
         /\ \A n \in 1 .. k : n \in 1 .. k + 1 /\ n # k + 1 /\ sown'[n] = sown[n]
         /\ \A n \in 1 .. k + 1 : n = k + 1 \/ n \in 1 .. k
    BY <1>6, <1>11
  <1>13. \A n \in 1 .. k + 1 : RowShape(sown'[n])
    BY <1>2, <1>4, <1>8, <1>12 DEF SeedTables
  <1>14. SeedsTypeOK'
    <2>1. SUFFICES ASSUME NEW n \in 1 .. k + 1, NEW p \in DOMAIN sown'[n].of PROVE sown'[n].of[p] \in 1 .. n - 1
      BY <1>11 DEF SeedsTypeOK
    <2>2. CASE n \in 1 .. k
      BY <1>2, <1>4, <1>12, <2>2 DEF SeedTables, SeedsTypeOK
    <2>3. CASE n = k + 1
      <3>1. p \in st.of /\ sown'[n].of[p] = f[p]
        BY <1>7, <1>8, <1>12, <2>3
      <3>2. f[p] \in 1 .. k
        BY <1>2, <1>4, <1>5, <3>1 DEF SeedKnows
      <3> QED
        BY <1>6, <2>3, <3>1, <3>2
    <2> QED
      BY <1>12, <2>2, <2>3
  <1>15. ASSUME ~sownBeside' PROVE Singly'
    <2>1. ~sownBeside /\ Matching(st, f) = {} /\ Singly
      BY <1>1, <1>2, <1>3, <1>4, <1>10, <1>15 DEF SeedTables
    <2>2. \A m \in 1 .. k : sown[m].active => sown[m].step # st.name \/ sown[m].of # of
      BY <1>2, <1>8, <2>1 DEF Matching
    <2>3. \A n, m \in 1 .. k + 1 : n # m /\ sown'[n].active /\ sown'[m].active
                                   => sown'[n].step # sown'[m].step \/ sown'[n].of # sown'[m].of
      BY <1>2, <1>8, <1>12, <2>1, <2>2 DEF Singly
    <2> QED
      BY <1>11, <2>3 DEF Singly
  <1>16. ASSUME Plain' PROVE Plain
    <2>1. ~sownBeside' /\ \A n \in 1 .. k + 1 : sown'[n].active
      BY <1>11, <1>16 DEF Plain
    <2> QED
      BY <1>2, <1>10, <1>12, <2>1 DEF Plain
  <1>17. ASSUME Plain PROVE k + 1 = Place(i) /\ of = Links(i)
    <2>1. Matching(st, f) = {}
      BY <1>1, <1>2, <1>3, <1>17 DEF Plain
    <2>2. \A p \in DOMAIN f : f[p] = PlaceOf(p)
      BY <1>2, <1>4, <1>17 DEF SeedKnows
    <2>3. of = Links(i)
      BY <1>2, <1>5, <1>7, <2>2 DEF Links
    <2>4. Place(i - 1) <= k
      BY <1>2, <1>4, <1>17 DEF SeedKnows
    <2>5. Place(i) = Place(i - 1) + 1 /\ Place(i - 1) \in Nat /\ Place(i) \in Nat
      <3>1. i - 1 \in 0 .. Len(Script) /\ i \in 0 .. Len(Script)
        BY <1>5
      <3> QED
        BY <1>2, <1>3, <1>5, <3>1, PlaceFacts
    <2>6. ASSUME Place(i) <= k PROVE FALSE
      <3>1. Place(i) \in 1 .. k
        BY <1>6, <2>5, <2>6
      <3>2. PICK j \in 1 .. Len(Script) : /\ Makes(Script[j]) /\ Place(j) = Place(i) /\ sown[Place(i)].step = Script[j].name
                                          /\ sown[Place(i)].of = Links(j)
        BY <1>2, <1>4, <1>17, <3>1 DEF SeedTables, InPlace
      <3>3. j = i
        <4>1. i \in 0 .. Len(Script) /\ j \in 0 .. Len(Script) /\ Place(j) \in Nat
          BY <1>5, <2>5, <3>2
        <4>2. (i < j => Place(i) < Place(j)) /\ (j < i => Place(j) < Place(i))
          BY <1>2, <1>3, <1>5, <3>2, <4>1, PlaceFacts
        <4> QED
          BY <1>5, <2>5, <3>2, <4>1, <4>2
      <3>4. sown[Place(i)].active
        BY <1>2, <1>17, <3>1 DEF Plain
      <3>5. Place(i) \in Matching(st, f)
        BY <1>2, <1>8, <2>3, <3>1, <3>2, <3>3, <3>4 DEF Matching
      <3> QED
        BY <2>1, <3>5
    <2> QED
      BY <1>6, <2>3, <2>4, <2>5, <2>6
  <1>18. ASSUME Plain' PROVE (\A n \in 1 .. k + 1 : InPlace(n)') /\ ~seeded'
    <2>1. ASSUME NEW n \in 1 .. k PROVE InPlace(n)'
      <3>1. InPlace(n)
        BY <1>2, <1>4, <1>16, <1>18 DEF SeedTables
      <3> QED
        BY <1>12, <3>1 DEF InPlace
    <2>2. InPlace(k + 1)'
      <3>1. k + 1 = Place(i) /\ of = Links(i)
        BY <1>16, <1>17, <1>18
      <3>2. sown'[k + 1].step = Script[i].name /\ sown'[k + 1].of = Links(i) /\ sown'[k + 1].completed = FALSE
        BY <1>2, <1>8, <1>12, <3>1
      <3>3. i \in 1 .. Len(Script) /\ Makes(Script[i])
        BY <1>2, <1>3, <1>5
      <3> QED
        BY <3>1, <3>2, <3>3 DEF InPlace
    <2>3. ASSUME seeded PROVE FALSE
      <3>1. k = Place(Len(Script))
        BY <1>2, <1>4, <1>16, <1>18, <2>3 DEF SeedTables
      <3>2. i \in 0 .. Len(Script) /\ Len(Script) \in 0 .. Len(Script) /\ i <= Len(Script)
        BY <1>5
      <3>3. Place(i) <= Place(Len(Script))
        BY <3>2, PlaceFacts
      <3> QED
        BY <1>6, <1>16, <1>17, <1>18, <3>1, <3>3
    <2> QED
      BY <1>10, <1>12, <2>1, <2>2, <2>3
  <1>19. SeedTables'
    BY <1>11, <1>13, <1>14, <1>15, <1>18 DEF SeedTables
  <1>20. PICK y : y = [op |-> x.op, pc |-> "step", arg |-> x.arg, seen |-> s, result |-> x.result]
    OBVIOUS
  <1>21. y.pc = "step" /\ y.seen.at = i + 1 /\ y.seen.found = g
    BY <1>9, <1>20
  <1>22. DOMAIN g = Earlier(i + 1) /\ DOMAIN g = DOMAIN f \cup {st.name}
         /\ \A p \in DOMAIN g : g[p] = IF p = st.name THEN k + 1 ELSE f[p]
    <2>1. DOMAIN g = DOMAIN f \cup {st.name}
          /\ \A p \in DOMAIN f \cup {st.name} : g[p] = IF p = st.name THEN k + 1 ELSE f[p]
      BY <1>9 DEF WithFound
    <2>2. Earlier(i + 1) = Earlier(i) \cup {st.name}
      <3>1. i \in 1 .. Len(Script) /\ Makes(Script[i])
        BY <1>2, <1>3, <1>5
      <3>2. Earlier(i + 1) = Earlier(i) \cup {Script[i].name}
        BY <3>1, EarlierGrows
      <3> QED
        BY <1>2, <3>2
    <2> QED
      BY <1>5, <2>1, <2>2
  <1>23. \A p \in DOMAIN g : g[p] \in 1 .. k + 1
    BY <1>2, <1>4, <1>6, <1>22 DEF SeedKnows
  <1>24. ASSUME Plain'
         PROVE (\A p \in DOMAIN g : g[p] = PlaceOf(p)) /\ Place(i) <= k + 1 /\ (i + 1 > 21 => SessionDone')
    <2>1. Plain /\ k + 1 = Place(i)
      BY <1>16, <1>17, <1>24
    <2>2. PlaceOf(st.name) = k + 1
      BY <1>2, <1>3, <1>5, <2>1, PlaceOfName
    <2>3. \A p \in DOMAIN g : g[p] = PlaceOf(p)
      BY <1>2, <1>4, <1>22, <2>1, <2>2 DEF SeedKnows
    <2>4. i # 21
      BY <1>2, <1>3, <1>5, ScriptFacts DEF Makes
    <2>5. ASSUME i + 1 > 21 PROVE SessionDone'
      <3>1. i > 21 /\ 20 \in 1 .. Len(Script) /\ 20 \in 0 .. Len(Script) /\ i \in 0 .. Len(Script) /\ 0 \in 0 .. Len(Script)
        BY <1>5, <2>4, <2>5
      <3>2. SessionDone
        BY <1>2, <1>4, <2>1, <3>1 DEF SeedKnows
      <3>3. PlaceOf("session") = Place(20)
        BY <3>1, ScriptFacts, PlaceOfName
      <3>4. 0 < Place(20) /\ Place(20) < Place(i) /\ Place(20) \in Nat
        <4>1. Makes(Script[20]) /\ Makes(Script[i])
          BY <1>2, <1>3, ScriptFacts
        <4>2. Place(0) < Place(20) /\ Place(0) = 0 /\ Place(20) < Place(i) /\ Place(20) \in Nat
          BY <1>5, <3>1, <4>1, PlaceFacts
        <4> QED
          BY <4>2
      <3>5. Place(20) \in 1 .. k
        BY <1>6, <2>1, <3>4
      <3> QED
        BY <1>12, <3>2, <3>3, <3>5 DEF SessionDone
    <2> QED
      BY <1>6, <2>1, <2>3, <2>5
  <1>25. SeedKnows(y)'
    <2>1. y.pc \in {"step", "create"} /\ y.pc # "create" /\ y.seen.at \in 1 .. Len(Script) + 1 /\ y.seen.at - 1 = i
      BY <1>5, <1>21
    <2>2. DOMAIN y.seen.found = Earlier(y.seen.at) /\ \A p \in DOMAIN y.seen.found : y.seen.found[p] \in 1 .. Len(sown')
      BY <1>11, <1>21, <1>22, <1>23
    <2>3. Plain' => /\ \A p \in DOMAIN y.seen.found : y.seen.found[p] = PlaceOf(p)
                    /\ Place(y.seen.at - 1) <= Len(sown')
                    /\ y.seen.at > 21 => SessionDone'
      BY <1>11, <1>21, <1>24, <2>1, Zenon
    <2> QED
      BY <2>1, <2>2, <2>3, Zenon DEF SeedKnows
  <1>26. Len(sown) <= Len(sown')
    BY <1>2, <1>6, <1>11
  <1> QED
    BY <1>1, <1>4, <1>10, <1>19, <1>20, <1>25, <1>26, SeedGoesOn

\* A row is created, or the database refuses it.
LEMMA SeedCreates ==
  ASSUME CallsSound, SeedInv, NEW c \in Callers, UpsertSown(c) \/ CreateSown(c) PROVE SeedInv'
  <1>1. CASE UpsertSown(c)
    <2>1. /\ call[c].op = "seed" /\ call[c].pc # "idle" /\ Sow(c) /\ call[c].seen.at <= Len(Script)
          /\ Makes(SeedStepOf(c)) /\ Matching(SeedStepOf(c), call[c].seen.found) = {}
      BY <1>1 DEF UpsertSown, At, Sown, Makes
    <2> QED
      BY <2>1, SeedSows
  <1>2. CASE CreateSown(c)
    <2>1. call[c].op = "seed" /\ call[c].pc = "create" /\ Sown(c) = call[c].seen
      BY <1>2 DEF CreateSown, At, Sown
    <2>2. SeedKnows(call[c])
      BY <2>1, SeedIsAt
    <2>3. /\ call[c].seen.at <= Len(Script) /\ Makes(SeedStepOf(c))
          /\ ~sownBeside => Matching(SeedStepOf(c), call[c].seen.found) = {}
      BY <2>1, <2>2 DEF SeedKnows, SeedStepOf
    <2>4. CASE SeedStepOf(c).kind = "guarded" /\ Matching(SeedStepOf(c), Sown(c).found) # {}
      <3>1. End(c, "clash", {}) /\ UNCHANGED seedVars /\ "clash" # None
        BY <1>2, <2>4, CatalogueAssumption DEF CreateSown
      <3>2. sownBeside
        BY <2>1, <2>3, <2>4
      <3>3. call'[c].pc = "idle" /\ \A d \in Callers \ {c} : call'[d] = call[d]
        <4>1. CallsOK
          BY DEF CallsSound
        <4>2. PICK result, written : result = "clash" /\ written = {} /\ End(c, result, written)
          BY <3>1
        <4>3. /\ call'[c].pc = "idle"
              /\ \A d \in Callers \ {c} : Sees(c, d, IF result = None THEN written ELSE {})
          BY <4>1, <4>2, EndDoes
        <4> QED
          BY <4>3 DEF Sees
      <3>4. UNCHANGED <<sown, seeded>> /\ UNCHANGED sownBeside /\ UNCHANGED sown
        BY <3>1 DEF seedVars
      <3>5. SeedTables'
        BY <3>4, SeedTablesStay DEF SeedInv
      <3> QED
        BY <3>2, <3>3, <3>4, <3>5, SeedLeaves
    <2>5. CASE ~(SeedStepOf(c).kind = "guarded" /\ Matching(SeedStepOf(c), Sown(c).found) # {})
      <3>1. Sow(c)
        BY <1>2, <2>5, Zenon DEF CreateSown
      <3> QED
        BY <2>1, <2>3, <3>1, SeedSows
    <2> QED
      BY <2>4, <2>5
  <1> QED
    BY <1>1, <1>2

\* A step that makes no row is done.
LEMMA SeedKnowsNext ==
  ASSUME NEW x, SeedKnows(x), SeedTables, x.pc = "step", x.seen.at <= Len(Script), ~Makes(Script[x.seen.at]),
         Plain /\ x.seen.at = 21 => SessionDone, NEW s, s = [at |-> x.seen.at + 1, found |-> x.seen.found],
         NEW y, y = [op |-> x.op, pc |-> "step", arg |-> x.arg, seen |-> s, result |-> x.result]
  PROVE SeedKnows(y)
  <1>1. PICK i, f : i = x.seen.at /\ f = x.seen.found
    OBVIOUS
  <1>2. y.pc = "step" /\ y.seen.at = i + 1 /\ y.seen.found = f
    BY <1>1
  <1>3. Len(Script) = 23
    BY ScriptFacts
  <1>4. i \in 1 .. Len(Script) /\ DOMAIN f = Earlier(i) /\ \A p \in DOMAIN f : f[p] \in 1 .. Len(sown)
    BY <1>1, <1>3 DEF SeedKnows
  <1>5. Earlier(i + 1) = Earlier(i) /\ Place(i) = Place(i - 1)
    BY <1>1, <1>4, EarlierGrows, PlaceFacts
  <1>6. ASSUME Plain
        PROVE (\A p \in DOMAIN f : f[p] = PlaceOf(p)) /\ Place(i) <= Len(sown) /\ (i + 1 > 21 => SessionDone)
    <2>1. (\A p \in DOMAIN f : f[p] = PlaceOf(p)) /\ Place(i - 1) <= Len(sown) /\ (i > 21 => SessionDone)
      BY <1>1, <1>6 DEF SeedKnows
    <2>2. i + 1 > 21 => i > 21 \/ i = 21
      BY <1>3, <1>4
    <2> QED
      BY <1>1, <1>5, <1>6, <2>1, <2>2
  <1>7. y.pc \in {"step", "create"} /\ y.pc # "create" /\ y.seen.at \in 1 .. Len(Script) + 1 /\ y.seen.at - 1 = i
    <2>1. i \in 1 .. Len(Script)
      BY <1>4
    <2>2. i + 1 \in 1 .. Len(Script) + 1 /\ i + 1 - 1 = i
      BY <1>3, <2>1
    <2>3. y.pc \in {"step", "create"} /\ y.pc # "create"
      BY <1>2
    <2>4. y.seen.at = i + 1
      BY <1>2
    <2>5. y.seen.at \in 1 .. Len(Script) + 1
      BY <2>2, <2>4, Zenon
    <2>6. y.seen.at - 1 = i
      BY <2>1, <2>4
    <2> QED
      BY <2>3, <2>5, <2>6, Zenon
  <1>8. DOMAIN y.seen.found = Earlier(y.seen.at) /\ \A p \in DOMAIN y.seen.found : y.seen.found[p] \in 1 .. Len(sown)
    BY <1>2, <1>4, <1>5
  <1>9. Plain => /\ \A p \in DOMAIN y.seen.found : y.seen.found[p] = PlaceOf(p)
                 /\ Place(y.seen.at - 1) <= Len(sown)
                 /\ y.seen.at > 21 => SessionDone
    BY <1>2, <1>6, <1>7, Zenon
  <1> QED
    BY <1>7, <1>8, <1>9, Zenon DEF SeedKnows

\* The skill is there, or the seeding fails.
LEMMA SeedChecks ==
  ASSUME CallsSound, SeedInv, NEW c \in Callers, CheckSkill(c) PROVE SeedInv'
  <1>1. PICK x : x = call[c]
    OBVIOUS
  <1>2. x.op = "seed" /\ x.pc = "step" /\ x.seen.at <= Len(Script) /\ Script[x.seen.at].kind = "check" /\ UNCHANGED seedVars
    BY <1>1 DEF CheckSkill, At, Sown, SeedStepOf
  <1>3. SeedKnows(x) /\ Sowing(x) /\ SeedTables /\ x.seen.at \in Nat
    BY <1>1, <1>2, SeedIsAt
  <1>4. CASE skilled
    <2>1. PICK s : s = [at |-> x.seen.at + 1, found |-> x.seen.found]
      OBVIOUS
    <2>2. Goto(c, "step", s, {})
      BY <1>1, <1>4, <2>1 DEF CheckSkill, Sown, Advance
    <2>3. PICK y : y = [op |-> x.op, pc |-> "step", arg |-> x.arg, seen |-> s, result |-> x.result]
      OBVIOUS
    <2>4. ~Makes(Script[x.seen.at]) /\ x.seen.at # 21
      <3>1. x.seen.at \in 1 .. Len(Script)
        <4>1. Len(Script) = 23 /\ x.seen.at \in 1 .. Len(Script) + 1
          BY <1>3, ScriptFacts DEF SeedKnows
        <4> QED
          BY <1>2, <4>1
      <3> QED
        BY <1>2, <3>1, ScriptFacts DEF Makes
    <2>5. SeedKnows(y)
      BY <1>2, <1>3, <2>1, <2>3, <2>4, SeedKnowsNext
    <2> QED
      BY <1>1, <1>2, <1>3, <2>2, <2>3, <2>5, SeedPasses
  <1>5. CASE ~skilled
    <2>1. PICK result, written : result = "refused" /\ written = {} /\ End(c, result, written)
      BY <1>5 DEF CheckSkill
    <2>2. call'[c].pc = "idle" /\ (result # None => call'[c].result = result) /\ (result = None => call'[c] = Idle)
          /\ \A d \in Callers \ {c} : call'[d] = call[d]
      <3>1. CallsOK
        BY DEF CallsSound
      <3>2. /\ call'[c].pc = "idle" /\ (result = None => call'[c] = Idle)
            /\ result # None => call'[c] = [op |-> call[c].op, pc |-> "idle", arg |-> call[c].arg, seen |-> None, result |-> result]
            /\ \A d \in Callers \ {c} : Sees(c, d, IF result = None THEN written ELSE {})
        BY <2>1, <3>1, EndDoes
      <3>3. result # None => call'[c].result = result
        BY <3>2
      <3> QED
        BY <3>2, <3>3 DEF Sees
    <2>3. call'[c].op = "seed" => call'[c].result # "clash"
      BY <2>1, <2>2, OfficeAssumption DEF Idle, SeedCalls
    <2>4. UNCHANGED <<sown, seeded>> /\ UNCHANGED sownBeside /\ UNCHANGED sown
      BY <1>2 DEF seedVars
    <2>5. SeedTables'
      BY <1>3, <2>4, SeedTablesStay
    <2> QED
      BY <2>2, <2>3, <2>4, <2>5, SeedLeaves
  <1> QED
    BY <1>4, <1>5

\* The row with one field written anew.
LEMMA RowCompleted ==
  ASSUME NEW r, RowShape(r)
  PROVE [r EXCEPT !.completed = TRUE] = [step |-> r.step, of |-> r.of, active |-> r.active, completed |-> TRUE]
  <1>1. r \in [step : {r.step}, of : {r.of}, active : BOOLEAN, completed : BOOLEAN]
    BY DEF RowShape
  <1>2. PICK y : y = [r EXCEPT !.completed = TRUE]
    BY Zenon
  <1>3. y = [step |-> r.step, of |-> r.of, active |-> r.active, completed |-> TRUE]
    BY <1>1, <1>2
  <1> QED
    BY <1>2, <1>3, Zenon
\* And with the other one.
LEMMA RowEnded ==
  ASSUME NEW r, RowShape(r)
  PROVE [r EXCEPT !.active = FALSE] = [step |-> r.step, of |-> r.of, active |-> FALSE, completed |-> r.completed]
  <1>1. r \in [step : {r.step}, of : {r.of}, active : BOOLEAN, completed : BOOLEAN]
    BY DEF RowShape
  <1>2. PICK y : y = [r EXCEPT !.active = FALSE]
    BY Zenon
  <1>3. y = [step |-> r.step, of |-> r.of, active |-> FALSE, completed |-> r.completed]
    BY <1>1, <1>2
  <1> QED
    BY <1>2, <1>3, Zenon

\* A row keeps what it answers to.
LEMMA SeedRewrites ==
  ASSUME SeedTables, NEW n \in 1 .. Len(sown), NEW r, sown' = [sown EXCEPT ![n] = r], RowShape(r),
         r.step = sown[n].step, r.of = sown[n].of, r.active => sown[n].active
  PROVE /\ \E S : sown' \in Seq(S)
        /\ Len(sown') = Len(sown)
        /\ \A m \in 1 .. Len(sown) : sown'[m] = IF m = n THEN r ELSE sown[m]
        /\ \A m \in 1 .. Len(sown') : RowShape(sown'[m])
        /\ SeedsTypeOK' /\ (Singly => Singly')
        /\ \A st, f : Matching(st, f)' \subseteq Matching(st, f)
  <1>1. /\ \E S : sown' \in Seq(S)
        /\ Len(sown') = Len(sown)
        /\ \A m \in 1 .. Len(sown) : sown'[m] = IF m = n THEN r ELSE sown[m]
    BY SownIs
  <1>2. \A m \in 1 .. Len(sown) : /\ sown'[m].step = sown[m].step /\ sown'[m].of = sown[m].of
                                  /\ sown'[m].active => sown[m].active
    BY <1>1
  <1>3. \A m \in 1 .. Len(sown') : RowShape(sown'[m])
    BY <1>1 DEF SeedTables
  <1>4. SeedsTypeOK'
    BY <1>1, <1>2 DEF SeedTables, SeedsTypeOK
  <1>5. Singly => Singly'
    BY <1>1, <1>2 DEF Singly
  <1>6. \A st, f : Matching(st, f)' \subseteq Matching(st, f)
    BY <1>1, <1>2 DEF Matching
  <1> QED
    BY <1>1, <1>3, <1>4, <1>5, <1>6

\* The session is completed.
LEMMA SeedCompletes ==
  ASSUME CallsSound, SeedInv, NEW c \in Callers, CompleteSown(c) PROVE SeedInv'
  <1>1. PICK x : x = call[c]
    OBVIOUS
  <1>2. PICK n : n = x.seen.found["session"]
    OBVIOUS
  <1>3. /\ x.op = "seed" /\ x.pc = "step" /\ x.seen.at <= Len(Script) /\ Script[x.seen.at].kind = "update"
        /\ UNCHANGED seeded /\ UNCHANGED sownBeside
    BY <1>1 DEF CompleteSown, At, Sown, SeedStepOf
  <1>4. SeedKnows(x) /\ Sowing(x) /\ SeedTables /\ x.seen.at \in Nat
    BY <1>1, <1>3, SeedIsAt
  <1>5. x.seen.at = 21 /\ Len(Script) = 23 /\ ~Makes(Script[x.seen.at])
    <2>1. Len(Script) = 23 /\ x.seen.at \in 1 .. Len(Script) + 1
      BY <1>4, ScriptFacts DEF SeedKnows
    <2>2. x.seen.at \in 1 .. Len(Script)
      BY <1>3, <2>1
    <2> QED
      BY <1>3, <2>1, <2>2, ScriptFacts DEF Makes
  <1>6. n \in 1 .. Len(sown) /\ "session" \in DOMAIN x.seen.found
    <2>1. 20 \in 1 .. Len(Script) /\ 20 \in 1 .. 20 /\ Makes(Script[20]) /\ Script[20].name = "session"
      BY <1>5, ScriptFacts
    <2>2. "session" \in Earlier(20 + 1)
      <3>1. PICK i : i = 20
        OBVIOUS
      <3>2. i \in 1 .. Len(Script) /\ i \in 1 .. i /\ Makes(Script[i]) /\ Script[i].name = "session"
        BY <2>1, <3>1
      <3>3. \A j \in 1 .. i : Makes(Script[j]) => Script[j].name \in Earlier(i + 1)
        BY <3>2, EarlierGrows
      <3>4. Script[i].name \in Earlier(i + 1)
        BY <3>2, <3>3, Zenon
      <3> QED
        BY <3>1, <3>2, <3>4
    <2>3. "session" \in DOMAIN x.seen.found
      BY <1>4, <1>5, <2>2 DEF SeedKnows
    <2> QED
      BY <1>2, <1>4, <2>3 DEF SeedKnows
  <1>7. PICK r : r = [step |-> sown[n].step, of |-> sown[n].of, active |-> sown[n].active, completed |-> TRUE]
    OBVIOUS
  <1>8. sown' = [sown EXCEPT ![n] = r]
    <2>1. sown' = [sown EXCEPT ![n].completed = TRUE]
      BY <1>1, <1>2 DEF CompleteSown, CompletedSown, Sown
    <2>2. [sown[n] EXCEPT !.completed = TRUE] = r
      BY <1>4, <1>6, <1>7, RowCompleted DEF SeedTables
    <2> QED
      BY <2>1, <2>2, Zenon
  <1>9. r.step = sown[n].step /\ r.of = sown[n].of /\ r.active = sown[n].active /\ r.completed = TRUE /\ RowShape(r)
    <2>1. RowShape(sown[n])
      BY <1>4, <1>6 DEF SeedTables
    <2>2. sown[n].active \in BOOLEAN
      BY <2>1 DEF RowShape
    <2> QED
      BY <1>7, <2>2 DEF RowShape
  <1>10. /\ \E S : sown' \in Seq(S)
         /\ Len(sown') = Len(sown)
         /\ \A m \in 1 .. Len(sown) : sown'[m] = IF m = n THEN r ELSE sown[m]
         /\ \A m \in 1 .. Len(sown') : RowShape(sown'[m])
         /\ SeedsTypeOK' /\ (Singly => Singly')
    BY <1>4, <1>6, <1>8, <1>9, SeedRewrites
  <1>11. ASSUME Plain' PROVE Plain /\ (\A m \in 1 .. Len(sown') : InPlace(m)') /\ SessionDone'
    <2>1. Plain
      BY <1>3, <1>9, <1>10, <1>11 DEF Plain
    <2>2. \A m \in 1 .. Len(sown) : InPlace(m)
      BY <1>4, <2>1 DEF SeedTables
    <2>3. n = PlaceOf("session")
      BY <1>2, <1>4, <1>6, <2>1 DEF SeedKnows
    <2>4. 20 \in 1 .. Len(Script) /\ 20 \in 0 .. Len(Script) /\ Makes(Script[20]) /\ Script[20].name = "session"
      BY <1>5, ScriptFacts
    <2>5. n = Place(20) /\ Place(20) \in Nat
      BY <2>3, <2>4, PlaceOfName, PlaceFacts
    <2>6. sown[n].step = "session"
      <3>1. PICK j \in 1 .. Len(Script) : Makes(Script[j]) /\ Place(j) = n /\ sown[n].step = Script[j].name
        BY <1>6, <2>2 DEF InPlace
      <3>2. j \in 0 .. Len(Script)
        BY <1>5
      <3>3. (20 < j => Place(20) < Place(j)) /\ (j < 20 => Place(j) < Place(20))
        BY <2>4, <3>1, <3>2, PlaceFacts
      <3>4. j = 20
        BY <1>5, <2>5, <3>1, <3>3
      <3> QED
        BY <2>4, <3>1, <3>4
    <2>7. ASSUME NEW m \in 1 .. Len(sown) PROVE InPlace(m)'
      <3>1. PICK j \in 1 .. Len(Script) : /\ Makes(Script[j]) /\ Place(j) = m /\ sown[m].step = Script[j].name /\ sown[m].of = Links(j)
                                          /\ sown[m].completed => Script[j].name = "session"
        BY <2>2 DEF InPlace
      <3>2. sown'[m].step = sown[m].step /\ sown'[m].of = sown[m].of /\ (m # n => sown'[m] = sown[m])
        BY <1>9, <1>10
      <3>3. sown'[m].completed => Script[j].name = "session"
        BY <2>6, <3>1, <3>2
      <3> QED
        BY <3>1, <3>2, <3>3 DEF InPlace
    <2>8. SessionDone'
      BY <1>6, <1>9, <1>10, <2>3 DEF SessionDone
    <2> QED
      BY <1>10, <2>1, <2>7, <2>8
  <1>12. SeedTables'
    BY <1>3, <1>4, <1>10, <1>11 DEF SeedTables
  <1>13. PICK s, y : s = [at |-> x.seen.at + 1, found |-> x.seen.found]
                     /\ y = [op |-> x.op, pc |-> "step", arg |-> x.arg, seen |-> s, result |-> x.result]
    OBVIOUS
  <1>14. Goto(c, "step", s, {})
    BY <1>1, <1>13 DEF CompleteSown, Sown, Advance
  <1>16. SeedKnows(y)'
    <2>1. PICK f : f = x.seen.found
      OBVIOUS
    <2>2. y.pc = "step" /\ y.seen.at = 22 /\ y.seen.found = f
      BY <1>5, <1>13, <2>1
    <2>3. y.pc \in {"step", "create"} /\ y.pc # "create" /\ y.seen.at \in 1 .. Len(Script) + 1 /\ y.seen.at - 1 = 21
      BY <1>5, <2>2
    <2>4. Earlier(22) = Earlier(21) /\ Place(21) = Place(20)
      <3>1. PICK i : i = 21
        OBVIOUS
      <3>2. i \in 1 .. Len(Script) /\ ~Makes(Script[i]) /\ i + 1 = 22 /\ i - 1 = 20
        BY <1>5, <3>1
      <3>3. Earlier(i + 1) = Earlier(i) /\ Place(i) = Place(i - 1)
        BY <3>2, EarlierGrows, PlaceFacts
      <3> QED
        BY <3>1, <3>2, <3>3
    <2>5. DOMAIN y.seen.found = Earlier(y.seen.at) /\ \A p \in DOMAIN y.seen.found : y.seen.found[p] \in 1 .. Len(sown')
      BY <1>4, <1>5, <1>10, <2>1, <2>2, <2>4 DEF SeedKnows
    <2>6. Plain' => /\ \A p \in DOMAIN y.seen.found : y.seen.found[p] = PlaceOf(p)
                    /\ Place(21) <= Len(sown')
                    /\ SessionDone'
      <3>1. ASSUME Plain' PROVE (\A p \in DOMAIN f : f[p] = PlaceOf(p)) /\ Place(20) <= Len(sown') /\ SessionDone'
        <4>1. Plain /\ SessionDone' /\ x.seen.at - 1 = 20
          BY <1>5, <1>11, <3>1
        <4>2. (\A p \in DOMAIN f : f[p] = PlaceOf(p)) /\ Place(x.seen.at - 1) <= Len(sown)
          BY <1>4, <2>1, <4>1 DEF SeedKnows
        <4> QED
          BY <1>10, <4>1, <4>2
      <3> QED
        BY <2>2, <2>4, <3>1
    <2>7. Plain' => /\ \A p \in DOMAIN y.seen.found : y.seen.found[p] = PlaceOf(p)
                    /\ Place(y.seen.at - 1) <= Len(sown')
                    /\ y.seen.at > 21 => SessionDone'
      BY <2>3, <2>6, Zenon
    <2> QED
      BY <2>3, <2>5, <2>7, Zenon DEF SeedKnows
  <1>17. Len(sown) <= Len(sown')
    BY <1>4, <1>10, SownIs
  <1> QED
    BY <1>1, <1>3, <1>4, <1>12, <1>13, <1>14, <1>16, <1>17, SeedGoesOn

\* The last step is done: what one seeding makes is there, once.
LEMMA SeedEnds ==
  ASSUME CallsSound, SeedInv, NEW c \in Callers, EndSeed(c) PROVE SeedInv'
  <1>1. PICK x, k : x = call[c] /\ k = Len(sown)
    OBVIOUS
  <1>2. x.op = "seed" /\ x.pc = "step" /\ x.seen.at > Len(Script) /\ UNCHANGED sown /\ UNCHANGED sownBeside
    BY <1>1 DEF EndSeed, At, Sown
  <1>3. SeedKnows(x) /\ SeedTables /\ x.seen.at \in Nat
    BY <1>1, <1>2, SeedIsAt
  <1>4. Len(Script) = 23
    BY ScriptFacts
  <1>5. x.seen.at - 1 = 23 /\ x.seen.at > 21
    <2>1. x.seen.at \in 1 .. Len(Script) + 1
      BY <1>3 DEF SeedKnows
    <2> QED
      BY <1>2, <1>4, <2>1
  <1>6. ASSUME Plain PROVE k = Place(Len(Script)) /\ SessionDone
    <2>1. Place(x.seen.at - 1) <= k /\ SessionDone
      BY <1>1, <1>3, <1>5, <1>6 DEF SeedKnows
    <2>2. Place(23) <= k
      BY <1>5, <2>1
    <2>3. 23 \in 0 .. Len(Script) /\ 0 \in 0 .. Len(Script) /\ 20 \in 0 .. Len(Script) /\ 20 \in 1 .. Len(Script) /\ Makes(Script[20])
      BY <1>4, ScriptFacts
    <2>4. Place(23) \in Nat /\ 0 < Place(20) /\ Place(20) <= Place(23) /\ Place(20) \in Nat
      BY <2>3, PlaceFacts
    <2>5. k \in Nat
      BY <1>1, <1>3, SownIs
    <2>6. k \in 1 .. k
      BY <2>2, <2>4, <2>5
    <2>7. PICK j \in 1 .. Len(Script) : Place(j) = k
      BY <1>1, <1>3, <1>6, <2>6 DEF SeedTables, InPlace
    <2>8. Place(j) <= Place(23)
      <3>1. j \in 0 .. Len(Script) /\ j <= 23
        BY <1>4
      <3> QED
        BY <2>3, <3>1, PlaceFacts
    <2> QED
      BY <1>4, <2>1, <2>2, <2>4, <2>5, <2>7, <2>8
  <1>7. SeedTables'
    <2>1. Plain' => Plain
      BY <1>2 DEF Plain
    <2>2. /\ SeedsTypeOK' <=> SeedsTypeOK
          /\ Singly' <=> Singly
          /\ SessionDone' <=> SessionDone
          /\ \A n : InPlace(n)' <=> InPlace(n)
      BY <1>2 DEF SeedsTypeOK, Singly, SessionDone, InPlace
    <2> QED
      BY <1>1, <1>2, <1>3, <1>6, <2>1, <2>2 DEF SeedTables
  <1>8. call'[c] = Idle /\ \A d \in Callers \ {c} : call'[d] = call[d]
    <2>1. CallsOK
      BY DEF CallsSound
    <2>2. PICK result, written : result = None /\ written = {} /\ End(c, result, written)
      BY DEF EndSeed
    <2>3. /\ result = None => call'[c] = Idle
          /\ \A d \in Callers \ {c} : Sees(c, d, IF result = None THEN written ELSE {})
      BY <2>1, <2>2, EndDoes
    <2> QED
      BY <2>2, <2>3 DEF Sees
  <1>9. Idle.pc = "idle" /\ Idle.op = None /\ "seed" # None
    BY OfficeAssumption DEF Idle, SeedCalls
  <1> QED
    BY <1>2, <1>7, <1>8, <1>9, SeedLeaves

\* It is cut short.
LEMMA SeedCrashes ==
  ASSUME CallsSound, SeedInv, NEW c \in Callers, CrashSeed(c) PROVE SeedInv'
  <1>1. call' = [call EXCEPT ![c] = Idle] /\ UNCHANGED seedVars
    BY DEF CrashSeed
  <1>2. UNCHANGED <<sown, seeded>> /\ UNCHANGED sownBeside /\ UNCHANGED sown
    BY <1>1 DEF seedVars
  <1>3. call'[c] = Idle /\ \A d \in Callers \ {c} : call'[d] = call[d]
    BY <1>1 DEF CallsSound, CallsOK
  <1>4. Idle.pc = "idle" /\ Idle.op = None /\ "seed" # None
    BY OfficeAssumption DEF Idle, SeedCalls
  <1>5. SeedTables'
    BY <1>2, SeedTablesStay DEF SeedInv
  <1> QED
    BY <1>2, <1>3, <1>4, <1>5, SeedLeaves

\* A skill is given, or the learner gets another level.
LEMMA SeedStandsBy ==
  ASSUME CallsSound, SeedInv, NEW c \in Callers, GiveSkill(c) \/ Reassign(c) PROVE SeedInv'
  <1>1. call' = call /\ UNCHANGED sownBeside
    BY DEF GiveSkill, Reassign, Atomically
  <1>2. SeedTables /\ Alone'
    BY <1>1 DEF SeedInv, Alone, Sowing
  <1>3. CASE GiveSkill(c)
    <2>1. UNCHANGED <<sown, seeded>> /\ (sownBeside => sownBeside')
      BY <1>1, <1>3 DEF GiveSkill
    <2>2. SeedTables' /\ Shrinks
      BY <1>2, <2>1, SeedTablesStay
    <2>3. SUFFICES ASSUME NEW d \in Callers PROVE SeedCall(call[d])'
      BY <1>2, <2>2 DEF SeedInv
    <2>4. PICK y : y = call[d]
      OBVIOUS
    <2>5. SeedCall(y) /\ Len(sown') \in Nat /\ Len(sown) <= Len(sown')
      BY <1>2, <2>1, <2>4, SownIs DEF SeedInv
    <2>6. SeedCall(y)'
      BY <1>2, <2>1, <2>2, <2>5, SeedOthersKnow
    <2> QED
      BY <1>1, <2>4, <2>6
  <1>4. CASE Reassign(c)
    <2>1. PICK n \in 1 .. Len(sown) : sown' = [sown EXCEPT ![n].active = FALSE]
      BY <1>4 DEF Reassign
    <2>2. PICK r : r = [step |-> sown[n].step, of |-> sown[n].of, active |-> FALSE, completed |-> sown[n].completed]
      OBVIOUS
    <2>3. RowShape(sown[n])
      BY <1>2 DEF SeedTables
    <2>4. sown' = [sown EXCEPT ![n] = r]
      <3>1. [sown[n] EXCEPT !.active = FALSE] = r
        BY <2>2, <2>3, RowEnded
      <3> QED
        BY <2>1, <3>1, Zenon
    <2>5. r.step = sown[n].step /\ r.of = sown[n].of /\ r.active = FALSE /\ RowShape(r)
      <3>1. sown[n].completed \in BOOLEAN
        BY <2>3 DEF RowShape
      <3> QED
        BY <2>2, <3>1 DEF RowShape
    <2>6. /\ \E S : sown' \in Seq(S)
          /\ Len(sown') = Len(sown)
          /\ \A m \in 1 .. Len(sown) : sown'[m] = IF m = n THEN r ELSE sown[m]
          /\ \A m \in 1 .. Len(sown') : RowShape(sown'[m])
          /\ SeedsTypeOK' /\ (Singly => Singly')
          /\ \A st, f : Matching(st, f)' \subseteq Matching(st, f)
      BY <1>2, <2>4, <2>5, SeedRewrites
    <2>7. ~Plain'
      BY <2>5, <2>6 DEF Plain
    <2>8. SeedTables' /\ Shrinks
      BY <1>1, <1>2, <2>6, <2>7 DEF SeedTables, Shrinks
    <2>9. SUFFICES ASSUME NEW d \in Callers PROVE SeedCall(call[d])'
      BY <1>2, <2>8 DEF SeedInv
    <2>10. PICK y : y = call[d]
      OBVIOUS
    <2>11. SeedCall(y) /\ Len(sown') \in Nat /\ Len(sown) <= Len(sown')
      BY <1>2, <2>6, <2>10, SownIs DEF SeedInv
    <2>12. SeedCall(y)'
      BY <1>1, <1>2, <2>8, <2>11, SeedOthersKnow
    <2> QED
      BY <1>1, <2>10, <2>12
  <1> QED
    BY <1>3, <1>4

\* Whatever step of it.
LEMMA SeedsGoOn ==
  ASSUME CallsSound, SeedInv, NEW c \in Callers, SeedStep(c) PROVE SeedInv'
  BY SeedBegins, SeedFinds, SeedMisses, SeedCreates, SeedChecks, SeedCompletes, SeedEnds, SeedCrashes, SeedStandsBy
     DEF SeedStep

\* The script is a sequence.
LEMMA ScriptIsSeq == \E S : Script \in Seq(S)
  <1>1. PICK t, u : t = SeedCatalogue /\ u = SeedDemo
    OBVIOUS
  <1>2. \E S : t \in Seq(S)
    <2>1. PICK a, b : a = <<SeedDepartment, SeedTrack, SeedLevel>> /\ b = SeedOutcomes
      OBVIOUS
    <2>2. PICK S : S = {a[1], a[2], a[3], b[1], b[2]}
      OBVIOUS
    <2>3. a \in Seq(S)
      BY <2>1, <2>2
    <2>4. b \in Seq(S)
      BY <2>1, <2>2 DEF SeedOutcomes
    <2> QED
      BY <1>1, <2>1, <2>3, <2>4, ConcatProperties DEF SeedCatalogue
  <1>3. \E S : u \in Seq(S)
    <2>1. u = [i \in 1 .. 18 |-> u[i]]
      BY <1>1 DEF SeedDemo
    <2>2. PICK S : S = {u[i] : i \in 1 .. 18}
      OBVIOUS
    <2> QED
      BY <2>1, <2>2
  <1>4. PICK S, T : t \in Seq(S) /\ u \in Seq(T)
    BY <1>2, <1>3
  <1>5. PICK V : V = S \cup T
    OBVIOUS
  <1>6. t \in Seq(V) /\ u \in Seq(V)
    BY <1>4, <1>5
  <1>7. t \o u \in Seq(V)
    BY <1>6, ConcatProperties
  <1> QED
    BY <1>1, <1>7 DEF Script

\* A whole script sows what its steps say, each in its place.
LEMMA WholeScript ==
  ASSUME NEW r, r = SownBy(Script)
  PROVE /\ Len(r) = Place(Len(Script)) /\ \E S : r \in Seq(S)
        /\ \A n \in 1 .. Len(r) : \E i \in 1 .. Len(Script) :
             /\ Makes(Script[i]) /\ Place(i) = n
             /\ r[n] = [step |-> Script[i].name, of |-> Links(i), active |-> TRUE, completed |-> Script[i].name = "session"]
  <1>1. PICK k, s : k = Len(Script) /\ s = SubSeq(Script, 1, k)
    OBVIOUS
  <1>2. k = 23 /\ k \in 0 .. Len(Script)
    BY <1>1, ScriptIs
  <1>3. s = Script
    <2>1. PICK t : t = Script
      OBVIOUS
    <2>2. Len(t) = 23 /\ \E S : t \in Seq(S)
      BY <2>1, ScriptIs, ScriptIsSeq
    <2>3. SubSeq(t, 1, 23) = t
      BY <2>2
    <2> QED
      BY <1>1, <1>2, <2>1, <2>3
  <1>4. r = SownBy(SubSeq(Script, 1, k))
    BY <1>1, <1>3
  <1>5. /\ r \in Seq({r[n] : n \in DOMAIN r}) /\ Len(r) = Place(k)
        /\ \A n \in 1 .. Len(r) : \E i \in 1 .. k :
             /\ Makes(Script[i]) /\ Place(i) = n
             /\ r[n] = [step |-> Script[i].name, of |-> Links(i), active |-> TRUE,
                        completed |-> Script[i].name = "session" /\ \E j \in 1 .. k : Script[j].kind = "update"]
    <2> DEFINE rows == SownBy(SubSeq(Script, 1, k))
    <2>1. rows \in Seq({rows[n] : n \in DOMAIN rows}) /\ Len(rows) = Place(k)
      BY <1>2, SeedsAssumption, Zenon
    <2>2. \A n \in 1 .. Len(rows) : \E i \in 1 .. k :
             /\ Makes(Script[i]) /\ Place(i) = n
             /\ rows[n] = [step |-> Script[i].name, of |-> Links(i), active |-> TRUE,
                           completed |-> Script[i].name = "session" /\ \E j \in 1 .. k : Script[j].kind = "update"]
      BY <1>2, SeedsAssumption, Zenon
    <2>3. r = rows
      BY <1>4
    <2> HIDE DEF rows
    <2> QED
      BY <2>1, <2>2, <2>3, Zenon
  <1>6. \E j \in 1 .. k : Script[j].kind = "update"
    <2>1. Script[21] = SeedComplete /\ SeedComplete.kind = "update"
      BY ScriptIs DEF SeedComplete, ScriptStep
    <2>2. 21 \in 1 .. k
      BY <1>2
    <2> QED
      BY <2>1, <2>2
  <1>7. ASSUME NEW n \in 1 .. Len(r)
        PROVE \E i \in 1 .. Len(Script) :
             /\ Makes(Script[i]) /\ Place(i) = n
             /\ r[n] = [step |-> Script[i].name, of |-> Links(i), active |-> TRUE, completed |-> Script[i].name = "session"]
    <2>1. PICK i \in 1 .. k :
             /\ Makes(Script[i]) /\ Place(i) = n
             /\ r[n] = [step |-> Script[i].name, of |-> Links(i), active |-> TRUE,
                        completed |-> Script[i].name = "session" /\ \E j \in 1 .. k : Script[j].kind = "update"]
      BY <1>5, Zenon
    <2>2. (Script[i].name = "session" /\ \E j \in 1 .. k : Script[j].kind = "update") = (Script[i].name = "session")
      BY <1>6, Zenon
    <2>3. r[n] = [step |-> Script[i].name, of |-> Links(i), active |-> TRUE, completed |-> Script[i].name = "session"]
      BY <2>1, <2>2, Zenon
    <2> QED
      BY <1>1, <2>1, <2>3, Zenon
  <1> QED
    BY <1>1, <1>5, <1>7, Zenon

\* So the invariant is what is promised.
LEMMA SeedInvIsTrue ==
  ASSUME SeedInv PROVE SeedsTypeOK /\ SeedsConverge
  <1>1. SeedsTypeOK
    BY DEF SeedInv, SeedTables
  <1>2. SUFFICES ASSUME ~sownBeside
        PROVE /\ Singly
              /\ seeded /\ (\A n \in 1 .. Len(sown) : sown[n].active) => sown = SownBy(Script)
              /\ \A c \in Callers : call[c].op = "seed" => call[c].result # "clash"
    BY <1>1 DEF SeedsConverge, Singly
  <1>3. Singly
    BY <1>2 DEF SeedInv, SeedTables
  <1>4. \A c \in Callers : call[c].op = "seed" => call[c].result # "clash"
    BY <1>2 DEF SeedInv, SeedCall
  <1>5. ASSUME seeded, \A n \in 1 .. Len(sown) : sown[n].active PROVE sown = SownBy(Script)
    <2>1. Plain
      BY <1>2, <1>5 DEF Plain
    <2>2. PICK s, r : s = sown /\ r = SownBy(Script)
      OBVIOUS
    <2>3. /\ Len(s) = Place(Len(Script)) /\ SessionDone /\ \E S : s \in Seq(S)
          /\ \A n \in 1 .. Len(s) : RowShape(s[n]) /\ InPlace(n) /\ s[n].active
      BY <1>5, <2>1, <2>2 DEF SeedInv, SeedTables
    <2>4. /\ Len(r) = Place(Len(Script)) /\ \E S : r \in Seq(S)
          /\ \A n \in 1 .. Len(r) : \E i \in 1 .. Len(Script) :
               /\ Makes(Script[i]) /\ Place(i) = n
               /\ r[n] = [step |-> Script[i].name, of |-> Links(i), active |-> TRUE, completed |-> Script[i].name = "session"]
      BY <2>2, WholeScript
    <2>5. ASSUME NEW n \in 1 .. Len(s) PROVE s[n] = r[n]
      <3>1. n \in 1 .. Len(r)
        BY <2>3, <2>4
      <3>2. PICK i \in 1 .. Len(Script) :
               /\ Makes(Script[i]) /\ Place(i) = n
               /\ r[n] = [step |-> Script[i].name, of |-> Links(i), active |-> TRUE, completed |-> Script[i].name = "session"]
        BY <2>4, <3>1, Zenon
      <3>3. PICK j \in 1 .. Len(Script) :
               /\ Makes(Script[j]) /\ Place(j) = n /\ s[n].step = Script[j].name /\ s[n].of = Links(j)
               /\ s[n].completed => Script[j].name = "session"
        BY <2>2, <2>3 DEF InPlace
      <3>4. i = j
        <4>1. Len(Script) = 23
          BY ScriptIs
        <4>2. i \in 0 .. Len(Script) /\ j \in 0 .. Len(Script)
          BY <4>1
        <4>3. Place(i) \in Nat
          BY <4>2, PlaceFacts
        <4>4. i < j => Place(i) < Place(j)
          BY <3>3, <4>2, PlaceFacts
        <4>5. j < i => Place(j) < Place(i)
          BY <3>2, <4>2, PlaceFacts
        <4>6. Place(i) = Place(j)
          BY <3>2, <3>3
        <4>7. i \in 1 .. 23 /\ j \in 1 .. 23
          BY <4>1
        <4> QED
          BY <4>3, <4>4, <4>5, <4>6, <4>7
      <3>5. Script[i].name = "session" => s[n].completed
        <4>1. ASSUME Script[i].name = "session" PROVE s[n].completed
          <5>1. PlaceOf(Script[i].name) = Place(i)
            BY <3>2, PlaceOfName
          <5>2. PlaceOf("session") = n
            BY <3>2, <4>1, <5>1
          <5> QED
            BY <2>2, <2>3, <5>2 DEF SessionDone
        <4> QED
          BY <4>1
      <3>6. PICK st, ol, b : st = Script[i].name /\ ol = Links(i) /\ b = (Script[i].name = "session") /\ b \in BOOLEAN
        OBVIOUS
      <3>7. r[n] = [step |-> st, of |-> ol, active |-> TRUE, completed |-> b]
        BY <3>2, <3>6, Zenon
      <3>8. RowShape(s[n]) /\ s[n].active
        BY <2>3
      <3>9. s[n].step = st /\ s[n].of = ol
        BY <3>3, <3>4, <3>6
      <3>10. s[n].active = TRUE /\ s[n].completed \in BOOLEAN
        BY <3>8 DEF RowShape
      <3>11. s[n].completed <=> b
        BY <3>3, <3>4, <3>5, <3>6
      <3>12. s[n].completed = b
        BY <3>6, <3>10, <3>11
      <3> QED
        BY <3>7, <3>8, <3>9, <3>10, <3>12 DEF RowShape
    <2>6. Len(s) = Len(r)
      BY <2>3, <2>4
    <2>7. s = r
      BY <2>3, <2>4, <2>5, <2>6
    <2> QED
      BY <2>2, <2>7
  <1> QED
    BY <1>3, <1>4, <1>5

-----------------------------------------------------------------------------
(* What the scripts of an operator promise, and the types of everything.   *)

\* All that is done beside the departments leaves them alone.
LEMMA UnitsBesideOffice ==
  ASSUME CallsSound, [OfficeNext]_officeVars
  PROVE \/ \E c \in Callers : UnitStep(c)
        \/ UNCHANGED unitVars /\ Spares(UnitCalls)
  <1> DEFINE ops == UnitCalls
  <1>1. None \notin ops /\ ops \cap CatalogueCalls = {} /\ ops \cap SeedCalls = {}
        /\ ops \cap SweepCalls = {} /\ ops \cap BriefCalls = {} /\ ops \cap ListCalls = {}
    BY OfficeAssumption DEF CatalogueCalls, SeedCalls, UnitCalls, SweepCalls, BriefCalls, ListCalls
  <1> HIDE DEF ops
  <1>2. CASE UNCHANGED officeVars
    BY <1>2, NoCallSpares DEF officeVars, ops
  <1>3. ASSUME NEW c \in Callers, OfficeStep(c) PROVE UnitStep(c) \/ (UNCHANGED unitVars
        /\ Spares(ops))
    BY <1>1, <1>3, CatalogueSpares, SeedsSpare, SweepsSpare, BriefsSpare, ListsSpare DEF OfficeStep
  <1> QED
    BY <1>2, <1>3 DEF OfficeNext, ops

\* All that is done beside the seedings leaves them alone.
LEMMA SeedsBesideOffice ==
  ASSUME CallsSound, [OfficeNext]_officeVars
  PROVE \/ \E c \in Callers : SeedStep(c)
        \/ UNCHANGED seedVars /\ Spares({"seed"})
  <1> DEFINE ops == {"seed"}
  <1>1. None \notin ops /\ ops \cap CatalogueCalls = {} /\ ops \cap UnitCalls = {}
        /\ ops \cap SweepCalls = {} /\ ops \cap BriefCalls = {} /\ ops \cap ListCalls = {}
    BY OfficeAssumption DEF CatalogueCalls, SeedCalls, UnitCalls, SweepCalls, BriefCalls, ListCalls
  <1> HIDE DEF ops
  <1>2. CASE UNCHANGED officeVars
    BY <1>2, NoCallSpares DEF officeVars, ops
  <1>3. ASSUME NEW c \in Callers, OfficeStep(c) PROVE SeedStep(c) \/ (UNCHANGED seedVars
        /\ Spares(ops))
    BY <1>1, <1>3, CatalogueSpares, UnitsSpare, SweepsSpare, BriefsSpare, ListsSpare DEF OfficeStep
  <1> QED
    BY <1>2, <1>3 DEF OfficeNext, ops

\* Seedings that do not overlap end with what one seeding of an empty database sows, whatever an
\* interrupted one has left (prisma/seed/index.ts), and the repair of departments does what its dry
\* run says (repair-learner-departments.ts), unless somebody else writes meanwhile.
THEOREM ScriptsDoWhatTheySay == OfficeSpec => [](ScriptsHold /\ SeedsTypeOK /\ UnitsTypeOK)
  <1>1. OfficeInit => CallsSound /\ SeedInv /\ UnitInv
    BY SeedStart, UnitStart, CallsStartSound DEF OfficeInit, Init
  <1>2. CallsSound /\ SeedInv /\ UnitInv /\ [OfficeNext]_officeVars => CallsSound' /\ SeedInv' /\ UnitInv'
    <2>1. ASSUME CallsSound, SeedInv, [OfficeNext]_officeVars PROVE SeedInv'
      BY <2>1, SeedsBesideOffice, SeedsGoOn, SeedBeside
    <2>2. ASSUME CallsSound, UnitInv, [OfficeNext]_officeVars PROVE UnitInv'
      BY <2>2, UnitsBesideOffice, UnitsGoOn, UnitBeside
    <2> QED
      BY <2>1, <2>2, OfficeCalls
  <1>3. SeedInv /\ UnitInv => ScriptsHold /\ SeedsTypeOK /\ UnitsTypeOK
    BY SeedInvIsTrue, UnitInvIsTrue DEF ScriptsHold
  <1> QED
    BY <1>1, <1>2, <1>3, PTL DEF OfficeSpec
===============================================================================
