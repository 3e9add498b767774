--------------------------------- MODULE Seeds ---------------------------------
(***************************************************************************)
(* The seeding of a database with the catalogue and a demo team, which is  *)
(* to be safe to run again: over what an interrupted one has left, over    *)
(* what was changed since, and beside another one.                         *)
(*                                                                         *)
(* Each row belongs to a step of the script, and is looked up by what it   *)
(* hangs on.  The model seeds one row of each kind: one track, one level,  *)
(* its two outcomes, one learner.  What a row says is left out, and with   *)
(* it that an upsert writes its row anew: titles to the outcome that now   *)
(* has the order, a learner's progress back to where the demo has it.      *)
(***************************************************************************)
EXTENDS Calls, FiniteSets, SequencesExt

VARIABLES
  sown,        \* rows: [step, of, active, completed], of: the rows it hangs on
  skilled,     \* the first outcome belongs to a skill
  seeded,      \* a seeding has ended since an assignment changed last
  sownBeside   \* two seedings have overlapped

seedVars == <<sown, skilled, seeded, sownBeside>>

-----------------------------------------------------------------------------
(* The script.  An upsert is one statement; a guarded and a loose step     *)
(* look for the row and create it when there is none, which a unique index *)
(* refuses for a guarded one if somebody else was quicker.                 *)

ScriptStep(name, kind, of) == [name |-> name, kind |-> kind, of |-> of]
Upsert(name, of) == ScriptStep(name, "upsert", of)
Guarded(name, of) == ScriptStep(name, "guarded", of)
Loose(name, of) == ScriptStep(name, "loose", of)

SeedDepartment == Upsert("department", {})
SeedTrack == Upsert("track", {})
SeedLevel == Upsert("level", {"track"})
SeedOutcomes == <<Guarded("discovery", {"level"}), Guarded("proposition", {"level"})>>
SeedCatalogue == <<SeedDepartment, SeedTrack, SeedLevel>> \o SeedOutcomes

\* Its own lookups find what the catalogue has, and the skill of the first outcome.
SeedSkill == ScriptStep("skill", "check", {"discovery"})
SeedPortalUser == Upsert("manager", {})
SeedTeam == Loose("team", {})
SeedLearner == Upsert("learner", {})
SeedExperience == Guarded("experience", {"learner"})
SeedContentItem == Loose("playbook", {"discovery"})
SeedMediaAsset == Loose("media", {"playbook"})
SeedQuestionBank == Guarded("bank", {"discovery"})
SeedQuestion == Loose("question", {"bank"})
SeedRubric == Loose("rubric", {"discovery"})
SeedCriterion == Loose("criterion", {"rubric"})
SeedAssignment == Loose("assignment", {"learner", "level"})
SeedLearnerOutcome == Upsert("progress", {"learner", "discovery", "assignment"})
SeedTrainingPlan == Loose("plan", {"learner"})
SeedSession == Loose("session", {"plan"})
SeedComplete == ScriptStep("complete", "update", {"session"})
SeedSessionContent == Loose("content", {"session", "playbook"})
SeedAssessment == Loose("assessment", {"session"})
SeedDemo == <<SeedSkill, SeedPortalUser, SeedTeam, SeedLearner, SeedExperience, SeedContentItem, SeedMediaAsset,
              SeedQuestionBank, SeedQuestion, SeedRubric, SeedCriterion, SeedAssignment, SeedLearnerOutcome,
              SeedTrainingPlan, SeedSession, SeedComplete, SeedSessionContent, SeedAssessment>>
Script == SeedCatalogue \o SeedDemo

-----------------------------------------------------------------------------
(* What one seeding does to an empty database.                             *)

\* found[name]: the row that the step of this name has found or created.
RowFor(step, found) == [step |-> step.name, of |-> [p \in step.of |-> found[p]], active |-> TRUE, completed |-> FALSE]
WithFound(found, step, n) == [p \in DOMAIN found \cup {step.name} |-> IF p = step.name THEN n ELSE found[p]]
CompletedSown(n) == [sown EXCEPT ![n].completed = TRUE]
Makes(step) == step.kind \notin {"check", "update"}
SownBy(script) ==
  FoldLeft(LAMBDA so, step :
             IF Makes(step) THEN [rows |-> Append(so.rows, RowFor(step, so.found)),
                                  found |-> WithFound(so.found, step, Len(so.rows) + 1)]
             ELSE IF step.kind = "update" THEN [so EXCEPT !.rows[so.found["session"]].completed = TRUE]
             ELSE so,
           [rows |-> <<>>, found |-> [p \in {} |-> 0]], script).rows

\* Step by step: where its row comes, and which rows that one hangs on.
Place(i) == Cardinality({j \in 1 .. i : Makes(Script[j])})
PlaceOf(name) == Place(CHOOSE i \in DOMAIN Script : Makes(Script[i]) /\ Script[i].name = name)
Links(i) == [p \in Script[i].of |-> PlaceOf(p)]
\* However far it comes: the rows are those of its steps, and the session is completed once that step is done.
ASSUME SeedsAssumption == \A k \in 0 .. Len(Script) :
  LET rows == SownBy(SubSeq(Script, 1, k))
  IN /\ rows \in Seq({rows[n] : n \in DOMAIN rows}) /\ Len(rows) = Place(k)
     /\ \A n \in 1 .. Len(rows) : \E i \in 1 .. k :
          /\ Makes(Script[i]) /\ Place(i) = n
          /\ rows[n] = [step |-> Script[i].name, of |-> Links(i), active |-> TRUE,
                        completed |-> Script[i].name = "session" /\ \E j \in 1 .. k : Script[j].kind = "update"]

\* start.step: an earlier seeding was cut short after this many steps.
SeedsInit(start) ==
  /\ sown = SownBy(SubSeq(Script, 1, start.step)) /\ skilled = start.skilled
  /\ seeded = FALSE /\ sownBeside = FALSE

\* Mutant: content is put into the session without a look at what is there.
MatchingUnlessContent(step, found) ==
  {n \in 1 .. Len(sown) : /\ step.name # "content" /\ sown[n].step = step.name
                          /\ sown[n].of = RowFor(step, found).of /\ sown[n].active}
Matching(step, found) ==
  {n \in 1 .. Len(sown) : /\ sown[n].step = step.name /\ sown[n].of = RowFor(step, found).of
                          /\ sown[n].active}
Sown(c) == call[c].seen
SeedStepOf(c) == Script[Sown(c).at]
Advance(c, found) == [at |-> Sown(c).at + 1, found |-> found]

SeedNow(c) ==
  /\ Begin(c, "seed", "step", None, [at |-> 1, found |-> [p \in {} |-> 0]])
  /\ sownBeside' = (sownBeside \/ \E d \in Callers : call[d].op = "seed" /\ call[d].pc # "idle")
  /\ UNCHANGED <<sown, skilled, seeded>>
\* The row is there, or one statement sees to it.
FindSown(c) ==
  /\ At(c, "seed", "step") /\ Sown(c).at <= Len(Script) /\ Makes(SeedStepOf(c))
  /\ \E n \in Matching(SeedStepOf(c), Sown(c).found) :
       Goto(c, "step", Advance(c, WithFound(Sown(c).found, SeedStepOf(c), n)), {})
  /\ UNCHANGED seedVars
MissSown(c) ==
  /\ At(c, "seed", "step") /\ Sown(c).at <= Len(Script) /\ SeedStepOf(c).kind \in {"guarded", "loose"}
  /\ Matching(SeedStepOf(c), Sown(c).found) = {}
  /\ Goto(c, "create", Sown(c), {})
  /\ UNCHANGED seedVars
Sow(c) ==
  /\ LET found == Sown(c).found
     IN /\ sown' = Append(sown, RowFor(SeedStepOf(c), found))
        /\ Goto(c, "step", Advance(c, WithFound(found, SeedStepOf(c), Len(sown) + 1)), {})
  /\ UNCHANGED <<skilled, seeded, sownBeside>>
UpsertSown(c) ==
  /\ At(c, "seed", "step") /\ Sown(c).at <= Len(Script) /\ SeedStepOf(c).kind = "upsert"
  /\ Matching(SeedStepOf(c), Sown(c).found) = {}
  /\ Sow(c)
CreateSown(c) ==
  /\ At(c, "seed", "create")
  /\ IF SeedStepOf(c).kind = "guarded" /\ Matching(SeedStepOf(c), Sown(c).found) # {}
     THEN End(c, "clash", {}) /\ UNCHANGED seedVars
     ELSE Sow(c)
\* Without a skill there is nothing to hang the demo's content on: the seeding fails.
CheckSkill(c) ==
  /\ At(c, "seed", "step") /\ Sown(c).at <= Len(Script) /\ SeedStepOf(c).kind = "check"
  /\ IF skilled THEN Goto(c, "step", Advance(c, Sown(c).found), {}) ELSE End(c, "refused", {})
  /\ UNCHANGED seedVars
CompleteSown(c) ==
  /\ At(c, "seed", "step") /\ Sown(c).at <= Len(Script) /\ SeedStepOf(c).kind = "update"
  /\ sown' = CompletedSown(Sown(c).found["session"])
  /\ Goto(c, "step", Advance(c, Sown(c).found), {})
  /\ UNCHANGED <<skilled, seeded, sownBeside>>
EndSeed(c) ==
  /\ At(c, "seed", "step") /\ Sown(c).at > Len(Script)
  /\ seeded' = TRUE
  /\ End(c, None, {})
  /\ UNCHANGED <<sown, skilled, sownBeside>>
CrashSeed(c) ==
  /\ call[c].op = "seed" /\ call[c].pc # "idle" /\ "crashSeed" \in DOMAIN left /\ left["crashSeed"] > 0
  /\ left' = [left EXCEPT !["crashSeed"] = @ - 1]
  /\ call' = [call EXCEPT ![c] = Idle]
  /\ UNCHANGED <<crossed, seedVars>>

\* An administrator gives the outcome a skill; a manager assigns the learner another level.
GiveSkill(c) ==
  /\ Atomically(c, "giveSkill", {}) /\ \E n \in 1 .. Len(sown) : sown[n].step = "discovery"
  /\ skilled' = TRUE
  /\ UNCHANGED <<sown, seeded, sownBeside>>
Reassign(c) ==
  /\ Atomically(c, "reassign", {})
  /\ \E n \in 1 .. Len(sown) : sown[n].step = "assignment" /\ sown' = [sown EXCEPT ![n].active = FALSE]
  /\ seeded' = FALSE
  /\ UNCHANGED <<skilled, sownBeside>>

SeedStep(c) ==
  \/ SeedNow(c) \/ FindSown(c) \/ MissSown(c) \/ UpsertSown(c) \/ CreateSown(c) \/ CheckSkill(c)
  \/ CompleteSown(c) \/ EndSeed(c) \/ CrashSeed(c) \/ GiveSkill(c) \/ Reassign(c)

-----------------------------------------------------------------------------
(* Properties.                                                             *)

\* A row hangs on rows that were there before it.
SeedsTypeOK == \A n \in 1 .. Len(sown) : \A p \in DOMAIN sown[n].of : sown[n].of[p] \in 1 .. n - 1

\* prisma/seed/index.ts:7: seedings that do not overlap, each over whatever the one before has
\* left, end with the rows of one seeding of an empty database, unless an assignment was
\* changed, and never with two rows that answer to one lookup; nor does any clash.
SeedsConverge == ~sownBeside =>
  /\ \A n, m \in 1 .. Len(sown) :
       n # m /\ sown[n].active /\ sown[m].active => sown[n].step # sown[m].step \/ sown[n].of # sown[m].of
  /\ seeded /\ (\A n \in 1 .. Len(sown) : sown[n].active) => sown = SownBy(Script)
  /\ \A c \in Callers : call[c].op = "seed" => call[c].result # "clash"
=============================================================================
