------------------------------ MODULE Catalogue ------------------------------
(***************************************************************************)
(* The training catalogue of one organization, departments, tracks with    *)
(* their levels, skills and outcomes, and what learners hold of it: their  *)
(* assignments with a progress row per outcome.  Calls says how calls run  *)
(* beside each other.                                                      *)
(*                                                                         *)
(* The database contributes unique columns (a track's key, the order of a  *)
(* level in its track and of an outcome in its level), foreign keys that   *)
(* forbid a deletion or clear a nullable column, and transactions.         *)
(*                                                                         *)
(* Abstracted: content, rubrics and sessions that also hold on to these    *)
(* rows, plan templates, a row's texts, and departments' names.            *)
(***************************************************************************)
EXTENDS Calls, SequencesExt, FiniteSets, FiniteSetsExt, TLC

CONSTANTS
  Departments,
  Tracks,         \* ids of tracks; Levels, Outcomes and Skills likewise
  Levels,
  Outcomes,
  Skills,
  Learners,
  Assignments,    \* ids of assignments
  Cases           \* what is there at the start, and what is asked for

VARIABLES
  case,           \* the Case of this behaviour
  department,     \* department[d]: "on", "off" or "gone"
  track,          \* track[t]: [dept, en, ar, key, on] or None
  row,            \* row[r], of a level or an outcome: [of, order, on, skill] or None
  skill,          \* skill[s]: [level] or None
  assignment,     \* assignment[a]: [learner, track, level, active] or None
  progress,       \* progress[a][o]: [status, custom] or None
  asked,          \* asked[p]: the last order granted to the rows of p
  deleted,        \* ids of rows that are gone; an id is never used again
  raced           \* tracks and learners whose last write was made on stale reads

structure == <<department, track, row, skill>>
holdings == <<assignment, progress>>
vars == <<case, structure, holdings, asked, deleted, raced, callVars>>

Rows == Levels \cup Outcomes
Parents == Tracks \cup Levels
Texts == Seq(Nat)
Statuses == {"NOT_STARTED", "IN_PROGRESS", "ACHIEVED", "NOT_ACHIEVED"}

\* The tables: what a row may hold.
TrackRow == [dept : Departments, en : Texts, ar : Texts, key : Texts \X Nat, on : BOOLEAN]
ListRow == [of : Parents, order : Nat, on : BOOLEAN, skill : Skills \cup {None}]
SkillRow == [level : Levels \cup {None}]
AssignmentRow == [learner : Learners, track : Tracks, level : Levels, active : BOOLEAN]
ProgressRow == [status : Statuses, custom : BOOLEAN]
Tables(tr, ro, sk, as, pr) ==
  /\ tr \in [Tracks -> TrackRow \cup {None}] /\ ro \in [Rows -> ListRow \cup {None}]
  /\ sk \in [Skills -> SkillRow \cup {None}] /\ as \in [Assignments -> AssignmentRow \cup {None}]
  /\ pr \in [Assignments -> [Outcomes -> ProgressRow \cup {None}]]

\* Foreign keys lead to a row, and a learner is on a level of the track.
Linked(tr, ro, sk, as, pr) ==
  /\ \A l \in Levels : ro[l] # None => ro[l].of \in Tracks /\ tr[ro[l].of] # None
  /\ \A o \in Outcomes : ro[o] # None => ro[o].of \in Levels /\ ro[ro[o].of] # None
  /\ \A r \in Rows : ro[r] # None /\ ro[r].skill # None => sk[ro[r].skill] # None
  /\ \A s \in Skills : sk[s] # None /\ sk[s].level # None => ro[sk[s].level] # None
  /\ \A a \in Assignments : as[a] # None => ro[as[a].level] # None /\ ro[as[a].level].of = as[a].track
  /\ \A a \in Assignments, o \in Outcomes : pr[a][o] # None => as[a] # None /\ ro[o] # None
\* The order is unique in its list.
OrdersDiffer(ro) == \A q, r \in Rows :
  q # r /\ ro[q] # None /\ ro[r] # None /\ ro[q].of = ro[r].of => ro[q].order # ro[r].order
\* What the wizard is given of a level: how many skills, and each outcome's skill.
Shapes == {shape \in [skills : Nat, skillOf : Seq(Nat)] :
             \A j \in DOMAIN shape.skillOf : shape.skillOf[j] \in 1 .. shape.skills}

ASSUME CatalogueAssumption ==
  /\ IsFiniteSet(Tracks) /\ IsFiniteSet(Levels) /\ IsFiniteSet(Outcomes) /\ IsFiniteSet(Assignments)
  /\ Tracks \cap Rows = {} /\ Levels \cap Outcomes = {} /\ Skills \cap (Tracks \cup Rows) = {} /\ Learners \cap Tracks = {}
  /\ None \notin TrackRow \cup ListRow \cup SkillRow \cup AssignmentRow \cup ProgressRow
  /\ None \notin Departments \cup Tracks \cup Rows \cup Skills \cup {"clash", "referenced", "missing"}
\* A behaviour starts with tables as the schema wants them, where nothing has raced yet.
ASSUME CasesAssumption == \A k \in Cases :
  /\ Tables(k.track, k.row, k.skill, k.assignment, k.progress)
  /\ Linked(k.track, k.row, k.skill, k.assignment, k.progress) /\ OrdersDiffer(k.row)
  /\ \A t, u \in Tracks : t # u /\ k.track[t] # None /\ k.track[u] # None /\ k.track[t].dept = k.track[u].dept =>
       k.track[t].en # k.track[u].en /\ k.track[t].ar # k.track[u].ar
  /\ \A a, b \in Assignments : a # b /\ k.assignment[a] # None /\ k.assignment[b] # None =>
       ~(k.assignment[a].active /\ k.assignment[b].active /\ k.assignment[a].learner = k.assignment[b].learner)
  /\ k.names \subseteq [en : Texts, ar : Texts] /\ k.shapes \subseteq Shapes

-----------------------------------------------------------------------------
(* The rows.                                                               *)

Siblings(p) == {r \in Rows : row[r] # None /\ row[r].of = p}
InOrder(S) == [i \in 1 .. Cardinality(S) |->
  CHOOSE r \in S : Cardinality({q \in S : row[q].order < row[r].order}) = i - 1]
Listing == [p \in Parents |-> InOrder(Siblings(p))]
Used(p) == {row[r].order : r \in Siblings(p)}
There(p) == IF p \in Tracks THEN track[p] # None ELSE row[p] # None

\* Mutant: the number of rows, which an order below it may already have.
CountedOrder(p) == Cardinality(Siblings(p))
\* LevelService.create, OutcomeService.create and the copy of an outcome: max + 1.
NextOrder(p) == Max({-1} \cup Used(p)) + 1
\* PlanSnapshotService.nextOutcomeOrder: the same, but never 0.
NextPlanOrder(p) == Max({0} \cup Used(p)) + 1

LevelsOf(t) == {l \in Levels : row[l] # None /\ row[l].of = t}
OutcomesOf(t) == {o \in Outcomes : row[o] # None /\ row[o].of \in LevelsOf(t)}
Present == {t \in Tracks : track[t] # None} \cup {r \in Rows : row[r] # None} \cup {s \in Skills : skill[s] # None}
Assigned == {a \in Assignments : assignment[a] # None}
Holders(o) == {a \in Assigned : progress[a][o] # None}
Active(learner) == {a \in Assigned : assignment[a].learner = learner /\ assignment[a].active}

\* Mutant: assignments that were superseded do not count.
HasCurrentPlan(t) == \E a \in Assigned : assignment[a].track = t /\ assignment[a].active
\* TrackRepository.hasLearnerPlan, whose plan templates are left out.
HasLearnerPlan(t) == \E a \in Assigned : assignment[a].track = t

\* TrackRepository.findByNameInDepartment: a track there with one of the two names.
Clash(d, en, ar, self) == \E t \in Tracks \ {self} :
  track[t] # None /\ track[t].dept = d /\ (track[t].en = en \/ track[t].ar = ar)
KeyTaken(key) == \E t \in Tracks : track[t] # None /\ track[t].key = key

\* deriveCopyName: "<name> (copy)", "<name> (copy 2)", ...; a name is a sequence
\* of a base and the numbers of the copies it is of.
CopyName(d, name, field) ==
  LET taken == {track[t][field] : t \in {u \in Tracks : track[u] # None /\ track[u].dept = d}}
      k == CHOOSE n \in 1 .. Cardinality(taken) + 1 :
             /\ Append(name, n) \notin taken
             /\ \A m \in 1 .. n - 1 : Append(name, m) \in taken
  IN Append(name, k)
\* generateUniqueTrackKey: the name's slug, with the first number that is free.
DerivedKey(en) == <<en, CHOOSE n \in 1 .. Cardinality(Tracks) + 1 :
  ~KeyTaken(<<en, n>>) /\ \A m \in 1 .. n - 1 : KeyTaken(<<en, m>>)>>

Init ==
  /\ case \in Cases
  /\ department = [d \in Departments |-> "on"]
  /\ track = case.track /\ row = case.row /\ skill = case.skill
  /\ assignment = case.assignment /\ progress = case.progress
  /\ asked = [p \in Parents |-> <<>>]
  /\ deleted = {} /\ raced = {}
  /\ CallsInit(case.calls)

Mark(x, stale) == raced' = IF stale THEN raced \cup {x} ELSE raced \ {x}
Free(f, ids) == {x \in ids \ deleted : f[x] = None}
\* A bound: nothing is created once its ids are used up.
Room(f, ids, n) == \E s \in [1 .. n -> Free(f, ids)] : IsInjective(s)
\* n ids that are free in f, in a fixed order.
Fresh(f, ids, n) == CHOOSE s \in [1 .. n -> Free(f, ids)] : IsInjective(s)
Enumerate(S) == CHOOSE s \in [1 .. Cardinality(S) -> S] : IsInjective(s)

-----------------------------------------------------------------------------
(* Departments and tracks.                                                 *)

\* resolveDepartmentId: a disabled department takes no new work.
Takes(d) == department[d] = "on"
Renaming == <<"names", None>>

\* Mutant: the Arabic name is not looked at.
CreateTrackByEnglishName(c) ==
  /\ \E d \in Departments, n \in case.names, k \in 1 .. 2 :
       /\ ~KeyTaken(<<n.en, k>>) /\ Takes(d) /\ ~Clash(d, n.en, None, None)
       /\ Begin(c, "createTrack", "write", [dept |-> d, en |-> n.en, ar |-> n.ar, key |-> <<n.en, k>>], None)
  /\ UNCHANGED <<case, deleted, structure, holdings, asked, raced>>
CreateTrack(c) ==
  /\ \E d \in Departments, n \in case.names, k \in 1 .. 2 :
       /\ ~KeyTaken(<<n.en, k>>) /\ Takes(d) /\ ~Clash(d, n.en, n.ar, None)
       /\ Begin(c, "createTrack", "write", [dept |-> d, en |-> n.en, ar |-> n.ar, key |-> <<n.en, k>>], None)
  /\ UNCHANGED <<case, deleted, structure, holdings, asked, raced>>
\* The wizard: a track with a level, its skills and their outcomes.
CreateFull(c) ==
  /\ \E d \in Departments, n \in case.names, shape \in case.shapes :
       /\ Takes(d) /\ ~Clash(d, n.en, n.ar, None)
       /\ Begin(c, "createFull", "write", [dept |-> d, en |-> n.en, ar |-> n.ar,
                                          key |-> DerivedKey(n.en), shape |-> shape], None)
  /\ UNCHANGED <<case, deleted, structure, holdings, asked, raced>>

NewTrack(arg, dept, on) == [dept |-> dept, en |-> arg.en, ar |-> arg.ar, key |-> arg.key, on |-> on]
NewTrackProblem(arg) == FirstOf(<<Problem(KeyTaken(arg.key), "clash"),
                                  Problem(department[arg.dept] = "gone", "referenced")>>)
InsertTrack(c) ==
  /\ At(c, "createTrack", "write")
  /\ LET arg == call[c].arg
         t == Fresh(track, Tracks, 1)[1]
         result == NewTrackProblem(arg)
     IN /\ End(c, result, {Renaming})
        /\ IF result = None
           THEN /\ Room(track, Tracks, 1)
                /\ track' = [track EXCEPT ![t] = NewTrack(arg, arg.dept, TRUE)] /\ Mark(t, Stale(c, Renaming))
           ELSE UNCHANGED <<track, raced>>
  /\ UNCHANGED <<case, deleted, department, row, skill, holdings, asked>>

\* The order of the j-th outcome of the level: one counter for the whole level.
OrderInLevel(shape, j) == j

InsertFull(c) ==
  /\ At(c, "createFull", "write")
  /\ LET arg == call[c].arg
         skillOf == arg.shape.skillOf
         n == Len(skillOf)
         t == Fresh(track, Tracks, 1)[1]
         l == Fresh(row, Levels, 1)[1]
         ss == Fresh(skill, Skills, arg.shape.skills)
         os == Fresh(row, Outcomes, n)
         outcome(j) == [of |-> l, order |-> OrderInLevel(arg.shape, j), on |-> TRUE, skill |-> ss[skillOf[j]]]
         result == FirstOf(<<NewTrackProblem(arg),
           Problem(\E i, j \in 1 .. n : i # j /\ outcome(i).order = outcome(j).order, "clash")>>)
     IN /\ End(c, result, {Renaming})
        /\ IF result = None
           THEN /\ Room(track, Tracks, 1) /\ Room(row, Levels, 1)
                /\ Room(skill, Skills, arg.shape.skills) /\ Room(row, Outcomes, n)
                /\ track' = [track EXCEPT ![t] = NewTrack(arg, arg.dept, TRUE)]
                /\ row' = [r \in Rows |->
                     IF r = l THEN [of |-> t, order |-> 1, on |-> TRUE, skill |-> None]
                     ELSE IF r \in ToSet(os) THEN outcome(CHOOSE j \in 1 .. n : os[j] = r) ELSE row[r]]
                /\ skill' = [s \in Skills |-> IF s \in ToSet(ss) THEN [level |-> l] ELSE skill[s]]
                /\ Mark(t, Stale(c, Renaming))
           ELSE UNCHANGED <<track, row, skill, raced>>
  /\ UNCHANGED <<case, deleted, department, holdings, asked>>

Given(new, old) == IF new = None THEN old ELSE new
\* What an update may carry: a move, an English name, or both names.
Edits ==
  {[dept |-> d, en |-> None, ar |-> None] : d \in Departments}
    \cup {[dept |-> None, en |-> n.en, ar |-> None] : n \in case.names}
    \cup {[dept |-> None, en |-> n.en, ar |-> n.ar] : n \in case.names}
UpdateTrack(c) ==
  /\ \E t \in Tracks, edit \in Edits :
       /\ track[t] # None
       /\ edit.dept # None => Takes(edit.dept)
       /\ ~Clash(Given(edit.dept, track[t].dept), Given(edit.en, track[t].en),
                 Given(edit.ar, track[t].ar), t)
       /\ Begin(c, "updateTrack", "write", [track |-> t, edit |-> edit], None)
  /\ UNCHANGED <<case, deleted, structure, holdings, asked, raced>>
Edited(old, edit) == [dept |-> Given(edit.dept, old.dept), en |-> Given(edit.en, old.en), ar |-> Given(edit.ar, old.ar),
                      key |-> old.key, on |-> old.on]
SaveTrack(c) ==
  /\ At(c, "updateTrack", "write")
  /\ LET t == call[c].arg.track
         edit == call[c].arg.edit
         result == FirstOf(<<Problem(track[t] = None, "missing"),
                             Problem(edit.dept # None /\ department[edit.dept] = "gone", "referenced")>>)
     IN /\ End(c, result, {Renaming})
        /\ IF result = None
           THEN /\ track' = [track EXCEPT ![t] = Edited(@, edit)]
                /\ Mark(t, Stale(c, Renaming))
           ELSE UNCHANGED <<track, raced>>
  /\ UNCHANGED <<case, deleted, department, row, skill, holdings, asked>>

\* TrackService.duplicate; the derived names are free, so its own check passes.
CopyTrack(c) ==
  /\ \E t \in Tracks :
       /\ track[t] # None
       /\ LET en == CopyName(track[t].dept, track[t].en, "en")
              ar == CopyName(track[t].dept, track[t].ar, "ar")
          IN /\ ~KeyTaken(<<en, 1>>)
             /\ Begin(c, "copyTrack", "write", [track |-> t, en |-> en, ar |-> ar, key |-> <<en, 1>>], None)
  /\ UNCHANGED <<case, deleted, structure, holdings, asked, raced>>
\* The copy lands, disabled, in the department that the track is in by now.
InsertCopy(c) ==
  /\ At(c, "copyTrack", "write")
  /\ LET arg == call[c].arg
         result == FirstOf(<<Problem(track[arg.track] = None, "missing"), Problem(KeyTaken(arg.key), "clash")>>)
     IN /\ End(c, result, {Renaming})
        /\ IF result = None
           THEN LET t == Fresh(track, Tracks, 1)[1]
                    ls == Enumerate(LevelsOf(arg.track))
                    os == Enumerate(OutcomesOf(arg.track))
                    newLs == Fresh(row, Levels, Len(ls))
                    newOs == Fresh(row, Outcomes, Len(os))
                    at(s, x) == CHOOSE i \in DOMAIN s : s[i] = x
                IN /\ Room(track, Tracks, 1) /\ Room(row, Levels, Len(ls)) /\ Room(row, Outcomes, Len(os))
                   /\ track' = [track EXCEPT ![t] = NewTrack(arg, track[arg.track].dept, FALSE)]
                   /\ row' = [r \in Rows |->
                        IF r \in ToSet(newLs) THEN [row[ls[at(newLs, r)]] EXCEPT !.of = t]
                        ELSE IF r \in ToSet(newOs)
                        THEN LET o == os[at(newOs, r)]
                             IN [row[o] EXCEPT !.of = newLs[at(ls, row[o].of)], !.skill = None]
                        ELSE row[r]]
                   /\ Mark(t, Stale(c, Renaming))
           ELSE UNCHANGED <<track, row, raced>>
  /\ UNCHANGED <<case, deleted, department, skill, holdings, asked>>

DeleteTrack(c) ==
  /\ \E t \in Tracks : track[t] # None /\ ~HasLearnerPlan(t) /\ Begin(c, "deleteTrack", "write", t, None)
  /\ UNCHANGED <<case, deleted, structure, holdings, asked, raced>>
\* deleteDeep: the track with all it owns, or nothing when a learner holds some of it.
HeldByAssignment(t) == \E a \in Assigned : assignment[a].level \in LevelsOf(t)
HeldByProgress(t) == \E o \in OutcomesOf(t) : Holders(o) # {}
DeleteTree(c) ==
  /\ At(c, "deleteTrack", "write")
  /\ LET t == call[c].arg
         result == FirstOf(<<Problem(track[t] = None, "missing"),
                             Problem(HeldByAssignment(t) \/ HeldByProgress(t), "referenced")>>)
         gone == LevelsOf(t) \cup OutcomesOf(t)
         skills == {s \in Skills : skill[s] # None /\ skill[s].level \in LevelsOf(t)}
     IN /\ End(c, result, {})
        /\ IF result = None
           THEN /\ track' = [track EXCEPT ![t] = None]
                /\ row' = [r \in Rows |-> IF r \in gone THEN None
                     ELSE IF row[r] # None /\ row[r].skill \in skills THEN [row[r] EXCEPT !.skill = None]
                     ELSE row[r]]
                /\ skill' = [s \in Skills |-> IF s \in skills THEN None ELSE skill[s]]
                /\ deleted' = deleted \cup gone \cup skills \cup {t}
                /\ Mark(t, FALSE)
           ELSE UNCHANGED <<track, row, skill, deleted, raced>>
  /\ UNCHANGED <<case, department, holdings, asked>>

TracksIn(d) == {t \in Tracks : track[t] # None /\ track[t].dept = d}
DeleteDepartment(c) ==
  /\ \E d \in Departments : department[d] # "gone" /\ TracksIn(d) = {} /\ Begin(c, "deleteDepartment", "write", d, None)
  /\ UNCHANGED <<case, deleted, structure, holdings, asked, raced>>
RemoveDepartment(c) ==
  /\ At(c, "deleteDepartment", "write")
  /\ LET d == call[c].arg
         result == FirstOf(<<Problem(department[d] = "gone", "missing"), Problem(TracksIn(d) # {}, "referenced")>>)
     IN /\ End(c, result, {})
        /\ department' = IF result = None THEN [department EXCEPT ![d] = "gone"] ELSE department
  /\ UNCHANGED <<case, deleted, track, row, skill, holdings, asked, raced>>

\* setEnabled: a write of one column of one row.
ToggleDepartment(c) ==
  /\ \E d \in Departments :
       /\ department[d] # "gone"
       /\ department' = [department EXCEPT ![d] = IF @ = "on" THEN "off" ELSE "on"]
  /\ Atomically(c, "toggle", {})
  /\ UNCHANGED <<case, deleted, track, row, skill, holdings, asked, raced>>
ToggleTrack(c) ==
  /\ \E t \in Tracks : track[t] # None /\ track' = [track EXCEPT ![t].on = ~@]
  /\ Atomically(c, "toggle", {})
  /\ UNCHANGED <<case, deleted, department, row, skill, holdings, asked, raced>>
ToggleRow(c, rows) ==
  /\ \E r \in rows :
       /\ row[r] # None
       /\ row' = [row EXCEPT ![r].on = ~@]
       /\ Atomically(c, "toggle", {<<"outcomes", row[r].of>>})
  /\ UNCHANGED <<case, deleted, department, track, skill, holdings, asked, raced>>
ToggleLevel(c) == ToggleRow(c, Levels)
ToggleOutcome(c) == ToggleRow(c, Outcomes)

-----------------------------------------------------------------------------
(* Levels, outcomes and skills.                                            *)

Inserts == {"createLevel", "createOutcome", "copyOutcome", "addSkill", "addOutcome"}
NewRow(of, on, owner) == [of |-> of, on |-> on, skill |-> owner]
RowAt(new, order) == [of |-> new.of, order |-> order, on |-> new.on, skill |-> new.skill]

\* The siblings are read, the order is taken from them; the insert comes later.
AnySkill == {None} \cup {s \in Skills : skill[s] # None}
CreateLevel(c) ==
  /\ \E t \in Tracks : track[t] # None /\ Begin(c, "createLevel", "write", NewRow(t, TRUE, None), NextOrder(t))
  /\ UNCHANGED <<case, deleted, structure, holdings, asked, raced>>
CreateOutcome(c) ==
  /\ \E l \in Levels, s \in AnySkill :
       row[l] # None /\ Begin(c, "createOutcome", "write", NewRow(l, TRUE, s), NextOrder(l))
  /\ UNCHANGED <<case, deleted, structure, holdings, asked, raced>>
\* A copy starts disabled.
CopyOutcome(c) ==
  /\ \E o \in Outcomes :
       /\ row[o] # None
       /\ Begin(c, "copyOutcome", "write", NewRow(row[o].of, FALSE, row[o].skill), NextOrder(row[o].of))
  /\ UNCHANGED <<case, deleted, structure, holdings, asked, raced>>
\* PlanSnapshotService.addOutcome: on the level of the plan's assignment.
AddOutcome(c) ==
  /\ \E a \in Assigned, s \in AnySkill :
       LET l == assignment[a].level
       IN Begin(c, "addOutcome", "write", NewRow(l, FALSE, s), NextPlanOrder(l))
  /\ UNCHANGED <<case, deleted, structure, holdings, asked, raced>>
\* PlanSnapshotService.addSkill: a skill of no level, and then an outcome of it on
\* the level of the plan's assignment.
AddSkill(c) ==
  /\ \E a \in Assigned :
       LET s == Fresh(skill, Skills, 1)[1]
           l == assignment[a].level
       IN /\ Room(skill, Skills, 1)
          /\ skill' = [skill EXCEPT ![s] = [level |-> None]]
          /\ Begin(c, "addSkill", "write", NewRow(l, FALSE, s), NextPlanOrder(l))
  /\ UNCHANGED <<case, deleted, department, track, row, holdings, asked, raced>>
InsertRow(c) ==
  /\ \E op \in Inserts : At(c, op, "write")
  /\ LET arg == call[c].arg
         ids == IF call[c].op = "createLevel" THEN Levels ELSE Outcomes
         r == Fresh(row, ids, 1)[1]
         result == FirstOf(<<Problem(~There(arg.of), "referenced"),
                             Problem(arg.skill # None /\ skill[arg.skill] = None, "referenced"),
                             Problem(call[c].seen \in Used(arg.of), "clash")>>)
         inserting == <<"insert", arg.of>>
     IN /\ End(c, result, {inserting, <<"outcomes", arg.of>>}
                            \cup IF Stale(c, inserting) THEN {<<"late", arg.of>>} ELSE {})
        /\ IF result = None THEN Room(row, ids, 1) /\ row' = [row EXCEPT ![r] = RowAt(arg, call[c].seen)]
           ELSE UNCHANGED row
  /\ UNCHANGED <<case, deleted, department, track, skill, holdings, asked, raced>>

\* hasChildren of the two repositories.
LevelInUse(l) == Siblings(l) # {} \/ \E a \in Assigned : assignment[a].level = l
\* Mutant: what a superseded assignment has of it does not count.
OutcomeInUseNow(o) == \E a \in Holders(o) : assignment[a].active
OutcomeInUse(o) == Holders(o) # {}
InUse(r) == IF r \in Levels THEN LevelInUse(r) ELSE OutcomeInUse(r)
DeleteRow(c) ==
  /\ \E r \in Rows :
       /\ row[r] # None /\ ~InUse(r)
       /\ Begin(c, IF r \in Levels THEN "deleteLevel" ELSE "deleteOutcome", "write", r, None)
  /\ UNCHANGED <<case, deleted, structure, holdings, asked, raced>>
RemoveRow(c) ==
  /\ At(c, "deleteLevel", "write") \/ At(c, "deleteOutcome", "write")
  /\ LET r == call[c].arg
         result == FirstOf(<<Problem(row[r] = None, "missing"), Problem(InUse(r), "referenced")>>)
     IN /\ End(c, result, {})
        /\ row' = IF result = None THEN [row EXCEPT ![r] = None] ELSE row
        /\ deleted' = IF result = None THEN deleted \cup {r} ELSE deleted
        /\ skill' = IF result = None
                    THEN [s \in Skills |-> IF skill[s] # None /\ skill[s].level = r THEN [level |-> None] ELSE skill[s]]
                    ELSE skill
  /\ UNCHANGED <<case, department, track, holdings, asked, raced>>

\* A request lists rows of the parent, each at most once.
Requests(p) == {s \in UNION {[1 .. n -> Siblings(p)] : n \in 1 .. Cardinality(Siblings(p))} : IsInjective(s)}
Exactly(p, s) == Len(s) = Cardinality(Siblings(p)) /\ ToSet(s) \subseteq Siblings(p)
Reorder(c) ==
  /\ \E p \in Parents :
       /\ There(p)
       /\ \E s \in Requests(p) : Exactly(p, s) /\ Begin(c, "reorder", "write", [of |-> p, order |-> s], None)
  /\ UNCHANGED <<case, deleted, structure, holdings, asked, raced>>

\* First all rows go past any order in use, then each to its place: only a row
\* that the request does not list can be in the way.
MeetsUnlisted(p, s) == \E q \in Siblings(p) \ ToSet(s) : row[q].order < Len(s)
MoveRows(c) ==
  /\ At(c, "reorder", "write")
  /\ LET p == call[c].arg.of
         s == call[c].arg.order
         result == FirstOf(<<Problem(\E i \in DOMAIN s : row[s[i]] = None, "missing"),
                             Problem(MeetsUnlisted(p, s), "clash")>>)
     IN /\ End(c, result, {<<"reorder", p>>})
        /\ IF result = None
           THEN /\ row' = [r \in Rows |-> IF r \in ToSet(s)
                          THEN [row[r] EXCEPT !.order = (CHOOSE i \in DOMAIN s : s[i] = r) - 1] ELSE row[r]]
                /\ asked' = [asked EXCEPT ![p] = s]
           ELSE UNCHANGED <<row, asked>>
  /\ UNCHANGED <<case, deleted, department, track, skill, holdings, raced>>

\* SkillService's create, duplicate and update: a skill on a level, on none, or moved.
CreateSkill(c) ==
  /\ \E l \in {None} \cup {x \in Levels : row[x] # None}, s \in {None} \cup {x \in Skills : skill[x] # None} :
       Begin(c, "createSkill", "write", [level |-> l, skill |-> s], None)
  /\ UNCHANGED <<case, deleted, structure, holdings, asked, raced>>
SaveSkill(c) ==
  /\ At(c, "createSkill", "write")
  /\ LET l == call[c].arg.level
         old == call[c].arg.skill
         s == IF old = None THEN Fresh(skill, Skills, 1)[1] ELSE old
         result == FirstOf(<<Problem(l # None /\ row[l] = None, "referenced"),
                             Problem(old # None /\ skill[old] = None, "missing")>>)
     IN /\ End(c, result, {})
        /\ result = None /\ old = None => Room(skill, Skills, 1)
        /\ skill' = IF result = None THEN [skill EXCEPT ![s] = [level |-> l]] ELSE skill
  /\ UNCHANGED <<case, deleted, department, track, row, holdings, asked, raced>>
\* SkillService.delete: its outcomes stay, without a skill.
DeleteSkill(c) ==
  /\ \E s \in Skills : skill[s] # None /\ Begin(c, "deleteSkill", "write", s, None)
  /\ UNCHANGED <<case, deleted, structure, holdings, asked, raced>>
RemoveSkill(c) ==
  /\ At(c, "deleteSkill", "write")
  /\ LET s == call[c].arg
         result == Problem(skill[s] = None, "missing")
     IN /\ End(c, result, {})
        /\ deleted' = deleted \cup {s}
        /\ skill' = [skill EXCEPT ![s] = None]
        /\ row' = [r \in Rows |-> IF row[r] # None /\ row[r].skill = s THEN [row[r] EXCEPT !.skill = None] ELSE row[r]]
  /\ UNCHANGED <<case, department, track, holdings, asked, raced>>

-----------------------------------------------------------------------------
(* Learners.                                                               *)

Enabled(l) == {o \in Outcomes : row[o] # None /\ row[o].of = l /\ row[o].on}
\* Mutant: only what the active assignment says is carried over.
AchievedNow(learner) ==
  {o \in Outcomes : \E a \in Active(learner) : progress[a][o] # None /\ progress[a][o].status = "ACHIEVED"}
AchievedEver(learner) ==
  {o \in Outcomes : \E a \in Assigned : /\ assignment[a].learner = learner
                                       /\ progress[a][o] # None /\ progress[a][o].status = "ACHIEVED"}
Assign(c) ==
  /\ \E learner \in Learners, l \in Levels :
       /\ row[l] # None /\ row[l].on /\ track[row[l].of].on
       /\ Begin(c, "assign", "retire", [learner |-> learner, track |-> row[l].of, level |-> l],
                [enabled |-> Enabled(l), achieved |-> AchievedEver(learner), retired |-> {}])
  /\ UNCHANGED <<case, deleted, structure, holdings, asked, raced>>
\* assignWithOutcomes: the transaction retires the assignments it sees ...
Retire(c) ==
  /\ At(c, "assign", "retire")
  /\ Goto(c, "write", [call[c].seen EXCEPT !.retired = Active(call[c].arg.learner)], {})
  /\ UNCHANGED <<case, deleted, structure, holdings, asked, raced>>
\* ... inserts its own, and commits.
CommitAssignment(c) ==
  /\ At(c, "assign", "write")
  /\ LET arg == call[c].arg
         seen == call[c].seen
         assigning == <<"assign", arg.learner>>
         achieving == <<"achieve", arg.learner>>
         result == Problem(row[arg.level] = None \/ \E o \in seen.enabled : row[o] = None, "referenced")
         a == Fresh(assignment, Assignments, 1)[1]
     IN /\ End(c, result, {assigning} \cup IF Stale(c, achieving) THEN {achieving} ELSE {})
        /\ IF result = None
           THEN /\ Room(assignment, Assignments, 1)
                /\ assignment' = [b \in Assignments |->
                     IF b = a THEN [learner |-> arg.learner, track |-> arg.track, level |-> arg.level, active |-> TRUE]
                     ELSE IF b \in seen.retired THEN [assignment[b] EXCEPT !.active = FALSE] ELSE assignment[b]]
                /\ progress' = [progress EXCEPT ![a] = [o \in Outcomes |->
                     IF o \in seen.enabled
                     THEN [status |-> IF o \in seen.achieved THEN "ACHIEVED" ELSE "NOT_STARTED", custom |-> FALSE]
                     ELSE None]]
                /\ Mark(arg.learner, Stale(c, assigning))
           ELSE UNCHANGED <<holdings, raced>>
  /\ UNCHANGED <<case, deleted, structure, asked>>

\* patchOutcomes, for one outcome: any of the organization may be added, only an
\* added one may be removed.
PatchOutcomes(c) ==
  /\ \E learner \in Learners, o \in Outcomes : \E a \in Active(learner) :
       \/ /\ row[o] # None /\ progress[a][o] = None
          /\ Begin(c, "addCustom", "write", [assignment |-> a, outcome |-> o], None)
       \/ /\ progress[a][o] # None /\ progress[a][o].custom
          /\ Begin(c, "removeCustom", "write", [assignment |-> a, outcome |-> o], None)
  /\ UNCHANGED <<case, deleted, structure, holdings, asked, raced>>
AddCustom(c) ==
  /\ At(c, "addCustom", "write")
  /\ LET a == call[c].arg.assignment
         o == call[c].arg.outcome
         result == FirstOf(<<Problem(row[o] = None, "referenced"), Problem(progress[a][o] # None, "clash")>>)
     IN /\ End(c, result, {})
        /\ progress' = IF result = None
                       THEN [progress EXCEPT ![a][o] = [status |-> "NOT_STARTED", custom |-> TRUE]] ELSE progress
  /\ UNCHANGED <<case, deleted, structure, assignment, asked, raced>>
RemoveCustom(c) ==
  /\ At(c, "removeCustom", "write")
  /\ LET a == call[c].arg.assignment
         o == call[c].arg.outcome
     IN /\ End(c, Problem(progress[a][o] = None, "missing"), {<<"achieve", assignment[a].learner>>})
        /\ progress' = [progress EXCEPT ![a][o] = None]
  /\ UNCHANGED <<case, deleted, structure, assignment, asked, raced>>
\* A session of the assignment's plan is completed; SessionCompletion says how.  A later
\* verdict may take back what an earlier one has given.
Achieve(c) ==
  /\ \E a \in Assigned, o \in Outcomes, status \in {"ACHIEVED", "IN_PROGRESS"} :
       /\ progress[a][o] # None /\ progress[a][o].status # status
       /\ progress' = [progress EXCEPT ![a][o].status = status]
       /\ Atomically(c, "achieve", {<<"achieve", assignment[a].learner>>})
  /\ UNCHANGED <<case, deleted, structure, assignment, asked, raced>>

-----------------------------------------------------------------------------
CatalogueCalls ==
  {"createTrack", "createFull", "copyTrack", "updateTrack", "deleteTrack", "deleteDepartment", "toggle", "createLevel",
   "createOutcome", "copyOutcome", "addOutcome", "addSkill", "createSkill", "deleteLevel", "deleteOutcome", "deleteSkill",
   "reorder", "assign", "addCustom", "removeCustom", "achieve"}
Step(c) ==
  \/ CreateTrack(c) \/ CreateFull(c) \/ InsertTrack(c) \/ InsertFull(c)
  \/ UpdateTrack(c) \/ SaveTrack(c) \/ CopyTrack(c) \/ InsertCopy(c)
  \/ DeleteTrack(c) \/ DeleteTree(c) \/ DeleteDepartment(c) \/ RemoveDepartment(c)
  \/ ToggleDepartment(c) \/ ToggleTrack(c) \/ ToggleLevel(c) \/ ToggleOutcome(c)
  \/ CreateLevel(c) \/ CreateOutcome(c) \/ CopyOutcome(c) \/ AddOutcome(c) \/ AddSkill(c) \/ InsertRow(c) \/ DeleteRow(c) \/ RemoveRow(c)
  \/ Reorder(c) \/ MoveRows(c)
  \/ CreateSkill(c) \/ SaveSkill(c) \/ DeleteSkill(c) \/ RemoveSkill(c)
  \/ Assign(c) \/ Retire(c) \/ CommitAssignment(c)
  \/ PatchOutcomes(c) \/ AddCustom(c) \/ RemoveCustom(c) \/ Achieve(c)
Next == \E c \in Callers : Step(c)
Spec == Init /\ [][Next]_vars

-----------------------------------------------------------------------------
(* Properties.                                                             *)

\* The types of all variables: what the tables, the calls and the database's answers may
\* hold, and foreign keys that lead to a row (schema.prisma).
TypeOK ==
  /\ department \in [Departments -> {"on", "off", "gone"}]
  /\ Tables(track, row, skill, assignment, progress) /\ Linked(track, row, skill, assignment, progress)
  /\ \A t \in Tracks : track[t] # None => department[track[t].dept] # "gone"
  /\ asked \in [Parents -> Seq(Rows)]
  /\ deleted \cap Present = {} /\ raced \subseteq Tracks \cup Learners
  /\ \A c \in Callers :
       /\ call[c].op \in DOMAIN left \cup {None}
       /\ call[c].result \in {None, "clash", "referenced", "missing", "refused", "failed"}

\* MODRB-21 (track.service.ts:129-142): two tracks of a department never share an
\* English or an Arabic name, unless one was written while another call wrote names.
NamesUnique == \A t, u \in Tracks :
  t # u /\ track[t] # None /\ track[u] # None /\ track[t].dept = track[u].dept
    => \/ track[t].en # track[u].en /\ track[t].ar # track[u].ar
       \/ {t, u} \cap raced # {}

\* The levels of a track and the outcomes of a level are lists: whatever runs
\* together, a new entry comes last, no entry is lost or displaced, and only a granted
\* reorder changes the order, to the one asked for (level.service.ts:156-187, outcome.service.ts:185-216).
Overtaken == {p \in Parents : \E c \in Callers : Stale(c, <<"insert", p>>)}
Lists == INSTANCE OrderedLists WITH Lists <- Parents, list <- Listing, overtaken <- Overtaken
ListsKept == Lists!Spec

\* "Max + 1, not a count" and the two-phase reorder (outcome.service.ts:66-71,
\* level.repository.ts:67-74): an insert meets an order in use only if another insert
\* into the same list overtook it, a reorder only if such an overtaken insert, which
\* need not come last, slipped in after the reorder was checked, or an insert did and
\* another reorder of the list moved what it has inserted.
OrdersMeetOnlyInRaces(c) ==
  call[c].pc = "write" /\ call'[c].result = "clash" =>
    /\ call[c].op = "createFull" => KeyTaken(call[c].arg.key)
    /\ call[c].op \in Inserts => Stale(c, <<"insert", call[c].arg.of>>)
    /\ call[c].op = "reorder" =>
         LET p == call[c].arg.of
         IN Stale(c, <<"late", p>>) \/ (Stale(c, <<"insert", p>>) /\ Stale(c, <<"reorder", p>>))

\* track.service.ts:335-346: a track that has no learner plan can be deleted.  The
\* database still refuses if a learner was given it meanwhile, or if a learner of
\* another track had one of its outcomes added.
DeleteRefusedForAReason(c) ==
  At(c, "deleteTrack", "write") /\ call'[c].result = "referenced" =>
    \/ \E learner \in Learners : Stale(c, <<"assign", learner>>)
    \/ \E a \in Assigned, o \in OutcomesOf(call[c].arg) :
         progress[a][o] # None /\ assignment[a].track # call[c].arg
\* Both: the database refuses only what somebody else has come in between.
RefusedOnlyInRaces ==
  [][\A c \in Callers : OrdersMeetOnlyInRaces(c) /\ DeleteRefusedForAReason(c)]_vars

\* LV-01, TM-07 (learner-assignment.repository.ts:65-75): a learner has one active
\* assignment at most, unless two assigns overlapped.
OneActive == \A learner \in Learners : Cardinality(Active(learner)) <= 1 \/ learner \in raced
\* Both: of a name, and of an active assignment, there is one.
OneOfEach == NamesUnique /\ OneActive

\* LV-03, LV-06: a new assignment has a row for each enabled outcome of its level,
\* and starts as ACHIEVED what the learner has achieved in any assignment so far,
\* unless the level or the learner's progress changed while it was made.
Carried(c) ==
  LET arg == call[c].arg
      offered == {o \in Outcomes : row[o] # None /\ row[o].of = arg.level /\ row[o].on}
      achieved(o) == \E a \in Assigned : /\ assignment[a].learner = arg.learner
                                        /\ progress[a][o] # None /\ progress[a][o].status = "ACHIEVED"
  IN /\ At(c, "assign", "write") /\ call'[c] = Idle
     /\ ~Stale(c, <<"outcomes", arg.level>>) /\ ~Stale(c, <<"achieve", arg.learner>>)
     => \E a \in Assignments \ Assigned :
          /\ assignment'[a] # None
          /\ {o \in Outcomes : progress'[a][o] # None} = offered
          /\ \A o \in offered : progress'[a][o].status = "ACHIEVED" <=> achieved(o)
\* So every committed assignment.
CarriedForward == [][\A c \in Callers : Carried(c)]_vars
=============================================================================
