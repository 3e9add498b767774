----------------------------- MODULE PlanSnapshots -----------------------------
(***************************************************************************)
(* Each plan edits a copy of one level's skills, outcomes and content.  A  *)
(* skill or an outcome that the manager adds to the copy also gets a row   *)
(* in the catalogue, because sessions refer to catalogue outcomes; that    *)
(* row is disabled, and an added skill's stays out of the level, so that   *)
(* no other plan copies it.  Tables are sequences, a row's id its index.   *)
(*                                                                         *)
(* Abstracted: the texts of rows, and the updates that change only them;   *)
(* the copy reads the content of all its skills at once; the checks of an  *)
(* addition are one step, for the rows they ask for are never deleted.     *)
(***************************************************************************)
EXTENDS Calls, FiniteSets

CONSTANT Plans    \* training plans of learners on one level

VARIABLES
  skills,     \* [inLevel, own], own: the plan that it was added to, or None
  levelOutcomes,  \* [skill, order, enabled, own], the outcomes of the level
  files,      \* [skill], content
  tree,       \* tree[p]: [skills, outcomes, content], the snapshot of p, or None
  media,      \* [plan, content, blob]
  blobs,      \* how many blobs have been stored
  cut         \* <<plan, skill row>>, when the addition of the skill was refused or ended by a crash

treeVars == <<skills, levelOutcomes, files, tree, media, blobs, cut>>

SkillEntry == [inLevel : BOOLEAN, own : Plans \cup {None}]
TreeRow == [skills : Seq([source : Nat, removed : BOOLEAN]),
            outcomes : Seq([skill : Nat, source : Nat, removed : BOOLEAN, progress : {"NOT_STARTED"}]),
            content : Seq([skill : Nat, source : Nat \cup {None}, removed : BOOLEAN])]

TreeInit(start) ==
  /\ skills = start.skills /\ levelOutcomes = start.outcomes /\ files = start.files
  /\ tree = [p \in Plans |-> None]
  /\ media = <<>> /\ blobs = 0 /\ cut = {}

Ids(table) == 1 .. Len(table)
\* The rows of a table under the ids given, copied one for one.
CopyOf(ids, Row(_)) ==
  LET nth[n \in 1 .. Cardinality(ids)] == CHOOSE i \in ids : Cardinality({j \in ids : j <= i}) = n
  IN [n \in 1 .. Cardinality(ids) |-> Row(nth[n])]
RowOf(rows, source) == CHOOSE k \in Ids(rows) : rows[k].source = source
Snapshotted == {p \in Plans : tree[p] # None}

-----------------------------------------------------------------------------
(* The copy: three reads, and one transaction.                             *)

CopyTrack(c) ==
  /\ \E p \in Plans \ Snapshotted : Begin(c, "copyTrack", "skills", p, None)
  /\ UNCHANGED treeVars
\* findByLevel does not ask whether they are enabled.
ReadSkills(c) ==
  /\ At(c, "copyTrack", "skills")
  /\ Goto(c, "outcomes", [skills |-> {s \in Ids(skills) : skills[s].inLevel}], {})
  /\ UNCHANGED treeVars
\* Mutant: disabled outcomes are copied too.
AllOfSkills(ids) == {o \in Ids(levelOutcomes) : levelOutcomes[o].skill \in ids}
EnabledOfSkills(ids) == {o \in Ids(levelOutcomes) : levelOutcomes[o].skill \in ids /\ levelOutcomes[o].enabled}
ReadOutcomes(c) ==
  /\ At(c, "copyTrack", "outcomes")
  /\ LET ids == call[c].seen.skills
     IN Goto(c, "content", [skills |-> ids, outcomes |-> EnabledOfSkills(ids)], {})
  /\ UNCHANGED treeVars
ReadContent(c) ==
  /\ At(c, "copyTrack", "content")
  /\ LET seen == call[c].seen
     IN Goto(c, "write", [skills |-> seen.skills, outcomes |-> seen.outcomes,
                          files |-> {f \in Ids(files) : files[f].skill \in seen.skills}], {})
  /\ UNCHANGED treeVars
SkillRow(s) == [source |-> s, removed |-> FALSE]
OutcomeRow(k, o) == [skill |-> k, source |-> o, removed |-> FALSE, progress |-> "NOT_STARTED"]
ContentRow(k, f) == [skill |-> k, source |-> f, removed |-> FALSE]
\* One snapshot for each plan; an outcome or a file that changed its skill meanwhile keeps the one read.
WriteTree(c) ==
  /\ At(c, "copyTrack", "write")
  /\ LET p == call[c].arg
         seen == call[c].seen
         rows == CopyOf(seen.skills, SkillRow)
         Outcome(o) == OutcomeRow(RowOf(rows, levelOutcomes[o].skill), o)
         Content(f) == ContentRow(RowOf(rows, files[f].skill), f)
     IN IF p \in Snapshotted THEN End(c, "clash", {}) /\ UNCHANGED tree
        ELSE /\ tree' = [tree EXCEPT ![p] =
                  [skills |-> rows, outcomes |-> CopyOf(seen.outcomes, Outcome), content |-> CopyOf(seen.files, Content)]]
             /\ End(c, None, {})
  /\ UNCHANGED <<skills, levelOutcomes, files, media, blobs, cut>>

-----------------------------------------------------------------------------
(* Additions.  Each write is a transaction of its own.                     *)

AddSkill(c) ==
  /\ \E p \in Snapshotted : Begin(c, "addSkill", "skill", p, None)
  /\ UNCHANGED treeVars
CreateSkill(c) ==
  /\ At(c, "addSkill", "skill")
  /\ skills' = Append(skills, [inLevel |-> FALSE, own |-> call[c].arg])
  /\ Goto(c, "copy", Len(skills) + 1, {})
  /\ UNCHANGED <<levelOutcomes, files, tree, media, blobs, cut>>
CopySkill(c) ==
  /\ At(c, "addSkill", "copy")
  /\ LET p == call[c].arg
     IN /\ tree' = [tree EXCEPT ![p].skills = Append(@, SkillRow(call[c].seen))]
        /\ Goto(c, "order", [row |-> Len(tree[p].skills) + 1, skill |-> call[c].seen], {})
  /\ UNCHANGED <<skills, levelOutcomes, files, media, blobs, cut>>
\* The skill row may have been removed.
AddOutcome(c) ==
  /\ \E p \in Snapshotted : \E k \in Ids(tree[p].skills) :
       Begin(c, "addOutcome", "order", p, [row |-> k, skill |-> tree[p].skills[k].source])
  /\ UNCHANGED treeVars
\* An administrator adds an outcome to a skill of the level.
AddToLevel(c) ==
  /\ \E s \in Ids(skills) : /\ skills[s].inLevel
                            /\ Begin(c, "addToLevel", "order", None, [row |-> 0, skill |-> s])
  /\ UNCHANGED treeVars
NextOrder(rows) == 1 + (CHOOSE n \in 0 .. Len(rows) :
  /\ n = 0 \/ \E o \in Ids(rows) : rows[o].order = n
  /\ \A o \in Ids(rows) : rows[o].order <= n)
ReadOrder(c) ==
  /\ call[c].pc = "order" /\ call[c].op \in {"addSkill", "addOutcome", "addToLevel"}
  /\ Goto(c, "outcome", [row |-> call[c].seen.row, skill |-> call[c].seen.skill, order |-> NextOrder(levelOutcomes)], {})
  /\ UNCHANGED treeVars
\* Unique in the level by its order.
CreateOutcome(c) ==
  /\ call[c].pc = "outcome" /\ call[c].op \in {"addSkill", "addOutcome", "addToLevel"}
  /\ LET p == call[c].arg
         seen == call[c].seen
     IN IF \E o \in Ids(levelOutcomes) : levelOutcomes[o].order = seen.order
        THEN /\ End(c, "clash", {})
             /\ cut' = IF call[c].op # "addSkill" THEN cut ELSE cut \cup {<<p, seen.row>>}
             /\ UNCHANGED levelOutcomes
        ELSE /\ levelOutcomes' = Append(levelOutcomes, [skill |-> seen.skill, order |-> seen.order, enabled |-> p = None, own |-> p])
             /\ IF p = None THEN End(c, None, {})
                ELSE Goto(c, "row", [row |-> seen.row, outcome |-> Len(levelOutcomes) + 1], {})
             /\ UNCHANGED cut
  /\ UNCHANGED <<skills, files, tree, media, blobs>>
CopyOutcome(c) ==
  /\ call[c].pc = "row" /\ call[c].op \in {"addSkill", "addOutcome"}
  /\ tree' = [tree EXCEPT ![call[c].arg].outcomes = Append(@, OutcomeRow(call[c].seen.row, call[c].seen.outcome))]
  /\ End(c, None, {})
  /\ UNCHANGED <<skills, levelOutcomes, files, media, blobs, cut>>
CrashAdd(c) ==
  /\ call[c].op \in {"addSkill", "addOutcome"} /\ call[c].pc \in {"copy", "order", "outcome", "row"}
  /\ "crashAdd" \in DOMAIN left /\ left["crashAdd"] > 0
  /\ left' = [left EXCEPT !["crashAdd"] = @ - 1]
  /\ call' = [call EXCEPT ![c] = Idle]
  /\ cut' = IF call[c].op # "addSkill" \/ call[c].pc = "copy" THEN cut ELSE cut \cup {<<call[c].arg, call[c].seen.row>>}
  /\ UNCHANGED <<crossed, skills, levelOutcomes, files, tree, media, blobs>>
\* An administrator enables an outcome: the level's list shows the added ones too.
Publish(c) ==
  /\ \E o \in Ids(levelOutcomes) : /\ ~levelOutcomes[o].enabled
                              /\ levelOutcomes' = [levelOutcomes EXCEPT ![o].enabled = TRUE]
  /\ Atomically(c, "publish", {})
  /\ UNCHANGED <<skills, files, tree, media, blobs, cut>>

-----------------------------------------------------------------------------
(* The rows of a snapshot.                                                 *)

\* assertSkillBelongsToPlan and its like.
RowIds(p, kind) == Ids(tree[p][kind])
\* Marked, never deleted, and never brought back.
MarkRemoved(c, op, kind) ==
  /\ \E p \in Snapshotted : \E k \in RowIds(p, kind) : tree' = [tree EXCEPT ![p][kind][k].removed = TRUE]
  /\ Atomically(c, op, {})
  /\ UNCHANGED <<skills, levelOutcomes, files, media, blobs, cut>>
RemoveSkill(c) == MarkRemoved(c, "removeSkill", "skills")
RemoveOutcome(c) == MarkRemoved(c, "removeOutcome", "outcomes")
RemoveContent(c) == MarkRemoved(c, "removeContent", "content")
\* 0: under no skill.
AddContent(c) ==
  /\ \E p \in Snapshotted : \E k \in {0} \cup RowIds(p, "skills") :
       tree' = [tree EXCEPT ![p].content = Append(@, ContentRow(k, None))]
  /\ Atomically(c, "addContent", {})
  /\ UNCHANGED <<skills, levelOutcomes, files, media, blobs, cut>>
Upload(c) ==
  /\ \E p \in Snapshotted : \E k \in RowIds(p, "content") : Begin(c, "upload", "blob", [plan |-> p, content |-> k], None)
  /\ UNCHANGED treeVars
PutBlob(c) ==
  /\ At(c, "upload", "blob")
  /\ blobs' = blobs + 1
  /\ Goto(c, "row", blobs + 1, {})
  /\ UNCHANGED <<skills, levelOutcomes, files, tree, media, cut>>
CreateMedia(c) ==
  /\ At(c, "upload", "row")
  /\ media' = Append(media, [plan |-> call[c].arg.plan, content |-> call[c].arg.content, blob |-> call[c].seen])
  /\ End(c, None, {})
  /\ UNCHANGED <<skills, levelOutcomes, files, tree, blobs, cut>>

TreeStep(c) ==
  \/ CopyTrack(c) \/ ReadSkills(c) \/ ReadOutcomes(c) \/ ReadContent(c) \/ WriteTree(c)
  \/ AddSkill(c) \/ CreateSkill(c) \/ CopySkill(c) \/ AddOutcome(c) \/ AddToLevel(c) \/ ReadOrder(c)
  \/ CreateOutcome(c) \/ CopyOutcome(c) \/ CrashAdd(c) \/ Publish(c)
  \/ RemoveSkill(c) \/ RemoveOutcome(c) \/ RemoveContent(c) \/ AddContent(c) \/ Upload(c) \/ PutBlob(c) \/ CreateMedia(c)

-----------------------------------------------------------------------------
(* Properties.                                                             *)

\* The foreign keys of every table, one order for each outcome, and a blob behind each file.
TreeTypeOK ==
  /\ \A o \in Ids(levelOutcomes) : levelOutcomes[o].skill \in Ids(skills)
  /\ \A o, n \in Ids(levelOutcomes) : levelOutcomes[o].order = levelOutcomes[n].order => o = n
  /\ \A p \in Snapshotted :
       /\ \A k \in Ids(tree[p].skills) : tree[p].skills[k].source \in Ids(skills)
       /\ \A k \in Ids(tree[p].outcomes) : /\ tree[p].outcomes[k].skill \in Ids(tree[p].skills)
                                           /\ tree[p].outcomes[k].source \in Ids(levelOutcomes)
       /\ \A k \in Ids(tree[p].content) : tree[p].content[k].skill \in {0} \cup Ids(tree[p].skills)
  /\ \A m \in Ids(media) : media[m].blob <= blobs /\ media[m].content \in Ids(tree[media[m].plan].content)

\* plan-snapshot.service.ts:157-159, 165-174: what one plan added is in no other plan's
\* snapshot, unless an administrator has enabled it.
OwnStaysPrivate == \A p \in Snapshotted :
  /\ \A k \in Ids(tree[p].skills) : skills[tree[p].skills[k].source].own \in {None, p}
  /\ \A k \in Ids(tree[p].outcomes) :
       LET o == levelOutcomes[tree[p].outcomes[k].source] IN o.own \in {None, p} \/ o.enabled

\* plan-snapshot.service.ts:190-192: an added skill can be scheduled, by an outcome of its own,
\* once its call has ended, unless that was refused half way or ended by a crash.
AddedSkillsAreTaught == \A p \in Snapshotted : \A k \in Ids(tree[p].skills) :
  LET s == tree[p].skills[k].source
      adding == \E c \in Callers : call[c].op = "addSkill" /\ call[c].pc # "idle"
  IN skills[s].own # None /\ ~adding /\ <<p, k>> \notin cut =>
       \E n \in Ids(tree[p].outcomes) : LET row == tree[p].outcomes[n]
                                        IN row.skill = k /\ levelOutcomes[row.source].skill = s

\* Both: an added row is its plan's alone, and there to be taught.
PlansOwnTheirAdditions == OwnStaysPrivate /\ AddedSkillsAreTaught
=============================================================================
