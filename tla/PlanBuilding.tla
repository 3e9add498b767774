---------------------------- MODULE PlanBuilding ----------------------------
(***************************************************************************)
(* How a training plan is proposed: the recommendation pipeline (candidate *)
(* pool, scores, the best items of each outcome, prerequisite order) and   *)
(* PlanBuilderService, which cuts the ranked items into one session per    *)
(* training day.  These are functions of what the services have read, so   *)
(* there are no variables here; TrainingPlans says when they are read.     *)
(*                                                                         *)
(* A row is a LearnerOutcome: its outcome, the skill whose content may     *)
(* teach it (None: no content can), status, priority, attempts, and        *)
(* whether its assignment is the active one.  A library says which content *)
(* each skill has, which items need which first, and what the two signals  *)
(* that tell the items of one outcome apart say of them.  Scores are in    *)
(* thousandths.  gapMatch is left out: its input set is always empty here. *)
(***************************************************************************)
EXTENDS Integers, Sequences, FiniteSets, SequencesExt

CONSTANT None   \* no skill, no signal

-----------------------------------------------------------------------------
(* Sequences as the code's arrays and Maps order them.                     *)

Each(seq, F(_)) == [i \in DOMAIN seq |-> F(seq[i])]
FlatMap(seq, F(_)) == FlattenSeq(Each(seq, F))
Take(seq, n) == SubSeq(seq, 1, IF n < Len(seq) THEN n ELSE Len(seq))
Drop(seq, n) == SubSeq(seq, n + 1, Len(seq))

\* The values of seq, each where it first appears: a Set or the keys of a Map.
Distinct(seq) ==
  FoldLeft(LAMBDA kept, e : IF Contains(kept, e) THEN kept ELSE Append(kept, e), <<>>, seq)

\* Array.sort by a number, smallest first; equal elements keep their order.
Place(key) == [i \in DOMAIN key |->
  1 + Cardinality({j \in DOMAIN key : key[j] < key[i] \/ (key[j] = key[i] /\ j < i)})]
Placed(seq, place) == [n \in DOMAIN seq |-> seq[CHOOSE i \in DOMAIN seq : place[i] = n]]
StableSort(seq, Key(_)) == Placed(seq, Place(Each(seq, Key)))

Groups(seq, Key(_)) ==
  Each(Distinct(Each(seq, Key)), LAMBDA k : SelectSeq(seq, LAMBDA e : Key(e) = k))

-----------------------------------------------------------------------------
(* The recommendation pipeline.                                            *)

Outstanding(row) == row.status # "ACHIEVED"
CarriedOver(row) == row.attempts > 0 /\ Outstanding(row)

Clamp(n, top) == IF n < 0 THEN 0 ELSE IF n > top THEN top ELSE n
OutcomePriority(row) == IF CarriedOver(row) THEN 200 ELSE Clamp(200 - 20 * row.priority, 200)
Signal(table, content, outcome) ==
  IF table[content][outcome] = None THEN 50 ELSE Clamp(table[content][outcome], 100)

Effectiveness(library, content, outcome) == Signal(library.effect, content, outcome)
Similarity(library, content, outcome) == Signal(library.near, content, outcome)

\* Relevance and difficulty are the same for every candidate of the pool.
Score(row, content, library) ==
  300 + OutcomePriority(row) + 75 + Effectiveness(library, content, row.outcome)
      + Similarity(library, content, row.outcome)

\* Every item of a skill is a candidate for every outstanding outcome of it.
Pool(rows, library) ==
  LET due == SelectSeq(rows, LAMBDA row : Outstanding(row) /\ row.skill # None)
      Candidates(group) ==
        FlatMap(library.content[group[1].skill], LAMBDA c :
          Each(group, LAMBDA row :
            [content |-> c, outcome |-> row.outcome, score |-> Score(row, c, library)]))
  IN FlatMap(Groups(due, LAMBDA row : row.skill), Candidates)

MaxItemsPerOutcome == 3
KeepTopPerOutcome(scored) ==
  FlatMap(Groups(scored, LAMBDA item : item.outcome),
          LAMBDA list : Take(StableSort(list, LAMBDA item : -item.score), MaxItemsPerOutcome))

\* Kahn's algorithm: after n rounds, the items placed and those ready in turn.
\* An item is ready when the last of its prerequisites within ids is placed.
TopologicalSort(ids, needs) ==
  LET prerequisites(id) == {p \in ToSet(ids) : <<id, p>> \in needs}
      round[n \in 0 .. Len(ids)] ==
        IF n = 0
        THEN [done |-> <<>>, queue |-> SelectSeq(ids, LAMBDA id : prerequisites(id) = {})]
        ELSE LET last == round[n - 1] IN
             IF last.queue = <<>> THEN last
             ELSE LET id == Head(last.queue)
                      done == Append(last.done, id)
                      Ready(d) == id \in prerequisites(d) /\ prerequisites(d) \subseteq ToSet(done)
                  IN [done |-> done, queue |-> Tail(last.queue) \o SelectSeq(ids, Ready)]
  IN round[Len(ids)].done

\* Mutant: prerequisites are not looked at.
OrderByScore(items, needs) == StableSort(items, LAMBDA item : -item.score)
\* By the sorted ids; a cycle leaves some out, and falls back to score order.
InOrderOf(items, sorted) ==
  IF \A i \in DOMAIN items : Contains(sorted, items[i].content)
  THEN StableSort(items, LAMBDA item : CHOOSE n \in DOMAIN sorted : sorted[n] = item.content)
  ELSE StableSort(items, LAMBDA item : -item.score)
Order(items, needs) ==
  InOrderOf(items, TopologicalSort(Distinct(Each(items, LAMBDA item : item.content)), needs))

Recommend(rows, library) == Order(KeepTopPerOutcome(Pool(rows, library)), library.needs)

-----------------------------------------------------------------------------
(* What the plan builder works from: the ranked items, the required rows,  *)
(* and the skill each outcome is grouped under, itself when it has none.   *)

\* Only outcomes with an item are resolved to their skill.
Resolved(items, rows, skillOf) ==
  [items |-> items, required |-> rows,
   skill |-> [o \in DOMAIN skillOf |->
                IF \E i \in DOMAIN items : items[i].outcome = o THEN skillOf[o] ELSE o]]

\* The items come from the active assignment; the required rows are all of the
\* learner's.
FromCatalogue(rows, library) ==
  Resolved(Recommend(SelectSeq(rows, LAMBDA row : row.active), library), rows, library.skillOf)

\* A plan's own copy of its track: the outcomes kept, by their order.  Outcomes are
\* numbered within their skill; nth is how many of its skill come before it.
KeptSkills(tree) == SelectSeq(tree, LAMBDA skill : ~skill.removed)
Numbered(sorted) ==
  [i \in DOMAIN sorted |-> sorted[i] @@
     [nth |-> Cardinality({j \in 1 .. i - 1 : sorted[j].index = sorted[i].index})]]
\* Every row has a source: a manager's skill or outcome gets its row in the catalogue before
\* its copy (PlanSnapshotService.addSkill, addOutcome), so the builder's test for one holds.
\* Every row has a source: a manager's skill or outcome gets its row in the catalogue before
\* its copy (PlanSnapshotService.addSkill, addOutcome), so the builder's test for one holds.
OutcomesOf(kept) ==
  FlatMap([k \in DOMAIN kept |-> k], LAMBDA k :
    Each(SelectSeq(kept[k].outcomes, LAMBDA o : ~o.removed), LAMBDA o :
      [outcome |-> o.outcome, order |-> o.order, index |-> k, skill |-> kept[k].source]))
ActiveOutcomes(tree) == Numbered(StableSort(OutcomesOf(KeptSkills(tree)), LAMBDA o : o.order))

\* Priorities interleave the skills: the first of every skill, then the second.
\* Progress rows of the copy are created NOT_STARTED and never written again.
SnapshotRows(outcomes, count) == Each(outcomes, LAMBDA o :
  [outcome |-> o.outcome, skill |-> o.skill, status |-> "NOT_STARTED", attempts |-> 0,
   active |-> TRUE, priority |-> o.nth * count + o.index - 1])

\* The effectiveness of content is kept by master outcome and looked up by the copy's,
\* so that it is never found.
SnapshotItems(tree, library) ==
  Recommend(SnapshotRows(ActiveOutcomes(tree), Len(KeptSkills(tree))),
            [library EXCEPT !.effect = [c \in DOMAIN @ |-> [o \in DOMAIN @[c] |-> None]]])

FromSnapshot(tree, library) ==
  LET active == ActiveOutcomes(tree)
      IndexOf(o) == (CHOOSE r \in ToSet(active) : r.outcome = o).index
  IN [items |-> SnapshotItems(tree, library),
      required |-> SnapshotRows(active, Len(tree)),
      skill |-> [o \in DOMAIN library.skillOf |->
                   IF \E i \in DOMAIN active : active[i].outcome = o THEN IndexOf(o) ELSE o]]

-----------------------------------------------------------------------------
(* Cutting the items into sessions.                                        *)

AssumedContentMinutes == 15
Fitting(minutes) == minutes \div AssumedContentMinutes

\* A Map built from rows keeps the last row of an outcome; an outcome without a
\* row counts as 0.
PriorityOf(rows, outcome) ==
  LET at == {i \in DOMAIN rows : rows[i].outcome = outcome}
  IN IF at = {} THEN 0 ELSE rows[CHOOSE i \in at : \A j \in at : j <= i].priority

PickPrimarySkill(items, m) ==
  LET best(skill) == LET of == {i \in DOMAIN items : m.skill[items[i].outcome] = skill}
                         priorities == {PriorityOf(m.required, items[i].outcome) : i \in of}
                     IN CHOOSE p \in priorities : \A q \in priorities : p <= q
  IN StableSort(Distinct(Each(items, LAMBDA item : m.skill[item.outcome])), best)[1]

\* A session of outcomes: the most urgent of them is its primary one.
Covers(outcomes, content, m) ==
  [primary |-> StableSort(outcomes, LAMBDA o : PriorityOf(m.required, o))[1],
   outcomes |-> outcomes, content |-> Each(content, LAMBDA item : item.content)]
\* What did not fit is kept for later days, by content: an item that fits for one
\* outcome is kept too when its copy for another outcome did not.
Divided(mine, others, m, fitting) ==
  LET deferred == {item.content : item \in ToSet(Drop(mine, fitting))}
  IN [session |-> Covers(Distinct(Each(mine, LAMBDA item : item.outcome)), Take(mine, fitting), m),
      remaining |-> others \o SelectSeq(mine, LAMBDA item : item.content \in deferred)]
\* One day: every item left of the most urgent skill, as many as the time allows.
SlotOf(skill, items, m, minutes) ==
  Divided(SelectSeq(items, LAMBDA item : m.skill[item.outcome] = skill),
          SelectSeq(items, LAMBDA item : m.skill[item.outcome] # skill), m, Fitting(minutes))
Slot(items, m, minutes) == SlotOf(PickPrimarySkill(items, m), items, m, minutes)

\* Days filled from the items: until they, or the days, run out.
NextDay(last, m, minutes) ==
  IF last.remaining = <<>> THEN last
  ELSE LET slot == Slot(last.remaining, m, minutes)
       IN [sessions |-> Append(last.sessions, slot.session), remaining |-> slot.remaining]
ContentSessions(m, days, minutes) ==
  LET after[n \in 0 .. days] ==
        IF n = 0 THEN [sessions |-> <<>>, remaining |-> m.items]
        ELSE NextDay(after[n - 1], m, minutes)
  IN after[days].sessions

\* One session without content per skill, most urgent first.
OutcomeSessions(rows, m) ==
  LET due == StableSort(SelectSeq(rows, Outstanding), LAMBDA row : row.priority)
  IN Each(Groups(due, LAMBDA row : m.skill[row.outcome]),
          LAMBDA group : [primary |-> group[1].outcome,
                          outcomes |-> Each(group, LAMBDA row : row.outcome),
                          content |-> <<>>])

SkillsOf(sessions, m) == {m.skill[o] : o \in UNION {ToSet(s.outcomes) : s \in ToSet(sessions)}}

\* The days left over go to the skills no content day covers.
Completed(filled, m, days) ==
  filled \o Take(OutcomeSessions(
    SelectSeq(m.required, LAMBDA row : m.skill[row.outcome] \notin SkillsOf(filled, m)), m),
    days - Len(filled))
Counted(sessions, skills, m) ==
  [sessions |-> sessions, uncovered |-> Cardinality(skills \ SkillsOf(sessions, m))]

\* Mutant: a skill whose outcomes are all achieved counts as not covered.
SuggestCountingAchieved(m, days, minutes) ==
  Counted(Completed(ContentSessions(m, days, minutes), m, days),
          {m.skill[row.outcome] : row \in ToSet(m.required)}, m)
\* The sessions proposed, and how many skills got none.
Suggest(m, days, minutes) ==
  Counted(Completed(ContentSessions(m, days, minutes), m, days),
          {m.skill[row.outcome] : row \in {r \in ToSet(m.required) : Outstanding(r)}}, m)
=============================================================================
