---------------------------- MODULE MCBackOffice ----------------------------
(* Instances of BackOffice for TLC. *)
EXTENDS BackOffice

CONSTANTS d1, d2, t1, t2, t3, t4, l1, l2, l3, l4, o1, o2, o3, o4, o5, o6, s1, s2, s3, s4, k1, k2, k3, c1, c2,
          d3, q1, q2, j1, j2, w1, w2, w3, v1, v2, p1, p2, p3

Name(en, ar) == [en |-> <<en>>, ar |-> <<ar>>]
NewNames == {Name(1, 1), Name(1, 2), Name(2, 2)}
TrackNamed(d, n) == [dept |-> d, en |-> n.en, ar |-> n.ar, key |-> <<n.en, 1>>, on |-> TRUE]
Row(of, order) == [of |-> of, order |-> order, on |-> TRUE, skill |-> None]
Owned(of, order, s) == [Row(of, order) EXCEPT !.skill = s]

With(ids, some) == [x \in ids |-> IF x \in DOMAIN some THEN some[x] ELSE None]
Nobody == With(Assignments, <<>>)
NoProgress == [a \in Assignments |-> With(Outcomes, <<>>)]
TwoTracks == With(Tracks, t1 :> TrackNamed(d1, Name(1, 1)) @@ t2 :> TrackNamed(d2, Name(2, 2)))
\* As the wizard makes them, with orders from 1; the second level's have gaps.
TwoLevels == With(Rows, l1 :> Row(t1, 1) @@ l2 :> Row(t2, 1)
  @@ o1 :> Owned(l1, 1, s1) @@ o2 :> Owned(l1, 2, s1) @@ o3 :> Row(l2, 0) @@ o4 :> Row(l2, 3))
OneLevel == With(Rows, l1 :> Row(t1, 1) @@ o3 :> Row(l1, 0) @@ o4 :> Row(l1, 3))
TwoOfOne == With(Rows, l1 :> Row(t1, 1) @@ l2 :> Row(t1, 2) @@ o1 :> Owned(l1, 1, s1))
OneSkill == With(Skills, s1 :> [level |-> l1])

\* The learner k1 is on the level l1, with its outcome o1.
OnFirst == [With(Assignments, <<>>) EXCEPT ![1] = [learner |-> k1, track |-> t1, level |-> l1, active |-> TRUE]]
AddedAndAchieved == [NoProgress EXCEPT ![1][o3] = [status |-> "ACHIEVED", custom |-> TRUE]]
Started == [NoProgress EXCEPT ![1][o1] = [status |-> "NOT_STARTED", custom |-> FALSE]]

Case(calls, rows, a, p, names) ==
  [calls |-> calls, track |-> TwoTracks, row |-> rows, skill |-> OneSkill,
   assignment |-> a, progress |-> p, names |-> names, shapes |-> {[skills |-> 2, skillOf |-> <<1, 2, 2>>], [skills |-> 1, skillOf |-> <<1>>]},
   seeds |-> [step |-> 0, skilled |-> TRUE], sweeps |-> [transcript |-> With(Papers, <<>>), logbook |-> {}],
   units |-> [unit |-> With(Units, <<>>), base |-> With(Crews, <<>>), post |-> With(Persons, <<>>)],
   briefings |-> [dispatched |-> {}, marked |-> {}, chief |-> TRUE, slide |-> With(Slides, <<>>)],
   listings |-> [entry |-> With(Entries, <<>>), leads |-> With(Groups, <<>>)]]

\* Tracks and departments: who writes names, and what becomes of the checks before.
Naming == {Case(calls, With(Rows, l1 :> Row(t1, 1) @@ o1 :> Owned(l1, 1, s1) @@ o2 :> Row(l1, 2)),
                Nobody, NoProgress, NewNames) : calls \in
  {[createTrack |-> 2, updateTrack |-> 1],
   [createFull |-> 1, createTrack |-> 1],
   [createFull |-> 1, deleteTrack |-> 1],
   [copyTrack |-> 2, updateTrack |-> 1],
   [updateTrack |-> 2, deleteTrack |-> 1],
   [createTrack |-> 1, updateTrack |-> 1, deleteTrack |-> 1, deleteDepartment |-> 1],
   [createTrack |-> 1, copyTrack |-> 1, toggle |-> 1]}}

\* Levels, outcomes and skills.
Ordering ==
  {Case(calls, TwoLevels, OnFirst, Started, {}) : calls \in
    {[createOutcome |-> 1, copyOutcome |-> 1, reorder |-> 1],
     [deleteOutcome |-> 2, createOutcome |-> 1],
     [addSkill |-> 1, addOutcome |-> 1, reorder |-> 1],
     [createOutcome |-> 1, reorder |-> 2],
     [addSkill |-> 1, createOutcome |-> 1, deleteSkill |-> 1],
     [createSkill |-> 2, deleteSkill |-> 1]}}
  \cup {Case([createOutcome |-> 1, copyOutcome |-> 1, deleteOutcome |-> 1, reorder |-> 1],
              OneLevel, Nobody, NoProgress, {})}
  \cup {Case(calls, TwoOfOne, Nobody, NoProgress, {}) : calls \in
    {[createLevel |-> 2, deleteLevel |-> 1, reorder |-> 1],
     [createLevel |-> 1, deleteLevel |-> 1, createOutcome |-> 1, createSkill |-> 1],
     [createOutcome |-> 1, deleteTrack |-> 1, deleteLevel |-> 1]}}

\* Learners.
Learning ==
  {Case(calls, TwoLevels, OnFirst, Started, {}) : calls \in
    {[assign |-> 3, achieve |-> 1],
     [assign |-> 2, addCustom |-> 1, removeCustom |-> 1],
     [assign |-> 2, toggle |-> 1, createOutcome |-> 1],
     [assign |-> 1, achieve |-> 2, deleteOutcome |-> 1],
     [assign |-> 1, addCustom |-> 1, deleteTrack |-> 2]}}
  \cup {Case([assign |-> 2, removeCustom |-> 1, achieve |-> 1], TwoLevels, OnFirst, AddedAndAchieved, {})}

Quiet(calls) == Case(calls, With(Rows, l1 :> Row(t1, 1)), Nobody, NoProgress, {})
\* A seeding over whatever an earlier one has left; two of them, from late on.
Sowing(calls, step_, skilled_) == [Quiet(calls) EXCEPT !.seeds = [step |-> step_, skilled |-> skilled_]]
Seeding ==
  {Sowing([seed |-> 1], n, TRUE) : n \in 0 .. Len(Script)}
  \cup {Sowing([seed |-> 2, crashSeed |-> 1], n, TRUE) : n \in Len(Script) - 2 .. Len(Script)}
  \cup {Sowing([seed |-> 1, giveSkill |-> 1], 0, FALSE), Sowing([seed |-> 1, reassign |-> 1], Len(Script), TRUE)}

\* Two departments, two teams, and learners of whom some are elsewhere than their team.
Named(name) == [name |-> name, enabled |-> TRUE]
Departing ==
  {[Quiet(calls) EXCEPT !.units =
      [unit |-> With(Units, d1 :> Named("Sales") @@ d2 :> Named("Support")), base |-> q1 :> atHome @@ q2 :> d2,
       post |-> With(Persons, j1 :> [team |-> q1, unit |-> d1])]] :
     atHome \in {d1, d2}, calls \in
       {[repair |-> 1, movePerson |-> 1, placeTeam |-> 1], [repair |-> 1, joinTeam |-> 1, deleteUnit |-> 1],
        [repair |-> 2], [createUnit |-> 2, updateUnit |-> 1], [joinTeam |-> 1, deleteUnit |-> 1, placeTeam |-> 1]}}

\* Transcripts and rows of the log, more than a batch of them; sessions to count.
Swept(calls) == [Quiet(calls) EXCEPT !.sweeps =
  [transcript |-> [p \in Papers |-> [version |-> 0, consented |-> p # w3, due |-> p # w3]],
   logbook |-> {[id |-> n, old |-> n < 3] : n \in 1 .. 3}]]
NightlySweeps == {Swept(calls) : calls \in
  {[cleanup |-> 1, crashCleanup |-> 1, submitTranscript |-> 1], [cleanup |-> 1, fallDue |-> 1, submitTranscript |-> 1],
   [cleanup |-> 2], [deliver |-> 2, recompute |-> 2], [deliver |-> 3, recompute |-> 1]}}

\* A session that the trainer holds, and one that he does not know of.
Briefing == {[Quiet(calls) EXCEPT !.briefings =
               [dispatched |-> {w1}, marked |-> {w1, w2}, chief |-> TRUE, slide |-> (v1 :> "PENDING" @@ v2 :> "CLEAN")]] :
  calls \in {[tell |-> 2, evaluate |-> 2, storeEvaluation |-> 1], [tell |-> 1, evaluate |-> 1, loseManager |-> 1],
             [transcript |-> 2, evaluate |-> 1, storeEvaluation |-> 1], [brief |-> 2, changeSlide |-> 2]}}

\* p1 and his managers read of three learners in two teams, with a page for each.
RoleOf == p1 :> "ADMIN" @@ p2 :> "DEPARTMENT_MANAGER" @@ p3 :> "DEPARTMENT_MANAGER"
Paging == {[Quiet(calls) EXCEPT !.listings =
               [entry |-> With(Entries, k1 :> [group |-> t1, made |-> 1, gone |-> FALSE] @@ k2 :> [group |-> t2, made |-> 2, gone |-> FALSE] @@ rest),
                leads |-> With(Groups, t1 :> p2)]] :
  rest \in {<<>>, k3 :> [group |-> t1, made |-> 3, gone |-> FALSE]},
  calls \in {[walk |-> 1, enroll |-> 1, dismiss |-> 1], [walk |-> 1, appoint |-> 1],
             [open |-> 1, appoint |-> 1, dismiss |-> 1, enroll |-> 1]}}


AllCases == Seeding \cup Departing \cup NightlySweeps \cup Briefing \cup Paging \cup Naming \cup Ordering \cup Learning
TwoCallers == {c1, c2}
Alike == Permutations(TwoCallers)
=============================================================================
