-------------------------- MODULE MCTrainingPlans --------------------------
(* Instances of TrainingPlans for TLC. *)
EXTENDS TrainingPlans

CONSTANTS A, B, o1, o2, o3, o4, i1, i2, i3, i4, i5, c1, c2

Skill == o1 :> A @@ o2 :> A @@ o3 :> B @@ o4 :> None
Contents == {i1, i2, i3, i4, i5}

\* What the signals say: i1 is worth most, i4 least, i2 and i3 tell nothing.
Effect == [i \in Contents |-> [o \in DOMAIN Skill |->
             IF i = i1 THEN 90 ELSE IF i = i4 THEN 0 ELSE None]]
Unknown == [i \in Contents |-> [o \in DOMAIN Skill |-> None]]

Library(forA, forB, needs) ==
  [content |-> (A :> forA @@ B :> forB), skillOf |-> Skill, needs |-> needs,
   effect |-> Effect, near |-> Unknown]

Row(o, current, status, priority, attempts) ==
  [outcome |-> o, skill |-> Skill[o], active |-> current, status |-> status,
   priority |-> priority, attempts |-> attempts]
Fresh(o, priority) == Row(o, TRUE, "NOT_STARTED", priority, 0)

Track == <<[source |-> A, removed |-> FALSE,
            outcomes |-> <<[outcome |-> o1, order |-> 1, removed |-> FALSE],
                           [outcome |-> o2, order |-> 3, removed |-> FALSE]>>],
           [source |-> B, removed |-> FALSE,
            outcomes |-> <<[outcome |-> o3, order |-> 2, removed |-> FALSE]>>]>>

Case(calls, library, rows_, days, minutes, planned) ==
  [calls |-> calls, library |-> library, rows |-> rows_, days |-> days,
   minutes |-> minutes, planned |-> planned, track |-> Track, horizon |-> 3]

\* One skill with an item, one without: two days are needed.
Small == Library(<<i1>>, <<>>, {})
SmallRows == <<Fresh(o1, 0), Fresh(o3, 1)>>
Managers == {Case(calls, Small, SmallRows, <<2, 1>>, 60, TRUE) : calls \in
  {[suggest |-> 2, confirm |-> 2],
   [suggest |-> 2, confirm |-> 1, cancel |-> 2],
   [suggest |-> 2, confirm |-> 1, create |-> 2],
   [suggest |-> 2, confirm |-> 1, remove |-> 2],
   [suggest |-> 1, confirm |-> 1, withdraw |-> 1, create |-> 1],
   [suggest |-> 1, snapshot |-> 1, withdraw |-> 1, create |-> 1],
   [suggest |-> 2, reschedule |-> 2, update |-> 1]}}

NoPlanYet == {Case([create |-> 2, suggest |-> 2], Small, SmallRows, <<2>>, 60, FALSE)}

\* Every proposal that one plan may be given.
Libraries ==
  {Library(forA, forB, needs) :
     forA \in {<<>>, <<i1>>, <<i1, i2>>, <<i1, i2, i3, i4>>}, forB \in {<<>>, <<i5>>},
     needs \in {{}, {<<i1, i2>>, <<i2, i5>>}, {<<i2, i1>>, <<i3, i2>>, <<i4, i3>>}, {<<i1, i2>>, <<i2, i1>>}}}
Histories ==
  {<<Fresh(o1, 0), Fresh(o2, 1), Fresh(o3, 2)>>,
   <<Fresh(o1, 2), Row(o2, TRUE, "IN_PROGRESS", 1, 1), Fresh(o3, 0), Fresh(o4, 3)>>,
   <<Row(o1, FALSE, "IN_PROGRESS", 0, 1), Row(o3, FALSE, "ACHIEVED", 1, 1), Fresh(o1, 1), Fresh(o2, 0)>>,
   <<Row(o1, FALSE, "IN_PROGRESS", 0, 1), Fresh(o2, 0), Row(o3, TRUE, "ACHIEVED", 1, 1)>>}
Proposals == {Case([suggest |-> 1], library, history, <<days>>, minutes, TRUE) :
  library \in Libraries, history \in Histories,
  days \in 1 .. 4, minutes \in {10, 30, 45}}
Copies == {Case([snapshot |-> 1, removeSkill |-> 1, suggest |-> 2], Library(forA, forB, {<<i1, i2>>}),
                SmallRows, <<days>>, minutes, TRUE) :
  forA \in {<<>>, <<i1, i2>>}, forB \in {<<>>, <<i5>>}, days \in 1 .. 3, minutes \in {15, 60}}

AllCases == Managers \cup NoPlanYet \cup Proposals \cup Copies
TwoCallers == {c1, c2}
Alike == Permutations(TwoCallers)
=============================================================================
