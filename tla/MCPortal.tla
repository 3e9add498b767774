------------------------------ MODULE MCPortal ------------------------------
(* Instances of Portal for TLC. *)
EXTENDS Portal

CONSTANTS p1, p2, p3, i1, i2, i3, t1, t2, t3, t4, a1, a2, k1, k2, k3, k4, c1, c2, r1, r2, r3, r4, h1, h2,
          l1, l2, g1, g2, m1, m2, m3, m4, m5, m6, s1, s2, o1, o2, o3, v1, v2, v3, d1, d2, d3, d4,
          e1, e2, e3, e4, x1, x2, w1, w2, y1, y2, j1, j2, q1, q2

With(ids, some) == [x \in ids |-> IF x \in DOMAIN some THEN some[x] ELSE None]
Admin == [role |-> "ADMIN", entra |-> TRUE, active |-> TRUE]
Manager == [role |-> "DEPARTMENT_MANAGER", entra |-> TRUE, active |-> TRUE]
\* The administrator p1 and the manager p2; p3 has been invited.
Staff == With(People, p1 :> Admin @@ p2 :> Manager)
Invited == With(Invites, i1 :> [email |-> p3, role |-> "DEPARTMENT_MANAGER", status |-> "PENDING", expired |-> FALSE])
ManagedBy(p) == [manager |-> p, waits |-> None]
WaitsFor(i) == [manager |-> None, waits |-> i]
OnTeam(account, t, status, plans) == [account |-> account, team |-> t, status |-> status, plans |-> plans]

NoRecs == [active |-> None, rows |-> <<>>, library |-> [content |-> <<>>]]
NoTree == [skills |-> <<>>, outcomes |-> <<>>, files |-> <<>>]
NoFigures ==
  [member |-> [l \in {j1, j2} |-> [squad |-> q1, removed |-> FALSE, level |-> "B"]], held |-> <<>>, drafted |-> <<>>,
   mastered |-> [l \in {j1, j2} |-> [achieved |-> 0, total |-> 1]]]
NoDecks == [outcomes |-> With({s1, s2}, <<>>)]
Case(calls, users, invites, teams, learners) ==
  [calls |-> calls, founded |-> users # With(People, <<>>), user |-> users, invite |-> invites,
   login |-> With(People, <<>>), team |-> With(Teams, teams), learner |-> With(Learners, learners),
   rec |-> NoRecs, deck |-> NoDecks, letter |-> [at |-> 3], tree |-> NoTree, figures |-> NoFigures]

\* The first sign-ins of an organization, and an invite for who signs in uninvited.
Founding == {Case(calls, With(People, <<>>), With(Invites, <<>>), <<>>, <<>>) : calls \in
  {[signIn |-> 3, createInvite |-> 1], [signIn |-> 2, createUser |-> 1, createInvite |-> 1]}}

\* p3 accepts, or does not, while teams and invites change.
Accepting ==
  {Case(calls, Staff, Invited, t1 :> WaitsFor(i1) @@ t2 :> ManagedBy(p2), <<>>) : calls \in
    {[signIn |-> 1, updateTeam |-> 2, deleteTeam |-> 1],
     [signIn |-> 1, updateTeam |-> 1, updateUser |-> 1, createTeam |-> 1],
     [signIn |-> 2, createUser |-> 1, updateTeam |-> 1],
     [signIn |-> 2, revoke |-> 1, createInvite |-> 1, updateTeam |-> 1],
     [signIn |-> 2, revoke |-> 1, createInvite |-> 2],
     [signIn |-> 1, expire |-> 1, revoke |-> 1, createInvite |-> 1, updateTeam |-> 1],
     [signIn |-> 2, crash |-> 1, updateTeam |-> 2]}}
  \cup {Case([signIn |-> 1, createTeam |-> 2, updateTeam |-> 1], Staff, Invited, <<>>, <<>>)}
  \cup {Case([signIn |-> 1, createInvite |-> 2, createTeam |-> 1], Staff, With(Invites, <<>>), <<>>, <<>>)}

\* Learners come and go, and so do their teams.
Placing ==
  {Case(calls, Staff, With(Invites, <<>>), t1 :> ManagedBy(p2) @@ t2 :> ManagedBy(p2), k1 :> l) :
    l \in {OnTeam(a1, t1, "ACTIVE", "draft"), OnTeam(a1, t1, "INACTIVE", "none")}, calls \in
    {[import |-> 2, deleteTeam |-> 1, removeLearner |-> 1],
     [import |-> 1, inviteLearner |-> 1, setStatus |-> 1, deleteTeam |-> 1],
     [inviteLearner |-> 2, removeLearner |-> 1, setStatus |-> 1, deleteTeam |-> 1],
     [deleteTeam |-> 2, setStatus |-> 1, removeLearner |-> 1],
     [removeLearner |-> 2, plan |-> 2, import |-> 1]}}

\* The manager p2 has failed some times, and signs in.
Known(calls, failures) ==
  [Case(calls, Staff, With(Invites, <<>>), <<>>, <<>>) EXCEPT
    !.login = With(People, p2 :> [failures |-> failures, locked |-> "no"])]
SigningIn ==
  {Known([password |-> 4, lockEnds |-> 1], n) : n \in {0, 3, 4}}
  \cup {Known([start |-> 2, callback |-> 2, updateUser |-> 2, expireHandshake |-> 1, sweep |-> 1], 0),
        Known([password |-> 1, demo |-> 1, updateUser |-> 1], 4)}

\* A token is presented, again and again, and logged out with.
StayingIn == {Known(calls, 0) : calls \in
  {[demo |-> 1, refresh |-> 3, logout |-> 1],
   [demo |-> 1, refresh |-> 3, crashRotation |-> 1],
   [demo |-> 2, refresh |-> 2, logout |-> 1],
   [demo |-> 1, refresh |-> 2, updateUser |-> 2, expireToken |-> 1],
   [demo |-> 1, refresh |-> 2, expireToken |-> 1, age |-> 2, sweep |-> 1]}}

\* Recommendations for a learner whose levels have content for some outcomes.
Quiet(calls) == Case(calls, Staff, With(Invites, <<>>), <<>>, <<>>)
Outcome(o, s, status, attempts, ofLevel) ==
  [outcome |-> o, skill |-> s, status |-> status, attempts |-> attempts, priority |-> 0, active |-> TRUE, ofLevel |-> ofLevel]
Stock(forS1, forS2) ==
  [content |-> (s1 :> forS1 @@ s2 :> forS2), skillOf |-> (o1 :> s1 @@ o2 :> s2 @@ o3 :> None), needs |-> {<<v2, v1>>},
   effect |-> [v \in {v1, v2, v3} |-> [o \in {o1, o2, o3} |-> IF v = v1 THEN 80 ELSE None]],
   near |-> [v \in {v1, v2, v3} |-> [o \in {o1, o2, o3} |-> None]]]
Recommended(calls, library_) == [Quiet(calls) EXCEPT !.rec =
  [active |-> l1, library |-> library_, rows |->
     l1 :> <<Outcome(o1, s1, "NOT_STARTED", 0, TRUE), Outcome(o2, s2, "IN_PROGRESS", 1, TRUE), Outcome(o3, None, "NOT_STARTED", 0, FALSE)>>
     @@ l2 :> <<Outcome(o1, s1, "NOT_STARTED", 1, TRUE), Outcome(o3, None, "NOT_STARTED", 0, TRUE)>>]]
Recommending ==
  {Recommended(calls, library_) : library_ \in {Stock(<<v1>>, <<>>), Stock(<<v1, v2>>, <<v3>>)},
     calls \in {[assign |-> 1, handle |-> 1, generate |-> 1, crash |-> 1],
                [assign |-> 1, handle |-> 1, achieve |-> 1, deleteContent |-> 1],
                [generate |-> 1, reject |-> 1, reorder |-> 1, confirm |-> 1],
                [generate |-> 1, replace |-> 1, confirm |-> 1, reject |-> 1],
                [generate |-> 1, replace |-> 2, crash |-> 1],
                [generate |-> 1, replace |-> 1, deleteContent |-> 1, confirm |-> 1]}}

\* Slides for two skills, and trainers for a deck.
WithDecks(calls, outcomes_) == [Quiet(calls) EXCEPT !.deck = [outcomes |-> outcomes_]]
Presenting ==
  {WithDecks(calls, With({s1, s2}, s1 :> TRUE)) : calls \in
     {[slides |-> 3], [slides |-> 2, crashAnswer |-> 1], [slides |-> 2, deleteTaught |-> 1],
      [slides |-> 1, startTrainer |-> 2, poll |-> 1, trainerMoves |-> 1],
      [slides |-> 1, startTrainer |-> 1, poll |-> 3, trainerMoves |-> 2],
      [slides |-> 1, startTrainer |-> 2, crashAnswer |-> 1]}}
  \cup {WithDecks([slides |-> 2], With({s1, s2}, s1 :> TRUE @@ s2 :> TRUE))}

\* A session is invited to, moved, cancelled and answered.
Inviting == {Quiet(calls) : calls \in
  {[createMeeting |-> 1, reschedule |-> 1, updateMeeting |-> 1, cancel |-> 1],
   [createMeeting |-> 1, reschedule |-> 1, crashCreate |-> 1],
   [createMeeting |-> 1, reschedule |-> 1, tick |-> 2, runReminder |-> 1],
   [createMeeting |-> 1, tick |-> 3, runReminder |-> 1, runMail |-> 1],
   [createMeeting |-> 1, answer |-> 2, report |-> 2],
   [createMeeting |-> 1, deleteInOutlook |-> 1, reschedule |-> 1, updateMeeting |-> 1, answer |-> 1, report |-> 1]}}

\* Two plans copy a level of one skill, and add to their copies.
Level == [skills |-> <<[inLevel |-> TRUE, own |-> None]>>, files |-> <<[skill |-> 1]>>,
          outcomes |-> <<[skill |-> 1, order |-> 0, enabled |-> TRUE, own |-> None]>>]
Copying == {[Quiet(calls) EXCEPT !.tree = Level] : calls \in
  {[copyTrack |-> 3, addOutcome |-> 1],
   [copyTrack |-> 2, addOutcome |-> 1, addSkill |-> 1, publish |-> 1],
   [copyTrack |-> 1, addSkill |-> 2, removeSkill |-> 1],
   [copyTrack |-> 1, addSkill |-> 1, addToLevel |-> 1, crashAdd |-> 1],
   [copyTrack |-> 1, addContent |-> 1, upload |-> 2, removeContent |-> 1, removeOutcome |-> 1]}}

\* Questions and rubrics are replaced, and read by an agent.
Assessing == {Quiet(calls) : calls \in
  {[putRubric |-> 2, context |-> 1], [putRubric |-> 2, crashPut |-> 1],
   [putBank |-> 2, addQuestion |-> 1, deleteQuestion |-> 1], [putBank |-> 1, putRubric |-> 1, context |-> 1]}}

\* Two learners, of whom one has come far, in two teams.
Held(l, status, score, verdict) == [learner |-> l, status |-> status, score |-> score, verdict |-> verdict, month |-> 1]
Watched(calls) == [Quiet(calls) EXCEPT !.figures =
  [member |-> (j1 :> [squad |-> q1, removed |-> FALSE, level |-> "B"] @@ j2 :> [squad |-> q2, removed |-> FALSE, level |-> None]),
   held |-> <<Held(j1, "COMPLETED", 80, "ACHIEVED"), Held(j1, "SCHEDULED", None, None), Held(j2, "SCHEDULED", None, None)>>,
   drafted |-> <<[learner |-> j1, status |-> "CONFIRMED", at |-> 1]>>,
   mastered |-> (j1 :> [achieved |-> 1, total |-> 2] @@ j2 :> [achieved |-> 0, total |-> 2])]]
Watching == {Watched(calls) : calls \in
  {[orgReport |-> 2, moveMember |-> 1, removeMember |-> 1], [orgReport |-> 1, completeHeld |-> 1, draft |-> 1, movePlan |-> 2],
   [trend |-> 1, moveMember |-> 1, completeHeld |-> 1]}}

AllCases == Assessing \cup Watching \cup Copying \cup Inviting \cup SigningIn \cup StayingIn \cup Founding \cup Accepting \cup Placing \cup Recommending \cup Presenting
AccountLists == {<<a1, a2>>, <<a1, a1>>}
TwoCallers == {c1, c2}
Alike == Permutations(TwoCallers)
=============================================================================
