------------------------ MODULE MCSessionCompletion ------------------------
(* Instances of SessionCompletion for TLC. *)
EXTENDS SessionCompletion, TLC

CONSTANTS s1, s2, x1, x2, o1, o2, a1, a2

\* s1 ends before s2.
OneSession == <<s1>>
TwoSessions == <<s1, s2>>

\* No session's time is up: the sweep has nothing to do.
NotYet == <<>>

\* Every session covers every outcome.
AllOutcomes == [s \in Sessions |-> Outcomes]

\* The trainer was sent to each session, or to none.
EachDispatched == [s \in Sessions |-> IF s = s1 THEN x1 ELSE x2]
NoneDispatched == [s \in Sessions |-> None]

\* A call may be about any session, or the two calls are about one each.
AnySession == [c \in Agents \cup Answers |-> Sessions]
OneEach == [c \in Agents \cup Answers |-> IF c = a1 THEN {s1} ELSE {s2}]

\* Webhooks are interchangeable, and so are the agent's calls.
CallSymmetry == Permutations(Webhooks) \cup Permutations(Agents)
============================================================================
