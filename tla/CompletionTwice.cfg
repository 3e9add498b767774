\* A webhook arrives while the sweep completes the session.
CONSTANTS
  None = None
  s1 = s1
  s2 = s2
  x1 = x1
  x2 = x2
  a1 = a1
  a2 = a2
  o1 = o1
  o2 = o2
  Sweep = sweep
  Order <- OneSession
  Sessions = {s1}
  Outcomes = {o1}
  OutcomesOf <- AllOutcomes
  Tracked = {o1}
  Trainers = {x1}
  Dispatched <- EachDispatched
  Unreachable = {}
  Findings = {"unmatched"}
  Agents = {}
  About <- AnySession
  Answers = {}
  Webhooks = {w1}
  BatchSize = 1
  Recipients = {"learner", "manager"}
  Disturbances = {}
SPECIFICATION Spec
INVARIANTS
  CompletedOnce
\* every call may have been made
CHECK_DEADLOCK FALSE
