\* One session, every path to its completion and everything that can go wrong.
CONSTANTS
  None = None
  s1 = s1
  s2 = s2
  x1 = x1
  x2 = x2
  a1 = a1
  a2 = a2
  o1 = o1
  o2 = o2
  Sweep = sweep
  Order <- OneSession
  Sessions = {s1}
  Outcomes = {o1}
  OutcomesOf <- AllOutcomes
  Tracked = {o1}
  Trainers = {x1, x2}
  Dispatched <- NoneDispatched
  Unreachable = {}
  Findings = {"failed"}
  Agents = {a1}
  About <- AnySession
  Answers = {n1}
  Webhooks = {}
  BatchSize = 1
  Recipients = {"learner"}
  Disturbances = {"dbError", "crash", "enqueueError", "recommendationError", "trainerDown", "unevaluated", "cancel", "withdraw", "redispatch"}
SPECIFICATION Spec
INVARIANTS
  TypeOK
  AnnouncedAfterCommit
\* every call may have been made
CHECK_DEADLOCK FALSE
