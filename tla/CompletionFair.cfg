\* The webhook and the sweep complete two sessions, one out of the sweep's reach, while they are being cancelled.
CONSTANTS
  None = None
  s1 = s1
  s2 = s2
  x1 = x1
  x2 = x2
  a1 = a1
  a2 = a2
  o1 = o1
  o2 = o2
  Sweep = sweep
  Order <- TwoSessions
  Sessions = {s1, s2}
  Outcomes = {o1}
  OutcomesOf <- AllOutcomes
  Tracked = {o1}
  Trainers = {x1, x2}
  Dispatched <- EachDispatched
  Unreachable = {x1}
  Findings = {"unmatched"}
  Agents = {}
  About <- AnySession
  Answers = {}
  Webhooks = {w1}
  BatchSize = 2
  Recipients = {"learner", "manager"}
  Disturbances = {"unevaluated", "cancel"}
SPECIFICATION FairSpec
INVARIANTS
  FailuresEscalate
PROPERTIES
  LostWebhookRecovered
  CompletionReported
\* every call may have been made
CHECK_DEADLOCK FALSE
