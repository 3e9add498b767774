\* A plan's file against the nightly sweep; nothing fails.
CONSTANTS
  None = None
  Reports = {}
  Media = {m1}
  PlanMedia = {p1}
  Recipients = 2
  Generators = {g1}
  Senders = {d1, d2}
  GenerateRetries = 1
  SendRetries = 0
  Resends = {q1}
  Deletions = {x1, x2}
  Faults = {}
SPECIFICATION Spec
INVARIANT PlanBlobKept
