\* A report, a content file and a plan file, the nightly sweep, and every fault.
CONSTANTS
  None = None
  Reports = {r1}
  Media = {m1}
  PlanMedia = {p1}
  Recipients = 2
  Generators = {g1}
  Senders = {d1, d2}
  GenerateRetries = 1
  SendRetries = 0
  Resends = {q1}
  Deletions = {x1, x2}
  Faults = {"error", "lostReply", "crash"}
SPECIFICATION FairSpec
CONSTRAINT ReportsOrFiles
INVARIANTS
  TypeOK
  NothingIsLost
PROPERTIES
  ReportSettles
  OrphanRemoved
