\* A reschedule while the first meeting is being created; nothing fails.
CONSTANTS
  None = None
  s1 = s1
  e1 = e1
  e2 = e2
  e3 = e3
  c1 = c1
  u1 = u1
  d1 = d1
  Sessions = {s1}
  Events = {e1, e2, e3}
  CreateWorkers = {c1}
  UpdateWorkers = {u1}
  DispatchWorkers = {d1}
  Requests = {"confirm", "reschedule"}
  OperationOf <- MCOperationOf
  Booked <- NothingBooked
  RetryLimit = 1
  KeyedDedup = FALSE
  Faults = {}
SPECIFICATION Spec
SYMMETRY EventSymmetry
INVARIANTS
  NeverDoubleBooked
\* every request may have been made and every job run
CHECK_DEADLOCK FALSE
