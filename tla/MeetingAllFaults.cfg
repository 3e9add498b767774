\* Every fault, with remove cancelling the session and the agent API on it.
CONSTANTS
  None = None
  s1 = s1
  e1 = e1
  e2 = e2
  e3 = e3
  c1 = c1
  u1 = u1
  d1 = d1
  Sessions = {s1}
  Events = {e1, e2}
  CreateWorkers = {c1}
  UpdateWorkers = {u1}
  DispatchWorkers = {d1}
  Requests = {"confirm", "remove", "start", "complete"}
  OperationOf <- MCOperationOf
  Booked <- NothingBooked
  RetryLimit = 1
  KeyedDedup = FALSE
  Faults = {"graphError", "lostReply", "noJoinUrl", "outlook", "noOrganizer", "agentError", "crash", "apiCrash"}
SPECIFICATION Spec
INVARIANTS
  TypeOK
PROPERTIES
  CancelledNotReinvited
\* every request may have been made and every job run
CHECK_DEADLOCK FALSE
