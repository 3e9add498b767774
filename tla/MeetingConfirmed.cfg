\* Two overlapping confirms, a silent reschedule and a cancel; Graph fails or is slow.
CONSTANTS
  None = None
  s1 = s1
  e1 = e1
  e2 = e2
  e3 = e3
  c1 = c1
  u1 = u1
  d1 = d1
  Sessions = {s1}
  Events = {e1, e2, e3}
  CreateWorkers = {c1}
  UpdateWorkers = {u1}
  DispatchWorkers = {d1}
  Requests = {"confirm", "confirm2", "silentReschedule", "cancel"}
  OperationOf <- MCOperationOf
  Booked <- NothingBooked
  RetryLimit = 2
  KeyedDedup = FALSE
  Faults = {"graphError", "noJoinUrl"}
SPECIFICATION FairSpec
INVARIANTS
  RemovalOwed
  NoOrphanedMeeting
PROPERTIES
  ConfirmedIsInvited
\* every request may have been made and every job run
CHECK_DEADLOCK FALSE
