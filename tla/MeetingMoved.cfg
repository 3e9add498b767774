\* A booked session moved twice, cancelled and suggested anew; Graph fails or is slow.
CONSTANTS
  None = None
  s1 = s1
  e1 = e1
  e2 = e2
  e3 = e3
  c1 = c1
  u1 = u1
  d1 = d1
  Sessions = {s1}
  Events = {e1, e2}
  CreateWorkers = {c1}
  UpdateWorkers = {u1}
  DispatchWorkers = {d1}
  Requests = {"reschedule", "reschedule2", "cancel", "suggest"}
  OperationOf <- MCOperationOf
  Booked <- AllBooked
  RetryLimit = 1
  KeyedDedup = TRUE
  Faults = {"graphError", "noJoinUrl"}
SPECIFICATION FairSpec
INVARIANTS
  MeetingIsManned
PROPERTIES
  RescheduleReachesTeams
  CancelledMeetingIsWithdrawn
\* every request may have been made and every job run
CHECK_DEADLOCK FALSE
