SPECIFICATION Spec
CHECK_DEADLOCK FALSE
CONSTANTS
  None = None
  A = A
  B = B
  o1 = o1
  o2 = o2
  o3 = o3
  o4 = o4
  i1 = i1
  i2 = i2
  i3 = i3
  i4 = i4
  i5 = i5
  c1 = c1
  c2 = c2
  Callers <- TwoCallers
  Plans = {1, 2}
  Ids = {1, 2, 3, 4, 5}
  Cases <- AllCases
SYMMETRY Alike
INVARIANTS
  SessionsBelong
  ConfirmedMeets
PROPERTIES
  ProposalIsSound
  RefusedForLackOfDays
