SPECIFICATION OfficeSpec
\* no call may be left
CHECK_DEADLOCK FALSE
CONSTANTS
  None = None
  d1 = d1
  d2 = d2
  t1 = t1
  t2 = t2
  t3 = t3
  t4 = t4
  l1 = l1
  l2 = l2
  l3 = l3
  l4 = l4
  o1 = o1
  o2 = o2
  o3 = o3
  o4 = o4
  o5 = o5
  o6 = o6
  s1 = s1
  s2 = s2
  s3 = s3
  s4 = s4
  k1 = k1
  k2 = k2
  k3 = k3
  d3 = d3
  q1 = q1
  q2 = q2
  j1 = j1
  j2 = j2
  w1 = w1
  w2 = w2
  w3 = w3
  v1 = v1
  v2 = v2
  p1 = p1
  p2 = p2
  p3 = p3
  c1 = c1
  c2 = c2
  Units = {d1, d2, d3}
  UnitNames = {"Sales", "Support"}
  Crews = {q1, q2}
  Persons = {j1, j2}
  Papers = {w1, w2, w3}
  BatchSize = 2
  Pairs = {v1, v2}
  Lessons = {w1, w2}
  Slides = {v1, v2}
  Readers = {p1, p2, p3}
  TokenRole <- RoleOf
  Entries = {k1, k2, k3}
  Groups = {t1, t2}
  Limit = 1
  Callers <- TwoCallers
  Departments = {d1, d2}
  Tracks = {t1, t2, t3, t4}
  Levels = {l1, l2, l3, l4}
  Outcomes = {o1, o2, o3, o4, o5, o6}
  Skills = {s1, s2, s3, s4}
  Learners = {k1}
  Assignments = {1, 2, 3, 4}
  Cases <- AllCases
SYMMETRY Alike
INVARIANTS
  OfficeTypeOK
  OneOfEach
  ScriptsHold
  NightlyJobsHold
  BriefingsAreTrue
  ListsHold
PROPERTIES
  ListsKept
  RefusedOnlyInRaces
  CarriedForward
