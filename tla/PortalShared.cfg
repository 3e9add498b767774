SPECIFICATION PortalSpec
\* no call may be left
CHECK_DEADLOCK FALSE
CONSTANTS
  None = None
  p1 = p1
  p2 = p2
  p3 = p3
  i1 = i1
  i2 = i2
  i3 = i3
  t1 = t1
  t2 = t2
  t3 = t3
  t4 = t4
  a1 = a1
  a2 = a2
  k1 = k1
  k2 = k2
  k3 = k3
  k4 = k4
  c1 = c1
  c2 = c2
  r1 = r1
  r2 = r2
  r3 = r3
  r4 = r4
  h1 = h1
  h2 = h2
  l1 = l1
  l2 = l2
  g1 = g1
  g2 = g2
  m1 = m1
  m2 = m2
  m3 = m3
  m4 = m4
  m5 = m5
  m6 = m6
  s1 = s1
  s2 = s2
  o1 = o1
  o2 = o2
  o3 = o3
  v1 = v1
  v2 = v2
  v3 = v3
  d1 = d1
  d2 = d2
  d3 = d3
  d4 = d4
  e1 = e1
  e2 = e2
  e3 = e3
  e4 = e4
  x1 = x1
  x2 = x2
  w1 = w1
  w2 = w2
  y1 = y1
  y2 = y2
  j1 = j1
  j2 = j2
  q1 = q1
  q2 = q2
  Members = {j1, j2}
  Squads = {q1, q2}
  Plans = {y1, y2}
  Meetings = {w1, w2}
  Horizon = 4
  Assignments = {l1, l2}
  Recs = {g1, g2}
  Items = {m1, m2, m3, m4, m5, m6}
  Taught = {s1, s2}
  Decks = {d1, d2, d3, d4}
  Made = {e1, e2, e3, e4}
  Trainers = {x1, x2}
  Tokens = {r1, r2, r3, r4}
  Handshakes = {h1, h2}
  Callers <- TwoCallers
  People = {p1, p2, p3}
  Personal = {p3}
  Invites = {i1, i2, i3}
  Teams = {t1, t2, t3, t4}
  Accounts = {a1, a2}
  Learners = {k1, k2, k3, k4}
  Lists <- AccountLists
  Cases <- AllCases
SYMMETRY Alike
INVARIANTS
  PortalTypeOK
  TeamsGetTheirManager
  SignInHolds
  DeckIsLatest
  InvitationsHold
  PlansOwnTheirAdditions
  RubricsWeigh
  FiguresAreTrue
PROPERTIES
  RefusedForAReason
  RecommendationsStand
