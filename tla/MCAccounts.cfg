\* Three sessions, two admins, a salesman.
SPECIFICATION Spec
CONSTANTS
  ann = ann
  bob = bob
  meg = meg
  new = new
  reps = reps
  heads = heads
  p0 = p0
  p1 = p1
  p2 = p2
  office = office
  road = road
  User = {ann, bob, meg, new}
  NoUser = NoUser
  Group = {reps, heads}
  NoGroup = NoGroup
  Password = {p0, p1, p2}
  Address = {office, road}
  Session = {a, b, c}
  Request <- MCRequests
  FirstUsers <- MCUsers
  FirstGroups <- MCGroups
  FirstTokens <- MCTokens
  FirstFailures <- MCFailures
  Window = 2
  Retention = 2
  Limit <- MCLimit
  MaxTime = 2
SYMMETRY Symmetry
INVARIANTS
  AnAdminRemains
  PasswordChangeEndsSessions
  GroupGivesRole
  OvershootIsBounded
  ReleaseIsExact
CHECK_DEADLOCK FALSE
