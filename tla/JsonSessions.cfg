\* More logins than the limit, rotations and revocations of two requests, one cut.
SPECIFICATION Spec
CONSTANTS
  u1 = u1  u2 = u2
  s1 = s1  s2 = s2  s3 = s3
  t1 = t1  t2 = t2  t3 = t3  t4 = t4
  r1 = r1  r2 = r2
  Users <- ModelUsers
  Ids <- ModelIds
  Tokens <- ModelTokens
  Requests <- ModelRequests
  UserLimit = 2
  TotalLimit = 2
  MaxTime = 1
  MaxFailures = 1
  NoRow = NoRow
  Idle = Idle
SYMMETRY Symmetric
INVARIANTS RevokedStaysOut OneWinner LimitsHold
PROPERTIES LoginsCoexist
CHECK_DEADLOCK FALSE
