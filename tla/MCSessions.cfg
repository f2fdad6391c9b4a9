SPECIFICATION Spec
CONSTANTS
  a1 = a1
  a2 = a2
  c1 = c1
  c2 = c2
  r1 = r1
  r2 = r2
  none = none
  Account <- MCAccount
  Connection <- MCConnection
  Request <- MCRequest
  None <- none
  MaxSessions = 1
  Ttl = 1
  MaxTime = 1
  MaxIssued = 3
SYMMETRY Symmetry
INVARIANTS
  TypeOK
  WelcomedIsReached
  SessionsAreLimited
