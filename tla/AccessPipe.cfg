SPECIFICATION Spec
CONSTANTS
  Users = {u1, u2}
  Servers = {s1}
  TTL = 1
  Skew <- OneAhead
  MaxTime = 3
  MaxCommands = 2
  MaxCrashes = 0
  None = none
INVARIANT ServersStayUp
SYMMETRY UserSymmetry
CHECK_DEADLOCK FALSE
