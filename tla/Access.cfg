SPECIFICATION Spec
CONSTANTS
  Users = {u1, u2}
  Servers = {s1}
  TTL = 1
  Skew <- OneAhead
  MaxTime = 3
  MaxCommands = 2
  MaxCrashes = 1
  None = none
INVARIANTS TypeOK ToldTrue NeverStuck
PROPERTIES TicketHonoured AdmittedInTime
SYMMETRY UserSymmetry
CHECK_DEADLOCK FALSE
