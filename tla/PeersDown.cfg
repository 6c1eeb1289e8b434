SPECIFICATION FairSpec
CONSTANTS
  MaxConns = 2
  MaxPeers = 2
  Users = {u1}
  Nobody = nobody
PROPERTIES DownDetected
CHECK_DEADLOCK FALSE
