SPECIFICATION FairSpec
CONSTANTS
  MaxConns = 3
  MaxPeers = 2
  Users = {u1}
  Nobody = nobody
INVARIANTS TypeOK NamesUnique AnswersReturn ActiveConnected
PROPERTIES LossHandled
CHECK_DEADLOCK FALSE
