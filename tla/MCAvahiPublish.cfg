\* One daemon change and one update_txt, without collisions.
CONSTANTS
  Addrs <- MCAddrs
  Wildcard <- MCWildcard
  NoPub = NoPub
  ServerStates <- MCQuietStates
  RUNNING = "running"
  COLLISION = "collision"
  Txts <- MCTxts
  Text0 = "txt0"
  MaxChanges = 1
  MaxUpdates = 1
SPECIFICATION Spec
CHECK_DEADLOCK FALSE
PROPERTY PublishesLatest
