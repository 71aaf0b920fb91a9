CONSTANTS
  Addrs <- MCAddrs
  Wildcard <- MCWildcard
  NoPub = NoPub
  ServerStates <- MCServerStates
  RUNNING = "running"
  COLLISION = "collision"
  Txts <- MCTxts
  Text0 = "txt0"
  MaxChanges = 3
  MaxUpdates = 2
SPECIFICATION Spec
CHECK_DEADLOCK FALSE
INVARIANT PublishOnlyWhileHeld
PROPERTY CollisionStops
