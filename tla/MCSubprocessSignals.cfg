CONSTANTS
  Junk = Junk
  CallerTags <- MCSignalTags
  Whitelist <- MCEchoWhitelist
  Methods <- MCMethods
  EchoMethod = "echo"
  ReplySignal = "replied"
  UserSubs <- MCUserSubs
  MaxSends = 1
  MaxExtSignals = 2
  FaultRate = 3
  NoCode = NoCode
SPECIFICATION Spec
INVARIANT CallbacksFollowSends
PROPERTY CallerStopEndsChild
PROPERTY ChildExitStopsCaller
PROPERTY QueueDrains
CHECK_DEADLOCK FALSE
