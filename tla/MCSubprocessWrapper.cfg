CONSTANTS
  Junk = Junk
  CallerTags <- MCAllTags
  Whitelist <- MCWhitelist
  Methods <- MCMethods
  EchoMethod = "echo"
  ReplySignal = "replied"
  UserSubs <- MCUserSubs
  MaxSends = 2
  MaxExtSignals = 0
  FaultRate = 0
  NoCode = NoCode
SPECIFICATION Spec
INVARIANT TypeOK
INVARIANT MethodCallsFollowSends
PROPERTY CallerStopEndsChild
PROPERTY ChildExitStopsCaller
PROPERTY QueueDrains
INVARIANT NoCommandAfterExit
CHECK_DEADLOCK FALSE
