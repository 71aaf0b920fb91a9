CONSTANTS
  Junk = Junk
  CallerTags <- MCExitTags
  Whitelist <- MCEchoWhitelist
  Methods <- MCMethods
  EchoMethod = "echo"
  ReplySignal = "replied"
  UserSubs <- MCUserSubs
  MaxSends = 2
  MaxExtSignals = 0
  FaultRate = 0
  NoCode = NoCode
SPECIFICATION Spec
CHECK_DEADLOCK FALSE
PROPERTY ExitCommandEndsCallee
