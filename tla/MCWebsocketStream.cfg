CONSTANTS
  Opcodes = {2}
  PayloadLens <- MCSmallLens
  MaskKeys <- MCNoMask
  CloseCodes = {1000}
  CloseReasons <- MCShortReasons
  Chunks <- MCChunks
  MaxFrames = 2
  MaxSmallReads = 3
SPECIFICATION Spec
CHECK_DEADLOCK FALSE
PROPERTY ImplementsFrameChannel
