\* A focus change and a draw answered while the writer drains the queue.
CONSTANTS
  Wids = {1}
  ServerTypes = {"draw", "new-window", "bogus"}
  MaxIn = 1
  MaxFocus = 1
SPECIFICATION Spec
PROPERTY PacketsWritten
CHECK_DEADLOCK FALSE
