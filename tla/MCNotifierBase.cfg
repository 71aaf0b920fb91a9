\* Two notifications, each icon argument kind, from our own bus or another.
CONSTANTS
  Nids = {1, 2}
  AppIcons = {"", "xpra", "/usr/share/xpra/icons/xpra.png"}
  AbsPaths = {"/usr/share/xpra/icons/xpra.png"}
  IconExts = {"none", "png", "svg"}
  DbusIds = {"", "local", "remote"}
  LocalDbusId = "local"
  MaxIcons = 3
SPECIFICATION Spec
INVARIANT NoOrphanIcon
CHECK_DEADLOCK FALSE
