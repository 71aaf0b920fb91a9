CONSTANTS
  NConfDirs = 2
SPECIFICATION Spec
PROPERTY RegistrationEnds
