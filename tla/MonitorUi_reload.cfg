CONSTANTS
  Delay = 1
SPECIFICATION FairSpec
PROPERTIES
  SeesReload
