CONSTANTS
  MaxQueue = 1
  Rejected = {}
  MaxPackets = 2
  MaxSessions = 2
SPECIFICATION FairSpec
PROPERTIES
  ReleaseReturns
  StreamImplements
  ReliableImplements
