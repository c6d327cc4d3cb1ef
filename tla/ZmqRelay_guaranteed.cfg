CONSTANTS
  MaxQueue = 2
  Rejected = {}
  MaxPackets = 2
  MaxSessions = 1
SPECIFICATION FairSpec
PROPERTIES
  GuaranteedDelivery
