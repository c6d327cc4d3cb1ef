CONSTANTS
  MaxQueue = 1
  Rejected = {}
  MaxPackets = 2
  MaxSessions = 1
SPECIFICATION Spec
INVARIANTS
  PublishQueueBounded
