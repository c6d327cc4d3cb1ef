CONSTANTS
  MaxQueue = 1
  Rejected = {2}
  MaxPackets = 4
  MaxSessions = 2
SPECIFICATION Spec
INVARIANTS
  TypeOK
  NoWorkerOutlivesRelay
  StreamInOrder
  ReliableInOrder
  PathsAgree
  StatsAgree
  ReliableBounded
PROPERTIES
  SourceImplemented
