CONSTANTS
  Client = {c1, c2}
  None = None
  MaxRequests = 3
  MaxFailures = 1
SPECIFICATION FairSpec
INVARIANTS
  TypeOK
  InStep
PROPERTIES
  RequestAnswered
  ThreadEnds
  ServiceImplemented
