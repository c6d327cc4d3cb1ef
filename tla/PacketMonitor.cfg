SPECIFICATION FairSpec
INVARIANTS
  ResponseFits
PROPERTIES
  CommandReturns
  StopReturns
  ExitsWithPlugin
