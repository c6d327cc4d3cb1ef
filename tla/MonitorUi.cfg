CONSTANTS
  Delay = 1
SPECIFICATION FairSpec
INVARIANTS
  AnswersThisPoll
  SteadyShown
  ShownWhileThere
PROPERTIES
  NoticesUnload
  ThreadsEnd
