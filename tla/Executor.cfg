SPECIFICATION FairSpec
CONSTANTS
  NumPlugins = 2
  MaxSent = 2
CHECK_DEADLOCK FALSE
INVARIANTS
  IInv
  ReturnIsQuiet
  AllClosedMeansAllHandled
PROPERTIES
  SentIsTaken
  CanceledReturns
  AllClosedReturns
