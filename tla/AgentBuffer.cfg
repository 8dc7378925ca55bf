SPECIFICATION FairSpec
CONSTANTS
  buflength = 5
  warn_level = 60
  normal_level = 40
  MaxEvents = 12
INVARIANTS ReturnsToNormal NormalMeansRoom
PROPERTIES ImplementsQueue EventsAreSent NormalIsNoticed
CHECK_DEADLOCK FALSE
