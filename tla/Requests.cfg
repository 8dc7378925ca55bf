SPECIFICATION FairSpec
CONSTANTS
  Space = 5
  MaxRequests = 3
  Starts <- AnyStart
INVARIANTS AnswersAreOwn RequestsAreHandledOnce
PROPERTIES OnlyRequestsAreDispatched ImplementsRemoteCalls Drains
CHECK_DEADLOCK FALSE
