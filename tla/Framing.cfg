SPECIFICATION Spec
CONSTANTS
  HeaderLen = 2
  RequestChunk = 6
  Overheads <- BothKeys
  Counters = {1, 2}
  Sizes <- MixedSizes
  MaxMessages = 2
INVARIANTS TypeOK MessagesArriveWhole NothingIsKept
CHECK_DEADLOCK FALSE
