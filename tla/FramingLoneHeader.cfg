SPECIFICATION Spec
CONSTANTS
  HeaderLen = 2
  RequestChunk = 6
  Overheads <- BothKeys
  Counters = {1, 2}
  Sizes <- MixedSizes
  MaxMessages = 2
INVARIANTS HeadersAreHeaders
CHECK_DEADLOCK FALSE
