CONSTANTS
  MaxRequests = 2
  MaxCancels = 0
  MaxResources = 1
  MaxGeneration = 2
SPECIFICATION Spec
INVARIANT EveryBufferHasAnOwner
CHECK_DEADLOCK FALSE
