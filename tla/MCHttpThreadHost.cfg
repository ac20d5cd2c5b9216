CONSTANTS
  N = 2
  Signalled = {}
  Streaming = {1, 2}
  Max = 1
  Abortable = {1, 2}
SPECIFICATION ThreadSpec
PROPERTY HostRequestsAreHeard
CHECK_DEADLOCK FALSE
