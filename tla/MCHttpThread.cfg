CONSTANTS
  N = 3
  Signalled = {2, 3}
  Streaming = {2}
  Max = 1
  Abortable = {2}
SPECIFICATION ThreadSpec
INVARIANT EachTaskInOnePlace
PROPERTIES
  AbortSettles
  EventuallySettled
CHECK_DEADLOCK FALSE
