CONSTANTS
  MaxRequests = 1
  MaxWrites = 2
  MaxChunks = 2
  MaxFailures = 3
SPECIFICATION FairSpec
INVARIANTS
  BuffersAreCarried
  TaskletRefsExact
  ResponseIsWhole
PROPERTY FetchSettles
CHECK_DEADLOCK FALSE
