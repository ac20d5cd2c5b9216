CONSTANTS
  MaxRequests = 1
  MaxFailures = 0
SPECIFICATION JscSpec
INVARIANT RequestsAreAnswered
CHECK_DEADLOCK FALSE
