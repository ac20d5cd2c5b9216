CONSTANTS
  MaxRequests = 3
  MaxFailures = 2
SPECIFICATION FairSpec
INVARIANTS
  RequestsAreAnswered
  AnswersInOrder
  PayloadsConserved
PROPERTIES
  ShutdownStops
CHECK_DEADLOCK FALSE
