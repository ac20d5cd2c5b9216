CONSTANTS
  MaxRequests = 3
  MaxCancels = 1
  MaxResources = 2
  MaxGeneration = 2
SPECIFICATION FairSpec
INVARIANTS
  OwnershipConserved
  HandlersAreAnswered
  ResourceIdsKeepTheirFile
  OpenFilesAreReachable
  TeardownIsClean
PROPERTIES
  TeardownEnds
CHECK_DEADLOCK FALSE
