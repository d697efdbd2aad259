\* The system under the fairness of its scheduler and timer; a calculation may
\* fail on any frame and abandon the rest of its block.
SPECIFICATION FairSpec
CONSTANTS
  SourceCount = 2
  BlockCapacity = 1
  MaxFrames = 1
  CalculationMayFail = TRUE
PROPERTIES
  CleanupCompletes
  FailureStopsServer
