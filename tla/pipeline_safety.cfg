\* Two modules, blocks of up to two frames, three frames per module and session.
SPECIFICATION Spec
CONSTANTS
  SourceCount = 2
  BlockCapacity = 2
  MaxFrames = 3
  CalculationMayFail = FALSE
INVARIANTS
  TypeOK
  JoinedBeforeTeardown
  ResourcesOutliveTheirUsers
  BlocksHaveAnchors
  StoppedByItselfIsError
  FailureReported
  NoFrameDeliveredTwice
PROPERTIES
  EachRecordAdvancesOneSample
  RecordsEverySample
