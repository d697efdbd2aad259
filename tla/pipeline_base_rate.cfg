\* Two modules at the base frequency: how many frames they are assembled into.
SPECIFICATION Spec
CONSTANTS
  SourceCount = 2
  BlockCapacity = 1
  MaxFrames = 2
  CalculationMayFail = FALSE
INVARIANTS
  FramesKeepBaseRate
