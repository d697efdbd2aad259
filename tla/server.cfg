CONSTANTS
  Modules = {1, 2, 3, 4}
  ModuleType <- MCModuleType
  Channels = {0, 16}
  Names = {"a", "b", "c", "d", "e"}
  Formulas <- MCFormulas
  ArchiveRates = {10}
  ChannelRates = {1000}
  Ranges = {0}
  InitialDatabases <- MCInitialDatabases
  SavedIds = {1, 3}
  Samples <- MCSamples
SPECIFICATION Spec
INVARIANTS
  TypeOK
  WindowAgreesWithController
  AcceptsExactlyTheSound
  FrameIsConsistent
  HardwareFollowsMeasurement
