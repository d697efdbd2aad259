CONSTANTS
  Modules = {"m"}
  ModuleType <- MCModuleType
  Channels = {0, 16}
  Names = {"a", "b"}
  Formulas <- MCFormulas
  ArchiveRates = {1, 10}
  ChannelRates = {1000}
  Ranges = {0}
  InitialDatabases <- MCInitialDatabases
  CalibrationTables <- MCTables
  MaxEdits = 3
  MaxFailures = 1
SPECIFICATION Spec
INVARIANTS
  TypeOK
  ViewsMatchDatabase
  SourceWithinConfiguration
  UnmarkedConfigurationLoads
PROPERTIES
  CalibrationServesItsSensor
