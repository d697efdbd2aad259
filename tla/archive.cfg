\* Two files, three frames, a writer that may fail or die anywhere, and a reader.
\* An archive that was never described stops for good once it is closed or its
\* writer is dead.
SPECIFICATION Spec
CONSTANTS
  FileCount = 2
  Period <- MCPeriod
  MaxFrame = 3
INVARIANTS
  TypeOK
  DescribedFilesExist
  HeaderCountsRecords
  CleanArchiveIsComplete
  ClosedArchiveIsReadable
CHECK_DEADLOCK FALSE
