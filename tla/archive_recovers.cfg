\* The same, for a reader that has run into the end of a file: refuted.
SPECIFICATION Spec
CONSTANTS
  FileCount = 2
  Period <- MCPeriod
  MaxFrame = 2
INVARIANTS
  ReadingRecovers
CHECK_DEADLOCK FALSE
