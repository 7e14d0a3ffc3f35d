SPECIFICATION ExecSpec
CONSTANTS
  PipeSize = 2
  BufSize = 1
  Programs <- MCPrograms
INVARIANTS
  ReturnsInVain
PROPERTIES
  Answers
  WaitsForEver
  ReadsEnd
\* The function ends, or both processes wait.
CHECK_DEADLOCK FALSE
