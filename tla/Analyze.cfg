SPECIFICATION Spec
CONSTANTS
  m1 = m1
  m2 = m2
  Import <- MCImport
  Settings <- MCSettings
  AnalyzeBody <- MCAnalyzeBody
  Programs <- MCPrograms
INVARIANTS
  TablesConsistent
  ReadyToGenerate
  VerdictIsRight
\* The analysis ends.
CHECK_DEADLOCK FALSE
