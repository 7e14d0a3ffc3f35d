SPECIFICATION Spec
CONSTANTS
  Programs <- MCPrograms
  Nodes <- MCNodes
INVARIANTS
  CodeConsistent
  OutcomeIsRight
  CodeIsSource
PROPERTY Terminates
\* Code generation stops.
CHECK_DEADLOCK FALSE
