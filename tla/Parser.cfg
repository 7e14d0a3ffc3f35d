SPECIFICATION Spec
CONSTANTS
  Texts <- MCTexts
  Builds = {TRUE, FALSE}
INVARIANTS
  StackConsistent
  TreeIsText
  AcceptsLeading
PROPERTIES
  ReturnContract
  Terminates
\* Parsing stops.
CHECK_DEADLOCK FALSE
