SPECIFICATION Spec
CONSTANTS
  Word <- MCWord
  Option <- MCOption
  Null = Null
  CommandLines <- MCCommandLines
  Sources <- MCSources
INVARIANTS
  OptionsAsGiven
  LinkerReadsObject
  FilesConsistent
PROPERTIES
  BothEnd
\* The compiler exits.
CHECK_DEADLOCK FALSE
