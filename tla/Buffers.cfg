SPECIFICATION Spec
CONSTANTS
  Buf = {x, y, z}
  List = {"list"}
  Nul = "NUL"
  Junk = "junk"
  Strings <- MCStrings
  Files <- MCFiles
  Directories <- MCDirectories
  MinCapacity = 2
  MaxInt = 15
  CwdSize = 1
  MaxCalls = 4
SYMMETRY Symmetry
INVARIANTS
  TypeOK
  TerminatorInPlace
  EqualKeysHashEqual
PROPERTIES
  ImplementsText
  CwdHidesName
  FetchOverflows
\* The calls are bounded.
CHECK_DEADLOCK FALSE
