SPECIFICATION Spec
CONSTANTS
  Buffers <- MCBuffers
INVARIANTS
  TokensConsistent
  PlacesFaithful
  TextFitsId
  GapsAreComments
PROPERTIES
  Terminates
\* tokenize returns, exits or crashes.
CHECK_DEADLOCK FALSE
