SPECIFICATION Spec
CONSTANTS
  Buffers <- MCOperators
INVARIANTS
  NeverCrashes
\* tokenize returns, exits or crashes.
CHECK_DEADLOCK FALSE
