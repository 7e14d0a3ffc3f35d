\* The whole interface, with remove.
SPECIFICATION FullSpec
CONSTANTS
  a = a
  b = b
  c = c
  d = d
  Key = {a, b, c, d}
  Value = {x, y}
  Hash <- MCHash
  InitialCapacity = 2
  MaxModifications = 4
  None = None
INVARIANTS
  SizeCountsUsed
\* jane_panic ends the program.
CHECK_DEADLOCK FALSE
