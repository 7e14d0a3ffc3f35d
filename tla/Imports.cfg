SPECIFICATION Spec
CONSTANTS
  p = p
  q = q
  r = r
  f0 = f0
  f1 = f1
  f2 = f2
  Path = {p, q, r}
  RootKey = RootKey
  File = {f0, f1, f2}
  RootFile = f0
  Programs <- MCPrograms
  Missing = Missing
  Unreadable = Unreadable
INVARIANTS
  LoadedOnce
  ExactlyTheUsed
PROPERTIES
  Terminates
\* Loading ends.
CHECK_DEADLOCK FALSE
