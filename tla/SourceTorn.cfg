\* A source-backed index; every edit has a timestamp of its own.
CONSTANTS
  p1 = p1
  p2 = p2
  a = a
  b = b
  c = c
  Procs = {p1}
  NFiles = 1
  Contents = {a, b}
  Size <- SameSize
  None = none
  MaxTime = 2
  Options <- Alone
SPECIFICATION Spec
INVARIANTS
  FiltersOfBytes
