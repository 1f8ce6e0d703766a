\* Two processes share the cache of a tree that is eventually left alone; or a
\* process packs the corpus, with coarse timestamps and faults.
CONSTANTS
  p1 = p1
  p2 = p2
  a = a
  b = b
  c = c
  Procs = {p1, p2}
  NFiles = 1
  Contents = {a, b, c}
  Size <- Sizes
  None = none
  MaxTime = 2
  Options <- SharedOrPacked
SPECIFICATION FairSpec
INVARIANTS
  TypeOK
  RunSeesItsTime
  TimeInv
  PackedInv
  PackedFiltersOfBytes
PROPERTIES
  FreshVouchesForBytes
  Settles
