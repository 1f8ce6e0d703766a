SPECIFICATION Spec
CONSTANTS
  Paths = {1, 2}
  Contents <- MCContents
  IndexOptions <- MCIndexOptions
  MaxCorpus = 300
  PlannerCorpus = 200
  PlannerGrams = 1
  Slips <- MCSlips
  MaxFanout = 1
  InitialDocuments <- MCInitialDocuments
  Changes <- MCChanges
  Totals <- MCTotals
  Queries <- MCQueries
  Scopes <- MCScopes
  Measurements <- MCMeasurements
  Features = {"simd", "postings"}
  MinQueries = 2
  FallbackPercent = 50
  MaxFallbacks = 1
  GatePercent = 25
  RollbackPercent = 50
  MaxAppends = 2
  MaxQueryOps = 2
  MaxOps = 4
INVARIANT AppendInv
INVARIANT PlansAgree
INVARIANT ReleaseInv
CHECK_DEADLOCK FALSE
