\* Two cutoffs, 1 and 3, whose windows overlap; imports come in any order.
SPECIFICATION Spec
CONSTANTS
  None = None
  Quantum = 2
  FeeNum = 1
  FeeDen = 2
  MaximumListing = 12
  Horizon = 2
  MaximumAge = 1
  MinimumCount = 2
  SpreadNum = 1
  SpreadDen = 4
  LowDepth = 2
  Observations <- MCObservations
  Times <- MCTimes
  MaxSnapshots = 4
  Start = 1
  End = 3
  Cadence = 2
  Forward = 2
  RequireComplete = TRUE
INVARIANTS
  CasesMatchAnalysis
  BreakEvenAgrees
  ProfitsAgree
PROPERTIES
  NoLookAhead
  EvaluatedIsSettled
