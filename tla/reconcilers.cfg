CONSTANTS
  RiskRuns = {k1}
  DecideRuns = {d1}
  Reconciles = {r1, r2}
  Boot = boot
  FullQty = 2
  Residual = 1
  TPLevels = 0
  RecoverAfter = 1
  MaxTightens = 1
  Faults = {"omit"}
SPECIFICATION Spec
SYMMETRY Symmetry
INVARIANTS TypeOK LatchExclusion ClosedMeansGone SummaryMeansGone
