CONSTANTS
  RiskRuns = {k1}
  DecideRuns = {d1}
  Reconciles = {}
  Boot = boot
  FullQty = 1
  Residual = 0
  TPLevels = 1
  RecoverAfter = 1
  MaxTightens = 1
  Faults = {}
SPECIFICATION Spec
PROPERTY TPHitIsKept
