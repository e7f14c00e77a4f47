CONSTANTS
  RiskRuns = {k1}
  DecideRuns = {}
  Reconciles = {r1}
  Boot = boot
  FullQty = 2
  Residual = 0
  TPLevels = 0
  RecoverAfter = 2
  MaxTightens = 0
  Faults = {}
SPECIFICATION FairSpec
PROPERTY ArmedCloseRecovers
