CONSTANTS
  RiskRuns = {k1}
  DecideRuns = {}
  Reconciles = {r1}
  Boot = boot
  FullQty = 3
  Residual = 1
  TPLevels = 2
  RecoverAfter = 1
  MaxTightens = 0
  Faults = {"store", "order", "crash"}
SPECIFICATION FairSpec
INVARIANT OneOrderPerLevel
PROPERTIES ReopenIsJustified LifecycleSpec SubmittedCloseRecovers GoneIsClosed
