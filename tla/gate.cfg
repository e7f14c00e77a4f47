CONSTANTS
  Callers = {c1, c2, c3}
  Limit = 1
  FailThreshold = 2
  OpenFor = 2
  MinInterval = 2
  MaxWait = 2
  Cancels = {TRUE, FALSE}
SPECIFICATION FairSpec
INVARIANTS TypeOK WithinLimit
PROPERTIES RequestsRespectCooldown CallsAreSpaced OneProbeOnly CallsEndUncancelled BreakerProbesUncancelled
