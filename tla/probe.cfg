CONSTANTS
  Callers = {c1, c2}
  Limit = 1
  FailThreshold = 2
  OpenFor = 2
  MinInterval = 1
  MaxWait = 2
  Cancels = {TRUE}
SPECIFICATION FairSpec
PROPERTY BreakerProbes
