CONSTANTS
  MaxPlans = 1
  MaxOrders = 1
  Overlaps = {FALSE}
  MaxFaults = 0
  Faults = {}
SPECIFICATION FairSpec
PROPERTY TradesAreReconciled
