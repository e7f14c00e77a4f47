CONSTANTS
  MMRThreshold = 10000
  Setups <- MCSetups
  Panels <- MCPanels
  Views <- MCViews
  Funds <- MCFunds
  Prices <- MCPrices
  ATRs <- MCATRs
  FlatPatches <- MCFlatPatches
  Patches <- MCPatches
  MaxPositions = 2
  CooldownRounds = 2
SPECIFICATION Spec
INVARIANTS TypeOK HitsInOrder BreakevenAfterTP1 PlanIsSound
PROPERTIES StopOnlyTightens ReversalIsConfirmed ReversalCoolsDown
CHECK_DEADLOCK FALSE
