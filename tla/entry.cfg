CONSTANTS
  MaxPlans = 2
  MaxOrders = 2
  Overlaps = {TRUE, FALSE}
  MaxFaults = 1
  Faults = {"unanswered", "cancel", "crash", "debug"}
SPECIFICATION RiskSpec
INVARIANTS TypeOK OneOrderPerPlan RowMatchesOrder TradesAreRemembered
PROPERTY PlanEnds
