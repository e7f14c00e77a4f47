----------------------------- MODULE RiskMath ------------------------------
(***************************************************************************)
(* The arithmetic of a position: its first stop and take-profits, its size *)
(* and leverage, and how a price or a decision moves the plan.  Prices are *)
(* integers, percentages and tenths are rounded down, so that a distance   *)
(* or a size is at most what the code computes.                            *)
(***************************************************************************)
EXTENDS Integers, Sequences, FiniteSetsExt

CONSTANT MMRThreshold  \* margin from which the maintenance margin is high
ASSUME MMRThresholdAssumption == MMRThreshold \in Nat

Sides == {"long", "short"}
NoSide == "none"

\* The price d further in the direction in which the side earns.
Toward(side, p, d) == IF side = "short" THEN p - d ELSE p + d
Beyond(side, a, b) == IF side = "short" THEN a < b ELSE a > b
Further(side, a, b) == IF Beyond(side, a, b) THEN a ELSE b

Pct(x, p) == (x * p) \div 100
Tenths(x, t) == (x * t) \div 10

-----------------------------------------------------------------------------
(* The first stop and take-profits of a plan (risk/initexit).              *)

\* The nearest structure level on the losing side of the entry.
StructureDistance(side, entry, candidates) ==
  LET behind == {c \in candidates : Beyond(side, entry, c)} IN
  IF behind = {} THEN 0
  ELSE IF side = "short" THEN Min(behind) - entry ELSE entry - Max(behind)

StopDistance(policy, side, entry, atr, candidates, x) ==
  Max({Tenths(atr, x.stopATR), Pct(entry, x.minStop),
       IF policy = "fixed_rr" THEN 0 ELSE StructureDistance(side, entry, candidates)})

\* A take-profit gives way to the first structure level before it.
AdjustTP(side, entry, fixed, candidates, buffer) ==
  LET before == {c \in candidates : Beyond(side, c, entry) /\ Beyond(side, fixed, c)}
      level  == IF side = "short" THEN Max(before) ELSE Min(before)
      next   == Toward(side, level, -Pct(level, buffer))
  IN IF before # {} /\ Beyond(side, next, entry) /\ Beyond(side, fixed, next)
     THEN next ELSE fixed

InitialExits(policy, side, entry, atr, candidates, x) ==
  LET dist  == StopDistance(policy, side, entry, atr, candidates, x)
      tp(i) == Toward(side, entry, Tenths(dist, x.rr[i]))
  IN [stop |-> Toward(side, entry, -dist),
      tps  |-> [i \in DOMAIN x.rr |->
                 IF policy = "structure_tp" THEN AdjustTP(side, entry, tp(i), candidates, x.buffer)
                 ELSE tp(i)]]

Ascending(side, from, prices) ==
  \A i \in DOMAIN prices : Beyond(side, prices[i], IF i = 1 THEN from ELSE prices[i - 1])
ArePrices(prices) == \A i \in DOMAIN prices : prices[i] > 0

\* applyFlatRiskInitPatch and rescaleFlatPlan: the exits an LLM proposes.  They
\* are compared with the entry only: a take-profit of a short may be no price.
FlatPatchFits(side, entry, exits) ==
  /\ entry > 0 /\ exits.stop > 0 /\ Beyond(side, entry, exits.stop)
  /\ exits.tps # <<>> /\ Ascending(side, entry, exits.tps)

\* ValidateAndNormalize: the exits of a policy are prices, too.
ValidExits(side, entry, exits) == FlatPatchFits(side, entry, exits) /\ ArePrices(exits.tps)

-----------------------------------------------------------------------------
(* Size, leverage and liquidation (risk/leverage.go).                      *)

\* In parts of 10000: maintenance margin and fee.
Maintenance(margin) == IF margin > MMRThreshold THEN 150 ELSE 50
Fee == 2

\* CalcLiquidationPrice, times 10000; 0 without leverage.
Liquidation(side, entry, leverage, margin) ==
  IF leverage <= 1 THEN 0
  ELSE entry * Toward(side, 10000, -((10000 \div leverage) - Maintenance(margin) - Fee))

IsStopBeyondLiquidation(side, stop, liquidation) ==
  liquidation > 0 /\ ~Beyond(side, stop * 10000, liquidation)

\* Mutant of ResolveLeverage: a margin that is too high does not cut the size.
UncappedLeverage(side, entry, size, maxInvest, maxLeverage) ==
  LET wanted == Max({1, (size * entry + maxInvest - 1) \div maxInvest})
      lev    == IF maxLeverage > 0 THEN Min({wanted, maxLeverage}) ELSE wanted
  IN [size |-> size, leverage |-> lev,
      liquidation |-> Liquidation(side, entry, lev, (size * entry) \div lev)]

ResolveLeverage(side, entry, size, maxInvest, maxLeverage) ==
  LET wanted == Max({1, (size * entry + maxInvest - 1) \div maxInvest})
      lev    == IF maxLeverage > 0 THEN Min({wanted, maxLeverage}) ELSE wanted
      cut    == IF size * entry > lev * maxInvest THEN (lev * maxInvest) \div entry ELSE size
  IN [size |-> cut, leverage |-> lev,
      liquidation |-> Liquidation(side, entry, lev, (cut * entry) \div lev)]

-----------------------------------------------------------------------------
(* The risk plan of a position (risk/plan.go, risk/breakeven.go).          *)

BuildRiskPlan(entry, stop, prices) ==
  [stop |-> stop, tps |-> [i \in DOMAIN prices |-> [price |-> prices[i], hit |-> FALSE]],
   high |-> entry, low |-> entry]

TP1Hit(plan) == Len(plan.tps) > 0 /\ plan.tps[1].hit
Unhit(plan) == {i \in DOMAIN plan.tps : ~plan.tps[i].hit}

\* Whoever moves levels leaves out one that is no price; the monitor does not.
Remaining(plan) == {i \in Unhit(plan) : plan.tps[i].price > 0}

HitStop(plan, side, price) == ~Beyond(side, price, plan.stop)
TouchedTPs(plan, side, price) == {i \in Unhit(plan) : ~Beyond(side, plan.tps[i].price, price)}

EvaluateRisk(plan, side, price) ==
  CASE HitStop(plan, side, price)          -> [type |-> "STOP_LOSS", level |-> 0]
    [] ~HitStop(plan, side, price) /\ TouchedTPs(plan, side, price) # {}
                                           -> [type |-> "TAKE_PROFIT", level |-> Min(TouchedTPs(plan, side, price))]
    [] OTHER                               -> [type |-> "none", level |-> 0]

MarkTPLevelHit(plan, level) == [plan EXCEPT !.tps[level].hit = TRUE]

BreakevenStop(side, entry, fee) == Toward(side, entry, Pct(entry, fee))

\* Mutant of ApplyTP1Breakeven: the fees are not earned back.
BreakevenWithoutFee(plan, side, entry, fee) ==
  IF TP1Hit(plan) /\ Beyond(side, entry, plan.stop) THEN [plan EXCEPT !.stop = entry] ELSE plan

\* applyTP1BreakevenStop: whatever the price is now; fees that leave no price
\* to stop at move nothing.
ApplyTP1Breakeven(plan, side, entry, fee) ==
  LET floor == BreakevenStop(side, entry, fee) IN
  IF TP1Hit(plan) /\ floor > 0 /\ Beyond(side, floor, plan.stop) THEN [plan EXCEPT !.stop = floor] ELSE plan

-----------------------------------------------------------------------------
(* How a decision tightens the plan (decision/pipeline_risk_helpers.go).   *)

\* Mutant of IsStopImproved: any stop on the right side of the price will do.
StopFits(side, prev, next, mark) == Beyond(side, mark, next)

IsStopImproved(side, prev, next, mark) == Beyond(side, next, prev) /\ Beyond(side, mark, next)

IsStopCrossed(side, stop, mark) == ~Beyond(side, mark, stop)

TightenStop(side, anchor, atr, x) ==
  LET stop == Toward(side, anchor, -Tenths(atr, x.mult)) IN
  IF atr <= 0 \/ x.mult <= 0 \/ stop <= 0 THEN 0 ELSE Toward(side, stop, -Pct(stop, x.slip))

UpdateWatermarks(plan, side, mark) ==
  IF side = "short" THEN [plan EXCEPT !.low = Min({@, mark})]
  ELSE [plan EXCEPT !.high = Max({@, mark})]

Anchor(plan, side) == IF side = "short" THEN plan.low ELSE plan.high

ApplyFloor(plan, side, entry, fee, mark) ==
  LET floor == BreakevenStop(side, entry, fee) IN
  IF TP1Hit(plan) /\ floor > 0 /\ IsStopImproved(side, plan.stop, floor, mark)
  THEN [plan EXCEPT !.stop = floor] ELSE plan

\* A limit that is no price does not hold a level back.
HeldBack(side, price, limit) == IF limit > 0 THEN Further(side, price, limit) ELSE price

\* Mutant of TPConstraint: the second level keeps no distance from the first.
TPConstraintNoGap(plan, side, entry, i, price, x) ==
  HeldBack(side, price, Toward(side, entry, Pct(entry, x.minDist)))

TPConstraint(plan, side, entry, i, price, x) ==
  LET apart == HeldBack(side, price, Toward(side, entry, Pct(entry, x.minDist))) IN
  IF i = 1 \/ x.gap = 0 THEN apart
  ELSE HeldBack(side, apart, Toward(side, plan.tps[i - 1].price, Pct(entry, x.gap)))

TightenLevel(plan, side, entry, atr, i, x) ==
  LET price == Toward(side, entry, Tenths(atr, x.tpATR[i])) IN
  IF i \in Remaining(plan) /\ x.tpATR[i] > 0 /\ price > 0
  THEN [plan EXCEPT !.tps[i].price = TPConstraint(plan, side, entry, i, price, x)]
  ELSE plan

\* The first two levels move, the second with regard to where the first is now.
TightenTPLevels(plan, side, entry, atr, x) ==
  TightenLevel(TightenLevel(plan, side, entry, atr, 1, x), side, entry, atr, 2, x)

\* applyTightenRiskPatch: whether the answer is accepted, and what it makes
\* of the plan, whose stop has moved already.
PatchFits(plan, side, entry, mark, patch) ==
  patch.action = "hold" \/
  /\ patch.action = "adjust"
  /\ Len(patch.tps) = Cardinality(Remaining(plan))
  /\ IsStopImproved(side, plan.stop, patch.stop, mark)
  /\ Ascending(side, entry, patch.tps) /\ ArePrices(patch.tps)

ApplyPatch(plan, patch) ==
  IF patch.action = "hold" THEN plan
  ELSE [plan EXCEPT !.stop = patch.stop,
                    !.tps = [l \in DOMAIN plan.tps |->
                       IF l \in Remaining(plan)
                       THEN [plan.tps[l] EXCEPT !.price =
                               patch.tps[Cardinality({k \in Remaining(plan) : k <= l})]]
                       ELSE plan.tps[l]]]
=============================================================================
