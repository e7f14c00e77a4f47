--------------------------- MODULE TradeDecision ---------------------------
(***************************************************************************)
(* What the decisions and the price do to one symbol, round by round: a    *)
(* flat round asks the gate and may store an entry plan; the plan is sized *)
(* again when the price touches it, and its fill opens a position with a   *)
(* risk plan; rounds over the open position tighten that plan or ask for   *)
(* an exit, twice before they get it, and an exit keeps the symbol out of  *)
(* the market for some rounds; the risk monitor closes at the stop, at the *)
(* take-profits and at the drawdown.                                       *)
(*                                                                         *)
(* A round is one step: CloseFlow and EntryFlow have the steps inside it   *)
(* and what may run between them.  The confirmations and the cooldown are  *)
(* in memory, the position and its plan in the database.                   *)
(***************************************************************************)
EXTENDS RiskMath, RuleFlow

CONSTANTS
  Setups,        \* configurations of the strategy and the risk management
  Panels,        \* what a flat round may read from the agents and the market
  Views,         \* what the monitors may answer over an open position
  Funds,         \* [equity, available] the account may show
  Prices,        \* marks the price source may quote
  ATRs,          \* values of the indicator when a stop is tightened
  FlatPatches,   \* exits an LLM may propose for an entry
  Patches,       \* answers of an LLM that is asked to tighten
  MaxPositions,  \* bound: positions opened in a behaviour
  CooldownRounds \* defaultEntryCooldownRoundsAfterExit

ASSUME PositiveAssumption ==
  /\ Prices \subseteq Nat \ {0} /\ ATRs \subseteq Nat
  /\ MaxPositions \in Nat /\ CooldownRounds \in Nat \ {0}

\* What the validation of the configuration grants (config/validation_strategy.go),
\* and that what moves a price is a number; a panel has finitely many levels.
ASSUME SetupsAssumption ==
  \A s \in Setups :
    /\ s.fee \in Nat /\ s.entryOffset \in Int
    /\ s.exits.stopATR \in Int /\ s.exits.minStop \in Int /\ s.exits.buffer \in Int
    /\ s.exits.rr \in Seq(Int)
    /\ s.tighten.mult \in Int /\ s.tighten.slip \in Int /\ s.tighten.minDist \in Int
    /\ s.tighten.gap \in Int /\ s.tighten.tpATR \in [1 .. 2 -> Int]
    /\ s.risk \in Nat /\ s.maxInvest \in 0 .. 100 /\ s.maxLeverage \in Nat \ {0}
    /\ s.grades \in [1 .. 3 -> 0 .. 100]
    /\ s.sieve.factor \in 0 .. 100 /\ s.sieve.min \in 0 .. 100
    /\ s.sieve.rows \in Seq([mechTag : STRING, liqConf : STRING, crowded : STRING,
                             action : STRING, factor : 0 .. 100])

\* One percent of a balance is at least one unit.
ASSUME InputsAssumption ==
  /\ \A p \in Panels :
       /\ p.close \in Int /\ p.atr \in Int /\ p.book \in Int
       /\ p.prevHigh \in Int /\ p.prevLow \in Int
       /\ p.candidates \in SUBSET Int /\ IsFiniteSet(p.candidates)
  /\ \A patch \in FlatPatches : patch.entry \in Int /\ patch.stop \in Int /\ patch.tps \in Seq(Int)
  /\ \A patch \in Patches : patch.stop \in Int /\ patch.tps \in Seq(Int)
  /\ \A f \in Funds :
       /\ f.equity \in Int /\ (f.equity > 0 => f.equity >= 100)
       /\ f.available \in Int /\ (f.available > 0 => f.available >= 100)

VARIABLES
  setup,    \* the configuration, fixed at start
  entry,    \* the entry plan in the cache
  pos,      \* the position row: its number, status, side and average entry
  plan,     \* the risk plan of the row
  source,   \* who wrote the last version of the plan
  confirm,  \* ExitConfirmCache, by position
  cooldown, \* EntryCooldownCache: rounds left
  votes,    \* history: rounds that wanted out of the position since one kept it
  waited,   \* history: flat rounds skipped since the last reversal exit
  why       \* history: what the last close of the position was for

vars == <<setup, entry, pos, plan, source, confirm, cooldown, votes, waited, why>>
memory == <<confirm, cooldown>>
history == <<votes, waited, why>>

-----------------------------------------------------------------------------
Ids == 1 .. MaxPositions
NoEntry == [side |-> NoSide]
NoPlan == [stop |-> 0, tps |-> <<>>, high |-> 0, low |-> 0]
Planned == entry # NoEntry
Open == pos.status # "flat"

\* The state provider: a row that is closing counts as a position.
State == IF Open THEN "IN_POSITION" ELSE "FLAT"

Init ==
  /\ setup \in Setups
  /\ entry = NoEntry
  /\ pos = [id |-> 0, status |-> "flat", side |-> NoSide, avg |-> 0]
  /\ plan = NoPlan /\ source = "none"
  /\ confirm = [i \in Ids |-> 0] /\ cooldown = 0
  /\ votes = 0 /\ waited = CooldownRounds /\ why = "none"

-----------------------------------------------------------------------------
(* A flat round.                                                           *)

Balance(funds) == IF funds.available > 0 THEN funds.available ELSE funds.equity
MaxInvest(base) == Pct(base, IF setup.maxInvest > 0 THEN setup.maxInvest ELSE 100)

\* In parts of 10^6: the risk of the strategy, less what grade and sieve take.
\* A grade below the ladder has the factor of the lowest.
RiskPct(p, side) ==
  LET grade == Grade(SetupQuality(p.agents, p.answers)) IN
  setup.risk * setup.grades[IF grade = 0 THEN 1 ELSE grade] * SieveFactor(setup.sieve, p.answers, side)

ATREntry(p, side) ==
  Toward(side, IF side = "short" THEN Max({p.prevHigh, p.close})
               ELSE IF p.prevLow > 0 THEN Min({p.prevLow, p.close}) ELSE p.close,
         -Tenths(p.atr, setup.entryOffset))

EntryPrice(p, side) ==
  CASE setup.entryMode = "market"                       -> p.close
    [] setup.entryMode = "orderbook" /\ p.book > 0      -> p.book
    [] OTHER                                            -> ATREntry(p, side)

\* The sizing of the plan builder, of an LLM plan and of a triggered entry.
Sized(side, price, stop, dist, risk, base, maxLeverage) ==
  ResolveLeverage(side, price, ((base * risk) \div 1000000) \div dist, MaxInvest(base), maxLeverage)

\* NoEntry when the builder or the validation of the answer refuses.
MakeEntry(p, side, base, patch) ==
  LET llm   == setup.mode = "llm"
      price == IF llm THEN patch.entry ELSE EntryPrice(p, side)
      exits == IF llm THEN patch
               ELSE InitialExits(setup.policy, side, price, p.atr, p.candidates, setup.exits)
      dist  == AbsVal(price - exits.stop)
      risk  == RiskPct(p, side)
      sized == Sized(side, price, exits.stop, dist, risk, base, setup.maxLeverage)
      fits  == IF llm THEN FlatPatchFits(side, price, exits) ELSE ValidExits(side, price, exits)
  IN IF ~fits \/ risk = 0 \/ base <= 0 THEN NoEntry
     ELSE IF sized.size <= 0 \/ IsStopBeyondLiquidation(side, exits.stop, sized.liquidation) THEN NoEntry
     ELSE [side |-> side, price |-> price, stop |-> exits.stop, tps |-> exits.tps, dist |-> dist,
           risk |-> risk, size |-> sized.size, leverage |-> sized.leverage,
           base |-> base, ordered |-> FALSE]

\* Mutant of SkipFlatRound: the cooldown ends one round early.
SkipToOne ==
  /\ State = "FLAT" /\ cooldown > 0
  /\ cooldown' = IF cooldown <= 2 THEN 0 ELSE cooldown - 1
  /\ waited' = Min({CooldownRounds, waited + 1})
  /\ UNCHANGED <<setup, entry, pos, plan, source, confirm, votes, why>>

\* Mutant of SkipFlatRound: every flat round counts down.
SkipUnguarded ==
  /\ State = "FLAT"
  /\ cooldown' = cooldown - 1
  /\ waited' = Min({CooldownRounds, waited + 1})
  /\ UNCHANGED <<setup, entry, pos, plan, source, confirm, votes, why>>

\* Consume: a round that finds the cooldown uses one of its rounds up.
SkipFlatRound ==
  /\ State = "FLAT" /\ cooldown > 0
  /\ cooldown' = cooldown - 1
  /\ waited' = Min({CooldownRounds, waited + 1})
  /\ UNCHANGED <<setup, entry, pos, plan, source, confirm, votes, why>>

\* The gate, the sieve and the plan builder; the replaced order is withdrawn.
FlatRound(p, funds, patch) ==
  LET side  == Direction(p.agents, setup.consensus)
      gate  == EvaluateGate(p.agents, setup.consensus, p.answers, setup.gate)
      passed == gate = "ALLOW" /\ SieveFactor(setup.sieve, p.answers, side) > 0
      made  == IF passed THEN MakeEntry(p, side, Balance(funds), patch) ELSE NoEntry
  IN /\ State = "FLAT" /\ cooldown = 0 /\ pos.id < MaxPositions
     /\ FSMAction(State, IF passed THEN "ALLOW" ELSE gate, made # NoEntry) = "open"
     /\ entry' = made
     /\ UNCHANGED <<setup, pos, plan, source, memory, history>>

-----------------------------------------------------------------------------
(* The entry.                                                              *)

\* refreshPlanSizing with what is available now, and the check of the order.
Trigger(funds) ==
  LET cap   == IF setup.maxLeverage > 0 THEN setup.maxLeverage ELSE entry.leverage
      sized == Sized(entry.side, entry.price, entry.stop, entry.dist, entry.risk, funds.available, cap)
  IN /\ Planned /\ ~entry.ordered /\ State = "FLAT"
     /\ \E mark \in Prices : ~Beyond(entry.side, mark, entry.price)
     /\ funds.available > 0 /\ sized.size > 0
     /\ ~IsStopBeyondLiquidation(entry.side, entry.stop, sized.liquidation)
     /\ entry' = [entry EXCEPT !.size = sized.size, !.leverage = sized.leverage,
                               !.base = funds.available, !.ordered = TRUE]
     /\ UNCHANGED <<setup, pos, plan, source, memory, history>>

\* The plan expires, or its order is refused or withdrawn.
Drop ==
  /\ Planned /\ entry' = NoEntry
  /\ UNCHANGED <<setup, pos, plan, source, memory, history>>

\* The reconcile service opens the row of the trade.
Fill(avg) ==
  /\ Planned /\ entry.ordered /\ State = "FLAT"
  /\ ~Beyond(entry.side, avg, entry.price)
  /\ pos' = [id |-> pos.id + 1, status |-> "open", side |-> entry.side, avg |-> avg]
  /\ plan' = BuildRiskPlan(entry.price, entry.stop, entry.tps)
  /\ source' = "open" /\ entry' = NoEntry /\ votes' = 0 /\ why' = "none"
  /\ UNCHANGED <<setup, memory, waited>>

-----------------------------------------------------------------------------
(* A round over the position.                                              *)

NoUpdate == [plan |-> plan, source |-> source, exitHit |-> FALSE]
Written(new) == IF new = plan THEN NoUpdate
                ELSE [plan |-> new, source |-> "monitor-tighten", exitHit |-> FALSE]

\* applyTightenUpdate: watermarks, floor, the new stop from the best price seen
\* or else from the price now, and the take-profits.  An answer that does not
\* fit drops all of it.
TightenUpdate(v, mark, atr, patch) ==
  LET side   == pos.side
      floored == ApplyFloor(UpdateWatermarks(plan, side, mark), side, pos.avg, setup.fee, mark)
      wanted == TightenStop(side, Anchor(floored, side), atr, setup.tighten)
      second == TightenStop(side, mark, atr, setup.tighten)
      from   == {s \in IF IsStopCrossed(side, wanted, mark) THEN {wanted, second} ELSE {wanted} :
                   s > 0 /\ IsStopImproved(side, floored.stop, s, mark)}
      moved  == [floored EXCEPT !.stop = CHOOSE s \in from : TRUE]
      asked  == setup.mode = "llm" /\ Remaining(plan) # {}
  IN CASE from = {} /\ wanted > 0 /\ IsStopCrossed(side, wanted, mark) /\ CriticalExit(v) ->
            [Written(floored) EXCEPT !.exitHit = TRUE]
       [] from = {} /\ ~(wanted > 0 /\ IsStopCrossed(side, wanted, mark) /\ CriticalExit(v)) ->
            Written(floored)
       [] from # {} /\ asked ->
            IF PatchFits(moved, side, pos.avg, mark, patch) THEN Written(ApplyPatch(moved, patch)) ELSE NoUpdate
       [] from # {} /\ ~asked ->
            Written(IF setup.mode = "llm" THEN moved
                    ELSE TightenTPLevels(moved, side, pos.avg, atr, setup.tighten))

\* The debounce looks at the last version; no price or no ATR tightens nothing.
Updates(action, v) ==
  IF ~TightenEligible(action, v) THEN {NoUpdate}
  ELSE {TightenUpdate(v, m, a, patch) : m \in Prices, a \in ATRs \ {0}, patch \in Patches} \cup
       IF 0 \in ATRs \/ (setup.tighten.debounce /\ source = "monitor-tighten") THEN {NoUpdate} ELSE {}

\* Mutant of Key: the confirmations are those of the symbol.
KeyOfSymbol(id) == 1

\* exitConfirmCacheKey, of the symbol and the state there is but one.
Key(id) == id

\* ArmClose: a close in flight is success, another row has to be latched and
\* its order accepted.
CloseOutcomes == IF pos.status = "closing" THEN {TRUE} ELSE BOOLEAN

\* handleInPosition: guard and fusion, the count, the plan, a second count when
\* the price has crossed every stop that could be set, the close, the cooldown.
HoldRound(v) ==
  /\ State = "IN_POSITION"
  /\ \E guard \in {HardGuard(setup.guard, pos.side, m, plan.stop, v) : m \in Prices}, done \in CloseOutcomes :
     LET fused == MonitorFusion(guard, v, confirm[Key(pos.id)]) IN
     \E u \in Updates(fused.action, v) :
     LET count  == IF u.exitHit THEN Min({2, fused.count + 1}) ELSE fused.count
         action == IF u.exitHit THEN IF count < 2 THEN "TIGHTEN" ELSE "EXIT" ELSE fused.action
         reason == IF u.exitHit /\ count = 2 THEN "REVERSAL_CONFIRMED" ELSE fused.reason
         closes == FSMAction(State, action, FALSE) = "close" /\ done
         arms   == closes /\ v.judged /\ reason = "REVERSAL_CONFIRMED"
     IN /\ plan' = u.plan /\ source' = u.source
        /\ confirm' = [confirm EXCEPT ![Key(pos.id)] = count]
        /\ votes' = IF u.exitHit \/ (guard = "OK" /\ ExitVote(v)) THEN Min({2, votes + 1})
                    ELSE IF guard # "OK" \/ Tagged(v, "exit") \/ Tagged(v, "tighten") THEN votes ELSE 0
        /\ pos' = [pos EXCEPT !.status = IF closes THEN "closing" ELSE @]
        /\ cooldown' = IF arms THEN CooldownRounds ELSE cooldown
        /\ waited' = IF arms THEN 0 ELSE waited
        /\ why' = IF ~closes THEN why ELSE IF reason = "REVERSAL_CONFIRMED" THEN "reversal" ELSE "guard"
  /\ UNCHANGED <<setup, entry>>

-----------------------------------------------------------------------------
(* The risk monitor, and the end of a position.                            *)

Drawdown(mark) ==
  LET lost == IF pos.side = "short" THEN mark - pos.avg ELSE pos.avg - mark IN
  setup.drawdown > 0 /\ lost * 100 >= setup.drawdown * pos.avg

\* A take-profit is written to the plan before its part is closed.
RiskTick(mark) ==
  LET hit    == EvaluateRisk(plan, pos.side, mark)
      profit == ~Drawdown(mark) /\ hit.type = "TAKE_PROFIT"
  IN /\ pos.status = "open" /\ (Drawdown(mark) \/ hit.type # "none")
     /\ IF profit
        THEN /\ plan' = ApplyTP1Breakeven(MarkTPLevelHit(plan, hit.level), pos.side, pos.avg, setup.fee)
             /\ source' = "risk-tp-hit"
        ELSE UNCHANGED <<plan, source>>
     /\ \E done \in BOOLEAN :
          /\ pos' = [pos EXCEPT !.status = IF done THEN "closing" ELSE @]
          /\ why' = IF done THEN "price" ELSE why
     /\ UNCHANGED <<setup, entry, memory, votes, waited>>

\* A part was closed, or the close came to nothing.
Reopen ==
  /\ pos.status = "closing"
  /\ pos' = [pos EXCEPT !.status = "open"] /\ why' = "none"
  /\ UNCHANGED <<setup, entry, plan, source, memory, votes, waited>>

\* The executor has no such trade any more, whoever closed it.
Gone ==
  /\ Open
  /\ pos' = [pos EXCEPT !.status = "flat", !.side = NoSide, !.avg = 0]
  /\ plan' = NoPlan /\ source' = "none" /\ votes' = 0 /\ why' = "none"
  /\ UNCHANGED <<setup, entry, memory, waited>>

\* The process starts again: what was in memory is gone.
Restart ==
  /\ entry' = NoEntry
  /\ confirm' = [i \in Ids |-> 0] /\ cooldown' = 0 /\ waited' = CooldownRounds
  /\ UNCHANGED <<setup, pos, plan, source, votes, why>>

Next ==
  \/ SkipFlatRound
  \/ \E p \in Panels, f \in Funds, patch \in FlatPatches : FlatRound(p, f, patch)
  \/ \E f \in Funds : Trigger(f)
  \/ Drop
  \/ \E avg \in Prices : Fill(avg)
  \/ \E v \in Views : HoldRound(v)
  \/ \E mark \in Prices : RiskTick(mark)
  \/ Reopen \/ Gone \/ Restart

Spec == Init /\ [][Next]_vars

-----------------------------------------------------------------------------
(* Properties                                                              *)

\* A level is a price, unless an LLM proposed it for a short and nobody looked;
\* the market never gets that low.
LevelOK(side, level) ==
  level.price > 0 \/ (setup.mode = "llm" /\ side = "short" /\ ~level.hit)

LevelsOK ==
  /\ plan.tps \in Seq([price : Int, hit : BOOLEAN])
  /\ \A i \in DOMAIN plan.tps : LevelOK(pos.side, plan.tps[i])

TypeOK ==
  /\ setup \in Setups
  /\ Planned => entry.side \in Sides /\ entry.ordered \in BOOLEAN
  /\ pos.id \in 0 .. MaxPositions /\ pos.status \in {"flat", "open", "closing"}
  /\ Open => pos.side \in Sides /\ pos.avg \in Prices /\ plan.stop > 0 /\ LevelsOK
  /\ source \in {"none", "open", "monitor-tighten", "risk-tp-hit"}
  /\ confirm \in [Ids -> 0 .. 2] /\ cooldown \in 0 .. CooldownRounds
  /\ votes \in 0 .. 2 /\ waited \in 0 .. CooldownRounds
  /\ why \in {"none", "guard", "reversal", "price"}

\* Whoever moves the stop of a position, the floor, the best price seen, the
\* price now, an LLM or a take-profit, moves it to the earning side.
StopOnlyTightens ==
  [][Open /\ Open' /\ pos'.id = pos.id =>
       plan'.stop = plan.stop \/ Beyond(pos.side, plan'.stop, plan.stop)]_vars

\* A position is closed for a reversal only after two rounds over this very
\* position asked for it, with none between that wanted to keep it.
ReversalIsConfirmed ==
  [][pos'.status = "closing" /\ pos.status = "open" /\ why' = "reversal" => votes' = 2]_vars

\* After the exit of a reversal nothing is planned for the symbol until that
\* many flat rounds have been skipped, however long the close takes.
ReversalCoolsDown == [][entry' # entry /\ ~Planned /\ Planned' => waited = CooldownRounds]_vars

\* What keeps the levels of a plan in order when they are moved: that an LLM
\* moves them, whose answers are checked, or nobody does; or, with two levels at
\* most, a gap between them on the long side, or the larger multiplier on the
\* second and prices that leave room for it.
KeepsOrder(s, side) ==
  LET x == s.tighten IN
  \/ s.mode = "llm"
  \/ x.tpATR[1] <= 0 /\ x.tpATR[2] <= 0
  \/ /\ Len(s.exits.rr) <= 2 /\ x.tpATR[2] > 0
     /\ \/ side = "long" /\ x.gap > 0
        \/ /\ 0 < x.tpATR[1] /\ x.tpATR[1] <= x.tpATR[2]
           /\ \A a \in ATRs, p \in Prices : Tenths(a, x.tpATR[2]) < p

\* The levels of a plan are hit in their order, whatever moved them meanwhile.
HitsInOrder ==
  \A i, j \in DOMAIN plan.tps : i < j /\ plan.tps[j].hit => plan.tps[i].hit

\* Once its first take-profit was hit a position cannot lose at its stop, if its
\* fees leave a price to stop at.
BreakevenAfterTP1 ==
  LET floor == BreakevenStop(pos.side, pos.avg, setup.fee) IN
  TP1Hit(plan) /\ floor > 0 => ~Beyond(pos.side, floor, plan.stop)

\* A plan in the cache, made, resized or from an LLM, risks no more of the
\* balance it was sized for than the strategy grants, invests no more margin,
\* keeps to the leverage, and has its stop before the liquidation; its
\* take-profits lie beyond the entry, one further than the other.
PlanIsSound ==
  Planned =>
    /\ entry.size > 0 /\ entry.leverage >= 1
    /\ entry.size * AbsVal(entry.price - entry.stop) <= Pct(entry.base, setup.risk)
    /\ entry.size * entry.price <= entry.leverage * MaxInvest(entry.base)
    /\ setup.maxLeverage > 0 => entry.leverage <= setup.maxLeverage
    /\ Beyond(entry.side, entry.price, entry.stop) /\ Ascending(entry.side, entry.price, entry.tps)
    /\ ~IsStopBeyondLiquidation(entry.side, entry.stop,
          Liquidation(entry.side, entry.price, entry.leverage, (entry.size * entry.price) \div entry.leverage))
=============================================================================
