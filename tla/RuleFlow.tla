----------------------------- MODULE RuleFlow ------------------------------
(***************************************************************************)
(* The judgements of the rule chain, each a function of what the agents    *)
(* and the providers answered: the direction of the agents, the gate in    *)
(* front of an entry, the guard and the fusion of the monitors over an     *)
(* open position, and what the state machine makes of them.                *)
(*                                                                         *)
(* A score or a confidence is in tenths; quality, penalty and edge are in  *)
(* thousandths, rounded down.                                              *)
(***************************************************************************)
EXTENDS Integers, Sequences, FiniteSetsExt

Kinds == {"indicator", "structure", "mechanics"}
AbsVal(n) == IF n < 0 THEN -n ELSE n
SignOf(n) == IF n > 0 THEN 1 ELSE IF n < 0 THEN -1 ELSE 0

-----------------------------------------------------------------------------
(* Direction (decision/direction/consensus.go): a, the answers of the      *)
(* agents, gives each kind a score in -10 .. 10 and a confidence in 0 .. 10;*)
(* c holds the thresholds.                                                 *)

BaseWeight == [k \in Kinds |-> CASE k = "structure" -> 10 [] k = "indicator" -> 7 [] k = "mechanics" -> 5]
SumBase == 22
Weight(a, k) == BaseWeight[k] * a[k].conf
SumOver(S, f(_)) == FoldSet(LAMBDA k, sum : f(k) + sum, 0, S)

ConsensusScore(a) ==
  LET sum == SumOver(Kinds, LAMBDA k : Weight(a, k)) IN
  IF sum = 0 THEN 0
  ELSE LET moved == SumOver(Kinds, LAMBDA k : Weight(a, k) * a[k].score)
       IN SignOf(moved) * ((AbsVal(moved) * 100) \div sum)

\* Agents that agree strongly add to the confidence, unless one opposes strongly.
Resonance(a) ==
  LET main    == SignOf(ConsensusScore(a))
      aligned == {k \in Kinds : /\ a[k].conf * 100 >= 350 /\ AbsVal(a[k].score) >= 3
                                /\ SignOf(a[k].score) = main}
      opposed == {k \in Kinds : /\ a[k].conf * 100 >= 550 /\ AbsVal(a[k].score) * 100 >= 450
                                /\ SignOf(a[k].score) = -main}
      n       == Cardinality(aligned)
  IN IF main = 0 \/ opposed # {} \/ n < 2 THEN 0
     ELSE Min({120, (400 * SumOver(aligned, LAMBDA k : BaseWeight[k])
                         * SumOver(aligned, LAMBDA k : a[k].conf)
                         * SumOver(aligned, LAMBDA k : AbsVal(a[k].score))) \div (SumBase * 100 * n * n)})

ConsensusConfidence(a) ==
  LET agreed == AbsVal(SumOver(Kinds, LAMBDA k : Weight(a, k) * SignOf(a[k].score)))
  IN Min({1000, (agreed * 100) \div SumBase + Resonance(a)})

Direction(a, c) ==
  LET score == ConsensusScore(a) IN
  IF AbsVal(score) < c.score \/ ConsensusConfidence(a) < c.confidence \/ score = 0 THEN "none"
  ELSE IF score > 0 THEN "long" ELSE "short"

-----------------------------------------------------------------------------
(* The gate in front of an entry (ruleflow/gate_*.go): p holds the answers *)
(* of the providers, g the configuration.                                  *)

CrowdingAligned(p, side) ==
  \/ side = "long" /\ p.mechTag = "crowded_long"
  \/ side = "short" /\ p.mechTag = "crowded_short"

\* A break of the structure is let through when everything else goes on.
BreakContinues(a, c, p) ==
  /\ p.stTag = "structure_broken" /\ p.indTag = "trend_surge"
  /\ p.expands /\ p.aligned /\ ~p.noisy
  /\ Resonance(a) >= 50
  /\ AbsVal(ConsensusScore(a)) >= c.score /\ ConsensusConfidence(a) >= c.confidence

\* No confidence is full weight.
Clamped(conf) == IF conf = 0 THEN 10 ELSE Max({3, conf})

ScriptBonus(indTag, stTag) ==
  CASE indTag = "trend_surge"         /\ stTag = "breakout_confirmed" -> 10
    [] indTag = "pullback_entry"      /\ stTag = "support_retest"     -> 7
    [] indTag = "divergence_reversal" /\ stTag = "support_retest"     -> 5
    [] indTag = "trend_surge"         /\ stTag = "support_retest"     -> 6
    [] indTag = "pullback_entry"      /\ stTag = "breakout_confirmed" -> 4
    [] indTag = "divergence_reversal" /\ stTag = "breakout_confirmed" -> 3
    [] indTag = "trend_surge"         /\ stTag = "structure_broken"   -> 2
    [] OTHER                                                          -> 0

\* A tag that contradicts the readings it is given with costs quality.
ConsistencyPenalty(p) ==
  CASE p.indTag = "trend_surge" /\ (p.noisy \/ ~p.aligned)             -> 250
    [] p.indTag = "trend_surge" /\ ~p.noisy /\ p.aligned /\ ~p.expands -> 100
    [] p.indTag = "pullback_entry" /\ p.expands                        -> 100
    [] p.indTag = "pullback_entry" /\ ~p.expands /\ (~p.aligned \/ p.noisy) -> 250
    [] p.indTag = "divergence_reversal" /\ p.aligned                   -> 100
    [] p.indTag = "divergence_reversal" /\ ~p.aligned /\ p.noisy       -> 250
    [] p.indTag = "noise" /\ ~p.noisy                                  -> 100
    [] OTHER                                                           -> 0

SetupQuality(a, p) ==
  LET st   == Clamped(a["structure"].conf)
      ind  == Clamped(a["indicator"].conf)
      If(b, n) == IF b THEN n ELSE 0
      score == If(p.clear, 30 * st) + If(p.intact, 25 * st) + If(p.aligned, 20 * ind)
               + If(p.expands, 15 * ind) - If(p.noisy, 20 * ind)
               + 10 * ScriptBonus(p.indTag, p.stTag) - ConsistencyPenalty(p)
  IN Max({0, Min({1000, score})})

RiskPenalty(a, p, side) ==
  LET w == Clamped(a["mechanics"].conf) IN
  CASE p.mechTag = "liquidation_cascade"                       -> 1000
    [] p.mechTag # "liquidation_cascade" /\ p.stress /\ p.liqConf = "high" -> 60 * w
    [] p.mechTag # "liquidation_cascade" /\ p.stress /\ p.liqConf = "low"  -> 35 * w
    [] OTHER -> IF CrowdingAligned(p, side) THEN 25 * w
                ELSE IF p.mechTag \in {"crowded_long", "crowded_short"} THEN 10 * w ELSE 0

EntryEdge(a, p, side) ==
  (AbsVal(ConsensusScore(a)) * SetupQuality(a, p) * (1000 - RiskPenalty(a, p, side))) \div 1000000

Grade(quality) == CASE quality >= 750 -> 3 [] quality \in 550 .. 749 -> 2 [] quality \in 350 .. 549 -> 1 [] OTHER -> 0

EvaluateGate(a, c, p, g) ==
  LET side == Direction(a, c) IN
  CASE side = "none"                                            -> "DIRECTION_UNCLEAR"
    [] side # "none" /\ ~p.answered                             -> "DATA_MISSING"
    [] side # "none" /\ p.answered
       /\ g.structureStop /\ ~BreakContinues(a, c, p)
       /\ (p.stTag = "structure_broken" \/ ~p.intact)           -> "STRUCTURE_INVALIDATION"
    [] OTHER -> IF g.cascadeStop /\ p.mechTag = "liquidation_cascade" THEN "LIQUIDATION_CASCADE"
                ELSE IF SetupQuality(a, p) < g.quality THEN "QUALITY_TOO_LOW"
                ELSE IF EntryEdge(a, p, side) < g.edge THEN "EDGE_TOO_LOW"
                ELSE "ALLOW"

\* The sieve: of the rows that match, the first with the most fields; a field
\* that is "any" matches everything.
Specific(row) == Cardinality({f \in {"mechTag", "liqConf", "crowded"} : row[f] # "any"})
RowMatches(row, p, side) ==
  /\ row.mechTag \in {"any", p.mechTag} /\ row.liqConf \in {"any", p.liqConf}
  /\ row.crowded \in {"any", IF CrowdingAligned(p, side) THEN "yes" ELSE "no"}

BestRow(rows, p, side) ==
  LET hits == {i \in DOMAIN rows : RowMatches(rows[i], p, side)} IN
  CHOOSE i \in hits : \A j \in hits :
    Specific(rows[j]) < Specific(rows[i]) \/ (Specific(rows[j]) = Specific(rows[i]) /\ i <= j)

\* The share of its size, in percent, that an allowed entry keeps; 0 blocks it.
\* Without rows the configured minimum does not count.
SieveFactor(sieve, p, side) ==
  LET hit    == \E i \in DOMAIN sieve.rows : RowMatches(sieve.rows[i], p, side)
      row    == sieve.rows[BestRow(sieve.rows, p, side)]
      action == IF hit THEN row.action ELSE sieve.action
      factor == IF hit /\ row.factor > 0 THEN row.factor ELSE sieve.factor
      kept   == IF sieve.rows = <<>> THEN factor ELSE Max({factor, sieve.min})
  IN IF action # "ALLOW" THEN 0 ELSE IF kept = 0 THEN 100 ELSE kept

-----------------------------------------------------------------------------
(* An open position: the guard, the fusion of the monitors and the score   *)
(* that lets a stop be tightened; v is what the monitors answered.         *)

HardGuard(guard, side, mark, stop, v) ==
  LET short == side = "short" IN
  CASE guard.on /\ guard.stop /\ (IF short THEN mark >= stop ELSE mark <= stop) -> "STOP_LOSS"
    [] ~guard.on -> "OK"
    [] OTHER ->
         IF guard.rsi /\ v.rsi = (IF short THEN "low" ELSE "high") THEN "RSI_EXTREME"
         ELSE IF guard.breaker /\ v.move = (IF short THEN "surge" ELSE "drop") THEN "CIRCUIT_BREAKER"
         ELSE "OK"

Tagged(v, tag) == v.judged /\ \E k \in Kinds : v.tag[k] = tag
CriticalExit(v) == v.judged /\ v.tag["structure"] = "exit" /\ v.threat = "critical"

ExitVote(v) == Tagged(v, "exit") /\ ~CriticalExit(v)

\* The votes for an exit: a round that keeps the position starts over, one
\* that tightens does not.  Bound: a count past 2 is as good as 2.
CountAfter(v, count) ==
  CASE ExitVote(v)                                                     -> Min({2, count + 1})
    [] ~ExitVote(v) /\ (CriticalExit(v) \/ Tagged(v, "tighten"))        -> count
    [] OTHER                                                           -> 0

MonitorFusion(guard, v, count) ==
  CASE guard # "OK" -> [action |-> "EXIT", reason |-> guard, count |-> count]
    [] guard = "OK" /\ ExitVote(v) ->
         IF CountAfter(v, count) < 2
         THEN [action |-> "TIGHTEN", reason |-> "EXIT_CONFIRM_PENDING", count |-> CountAfter(v, count)]
         ELSE [action |-> "EXIT", reason |-> "REVERSAL_CONFIRMED", count |-> CountAfter(v, count)]
    [] OTHER ->
         [action |-> IF CriticalExit(v) \/ Tagged(v, "tighten") THEN "TIGHTEN" ELSE "KEEP",
          reason |-> "MONITOR", count |-> CountAfter(v, count)]

\* In halves; ScoreNeeded is tightenV2ScoreThreshold.
TightenScore(v) ==
  LET If(b, n) == IF b THEN n ELSE 0 IN
  If(Tagged(v, "tighten"), 4) + If(v.stalls, 2) + If(v.diverges, 3)
  + If(v.threat \in {"high", "critical"}, 2) + If(v.reverses, 2) + If(v.liquidates, 4) + If(v.noisy, 1)
ScoreNeeded == 9

\* v.atrMoves: the change of the ATR is known and reaches its threshold.
TightenEligible(action, v) ==
  action = "TIGHTEN" /\ v.judged /\ Tagged(v, "tighten") /\ v.atrMoves /\ TightenScore(v) >= ScoreNeeded

\* The state machine at the end of the chain.
FSMAction(state, action, planValid) ==
  CASE state = "FLAT" /\ action = "ALLOW" /\ planValid -> "open"
    [] state = "IN_POSITION" /\ action = "EXIT"        -> "close"
    [] state = "IN_POSITION" /\ action = "TIGHTEN"     -> "reduce"
    [] OTHER                                           -> "noop"
=============================================================================
