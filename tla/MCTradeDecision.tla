------------------------- MODULE MCTradeDecision ---------------------------
(* Model-checking instance of TradeDecision: a native strategy with fixed  *)
(* exits, one with exits at the structure and a capped leverage, and one   *)
(* that asks an LLM.  Prices are around 100, an ATR is 4 to 6.             *)
EXTENDS TradeDecision

Base == [
  mode |-> "native", policy |-> "fixed_rr", entryMode |-> "market", entryOffset |-> 0,
  exits |-> [stopATR |-> 10, minStop |-> 1, rr |-> <<10, 20>>, buffer |-> 0],
  risk |-> 4, maxInvest |-> 50, maxLeverage |-> 5, grades |-> <<50, 80, 100>>,
  consensus |-> [score |-> 350, confidence |-> 520],
  gate |-> [structureStop |-> TRUE, cascadeStop |-> TRUE, quality |-> 350, edge |-> 100],
  sieve |-> [action |-> "ALLOW", factor |-> 100, min |-> 20, rows |-> <<>>],
  tighten |-> [mult |-> 5, slip |-> 1, tpATR |-> <<10, 20>>, minDist |-> 2, gap |-> 3, debounce |-> FALSE],
  fee |-> 1, drawdown |-> 12,
  guard |-> [on |-> TRUE, stop |-> TRUE, rsi |-> TRUE, breaker |-> FALSE]]

Rows == <<[mechTag |-> "crowded_long", liqConf |-> "low", crowded |-> "any", action |-> "ALLOW", factor |-> 10],
          [mechTag |-> "crowded_long", liqConf |-> "high", crowded |-> "any", action |-> "ALLOW", factor |-> 50],
          [mechTag |-> "crowded_long", liqConf |-> "high", crowded |-> "yes", action |-> "WAIT", factor |-> 100]>>

MCSetups == {
  Base,
  [Base EXCEPT !.policy = "structure_tp", !.entryMode = "orderbook", !.maxInvest = 3, !.maxLeverage = 12,
               !.sieve.rows = Rows, !.guard.on = FALSE,
               !.tighten.debounce = TRUE, !.tighten.tpATR = <<20, 10>>],
  [Base EXCEPT !.mode = "llm", !.maxInvest = 4, !.maxLeverage = 20, !.drawdown = 0]}

Strong == [k \in Kinds |-> [score |-> 6, conf |-> 8]]
Weak == [Strong EXCEPT !["mechanics"] = [score |-> -5, conf |-> 6]]
Short == [k \in Kinds |-> [score |-> -6, conf |-> 8]]

Answers == [
  answered |-> TRUE, indTag |-> "trend_surge", stTag |-> "breakout_confirmed", mechTag |-> "neutral",
  expands |-> TRUE, aligned |-> TRUE, noisy |-> FALSE, clear |-> TRUE, intact |-> TRUE,
  stress |-> FALSE, liqConf |-> "low"]

Panel == [agents |-> Strong, answers |-> Answers, close |-> 100, atr |-> 6,
          prevHigh |-> 108, prevLow |-> 92, book |-> 100, candidates |-> {92, 109}]

MCPanels == {
  Panel,
  [Panel EXCEPT !.agents = Short, !.book = 0],
  [Panel EXCEPT !.answers.mechTag = "crowded_long"],
  [Panel EXCEPT !.answers.mechTag = "crowded_long", !.answers.liqConf = "high"],
  [Panel EXCEPT !.agents = Weak, !.answers.noisy = TRUE],
  [Panel EXCEPT !.answers.stTag = "structure_broken", !.atr = 12],
  [Panel EXCEPT !.answers.mechTag = "liquidation_cascade"],
  [Panel EXCEPT !.answers.answered = FALSE]}

View == [judged |-> TRUE, tag |-> [k \in Kinds |-> "keep"], threat |-> "none", stalls |-> FALSE,
         diverges |-> FALSE, reverses |-> FALSE, liquidates |-> FALSE, noisy |-> FALSE,
         atrMoves |-> TRUE, rsi |-> "mid", move |-> "calm"]
Alarmed == [View EXCEPT !.stalls = TRUE, !.diverges = TRUE]

MCViews == {
  View,
  [View EXCEPT !.judged = FALSE, !.rsi = "high"],
  [View EXCEPT !.tag["indicator"] = "exit"],
  [View EXCEPT !.tag["mechanics"] = "tighten"],
  [Alarmed EXCEPT !.tag["mechanics"] = "tighten"],
  [Alarmed EXCEPT !.tag["mechanics"] = "tighten", !.tag["structure"] = "exit", !.threat = "critical"],
  [View EXCEPT !.tag["structure"] = "exit", !.threat = "critical"]}

MCFunds == {[equity |-> 10000, available |-> 10000], [equity |-> 8000, available |-> 0]}
MCPrices == {88, 94, 100, 103, 106, 112}
MCATRs == {0, 4}

MCFlatPatches == {
  [entry |-> 100, stop |-> 94, tps |-> <<106, 112>>],
  [entry |-> 100, stop |-> 104, tps |-> <<94, 88>>],
  [entry |-> 100, stop |-> 104, tps |-> <<94, 0>>],
  [entry |-> 100, stop |-> 94, tps |-> <<106, 106>>]}

MCPatches == {
  [action |-> "hold", stop |-> 0, tps |-> <<>>],
  [action |-> "adjust", stop |-> 102, tps |-> <<104, 110>>],
  [action |-> "adjust", stop |-> 102, tps |-> <<108>>],
  [action |-> "adjust", stop |-> 95, tps |-> <<93>>]}
=============================================================================
