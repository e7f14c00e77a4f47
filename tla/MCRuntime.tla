----------------------------- MODULE MCRuntime -----------------------------
(* Model-checking instances of Runtime: requests to the schedule with the  *)
(* readers of the price stream, and without them with the trades of both   *)
(* symbols, where both or one of them have a runtime; three webhooks; two  *)
(* with a periodic task in the queues; every periodic task with a request  *)
(* that changes what is wanted.                                            *)
EXTENDS Runtime

MCSymbols == {"BTC", "ETH"}

Resting == [calls |-> 0, trades |-> {}, events |-> 0, ticked |-> {}, priced |-> FALSE,
            loaded |-> MCSymbols]

MCSetups == {
  [Resting EXCEPT !.calls = 3, !.trades = {"BTC"}, !.priced = TRUE],
  [Resting EXCEPT !.calls = 3, !.trades = MCSymbols],
  [Resting EXCEPT !.calls = 3, !.trades = MCSymbols, !.events = 1, !.loaded = {"BTC"}],
  [Resting EXCEPT !.events = 3],
  [Resting EXCEPT !.events = 2, !.ticked = {<<"BTC", "RECONCILE">>}],
  [Resting EXCEPT !.calls = 1, !.events = 1, !.ticked = {"BTC"} \X Periodic] }
=============================================================================
