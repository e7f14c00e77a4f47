----------------------------- MODULE EntryFlow -----------------------------
(***************************************************************************)
(* How one symbol comes by a position: the plan a decision caches, the     *)
(* order the risk monitor sends when the price touches its entry, and the  *)
(* row the reconcile service opens when the executor reports a fill.       *)
(*                                                                         *)
(* The cache holds one plan of the symbol, in memory.  Three jobs work on  *)
(* it, each on copies it took under the lock of the cache and let go of:   *)
(* the in-process scheduler runs them one after the other, River runs them *)
(* side by side.  Only the executor knows an order from the moment it is   *)
(* sent to the moment its answer is written to the cache.                  *)
(***************************************************************************)
EXTENDS Integers, FiniteSets

CONSTANTS
  MaxPlans,   \* bound: plans made in a behaviour
  MaxOrders,  \* bound: entry orders sent in a behaviour
  Overlaps,   \* schedulers considered: TRUE when the jobs may overlap
  MaxFaults,  \* bound: faults in a behaviour
  Faults      \* which of AllFaults happen

AllFaults == {"unanswered", "cancel", "crash", "debug"}
ASSUME BoundsAssumption == {MaxPlans, MaxOrders, MaxFaults} \subseteq Nat
ASSUME ModesAssumption == Overlaps \subseteq BOOLEAN /\ Faults \subseteq AllFaults

VARIABLES
  overlap,  \* River (TRUE) or the worker of the symbol (FALSE)
  plans,    \* plans made so far; plan p is the p-th
  expired,  \* plans past ExpiresAt
  cache,    \* PlanCache: the entry of the symbol
  orders,   \* entry orders sent so far
  order,    \* order[o]: the plan it was sent for and what became of it
  row,      \* the open row of the symbol: its trade and the plan it was opened with
  opened,   \* plans with a row, open or closed (position_id is unique)
  job,      \* job[j]: where a job is and what it has read
  left,     \* history: orders that had a fill when they were to be cancelled
  faults    \* history: how many faults have happened

vars == <<overlap, plans, expired, cache, orders, order, row, opened, job, left, faults>>
executor == <<orders, order>>
history == <<left, faults>>

-----------------------------------------------------------------------------
Jobs == {"decide", "risk", "reconcile"}
Plans == 1 .. MaxPlans
Orders == 1 .. MaxOrders

\* ext is the trade the executor answered with, client the order we sent: the
\* same number, each 0 while unknown.
Entry == [plan : Plans, ext : 0 .. MaxOrders, client : 0 .. MaxOrders]
NoEntry == [plan |-> 0, ext |-> 0, client |-> 0]
Cached == cache # NoEntry
Submitted(e) == e.ext # 0 \/ e.client # 0

OrderState == {"unsent", "refused", "resting", "cancelled", "filled", "sold"}
HasFill(o) == order[o].state \in {"filled", "sold"}
Filled == {o \in Orders : order[o].state = "filled"}

NoRow == [trade |-> 0, plan |-> 0]

At == {"idle", "think", "cancel", "query", "withdraw", "clear",
       "expire", "quote", "check", "mark", "place", "answer", "reset",
       "match", "insert", "remove", "orders"}
Job == [at : At, copy : Entry \cup {NoEntry}, trade : 0 .. MaxOrders, seen : SUBSET Orders]
IdleJob == [at |-> "idle", copy |-> NoEntry, trade |-> 0, seen |-> {}]

MayStart(j) == job[j].at = "idle" /\ (overlap \/ \A k \in Jobs : job[k].at = "idle")
Goes(j, at) == job' = [job EXCEPT ![j].at = at]
Takes(j, at, entry) == job' = [job EXCEPT ![j].at = at, ![j].copy = entry]
Ends(j) == job' = [job EXCEPT ![j] = IdleJob]

\* A fault of this kind may happen, and is counted.
Fault(f) == f \in Faults /\ faults < MaxFaults /\ faults' = faults + 1

Init ==
  /\ overlap \in Overlaps
  /\ plans = 0 /\ expired = {} /\ cache = NoEntry
  /\ orders = 0
  /\ order = [o \in Orders |-> [plan |-> 0, state |-> "unsent"]]
  /\ row = NoRow /\ opened = {}
  /\ job = [j \in Jobs |-> IdleJob]
  /\ left = {} /\ faults = 0

-----------------------------------------------------------------------------
(* The decision run: it reads that the symbol is flat, thinks for minutes, *)
(* and stores its plan whatever has happened meanwhile.                    *)

DecideStart ==
  /\ MayStart("decide") /\ row = NoRow /\ plans < MaxPlans
  /\ Goes("decide", "think")
  /\ UNCHANGED <<overlap, plans, expired, cache, executor, row, opened, history>>

\* UpsertIfAllow is told VETO or WAIT, or the run fails before.
DecideNothing ==
  /\ job["decide"].at = "think"
  /\ Ends("decide")
  /\ UNCHANGED <<overlap, plans, expired, cache, executor, row, opened, history>>

\* Mutant of DecideUpsert: the order of the replaced plan is left alone.
UpsertWithoutCancel ==
  /\ job["decide"].at = "think" /\ plans < MaxPlans
  /\ plans' = plans + 1
  /\ cache' = [NoEntry EXCEPT !.plan = plans']
  /\ Ends("decide")
  /\ UNCHANGED <<overlap, expired, executor, row, opened, history>>

DecideUpsert ==
  /\ job["decide"].at = "think" /\ plans < MaxPlans
  /\ plans' = plans + 1
  /\ cache' = [NoEntry EXCEPT !.plan = plans']
  /\ IF Cached THEN Takes("decide", "cancel", cache) ELSE Ends("decide")
  /\ UNCHANGED <<overlap, expired, executor, row, opened, history>>

-----------------------------------------------------------------------------
(* CancelOpenByEntry, for the entry a job has replaced or expired.         *)

CancelCheck(j) ==
  /\ job[j].at = "cancel"
  /\ IF row # NoRow \/ job[j].copy.ext = 0 THEN Ends(j) ELSE Goes(j, "query")
  /\ UNCHANGED <<overlap, plans, expired, cache, executor, row, opened, history>>

\* A partial fill keeps the order; a trade the executor does not know any
\* more is an error.
CancelQuery(j) ==
  LET o == job[j].copy.ext IN
  /\ job[j].at = "query"
  /\ \/ HasFill(o) /\ Ends(j) /\ left' = left \cup {o} /\ UNCHANGED faults
     \/ order[o].state = "resting" /\ Goes(j, "withdraw") /\ UNCHANGED history
     \/ order[o].state = "cancelled" /\ Ends(j) /\ UNCHANGED history
     \/ Fault("cancel") /\ Ends(j) /\ UNCHANGED left
  /\ UNCHANGED <<overlap, plans, expired, cache, executor, row, opened>>

\* Between the query and the cancellation the order may fill; an order that
\* is no longer there counts as cancelled.
CancelWithdraw(j) ==
  LET o == job[j].copy.ext IN
  /\ job[j].at = "withdraw"
  /\ \/ /\ Goes(j, "clear")
        /\ order' = [order EXCEPT ![o].state = IF @ = "resting" THEN "cancelled" ELSE @]
        /\ left' = IF HasFill(o) THEN left \cup {o} ELSE left
        /\ UNCHANGED faults
     \/ Fault("cancel") /\ Ends(j) /\ UNCHANGED <<order, left>>
  /\ UNCHANGED <<overlap, plans, expired, cache, orders, row, opened>>

\* ClearIfMatch: the plan that is cached now may be another one.
CancelClear(j) ==
  LET e == job[j].copy IN
  /\ job[j].at = "clear"
  /\ cache' = IF cache.ext = e.ext /\ (e.client = 0 \/ cache.client = e.client)
                THEN NoEntry ELSE cache
  /\ Ends(j)
  /\ UNCHANGED <<overlap, plans, expired, executor, row, opened, history>>

-----------------------------------------------------------------------------
(* The entry half of a risk run: handlePlanEntry and SubmitOpenFromPlan.   *)

RiskLoad ==
  /\ MayStart("risk") /\ Cached
  /\ Takes("risk", "expire", cache)
  /\ UNCHANGED <<overlap, plans, expired, cache, executor, row, opened, history>>

\* Mutants of RiskExpire: a submitted plan is left before its expiry is looked
\* at; an expired plan is deleted and its order left alone.
ExpireUnsubmittedOnly ==
  /\ job["risk"].at = "expire"
  /\ IF Submitted(job["risk"].copy) THEN Ends("risk") /\ UNCHANGED cache
     ELSE IF cache.plan \in expired THEN Takes("risk", "cancel", cache) /\ cache' = NoEntry
     ELSE Goes("risk", "quote") /\ UNCHANGED cache
  /\ UNCHANGED <<overlap, plans, expired, executor, row, opened, history>>
ExpireWithoutCancel ==
  /\ job["risk"].at = "expire"
  /\ IF cache.plan \in expired THEN Ends("risk") /\ cache' = NoEntry
     ELSE /\ UNCHANGED cache
          /\ IF Submitted(job["risk"].copy) THEN Ends("risk") ELSE Goes("risk", "quote")
  /\ UNCHANGED <<overlap, plans, expired, executor, row, opened, history>>

\* The entry cached now is deleted when its plan has expired, and only then is
\* its order looked after; whether the plan was submitted is read off the copy.
RiskExpire ==
  /\ job["risk"].at = "expire"
  /\ IF cache.plan \in expired THEN Takes("risk", "cancel", cache) /\ cache' = NoEntry
     ELSE /\ UNCHANGED cache
          /\ IF Submitted(job["risk"].copy) THEN Ends("risk") ELSE Goes("risk", "quote")
  /\ UNCHANGED <<overlap, plans, expired, executor, row, opened, history>>

\* No price, not triggered, no account state, or a size that is refused.
RiskDeclines ==
  /\ job["risk"].at = "quote"
  /\ Ends("risk")
  /\ UNCHANGED <<overlap, plans, expired, cache, executor, row, opened, history>>

\* UpdatePlan writes the resized plan into whatever entry there is.
RiskResize ==
  /\ job["risk"].at = "quote" /\ orders < MaxOrders
  /\ cache' = IF Cached THEN [cache EXCEPT !.plan = job["risk"].copy.plan] ELSE cache
  /\ Goes("risk", "check")
  /\ UNCHANGED <<overlap, plans, expired, executor, row, opened, history>>

RiskCheck ==
  /\ job["risk"].at = "check"
  /\ IF Submitted(cache) THEN Ends("risk") ELSE Goes("risk", "mark")
  /\ UNCHANGED <<overlap, plans, expired, cache, executor, row, opened, history>>

\* Mutant of UpdateOrder: ids are written though the entry is gone.
UpdateOrderUnchecked(ext, client) ==
  cache' = [cache EXCEPT !.ext = IF ext = 0 THEN @ ELSE ext, !.client = client]

\* UpdateOrder: the ids go into whatever entry there is.
UpdateOrder(ext, client) ==
  cache' = IF Cached THEN [cache EXCEPT !.ext = IF ext = 0 THEN @ ELSE ext, !.client = client]
                     ELSE cache

RiskMark ==
  /\ job["risk"].at = "mark" /\ orders < MaxOrders
  /\ orders' = orders + 1
  /\ UpdateOrder(0, orders')
  /\ job' = [job EXCEPT !["risk"].at = "place", !["risk"].trade = orders']
  /\ UNCHANGED <<overlap, plans, expired, order, row, opened, history>>

Sends(o, state) == order' = [order EXCEPT ![o] = [plan |-> job["risk"].copy.plan, state |-> state]]

\* Mutant of RiskPlace: every failure resets the order ids of the plan.
PlaceResetsOnAnyError ==
  LET o == job["risk"].trade IN
  /\ job["risk"].at = "place"
  /\ \/ Sends(o, "resting") /\ Goes("risk", "answer") /\ UNCHANGED faults
     \/ Sends(o, "refused") /\ Goes("risk", "reset") /\ UNCHANGED faults
     \/ \E state \in {"resting", "refused"} :
          Fault("unanswered") /\ Sends(o, state) /\ Goes("risk", "reset")
  /\ UNCHANGED <<overlap, plans, expired, cache, orders, row, opened, left>>

\* The order is accepted and answered; or found invalid before it is sent,
\* which alone resets the entry; or the call fails, and nobody knows.
RiskPlace ==
  LET o == job["risk"].trade IN
  /\ job["risk"].at = "place"
  /\ \/ Sends(o, "resting") /\ Goes("risk", "answer") /\ UNCHANGED faults
     \/ Sends(o, "refused") /\ Goes("risk", "reset") /\ UNCHANGED faults
     \/ \E state \in {"resting", "refused"} :
          Fault("unanswered") /\ Sends(o, state) /\ Ends("risk")
  /\ UNCHANGED <<overlap, plans, expired, cache, orders, row, opened, left>>

RiskAnswer ==
  /\ job["risk"].at = "answer"
  /\ UpdateOrder(job["risk"].trade, job["risk"].trade)
  /\ Ends("risk")
  /\ UNCHANGED <<overlap, plans, expired, executor, row, opened, history>>

RiskReset ==
  /\ job["risk"].at = "reset"
  /\ cache' = IF Cached THEN [cache EXCEPT !.ext = 0, !.client = 0] ELSE cache
  /\ Ends("risk")
  /\ UNCHANGED <<overlap, plans, expired, executor, row, opened, history>>

-----------------------------------------------------------------------------
(* The plan half of a reconcile run.                                       *)

ReconcileStart ==
  /\ MayStart("reconcile")
  /\ job' = [job EXCEPT !["reconcile"] = [IdleJob EXCEPT !.at = "match", !.seen = Filled]]
  /\ UNCHANGED <<overlap, plans, expired, cache, executor, row, opened, history>>

\* The trade of the entry: by its id, or without one the only trade there is.
TradeOf(e, seen) ==
  IF e.ext # 0 THEN {e.ext} \cap seen
    ELSE IF Cardinality(seen) = 1 THEN seen ELSE {}

OpensWith(e, o, seen) ==
  job' = [job EXCEPT !["reconcile"] = [at |-> "insert", copy |-> e, trade |-> o, seen |-> seen]]

SecondPass == job' = [job EXCEPT !["reconcile"] = [IdleJob EXCEPT !.at = "orders"]]

\* reconcilePlanEntries
ReconcileMatch ==
  LET seen == job["reconcile"].seen IN
  /\ job["reconcile"].at = "match"
  /\ IF Cached /\ TradeOf(cache, seen) # {}
       THEN \E o \in TradeOf(cache, seen) : OpensWith(cache, o, seen)
       ELSE SecondPass
  /\ UNCHANGED <<overlap, plans, expired, cache, executor, row, opened, history>>

\* The transaction of openPositionFromPlan.  A unique violation aborts it and
\* the run, whatever the callback makes of the error.
ReconcileInsert ==
  LET r == job["reconcile"] IN
  /\ r.at = "insert"
  /\ IF row = NoRow /\ r.copy.plan \notin opened
       THEN /\ row' = [trade |-> r.trade, plan |-> r.copy.plan]
            /\ opened' = opened \cup {r.copy.plan}
            /\ Goes("reconcile", "remove")
       ELSE Ends("reconcile") /\ UNCHANGED <<row, opened>>
  /\ UNCHANGED <<overlap, plans, expired, cache, executor, history>>

\* PlanCache.Remove, by symbol; then the second pass if this was the first.
ReconcileRemove ==
  /\ job["reconcile"].at = "remove"
  /\ cache' = NoEntry
  /\ IF job["reconcile"].seen = {} THEN Ends("reconcile") ELSE SecondPass
  /\ UNCHANGED <<overlap, plans, expired, executor, row, opened, history>>

\* reconcilePlanOrders, which also finds a trade that is closed again.
ReconcileOrders ==
  /\ job["reconcile"].at = "orders"
  /\ IF cache.ext # 0 /\ cache.ext \in {o \in Orders : HasFill(o)}
       THEN OpensWith(cache, cache.ext, {})
       ELSE Ends("reconcile")
  /\ UNCHANGED <<overlap, plans, expired, cache, executor, row, opened, history>>

-----------------------------------------------------------------------------
(* The executor, the row's own life, the operator, and the process.        *)

OrderMoves(o, from, to) ==
  /\ order[o].state = from
  /\ order' = [order EXCEPT ![o].state = to]
  /\ UNCHANGED <<overlap, plans, expired, cache, orders, row, opened, job, history>>

Fill(o) == OrderMoves(o, "resting", "filled")
GivenUp(o) == OrderMoves(o, "resting", "cancelled")
Sold(o) == OrderMoves(o, "filled", "sold")

Elapse(p) ==
  /\ p <= plans
  /\ expired' = expired \cup {p}
  /\ UNCHANGED <<overlap, plans, cache, executor, row, opened, job, history>>

\* What CloseFlow promises: a row is closed when its trade is gone.
RowCloses ==
  /\ row # NoRow /\ order[row.trade].state # "filled"
  /\ row' = NoRow
  /\ UNCHANGED <<overlap, plans, expired, cache, executor, opened, job, history>>

\* The debugging API injects a plan or clears the cache; no order is cancelled.
Debug ==
  /\ overlap /\ Fault("debug")
  /\ \/ plans < MaxPlans /\ plans' = plans + 1 /\ cache' = [NoEntry EXCEPT !.plan = plans']
     \/ Cached /\ cache' = NoEntry /\ UNCHANGED plans
  /\ UNCHANGED <<overlap, expired, executor, row, opened, job, left>>

\* The cache and the jobs are lost.  Before any job runs again recovery adopts
\* the trade of a symbol without a row, if there is but one.
Restart ==
  /\ Fault("crash")
  /\ cache' = NoEntry
  /\ job' = [j \in Jobs |-> IdleJob]
  /\ row' = IF row = NoRow /\ Cardinality(Filled) = 1
              THEN [trade |-> CHOOSE o \in Filled : TRUE, plan |-> 0] ELSE row
  /\ UNCHANGED <<overlap, plans, expired, executor, opened, left>>

CancelStep(j) == CancelCheck(j) \/ CancelQuery(j) \/ CancelWithdraw(j) \/ CancelClear(j)
DecideStep == DecideNothing \/ DecideUpsert \/ CancelStep("decide")
RiskStep ==
  \/ RiskExpire \/ RiskDeclines \/ RiskResize \/ RiskCheck \/ RiskMark
  \/ RiskPlace \/ RiskAnswer \/ RiskReset \/ CancelStep("risk")
ReconcileStep ==
  ReconcileMatch \/ ReconcileInsert \/ ReconcileRemove \/ ReconcileOrders

Next ==
  \/ DecideStart \/ DecideStep
  \/ RiskLoad \/ RiskStep
  \/ ReconcileStart \/ ReconcileStep
  \/ \E o \in Orders : Fill(o) \/ GivenUp(o) \/ Sold(o)
  \/ \E p \in Plans : Elapse(p)
  \/ RowCloses \/ Debug \/ Restart

Spec == Init /\ [][Next]_vars

\* A job that has started goes on; the scheduler starts a risk run again and
\* again (strongly fair: the worker may be busy with another job whenever it
\* looks); plans reach their expiry.
RiskFairness ==
  /\ WF_vars(DecideStep) /\ WF_vars(RiskStep) /\ WF_vars(ReconcileStep)
  /\ SF_vars(RiskLoad)
  /\ WF_vars(\E p \in Plans : Elapse(p))

\* Reconcile runs are started again and again too, and a row whose trade is gone
\* is closed.
Fairness == RiskFairness /\ SF_vars(ReconcileStart) /\ WF_vars(RowCloses)

RiskSpec == Spec /\ RiskFairness
FairSpec == Spec /\ Fairness

-----------------------------------------------------------------------------
(* Properties                                                              *)

TypeOK ==
  /\ overlap \in Overlaps /\ faults \in 0 .. MaxFaults
  /\ plans \in 0 .. MaxPlans /\ orders \in 0 .. MaxOrders
  /\ expired \subseteq Plans /\ opened \subseteq Plans /\ left \subseteq Orders
  /\ cache \in Entry \cup {NoEntry}
  /\ order \in [Orders -> [plan : 0 .. MaxPlans, state : OrderState]]
  /\ row \in [trade : 0 .. MaxOrders, plan : 0 .. MaxPlans]
  /\ job \in [Jobs -> Job]

\* The executor accepts at most one entry order of a plan, however answers are
\* lost, jobs overlap, plans are replaced and the process restarts: an order in
\* doubt is never repeated.
Accepted(o) == order[o].state \notin {"unsent", "refused"}
OneOrderPerPlan ==
  \A o, p \in Orders : Accepted(o) /\ Accepted(p) /\ order[o].plan = order[p].plan => o = p

\* Jobs one at a time, and no fault so far.
Calm == ~overlap /\ faults = 0

\* In calm, a row carries the plan its trade was ordered for, with that plan's
\* stop and direction, unless the order had a fill when it was to be cancelled.
RowMatchesOrder ==
  Calm /\ row # NoRow => row.plan = order[row.trade].plan \/ row.trade \in left

\* In calm, a trade is the row's, or the cached plan's, or in the hands of the
\* job that is about to say so, unless it had a fill when it was to be cancelled.
TradesAreRemembered ==
  Calm => \A o \in Filled :
            \/ row.trade = o \/ cache.ext = o \/ o \in left
            \/ \E j \in Jobs : job[j].trade = o \/ job[j].copy.ext = o

\* A cached plan does not block the symbol: it becomes a row, is replaced, or
\* expires, also when its order is in doubt.
PlanEnds == \A p \in Plans : (cache.plan = p) ~> (cache.plan # p)

\* README.org:267 has the reconcile stage "Sync state between Brale and the
\* exchange": a trade that stays open comes to have a row.
TradesAreReconciled ==
  \A o \in Orders :
    (order[o].state = "filled") ~> (row.trade = o \/ order[o].state = "sold")
=============================================================================
