----------------------------- MODULE CloseFlow -----------------------------
(***************************************************************************)
(* The close flow of one position of brale-core: the row of the positions  *)
(* table, the trade the executor (Freqtrade) holds for it, and the jobs    *)
(* that move the two: risk-monitor runs and decision runs close the        *)
(* position or rewrite its risk plan, reconcile runs and the recovery at   *)
(* boot compare the row with the executor.  River runs jobs of one symbol  *)
(* concurrently, so every store or executor call is a step of its own.     *)
(*                                                                         *)
(* Version numbers.  A patch is UPDATE ... WHERE version = expected and    *)
(* bumps the version, so the only thing a version decides is whether the   *)
(* row was patched since a job read it: fresh[a] is exactly that.          *)
(*                                                                         *)
(* Time.  The code compares now with a stored time stamp; the model keeps  *)
(* the age of the stamp, capped at RecoverAfter, and Tick lets it grow.    *)
(***************************************************************************)
EXTENDS Integers

CONSTANTS
  RiskRuns,      \* risk-monitor job executions that may overlap
  DecideRuns,    \* decision job executions that may overlap
  Reconciles,    \* reconcile runs that may overlap (periodic and webhook)
  Boot,          \* the recovery run at process start
  FullQty,       \* quantity of the trade when the row is created
  Residual,      \* largest quantity the 3 % rule calls a residual
  TPLevels,      \* number of take-profit levels of the risk plan
  RecoverAfter,  \* close_recover_after, in ticks
  MaxTightens,   \* bound: plan updates by decision runs
  Faults         \* which failures the run considers, see FaultKinds

FaultKinds == {"store", "order", "omit", "recheck", "crash"}
    \* store: a store call fails or the job's context is cancelled;
    \* order: PlaceOrder answers with an error, order placed or not;
    \* omit: the executor's first listing may miss an open trade;
    \* recheck: the second listing fails;  crash: the process restarts

Closers   == RiskRuns \cup DecideRuns
Observers == Reconciles \cup {Boot}
Actors    == Closers \cup Observers

ASSUME ActorsAssumption ==
  /\ RiskRuns \cap DecideRuns = {}
  /\ Closers \cap Observers = {}
  /\ Boot \notin Reconciles

ASSUME BoundsAssumption ==
  /\ FullQty \in Nat /\ Residual \in Nat /\ Residual < FullQty
  /\ TPLevels \in Nat /\ MaxTightens \in Nat
  /\ RecoverAfter \in Nat \ {0}
  /\ Faults \subseteq FaultKinds

VARIABLES
  row,       \* the positions row (version left out, see fresh)
  trade,     \* quantity the executor really holds
  fresh,     \* fresh[a]: the version a would patch with is the row's version
  closer,    \* closer[c]: where c is and what it read of the row
  observer,  \* observer[o]: where o is, what it read, what it was told
  notified,  \* a close summary was sent for this position
  tightens,  \* plan updates started by decision runs
  tpOrders   \* close orders placed for each take-profit level, counted up to 2

vars == <<row, trade, fresh, closer, observer, notified, tightens, tpOrders>>

-----------------------------------------------------------------------------
CloseStatus == {"CLOSE_ARMED", "CLOSE_SUBMITTING", "CLOSE_PENDING"}
Status == CloseStatus \cup {"OPEN_ACTIVE", "CLOSED"}
NotSubmitted == -1               \* close_submitted_at = 0
Age == 0 .. RecoverAfter
Stamp == Age \cup {NotSubmitted}
Qty == 0 .. FullQty
Level == 1 .. TPLevels
Hits == 0 .. TPLevels

Row == [status : Status, qty : Qty, submitted : Stamp, updated : Age, hits : Hits]

\* at: the next step; hits: the plan in hand; trigger: what the closer acts
\* on, a take-profit level or 0 for any other exit.
CloserAt == {"idle", "evaluate", "planFind", "planWrite", "reload", "latch",
             "submitting", "place", "pending"}
Closer == [at : CloserAt, status : Status, hits : Hits, trigger : Hits]
IdleCloser == [at |-> "idle", status |-> "CLOSED", hits |-> 0, trigger |-> 0]

ObserverAt == {"idle", "fetch", "present", "recheck", "finalize", "summary",
               "list", "recover"}
Observer == [at : ObserverAt, status : Status, qty : Qty, submitted : Stamp,
             updated : Age, ext : Qty]
Observing(at) == [at |-> at, status |-> "CLOSED", qty |-> 0,
                  submitted |-> NotSubmitted, updated |-> 0, ext |-> 0]
IdleObserver == Observing("idle")

IsCloseFlowStatus(s) == s \in CloseStatus

\* IsResidualCloseFlowQty and isMeaningfulCloseFlowExternalQty: a leftover of
\* at most Residual counts as gone once the row is in the close flow.
Meaningful(status, q) ==
  /\ q > 0
  /\ IsCloseFlowStatus(status) => q > Residual

\* Mutants of the rules below: the timeout of one state forgotten, and < for <=.
TimeoutOfPendingOnly(s) ==
  s.status = "CLOSE_PENDING" /\ s.submitted >= RecoverAfter
PartialCloseOnEqualQty(s) ==
  IsCloseFlowStatus(s.status) /\ s.qty > 0 /\ s.ext > 0 /\ s.ext <= s.qty

\* closeSubmittedAt: the stored stamp, updated_at when there is none.
ShouldRecoverCloseTimeout(s) ==
  /\ IsCloseFlowStatus(s.status)
  /\ (IF s.submitted # NotSubmitted THEN s.submitted ELSE s.updated) >= RecoverAfter

PartialCloseConfirmed(s) ==
  IsCloseFlowStatus(s.status) /\ s.qty > 0 /\ s.ext > 0 /\ s.ext < s.qty

NextStatus(s) ==
  IF ShouldRecoverCloseTimeout(s) \/ PartialCloseConfirmed(s)
    THEN "OPEN_ACTIVE" ELSE s.status

-----------------------------------------------------------------------------
Up == observer[Boot].at = "idle"

\* Mutants of Patch: no WHERE version = expected, and no bump of the version.
PatchWithoutVersionCheck(a, new, keeps) ==
  /\ row' = [new EXCEPT !.updated = 0]
  /\ fresh' = [b \in Actors |-> b = a /\ keeps]
PatchWithoutBump(a, new, keeps) ==
  IF fresh[a]
    THEN row' = [new EXCEPT !.updated = 0] /\ fresh' = [fresh EXCEPT ![a] = keeps]
    ELSE UNCHANGED <<row, fresh>>

\* updatePosition: the patch lands only on the version a read, and makes
\* every other record stale; keeps: a's own record has the version it wrote.
Patch(a, new, keeps) ==
  IF fresh[a]
    THEN /\ row' = [new EXCEPT !.updated = 0]
         /\ fresh' = [b \in Actors |-> b = a /\ keeps]
    ELSE UNCHANGED <<row, fresh>>

\* FindPosition..., ListPositionsByStatus: a's record has the row's version.
Reads(a) == fresh' = [fresh EXCEPT ![a] = TRUE]
Forgets(a) == fresh' = [fresh EXCEPT ![a] = FALSE]

CloserGoto(c, at) == closer' = [closer EXCEPT ![c].at = at]
CloserEnds(c) == closer' = [closer EXCEPT ![c] = IdleCloser]
ObserverEnds(o) == observer' = [observer EXCEPT ![o] = IdleObserver]

Init ==
  /\ row = [status |-> "OPEN_ACTIVE", qty |-> FullQty, submitted |-> NotSubmitted,
            updated |-> 0, hits |-> 0]
  /\ trade = FullQty
  /\ fresh = [a \in Actors |-> FALSE]
  /\ closer = [c \in Closers |-> IdleCloser]
  /\ observer = [o \in Observers |-> IdleObserver]
  /\ notified = FALSE
  /\ tightens = 0
  /\ tpOrders = [k \in Level |-> 0]

-----------------------------------------------------------------------------
(* Risk monitor: list the active rows, evaluate the plan, mark a level.    *)

RiskList(c) ==
  /\ Up /\ closer[c].at = "idle" /\ row.status = "OPEN_ACTIVE"
  /\ closer' = [closer EXCEPT ![c] =
       [at |-> "evaluate", status |-> row.status, hits |-> row.hits, trigger |-> 0]]
  /\ Reads(c)
  /\ UNCHANGED <<row, trade, observer, notified, tightens, tpOrders>>

\* Stop loss or max drawdown: close without touching the plan.
RiskStop(c) ==
  /\ closer[c].at = "evaluate"
  /\ CloserGoto(c, "latch")
  /\ UNCHANGED <<row, trade, fresh, observer, notified, tightens, tpOrders>>

\* Mutants of RiskTakeProfit: a level that was hit fires again, and the plan
\* in hand is written without the mark.
TakeProfitOfHitLevel(c) ==
  /\ closer[c].at = "evaluate"
  /\ closer' = [closer EXCEPT ![c].at = "planFind", ![c].hits = @ + 1,
                              ![c].trigger = closer[c].hits + 1]
  /\ Forgets(c)
  /\ UNCHANGED <<row, trade, observer, notified, tightens, tpOrders>>
TakeProfitUnmarked(c) ==
  /\ closer[c].at = "evaluate" /\ closer[c].hits < TPLevels
  /\ closer' = [closer EXCEPT ![c].at = "planFind", ![c].trigger = closer[c].hits + 1]
  /\ Forgets(c)
  /\ UNCHANGED <<row, trade, observer, notified, tightens, tpOrders>>

\* The first level not hit yet: the plan in hand gets the mark.
RiskTakeProfit(c) ==
  /\ closer[c].at = "evaluate" /\ closer[c].hits < TPLevels
  /\ closer' = [closer EXCEPT ![c].at = "planFind", ![c].hits = @ + 1,
                              ![c].trigger = closer[c].hits + 1]
  /\ Forgets(c)
  /\ UNCHANGED <<row, trade, observer, notified, tightens, tpOrders>>

(* RiskPlanService.ApplyUpdate: reads the row again for its version only   *)
(* and writes the plan the caller has in hand, whatever the row's status.  *)

PlanFind(c) ==
  /\ closer[c].at = "planFind"
  /\ CloserGoto(c, "planWrite") /\ Reads(c)
  /\ UNCHANGED <<row, trade, observer, notified, tightens, tpOrders>>

PlanWrite(c) ==
  /\ closer[c].at = "planWrite"
  /\ Patch(c, [row EXCEPT !.hits = closer[c].hits], FALSE)
  /\ IF fresh[c] /\ c \in RiskRuns THEN CloserGoto(c, "reload") ELSE CloserEnds(c)
  /\ UNCHANGED <<trade, observer, notified, tightens, tpOrders>>

\* refreshRiskPlanOnTPHit reloads the row after the mark; when the reload
\* fails it goes on with the row listed before, whose version is stale.
RiskReload(c) ==
  /\ closer[c].at = "reload"
  /\ \/ /\ closer' = [closer EXCEPT ![c].at = "latch", ![c].status = row.status,
                                     ![c].hits = row.hits]
        /\ Reads(c)
     \/ /\ "store" \in Faults
        /\ CloserGoto(c, "latch")
        /\ UNCHANGED fresh
  /\ UNCHANGED <<row, trade, observer, notified, tightens, tpOrders>>

-----------------------------------------------------------------------------
(* Decision run: close on an exit decision, or tighten the plan.           *)

DecideExit(c) ==
  /\ Up /\ closer[c].at = "idle"
  /\ closer' = [closer EXCEPT ![c] =
       [at |-> "latch", status |-> row.status, hits |-> row.hits, trigger |-> 0]]
  /\ Reads(c)
  /\ UNCHANGED <<row, trade, observer, notified, tightens, tpOrders>>

\* The plan is read, tightened (an LLM call may come between) and written.
DecideTighten(c) ==
  /\ Up /\ closer[c].at = "idle" /\ tightens < MaxTightens
  /\ closer' = [closer EXCEPT ![c] =
       [at |-> "planFind", status |-> row.status, hits |-> row.hits, trigger |-> 0]]
  /\ tightens' = tightens + 1
  /\ UNCHANGED <<row, trade, fresh, observer, notified, tpOrders>>

-----------------------------------------------------------------------------
(* PositionService.ArmClose.                                               *)

\* guardArmClose refuses a row that is in flight already or not active;
\* latchClose takes the row for this close intent.
LatchClose(c) ==
  /\ closer[c].at = "latch" /\ closer[c].status = "OPEN_ACTIVE"
  /\ Patch(c, [row EXCEPT !.status = "CLOSE_ARMED", !.submitted = NotSubmitted], TRUE)
  /\ closer' = [closer EXCEPT ![c] = IF ~fresh[c] THEN IdleCloser
       ELSE [IdleCloser EXCEPT !.at = "submitting", !.trigger = closer[c].trigger]]
  /\ UNCHANGED <<trade, observer, notified, tightens, tpOrders>>

MarkCloseSubmitting(c) ==
  /\ closer[c].at = "submitting"
  /\ Patch(c, [row EXCEPT !.status = "CLOSE_SUBMITTING", !.submitted = 0], TRUE)
  /\ IF fresh[c] THEN CloserGoto(c, "place") ELSE CloserEnds(c)
  /\ UNCHANGED <<trade, observer, notified, tightens, tpOrders>>

\* The executor takes the order; its answer may still be lost.
PlaceOrder(c) ==
  /\ closer[c].at = "place" /\ trade > 0
  /\ tpOrders' = [k \in Level |->
       IF k = closer[c].trigger /\ tpOrders[k] < 2 THEN tpOrders[k] + 1 ELSE tpOrders[k]]
  /\ \/ CloserGoto(c, "pending") /\ UNCHANGED fresh
     \/ "order" \in Faults /\ CloserEnds(c) /\ Forgets(c)
  /\ UNCHANGED <<row, trade, observer, notified, tightens>>

MarkClosePending(c) ==
  /\ closer[c].at = "pending"
  /\ Patch(c, [row EXCEPT !.status = "CLOSE_PENDING"], FALSE)
  /\ CloserEnds(c)
  /\ UNCHANGED <<trade, observer, notified, tightens, tpOrders>>

\* The run ends where it is: the price hits nothing, no quantity to close is
\* known or guardArmClose refuses the row in hand, the executor rejects the
\* order, or a store call fails.
CloserStops(c) ==
  /\ \/ closer[c].at \in {"evaluate", "latch"}
     \/ closer[c].at = "place" /\ (trade = 0 \/ "order" \in Faults)
     \/ closer[c].at # "idle" /\ "store" \in Faults
  /\ CloserEnds(c) /\ Forgets(c)
  /\ UNCHANGED <<row, trade, observer, notified, tightens, tpOrders>>

-----------------------------------------------------------------------------
(* ReconcileService.RunOnce: list the rows, then ask the executor.         *)

Listed(at) == [at |-> at, status |-> row.status, qty |-> row.qty,
               submitted |-> row.submitted, updated |-> row.updated, ext |-> 0]

\* Mutant of ReconcileList: active rows are left out of the listed statuses.
ListInFlightOnly(o) ==
  /\ Up /\ observer[o].at = "idle" /\ IsCloseFlowStatus(row.status)
  /\ observer' = [observer EXCEPT ![o] = Listed("fetch")]
  /\ Reads(o)
  /\ UNCHANGED <<row, trade, closer, notified, tightens, tpOrders>>

ReconcileList(o) ==
  /\ Up /\ observer[o].at = "idle" /\ row.status # "CLOSED"
  /\ observer' = [observer EXCEPT ![o] = Listed("fetch")]
  /\ Reads(o)
  /\ UNCHANGED <<row, trade, closer, notified, tightens, tpOrders>>

\* GetOpenPositions; an omission looks like a quantity of 0.
Listing == {trade} \cup {q \in {0} : "omit" \in Faults}

ReconcileFetch(o) ==
  /\ observer[o].at = "fetch"
  /\ \E q \in Listing : observer' = [observer EXCEPT ![o] =
       IF Meaningful(observer[o].status, q)
         THEN [@ EXCEPT !.at = "present", !.ext = q]
         ELSE [Observing("recheck") EXCEPT !.status = observer[o].status]]
  /\ UNCHANGED <<row, trade, fresh, closer, notified, tightens, tpOrders>>

\* handleExternalPresent: always patches, whether or not the status moves.
HandleExternalPresent(o) ==
  LET s == NextStatus(observer[o])
      reopened == s = "OPEN_ACTIVE" /\ IsCloseFlowStatus(observer[o].status)
  IN
  /\ observer[o].at = "present"
  /\ Patch(o, [row EXCEPT !.status = s, !.qty = observer[o].ext,
                          !.submitted = IF reopened THEN NotSubmitted ELSE @], FALSE)
  /\ ObserverEnds(o)
  /\ UNCHANGED <<trade, closer, notified, tightens, tpOrders>>

\* Mutant of RecheckExternalPosition: the first listing is believed.
RecheckSkipped(o) ==
  /\ observer[o].at = "recheck"
  /\ observer' = [observer EXCEPT ![o] = Observing("finalize")]
  /\ UNCHANGED <<row, trade, fresh, closer, notified, tightens, tpOrders>>

\* recheckExternalPosition: an error counts as a confirmation.
RecheckExternalPosition(o) ==
  /\ observer[o].at = "recheck"
  /\ ~Meaningful(observer[o].status, trade) \/ "recheck" \in Faults
  /\ observer' = [observer EXCEPT ![o] = Observing("finalize")]
  /\ UNCHANGED <<row, trade, fresh, closer, notified, tightens, tpOrders>>

\* finalizeExternalMissing ignores whether the patch landed.
FinalizeExternalMissing(o) ==
  /\ observer[o].at = "finalize"
  /\ Patch(o, [row EXCEPT !.status = "CLOSED", !.submitted = NotSubmitted], FALSE)
  /\ observer' = [observer EXCEPT ![o] = Observing("summary")]
  /\ UNCHANGED <<trade, closer, notified, tightens, tpOrders>>

SendCloseSummary(o) ==
  /\ observer[o].at = "summary"
  /\ notified' = TRUE
  /\ ObserverEnds(o)
  /\ UNCHANGED <<row, trade, fresh, closer, tightens, tpOrders>>

\* The recheck finds the trade still open, or a call of the run fails.
ReconcileStops(o) ==
  /\ \/ observer[o].at = "recheck" /\ Meaningful(observer[o].status, trade)
     \/ observer[o].at # "idle" /\ "store" \in Faults
  /\ ObserverEnds(o) /\ Forgets(o)
  /\ UNCHANGED <<row, trade, closer, notified, tightens, tpOrders>>

-----------------------------------------------------------------------------
(* Restart: every job is lost, then RecoveryService.RunOnce runs alone.    *)

Crash ==
  /\ "crash" \in Faults
  /\ closer' = [c \in Closers |-> IdleCloser]
  /\ observer' = [o \in Observers |-> Observing(IF o = Boot THEN "list" ELSE "idle")]
  /\ fresh' = [a \in Actors |-> FALSE]
  /\ UNCHANGED <<row, trade, notified, tightens, tpOrders>>

\* Lists the row unless it is CLOSED, then asks the executor.
RecoverList ==
  /\ observer[Boot].at = "list"
  /\ IF row.status = "CLOSED"
       THEN ObserverEnds(Boot) /\ UNCHANGED fresh
       ELSE /\ \E q \in Listing :
                  observer' = [observer EXCEPT ![Boot] = [Listed("recover") EXCEPT !.ext = q]]
            /\ Reads(Boot)
  /\ UNCHANGED <<row, trade, closer, notified, tightens, tpOrders>>

\* updateActivePosition reopens the row and leaves close_submitted_at alone;
\* handleMissingExternal closes it.
Recover ==
  /\ observer[Boot].at = "recover"
  /\ Patch(Boot, IF Meaningful(observer[Boot].status, observer[Boot].ext)
                   THEN [row EXCEPT !.status = "OPEN_ACTIVE", !.qty = observer[Boot].ext]
                   ELSE [row EXCEPT !.status = "CLOSED", !.submitted = NotSubmitted],
           FALSE)
  /\ ObserverEnds(Boot)
  /\ UNCHANGED <<trade, closer, notified, tightens, tpOrders>>

-----------------------------------------------------------------------------
(* The rest of the world.                                                  *)

\* Fills of orders, the executor's own stop, a manual exit: the trade shrinks.
TradeShrinks ==
  /\ \E q \in 0 .. trade - 1 : trade' = q
  /\ UNCHANGED <<row, fresh, closer, observer, notified, tightens, tpOrders>>

Older(age) == IF age < RecoverAfter THEN age + 1 ELSE age
Aged(r) == [r EXCEPT !.submitted = IF @ = NotSubmitted THEN @ ELSE Older(@),
                     !.updated = Older(@)]

Tick ==
  /\ row' = Aged(row)
  /\ observer' = [o \in Observers |->
       IF observer[o].at \in {"fetch", "present"} THEN Aged(observer[o]) ELSE observer[o]]
  /\ UNCHANGED <<trade, fresh, closer, notified, tightens, tpOrders>>

RiskStep(c) == RiskList(c) \/ RiskStop(c) \/ RiskTakeProfit(c) \/ RiskReload(c)
DecideStep(c) == DecideExit(c) \/ DecideTighten(c)
CloseStep(c) == \/ PlanFind(c) \/ PlanWrite(c) \/ LatchClose(c) \/ MarkCloseSubmitting(c)
                \/ PlaceOrder(c) \/ MarkClosePending(c) \/ CloserStops(c)
ReconcileStep(o) ==
  \/ ReconcileList(o) \/ ReconcileFetch(o) \/ HandleExternalPresent(o)
  \/ RecheckExternalPosition(o) \/ FinalizeExternalMissing(o) \/ SendCloseSummary(o)
  \/ ReconcileStops(o)

Next ==
  \/ \E c \in RiskRuns : RiskStep(c)
  \/ \E c \in DecideRuns : DecideStep(c)
  \/ \E c \in Closers : CloseStep(c)
  \/ \E o \in Reconciles : ReconcileStep(o)
  \/ Crash \/ RecoverList \/ Recover
  \/ TradeShrinks \/ Tick

Spec == Init /\ [][Next]_vars

-----------------------------------------------------------------------------
(* Fairness.  River re-inserts the periodic reconcile job and retries a    *)
(* failed one, and store and executor are not down for ever: a reconcile   *)
(* step that is possible again and again is taken in the end, and so is a  *)
(* step of recovery (restarts do not follow one another for ever).  Time   *)
(* passes and a job that runs takes its next step.                         *)
Fairness ==
  /\ WF_vars(Tick)
  /\ \A o \in Reconciles :
       /\ SF_vars(ReconcileList(o)) /\ SF_vars(ReconcileFetch(o))
       /\ SF_vars(HandleExternalPresent(o))
       /\ SF_vars(RecheckExternalPosition(o)) /\ SF_vars(FinalizeExternalMissing(o))
       /\ WF_vars(ReconcileStep(o))
  /\ \A c \in Closers : WF_vars(CloseStep(c))
  /\ SF_vars(RecoverList) /\ SF_vars(Recover)

FairSpec == Spec /\ Fairness

-----------------------------------------------------------------------------
(* Properties                                                              *)

TypeOK ==
  /\ row \in Row /\ trade \in Qty
  /\ fresh \in [Actors -> BOOLEAN]
  /\ closer \in [Closers -> Closer]
  /\ observer \in [Observers -> Observer]
  /\ notified \in BOOLEAN
  /\ tightens \in 0 .. MaxTightens
  /\ tpOrders \in [Level -> 0 .. 2]

\* What the code leans on: a listing that misses an open trade is caught by
\* the recheck, which recovery does not have and which takes an error for a
\* confirmation.
OmissionsAreRechecked == "omit" \in Faults => Faults \cap {"recheck", "crash"} = {}

\* A position is CLOSED only when the executor holds at most a residual of it:
\* a trade nobody watches any more would run without its stop.  Reconcile
\* decides on a listing and a recheck that other jobs run between.
ClosedMeansGone == row.status = "CLOSED" => trade <= Residual

\* The close summary (and the reflection that goes with it) is sent even when
\* the patch to CLOSED was denied; still the trade is gone by then.
SummaryMeansGone == notified => trade <= Residual

\* c holds the close latch: it took the row and nobody patched it since.
Holds(c) == closer[c].at \in {"submitting", "place", "pending"} /\ fresh[c]

\* Of all the risk and decision runs that decided to close, at most one can
\* still drive the row, and only while the row is in the close flow.
LatchExclusion ==
  /\ \A c, d \in Closers : Holds(c) /\ Holds(d) => c = d
  /\ \A c \in Closers : Holds(c) => IsCloseFlowStatus(row.status)

\* No late step of a run moves a CLOSED row: not a decision run that read it
\* in any status, not the mark of an order sent long ago, not a reconcile run.
StaysClosed == row.status = "CLOSED" => row'.status = "CLOSED"
ClosedIsFinal == [][StaysClosed]_vars

\* The row goes through the close flow in order: a run that was overtaken by
\* a reconcile run cannot put a reopened position back into it.
LegalStep ==
  \/ row'.status = row.status
  \/ row.status = "OPEN_ACTIVE" /\ row'.status \in {"CLOSE_ARMED", "CLOSED"}
  \/ row.status = "CLOSE_ARMED" /\ row'.status \in {"CLOSE_SUBMITTING", "OPEN_ACTIVE", "CLOSED"}
  \/ row.status = "CLOSE_SUBMITTING" /\ row'.status \in {"CLOSE_PENDING", "OPEN_ACTIVE", "CLOSED"}
  \/ row.status = "CLOSE_PENDING" /\ row'.status \in {"OPEN_ACTIVE", "CLOSED"}
LegalTransitions == [][LegalStep]_vars

\* A close that was submitted is given up only after close_recover_after, or
\* when a part of the trade is seen to be gone, or at a restart.
JustifiedReopen ==
  row.status \in {"CLOSE_SUBMITTING", "CLOSE_PENDING"} /\ row'.status = "OPEN_ACTIVE"
    => \/ row.submitted >= RecoverAfter
       \/ row'.qty < row.qty
       \/ observer[Boot].at = "recover"
ReopenIsJustified == [][JustifiedReopen]_vars

\* Risk runs one after another, and no plan rewritten by a decision run.
SerialRisk == MaxTightens = 0 /\ \A c, d \in RiskRuns : c = d

\* Under SerialRisk each take-profit level orders at most one close, whatever
\* fails or restarts between the mark and the order.
OneOrderPerLevel == \A k \in Level : tpOrders[k] <= 1

\* A close whose order was submitted does not hang: when nothing comes of it
\* the row is active again, under the watch of the risk monitor, or closed.
SubmittedCloseRecovers ==
  row.status \in {"CLOSE_SUBMITTING", "CLOSE_PENDING"} ~> ~IsCloseFlowStatus(row.status)

\* A trade that is gone is noticed, whatever the close flow was doing.
GoneIsClosed == (trade = 0) ~> (row.status = "CLOSED")

\* docs/configuration.org:233 says of close_recover_after: timeout before
\* recovering close state.  The close state is also CLOSE_ARMED.
ArmedCloseRecovers == (row.status = "CLOSE_ARMED") ~> (row.status # "CLOSE_ARMED")

\* docs/trading-logic.org:280 says of tp1_hit: whether the first take-profit
\* level has been hit.  A level that was hit has been hit for good.
TPHitIsKept == [][row'.hits >= row.hits]_vars

\* The close flow implements the life cycle of a position: at most a residual
\* left is gone, any CLOSE_ status is closing.
Phase == IF row.status = "OPEN_ACTIVE" THEN "open"
         ELSE IF row.status = "CLOSED" THEN "closed" ELSE "closing"
Gone == trade <= Residual
Lifecycle == INSTANCE CloseLifecycle WITH phase <- Phase, gone <- Gone, told <- notified

LifecycleSpec == Lifecycle!Spec
=============================================================================
