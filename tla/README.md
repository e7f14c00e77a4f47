# brale-core in TLA+

Brale-core trades crypto perpetuals for a person: every bar it computes features,
asks LLM agents and providers, decides by rules, plans a trade with its risk, and
hands it to an executor (Freqtrade). From then on it watches the price, the
executor and its own `positions` table until the position is closed, and tells the
person on several channels. This directory holds TLA+ modules of its core, the TLC
runs that check them on small instances, and theorems that TLAPS proves for all
instances.

| file | what it is |
| --- | --- |
| `CloseFlow.tla` | one row of `positions`, the executor's trade, and every job that moves the two |
| `CloseLifecycle.tla` | what `CloseFlow` promises: open, closing, closed, and nobody told too early |
| `EntryFlow.tla` | how a symbol comes by a position: cached plan, order, fill, row |
| `TradeDecision.tla` | what decisions and prices do to one symbol, round by round; uses the next two |
| `RiskMath.tla` | operators: first exits, size, leverage, liquidation, and how a plan is tightened |
| `RuleFlow.tla` | operators: direction, gate, sieve, guard, monitor fusion, state machine |
| `LLMCall.tla` | the calls of one LLM model: circuit breaker, gate, cooldown, attempts |
| `Runtime.tla` | schedule control, task queues of the symbols, ingest of webhooks |
| `MarkPriceStream.tla` | the price stream that `Runtime` starts and closes |
| `Notices.tla` | the notices of a position on their way to the channels |
| `MC*.tla`, `*.cfg` | instances for TLC |
| `*_proofs.tla` | the theorems about the module of that name, with their proofs; `TradeLevels_proofs` holds those about the take-profit levels of `TradeDecision` |
| `PROJECT.json` | components, runs, mutants, the map to source lines, findings, hazards, theorems |

    tlc -workers 2 -config reconcilers.cfg MCCloseFlow.tla
    tlapm CloseFlow_proofs.tla

## 1. The system and its parts

Paths are under `src/internal`. The list follows the flow of a trade.

### From the market to a decision

**Market data** (`market`, `snapshot`): fetches klines, open interest, funding and
sentiment; keeps caches. I/O, not modelled.

**Mark price stream** (`market/binance/mark_price_ws.go`): a running flag, a stop
channel, a run id and a connected flag, shared by `Start`, `Close` and a
reconnecting reader for each start. Hard: a start before the reader of the run before
has gone. Correct when a closed stream ends its readers and the status does not stay
wrong. *Modelled: `MarkPriceStream`.*

**Features, agents, providers, formats** (`decision/features`, `agent`, `provider`,
`ta`): indicator arithmetic, prompts and texts, no state of their own. Not modelled.

**LLM client, gate and circuit breaker** (`llm`): per model a breaker (state, failure
count, probe flag) and a gate (semaphore, cooldown, last start), called by all
symbols at once. Hard: which wait was read before which other, what a cancelled call
leaves behind, answers that come after the breaker moved. Correct when limits hold,
when calls end, when a breaker that opened tries again. *Modelled: `LLMCall`.*

**LLM rounds and prompts** (`llm/app`, `llmround`, `promptreg`, `llmctl`, `prompt`):
build requests and parse answers. **Memory and reflection** (`memory`): a ring of
recent rounds and two stores. Not modelled.

**Rule flow, gate and state machine** (`decision/ruleflow`, `fsm`, `gate`,
`direction`, `fund`): judgements over the answers. *Modelled: `RuleFlow`.*

**Sizing, leverage, initial exits** (`risk`, `risk/initexit`, `pkg/stoploss`):
arithmetic. Correct when a plan keeps to its risk, margin and leverage, and its stop
lies before the liquidation. *Modelled: `RiskMath`.*

**Decision runner and pipeline** (`decision`): a round per bar; over a flat symbol it
plans an entry, over a position it keeps, tightens or exits, with counts of votes
and a cooldown in memory. Hard: what a round decides rests on earlier rounds, on other
writers of the plan and on a memory that a restart empties. *Modelled:
`TradeDecision` (a round is one step) and the steps inside a round in `CloseFlow` and
`EntryFlow`.*

### From a plan to a position

**Plan cache and entry path** (`position/plan_cache.go`, `position_open.go`,
`risk_entry_trigger.go`, `reconcile/reconcile_plan.go`,
`decision/pipeline_persist.go`): one cached plan per symbol with the ids of its order.
Decision runs replace it, risk runs trigger, order and expire it, reconcile turns a
fill into a row. Hard: the plan changes under an order that is on its way. Correct when
no plan is ordered twice and every trade is owned by the plan that ordered it.
*Modelled: `EntryFlow`.*

**Entry abort** (`reconcile/reconcile_abort.go`): cancels entries by drift or timeout.
No code creates the rows it waits for; not modelled.

### From a position to its end

**Position row store** (`pgstore/position.go`): `UPDATE ... WHERE version = expected`.
**Close service** (`position/position_close.go`): guard, latch, submit, order, mark.
**Risk monitor** (`position/risk_monitor.go`, `risk_active_evaluator.go`): lists
active rows every second, closes on stop or take-profit.
**Risk plan service** (`position/risk_plan_service.go`): writes the plan of a row.
**In-position decision path** (`decision/pipeline_position.go`, `pipeline_risk*.go`).
**Reconcile service** (`reconcile`): compares rows with the executor.
**Recovery at start** (`reconcile/recovery_service.go`): the same, once, after a restart.
These share one row and one trade and nothing else. Hard: every call is a gap in
which another job acts; orders whose answer is lost; listings that miss a trade;
restarts anywhere. Correct when a position is closed once, when a closed row is a
closed trade, and when no close hangs. *Modelled: `CloseFlow`, `CloseLifecycle`.*

### Around them

**Runtime scheduler and worker pools** (`runtime/runtime_scheduler*.go`,
`usecase_schedule.go`): periodic tasks per symbol, coalesced by a pending mark, in
bounded queues with one worker each; symbols are decided, watched or off. Correct when
no mark outlives its task and when price stream and watched symbols follow what was
asked. **Webhook ingest** (`runtime/webhook_*.go`): executor events in lanes that keep
the order of a symbol. *Modelled: `Runtime`.*

**River jobs** (`jobs`): the other backend, a queue in the database. Its notice jobs are
in `Notices`; for the others `CloseFlow` and `EntryFlow` use what its configuration
permits: jobs of a symbol overlap, are retried and are lost on a restart.

**Notification manager and close aggregation** (`transport/notify`): up to four notices
of one position speak of its close under one key, and a guard in memory merges them.
Correct when no channel is told twice and when a notice that was skipped was carried by
another. *Modelled: `Notices`* (not the two-second aggregation, which the managers that
deliver do not have).

**Executor adapter** (`execution`): an HTTP client. `CloseFlow` and `EntryFlow` model
what it promises: a listing, the state of an order, an order accepted, refused or
unanswered.

**Other tables; HTTP API, bots and cards; MCP, onboarding and symbol control;
configuration, bootstrap, telemetry; command line, back tests, e2e harness**: single
statements, rendering, wiring and tools. Not modelled, except that the order of the
start (`bootstrap/run.go`: recovery, reconcile, schedulers, HTTP) is used.

### How the modules meet

`Runtime` says which jobs run and that those of a symbol are one at a time under the
in-process scheduler; River lets them overlap. `EntryFlow` starts and ends where
`CloseFlow` ends and starts: its `RowCloses` is the promise of `CloseLifecycle`, and its
`ReconcileInsert` makes the `OPEN_ACTIVE` row with which `CloseFlow` begins.
`TradeDecision` says what a decision or risk run wants, the two flows what becomes of it.
`CloseFlow` says when a close summary is sent, `Notices` what becomes of it.

## 2. Plan

Done, in order of what a fault would cost: `CloseFlow` with `CloseLifecycle`, `LLMCall`,
`EntryFlow`, `Runtime` with `MarkPriceStream`, `Notices`, and `TradeDecision` over
`RiskMath` and `RuleFlow`; a proof module for each. Next:

1. the fan-out of `LLMCall` over several models, with limits changed at run time;
2. adding and removing symbols at run time, and overlapping schedule requests with the
   steps inside `Start` and `Close`;
3. `HitsInOrder` on the short side with a gap alone, once the prices at which the gap
   is dropped are stated as an assumption;
4. the memory ring and the caches of the symbols' configuration.

## 3. CloseFlow

### State

| variable | in the code |
| --- | --- |
| `row` | the columns of `positions` the flow reads: `status`, `qty`, `close_submitted_at` and `updated_at` (as ages), and `hits`, how many take-profit levels the risk plan in `risk_json` marks as hit |
| `trade` | the quantity the executor holds, which the program only sees through listings |
| `fresh[a]` | whether the version job `a` would patch with is still the row's version. Versions only grow and are only compared, so nothing else of them can matter |
| `closer[c]` | a risk or decision run: its next call, what it read of the row, the level it acts on |
| `observer[o]` | a reconcile run or the recovery: its next call, what it read, what it was told |
| `notified` | a close summary went out |
| `tightens`, `tpOrders` | counters: plan updates by decisions (bounds the run), orders per level (for the property) |

### Actions

Every store or executor call is a step of its own; what lies between two calls is
local and joins the call that ends it.

| actions | code |
| --- | --- |
| `RiskList`, `RiskStop`, `RiskTakeProfit`, `RiskReload` | `RiskMonitor.RunOnce`, `handleActivePosition`, `refreshRiskPlanOnTPHit` |
| `PlanFind`, `PlanWrite` | `RiskPlanService.ApplyUpdate`: reads for the version, writes the caller's plan |
| `DecideExit`, `DecideTighten` | `executeInPositionClose`, `applyTightenUpdate` |
| `LatchClose`, `MarkCloseSubmitting`, `PlaceOrder`, `MarkClosePending`, `CloserStops` | `ArmClose` and `submitCloseOrder`, with every failure and early return |
| `ReconcileList`, `ReconcileFetch`, `HandleExternalPresent`, `RecheckExternalPosition`, `FinalizeExternalMissing`, `SendCloseSummary`, `ReconcileStops` | `reconcilePosition` |
| `Crash`, `RecoverList`, `Recover` | a restart and `RecoveryService.RunOnce`, which runs before the jobs start |
| `TradeShrinks` | fills, the executor's own stop, a manual exit: external |
| `Tick` | time |

### What is abstracted

- Prices are nondeterministic: any run may find a stop, the next level, or nothing.
  Levels are hit in order, as `initexit` and the plan's checks order them.
- The quantity and the kind of a close order are left out: an order makes the trade
  shrink by any amount at any later time, which `TradeShrinks` does anyway.
- The 3 % rule for residuals is the constant `Residual`.
- The in-memory `PositionCache` is left out: it is read only to describe a position
  to a prompt or a notice and no guard uses it.
- Rows start in `OPEN_ACTIVE`, the only status production code creates
  (`openPositionFromPlan`). Statuses before it belong to `EntryFlow`.
- After a restart, the first reconcile run may overlap other jobs; in the code it runs
  alone. The model has more behaviours there, never fewer.
- A failing call before anything is written is the end of the run (`CloserStops`,
  `ReconcileStops`); River's retry of it is another run.

### Runs

| run | jobs | question and result |
| --- | --- | --- |
| `reconcilers` | 1 risk, 1 decision, 2 reconcile; omissions | `LatchExclusion`, `ClosedMeansGone`, `SummaryMeansGone`, `TypeOK`: of the runs that decide to close, one drives the row; a listing that misses a trade neither closes the row nor sends a summary, also when two reconcile runs finish the same row |
| `live` | 1 risk, 1 reconcile, restarts; failing store and orders; 2 levels | `OneOrderPerLevel`: with risk runs one after the other no level orders twice; `ReopenIsJustified`: a submitted close is not given up early; `LifecycleSpec`: `CloseFlow` implements `CloseLifecycle`; `SubmittedCloseRecovers`, `GoneIsClosed` under fairness |
| `armed` | 1 risk, 1 reconcile, no faults | violated: `ArmedCloseRecovers` |
| `tpkept` | 1 risk, 1 decision, no faults | violated: `TPHitIsKept` |

Bounds. `live` has `FullQty = 3` and `Residual = 1`, which distinguishes full, part, residual
and nothing; the other runs need no part or no residual. `RecoverAfter` is 1 or 2 ticks: before and at the
timeout (and, with 2, a stamp renewed on the way). One tighten overwrites one mark.
Jobs loop for ever, so a bound on their number bounds the overlap, not the history.
Interchangeable runs are symmetric; liveness runs use no symmetry.

Fairness (`Fairness`). River re-inserts the reconcile job every minute and retries a
failed one, and neither the store nor the executor fails for ever: a reconcile step
that is possible again and again is taken (SF), and likewise recovery's. Time passes
and a started job takes its next step (WF). Nothing is assumed of prices, orders,
fills, or of risk and decision runs starting.

### Findings

- `armed`: a closer that loses the row between latch and submitting mark leaves it in
  `CLOSE_ARMED`. That state has no `close_submitted_at`, so its timeout is measured
  from `updated_at`, which each reconcile run renews. The position stays without its
  risk monitor for as long as the trade lives.
- `tpkept`: `ApplyUpdate` takes a fresh version and a plan read earlier; a decision's
  tighten erases a take-profit mark made meanwhile.

Two more departures are kept out of the passing runs by their bounds, as the code does
not prevent them: with overlapping risk runs a level can order twice (so
`OneOrderPerLevel` is checked with one), and an omission followed by a failing recheck
closes a live position (`OmissionsAreRechecked` names the condition).

### Proofs (`CloseFlow_proofs`)

For all sets of jobs, quantities, levels, timeouts and faults:

- `TypeCorrect`, `LatchIsExclusive`, `TransitionsAreLegal`, `ClosedStaysClosed`,
  `ReopenJustified`;
- under `OmissionsAreRechecked`: `ClosedIsGone`, `SummaryIsGone` and
  `CloseFlowImplementsLifecycle`, the refinement of `CloseLifecycle`;
- under `SerialRisk` (risk runs one after another, no plan rewritten by a decision run):
  `LevelsOrderOnce`.

The properties are not inductive: what a job does next depends on what it holds. The
inductive invariant `IInv` adds, for each job that has a fresh version, what its place
in the code says about the row (`CloserInv`: one about to mark `CLOSE_SUBMITTING` has
`CLOSE_ARMED` before it, one about to mark `CLOSE_PENDING` has `CLOSE_SUBMITTING`;
`ObserverInv`: what an observer read of status, quantity and stamp is what the row
holds, and recovery has no `CLOSED` row in hand), that two closers past the latch are
not both fresh (`LatchOnce`) and that a submitted row has its stamp (`RowInv`). For the
second group `GoneInv` adds that a job past the recheck, or a recovery that saw nothing,
has a trade of at most a residual before it, which stays true as trades only shrink.
`LevelsOrderOnce` has an invariant of its own, `LevelsInv`: levels past the marks of the row
were never ordered, and a run that is past its mark holds a level that is marked and not yet
ordered. A crash or a lost answer then loses a level and never repeats one.
Assumptions: `ActorsAssumption` (jobs are distinct),
`BoundsAssumption` (the residual is smaller than the position, the timeout positive).

Also proved, though no run repeats them: the row takes only the transitions of the close
flow (`LegalTransitions`), and nobody moves a `CLOSED` row (`ClosedIsFinal`). Only
model-checked: `SubmittedCloseRecovers` and `GoneIsClosed`, which need fairness.

## 4. EntryFlow

### State and actions

| variable | in the code |
| --- | --- |
| `overlap` | the backend: River lets the jobs of a symbol overlap, the in-process worker does not; chosen in `Init` |
| `cache` | the entry of the symbol in `PlanCache`: the plan and the ids of its order |
| `order[o]`, `orders` | the executor's word on each entry order sent, and the plan it was sent for |
| `row`, `opened` | the open row of the symbol and the plans that ever had one (`position_id` is unique) |
| `job[j]` | a decision, risk or reconcile run: its next call and the copy of the cache entry it works on |
| `plans`, `expired` | plans made so far, and those past `ExpiresAt` |
| `left`, `faults` | for the properties: orders that had a fill when they were to be cancelled; failures so far |

| actions | code |
| --- | --- |
| `DecideStart`, `DecideNothing`, `DecideUpsert` | a flat decision round: it reads that the symbol is flat, thinks, and stores its plan whatever happened meanwhile (`UpsertIfAllow`) |
| `CancelCheck`, `CancelQuery`, `CancelWithdraw`, `CancelClear` | `CancelOpenByEntry` for a plan that was replaced or expired |
| `RiskLoad`, `RiskExpire`, `RiskDeclines`, `RiskResize`, `RiskCheck`, `RiskMark`, `RiskPlace`, `RiskAnswer`, `RiskReset` | `handlePlanEntry` and `SubmitOpenFromPlan` |
| `ReconcileStart`, `ReconcileMatch`, `ReconcileInsert`, `ReconcileRemove`, `ReconcileOrders` | `reconcilePlanEntries`, `openPositionFromPlan`, `reconcilePlanOrders` |
| `Fill`, `GivenUp`, `Sold`, `Elapse`, `RowCloses` | the executor, time, and what `CloseFlow` promises: external |
| `Debug` | the debugging API injects a plan or clears the cache |
| `Restart` | cache and jobs are lost; `restoreMissingPositions` adopts the one trade of a symbol without a row |

Each access to the cache, the store and the executor is a step. The cache gives out copies
under its lock, so what a job knows may be old; its writes go into whatever entry there is
now. Left out: the sizes and prices (in `TradeDecision`), and the row's own life.

### Runs

| run | constants | question and result |
| --- | --- | --- |
| `entry` | 2 plans, 2 orders, both backends, 1 fault of any kind | `OneOrderPerPlan`: an order in doubt is never repeated; `RowMatchesOrder`, `TradesAreRemembered`: in calm a row carries the plan its trade was ordered for, and no trade is forgotten unless its order filled when it was to be cancelled; `PlanEnds`: no plan blocks its symbol |
| `orphan` | 1 plan, 1 order, jobs one at a time, no fault | violated: `TradesAreReconciled` |

Two plans are what it takes for an answer to meet another plan than its own, two orders
for one of them to be the wrong one, and one fault for an order in doubt. *In calm* means
jobs one at a time and no fault so far: when jobs overlap, `UpdateOrder` does write the ids
of one plan's order into another plan's entry, and the code does not prevent it.

Fairness (`RiskFairness`): a run that has started goes on (WF); the scheduler starts risk
runs for ever (SF, as the worker may be busy whenever it looks); plans reach their expiry.
`Fairness`, for `orphan`, adds that reconcile runs are started too and that a row whose
trade is gone is closed. Executor and decisions promise nothing.

Finding, run `orphan`: `ExpireIfNeeded` deletes the expired plan and only then asks for its
order. If that has a fill, the order is rightly kept, but nothing in the program knows the
trade any more until a restart: it has no stop and no take-profit.

### Proofs (`EntryFlow_proofs`)

For any number of plans, orders and faults, both backends: `TypeCorrect`,
`PlanOrderedOnce`, `RowsMatch` and `TradesRemembered`. The types need `Knows`: a job past a given place holds an entry with an
order it may ask about. The second needs that plans are numbered as they are made
(`PlansMade`) and orders as they are sent (`OrdersKnown`); that a cached entry without ids
belongs to a plan no order was accepted for (`CacheFresh`); the same of the copy in a risk
run's hands up to its order and of what is cached meanwhile (`RiskFresh`); and that at its
order the cached entry, if it is still that plan's, bears the mark (`PlaceMarked`), so that a
lost answer cannot make it look unsubmitted.

The last two are about calm, and so is their invariant `CalmInv`. It says that one job is at
work at most (`Alone`), that the order in a cached entry was sent for its plan (`EntryOrder`),
that the symbol is flat while a plan is made, cached or taken back (`Flat`), and of each job by its place whose trade is in its hands: a risk run between order and answer
(`RiskHolds`), a cancellation between the deleted plan and its order's fate (`CancelHolds`), a
reconcile run between match, row and removal (`ReconcileHolds`). Every order that may still
fill is then the row's, the cache's, a job's, or left. Calm never returns once it is lost, so
the invariant needs to survive calm steps only. Only model-checked: `PlanEnds`, a liveness
property.

## 5. TradeDecision, RiskMath, RuleFlow

### State and actions

| variable | in the code |
| --- | --- |
| `setup` | the strategy and risk configuration of the symbol, fixed at start |
| `entry` | the cached entry plan: side, price, stop, take-profits, size, leverage, the balance it was sized for |
| `pos` | the row: number, status (flat, open, closing), side, average entry |
| `plan`, `source` | the risk plan of the row (stop, levels with their hits, watermarks), and who wrote its last version |
| `confirm` | `ExitConfirmCache`: votes for an exit, by position |
| `cooldown` | `EntryCooldownCache`: flat rounds left to skip |
| `votes`, `waited`, `why` | for the properties: votes since a round kept the position, flat rounds skipped since a reversal exit, the reason of the last close |

| actions | code |
| --- | --- |
| `SkipFlatRound`, `FlatRound` | a round over a flat symbol: cooldown, consensus, gate, sieve, state machine, plan builder or the plan of an LLM with its validation |
| `Trigger`, `Drop`, `Fill` | `refreshPlanSizing` and the check before the order; expiry or refusal; the row |
| `HoldRound` | `handleInPosition`: hard guard, monitor fusion, `applyTightenUpdate`, the second vote of a crossed stop, the close, the cooldown |
| `RiskTick` | `evaluateActive`: drawdown, stop, take-profit with its mark and break-even |
| `Reopen`, `Gone`, `Restart` | the outcomes of `CloseFlow`; a restart empties `entry`, `confirm` and `cooldown` |

`RuleFlow` has the judgements as operators named after the functions they translate
(consensus score, confidence and resonance, gate, sieve row, hard guard, fusion, tighten
score, state machine), `RiskMath` the arithmetic (three exit policies, stop and levels, size,
leverage, liquidation, what a price hits, watermarks, floor, tightening, an LLM's patch).
The exits of a policy pass `ValidExits` (`ValidateAndNormalize`), those of an LLM only
`FlatPatchFits` (`applyFlatRiskInitPatch`), which compares a take-profit with the entry and
its neighbour but not with zero. So a short may be opened with a level that is no price.
Whoever moves levels leaves it out (`Remaining`), the monitor and the order of the levels do
not (`Unhit`). A tightening answer is checked for it (`PatchFits`).

What is abstracted. A round is one step: the steps inside it, and what may run between them
(such as the lost mark of `tpkept`), are in the flow modules. Prices and sizes are integers,
scores tenths or thousandths; each division rounds towards the smaller distance or size, so
that a bound which holds here is not an effect of rounding in the code's favour. The answers
of agents, providers and LLMs are records over the tags and numbers the rules read; texts,
traces and the chaining of the nodes are left out.

### Run

`decide` has three configurations: fixed exits with a market entry; exits at structure levels
with a crowded-side sieve, a debounce, no guard and multipliers out of order; and an LLM
that proposes exits and answers tightenings. There are eight panels for a flat round (each
gate outcome, each grade, both sides, one with no answers), seven views over a position
(keep, tighten, exit, a critical exit, noise), two balances, six prices around the entry, an
ATR or none, two positions and a cooldown of two rounds. Two positions let an old count meet
a new position; six prices hit stop, first level, second level, entry and drawdown. An LLM
proposes exits for a long, for a short, for a short with a second take-profit of zero, and
two equal ones, which are refused; its answers to a tightening hold, move both levels of a
long, move the one that is left, or move the only level of that short that is a price, after
which the first level can still be hit before the other.

- `TypeOK`: an open position has a side, an average entry the market quoted, a stop that is a
  price and levels that are prices, whoever moved them; a level that an LLM proposed for a
  short may be none (the code takes it), and such a level is never hit.
- `PlanIsSound`: a cached plan, made, resized or from an LLM, risks no more of the balance it
  was sized for than granted, keeps to margin and leverage, stops before liquidation, and has
  its take-profits in order beyond the entry.
- `StopOnlyTightens`: floor, watermark, ATR, LLM and take-profit mark move a stop at prices
  of different moments, and none of them moves it back.
- `BreakevenAfterTP1`, `HitsInOrder`: after the first level the stop cannot lose (if the fees
  leave a price to stop at, as the code demands before it moves the stop); the levels are hit
  in order.
- `ReversalIsConfirmed`: a close for a reversal has two votes over this very position with none
  between that kept it.
- `ReversalCoolsDown`: after such an exit nothing is planned until that many *flat* rounds were
  skipped, however long the close takes. A restart forgets it, which the property allows.

There is no liveness: which prices and answers come is open. `CHECK_DEADLOCK FALSE`: after
the last position of the bound and with no plan, only a restart is left, which may change
nothing.

### Proofs (`TradeDecision_proofs`, `TradeLevels_proofs`)

For all prices, panels, answers, balances, configurations and any number of positions:
`PlansAreSound`, `StopsOnlyTighten`, `BreakevenIsKept`, `ReversalHasTwoVotes`,
`ReversalIsWaitedFor`, `TradeTypes`; and `LevelsHitInOrder` where `KeepsOrder` holds. They
assume `SetupsAssumption`, what `config/validation_strategy.go` grants (factors between 0 and 1,
fees not negative, a positive leverage, at most the whole balance invested), and
`InputsAssumption`, that inputs are numbers and one percent of a positive balance is at least
one unit of the model.

`NumbersInv` types what is computed with, `VotesInv` says that a count of the confirm cache is
covered by votes of this position (and that no count exists for a position to come),
`CooldownInv` that cooldown and skipped rounds add up. `StopsOnlyTighten` then has a lemma for
each writer of a stop. `PlanIsSound` is an invariant of its own (`SoundInv`): a chain of lemmas
bounds size by risk and margin through each rounding step, and the leverage by its cap.
The extremes of finite sets (nearest structure level, smallest bound) rest on `FiniteExtrema`,
proved by well-founded descent over strict subsets.

`LevelsHitInOrder`. The monitor takes the first level a price touches, so levels are hit out of
order only if one that is left lies beyond the next. `LevelsInv` says that none does (`InRow`),
that the hit ones come first and what each level is (`Priced`, which is also what `TypeOK`
lacks). That the take-profits of a long LLM plan are prices follows from their rising above the
entry (`LongRises`); a level of a short that is no price stays behind all that are, because the
answers that move the others are prices, and is not taken, because marks are prices. A fill makes such a row and a mark leaves one; what may break it is the tightening, which moves
each level by its own ATR multiplier. `KeepsOrder` names the configurations under which it does
not: an LLM moves them and `PatchFits` checks its answer; nobody moves them; or, of two levels
at most, the second is moved too, and a gap holds it back (long) or its multiplier is the larger
and leaves a price. The condition is not idle: with no gap and the larger multiplier first TLC
finds a second level hit before the first. On the short side the gap alone is not enough for a
proof, because `applyTightenTPConstraints` drops a limit that is not a price; TLC checks it with
the prices of `decide`, where it is kept. There is nothing else in this section that is only
model-checked.

## 6. LLMCall

### State and actions

| variable | in the code |
| --- | --- |
| `breaker` | `CircuitBreaker`: state, `failCount`, age of `openedAt`, `probeInFlight` |
| `cooldown` | what is left of the gate's `cooldownUntil` |
| `gap` | time since `lastAcquire`, capped at `minInterval` (a gate never used is at the cap) |
| `used` | occupied slots of `sem` |
| `cancels` | whether contexts may end early in this behaviour; chosen in `Init` |
| `caller[c]` | a call: the wait or request it is in, the attempt, what is left of its timer |

`Allow` is `breaker.Allow` (a refused call changes nothing and is left out).
`WaitCooldown`, `TakeSlot`, `RecheckCooldown` and `Send` are `Acquire`: the cooldown is
read, then waited for, then the slot is queued for, then the cooldown is read again, and
the interval is read, waited for and marked. `Succeed`, `Fail`, `RateLimited`, `Retry` are
the outcomes of `callOnce` in the loop of `doCall`. `Cancel` is the end of the context in
any of the waits; a request whose context ends is a `Fail`, since its error is recorded.
`Tick` moves all timers.

Joined into one step: the second cooldown check and the reading of the last start, and
the recording of an outcome with the release of the slot. In between the code touches no
shared state another call could tell. Left out: the registries by key (the model is one
key; the breaker's key also has the endpoint), limits changed at run time, the
transport's own quick retries (part of the request), `parseRetryWait` (any wait from 1
to `MaxWait`).

### Runs

| run | constants | question and result |
| --- | --- | --- |
| `gate` | 3 calls, one slot; behaviours with and without cancellations | `WithinLimit`, `RequestsRespectCooldown`, `CallsAreSpaced`, `OneProbeOnly`, `TypeOK` in all of them; `CallsEndUncancelled`, `BreakerProbesUncancelled` in those without: calls end and the breaker tries again. A third call is needed for one to hold, one to queue and one to be sent back |
| `probe` | 2 calls, cancellations | violated: `BreakerProbes` |

Thresholds and durations of 2 ticks separate "not yet", "just before" and "now". A
concurrency of one is the default (`defaultSameModelConcurrency`) and the two timing
properties are stated for it: with more, two holders may read the same last start, and
one may set a cooldown while the other is past its check.

Fairness: time passes; a call takes its next step, as every request has a timeout; calls
queued on the semaphore are served in order of arrival, as Go does (SF on `TakeSlot`);
decisions keep calling. Cancellation is never required.

Finding, run `probe`: a half-open breaker admits one call as its probe. If that call's
context ends in the gate or in the wait for a retry, neither `RecordSuccess` nor
`RecordFailure` runs, `probeInFlight` stays set and the model is refused until a restart.

### Proofs (`LLMCall_proofs`)

For any number of calls and all limits: `TypeCorrect`; `GateWithinLimit` (the semaphore
counts exactly the calls past it, so releases neither miss nor repeat);
`HalfOpenAdmitsNone`; for a concurrency of one, `CooldownIsRespected` and
`StartsAreSpaced`. The inductive invariant adds to the types: `SlotsCounted`;
`AttemptsLeft` (a waiting retry has an attempt left); `HalfOpenProbes`; `QuietHolder` (the
one holder is past a cooldown, or waits for at least what is left of its own); and
`SpacedHolder` (its wait covers what the gap lacks). The last two rest on the lemma
`Alone`: one slot, one holder. Assumptions: finitely many calls and a positive limit and
threshold, as the constructors enforce. Only model-checked:
`CallsEndUncancelled`, `BreakerProbesUncancelled`.

## 7. Runtime and MarkPriceStream

### State and actions

| variable | in the code |
| --- | --- |
| `scheduled`, `mode`, `monitored` | `EnableScheduledDecision`, the mode of each symbol, `monitorSymbols` |
| `call`, `calls` | API requests to the schedule control and where each is |
| `held`, `listing`, `seen` | symbols with an open trade; for a property, those the last disable listed, and those of them that are open since |
| `stream`, `runID`, `connected`, `readers` | the price stream: running, number of the last start, connected flag, the loop of each reader |
| `pending`, `marked`, `queue`, `running` | `pendingTaskKeys`, keys marked but not yet enqueued, the channel of each symbol, what its worker runs |
| `ingest`, `hand`, `lane`, `work` | the webhook queue, the event in the dispatcher's hands, the lanes, what each worker handles |
| `known`, `noticed` | the marks `openNotified` and `lastExitOrderID`; notices handed over |

| actions | code |
| --- | --- |
| `SetScheduledDecision`, `SetSymbolMode`, `ApplyFirst`, `ListPositions`, `SetMonitorSymbols`, `ClearMonitorSymbols`, `ApplyLast` | enable, disable and mode requests; a setter plans the stream under the lock and applies the plan after it |
| `Start`, `Close`, `CheckRunning`, `Serve`, `CompareRun`, `StoreConnected`, `HearStop`, `LoseConnection`, `WaitRetry` | the stream and the loop of its readers |
| `MarkTaskPending`, `EnqueueTask`, `SkipBarDecide`, `StartTask`, `FinishTask` | the loops, the bounded send that drops, the worker |
| `HandleWebhook`, `DispatchTake`, `DispatchPut`, `WorkerTake`, `ProcessEvent`, `CheckNotified`, `LookupTrade`, `SendNotice`, `MarkOpenNotified` | ingest, dispatcher, lanes, notice of an event |
| `TradeOpens`, `TradeCloses` | fills and closes at the exchange: external |

Left out: quotes, their age and the spike filter; adding and removing symbols; `Stop`; the
expiry of the marks. The hash that picks a lane is any partition of the symbols.

### Run

`setup.loaded` are the symbols with a runtime (`scheduler.Symbols`): `buildRuntimeMap` logs
and goes on when one fails to build, while a listing of positions is filtered by the whole
symbol index. Requests for another symbol are refused, its webhooks make no task.

`runtime` chooses one of six setups: three requests with the readers of the stream; three
requests with the trades of both symbols, where both or only one of them have a runtime (with
a webhook of either); three webhooks; two webhooks with a periodic task in the same queue;
every periodic task of a symbol with a request that changes what is wanted.
Queues of two and lanes of one are full soon, three webhooks allow a repeat behind another.
`CHECK_DEADLOCK FALSE`: when the requests and webhooks of a setup are used up, nothing may
be left to do.

- `PendingMatches`: a periodic task is pending exactly while it is marked, queued or run, in
  one place; `PendingClears`: and not for ever, also when the queue is full or the task panics.
- `StreamFollows`, `HeldIsMonitored`: between requests the stream runs exactly when schedule,
  modes and watched symbols want it; a disable leaves every trade it listed watched, if all
  the symbols it listed have a runtime.
- `NoticedOnce`: a webhook that arrives again is told once, if its exit has an order id.
- `ReadersEnd`: closed and earlier runs lose their readers; `StatusHeals`: a late reader cannot
  make a running stream look connected for good.

What the code does not keep. With one listed symbol that has no runtime `SetMonitorSymbols`
fails as a whole (`runtime_scheduler_control.go:45`) and disable clears every watch
(`usecase_schedule.go:57`), although its answer says that the take-profits and stops of held
positions are still monitored. The model takes that step (`SetMonitorSymbols` goes on to
`ClearMonitorSymbols`), and `HeldIsMonitored` claims nothing after such a listing. An exit whose
trade has no exit order, or one without an id, is not recognised when its webhook is repeated
(`webhook_notify.go:89`): the exits of `Runtime` all have one.

One caller. Two requests that overlap can apply their plans in the wrong order, and `Start`
claims the running flag before it stores its stop channel, so that a `Close` between the two
misses it. No property covers these two: `StreamFollows`, `HeldIsMonitored` and `ReadersEnd`
are of requests one after another, and `Start` and `Close` are atomic here. A late *false* on a
running stream stays until the next reconnect; `StatusHeals` claims nothing of it.

Fairness: goroutines go on and tasks end, as every call of a task has a timeout; the last
reader and the earlier ones are scheduled apart. Connections may fail for ever.

### Proofs (`Runtime_proofs`)

For any symbols, lanes, capacities and setups: `TypeCorrect`, `MarksMatchTasks`,
`WebhookToldOnce`, `OldReadersAreStopped` (of all readers at most the last has a stop channel
that was not closed); with one caller, `StreamFollowsRequests` and, of listings of symbols with
a runtime, `DisableKeepsWatch`.
`PendingMatches` is inductive with the types. `NoticedOnce` needs that a symbol's event is in
the hands of its own lane only (`OwnLane`), that what was told is known or about to be
(`ToldIsKnown`) and that what is sent is new (`SendingIsNew`). The stream needs `PlanIsCurrent`
(the plan in a caller's hands is what is wanted now, for the one caller) and `WatchesHeld`.

## 8. Notices

### State and actions

| variable | in the code |
| --- | --- |
| `setup` | channels, the notices this position makes, attempts of a deliver job |
| `stage` | how far the position is |
| `render[n]`, `deliver[n][c]` | the River jobs of a notice: one render job, one deliver job per channel |
| `guard[k][c]` | the dedupe guard, in memory: free, in flight or kept, with its age |
| `told`, `sent`, `covered` | for the properties: when a key was last told, notices that went out themselves, notices told of by any message of their key |

Producers (`TakeProfit`, `CloseAll`, `Gone`, `Summary`, `WebhookPartial`, `WebhookExit`; the open
notice comes with the row), `InsertDeliver` and `RenderAgain` (`EnqueueRendered`, with a period
of uniqueness that may have passed), `TryAcquire`, `Skip`, `SendSucceeds`, `SendFails`,
`Complete` (`sendWithKey` and River's end of the job), `Restart`, `Tick`. `Key` is
`closeAggregateKey`: every notice of a close has the key of its trade. A failing send or insert
is a fault, of which there are finitely many. Texts, the two-second aggregation and notices
without a position are left out.

### Runs

| run | constants | question and result |
| --- | --- | --- |
| `notices` | two channels, or one with all notices of the key; two attempts or one; one fault | `NoRepeat`: no channel is told twice of a key within its life, except over a restart; `SkippedIsCarried`: a notice skipped was told, or a job of its key is still at it or out of attempts; `NoticesAreTold`: with fewer faults than attempts all is told in the end |
| `fullclose` | one channel, no faults | violated: `FullCloseIsTold` |

Four notices share a key at most; an entry that lives one tick is seen alive, at its last tick
and gone. Fairness: River works on as long as there is a job, and a send ends.

Finding, run `fullclose`: a take-profit part takes the key of the close, so that a full close
within the 90 s of the guard is taken for a duplicate and not told.

### Proofs (`Notices_proofs`)

For any channels, attempts, life and faults: `TypeCorrect`, `SkippedAreCarried`, `NeverToldTwice`.
`TriesLeft`: a queued job has an attempt left. `GuardInv`: of each key and channel one job sends
at most, it holds the entry, an entry in flight has its sender, and a key told within its life is
kept. `CoverInv`: jobs come from accepted notices and what was told covers them. Only
model-checked: `NoticesAreTold`.

## 9. What is proved, what is checked, what is not modelled

*Proved* for all constants: the 34 theorems listed in `PROJECT.json`, from the named
assumptions of their modules and the conditions their statements name (`SerialRisk`,
`OmissionsAreRechecked`, `KeepsOrder`, a concurrency of one, one caller), and nothing else;
what a property itself excepts, such as a listing of a symbol without a runtime, a theorem
about it excepts too.
Each invariant and each action property of a passing run is the subject of one of them.

*Only model-checked*: liveness, which needs fairness and which the prover does not reach
(`SubmittedCloseRecovers`, `GoneIsClosed`, `PlanEnds`, `CallsEndUncancelled`,
`BreakerProbesUncancelled`, `PendingClears`, `ReadersEnd`, `StatusHeals`, `NoticesAreTold`), and
`HitsInOrder` outside `KeepsOrder`, for the prices of its run.

Each property of a passing run has a mutant in `PROJECT.json`, a plausible fault of the code
written beside the definition it replaces, under which TLC finds it violated.

*Not modelled*, and why:

- what is text, format or I/O: prompts, parsers, cards, bots, HTTP, indicators, market data,
  configuration files, the command line and the test harness. These are most of the
  repository's lines, and their faults are found by reading or by a test of one input;
- statements without a protocol: the other tables, memory stores, telemetry;
- entry aborts, whose statuses no code creates;
- the two-second close aggregation, which the managers that deliver notices do not have;
- the history of risk plans: its version is read and inserted without a lock and the index
  is not unique, so two updates of a plan can take one number; the debounce of a
  tighten reads the last version, of which `TradeDecision` keeps the writer only.

Where a component is *partly* modelled, `PROJECT.json` says what its module leaves out, and
its hazards without a property say what the code leaves open.
