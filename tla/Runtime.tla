------------------------------ MODULE Runtime ------------------------------
(***************************************************************************)
(* The runtime that drives the jobs: the schedule control (which symbols   *)
(* decide, which are only watched, whether the price stream of module      *)
(* MarkPriceStream runs), the                                              *)
(* queue and the one worker of each symbol with the coalescing of periodic *)
(* tasks, and the ingest of Freqtrade's webhooks (ingest queue,            *)
(* dispatcher, lanes of a worker each) that feeds the symbol queues and    *)
(* the notices.                                                            *)
(***************************************************************************)
EXTENDS MarkPriceStream, Sequences, FiniteSets

CONSTANTS
  Symbols,    \* symbols of the runtime, each with at most one trade
  Callers,    \* API requests to the schedule control that may overlap
  Lanes,      \* number of webhook workers
  QueueCap,   \* capacity of a symbol's task queue
  IngestCap,  \* capacity of the ingest queue and of a lane
  Setups      \* bounds of the behaviours, one is chosen for good

TaskType == {"BAR_DECIDE", "PRICE_TICK", "RECONCILE", "WEBHOOK_EVENT"}
Periodic == TaskType \ {"WEBHOOK_EVENT"}
Event == [symbol : Symbols, type : {"entry_fill", "exit_fill"}]
SymbolMode == {"trade", "observe", "off"}

\* calls: API requests; trades: symbols that may open one; events: webhooks
\* accepted; ticked: the tasks whose loops run; priced: the runtime has a
\* price stream; loaded: symbols whose runtime could be built.
ASSUME RuntimeAssumption ==
  /\ Lanes \in Nat \ {0} /\ QueueCap \in Nat \ {0} /\ IngestCap \in Nat \ {0}
  /\ Setups \subseteq [calls : Nat, trades : SUBSET Symbols, events : Nat,
                      ticked : SUBSET (Symbols \X Periodic), priced : BOOLEAN,
                      loaded : SUBSET Symbols]

VARIABLES
  setup,      \* one of Setups
  scheduled,  \* EnableScheduledDecision
  mode,       \* mode[s], of a symbol with a runtime
  monitored,  \* monitorSymbols
  call,       \* call[a]: where an API request is
  calls,      \* API requests so far
  held,       \* symbols with an open trade
  listing,    \* history: the last listing a disable got
  seen,       \* history: its trades that are open ever since
  pending,    \* pendingTaskKeys
  marked,     \* keys a loop has marked and is about to enqueue
  queue,      \* queue[s]: tasks of a symbol, oldest first
  running,    \* running[s]: what its worker runs
  ingest,     \* webhooks accepted
  hand,       \* what the dispatcher took and has not passed on
  lane,       \* lane[i]: webhooks of a worker
  work,       \* work[i]: what the worker handles, and how far it is
  events,     \* webhooks accepted so far
  known,      \* openNotified and lastExitOrderID: events marked as notified
  noticed     \* noticed[e]: notices of an event handed over, counted up to 2

schedule == <<scheduled, mode, monitored, call, calls, held, listing, seen>>
control == <<schedule, streamVars>>
tasks == <<pending, marked, queue, running>>
webhooks == <<ingest, hand, lane, work, events, known, noticed>>
vars == <<setup, control, tasks, webhooks>>

-----------------------------------------------------------------------------
None == "none"
NoCall == [at |-> "idle", kind |-> None, start |-> FALSE, listed |-> {}]
NoEvent == [symbol |-> None, type |-> None]
NoWork == [at |-> "idle", event |-> NoEvent]
CallAt == {"idle", "applyFirst", "clear", "list", "monitor", "applyLast"}
Call == [at : CallAt, kind : {None, "enable", "disable", "mode"}, start : BOOLEAN,
         listed : SUBSET Symbols]
Work == {NoWork} \cup [at : {"task", "check", "lookup", "send", "mark"}, event : Event]

\* A symbol whose runtime failed to build is left out; the process starts.
Loaded == setup.loaded

ShouldEnqueueBar(s) == scheduled /\ mode[s] = "trade"
ShouldEnqueuePeriodic(s) ==
  /\ mode[s] # "off"
  /\ IF scheduled THEN mode[s] # "observe" ELSE s \in monitored
ShouldEnqueue(s, t) ==
  IF t = "BAR_DECIDE" THEN ShouldEnqueueBar(s) ELSE ShouldEnqueuePeriodic(s)

\* shouldPriceStreamBeRunningLocked of a schedule, modes and monitored symbols.
StreamWanted(sch, modes, watched) ==
  watched # {} \/ (sch /\ \E s \in DOMAIN modes : modes[s] = "trade")

ModeOf(sch) == IF sch THEN "trade" ELSE "observe"

\* SetScheduledDecision before Start, then Start.
Init ==
  /\ setup \in Setups
  /\ scheduled \in BOOLEAN
  /\ mode = [s \in Loaded |-> ModeOf(scheduled)]
  /\ monitored = {}
  /\ StreamInit(setup.priced /\ StreamWanted(scheduled, mode, monitored))
  /\ call = [a \in Callers |-> NoCall] /\ calls = 0
  /\ held = {} /\ listing = {} /\ seen = {}
  /\ pending = {} /\ marked = {}
  /\ queue = [s \in Symbols |-> <<>>]
  /\ running = [s \in Symbols |-> None]
  /\ ingest = <<>> /\ hand = NoEvent
  /\ lane = [i \in 1 .. Lanes |-> <<>>]
  /\ work = [i \in 1 .. Lanes |-> NoWork]
  /\ events = 0 /\ known = {}
  /\ noticed = [e \in Event |-> 0]

-----------------------------------------------------------------------------
(* Schedule control.  Each setter changes the state and plans the stream   *)
(* under one lock, and applies the plan after it.                          *)

Quiet == \A a \in Callers : call[a].at = "idle"

CallGoto(a, at) == call' = [call EXCEPT ![a].at = at]

Begin(a, kind, start) ==
  /\ call[a].at = "idle" /\ calls < setup.calls
  /\ calls' = calls + 1
  /\ call' = [call EXCEPT ![a] = [NoCall EXCEPT !.at = "applyFirst", !.kind = kind,
                                                !.start = start]]

SetScheduledDecision(a, enable) ==
  LET modes == [s \in Loaded |-> IF mode[s] = "off" THEN "off" ELSE ModeOf(enable)]
  IN
  /\ scheduled' = enable
  /\ mode' = modes
  /\ Begin(a, IF enable THEN "enable" ELSE "disable", StreamWanted(enable, modes, monitored))
  /\ UNCHANGED <<setup, monitored, streamVars, held, listing, seen, tasks, webhooks>>

\* Mutant of SetSymbolMode: the stream is planned with the modes before.
PlanBeforeMode(a, s, m) ==
  /\ s \in Loaded
  /\ mode' = [mode EXCEPT ![s] = m]
  /\ Begin(a, "mode", StreamWanted(scheduled, mode, monitored))
  /\ UNCHANGED <<setup, scheduled, monitored, streamVars, held, listing, seen, tasks, webhooks>>

SetSymbolMode(a, s, m) ==
  /\ s \in Loaded
  /\ mode' = [mode EXCEPT ![s] = m]
  /\ Begin(a, "mode", StreamWanted(scheduled, mode', monitored))
  /\ UNCHANGED <<setup, scheduled, monitored, streamVars, held, listing, seen, tasks, webhooks>>

ApplyFirst(a) ==
  /\ call[a].at = "applyFirst"
  /\ IF setup.priced THEN ApplyStreamTransition(call[a].start) ELSE UNCHANGED streamVars
  /\ CallGoto(a, CASE call[a].kind = "enable" -> "clear"
                   [] call[a].kind = "disable" -> "list"
                   [] OTHER -> "idle")
  /\ UNCHANGED <<setup, scheduled, mode, monitored, calls, held, listing, seen, tasks, webhooks>>

\* The open trades as the executor lists them; an error counts as none.
ListPositions(a) ==
  /\ call[a].at = "list"
  /\ \E listed \in {held, {}} :
       /\ call' = [call EXCEPT ![a].at = "monitor", ![a].listed = listed]
       /\ listing' = listed /\ seen' = listed
  /\ UNCHANGED <<setup, scheduled, mode, monitored, streamVars, calls, held, tasks, webhooks>>

Monitor(a, symbols) ==
  /\ monitored' = symbols
  /\ call' = [call EXCEPT ![a].at = "applyLast",
                          ![a].start = StreamWanted(scheduled, mode, symbols)]
  /\ UNCHANGED <<setup, scheduled, mode, streamVars, calls, held, listing, seen, tasks, webhooks>>

\* Mutant of SetMonitorSymbols: what was monitored wins.
SetMonitorOnce(a) ==
  /\ call[a].at = "monitor" /\ call[a].listed \subseteq Loaded
  /\ Monitor(a, IF monitored = {} THEN call[a].listed ELSE monitored)

\* One listed symbol without a runtime fails it all, and disable goes on to
\* clear what is monitored.
SetMonitorSymbols(a) ==
  /\ call[a].at = "monitor"
  /\ IF call[a].listed \subseteq Loaded THEN Monitor(a, call[a].listed)
     ELSE /\ CallGoto(a, "clear")
          /\ UNCHANGED <<setup, scheduled, mode, monitored, streamVars, calls, held, listing, seen,
                         tasks, webhooks>>
ClearMonitorSymbols(a) == call[a].at = "clear" /\ Monitor(a, {})

ApplyLast(a) ==
  /\ call[a].at = "applyLast"
  /\ IF setup.priced THEN ApplyStreamTransition(call[a].start) ELSE UNCHANGED streamVars
  /\ call' = [call EXCEPT ![a] = NoCall]
  /\ UNCHANGED <<setup, scheduled, mode, monitored, calls, held, listing, seen, tasks, webhooks>>

\* Fills and closes at the exchange.
TradeOpens(s) ==
  /\ s \in setup.trades \ held /\ held' = held \cup {s}
  /\ UNCHANGED <<setup, scheduled, mode, monitored, streamVars, call, calls, listing, seen, tasks, webhooks>>
TradeCloses(s) ==
  /\ s \in held /\ held' = held \ {s} /\ seen' = seen \ {s}
  /\ UNCHANGED <<setup, scheduled, mode, monitored, streamVars, call, calls, listing, tasks, webhooks>>

-----------------------------------------------------------------------------
(* Tasks of a symbol.                                                      *)

\* markTaskPending; a key that is pending already is coalesced and left out.
MarkTaskPending(s, t) ==
  /\ s \in Loaded /\ <<s, t>> \in setup.ticked /\ ShouldEnqueue(s, t)
  /\ <<s, t>> \notin pending
  /\ pending' = pending \cup {<<s, t>>}
  /\ marked' = marked \cup {<<s, t>>}
  /\ UNCHANGED <<setup, control, queue, running, webhooks>>

HasRoom(s) == Len(queue[s]) < QueueCap
Put(s, t) == queue' = [queue EXCEPT ![s] = Append(@, t)]

\* Mutants of EnqueueTask: a dropped task keeps its mark; a full queue grows.
DropKeepsMark(s, t) ==
  /\ <<s, t>> \in marked
  /\ marked' = marked \ {<<s, t>>}
  /\ IF HasRoom(s) THEN Put(s, t) ELSE UNCHANGED queue
  /\ UNCHANGED <<setup, control, pending, running, webhooks>>
EnqueueUnbounded(s, t) ==
  /\ <<s, t>> \in marked
  /\ marked' = marked \ {<<s, t>>}
  /\ Put(s, t)
  /\ UNCHANGED <<setup, control, pending, running, webhooks>>

\* enqueueTaskWithWarning: a full queue drops the task and its mark.
EnqueueTask(s, t) ==
  /\ <<s, t>> \in marked
  /\ marked' = marked \ {<<s, t>>}
  /\ IF HasRoom(s) THEN Put(s, t) /\ UNCHANGED pending
                   ELSE pending' = pending \ {<<s, t>>} /\ UNCHANGED queue
  /\ UNCHANGED <<setup, control, running, webhooks>>

\* A bar is decided only if it is still wanted when its turn comes.
SkipBarDecide(s) ==
  /\ running[s] = None /\ queue[s] # <<>>
  /\ Head(queue[s]) = "BAR_DECIDE" /\ ~ShouldEnqueueBar(s)
  /\ queue' = [queue EXCEPT ![s] = Tail(@)]
  /\ pending' = pending \ {<<s, "BAR_DECIDE">>}
  /\ UNCHANGED <<setup, control, marked, running, webhooks>>

StartTask(s) ==
  /\ running[s] = None /\ queue[s] # <<>>
  /\ Head(queue[s]) = "BAR_DECIDE" => ShouldEnqueueBar(s)
  /\ running' = [running EXCEPT ![s] = Head(queue[s])]
  /\ queue' = [queue EXCEPT ![s] = Tail(@)]
  /\ UNCHANGED <<setup, control, pending, marked, webhooks>>

\* Mutant of FinishTask: a task that panics leaves its mark.
FinishUnlessPanic(s) ==
  /\ running[s] # None
  /\ running' = [running EXCEPT ![s] = None]
  /\ pending' \in {pending, pending \ {<<s, running[s]>>}}
  /\ UNCHANGED <<setup, control, marked, queue, webhooks>>

\* handleTask clears the mark when the task ends, by a panic too.
FinishTask(s) ==
  /\ running[s] # None
  /\ running' = [running EXCEPT ![s] = None]
  /\ pending' = pending \ {<<s, running[s]>>}
  /\ UNCHANGED <<setup, control, marked, queue, webhooks>>

-----------------------------------------------------------------------------
(* Webhooks.                                                               *)

\* An arbitrary partition of the symbols, for the hash of the code.
Index == CHOOSE f \in [Symbols -> 1 .. Cardinality(Symbols)] :
           \A s, t \in Symbols : f[s] = f[t] => s = t

\* Mutant of LaneOf: the events are dealt out to the lanes in turn.
LaneInTurn(e) == 1 + (events % Lanes)

LaneOf(e) == 1 + (Index[e.symbol] % Lanes)

\* HandleWebhook: the queue refuses an event when it is full; Freqtrade may
\* send an event again.
HandleWebhook(e) ==
  /\ events < setup.events /\ Len(ingest) < IngestCap
  /\ ingest' = Append(ingest, e)
  /\ events' = events + 1
  /\ UNCHANGED <<setup, control, tasks, hand, lane, work, known, noticed>>

DispatchTake ==
  /\ hand = NoEvent /\ ingest # <<>>
  /\ hand' = Head(ingest) /\ ingest' = Tail(ingest)
  /\ UNCHANGED <<setup, control, tasks, lane, work, events, known, noticed>>

\* The dispatcher waits for room in the lane of the event.
DispatchPut(i) ==
  /\ hand # NoEvent /\ i = LaneOf(hand) /\ Len(lane[i]) < IngestCap
  /\ lane' = [lane EXCEPT ![i] = Append(@, hand)]
  /\ hand' = NoEvent
  /\ UNCHANGED <<setup, control, tasks, ingest, work, events, known, noticed>>

WorkerTake(i) ==
  /\ work[i].at = "idle" /\ lane[i] # <<>>
  /\ work' = [work EXCEPT ![i] = [at |-> "task", event |-> Head(lane[i])]]
  /\ lane' = [lane EXCEPT ![i] = Tail(@)]
  /\ UNCHANGED <<setup, control, tasks, ingest, hand, events, known, noticed>>

WorkGoto(i, at) == work' = [work EXCEPT ![i] = IF at = "idle" THEN NoWork ELSE [@ EXCEPT !.at = at]]

\* process: without room for the task, or a worker of the symbol, the event is
\* dropped, notice and all.
\* An entry is looked up in known first, an exit asks the executor first.
ProcessEvent(i) ==
  LET e == work[i].event IN
  /\ work[i].at = "task"
  /\ IF e.symbol \in Loaded /\ HasRoom(e.symbol)
       THEN /\ Put(e.symbol, "WEBHOOK_EVENT")
            /\ WorkGoto(i, IF e.type = "entry_fill" THEN "check" ELSE "lookup")
       ELSE WorkGoto(i, "idle") /\ UNCHANGED queue
  /\ UNCHANGED <<setup, control, pending, marked, running, ingest, hand, lane, events,
                 known, noticed>>

\* isOpenNotified; isExitNotified and markExitNotified.
CheckNotified(i) ==
  LET e == work[i].event IN
  /\ work[i].at = "check"
  /\ WorkGoto(i, IF e \in known THEN "idle"
                   ELSE IF e.type = "entry_fill" THEN "lookup" ELSE "send")
  /\ known' = IF e.type = "exit_fill" THEN known \cup {e} ELSE known
  /\ UNCHANGED <<setup, control, tasks, ingest, hand, lane, events, noticed>>

\* The trade is asked for; an error or an unknown trade ends the event.
LookupTrade(i) ==
  /\ work[i].at = "lookup"
  /\ \/ WorkGoto(i, IF work[i].event.type = "entry_fill" THEN "send" ELSE "check")
     \/ WorkGoto(i, "idle")
  /\ UNCHANGED <<setup, control, tasks, ingest, hand, lane, events, known, noticed>>

\* SendTradeOpen, SendTradePartialClose, SendTradeCloseSummary: the notice is
\* handed over, or that fails and nobody tries again.
SendNotice(i) ==
  LET e == work[i].event IN
  /\ work[i].at = "send"
  /\ \/ /\ noticed' = [noticed EXCEPT ![e] = IF @ < 2 THEN @ + 1 ELSE @]
        /\ WorkGoto(i, IF e.type = "entry_fill" THEN "mark" ELSE "idle")
     \/ WorkGoto(i, "idle") /\ UNCHANGED noticed
  /\ UNCHANGED <<setup, control, tasks, ingest, hand, lane, events, known>>

MarkOpenNotified(i) ==
  /\ work[i].at = "mark"
  /\ known' = known \cup {work[i].event}
  /\ WorkGoto(i, "idle")
  /\ UNCHANGED <<setup, control, tasks, ingest, hand, lane, events, noticed>>

-----------------------------------------------------------------------------
CallStep(a) ==
  \/ ApplyFirst(a) \/ ListPositions(a) \/ SetMonitorSymbols(a)
  \/ ClearMonitorSymbols(a) \/ ApplyLast(a)

LaneStep(i) ==
  \/ DispatchPut(i) \/ WorkerTake(i) \/ ProcessEvent(i) \/ CheckNotified(i)
  \/ LookupTrade(i) \/ SendNotice(i) \/ MarkOpenNotified(i)

Next ==
  \/ \E a \in Callers :
       \/ \E enable \in BOOLEAN : SetScheduledDecision(a, enable)
       \/ \E s \in Symbols, m \in {"trade", "off"} : SetSymbolMode(a, s, m)
       \/ CallStep(a)
  \/ \E s \in Symbols : TradeOpens(s) \/ TradeCloses(s) \/ StartTask(s) \/ SkipBarDecide(s)
                   \/ FinishTask(s)
  \/ \E s \in Symbols, t \in Periodic : MarkTaskPending(s, t) \/ EnqueueTask(s, t)
  \/ \E e \in Event : HandleWebhook(e)
  \/ DispatchTake
  \/ \E i \in 1 .. Lanes : LaneStep(i)
  \/ ReaderStep /\ UNCHANGED <<setup, schedule, tasks, webhooks>>

Spec == Init /\ [][Next]_vars

\* Goroutines go on, tasks end: every call of a task carries a timeout.
Fairness ==
  /\ \A s \in Symbols : WF_vars(StartTask(s) \/ SkipBarDecide(s)) /\ WF_vars(FinishTask(s))
  /\ \A s \in Symbols, t \in Periodic : WF_vars(EnqueueTask(s, t))
  /\ WF_vars(DispatchTake)
  /\ \A i \in 1 .. Lanes : WF_vars(LaneStep(i))
  /\ WF_streamVars(LastGoes) /\ WF_streamVars(OldGoes)

FairSpec == Spec /\ Fairness

-----------------------------------------------------------------------------
(* Properties.                                                             *)

\* The types; a queue, a lane and the ingest queue stay within capacity
\* (buffered channels sent to without waiting).
TypeOK ==
  /\ setup \in Setups
  /\ scheduled \in BOOLEAN /\ StreamTypeOK
  /\ mode \in [Loaded -> SymbolMode]
  /\ monitored \subseteq Loaded
  /\ held \subseteq Symbols /\ listing \subseteq Symbols /\ seen \subseteq listing
  /\ call \in [Callers -> Call] /\ calls \in 0 .. setup.calls
  /\ pending \subseteq Symbols \X Periodic /\ marked \subseteq pending
  /\ queue \in [Symbols -> Seq(TaskType)]
  /\ \A s \in Symbols : Len(queue[s]) <= QueueCap
  /\ running \in [Symbols -> TaskType \cup {None}]
  /\ ingest \in Seq(Event) /\ Len(ingest) <= IngestCap
  /\ hand \in Event \cup {NoEvent}
  /\ lane \in [1 .. Lanes -> Seq(Event)]
  /\ \A i \in 1 .. Lanes : Len(lane[i]) <= IngestCap
  /\ work \in [1 .. Lanes -> Work]
  /\ events \in 0 .. setup.events /\ known \subseteq Event
  /\ noticed \in [Event -> 0 .. 2]

Queued(s, t) == \E i \in DOMAIN queue[s] : queue[s][i] = t

\* A periodic task of a symbol is pending exactly while it is about to be
\* enqueued, queued or run, and is in one place only: no mark without a task
\* (which would stop the reconciling or the risk checks of the symbol for
\* good) and no second task of a kind behind the first (markTaskPending,
\* clearPendingTask).
PendingMatches ==
  \A s \in Symbols, t \in Periodic :
    LET isMarked == <<s, t>> \in marked
        isQueued == Queued(s, t)
        runs     == running[s] = t
    IN  /\ <<s, t>> \in pending <=> isMarked \/ isQueued \/ runs
        /\ ~(isMarked /\ isQueued) /\ ~(isMarked /\ runs) /\ ~(isQueued /\ runs)
        /\ \A i, j \in DOMAIN queue[s] : queue[s][i] = t /\ queue[s][j] = t => i = j

\* With no request under way the price stream runs exactly when the schedule,
\* the modes and the monitored symbols ask for it, whatever requests came one
\* after another (planStreamTransitionLocked).  With a second caller it fails:
\* plans made under the lock are applied after it, in any order.
StreamFollows ==
  Quiet => stream = (setup.priced /\ StreamWanted(scheduled, mode, monitored))

\* After a disable whose listing showed only symbols with a runtime, every
\* trade of it that is still open is watched by the periodic tasks, unless its
\* symbol is off (usecase_schedule.go disable: "still monitoring the take-profit
\* and stop-loss of held positions").  With one listed symbol that has no
\* runtime nothing is watched, whatever the answer says: the code does not keep
\* the others.  This too is of requests one after another.
HeldIsMonitored ==
  Quiet /\ ~scheduled /\ listing \subseteq Loaded =>
    \A s \in seen : mode[s] # "off" => ShouldEnqueuePeriodic(s)

\* A webhook that arrives more than once is told once (openNotified and
\* lastExitOrderID with one worker per symbol).  An exit is taken to have an
\* order id, as Freqtrade gives it: one without is not looked up.
NoticedOnce == \A e \in Event : noticed[e] <= 1

\* A pending mark never stays for good (handleTask clears it when a task
\* panics, enqueueTaskWithWarning when the queue is full).
PendingClears == \A s \in Symbols, t \in Periodic : []<>(<<s, t>> \notin pending)
=============================================================================
