--------------------------- MODULE Runtime_proofs ---------------------------
(***************************************************************************)
(* Proofs about Runtime, for all symbols, lanes, capacities and setups.    *)
(***************************************************************************)
EXTENDS Runtime, SequenceTheorems, TLAPS

LEMMA Bounds ==
  /\ Lanes \in Nat \ {0} /\ QueueCap \in Nat \ {0} /\ IngestCap \in Nat \ {0}
  /\ \A x \in Setups : /\ x.calls \in Nat /\ x.events \in Nat
                       /\ x.trades \subseteq Symbols /\ x.ticked \subseteq Symbols \X Periodic
                       /\ x.priced \in BOOLEAN /\ x.loaded \subseteq Symbols
BY RuntimeAssumption

-----------------------------------------------------------------------------
(* Queues: what appending a value and taking the first one make of them.   *)

Has(q, v) == \E i \in DOMAIN q : q[i] = v
Once(q, v) == \A i, j \in DOMAIN q : q[i] = v /\ q[j] = v => i = j

LEMMA Appended ==
  ASSUME NEW S, NEW q \in Seq(S), NEW e \in S
  PROVE  /\ Append(q, e) \in Seq(S) /\ Len(Append(q, e)) = Len(q) + 1
         /\ \A v : Has(Append(q, e), v) <=> v = e \/ Has(q, v)
         /\ \A v : Once(q, v) /\ (v = e => ~Has(q, v)) => Once(Append(q, e), v)
<1>1. /\ Len(q) \in Nat /\ DOMAIN q = 1 .. Len(q)
      /\ Append(q, e) \in Seq(S) /\ Len(Append(q, e)) = Len(q) + 1
      /\ DOMAIN Append(q, e) = 1 .. Len(q) + 1
      /\ \A i \in 1 .. Len(q) : Append(q, e)[i] = q[i]
      /\ Append(q, e)[Len(q) + 1] = e
  BY AppendProperties, LenProperties
<1>2. \A i \in DOMAIN Append(q, e) : i \in DOMAIN q \/ i = Len(q) + 1
  BY <1>1
<1>3. \A i \in DOMAIN q : i \in DOMAIN Append(q, e)
  BY <1>1
<1>4. Len(q) + 1 \in DOMAIN Append(q, e)
  BY <1>1
<1> QED BY <1>1, <1>2, <1>3, <1>4 DEF Has, Once

LEMMA Taken ==
  ASSUME NEW S, NEW q \in Seq(S), q # <<>>
  PROVE  /\ Head(q) \in S /\ Tail(q) \in Seq(S) /\ Len(Tail(q)) = Len(q) - 1
         /\ Len(q) \in Nat \ {0}
         /\ Has(q, Head(q))
         /\ \A v : Has(Tail(q), v) => Has(q, v)
         /\ \A v : Has(q, v) /\ v # Head(q) => Has(Tail(q), v)
         /\ \A v : Once(q, v) => Once(Tail(q), v)
         /\ Once(q, Head(q)) => ~Has(Tail(q), Head(q))
<1>1. /\ Len(q) \in Nat \ {0} /\ DOMAIN q = 1 .. Len(q)
      /\ Head(q) \in S /\ Head(q) = q[1]
      /\ Tail(q) \in Seq(S) /\ Len(Tail(q)) = Len(q) - 1
      /\ DOMAIN Tail(q) = 1 .. Len(q) - 1
      /\ \A i \in 1 .. Len(q) - 1 : Tail(q)[i] = q[i + 1]
  <2>1. Len(q) \in Nat \ {0} /\ DOMAIN q = 1 .. Len(q)
    BY EmptySeq, LenProperties
  <2>2. Tail(q) \in Seq(S) /\ Len(Tail(q)) = Len(q) - 1 /\ Head(q) \in S /\ Head(q) = q[1]
    BY HeadTailProperties
  <2>3. DOMAIN Tail(q) = 1 .. Len(Tail(q))
    BY <2>2, LenProperties
  <2> QED BY <2>1, <2>2, <2>3, HeadTailProperties
<1>2. 1 \in DOMAIN q
  BY <1>1
<1>3. \A i \in DOMAIN Tail(q) : i + 1 \in DOMAIN q /\ Tail(q)[i] = q[i + 1] /\ i + 1 # 1 /\ i \in Nat
  BY <1>1
<1>4. \A i \in DOMAIN q : i # 1 => i - 1 \in DOMAIN Tail(q) /\ Tail(q)[i - 1] = q[i]
  <2> SUFFICES ASSUME NEW i \in 1 .. Len(q), i # 1 PROVE i - 1 \in 1 .. Len(q) - 1 /\ Tail(q)[i - 1] = q[i]
    BY <1>1
  <2>1. i - 1 \in 1 .. Len(q) - 1 /\ (i - 1) + 1 = i
    BY <1>1
  <2> QED BY <1>1, <2>1
<1>5. \A v : Has(Tail(q), v) => Has(q, v)
  BY <1>3 DEF Has
<1>6. \A v : Has(q, v) /\ v # Head(q) => Has(Tail(q), v)
  BY <1>1, <1>4 DEF Has
<1>7. \A v : Once(q, v) => Once(Tail(q), v)
  <2> SUFFICES ASSUME NEW v, Once(q, v), NEW i \in DOMAIN Tail(q), NEW j \in DOMAIN Tail(q),
                      Tail(q)[i] = v, Tail(q)[j] = v
               PROVE  i = j
    BY DEF Once
  <2>1. i + 1 = j + 1
    BY <1>3 DEF Once
  <2> QED BY <1>3, <2>1
<1>8. Once(q, Head(q)) => ~Has(Tail(q), Head(q))
  BY <1>1, <1>2, <1>3 DEF Once, Has
<1>9. Has(q, Head(q))
  BY <1>1, <1>2 DEF Has
<1> QED BY <1>1, <1>5, <1>6, <1>7, <1>8, <1>9

-----------------------------------------------------------------------------
(* The price stream.                                                       *)

LEMMA NewReaderType == \A id \in Nat : NewReader(id) \in Reader
BY DEF NewReader, Reader, ReaderAt

LEMMA StreamInitType == \A started \in BOOLEAN : StreamInit(started) => StreamTypeOK
<1> SUFFICES ASSUME NEW started \in BOOLEAN, StreamInit(started) PROVE StreamTypeOK
  OBVIOUS
<1>1. runID \in Nat /\ stream = started /\ connected = FALSE
  BY DEF StreamInit
<1>2. readers \subseteq Reader
  BY NewReaderType DEF StreamInit
<1> QED BY <1>1, <1>2 DEF StreamTypeOK

LEMMA StreamKept == StreamTypeOK /\ UNCHANGED streamVars => StreamTypeOK'
BY DEF StreamTypeOK, streamVars

LEMMA StreamApplied ==
  ASSUME StreamTypeOK, NEW start \in BOOLEAN, ApplyStreamTransition(start)
  PROVE  StreamTypeOK' /\ stream' = start
<1>1. CASE start = stream
  <2>1. UNCHANGED streamVars
    BY <1>1 DEF ApplyStreamTransition, Start, Close
  <2> QED BY <1>1, <2>1, StreamKept DEF streamVars
<1>2. CASE start /\ ~stream
  <2>1. /\ stream' = TRUE /\ runID' = runID + 1 /\ connected' = FALSE
        /\ readers' = readers \cup {NewReader(runID + 1)}
    BY <1>2 DEF ApplyStreamTransition, Start
  <2>2. runID + 1 \in Nat
    BY DEF StreamTypeOK
  <2>3. NewReader(runID + 1) \in Reader
    BY <2>2, NewReaderType
  <2> QED BY <1>2, <2>1, <2>2, <2>3 DEF StreamTypeOK
<1>3. CASE ~start /\ stream
  <2>1. /\ stream' = FALSE /\ connected' = FALSE /\ UNCHANGED runID
        /\ readers' = {IF r.run = runID THEN [r EXCEPT !.stopped = TRUE] ELSE r : r \in readers}
    BY <1>3 DEF ApplyStreamTransition, Close
  <2>2. \A r \in Reader : [r EXCEPT !.stopped = TRUE] \in Reader
    BY DEF Reader
  <2>3. readers' \subseteq Reader
    BY <2>1, <2>2 DEF StreamTypeOK
  <2> QED BY <1>3, <2>1, <2>3 DEF StreamTypeOK
<1>4. stream \in BOOLEAN
  BY DEF StreamTypeOK
<1> QED BY <1>1, <1>2, <1>3, <1>4

LEMMA ReaderStepType ==
  ASSUME StreamTypeOK, ReaderStep
  PROVE  StreamTypeOK' /\ UNCHANGED <<stream, runID>>
<1> USE DEF StreamTypeOK
<1>1. PICK r \in readers : ReaderGoes(r) \/ LoseConnection(r)
  BY DEF ReaderStep
<1>2. r \in Reader /\ r.value \in BOOLEAN
  BY DEF Reader
<1>3. ASSUME NEW at \in ReaderAt, Goto(r, at) PROVE readers' \subseteq Reader
  <2>1. [r EXCEPT !.at = at] \in Reader
    BY <1>2 DEF Reader
  <2> QED BY <1>3, <2>1 DEF Goto
<1>4. ASSUME NEW value \in BOOLEAN, NEW last \in BOOLEAN, GotoSet(r, value, last)
      PROVE  readers' \subseteq Reader
  <2>1. [r EXCEPT !.at = "set", !.value = value, !.last = last] \in Reader
    BY <1>2 DEF Reader, ReaderAt
  <2> QED BY <1>4, <2>1 DEF GotoSet
<1>5. ASSUME AfterSet(r) PROVE readers' \subseteq Reader
  BY <1>3, <1>5 DEF AfterSet, Return, ReaderAt
<1>6. CASE CheckRunning(r)
  BY <1>3, <1>4, <1>6 DEF CheckRunning, ReaderAt
<1>7. CASE Serve(r)
  BY <1>4, <1>7 DEF Serve
<1>8. CASE CompareRun(r)
  BY <1>3, <1>5, <1>8 DEF CompareRun, ReaderAt
<1>9. CASE StoreConnected(r)
  BY <1>2, <1>5, <1>9 DEF StoreConnected
<1>10. CASE HearStop(r) \/ LoseConnection(r)
  BY <1>4, <1>10 DEF HearStop, LoseConnection
<1>11. CASE WaitRetry(r)
  BY <1>3, <1>11 DEF WaitRetry, Return, ReaderAt
<1> QED BY <1>1, <1>6, <1>7, <1>8, <1>9, <1>10, <1>11 DEF ReaderGoes

-----------------------------------------------------------------------------
(* Types and tasks.  The types need that a mark is pending, so the two are *)
(* one invariant.                                                          *)

TaskInv == TypeOK /\ PendingMatches

\* The parts of TypeOK that the three groups of actions write.
ControlOK ==
  /\ scheduled \in BOOLEAN /\ StreamTypeOK
  /\ mode \in [Loaded -> SymbolMode]
  /\ monitored \subseteq Loaded
  /\ held \subseteq Symbols /\ listing \subseteq Symbols /\ seen \subseteq listing
  /\ call \in [Callers -> Call] /\ calls \in 0 .. setup.calls
TasksOK ==
  /\ pending \subseteq Symbols \X Periodic /\ marked \subseteq pending
  /\ queue \in [Symbols -> Seq(TaskType)]
  /\ \A s \in Symbols : Len(queue[s]) <= QueueCap
  /\ running \in [Symbols -> TaskType \cup {None}]
WebhooksOK ==
  /\ ingest \in Seq(Event) /\ Len(ingest) <= IngestCap
  /\ hand \in Event \cup {NoEvent}
  /\ lane \in [1 .. Lanes -> Seq(Event)]
  /\ \A i \in 1 .. Lanes : Len(lane[i]) <= IngestCap
  /\ work \in [1 .. Lanes -> Work]
  /\ events \in 0 .. setup.events /\ known \subseteq Event
  /\ noticed \in [Event -> 0 .. 2]

LEMMA TypeParts == TypeOK <=> setup \in Setups /\ ControlOK /\ TasksOK /\ WebhooksOK
BY DEF TypeOK, ControlOK, TasksOK, WebhooksOK

LEMMA ControlKept == ControlOK /\ UNCHANGED <<setup, control>> => ControlOK'
BY StreamKept DEF ControlOK, control, schedule, Loaded

LEMMA WantedType == \A sch, modes, watched : StreamWanted(sch, modes, watched) \in BOOLEAN
BY DEF StreamWanted

LEMMA InitTaskInv == Init => TaskInv
<1> SUFFICES ASSUME Init PROVE TaskInv
  OBVIOUS
<1>1. ControlOK
  <2>1. NoCall \in Call
    BY DEF NoCall, Call, CallAt, None
  <2>2. mode \in [Loaded -> SymbolMode]
    BY DEF Init, ModeOf, SymbolMode
  <2>3. calls \in 0 .. setup.calls
    BY Bounds DEF Init
  <2>4. StreamTypeOK
    BY Bounds, WantedType, StreamInitType DEF Init
  <2> QED BY <2>1, <2>2, <2>3, <2>4 DEF Init, ControlOK
<1>2. TasksOK
  BY Bounds, EmptySeq DEF Init, TasksOK
<1>3. WebhooksOK
  <2>1. NoWork \in Work
    BY DEF NoWork, Work
  <2> QED BY <2>1, Bounds, EmptySeq DEF Init, WebhooksOK
<1>4. PendingMatches
  BY DEF Init, PendingMatches, Queued, None, Periodic, TaskType
<1> QED BY <1>1, <1>2, <1>3, <1>4, TypeParts DEF Init, TaskInv

-----------------------------------------------------------------------------
(* Schedule control.                                                       *)

\* Steps of the schedule control and of the exchange.
ControlStep ==
  \/ \E a \in Callers :
       \/ \E enable \in BOOLEAN : SetScheduledDecision(a, enable)
       \/ \E s \in Symbols, m \in {"trade", "off"} : SetSymbolMode(a, s, m)
       \/ CallStep(a)
  \/ \E s \in Symbols : TradeOpens(s) \/ TradeCloses(s)
  \/ ReaderStep /\ UNCHANGED <<setup, schedule, tasks, webhooks>>

LEMMA ControlTypes ==
  ASSUME setup \in Setups, ControlOK, ControlStep
  PROVE  ControlOK' /\ UNCHANGED <<setup, tasks, webhooks>>
<1> USE DEF ControlOK, Loaded
<1>b. setup.calls \in Nat /\ setup.trades \subseteq Symbols
  BY Bounds
<1>1. ASSUME NEW a \in Callers, NEW kind \in {"enable", "disable", "mode"}, NEW start \in BOOLEAN,
             Begin(a, kind, start)
      PROVE  call' \in [Callers -> Call] /\ calls' \in 0 .. setup.calls
  <2>1. [NoCall EXCEPT !.at = "applyFirst", !.kind = kind, !.start = start] \in Call
    BY DEF NoCall, Call, CallAt
  <2> QED BY <1>b, <1>1, <2>1 DEF Begin
<1>2. ASSUME NEW a \in Callers, NEW enable \in BOOLEAN, SetScheduledDecision(a, enable)
      PROVE  ControlOK' /\ UNCHANGED <<setup, tasks, webhooks>>
  <2>1. mode' \in [Loaded -> SymbolMode]
    BY <1>2 DEF SetScheduledDecision, ModeOf, SymbolMode
  <2>2. call' \in [Callers -> Call] /\ calls' \in 0 .. setup.calls
    <3>1. PICK modes : Begin(a, IF enable THEN "enable" ELSE "disable",
                             StreamWanted(enable, modes, monitored))
      BY <1>2 DEF SetScheduledDecision
    <3>2. StreamWanted(enable, modes, monitored) \in BOOLEAN
      BY WantedType
    <3>3. CASE enable
      BY <1>1, <3>1, <3>2, <3>3
    <3>4. CASE ~enable
      BY <1>1, <3>1, <3>2, <3>4
    <3> QED BY <3>3, <3>4
  <2> QED BY <1>2, <2>1, <2>2, StreamKept DEF SetScheduledDecision
<1>3. ASSUME NEW a \in Callers, NEW s \in Symbols, NEW m \in {"trade", "off"}, SetSymbolMode(a, s, m)
      PROVE  ControlOK' /\ UNCHANGED <<setup, tasks, webhooks>>
  <2>1. mode' \in [Loaded -> SymbolMode]
    BY <1>3 DEF SetSymbolMode, SymbolMode
  <2>2. call' \in [Callers -> Call] /\ calls' \in 0 .. setup.calls
    BY <1>1, <1>3, WantedType DEF SetSymbolMode
  <2> QED BY <1>3, <2>1, <2>2, StreamKept DEF SetSymbolMode
<1>4. ASSUME NEW a \in Callers, CallStep(a)
      PROVE  ControlOK' /\ UNCHANGED <<setup, tasks, webhooks>>
  <2>a. call[a] \in Call /\ NoCall \in Call /\ call[a].listed \subseteq Symbols /\ call[a].start \in BOOLEAN
    BY DEF Call, NoCall, CallAt
  <2>s. ASSUME ApplyFirst(a) \/ ApplyLast(a) PROVE StreamTypeOK'
    <3>1. ApplyStreamTransition(call[a].start) \/ UNCHANGED streamVars
      BY <2>s DEF ApplyFirst, ApplyLast
    <3> QED BY <2>a, <3>1, StreamApplied, StreamKept
  <2>1. CASE ApplyFirst(a)
    <3>1. PICK at \in CallAt : call' = [call EXCEPT ![a].at = at]
      BY <2>1 DEF ApplyFirst, CallGoto, CallAt
    <3>2. [call[a] EXCEPT !.at = at] \in Call
      BY <2>a DEF Call
    <3>3. call' = [call EXCEPT ![a] = [call[a] EXCEPT !.at = at]]
      BY <3>1
    <3>4. call' \in [Callers -> Call]
      BY <3>2, <3>3
    <3> QED BY <2>1, <2>s, <3>4 DEF ApplyFirst
  <2>2. CASE ListPositions(a)
    <3>1. PICK listed \in SUBSET Symbols :
            /\ call' = [call EXCEPT ![a].at = "monitor", ![a].listed = listed]
            /\ listing' = listed /\ seen' = listed
      BY <2>2 DEF ListPositions
    <3>2. [call[a] EXCEPT !.at = "monitor", !.listed = listed] \in Call
      BY <2>a DEF Call, CallAt
    <3>3. call' = [call EXCEPT ![a] = [call[a] EXCEPT !.at = "monitor", !.listed = listed]]
      BY <3>1
    <3>4. call' \in [Callers -> Call]
      BY <3>2, <3>3
    <3> QED BY <2>2, <3>1, <3>4, StreamKept DEF ListPositions
  <2>3. ASSUME NEW symbols \in SUBSET Loaded, Monitor(a, symbols)
        PROVE  ControlOK' /\ UNCHANGED <<setup, tasks, webhooks>>
    <3>1. [call[a] EXCEPT !.at = "applyLast", !.start = StreamWanted(scheduled, mode, symbols)] \in Call
      BY <2>a, WantedType DEF Call, CallAt
    <3>2. call' = [call EXCEPT ![a] =
                     [call[a] EXCEPT !.at = "applyLast", !.start = StreamWanted(scheduled, mode, symbols)]]
      BY <2>3 DEF Monitor
    <3>3. call' \in [Callers -> Call]
      BY <3>1, <3>2
    <3> QED BY <2>3, <3>3, StreamKept DEF Monitor
  <2>4. CASE ApplyLast(a)
    BY <2>4, <2>a, <2>s DEF ApplyLast
  <2>5. CASE SetMonitorSymbols(a) /\ ~(call[a].listed \subseteq Loaded)
    <3>1. [call[a] EXCEPT !.at = "clear"] \in Call
      BY <2>a DEF Call, CallAt
    <3>2. call' = [call EXCEPT ![a] = [call[a] EXCEPT !.at = "clear"]]
      BY <2>5 DEF SetMonitorSymbols, CallGoto
    <3>3. call' \in [Callers -> Call]
      BY <3>1, <3>2
    <3> QED BY <2>5, <3>3, StreamKept DEF SetMonitorSymbols
  <2>6. CASE SetMonitorSymbols(a) /\ call[a].listed \subseteq Loaded
    BY <2>3, <2>6 DEF SetMonitorSymbols
  <2>7. CASE ClearMonitorSymbols(a)
    BY <2>3, <2>7 DEF ClearMonitorSymbols
  <2> QED BY <1>4, <2>1, <2>2, <2>4, <2>5, <2>6, <2>7 DEF CallStep
<1>5. ASSUME NEW s \in Symbols, TradeOpens(s) \/ TradeCloses(s)
      PROVE  ControlOK' /\ UNCHANGED <<setup, tasks, webhooks>>
  BY <1>5, <1>b, StreamKept DEF TradeOpens, TradeCloses
<1>6. ASSUME ReaderStep, UNCHANGED <<setup, schedule, tasks, webhooks>>
      PROVE  ControlOK' /\ UNCHANGED <<setup, tasks, webhooks>>
  BY <1>6, ReaderStepType DEF schedule
<1> QED BY <1>2, <1>3, <1>4, <1>5, <1>6 DEF ControlStep

-----------------------------------------------------------------------------
(* Tasks.                                                                  *)

\* PendingMatches of one key.
KeyOK(s, t) ==
  /\ <<s, t>> \in pending <=> <<s, t>> \in marked \/ Has(queue[s], t) \/ running[s] = t
  /\ ~(<<s, t>> \in marked /\ Has(queue[s], t))
  /\ ~(<<s, t>> \in marked /\ running[s] = t)
  /\ ~(Has(queue[s], t) /\ running[s] = t)
  /\ Once(queue[s], t)

\* Steps of the loops and of the symbol workers.
TaskStep ==
  \/ \E s \in Symbols : StartTask(s) \/ SkipBarDecide(s) \/ FinishTask(s)
  \/ \E s \in Symbols, t \in Periodic : MarkTaskPending(s, t) \/ EnqueueTask(s, t)

LEMMA TaskTypes ==
  ASSUME setup \in Setups, TasksOK, PendingMatches, TaskStep
  PROVE  TasksOK' /\ PendingMatches' /\ UNCHANGED <<setup, control, webhooks>>
<1> USE DEF TasksOK
<1>k. \A s \in Symbols, t \in Periodic : KeyOK(s, t)
  BY DEF PendingMatches, Queued, KeyOK, Has, Once
<1>p. PendingMatches' <=> \A s \in Symbols, t \in Periodic : KeyOK(s, t)'
  BY DEF PendingMatches, Queued, KeyOK, Has, Once
<1>n. \A t \in TaskType : t # None
  BY DEF TaskType, None
<1>s. Periodic \subseteq TaskType /\ setup.ticked \subseteq Symbols \X Periodic
  BY Bounds DEF Periodic
<1>1. ASSUME NEW s \in Symbols, NEW t \in Periodic, MarkTaskPending(s, t)
      PROVE  TasksOK' /\ PendingMatches' /\ UNCHANGED <<setup, control, webhooks>>
  <2>1. TasksOK'
    BY <1>1 DEF MarkTaskPending
  <2>2. ASSUME NEW s1 \in Symbols, NEW t1 \in Periodic
        PROVE  KeyOK(s1, t1)'
    BY <1>1, <1>k, <2>2 DEF MarkTaskPending, KeyOK
  <2> QED BY <1>1, <1>p, <2>1, <2>2 DEF MarkTaskPending
<1>2. ASSUME NEW s \in Symbols, NEW t \in Periodic, EnqueueTask(s, t)
      PROVE  TasksOK' /\ PendingMatches' /\ UNCHANGED <<setup, control, webhooks>>
  <2>a. /\ Append(queue[s], t) \in Seq(TaskType) /\ Len(Append(queue[s], t)) = Len(queue[s]) + 1
        /\ \A v : Has(Append(queue[s], t), v) <=> v = t \/ Has(queue[s], v)
        /\ \A v : Once(queue[s], v) /\ (v = t => ~Has(queue[s], v)) => Once(Append(queue[s], t), v)
    BY <1>s, Appended
  <2>b. Len(queue[s]) \in Nat /\ QueueCap \in Nat
    BY Bounds, LenProperties
  <2>1. TasksOK'
    <3>1. CASE HasRoom(s)
      <4>1. queue' \in [Symbols -> Seq(TaskType)]
        BY <1>2, <2>a, <3>1 DEF EnqueueTask, Put
      <4>2. \A s1 \in Symbols : Len(queue'[s1]) <= QueueCap
        BY <1>2, <2>a, <2>b, <3>1 DEF EnqueueTask, HasRoom, Put
      <4> QED BY <1>2, <3>1, <4>1, <4>2 DEF EnqueueTask
    <3>2. CASE ~HasRoom(s)
      BY <1>2, <3>2, <1>k DEF EnqueueTask
    <3> QED BY <3>1, <3>2
  <2>2. ASSUME NEW s1 \in Symbols, NEW t1 \in Periodic
        PROVE  KeyOK(s1, t1)'
    <3>1. CASE HasRoom(s)
      BY <1>2, <1>k, <2>a, <2>2, <3>1 DEF EnqueueTask, Put, KeyOK
    <3>2. CASE ~HasRoom(s)
      BY <1>2, <1>k, <2>2, <3>2 DEF EnqueueTask, KeyOK
    <3> QED BY <3>1, <3>2
  <2> QED BY <1>2, <1>p, <2>1, <2>2 DEF EnqueueTask
<1>3. ASSUME NEW s \in Symbols, queue[s] # <<>>, running[s] = None
      PROVE  /\ Head(queue[s]) \in TaskType /\ Tail(queue[s]) \in Seq(TaskType)
             /\ Len(Tail(queue[s])) <= QueueCap
             /\ Has(queue[s], Head(queue[s]))
             /\ \A v : v # Head(queue[s]) => (Has(Tail(queue[s]), v) <=> Has(queue[s], v))
             /\ \A v : Once(queue[s], v) => Once(Tail(queue[s]), v)
             /\ Once(queue[s], Head(queue[s])) => ~Has(Tail(queue[s]), Head(queue[s]))
  <2>1. Len(Tail(queue[s])) = Len(queue[s]) - 1 /\ Len(queue[s]) \in Nat
    BY <1>3, Taken
  <2>2. Len(queue[s]) <= QueueCap /\ QueueCap \in Nat
    BY Bounds
  <2> QED BY <1>3, <2>1, <2>2, Taken
<1>4. ASSUME NEW s \in Symbols, SkipBarDecide(s)
      PROVE  TasksOK' /\ PendingMatches' /\ UNCHANGED <<setup, control, webhooks>>
  <2>1. "BAR_DECIDE" \in Periodic
    BY DEF Periodic, TaskType
  <2>2. TasksOK'
    BY <1>3, <1>4, <1>k, <2>1 DEF SkipBarDecide, KeyOK
  <2>3. ASSUME NEW s1 \in Symbols, NEW t1 \in Periodic
        PROVE  KeyOK(s1, t1)'
    <3>1. CASE s1 = s
      BY <1>3, <1>4, <1>k, <1>n, <1>s, <2>1, <3>1 DEF SkipBarDecide, KeyOK
    <3>2. CASE s1 # s
      BY <1>4, <1>k, <3>2 DEF SkipBarDecide, KeyOK
    <3> QED BY <3>1, <3>2
  <2> QED BY <1>4, <1>p, <2>2, <2>3 DEF SkipBarDecide
<1>5. ASSUME NEW s \in Symbols, StartTask(s)
      PROVE  TasksOK' /\ PendingMatches' /\ UNCHANGED <<setup, control, webhooks>>
  <2>2. TasksOK'
    BY <1>3, <1>5 DEF StartTask
  <2>3. ASSUME NEW s1 \in Symbols, NEW t1 \in Periodic
        PROVE  KeyOK(s1, t1)'
    <3>1. CASE s1 = s
      BY <1>3, <1>5, <1>k, <1>n, <1>s, <3>1 DEF StartTask, KeyOK
    <3>2. CASE s1 # s
      BY <1>5, <1>k, <3>2 DEF StartTask, KeyOK
    <3> QED BY <3>1, <3>2
  <2> QED BY <1>5, <1>p, <2>2, <2>3 DEF StartTask
<1>6. ASSUME NEW s \in Symbols, FinishTask(s)
      PROVE  TasksOK' /\ PendingMatches' /\ UNCHANGED <<setup, control, webhooks>>
  <2>2. TasksOK'
    <3>1. <<s, running[s]>> \notin marked
      BY <1>6, <1>k DEF KeyOK
    <3> QED BY <1>6, <3>1 DEF FinishTask
  <2>3. ASSUME NEW s1 \in Symbols, NEW t1 \in Periodic
        PROVE  KeyOK(s1, t1)'
    <3>1. CASE s1 = s
      BY <1>6, <1>k, <1>n, <1>s, <3>1 DEF FinishTask, KeyOK
    <3>2. CASE s1 # s
      BY <1>6, <1>k, <3>2 DEF FinishTask, KeyOK
    <3> QED BY <3>1, <3>2
  <2> QED BY <1>6, <1>p, <2>2, <2>3 DEF FinishTask
<1> QED BY <1>1, <1>2, <1>4, <1>5, <1>6 DEF TaskStep

-----------------------------------------------------------------------------
(* Webhooks.                                                               *)

WebhookStep ==
  \/ \E e \in Event : HandleWebhook(e)
  \/ DispatchTake
  \/ \E i \in 1 .. Lanes : LaneStep(i)

LEMMA WorkParts ==
  /\ NoWork \in Work /\ NoWork.at = "idle"
  /\ \A w \in Work : w.at # "idle" =>
       /\ w.event \in Event
       /\ \A at \in {"task", "check", "lookup", "send", "mark"} :
            /\ [w EXCEPT !.at = at] \in Work
            /\ [w EXCEPT !.at = at].at = at /\ [w EXCEPT !.at = at].event = w.event
BY DEF NoWork, Work

LEMMA WorkMoves ==
  ASSUME work \in [1 .. Lanes -> Work], NEW i \in 1 .. Lanes, work[i].at # "idle",
         NEW at \in {"idle", "task", "check", "lookup", "send", "mark"}, WorkGoto(i, at)
  PROVE  /\ work' \in [1 .. Lanes -> Work]
         /\ work[i].event \in Event
         /\ work'[i].at = at
         /\ at # "idle" => work'[i].event = work[i].event
         /\ \A j \in 1 .. Lanes : j # i => work'[j] = work[j]
<1>1. CASE at = "idle"
  <2>1. work' = [work EXCEPT ![i] = NoWork]
    BY <1>1 DEF WorkGoto
  <2> QED BY <1>1, <2>1, WorkParts
<1>2. CASE at # "idle"
  <2>1. work' = [work EXCEPT ![i] = [work[i] EXCEPT !.at = at]]
    BY <1>2 DEF WorkGoto
  <2>2. /\ [work[i] EXCEPT !.at = at] \in Work
        /\ [work[i] EXCEPT !.at = at].at = at
        /\ [work[i] EXCEPT !.at = at].event = work[i].event
        /\ work[i].event \in Event
    <3>1. at \in {"task", "check", "lookup", "send", "mark"} /\ work[i] \in Work
      BY <1>2
    <3> QED BY <3>1, WorkParts
  <2> QED BY <1>2, <2>1, <2>2
<1> QED BY <1>1, <1>2

LEMMA WebhookTypes ==
  ASSUME setup \in Setups, TasksOK, WebhooksOK, PendingMatches, WebhookStep
  PROVE  TasksOK' /\ PendingMatches' /\ WebhooksOK' /\ UNCHANGED <<setup, control>>
<1> USE DEF WebhooksOK
<1>b. setup.events \in Nat /\ IngestCap \in Nat \ {0} /\ QueueCap \in Nat \ {0}
  BY Bounds
<1>t. ASSUME UNCHANGED tasks PROVE TasksOK' /\ PendingMatches'
  BY <1>t DEF tasks, TasksOK, PendingMatches, Queued
<1>1. ASSUME NEW e \in Event, HandleWebhook(e)
      PROVE  WebhooksOK' /\ UNCHANGED <<setup, control, tasks>>
  <2>1. ingest' \in Seq(Event) /\ Len(ingest') <= IngestCap
    <3>1. Append(ingest, e) \in Seq(Event) /\ Len(Append(ingest, e)) = Len(ingest) + 1
      BY Appended
    <3>2. Len(ingest) \in Nat
      BY LenProperties
    <3> QED BY <1>1, <1>b, <3>1, <3>2 DEF HandleWebhook
  <2>2. events' \in 0 .. setup.events
    BY <1>1, <1>b DEF HandleWebhook
  <2> QED BY <1>1, <2>1, <2>2 DEF HandleWebhook
<1>2. ASSUME DispatchTake
      PROVE  WebhooksOK' /\ UNCHANGED <<setup, control, tasks>>
  <2>1. hand' \in Event /\ ingest' \in Seq(Event) /\ Len(ingest') = Len(ingest) - 1
    BY <1>2, Taken DEF DispatchTake
  <2>2. Len(ingest) \in Nat
    BY LenProperties
  <2> QED BY <1>2, <1>b, <2>1, <2>2 DEF DispatchTake
<1>3. ASSUME NEW i \in 1 .. Lanes, DispatchPut(i)
      PROVE  WebhooksOK' /\ UNCHANGED <<setup, control, tasks>>
  <2>1. Append(lane[i], hand) \in Seq(Event) /\ Len(Append(lane[i], hand)) = Len(lane[i]) + 1
    BY <1>3, Appended DEF DispatchPut
  <2>2. Len(lane[i]) \in Nat
    BY LenProperties
  <2>3. lane' \in [1 .. Lanes -> Seq(Event)]
    BY <1>3, <2>1 DEF DispatchPut
  <2>4. \A j \in 1 .. Lanes : Len(lane'[j]) <= IngestCap
    BY <1>3, <1>b, <2>1, <2>2 DEF DispatchPut
  <2> QED BY <1>3, <2>3, <2>4 DEF DispatchPut
<1>4. ASSUME NEW i \in 1 .. Lanes, WorkerTake(i)
      PROVE  WebhooksOK' /\ UNCHANGED <<setup, control, tasks>>
  <2>1. /\ Head(lane[i]) \in Event /\ Tail(lane[i]) \in Seq(Event)
        /\ Len(Tail(lane[i])) = Len(lane[i]) - 1
    BY <1>4, Taken DEF WorkerTake
  <2>2. Len(lane[i]) \in Nat
    BY LenProperties
  <2>3. lane' \in [1 .. Lanes -> Seq(Event)]
    BY <1>4, <2>1 DEF WorkerTake
  <2>4. \A j \in 1 .. Lanes : Len(lane'[j]) <= IngestCap
    BY <1>4, <1>b, <2>1, <2>2 DEF WorkerTake
  <2>5. [at |-> "task", event |-> Head(lane[i])] \in Work
    BY <2>1 DEF Work
  <2>6. work' \in [1 .. Lanes -> Work]
    BY <1>4, <2>5 DEF WorkerTake
  <2> QED BY <1>4, <2>3, <2>4, <2>6 DEF WorkerTake
<1>5. ASSUME NEW i \in 1 .. Lanes, ProcessEvent(i)
      PROVE  WebhooksOK' /\ TasksOK' /\ PendingMatches' /\ UNCHANGED <<setup, control>>
  <2>1. PICK at \in {"check", "lookup", "idle"} : WorkGoto(i, at) /\ work[i].at # "idle"
    BY <1>5 DEF ProcessEvent
  <2>2. work' \in [1 .. Lanes -> Work]
    BY <2>1, WorkMoves
  <2>3. WebhooksOK'
    BY <1>5, <2>2 DEF ProcessEvent
  <2>4. TasksOK' /\ PendingMatches'
    <3>1. CASE work[i].event.symbol \in Loaded /\ HasRoom(work[i].event.symbol)
      <4> DEFINE t == "WEBHOOK_EVENT"
      <4>1. PICK s \in Symbols : s = work[i].event.symbol
        BY <2>1, WorkMoves DEF Event
      <4>2. queue' = [queue EXCEPT ![s] = Append(queue[s], t)]
        BY <1>5, <3>1, <4>1 DEF ProcessEvent, Put
      <4>3. /\ Append(queue[s], t) \in Seq(TaskType)
            /\ Len(Append(queue[s], t)) = Len(queue[s]) + 1
            /\ \A v : Has(Append(queue[s], t), v) <=> v = t \/ Has(queue[s], v)
            /\ \A v : Once(queue[s], v) /\ (v = t => ~Has(queue[s], v)) => Once(Append(queue[s], t), v)
        BY Appended DEF TasksOK, TaskType
      <4>4. Len(queue[s]) \in Nat /\ Len(queue[s]) < QueueCap
        BY <3>1, <4>1, LenProperties DEF HasRoom, TasksOK
      <4>5. TasksOK'
        <5>1. queue' \in [Symbols -> Seq(TaskType)]
          BY <4>2, <4>3 DEF TasksOK
        <5>2. \A s1 \in Symbols : Len(queue'[s1]) <= QueueCap
          BY <4>2, <4>3, <4>4, <1>b DEF TasksOK
        <5> QED BY <1>5, <5>1, <5>2 DEF TasksOK, ProcessEvent
      <4>6. \A s1 \in Symbols, t1 \in Periodic : KeyOK(s1, t1)
        BY DEF PendingMatches, Queued, KeyOK, Has, Once
      <4>7. ASSUME NEW s1 \in Symbols, NEW t1 \in Periodic
            PROVE  KeyOK(s1, t1)'
        <5>1. t1 # t
          BY DEF Periodic
        <5>2. queue'[s1] = IF s1 = s THEN Append(queue[s], t) ELSE queue[s1]
          BY <4>2 DEF TasksOK
        <5> HIDE DEF t
        <5> QED BY <1>5, <4>3, <4>6, <5>1, <5>2 DEF ProcessEvent, KeyOK
      <4>8. PendingMatches'
        BY <4>7 DEF PendingMatches, Queued, KeyOK, Has, Once
      <4> QED BY <4>5, <4>8
    <3>2. CASE ~(work[i].event.symbol \in Loaded /\ HasRoom(work[i].event.symbol))
      BY <1>5, <1>t, <3>2 DEF ProcessEvent, tasks
    <3> QED BY <3>1, <3>2
  <2> QED BY <1>5, <2>3, <2>4 DEF ProcessEvent
<1>6. ASSUME NEW i \in 1 .. Lanes, CheckNotified(i)
      PROVE  WebhooksOK' /\ UNCHANGED <<setup, control, tasks>>
  <2>1. PICK at \in {"idle", "lookup", "send"} : WorkGoto(i, at) /\ work[i].at # "idle"
    BY <1>6 DEF CheckNotified
  <2>2. work' \in [1 .. Lanes -> Work]
    BY <2>1, WorkMoves
  <2>3. known' \subseteq Event
    <3>1. work[i].event \in Event
      BY <2>1, WorkMoves
    <3> QED BY <1>6, <3>1 DEF CheckNotified
  <2> QED BY <1>6, <2>2, <2>3 DEF CheckNotified
<1>7. ASSUME NEW i \in 1 .. Lanes, LookupTrade(i)
      PROVE  WebhooksOK' /\ UNCHANGED <<setup, control, tasks>>
  <2>1. PICK at \in {"idle", "check", "send"} : WorkGoto(i, at) /\ work[i].at # "idle"
    BY <1>7 DEF LookupTrade
  <2>2. work' \in [1 .. Lanes -> Work]
    BY <2>1, WorkMoves
  <2> QED BY <1>7, <2>2 DEF LookupTrade
<1>8. ASSUME NEW i \in 1 .. Lanes, SendNotice(i)
      PROVE  WebhooksOK' /\ UNCHANGED <<setup, control, tasks>>
  <2>1. PICK at \in {"idle", "mark"} : WorkGoto(i, at) /\ work[i].at # "idle"
    BY <1>8 DEF SendNotice
  <2>2. work' \in [1 .. Lanes -> Work]
    BY <2>1, WorkMoves
  <2>3. noticed' \in [Event -> 0 .. 2]
    BY <1>8 DEF SendNotice
  <2> QED BY <1>8, <2>2, <2>3 DEF SendNotice
<1>9. ASSUME NEW i \in 1 .. Lanes, MarkOpenNotified(i)
      PROVE  WebhooksOK' /\ UNCHANGED <<setup, control, tasks>>
  <2>1. work' \in [1 .. Lanes -> Work] /\ work[i].event \in Event
    BY <1>9, WorkMoves DEF MarkOpenNotified
  <2> QED BY <1>9, <2>1 DEF MarkOpenNotified
<1> QED BY <1>1, <1>2, <1>3, <1>4, <1>5, <1>6, <1>7, <1>8, <1>9, <1>t DEF WebhookStep, LaneStep

-----------------------------------------------------------------------------
LEMMA NextParts == Next => ControlStep \/ TaskStep \/ WebhookStep
BY DEF Next, ControlStep, TaskStep, WebhookStep

LEMMA TypeSteps == TypeOK /\ PendingMatches /\ [Next]_vars => TypeOK' /\ PendingMatches'
<1> SUFFICES ASSUME TypeOK, PendingMatches, [Next]_vars PROVE TypeOK' /\ PendingMatches'
  OBVIOUS
<1>1. setup \in Setups /\ ControlOK /\ TasksOK /\ WebhooksOK
  BY TypeParts
<1>2. CASE ControlStep
  <2>1. ControlOK' /\ UNCHANGED <<setup, tasks, webhooks>>
    BY <1>1, <1>2, ControlTypes
  <2> QED BY <1>1, <2>1 DEF TypeOK, ControlOK, TasksOK, WebhooksOK, tasks, webhooks,
                            PendingMatches, Queued
<1>3. CASE TaskStep
  <2>1. TasksOK' /\ PendingMatches' /\ UNCHANGED <<setup, control, webhooks>>
    BY <1>1, <1>3, TaskTypes
  <2>2. ControlOK'
    BY <1>1, <2>1, ControlKept
  <2> QED BY <1>1, <2>1, <2>2 DEF TypeOK, ControlOK, TasksOK, WebhooksOK, webhooks
<1>4. CASE WebhookStep
  <2>1. TasksOK' /\ PendingMatches' /\ WebhooksOK' /\ UNCHANGED <<setup, control>>
    BY <1>1, <1>4, WebhookTypes
  <2>2. ControlOK'
    BY <1>1, <2>1, ControlKept
  <2> QED BY <1>1, <2>1, <2>2 DEF TypeOK, ControlOK, TasksOK, WebhooksOK
<1>5. CASE UNCHANGED vars
  <2>1. ControlOK'
    BY <1>1, <1>5, ControlKept DEF vars
  <2> QED BY <1>1, <1>5, <2>1 DEF vars, tasks, webhooks, TypeOK, ControlOK, PendingMatches, Queued
<1> QED BY <1>2, <1>3, <1>4, <1>5, NextParts

\* Every variable keeps its type, and the queues their capacity.
THEOREM TypeCorrect == Spec => []TypeOK
<1>1. Init => TypeOK /\ PendingMatches
  BY InitTaskInv DEF TaskInv
<1> QED BY <1>1, TypeSteps, PTL DEF Spec

\* A periodic task is pending exactly while it is about to be enqueued,
\* queued or run, and it is in one of these places only.
THEOREM MarksMatchTasks == Spec => []PendingMatches
<1>1. Init => TypeOK /\ PendingMatches
  BY InitTaskInv DEF TaskInv
<1> QED BY <1>1, TypeSteps, PTL DEF Spec

-----------------------------------------------------------------------------
(* A webhook is told once.  A lane holds only the events of its symbols,   *)
(* so no two workers handle one event at a time.                           *)

OwnLane ==
  \A i \in 1 .. Lanes :
    /\ \A k \in DOMAIN lane[i] : LaneOf(lane[i][k]) = i
    /\ work[i].at # "idle" => LaneOf(work[i].event) = i

\* A told event is known, or its worker is about to mark it.
ToldIsKnown ==
  \A e \in Event : noticed[e] > 0 =>
    e \in known \/ \E i \in 1 .. Lanes : work[i].at = "mark" /\ work[i].event = e

\* What a worker is about to tell has not been told, and an exit is marked by then.
SendingIsNew ==
  \A i \in 1 .. Lanes :
    /\ work[i].at = "send" \/ (work[i].at = "lookup" /\ work[i].event.type = "entry_fill")
         => noticed[work[i].event] = 0
    /\ work[i].at = "send" => work[i].event.type = "entry_fill" \/ work[i].event \in known

NoticeInv == OwnLane /\ ToldIsKnown /\ SendingIsNew /\ NoticedOnce

LEMMA InitNoticeInv == Init => NoticeInv
BY EmptySeq DEF Init, NoticeInv, OwnLane, ToldIsKnown, SendingIsNew, NoticedOnce, NoWork

LEMMA OwnLaneSteps ==
  ASSUME TypeOK, OwnLane, WebhookStep
  PROVE  OwnLane'
<1>1. WebhooksOK
  BY TypeParts
<1>2. ASSUME NEW i \in 1 .. Lanes, DispatchPut(i)
      PROVE  OwnLane'
  <2>1. /\ hand \in Event /\ LaneOf(hand) = i
        /\ lane' = [lane EXCEPT ![i] = Append(lane[i], hand)]
        /\ UNCHANGED work
    BY <1>1, <1>2 DEF DispatchPut, WebhooksOK
  <2>2. \A v : Has(Append(lane[i], hand), v) => v = hand \/ Has(lane[i], v)
    BY <1>1, <2>1, Appended DEF WebhooksOK
  <2>3. ASSUME NEW j \in 1 .. Lanes, NEW k \in DOMAIN lane'[j]
        PROVE  LaneOf(lane'[j][k]) = j
    <3>1. CASE j = i
      <4>1. lane'[i] = Append(lane[i], hand)
        BY <1>1, <2>1 DEF WebhooksOK
      <4>2. lane'[i][k] = hand \/ Has(lane[i], lane'[i][k])
        BY <2>2, <2>3, <3>1, <4>1 DEF Has
      <4> QED BY <2>1, <3>1, <4>2 DEF OwnLane, Has
    <3>2. CASE j # i
      BY <1>1, <2>1, <2>3, <3>2 DEF OwnLane, WebhooksOK
    <3> QED BY <3>1, <3>2
  <2> QED BY <2>1, <2>3 DEF OwnLane, LaneOf
<1>3. ASSUME NEW i \in 1 .. Lanes, WorkerTake(i)
      PROVE  OwnLane'
  <2>1. /\ lane' = [lane EXCEPT ![i] = Tail(lane[i])]
        /\ work' = [work EXCEPT ![i] = [at |-> "task", event |-> Head(lane[i])]]
        /\ lane[i] # <<>>
    BY <1>3 DEF WorkerTake
  <2>2. /\ Has(lane[i], Head(lane[i]))
        /\ \A v : Has(Tail(lane[i]), v) => Has(lane[i], v)
    BY <1>1, <2>1, Taken DEF WebhooksOK
  <2>3. \A v : Has(lane[i], v) => LaneOf(v) = i
    BY DEF OwnLane, Has
  <2>4. lane'[i] = Tail(lane[i]) /\ work'[i] = [at |-> "task", event |-> Head(lane[i])]
    BY <1>1, <2>1 DEF WebhooksOK
  <2>5. \A j \in 1 .. Lanes : j # i => lane'[j] = lane[j] /\ work'[j] = work[j]
    BY <1>1, <2>1 DEF WebhooksOK
  <2>6. \A k \in DOMAIN lane'[i] : LaneOf(lane'[i][k]) = i
    BY <2>2, <2>3, <2>4 DEF Has
  <2>7. LaneOf(work'[i].event) = i
    BY <2>2, <2>3, <2>4
  <2> QED BY <2>5, <2>6, <2>7 DEF OwnLane, LaneOf
<1>4. ASSUME NEW i \in 1 .. Lanes, UNCHANGED lane, work[i].at # "idle",
             NEW at \in {"idle", "task", "check", "lookup", "send", "mark"}, WorkGoto(i, at)
      PROVE  OwnLane'
  <2>1. /\ work'[i].at = at
        /\ at # "idle" => work'[i].event = work[i].event
        /\ \A j \in 1 .. Lanes : j # i => work'[j] = work[j]
    BY <1>1, <1>4, WorkMoves DEF WebhooksOK
  <2> QED BY <1>4, <2>1 DEF OwnLane, LaneOf
<1>5. ASSUME NEW i \in 1 .. Lanes, ProcessEvent(i) \/ CheckNotified(i) \/ LookupTrade(i)
                                    \/ SendNotice(i) \/ MarkOpenNotified(i)
      PROVE  OwnLane'
  <2>1. UNCHANGED lane /\ work[i].at # "idle"
    BY <1>5 DEF ProcessEvent, CheckNotified, LookupTrade, SendNotice, MarkOpenNotified
  <2>2. PICK at \in {"idle", "check", "lookup", "send", "mark"} : WorkGoto(i, at)
    BY <1>5 DEF ProcessEvent, CheckNotified, LookupTrade, SendNotice, MarkOpenNotified
  <2> QED BY <1>4, <2>1, <2>2
<1>6. ASSUME UNCHANGED <<lane, work>>
      PROVE  OwnLane'
  BY <1>6 DEF OwnLane, LaneOf
<1> QED BY <1>2, <1>3, <1>5, <1>6 DEF WebhookStep, LaneStep, HandleWebhook, DispatchTake

NoticeRest == ToldIsKnown /\ SendingIsNew /\ NoticedOnce

LEMMA NoticeSteps ==
  ASSUME TypeOK, NoticeInv, WebhookStep
  PROVE  NoticeRest'
<1> USE DEF NoticeInv
<1>1. /\ WebhooksOK
      /\ work \in [1 .. Lanes -> Work] /\ known \subseteq Event /\ noticed \in [Event -> 0 .. 2]
  BY TypeParts DEF WebhooksOK
<1>2. ASSUME UNCHANGED <<work, known, noticed>>
      PROVE  NoticeRest'
  BY <1>2 DEF NoticeRest, ToldIsKnown, SendingIsNew, NoticedOnce
<1>3. ASSUME NEW i \in 1 .. Lanes, work[i].at # "mark", UNCHANGED <<known, noticed>>,
             NEW w, work' = [work EXCEPT ![i] = w], w.at \notin {"lookup", "send"}
      PROVE  NoticeRest'
  <2>1. /\ work'[i] = w
        /\ \A j \in 1 .. Lanes : j # i => work'[j] = work[j]
    BY <1>1, <1>3
  <2>2. ToldIsKnown'
    BY <1>3, <2>1 DEF ToldIsKnown
  <2>3. SendingIsNew'
    BY <1>3, <2>1 DEF SendingIsNew
  <2> QED BY <1>3, <2>2, <2>3 DEF NoticeRest, NoticedOnce
<1>4. ASSUME NEW i \in 1 .. Lanes, WorkerTake(i)
      PROVE  NoticeRest'
  BY <1>3, <1>4 DEF WorkerTake
<1>m. ASSUME NEW i \in 1 .. Lanes, work[i].at # "idle",
             NEW at \in {"idle", "task", "check", "lookup", "send", "mark"}, WorkGoto(i, at)
      PROVE  /\ work[i].event \in Event
             /\ work'[i].at = at
             /\ at # "idle" => work'[i].event = work[i].event
             /\ \A j \in 1 .. Lanes : j # i => work'[j] = work[j]
  BY <1>1, <1>m, WorkMoves
<1>5. ASSUME NEW i \in 1 .. Lanes, ProcessEvent(i)
      PROVE  NoticeRest'
  <2>1. PICK at \in {"check", "lookup", "idle"} :
          /\ WorkGoto(i, at) /\ work[i].at = "task"
          /\ at = "lookup" => work[i].event.type # "entry_fill"
          /\ UNCHANGED <<known, noticed>>
    BY <1>5 DEF ProcessEvent
  <2>2. /\ work[i].event \in Event /\ work'[i].at = at
        /\ at # "idle" => work'[i].event = work[i].event
        /\ \A j \in 1 .. Lanes : j # i => work'[j] = work[j]
    BY <1>m, <2>1
  <2>3. ToldIsKnown'
    BY <2>1, <2>2 DEF ToldIsKnown
  <2>4. SendingIsNew'
    BY <2>1, <2>2 DEF SendingIsNew
  <2> QED BY <2>1, <2>3, <2>4 DEF NoticeRest, NoticedOnce
\* No other worker holds an event of this one's lane.
<1>6. ASSUME NEW i \in 1 .. Lanes, NEW j \in 1 .. Lanes, work[i].at # "idle", work[j].at # "idle",
             work[j].event = work[i].event
      PROVE  j = i
  BY <1>6 DEF OwnLane
<1>7. ASSUME NEW i \in 1 .. Lanes, CheckNotified(i)
      PROVE  NoticeRest'
  <2> DEFINE e == work[i].event
  <2>1. PICK at \in {"idle", "lookup", "send"} :
          /\ WorkGoto(i, at) /\ work[i].at = "check"
          /\ at # "idle" => e \notin known
          /\ known' = IF e.type = "exit_fill" THEN known \cup {e} ELSE known
          /\ UNCHANGED noticed
    BY <1>7 DEF CheckNotified
  <2>2. /\ e \in Event /\ work'[i].at = at
        /\ at # "idle" => work'[i].event = e
        /\ \A j \in 1 .. Lanes : j # i => work'[j] = work[j]
    BY <1>m, <2>1
  <2>3. at # "idle" => noticed[e] = 0
    <3>1. ~\E j \in 1 .. Lanes : work[j].at = "mark" /\ work[j].event = e
      BY <1>6, <2>1
    <3> QED BY <1>1, <2>1, <2>2, <3>1 DEF ToldIsKnown
  <2>4. ToldIsKnown'
    BY <2>1, <2>2 DEF ToldIsKnown
  <2>5. SendingIsNew'
    <3>1. \A j \in 1 .. Lanes : j # i => /\ work'[j] = work[j] /\ known \subseteq known'
                                       /\ noticed'[work'[j].event] = noticed[work[j].event]
      BY <2>1, <2>2
    <3>2. at = "send" => e.type = "entry_fill" \/ e \in known'
      BY <2>1, <2>2 DEF Event
    <3>3. at # "idle" => noticed'[work'[i].event] = 0
      BY <2>1, <2>2, <2>3
    <3> QED BY <2>2, <3>1, <3>2, <3>3 DEF SendingIsNew
  <2> QED BY <2>1, <2>4, <2>5 DEF NoticeRest, NoticedOnce
<1>8. ASSUME NEW i \in 1 .. Lanes, LookupTrade(i)
      PROVE  NoticeRest'
  <2>1. PICK at \in {"idle", "check", "send"} :
          /\ WorkGoto(i, at) /\ work[i].at = "lookup"
          /\ at = "send" => work[i].event.type = "entry_fill"
          /\ UNCHANGED <<known, noticed>>
    BY <1>8 DEF LookupTrade
  <2>2. /\ work[i].event \in Event /\ work'[i].at = at
        /\ at # "idle" => work'[i].event = work[i].event
        /\ \A j \in 1 .. Lanes : j # i => work'[j] = work[j]
    BY <1>m, <2>1
  <2>3. ToldIsKnown'
    BY <2>1, <2>2 DEF ToldIsKnown
  <2>4. SendingIsNew'
    BY <2>1, <2>2 DEF SendingIsNew
  <2> QED BY <2>1, <2>3, <2>4 DEF NoticeRest, NoticedOnce
<1>9. ASSUME NEW i \in 1 .. Lanes, SendNotice(i)
      PROVE  NoticeRest'
  <2> DEFINE e == work[i].event
  <2>0. work[i].at = "send" /\ UNCHANGED known
    BY <1>9 DEF SendNotice
  <2>1. CASE WorkGoto(i, "idle") /\ UNCHANGED noticed
    BY <1>3, <2>0, <2>1 DEF WorkGoto, NoWork
  <2>2. CASE /\ noticed' = [noticed EXCEPT ![e] = IF @ < 2 THEN @ + 1 ELSE @]
             /\ WorkGoto(i, IF e.type = "entry_fill" THEN "mark" ELSE "idle")
    <3>1. PICK at \in {"idle", "mark"} :
            WorkGoto(i, at) /\ (at = "mark" <=> e.type = "entry_fill")
      BY <2>2
    <3>2. /\ e \in Event /\ work'[i].at = at
          /\ at # "idle" => work'[i].event = e
          /\ \A j \in 1 .. Lanes : j # i => work'[j] = work[j]
      BY <1>m, <2>0, <3>1
    <3>3. noticed[e] = 0 /\ noticed'[e] = 1
      BY <1>1, <2>0, <2>2, <3>2 DEF SendingIsNew
    <3>4. \A f \in Event : f # e => noticed'[f] = noticed[f]
      BY <1>1, <2>2
    <3>5. ToldIsKnown'
      <4>1. ASSUME NEW f \in Event, noticed'[f] > 0
            PROVE  f \in known' \/ \E j \in 1 .. Lanes : work'[j].at = "mark" /\ work'[j].event = f
        <5>1. CASE f = e /\ e.type = "entry_fill"
          BY <3>1, <3>2, <5>1
        <5>2. CASE f = e /\ e.type # "entry_fill"
          BY <2>0, <5>2 DEF SendingIsNew
        <5>3. CASE f # e
          <6>1. f \in known \/ \E j \in 1 .. Lanes : work[j].at = "mark" /\ work[j].event = f
            BY <3>4, <4>1, <5>3 DEF ToldIsKnown
          <6> QED BY <2>0, <3>2, <5>3, <6>1
        <5> QED BY <5>1, <5>2, <5>3
      <4> QED BY <4>1 DEF ToldIsKnown
    <3>6. SendingIsNew'
      <4>1. ASSUME NEW j \in 1 .. Lanes, work'[j].at = "send" \/ work'[j].at = "lookup"
            PROVE  j # i /\ work'[j] = work[j] /\ work[j].event # e
        BY <1>6, <2>0, <3>2, <4>1
      <4>2. \A j \in 1 .. Lanes : work[j].at # "idle" => work[j].event \in Event
        BY <1>1, WorkParts
      <4> QED BY <2>0, <3>4, <4>1, <4>2 DEF SendingIsNew
    <3>7. NoticedOnce'
      BY <3>3, <3>4 DEF NoticedOnce
    <3> QED BY <3>5, <3>6, <3>7 DEF NoticeRest
  <2> QED BY <1>9, <2>1, <2>2 DEF SendNotice
<1>10. ASSUME NEW i \in 1 .. Lanes, MarkOpenNotified(i)
       PROVE  NoticeRest'
  <2> DEFINE e == work[i].event
  <2>1. /\ WorkGoto(i, "idle") /\ work[i].at = "mark"
        /\ known' = known \cup {e} /\ UNCHANGED noticed
    BY <1>10 DEF MarkOpenNotified
  <2>2. /\ e \in Event /\ work'[i].at = "idle"
        /\ \A j \in 1 .. Lanes : j # i => work'[j] = work[j]
    BY <1>m, <2>1
  <2>3. ToldIsKnown'
    BY <2>1, <2>2 DEF ToldIsKnown
  <2>4. SendingIsNew'
    BY <2>1, <2>2 DEF SendingIsNew
  <2> QED BY <2>1, <2>3, <2>4 DEF NoticeRest, NoticedOnce
<1> QED BY <1>2, <1>4, <1>5, <1>7, <1>8, <1>9, <1>10
        DEF WebhookStep, LaneStep, HandleWebhook, DispatchTake, DispatchPut

\* However often a webhook arrives, it is told at most once.
THEOREM WebhookToldOnce == Spec => []NoticedOnce
<1>1. Init => TypeOK /\ PendingMatches /\ NoticeInv
  BY InitTaskInv, InitNoticeInv DEF TaskInv
<1>2. TypeOK /\ PendingMatches /\ NoticeInv /\ [Next]_vars => NoticeInv'
  <2> SUFFICES ASSUME TypeOK, PendingMatches, NoticeInv, [Next]_vars PROVE NoticeInv'
    OBVIOUS
  <2>1. CASE WebhookStep
    BY <2>1, OwnLaneSteps, NoticeSteps DEF NoticeInv, NoticeRest
  <2>2. ASSUME UNCHANGED webhooks PROVE NoticeInv'
    BY <2>2 DEF webhooks, NoticeInv, OwnLane, LaneOf, ToldIsKnown, SendingIsNew, NoticedOnce
  <2>3. CASE ControlStep \/ TaskStep
    BY <2>2, <2>3, ControlTypes, TaskTypes, TypeParts
  <2>4. CASE UNCHANGED vars
    BY <2>2, <2>4 DEF vars
  <2> QED BY <2>1, <2>3, <2>4, NextParts
<1>3. NoticeInv => NoticedOnce
  BY DEF NoticeInv
<1> QED BY <1>1, <1>2, <1>3, TypeSteps, PTL DEF Spec

-----------------------------------------------------------------------------
(* Requests to the schedule control one after another: a single caller.    *)

Wanted == StreamWanted(scheduled, mode, monitored)

\* The plan a request applies last is made from the state it left.
PlanIsCurrent(a) ==
  /\ stream => setup.priced
  /\ call[a].at = "idle" => stream = (setup.priced /\ Wanted)
  /\ call[a].at = "applyLast" => call[a].start = Wanted
  /\ call[a].at = "applyFirst" /\ call[a].kind \notin {"enable", "disable"} => call[a].start = Wanted

\* A disable has listed what it will watch before it watches it.  The watch is
\* cleared by an enable, while the schedule is on, and by a disable whose
\* listing shows a symbol without a runtime.
WatchesHeld(a) ==
  /\ call[a].at = "applyFirst" /\ call[a].kind = "enable" => scheduled
  /\ call[a].at = "clear" => scheduled \/ ~(listing \subseteq Loaded)
  /\ call[a].at = "monitor" => seen \subseteq listing /\ call[a].listed = listing
  /\ ~scheduled /\ listing \subseteq Loaded /\ call[a].at \notin {"list", "monitor"}
       /\ ~(call[a].at = "applyFirst" /\ call[a].kind = "disable")
       => seen \subseteq monitored

LEMMA CallerInit ==
  ASSUME NEW a \in Callers, Init
  PROVE  PlanIsCurrent(a) /\ WatchesHeld(a)
<1>1. stream = (setup.priced /\ Wanted) /\ setup.priced \in BOOLEAN
  BY Bounds DEF Init, StreamInit, Wanted
<1> QED BY <1>1 DEF Init, NoCall, PlanIsCurrent, WatchesHeld, Wanted

LEMMA CallerSteps ==
  ASSUME NEW a, Callers = {a}, TypeOK, PlanIsCurrent(a), WatchesHeld(a), ControlStep
  PROVE  PlanIsCurrent(a)' /\ WatchesHeld(a)'
<1> USE DEF PlanIsCurrent, WatchesHeld, Wanted, Loaded
<1>1. /\ call \in [Callers -> Call] /\ a \in Callers /\ call[a] \in Call
      /\ call[a].start \in BOOLEAN /\ setup.priced \in BOOLEAN /\ StreamTypeOK
  BY Bounds DEF TypeOK, Call
<1>b. ASSUME NEW kind, NEW start, Begin(a, kind, start)
      PROVE  /\ call[a].at = "idle" /\ call'[a].at = "applyFirst"
             /\ call'[a].kind = kind /\ call'[a].start = start
  BY <1>1, <1>b DEF Begin, NoCall
<1>s. ASSUME ApplyFirst(a) \/ ApplyLast(a)
      PROVE  stream' = (setup.priced /\ call[a].start) /\ UNCHANGED setup
  <2>1. CASE setup.priced
    <3>1. ApplyStreamTransition(call[a].start)
      BY <1>s, <2>1 DEF ApplyFirst, ApplyLast
    <3> QED BY <1>1, <1>s, <2>1, <3>1, StreamApplied DEF ApplyFirst, ApplyLast
  <2>2. CASE ~setup.priced
    BY <1>1, <1>s, <2>2 DEF ApplyFirst, ApplyLast, streamVars, StreamTypeOK
  <2> QED BY <2>1, <2>2
<1>2. ASSUME SetScheduledDecision(a, TRUE)
      PROVE  PlanIsCurrent(a)' /\ WatchesHeld(a)'
  <2>1. PICK start : Begin(a, "enable", start) /\ scheduled'
    BY <1>2 DEF SetScheduledDecision
  <2>2. UNCHANGED <<setup, stream>>
    BY <1>2 DEF SetScheduledDecision, streamVars
  <2> QED BY <1>b, <2>1, <2>2
<1>3. ASSUME SetScheduledDecision(a, FALSE)
      PROVE  PlanIsCurrent(a)' /\ WatchesHeld(a)'
  <2>1. PICK start : Begin(a, "disable", start)
    BY <1>3 DEF SetScheduledDecision
  <2>2. UNCHANGED <<setup, stream>>
    BY <1>3 DEF SetScheduledDecision, streamVars
  <2> QED BY <1>b, <2>1, <2>2
<1>4. ASSUME NEW s \in Symbols, NEW m \in {"trade", "off"}, SetSymbolMode(a, s, m)
      PROVE  PlanIsCurrent(a)' /\ WatchesHeld(a)'
  <2>1. PICK start : Begin(a, "mode", start) /\ start = Wanted'
    BY <1>4 DEF SetSymbolMode
  <2>2. UNCHANGED <<setup, scheduled, listing, seen, monitored, stream>>
    BY <1>4 DEF SetSymbolMode, streamVars
  <2> QED BY <1>b, <2>1, <2>2
<1>5. ASSUME ApplyFirst(a)
      PROVE  PlanIsCurrent(a)' /\ WatchesHeld(a)'
  <2>1. /\ call[a].at = "applyFirst" /\ stream' = (setup.priced /\ call[a].start)
        /\ UNCHANGED <<setup, scheduled, mode, monitored, listing, seen>>
    BY <1>5, <1>s DEF ApplyFirst
  <2>2. CASE call[a].kind = "enable"
    <3>1. call' = [call EXCEPT ![a].at = "clear"]
      BY <1>5, <2>2 DEF ApplyFirst, CallGoto
    <3>2. call'[a].at = "clear"
      BY <1>1, <3>1 DEF Call
    <3> QED BY <2>1, <2>2, <3>2
  <2>3. CASE call[a].kind = "disable"
    <3>1. call' = [call EXCEPT ![a].at = "list"]
      BY <1>5, <2>3 DEF ApplyFirst, CallGoto
    <3>2. call'[a].at = "list"
      BY <1>1, <3>1 DEF Call
    <3> QED BY <2>1, <2>3, <3>2
  <2>4. CASE call[a].kind \notin {"enable", "disable"}
    <3>1. call' = [call EXCEPT ![a].at = "idle"]
      BY <1>5, <2>4 DEF ApplyFirst, CallGoto
    <3>2. call'[a].at = "idle"
      BY <1>1, <3>1 DEF Call
    <3> QED BY <2>1, <2>4, <3>2
  <2> QED BY <2>2, <2>3, <2>4
<1>6. ASSUME ListPositions(a)
      PROVE  PlanIsCurrent(a)' /\ WatchesHeld(a)'
  <2>1. PICK listed : /\ call' = [call EXCEPT ![a].at = "monitor", ![a].listed = listed]
                      /\ listing' = listed /\ seen' = listed
    BY <1>6 DEF ListPositions
  <2>2. call'[a].at = "monitor" /\ call'[a].listed = listed /\ UNCHANGED <<setup, stream>>
    BY <1>1, <1>6, <2>1 DEF Call, ListPositions, streamVars
  <2> QED BY <2>1, <2>2
<1>7. ASSUME NEW symbols, Monitor(a, symbols),
             \/ call[a].at = "monitor" /\ symbols = call[a].listed
             \/ call[a].at = "clear"
      PROVE  PlanIsCurrent(a)' /\ WatchesHeld(a)'
  <2>1. /\ monitored' = symbols /\ call'[a].at = "applyLast"
        /\ call'[a].start = StreamWanted(scheduled, mode, symbols)
        /\ UNCHANGED <<setup, stream, scheduled, mode, listing, seen>>
    BY <1>1, <1>7 DEF Monitor, Call, streamVars
  <2> QED BY <1>7, <2>1
<1>8. ASSUME ApplyLast(a)
      PROVE  PlanIsCurrent(a)' /\ WatchesHeld(a)'
  <2>1. /\ call[a].at = "applyLast" /\ call'[a].at = "idle"
        /\ stream' = (setup.priced /\ call[a].start)
        /\ UNCHANGED <<setup, scheduled, mode, monitored, listing, seen>>
    BY <1>1, <1>8, <1>s DEF ApplyLast, NoCall
  <2> QED BY <2>1
<1>9. ASSUME NEW s \in Symbols, TradeOpens(s) \/ TradeCloses(s)
      PROVE  PlanIsCurrent(a)' /\ WatchesHeld(a)'
  <2>1. seen' \subseteq seen /\ UNCHANGED <<setup, scheduled, mode, monitored, listing, stream, call>>
    BY <1>9 DEF TradeOpens, TradeCloses, streamVars
  <2> QED BY <2>1
<1>10. ASSUME ReaderStep, UNCHANGED <<setup, schedule, tasks, webhooks>>
       PROVE  PlanIsCurrent(a)' /\ WatchesHeld(a)'
  <2>1. UNCHANGED <<setup, scheduled, mode, monitored, listing, seen, stream, call>>
    BY <1>1, <1>10, ReaderStepType DEF schedule
  <2> QED BY <2>1
<1>11. ASSUME SetMonitorSymbols(a), ~(call[a].listed \subseteq Loaded)
       PROVE  PlanIsCurrent(a)' /\ WatchesHeld(a)'
  <2>1. /\ call[a].at = "monitor" /\ call' = [call EXCEPT ![a].at = "clear"]
        /\ UNCHANGED <<setup, scheduled, mode, monitored, listing, seen, stream>>
    BY <1>11 DEF SetMonitorSymbols, CallGoto, streamVars
  <2>2. call'[a].at = "clear"
    BY <1>1, <2>1 DEF Call
  <2> QED BY <1>11, <2>1, <2>2
<1>12. ASSUME SetMonitorSymbols(a) \/ ClearMonitorSymbols(a)
       PROVE  PlanIsCurrent(a)' /\ WatchesHeld(a)'
  BY <1>7, <1>11, <1>12 DEF SetMonitorSymbols, ClearMonitorSymbols
<1> QED BY <1>1, <1>2, <1>3, <1>4, <1>5, <1>6, <1>8, <1>9, <1>10, <1>12
        DEF ControlStep, CallStep

LEMMA CallerStepsAll ==
  ASSUME NEW a, Callers = {a}
  PROVE  /\ Init => PlanIsCurrent(a) /\ WatchesHeld(a)
         /\ TypeOK /\ PendingMatches /\ PlanIsCurrent(a) /\ WatchesHeld(a) /\ [Next]_vars
              => PlanIsCurrent(a)' /\ WatchesHeld(a)'
<1>1. ASSUME TypeOK, PendingMatches, PlanIsCurrent(a), WatchesHeld(a), [Next]_vars
      PROVE  PlanIsCurrent(a)' /\ WatchesHeld(a)'
  <2>1. CASE ControlStep
    BY <1>1, <2>1, CallerSteps
  <2>2. ASSUME UNCHANGED <<setup, control>> PROVE PlanIsCurrent(a)' /\ WatchesHeld(a)'
    BY <1>1, <2>2 DEF control, schedule, streamVars, PlanIsCurrent, WatchesHeld, Wanted, Loaded
  <2>3. CASE TaskStep \/ WebhookStep
    BY <1>1, <2>2, <2>3, TaskTypes, WebhookTypes, TypeParts
  <2>4. CASE UNCHANGED vars
    BY <2>2, <2>4 DEF vars
  <2> QED BY <1>1, <2>1, <2>3, <2>4, NextParts
<1> QED BY <1>1, CallerInit

\* With one caller, the price stream runs between requests exactly when it is wanted.
THEOREM StreamFollowsRequests ==
  ASSUME NEW a, Callers = {a}
  PROVE  Spec => []StreamFollows
<1>1. Init => TypeOK /\ PendingMatches
  BY InitTaskInv DEF TaskInv
<1>2. PlanIsCurrent(a) => StreamFollows
  BY DEF PlanIsCurrent, StreamFollows, Quiet, Wanted
<1> QED BY <1>1, <1>2, TypeSteps, CallerStepsAll, PTL DEF Spec

\* With one caller, a disable leaves every trade it listed watched, if all the
\* symbols it listed have a runtime.
THEOREM DisableKeepsWatch ==
  ASSUME NEW a, Callers = {a}
  PROVE  Spec => []HeldIsMonitored
<1>1. Init => TypeOK /\ PendingMatches
  BY InitTaskInv DEF TaskInv
<1>2. WatchesHeld(a) => HeldIsMonitored
  BY DEF WatchesHeld, HeldIsMonitored, Quiet, ShouldEnqueuePeriodic
<1> QED BY <1>1, <1>2, TypeSteps, CallerStepsAll, PTL DEF Spec

-----------------------------------------------------------------------------
(* Readers of the price stream.                                            *)

\* Every reader but that of a running stream's last start was told to stop.
OldReadersStopped ==
  \A r \in readers : r.run <= runID /\ (r.run # runID \/ ~stream => r.stopped)

LEMMA OldReadersApplied ==
  ASSUME StreamTypeOK, OldReadersStopped, NEW start \in BOOLEAN, ApplyStreamTransition(start)
  PROVE  OldReadersStopped'
<1>1. readers \subseteq Reader /\ runID \in Nat /\ stream \in BOOLEAN
  BY DEF StreamTypeOK
<1>2. CASE start = stream
  BY <1>2 DEF ApplyStreamTransition, Start, Close, OldReadersStopped, streamVars
<1>3. CASE start /\ ~stream
  <2>1. stream' /\ runID' = runID + 1 /\ readers' = readers \cup {NewReader(runID + 1)}
    BY <1>3 DEF ApplyStreamTransition, Start
  <2>2. NewReader(runID + 1).run = runID + 1
    BY DEF NewReader
  <2>3. \A r \in readers : r.run \in Nat /\ r.run <= runID /\ r.stopped
    BY <1>1, <1>3 DEF OldReadersStopped, Reader
  <2> QED BY <1>1, <2>1, <2>2, <2>3 DEF OldReadersStopped
<1>4. CASE ~start /\ stream
  <2>1. /\ stream' = FALSE /\ UNCHANGED runID
        /\ readers' = {IF r.run = runID THEN [r EXCEPT !.stopped = TRUE] ELSE r : r \in readers}
    BY <1>4 DEF ApplyStreamTransition, Close
  <2>2. \A r \in readers :
          [r EXCEPT !.stopped = TRUE].stopped /\ [r EXCEPT !.stopped = TRUE].run = r.run
    BY <1>1 DEF Reader
  <2> QED BY <1>4, <2>1, <2>2 DEF OldReadersStopped
<1> QED BY <1>1, <1>2, <1>3, <1>4

LEMMA OldReadersGo ==
  ASSUME StreamTypeOK, OldReadersStopped, ReaderStep
  PROVE  OldReadersStopped'
<1>1. readers \subseteq Reader /\ UNCHANGED <<stream, runID>>
  BY ReaderStepType DEF StreamTypeOK
<1>2. PICK r \in readers : ReaderGoes(r) \/ LoseConnection(r)
  BY DEF ReaderStep
<1>3. \/ readers' = readers \ {r}
      \/ \E q : readers' = (readers \ {r}) \cup {q} /\ q.run = r.run /\ q.stopped = r.stopped
  <2>1. \A at : [r EXCEPT !.at = at].run = r.run /\ [r EXCEPT !.at = at].stopped = r.stopped
    BY <1>1 DEF Reader
  <2>2. \A value, last :
          LET q == [r EXCEPT !.at = "set", !.value = value, !.last = last]
          IN  q.run = r.run /\ q.stopped = r.stopped
    BY <1>1 DEF Reader
  <2>3. ASSUME NEW at, Goto(r, at) PROVE <1>3!2
    BY <2>1, <2>3 DEF Goto
  <2>4. ASSUME NEW value, NEW last, GotoSet(r, value, last) PROVE <1>3!2
    <3> DEFINE q == [r EXCEPT !.at = "set", !.value = value, !.last = last]
    <3>1. q.run = r.run /\ q.stopped = r.stopped
      BY <2>2
    <3>2. readers' = (readers \ {r}) \cup {q}
      BY <2>4 DEF GotoSet
    <3> HIDE DEF q
    <3> QED BY <3>1, <3>2
  <2>5. ASSUME AfterSet(r) PROVE readers' = readers \ {r} \/ <1>3!2
    BY <2>3, <2>5 DEF AfterSet, Return
  <2>6. \/ AfterSet(r)
        \/ Return(r)
        \/ \E at : Goto(r, at)
        \/ \E value, last : GotoSet(r, value, last)
    BY <1>2 DEF ReaderGoes, CheckRunning, Serve, CompareRun, StoreConnected, HearStop,
                LoseConnection, WaitRetry
  <2> QED BY <2>3, <2>4, <2>5, <2>6 DEF Return
<1> QED BY <1>1, <1>3 DEF OldReadersStopped

\* No reader keeps a connection that nobody can close any more.
THEOREM OldReadersAreStopped == Spec => []OldReadersStopped
<1>1. Init => TypeOK /\ PendingMatches /\ OldReadersStopped
  <2>1. ASSUME Init PROVE OldReadersStopped
    <3>1. runID \in {0, 1} /\ (runID = 1 => stream)
      <4>1. stream \in BOOLEAN /\ runID = IF stream THEN 1 ELSE 0
        BY <2>1, InitTaskInv DEF Init, StreamInit, TaskInv, TypeOK, StreamTypeOK
      <4> QED BY <4>1
    <3>2. \A r \in readers : r.run \in 1 .. runID
      BY <2>1 DEF Init, StreamInit, NewReader
    <3> QED BY <3>1, <3>2 DEF OldReadersStopped
  <2> QED BY <2>1, InitTaskInv DEF TaskInv
<1>2. TypeOK /\ PendingMatches /\ OldReadersStopped /\ [Next]_vars => OldReadersStopped'
  <2> SUFFICES ASSUME TypeOK, PendingMatches, OldReadersStopped, [Next]_vars PROVE OldReadersStopped'
    OBVIOUS
  <2>1. StreamTypeOK /\ \A a \in Callers : call[a].start \in BOOLEAN
    BY DEF TypeOK, Call
  <2>2. ASSUME UNCHANGED streamVars PROVE OldReadersStopped'
    BY <2>2 DEF OldReadersStopped, streamVars
  <2>3. CASE ControlStep
    <3>1. \/ UNCHANGED streamVars
          \/ ReaderStep
          \/ \E a \in Callers : ApplyStreamTransition(call[a].start)
      BY <2>3 DEF ControlStep, CallStep, SetScheduledDecision, SetSymbolMode, ApplyFirst,
                  ListPositions, SetMonitorSymbols, ClearMonitorSymbols, Monitor, ApplyLast,
                  TradeOpens, TradeCloses
    <3> QED BY <2>1, <2>2, <3>1, OldReadersApplied, OldReadersGo
  <2>4. CASE TaskStep \/ WebhookStep
    BY <2>2, <2>4, TaskTypes, WebhookTypes, TypeParts DEF control
  <2>5. CASE UNCHANGED vars
    BY <2>2, <2>5 DEF vars, control
  <2> QED BY <2>3, <2>4, <2>5, NextParts
<1> QED BY <1>1, <1>2, TypeSteps, PTL DEF Spec
=============================================================================
