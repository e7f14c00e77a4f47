-------------------------- MODULE CloseFlow_proofs --------------------------
(***************************************************************************)
(* Proofs about CloseFlow, for every set of overlapping jobs, every        *)
(* quantity, every timeout and every choice of faults.                     *)
(***************************************************************************)
EXTENDS CloseFlow, TLAPS

-----------------------------------------------------------------------------
(* Type correctness.                                                       *)

LEMMA PatchType ==
  ASSUME TypeOK, NEW a, NEW new \in Row, NEW keeps \in BOOLEAN,
         Patch(a, new, keeps)
  PROVE  row' \in Row /\ fresh' \in [Actors -> BOOLEAN]
<1>1. 0 \in Age
  BY BoundsAssumption DEF Age
<1>2. CASE fresh[a]
  BY <1>1, <1>2 DEF Patch, TypeOK, Row
<1>3. CASE ~fresh[a]
  BY <1>3 DEF Patch, TypeOK
<1> QED BY <1>2, <1>3

LEMMA IdleTypes ==
  /\ IdleCloser \in Closer
  /\ \A at \in ObserverAt : Observing(at) \in Observer
  /\ IdleObserver \in Observer
BY BoundsAssumption DEF IdleCloser, Closer, CloserAt, Observing, IdleObserver, Observer,
     ObserverAt, Status, CloseStatus, Qty, Stamp, NotSubmitted, Age, Hits

LEMMA AgedTypes ==
  /\ \A r \in Row : Aged(r) \in Row
  /\ \A o \in Observer : Aged(o) \in Observer
<1>1. \A x \in Age : Older(x) \in Age
  BY BoundsAssumption DEF Age, Older
<1> QED BY <1>1 DEF Aged, Row, Observer, Stamp, NotSubmitted

LEMMA InitTypes == Init => TypeOK
<1> SUFFICES ASSUME Init PROVE TypeOK
  OBVIOUS
<1>1. row \in Row /\ trade \in Qty
  BY BoundsAssumption DEF Init, Row, Status, Qty, Stamp, Age, Hits
<1>2. tightens \in 0 .. MaxTightens
  BY BoundsAssumption DEF Init
<1>n. notified \in BOOLEAN
  BY DEF Init
<1>3. tpOrders \in [Level -> 0 .. 2] /\ fresh \in [Actors -> BOOLEAN]
  BY DEF Init
<1>4. closer \in [Closers -> Closer] /\ observer \in [Observers -> Observer]
  BY IdleTypes DEF Init
<1> QED BY <1>1, <1>2, <1>n, <1>3, <1>4 DEF TypeOK

LEMMA NextTypes == TypeOK /\ [Next]_vars => TypeOK'
<1> SUFFICES ASSUME TypeOK, [Next]_vars PROVE TypeOK'
  OBVIOUS
<1> USE DEF TypeOK
<1>a. /\ Boot \in Observers /\ Reconciles \subseteq Observers
      /\ Observers \subseteq Actors /\ Closers \subseteq Actors
      /\ RiskRuns \subseteq Closers /\ DecideRuns \subseteq Closers
  BY DEF Observers, Actors, Closers
<1>b. /\ 0 \in Age /\ 0 \in Stamp /\ NotSubmitted \in Stamp
      /\ CloseStatus \subseteq Status
      /\ "CLOSED" \in Status /\ "OPEN_ACTIVE" \in Status
      /\ \A s \in {"CLOSE_ARMED", "CLOSE_SUBMITTING", "CLOSE_PENDING"} : s \in Status
  BY BoundsAssumption DEF Age, Stamp, Status, CloseStatus
<1>risk. ASSUME NEW c \in RiskRuns, RiskStep(c) PROVE TypeOK'
  <2>1. CASE RiskList(c)
    BY <1>a, <2>1, BoundsAssumption DEF RiskList, Reads, Closer, CloserAt, Row, Hits
  <2>2. CASE RiskStop(c)
    BY <1>a, <2>2 DEF RiskStop, CloserGoto, Closer, CloserAt
  <2>3. CASE RiskTakeProfit(c)
    BY <1>a, <2>3, BoundsAssumption DEF RiskTakeProfit, Forgets, Closer, CloserAt, Hits
  <2>4. CASE RiskReload(c)
    <3>1. \A h \in Hits, s \in Status :
            [closer[c] EXCEPT !.at = "latch", !.status = s, !.hits = h] \in Closer
      BY <1>a DEF Closer, CloserAt
    <3>2. [closer[c] EXCEPT !.at = "latch"] \in Closer
      BY <1>a DEF Closer, CloserAt
    <3>3. row.status \in Status /\ row.hits \in Hits
      BY DEF Row
    <3>4. \/ closer' = [closer EXCEPT ![c] =
                [closer[c] EXCEPT !.at = "latch", !.status = row.status, !.hits = row.hits]]
          \/ closer' = [closer EXCEPT ![c] = [closer[c] EXCEPT !.at = "latch"]]
      BY <1>a, <2>4 DEF RiskReload, CloserGoto
    <3>5. closer' \in [Closers -> Closer]
      BY <1>a, <3>1, <3>2, <3>3, <3>4
    <3>6. fresh' \in [Actors -> BOOLEAN]
      BY <1>a, <2>4 DEF RiskReload, Reads
    <3> QED BY <2>4, <3>5, <3>6 DEF RiskReload
  <2> QED BY <1>risk, <2>1, <2>2, <2>3, <2>4 DEF RiskStep
<1>decide. ASSUME NEW c \in DecideRuns, DecideStep(c) PROVE TypeOK'
  <2>1. CASE DecideExit(c)
    BY <1>a, <2>1, BoundsAssumption DEF DecideExit, Reads, Closer, CloserAt, Row, Hits
  <2>2. CASE DecideTighten(c)
    BY <1>a, <2>2, BoundsAssumption DEF DecideTighten, Closer, CloserAt, Row, Hits
  <2> QED BY <1>decide, <2>1, <2>2 DEF DecideStep
<1>close. ASSUME NEW c \in Closers, CloseStep(c) PROVE TypeOK'
  <2>1. CASE PlanFind(c)
    BY <1>a, <2>1 DEF PlanFind, Reads, CloserGoto, Closer, CloserAt
  <2>2. CASE PlanWrite(c)
    <3>1. [row EXCEPT !.hits = closer[c].hits] \in Row
      BY DEF Row, Closer
    <3>2. row' \in Row /\ fresh' \in [Actors -> BOOLEAN]
      BY <2>2, <3>1, PatchType DEF PlanWrite
    <3>3. closer' \in [Closers -> Closer]
      BY <2>2, IdleTypes DEF PlanWrite, CloserGoto, CloserEnds, Closer, CloserAt
    <3> QED BY <2>2, <3>2, <3>3 DEF PlanWrite
  <2>3. CASE LatchClose(c)
    <3>1. [row EXCEPT !.status = "CLOSE_ARMED", !.submitted = NotSubmitted] \in Row
      BY <1>b DEF Row
    <3>2. row' \in Row /\ fresh' \in [Actors -> BOOLEAN]
      BY <2>3, <3>1, PatchType DEF LatchClose
    <3>3. closer' \in [Closers -> Closer]
      BY <2>3, IdleTypes DEF LatchClose, Closer, CloserAt
    <3> QED BY <2>3, <3>2, <3>3 DEF LatchClose
  <2>4. CASE MarkCloseSubmitting(c)
    <3>1. [row EXCEPT !.status = "CLOSE_SUBMITTING", !.submitted = 0] \in Row
      BY <1>b DEF Row
    <3>2. row' \in Row /\ fresh' \in [Actors -> BOOLEAN]
      BY <2>4, <3>1, PatchType DEF MarkCloseSubmitting
    <3>3. closer' \in [Closers -> Closer]
      BY <2>4, IdleTypes DEF MarkCloseSubmitting, CloserGoto, CloserEnds, Closer, CloserAt
    <3> QED BY <2>4, <3>2, <3>3 DEF MarkCloseSubmitting
  <2>5. CASE PlaceOrder(c)
    <3>1. tpOrders' \in [Level -> 0 .. 2]
      BY <2>5 DEF PlaceOrder
    <3>2. closer' \in [Closers -> Closer]
      BY <1>a, <2>5, IdleTypes DEF PlaceOrder, CloserGoto, CloserEnds, Closer, CloserAt
    <3>3. fresh' \in [Actors -> BOOLEAN]
      BY <1>a, <2>5 DEF PlaceOrder, Forgets
    <3> QED BY <2>5, <3>1, <3>2, <3>3 DEF PlaceOrder
  <2>6. CASE MarkClosePending(c)
    <3>1. [row EXCEPT !.status = "CLOSE_PENDING"] \in Row
      BY <1>b DEF Row
    <3>2. row' \in Row /\ fresh' \in [Actors -> BOOLEAN]
      BY <2>6, <3>1, PatchType DEF MarkClosePending
    <3> QED BY <2>6, <3>2, IdleTypes DEF MarkClosePending, CloserEnds
  <2>7. CASE CloserStops(c)
    BY <1>a, <2>7, IdleTypes DEF CloserStops, CloserEnds, Forgets
  <2> QED BY <1>close, <2>1, <2>2, <2>3, <2>4, <2>5, <2>6, <2>7 DEF CloseStep
<1>listing. \A q \in Listing : q \in Qty
  BY BoundsAssumption DEF Listing, Qty
<1>listed. \A at \in ObserverAt : Listed(at) \in Observer
  BY BoundsAssumption DEF Listed, Observer, Row, Qty
<1>reconcile. ASSUME NEW o \in Reconciles, ReconcileStep(o) PROVE TypeOK'
  <2>1. CASE ReconcileList(o)
    <3>1. observer' \in [Observers -> Observer]
      BY <1>a, <2>1, <1>listed DEF ReconcileList, ObserverAt
    <3> QED BY <1>a, <2>1, <3>1 DEF ReconcileList, Reads
  <2>2. CASE ReconcileFetch(o)
    <3>1. PICK q \in Listing : observer' = [observer EXCEPT ![o] =
            IF Meaningful(observer[o].status, q)
              THEN [@ EXCEPT !.at = "present", !.ext = q]
              ELSE [Observing("recheck") EXCEPT !.status = observer[o].status]]
      BY <2>2 DEF ReconcileFetch
    <3>2. [observer[o] EXCEPT !.at = "present", !.ext = q] \in Observer
      BY <1>a, <1>listing DEF Observer, ObserverAt
    <3>3. [Observing("recheck") EXCEPT !.status = observer[o].status] \in Observer
      <4>1. Observing("recheck") \in Observer
        BY IdleTypes DEF ObserverAt
      <4> QED BY <1>a, <4>1 DEF Observer
    <3>4. observer' \in [Observers -> Observer]
      BY <1>a, <3>1, <3>2, <3>3
    <3> QED BY <2>2, <3>4 DEF ReconcileFetch
  <2>3. CASE HandleExternalPresent(o)
    <3>1. NextStatus(observer[o]) \in Status
      BY <1>a, <1>b DEF NextStatus, Observer
    <3>2. \A x \in {NotSubmitted, row.submitted} :
            [row EXCEPT !.status = NextStatus(observer[o]), !.qty = observer[o].ext,
                        !.submitted = x] \in Row
      BY <1>a, <1>b, <3>1 DEF Row, Observer
    <3>3. row' \in Row /\ fresh' \in [Actors -> BOOLEAN]
      BY <2>3, <3>2, PatchType DEF HandleExternalPresent
    <3> QED BY <2>3, <3>3, IdleTypes DEF HandleExternalPresent, ObserverEnds
  <2>4. CASE RecheckExternalPosition(o)
    BY <2>4, IdleTypes DEF RecheckExternalPosition, ObserverAt
  <2>5. CASE FinalizeExternalMissing(o)
    <3>1. [row EXCEPT !.status = "CLOSED", !.submitted = NotSubmitted] \in Row
      BY <1>b DEF Row
    <3>2. row' \in Row /\ fresh' \in [Actors -> BOOLEAN]
      BY <2>5, <3>1, PatchType DEF FinalizeExternalMissing
    <3> QED BY <2>5, <3>2, IdleTypes DEF FinalizeExternalMissing, ObserverAt
  <2>6. CASE SendCloseSummary(o)
    BY <2>6, IdleTypes DEF SendCloseSummary, ObserverEnds
  <2>7. CASE ReconcileStops(o)
    BY <1>a, <2>7, IdleTypes DEF ReconcileStops, ObserverEnds, Forgets
  <2> QED BY <1>reconcile, <2>1, <2>2, <2>3, <2>4, <2>5, <2>6, <2>7 DEF ReconcileStep
<1>crash. CASE Crash
  BY <1>crash, IdleTypes DEF Crash, ObserverAt
<1>recoverlist. CASE RecoverList
  <2>1. CASE row.status = "CLOSED"
    BY <1>recoverlist, <2>1, IdleTypes DEF RecoverList, ObserverEnds
  <2>2. CASE row.status # "CLOSED"
    <3>1. PICK q \in Listing :
            observer' = [observer EXCEPT ![Boot] = [Listed("recover") EXCEPT !.ext = q]]
      BY <1>recoverlist, <2>2 DEF RecoverList
    <3>2. [Listed("recover") EXCEPT !.ext = q] \in Observer
      <4>1. Listed("recover") \in Observer
        BY <1>listed DEF ObserverAt
      <4> QED BY <4>1, <1>listing DEF Observer
    <3>3. observer' \in [Observers -> Observer]
      BY <1>a, <3>1, <3>2
    <3> QED BY <1>a, <1>recoverlist, <2>2, <3>3 DEF RecoverList, Reads
  <2> QED BY <2>1, <2>2
<1>recover. CASE Recover
  <2>1. /\ [row EXCEPT !.status = "OPEN_ACTIVE", !.qty = observer[Boot].ext] \in Row
        /\ [row EXCEPT !.status = "CLOSED", !.submitted = NotSubmitted] \in Row
    BY <1>a, <1>b DEF Row, Observer
  <2>2. row' \in Row /\ fresh' \in [Actors -> BOOLEAN]
    BY <1>recover, <2>1, PatchType DEF Recover
  <2> QED BY <1>recover, <2>2, IdleTypes DEF Recover, ObserverEnds
<1>shrink. CASE TradeShrinks
  BY <1>shrink, BoundsAssumption DEF TradeShrinks, Qty
<1>tick. CASE Tick
  BY <1>tick, AgedTypes DEF Tick
<1>stutter. CASE UNCHANGED vars
  BY <1>stutter DEF vars
<1> QED
  BY <1>risk, <1>decide, <1>close, <1>reconcile, <1>crash, <1>recoverlist, <1>recover,
     <1>shrink, <1>tick, <1>stutter DEF Next

\* Every variable keeps its type, whatever overlaps and fails.
THEOREM TypeCorrect == Spec => []TypeOK
BY InitTypes, NextTypes, PTL DEF Spec


-----------------------------------------------------------------------------
(* The close latch.  A record that is fresh describes the row: that is what *)
(* makes a conditional patch a test of the status the job read.            *)

\* close_submitted_at is there as soon as the row says submitting.
RowInv == row.status \in {"CLOSE_SUBMITTING", "CLOSE_PENDING"} => row.submitted # NotSubmitted

CloserInv ==
  \A c \in Closers : fresh[c] =>
    /\ closer[c].at # "reload"
    /\ closer[c].at \in {"evaluate", "latch"} => closer[c].status = row.status
    /\ closer[c].at = "submitting" => row.status = "CLOSE_ARMED"
    /\ closer[c].at \in {"place", "pending"} => row.status = "CLOSE_SUBMITTING"

ObserverInv ==
  \A o \in Observers : fresh[o] =>
    /\ observer[o].at \in {"fetch", "present"} =>
         /\ observer[o].status = row.status
         /\ observer[o].qty = row.qty
         /\ observer[o].submitted = row.submitted
    /\ observer[o].at = "recover" => row.status # "CLOSED"

LatchOnce == \A c, d \in Closers : Holds(c) /\ Holds(d) => c = d

IInv == RowInv /\ CloserInv /\ ObserverInv /\ LatchOnce

LEMMA InitIInv == Init => IInv
BY DEF Init, IInv, RowInv, CloserInv, ObserverInv, LatchOnce, Holds, Closers, Observers,
       Actors, IdleCloser, IdleObserver, Observing

LEMMA NextIInv == TypeOK /\ IInv /\ [Next]_vars => IInv'
<1> SUFFICES ASSUME TypeOK, IInv, [Next]_vars PROVE IInv'
  OBVIOUS
<1> USE DEF IInv
<1>a. /\ Boot \in Observers /\ Reconciles \subseteq Observers
      /\ Observers \subseteq Actors /\ Closers \subseteq Actors
      /\ RiskRuns \subseteq Closers /\ DecideRuns \subseteq Closers
      /\ \A c \in Closers, o \in Observers : c # o
  BY ActorsAssumption DEF Observers, Actors, Closers
<1>t. /\ fresh \in [Actors -> BOOLEAN] /\ closer \in [Closers -> Closer]
      /\ observer \in [Observers -> Observer] /\ row \in Row
  BY DEF TypeOK
<1>risk. ASSUME NEW c \in RiskRuns, RiskStep(c) PROVE IInv'
  <2>1. CASE RiskList(c)
    BY <1>a, <1>t, <2>1 DEF RiskList, Reads, RowInv, CloserInv, ObserverInv, LatchOnce, Holds
  <2>2. CASE RiskStop(c)
    BY <1>a, <1>t, <2>2 DEF RiskStop, CloserGoto, RowInv, CloserInv, ObserverInv, LatchOnce,
         Holds, Closer
  <2>3. CASE RiskTakeProfit(c)
    BY <1>a, <1>t, <2>3 DEF RiskTakeProfit, Forgets, RowInv, CloserInv, ObserverInv,
         LatchOnce, Holds, Closer
  <2>4. CASE RiskReload(c)
    <3>1. \A d \in Closers : d # c => closer'[d] = closer[d] /\ fresh'[d] = fresh[d]
      BY <1>a, <1>t, <2>4 DEF RiskReload, Reads, CloserGoto
    <3>2. \A o \in Observers : fresh'[o] = fresh[o]
      BY <1>a, <1>t, <2>4 DEF RiskReload, Reads
    <3>3. closer'[c].at = "latch"
      BY <1>a, <1>t, <2>4 DEF RiskReload, CloserGoto, Closer
    <3>4. ~fresh[c] /\ row' = row /\ observer' = observer
      BY <1>a, <2>4 DEF RiskReload, CloserInv
    <3>5. fresh'[c] => closer'[c].status = row.status
      BY <1>a, <1>t, <2>4, <3>4 DEF RiskReload, Closer
    <3> QED BY <1>a, <3>1, <3>2, <3>3, <3>4, <3>5 DEF RowInv, CloserInv, ObserverInv,
              LatchOnce, Holds
  <2> QED BY <1>risk, <2>1, <2>2, <2>3, <2>4 DEF RiskStep
<1>decide. ASSUME NEW c \in DecideRuns, DecideStep(c) PROVE IInv'
  <2>1. CASE DecideExit(c)
    BY <1>a, <1>t, <2>1 DEF DecideExit, Reads, RowInv, CloserInv, ObserverInv, LatchOnce, Holds
  <2>2. CASE DecideTighten(c)
    BY <1>a, <1>t, <2>2 DEF DecideTighten, RowInv, CloserInv, ObserverInv, LatchOnce, Holds
  <2> QED BY <1>decide, <2>1, <2>2 DEF DecideStep
<1>close. ASSUME NEW c \in Closers, CloseStep(c) PROVE IInv'
  <2>1. CASE PlanFind(c)
    BY <1>a, <1>t, <2>1 DEF PlanFind, Reads, CloserGoto, RowInv, CloserInv, ObserverInv,
         LatchOnce, Holds, Closer
  <2>2. CASE PlanWrite(c)
    <3>1. CASE fresh[c]
      <4>1. \A b \in Actors : ~fresh'[b]
        BY <1>a, <2>2, <3>1 DEF PlanWrite, Patch
      <4>2. row'.status = row.status /\ row'.submitted = row.submitted
        BY <1>t, <2>2, <3>1 DEF PlanWrite, Patch, Row
      <4>3. RowInv'
        BY <4>2 DEF RowInv
      <4>4. CloserInv' /\ ObserverInv' /\ LatchOnce'
        BY <1>a, <4>1 DEF CloserInv, ObserverInv, LatchOnce, Holds
      <4> QED BY <4>3, <4>4
    <3>2. CASE ~fresh[c]
      BY <1>a, <1>t, <2>2, <3>2 DEF PlanWrite, Patch, CloserEnds, RowInv,
           CloserInv, ObserverInv, LatchOnce, Holds, IdleCloser
    <3> QED BY <3>1, <3>2
  <2>3. CASE LatchClose(c)
    <3>1. CASE fresh[c]
      <4>1. \A b \in Actors : fresh'[b] => b = c
        BY <1>a, <2>3, <3>1 DEF LatchClose, Patch
      <4>2. row'.status = "CLOSE_ARMED"
        BY <1>t, <2>3, <3>1 DEF LatchClose, Patch, Row
      <4>3. closer'[c].at = "submitting"
        BY <1>t, <2>3, <3>1 DEF LatchClose, IdleCloser
      <4> QED BY <1>a, <4>1, <4>2, <4>3 DEF RowInv, CloserInv, ObserverInv, LatchOnce, Holds
    <3>2. CASE ~fresh[c]
      BY <1>a, <1>t, <2>3, <3>2 DEF LatchClose, Patch, RowInv, CloserInv, ObserverInv,
           LatchOnce, Holds, IdleCloser
    <3> QED BY <3>1, <3>2
  <2>4. CASE MarkCloseSubmitting(c)
    <3>1. CASE fresh[c]
      <4>1. \A b \in Actors : fresh'[b] => b = c
        BY <1>a, <2>4, <3>1 DEF MarkCloseSubmitting, Patch
      <4>2. row'.status = "CLOSE_SUBMITTING" /\ row'.submitted = 0
        BY <1>t, <2>4, <3>1 DEF MarkCloseSubmitting, Patch, Row
      <4>3. closer'[c].at = "place"
        BY <1>t, <2>4, <3>1 DEF MarkCloseSubmitting, CloserGoto, Closer
      <4> QED BY <1>a, <4>1, <4>2, <4>3 DEF RowInv, CloserInv, ObserverInv, LatchOnce, Holds,
                NotSubmitted
    <3>2. CASE ~fresh[c]
      BY <1>a, <1>t, <2>4, <3>2 DEF MarkCloseSubmitting, Patch, CloserEnds, RowInv, CloserInv,
           ObserverInv, LatchOnce, Holds, IdleCloser
    <3> QED BY <3>1, <3>2
  <2>5. CASE PlaceOrder(c)
    <3>1. CASE closer' = [closer EXCEPT ![c].at = "pending"] /\ fresh' = fresh
      BY <1>a, <1>t, <2>5, <3>1 DEF PlaceOrder, RowInv, CloserInv, ObserverInv, LatchOnce,
           Holds, Closer
    <3>2. CASE closer' = [closer EXCEPT ![c] = IdleCloser] /\ fresh' = [fresh EXCEPT ![c] = FALSE]
      BY <1>a, <1>t, <2>5, <3>2 DEF PlaceOrder, RowInv, CloserInv, ObserverInv, LatchOnce,
           Holds, IdleCloser
    <3> QED BY <2>5, <3>1, <3>2 DEF PlaceOrder, CloserGoto, CloserEnds, Forgets
  <2>6. CASE MarkClosePending(c)
    <3>1. CASE fresh[c]
      BY <1>a, <1>t, <2>6, <3>1 DEF MarkClosePending, Patch, CloserEnds, RowInv, CloserInv,
           ObserverInv, LatchOnce, Holds, Row
    <3>2. CASE ~fresh[c]
      BY <1>a, <1>t, <2>6, <3>2 DEF MarkClosePending, Patch, CloserEnds, RowInv, CloserInv,
           ObserverInv, LatchOnce, Holds, IdleCloser
    <3> QED BY <3>1, <3>2
  <2>7. CASE CloserStops(c)
    BY <1>a, <1>t, <2>7 DEF CloserStops, CloserEnds, Forgets, RowInv, CloserInv, ObserverInv,
         LatchOnce, Holds, IdleCloser
  <2> QED BY <1>close, <2>1, <2>2, <2>3, <2>4, <2>5, <2>6, <2>7 DEF CloseStep
<1>reconcile. ASSUME NEW o \in Reconciles, ReconcileStep(o) PROVE IInv'
  <2>1. CASE ReconcileList(o)
    BY <1>a, <1>t, <2>1 DEF ReconcileList, Listed, Reads, RowInv, CloserInv, ObserverInv,
         LatchOnce, Holds
  <2>2. CASE ReconcileFetch(o)
    <3>1. PICK q \in Listing : observer' = [observer EXCEPT ![o] =
            IF Meaningful(observer[o].status, q)
              THEN [@ EXCEPT !.at = "present", !.ext = q]
              ELSE [Observing("recheck") EXCEPT !.status = observer[o].status]]
      BY <2>2 DEF ReconcileFetch
    <3>2. ObserverInv'
      BY <1>a, <1>t, <2>2, <3>1 DEF ReconcileFetch, ObserverInv, Observing, Observer
    <3> QED BY <2>2, <3>2 DEF ReconcileFetch, RowInv, CloserInv, LatchOnce, Holds
  <2>3. CASE HandleExternalPresent(o)
    <3>1. CASE fresh[o]
      <4>1. \A a \in Actors : ~fresh'[a]
        BY <1>a, <2>3, <3>1 DEF HandleExternalPresent, Patch
      <4>2. RowInv'
        <5>1. observer[o].status = row.status
          BY <1>a, <2>3, <3>1 DEF HandleExternalPresent, ObserverInv
        <5>2. row'.status = NextStatus(observer[o])
          BY <1>t, <2>3, <3>1 DEF HandleExternalPresent, Patch, Row
        <5>3. row'.status # "OPEN_ACTIVE" => row'.status = row.status /\ row'.submitted = row.submitted
          BY <1>t, <2>3, <3>1, <5>1, <5>2 DEF HandleExternalPresent, Patch, NextStatus, Row
        <5> QED BY <5>3 DEF RowInv
      <4> QED BY <1>a, <4>1, <4>2 DEF CloserInv, ObserverInv, LatchOnce, Holds
    <3>2. CASE ~fresh[o]
      BY <1>a, <1>t, <2>3, <3>2 DEF HandleExternalPresent, Patch, ObserverEnds, RowInv,
           CloserInv, ObserverInv, LatchOnce, Holds
    <3> QED BY <3>1, <3>2
  <2>4. CASE RecheckExternalPosition(o)
    BY <1>a, <1>t, <2>4 DEF RecheckExternalPosition, Observing, RowInv, CloserInv,
         ObserverInv, LatchOnce, Holds
  <2>5. CASE FinalizeExternalMissing(o)
    <3>1. CASE fresh[o]
      BY <1>a, <1>t, <2>5, <3>1 DEF FinalizeExternalMissing, Patch, RowInv, CloserInv,
           ObserverInv, LatchOnce, Holds, Row
    <3>2. CASE ~fresh[o]
      BY <1>a, <1>t, <2>5, <3>2 DEF FinalizeExternalMissing, Patch, RowInv, CloserInv,
           ObserverInv, LatchOnce, Holds
    <3> QED BY <3>1, <3>2
  <2>6. CASE SendCloseSummary(o)
    BY <1>a, <1>t, <2>6 DEF SendCloseSummary, ObserverEnds, IdleObserver, Observing, RowInv,
         CloserInv, ObserverInv, LatchOnce, Holds
  <2>7. CASE ReconcileStops(o)
    BY <1>a, <1>t, <2>7 DEF ReconcileStops, ObserverEnds, Forgets, RowInv, CloserInv,
         ObserverInv, LatchOnce, Holds
  <2> QED BY <1>reconcile, <2>1, <2>2, <2>3, <2>4, <2>5, <2>6, <2>7 DEF ReconcileStep
<1>crash. CASE Crash
  BY <1>a, <1>crash DEF Crash, RowInv, CloserInv, ObserverInv, LatchOnce, Holds
<1>recoverlist. CASE RecoverList
  <2>1. CASE row.status = "CLOSED"
    BY <1>a, <1>t, <1>recoverlist, <2>1 DEF RecoverList, ObserverEnds, IdleObserver,
         Observing, RowInv, CloserInv, ObserverInv, LatchOnce, Holds
  <2>2. CASE row.status # "CLOSED"
    <3>1. PICK q \in Listing :
            observer' = [observer EXCEPT ![Boot] = [Listed("recover") EXCEPT !.ext = q]]
      BY <1>recoverlist, <2>2 DEF RecoverList
    <3>2. ObserverInv'
      BY <1>a, <1>t, <1>recoverlist, <2>2, <3>1 DEF RecoverList, Listed, Reads, ObserverInv
    <3> QED BY <1>a, <1>t, <1>recoverlist, <2>2, <3>2 DEF RecoverList, Reads, RowInv,
              CloserInv, LatchOnce, Holds
  <2> QED BY <2>1, <2>2
<1>recover. CASE Recover
  <2>1. CASE fresh[Boot]
    <3>1. \A a \in Actors : ~fresh'[a]
      BY <1>a, <1>recover, <2>1 DEF Recover, Patch
    <3>2. RowInv'
      BY <1>a, <1>t, <1>recover, <2>1 DEF Recover, Patch, RowInv, Row
    <3> QED BY <1>a, <3>1, <3>2 DEF CloserInv, ObserverInv, LatchOnce, Holds
  <2>2. CASE ~fresh[Boot]
    BY <1>a, <1>t, <1>recover, <2>2 DEF Recover, Patch, ObserverEnds, RowInv, CloserInv,
         ObserverInv, LatchOnce, Holds
  <2> QED BY <2>1, <2>2
<1>shrink. CASE TradeShrinks
  BY <1>shrink DEF TradeShrinks, RowInv, CloserInv, ObserverInv, LatchOnce, Holds
<1>tick. CASE Tick
  <2>1. /\ row'.status = row.status /\ row'.qty = row.qty
        /\ row'.submitted = IF row.submitted = NotSubmitted THEN row.submitted
                                                            ELSE Older(row.submitted)
    BY <1>t, <1>tick DEF Tick, Aged, Row
  <2>2. RowInv'
    BY <1>t, <2>1, BoundsAssumption DEF RowInv, Row, Older, NotSubmitted, Stamp, Age
  <2>3. \A o \in Observers :
          /\ observer'[o].at = observer[o].at /\ observer'[o].status = observer[o].status
          /\ observer'[o].qty = observer[o].qty
          /\ observer[o].at \in {"fetch", "present"} => observer'[o].submitted =
               IF observer[o].submitted = NotSubmitted THEN observer[o].submitted
                                                       ELSE Older(observer[o].submitted)
    BY <1>t, <1>tick DEF Tick, Aged, Observer
  <2>4. ObserverInv'
    BY <1>a, <1>t, <1>tick, <2>1, <2>3 DEF Tick, ObserverInv
  <2> QED BY <1>tick, <2>1, <2>2, <2>4 DEF Tick, CloserInv, LatchOnce, Holds
<1>stutter. CASE UNCHANGED vars
  BY <1>stutter DEF vars, RowInv, CloserInv, ObserverInv, LatchOnce, Holds
<1> QED
  BY <1>risk, <1>decide, <1>close, <1>reconcile, <1>crash, <1>recoverlist, <1>recover,
     <1>shrink, <1>tick, <1>stutter DEF Next

LEMMA SpecIInv == Spec => [](TypeOK /\ IInv)
<1>1. Init => TypeOK /\ IInv
  BY InitTypes, InitIInv
<1>2. TypeOK /\ IInv /\ [Next]_vars => (TypeOK /\ IInv)'
  BY NextTypes, NextIInv
<1> QED BY <1>1, <1>2, PTL DEF Spec

\* However many risk and decision runs decide to close at once, at most one of
\* them can still drive the row, and only while the row is in the close flow.
THEOREM LatchIsExclusive == Spec => []LatchExclusion
<1>1. IInv => LatchExclusion
  BY DEF IInv, LatchOnce, CloserInv, LatchExclusion, Holds, IsCloseFlowStatus, CloseStatus
<1> QED BY <1>1, SpecIInv, PTL

-----------------------------------------------------------------------------
(* The order of the close flow.                                            *)

\* Only six actions move the status; IInv says what the others read.
LEMMA StatusStep == TypeOK /\ IInv /\ [Next]_vars => LegalStep /\ JustifiedReopen
<1> SUFFICES ASSUME TypeOK, IInv, [Next]_vars PROVE LegalStep /\ JustifiedReopen
  OBVIOUS
<1>a. /\ Boot \in Observers /\ Reconciles \subseteq Observers
      /\ RiskRuns \subseteq Closers /\ DecideRuns \subseteq Closers
  BY DEF Observers, Closers
<1>t. /\ observer \in [Observers -> Observer] /\ row \in Row /\ closer \in [Closers -> Closer]
  BY DEF TypeOK
<1>same. row'.status = row.status => LegalStep /\ JustifiedReopen
  BY DEF LegalStep, JustifiedReopen
<1>closed. row'.status = "CLOSED" => LegalStep /\ JustifiedReopen
  BY <1>t DEF LegalStep, JustifiedReopen, Row, Status, CloseStatus
<1>risk. ASSUME NEW c \in RiskRuns, RiskStep(c) PROVE LegalStep /\ JustifiedReopen
  BY <1>risk, <1>same DEF RiskStep, RiskList, RiskStop, RiskTakeProfit, RiskReload
<1>decide. ASSUME NEW c \in DecideRuns, DecideStep(c) PROVE LegalStep /\ JustifiedReopen
  BY <1>decide, <1>same DEF DecideStep, DecideExit, DecideTighten
<1>close. ASSUME NEW c \in Closers, CloseStep(c) PROVE LegalStep /\ JustifiedReopen
  <2>1. CASE PlanWrite(c)
    BY <1>t, <2>1, <1>same DEF PlanWrite, Patch, Row
  <2>2. CASE LatchClose(c)
    <3>1. row' = row \/ (row.status = "OPEN_ACTIVE" /\ row'.status = "CLOSE_ARMED")
      BY <1>t, <2>2 DEF LatchClose, Patch, IInv, CloserInv, Row
    <3> QED BY <3>1, <1>same DEF LegalStep, JustifiedReopen
  <2>3. CASE MarkCloseSubmitting(c)
    <3>1. row' = row \/ (row.status = "CLOSE_ARMED" /\ row'.status = "CLOSE_SUBMITTING")
      BY <1>t, <2>3 DEF MarkCloseSubmitting, Patch, IInv, CloserInv, Row
    <3> QED BY <3>1, <1>same DEF LegalStep, JustifiedReopen
  <2>4. CASE MarkClosePending(c)
    <3>1. row' = row \/ (row.status = "CLOSE_SUBMITTING" /\ row'.status = "CLOSE_PENDING")
      BY <1>t, <2>4 DEF MarkClosePending, Patch, IInv, CloserInv, Row
    <3> QED BY <3>1, <1>same DEF LegalStep, JustifiedReopen
  <2>5. CASE PlanFind(c) \/ PlaceOrder(c) \/ CloserStops(c)
    BY <2>5, <1>same DEF PlanFind, PlaceOrder, CloserStops
  <2> QED BY <1>close, <2>1, <2>2, <2>3, <2>4, <2>5 DEF CloseStep
<1>reconcile. ASSUME NEW o \in Reconciles, ReconcileStep(o) PROVE LegalStep /\ JustifiedReopen
  <2>1. CASE HandleExternalPresent(o)
    <3>1. CASE fresh[o]
      <4>1. /\ observer[o].status = row.status
            /\ observer[o].qty = row.qty
            /\ observer[o].submitted = row.submitted
        BY <1>a, <2>1, <3>1 DEF HandleExternalPresent, IInv, ObserverInv
      <4>2. row'.status = NextStatus(observer[o]) /\ row'.qty = observer[o].ext
        BY <1>t, <2>1, <3>1 DEF HandleExternalPresent, Patch, Row
      <4>3. CASE ShouldRecoverCloseTimeout(observer[o])
        <5>1. row'.status = "OPEN_ACTIVE" /\ row.status \in CloseStatus
          BY <4>1, <4>2, <4>3 DEF NextStatus, ShouldRecoverCloseTimeout, IsCloseFlowStatus
        <5>2. row.submitted # NotSubmitted => row.submitted >= RecoverAfter
          BY <4>1, <4>3 DEF ShouldRecoverCloseTimeout
        <5> QED BY <5>1, <5>2 DEF LegalStep, JustifiedReopen, CloseStatus, IInv, RowInv
      <4>4. CASE PartialCloseConfirmed(observer[o])
        <5>1. row'.status = "OPEN_ACTIVE" /\ row.status \in CloseStatus /\ row'.qty < row.qty
          BY <4>1, <4>2, <4>4 DEF NextStatus, PartialCloseConfirmed, IsCloseFlowStatus
        <5> QED BY <5>1 DEF LegalStep, JustifiedReopen, CloseStatus
      <4>5. CASE ~ShouldRecoverCloseTimeout(observer[o]) /\ ~PartialCloseConfirmed(observer[o])
        BY <4>1, <4>2, <4>5, <1>same DEF NextStatus
      <4> QED BY <4>3, <4>4, <4>5
    <3>2. CASE ~fresh[o]
      BY <2>1, <3>2, <1>same DEF HandleExternalPresent, Patch
    <3> QED BY <3>1, <3>2
  <2>2. CASE FinalizeExternalMissing(o)
    BY <1>t, <2>2, <1>same, <1>closed DEF FinalizeExternalMissing, Patch, Row
  <2>3. CASE \/ ReconcileList(o) \/ ReconcileFetch(o) \/ RecheckExternalPosition(o)
             \/ SendCloseSummary(o) \/ ReconcileStops(o)
    BY <2>3, <1>same DEF ReconcileList, ReconcileFetch, RecheckExternalPosition,
         SendCloseSummary, ReconcileStops
  <2> QED BY <1>reconcile, <2>1, <2>2, <2>3 DEF ReconcileStep
<1>recover. CASE Recover
  <2>1. observer[Boot].at = "recover"
    BY <1>recover DEF Recover
  <2>2. CASE fresh[Boot]
    <3>1. row.status # "CLOSED" /\ row'.status \in {"OPEN_ACTIVE", "CLOSED"}
      BY <1>a, <1>t, <1>recover, <2>1, <2>2 DEF Recover, Patch, IInv, ObserverInv, Row
    <3> QED BY <1>t, <2>1, <3>1 DEF LegalStep, JustifiedReopen, Row, Status, CloseStatus
  <2>3. CASE ~fresh[Boot]
    BY <1>recover, <2>3, <1>same DEF Recover, Patch
  <2> QED BY <2>2, <2>3
<1>rest. CASE Crash \/ RecoverList \/ TradeShrinks \/ UNCHANGED vars
  BY <1>rest, <1>same DEF Crash, RecoverList, TradeShrinks, vars
<1>tick. CASE Tick
  BY <1>t, <1>tick, <1>same DEF Tick, Aged, Row
<1> QED
  BY <1>risk, <1>decide, <1>close, <1>reconcile, <1>recover, <1>rest, <1>tick DEF Next

\* The row moves along the edges of the close flow only, however the jobs
\* that patch it overlap, fail and restart.
THEOREM TransitionsAreLegal == Spec => LegalTransitions
BY SpecIInv, StatusStep, PTL DEF LegalTransitions, Spec

\* A position that was closed stays closed.
THEOREM ClosedStaysClosed == Spec => ClosedIsFinal
<1>1. TypeOK /\ IInv /\ [Next]_vars => StaysClosed
  BY StatusStep DEF LegalStep, StaysClosed
<1> QED BY <1>1, SpecIInv, PTL DEF ClosedIsFinal, Spec

\* A submitted close is never given up early: not by a reconcile run that read
\* an older attempt, not by one that has not seen the trade shrink.
THEOREM ReopenJustified == Spec => ReopenIsJustified
BY SpecIInv, StatusStep, PTL DEF ReopenIsJustified, Spec

-----------------------------------------------------------------------------
(* One order per level.  A level is marked in the plan before it is         *)
(* ordered, and the plan only gains marks while decision runs leave it      *)
(* alone, so no later run finds the level again.                            *)

LevelFree(k) == tpOrders[k] = 0

\* What a closer has in hand: a level it is about to mark is the next of the
\* plan; a level it is about to order is marked and was not ordered before.
CloserLevels(c) ==
  /\ c \in DecideRuns => closer[c].trigger = 0 /\ closer[c].at \notin {"evaluate", "planFind", "planWrite"}
  /\ closer[c].at = "evaluate" => closer[c].trigger = 0 /\ closer[c].hits = row.hits
  /\ closer[c].at \in {"planFind", "planWrite"} =>
       closer[c].trigger = row.hits + 1 /\ closer[c].hits = row.hits + 1
  /\ closer[c].at \in {"reload", "latch", "submitting", "place"} =>
       /\ closer[c].trigger <= row.hits
       /\ closer[c].trigger > 0 => LevelFree(closer[c].trigger)

LevelsInv ==
  /\ \A k \in Level : tpOrders[k] <= 1
  /\ \A k \in Level : k > row.hits => LevelFree(k)
  /\ \A c \in Closers : CloserLevels(c)

LEMMA InitLevels == Init => LevelsInv
BY DEF Init, LevelsInv, LevelFree, CloserLevels, IdleCloser

\* Steps that leave the marks and the orders alone, and of the closers move c
\* only.
LEMMA OneCloserMoves ==
  ASSUME LevelsInv, NEW c \in Closers, CloserLevels(c)',
         row'.hits = row.hits, tpOrders' = tpOrders,
         \A d \in Closers : d # c => closer'[d] = closer[d]
  PROVE  LevelsInv'
<1>1. ASSUME NEW d \in Closers, d # c PROVE CloserLevels(d)'
  BY <1>1 DEF LevelsInv, CloserLevels, LevelFree
<1> QED BY <1>1 DEF LevelsInv, LevelFree

\* Steps that move no closer, or send it home.
LEMMA NoCloserMoves ==
  ASSUME LevelsInv, row'.hits = row.hits, tpOrders' = tpOrders,
         \A d \in Closers : closer'[d] \in {closer[d], IdleCloser}
  PROVE  LevelsInv'
<1>1. ASSUME NEW d \in Closers PROVE CloserLevels(d)'
  BY <1>1 DEF LevelsInv, CloserLevels, LevelFree, IdleCloser
<1> QED BY <1>1 DEF LevelsInv, LevelFree

\* A plan write is a risk run's, which holds the next level of the plan.
LEMMA PlanWriteLevels ==
  ASSUME SerialRisk, TypeOK, LevelsInv, NEW c \in Closers, PlanWrite(c)
  PROVE  LevelsInv'
<1>t. /\ closer \in [Closers -> Closer] /\ row \in Row /\ tpOrders' = tpOrders
      /\ \A d \in Closers : closer[d].trigger \in Hits /\ row.hits \in Hits
  BY DEF TypeOK, PlanWrite, Closer, Row
<1>n. row.hits \in Nat /\ \A d \in Closers : closer[d].trigger \in Nat
  BY <1>t, BoundsAssumption DEF Hits
<1>c. closer[c].at = "planWrite" /\ CloserLevels(c)
  BY DEF PlanWrite, LevelsInv
<1>r. c \in RiskRuns
  BY <1>c DEF CloserLevels, Closers
<1>1. CASE fresh[c]
  <2>1. row'.hits = row.hits + 1
    BY <1>1, <1>t, <1>c DEF PlanWrite, Patch, Row, CloserLevels
  <2>2. closer' = [closer EXCEPT ![c].at = "reload"]
    BY <1>1, <1>r DEF PlanWrite, CloserGoto
  <2>3. closer[c].trigger = row.hits + 1 /\ closer[c].trigger \in Level
    BY <1>c, <1>t, <1>n DEF CloserLevels, Hits, Level
  <2>4. LevelFree(closer[c].trigger)
    BY <2>3, <1>t, <1>n DEF LevelsInv
  <2>5. ASSUME NEW d \in Closers, d # c PROVE CloserLevels(d)'
    <3>1. d \in DecideRuns /\ CloserLevels(d)
      BY <1>r, <2>5 DEF SerialRisk, Closers, LevelsInv
    <3>2. closer'[d] = closer[d]
      BY <2>2, <2>5, <1>t
    <3> QED BY <3>1, <3>2, <2>1, <1>t, <1>n DEF CloserLevels, LevelFree
  <2>6. CloserLevels(c)'
    BY <2>1, <2>2, <2>3, <2>4, <1>r, <1>c, <1>t, <1>n DEF CloserLevels, LevelFree, Closer
  <2>7. \A k \in Level : k > row'.hits => LevelFree(k)'
    BY <2>1, <1>t, <1>n DEF LevelsInv, LevelFree, Level
  <2> QED BY <2>5, <2>6, <2>7, <1>t DEF LevelsInv
<1>2. CASE ~fresh[c]
  BY <1>2, <1>t, NoCloserMoves DEF PlanWrite, Patch, CloserEnds
<1> QED BY <1>1, <1>2

\* An order uses its level up; nobody else has that level in hand.
LEMMA PlaceOrderLevels ==
  ASSUME SerialRisk, TypeOK, LevelsInv, NEW c \in Closers, PlaceOrder(c)
  PROVE  LevelsInv'
<1>t. /\ closer \in [Closers -> Closer] /\ row' = row
      /\ tpOrders \in [Level -> 0 .. 2]
      /\ \A d \in Closers : closer[d].trigger \in Hits
      /\ row.hits \in Hits
  BY DEF TypeOK, PlaceOrder, Closer, Row
<1>n. row.hits \in Nat /\ \A d \in Closers : closer[d].trigger \in Nat
  BY <1>t, BoundsAssumption DEF Hits
<1>c. closer[c].at = "place" /\ CloserLevels(c)
  BY DEF PlaceOrder, LevelsInv
<1>1. \A k \in Level : k # closer[c].trigger => tpOrders'[k] = tpOrders[k]
  BY DEF PlaceOrder
<1>2. \A k \in Level : k = closer[c].trigger => tpOrders[k] = 0 /\ tpOrders'[k] = 1 /\ k <= row.hits
  <2> SUFFICES ASSUME NEW k \in Level, k = closer[c].trigger
               PROVE  tpOrders[k] = 0 /\ tpOrders'[k] = 1 /\ k <= row.hits
    OBVIOUS
  <2>1. k > 0
    BY DEF Level
  <2>2. tpOrders[k] = 0 /\ k <= row.hits
    BY <2>1, <1>c DEF CloserLevels, LevelFree
  <2> QED BY <2>2 DEF PlaceOrder
<1>3. \A d \in Closers : d # c => closer'[d] = closer[d]
  BY <1>t DEF PlaceOrder, CloserGoto, CloserEnds
<1>4. CloserLevels(c)'
  <2>1. CASE closer' = [closer EXCEPT ![c].at = "pending"]
    BY <2>1, <1>c, <1>t DEF CloserLevels, Closer
  <2>2. CASE closer' = [closer EXCEPT ![c] = IdleCloser]
    BY <2>2, <1>t DEF CloserLevels, IdleCloser
  <2> QED BY <2>1, <2>2 DEF PlaceOrder, CloserGoto, CloserEnds
<1>5. ASSUME NEW d \in Closers, d # c PROVE CloserLevels(d)'
  <2>1. closer'[d] = closer[d] /\ CloserLevels(d)
    BY <1>3, <1>5 DEF LevelsInv
  <2>2. c \in DecideRuns \/ d \in DecideRuns
    BY <1>5 DEF SerialRisk, Closers
  <2>3. closer[c].trigger = 0 \/ closer[d].trigger = 0
    BY <2>1, <2>2, <1>c DEF CloserLevels
  <2>4. closer[d].trigger > 0 => closer[d].trigger \in Level /\ closer[d].trigger # closer[c].trigger
    BY <2>3, <1>t DEF Hits, Level
  <2> QED BY <2>1, <2>4, <1>1, <1>t DEF CloserLevels, LevelFree
<1>6. \A k \in Level : tpOrders'[k] <= 1
  BY <1>1, <1>2 DEF LevelsInv
<1>7. \A k \in Level : k > row.hits => LevelFree(k)'
  BY <1>1, <1>2, <1>t, <1>n DEF LevelsInv, LevelFree, Level
<1> QED BY <1>4, <1>5, <1>6, <1>7, <1>t DEF LevelsInv

LEMMA NextLevels ==
  ASSUME SerialRisk
  PROVE  TypeOK /\ LevelsInv /\ [Next]_vars => LevelsInv'
<1> SUFFICES ASSUME TypeOK, LevelsInv, [Next]_vars PROVE LevelsInv'
  OBVIOUS
<1>t. /\ closer \in [Closers -> Closer] /\ row \in Row
      /\ \A d \in Closers : closer[d].trigger \in Hits /\ closer[d].hits \in Hits
      /\ row.hits \in Hits
  BY DEF TypeOK, Closer, Row
<1>n. row.hits \in Nat /\ \A d \in Closers : closer[d].trigger \in Nat
  BY <1>t, BoundsAssumption DEF Hits
<1>l. \A c \in Closers : CloserLevels(c)
  BY DEF LevelsInv
<1>i. \A c \in Closers : closer'[c] = IdleCloser => CloserLevels(c)'
  BY ActorsAssumption DEF CloserLevels, IdleCloser
<1>risk. ASSUME NEW c \in RiskRuns, RiskStep(c) PROVE LevelsInv'
  <2>a. c \in Closers /\ c \notin DecideRuns
    BY ActorsAssumption DEF Closers
  <2>b. /\ row' = row /\ tpOrders' = tpOrders
        /\ \A d \in Closers : d # c => closer'[d] = closer[d]
    BY <1>risk, <1>t DEF RiskStep, RiskList, RiskStop, RiskTakeProfit, RiskReload, CloserGoto
  <2>1. ASSUME RiskList(c) PROVE CloserLevels(c)'
    BY <2>1, <2>a, <2>b, <1>t DEF RiskList, CloserLevels
  <2>2. ASSUME RiskStop(c) PROVE CloserLevels(c)'
    <3>1. closer'[c].at = "latch" /\ closer'[c].trigger = 0
      BY <2>2, <2>a, <1>t, <1>l DEF RiskStop, CloserGoto, Closer, CloserLevels
    <3> QED BY <3>1, <2>a, <2>b, <1>t, <1>n DEF CloserLevels
  <2>3. ASSUME RiskTakeProfit(c) PROVE CloserLevels(c)'
    <3>1. closer'[c].at = "planFind" /\ closer'[c].trigger = row.hits + 1 /\ closer'[c].hits = row.hits + 1
      BY <2>3, <2>a, <1>t, <1>l DEF RiskTakeProfit, Closer, CloserLevels
    <3> QED BY <3>1, <2>a, <2>b, <1>t, <1>n DEF CloserLevels
  <2>4. ASSUME RiskReload(c) PROVE CloserLevels(c)'
    <3>1. closer'[c].at = "latch" /\ closer'[c].trigger = closer[c].trigger /\ closer[c].at = "reload"
      BY <2>4, <2>a, <1>t DEF RiskReload, CloserGoto, Closer
    <3> QED BY <3>1, <2>a, <2>b, <1>t, <1>l DEF CloserLevels, LevelFree
  <2>5. CloserLevels(c)' => LevelsInv'
    BY <2>a, <2>b, OneCloserMoves
  <2> QED BY <1>risk, <2>1, <2>2, <2>3, <2>4, <2>5 DEF RiskStep
<1>decide. ASSUME NEW c \in DecideRuns, DecideStep(c) PROVE LevelsInv'
  <2>1. DecideExit(c)
    BY <1>decide, <1>t DEF DecideStep, DecideTighten, SerialRisk, TypeOK
  <2>2. c \in Closers /\ \A d \in Closers : d # c => closer'[d] = closer[d]
    BY <2>1, <1>t DEF Closers, DecideExit
  <2>3. CloserLevels(c)'
    BY <2>1, <2>2, <1>t, <1>n DEF DecideExit, CloserLevels
  <2> QED BY <2>1, <2>2, <2>3, OneCloserMoves DEF DecideExit
<1>close. ASSUME NEW c \in Closers, CloseStep(c) PROVE LevelsInv'
  <2>1. CASE PlanFind(c)
    <3>1. row' = row /\ tpOrders' = tpOrders /\ \A d \in Closers : d # c => closer'[d] = closer[d]
      BY <2>1, <1>t DEF PlanFind, CloserGoto
    <3>2. CloserLevels(c)'
      BY <2>1, <3>1, <1>t, <1>l DEF PlanFind, CloserGoto, CloserLevels, Closer
    <3> QED BY <3>1, <3>2, OneCloserMoves
  <2>2. CASE PlanWrite(c)
    BY <2>2, PlanWriteLevels
  <2>3. CASE LatchClose(c)
    <3>1. row'.hits = row.hits
      BY <2>3, <1>t DEF LatchClose, Patch, Row
    <3>2. tpOrders' = tpOrders /\ \A d \in Closers : d # c => closer'[d] = closer[d]
      BY <2>3, <1>t DEF LatchClose
    <3>3. CASE fresh[c]
      <4>1. closer'[c].at = "submitting" /\ closer'[c].trigger = closer[c].trigger /\ closer[c].at = "latch"
        BY <2>3, <3>3, <1>t DEF LatchClose, IdleCloser
      <4>2. CloserLevels(c)'
        BY <4>1, <3>1, <3>2, <1>t, <1>l DEF CloserLevels, LevelFree
      <4> QED BY <4>2, <3>1, <3>2, OneCloserMoves
    <3>4. CASE ~fresh[c]
      BY <2>3, <3>1, <3>2, <3>4, <1>t, NoCloserMoves DEF LatchClose
    <3> QED BY <3>3, <3>4
  <2>4. CASE MarkCloseSubmitting(c)
    <3>1. row'.hits = row.hits
      BY <2>4, <1>t DEF MarkCloseSubmitting, Patch, Row
    <3>2. tpOrders' = tpOrders /\ \A d \in Closers : d # c => closer'[d] = closer[d]
      BY <2>4, <1>t DEF MarkCloseSubmitting, CloserGoto, CloserEnds
    <3>3. CASE fresh[c]
      <4>1. closer'[c].at = "place" /\ closer'[c].trigger = closer[c].trigger /\ closer[c].at = "submitting"
        BY <2>4, <3>3, <1>t DEF MarkCloseSubmitting, CloserGoto, Closer
      <4>2. CloserLevels(c)'
        BY <4>1, <3>1, <3>2, <1>t, <1>l DEF CloserLevels, LevelFree
      <4> QED BY <4>2, <3>1, <3>2, OneCloserMoves
    <3>4. CASE ~fresh[c]
      BY <2>4, <3>1, <3>2, <3>4, <1>t, NoCloserMoves DEF MarkCloseSubmitting, CloserEnds
    <3> QED BY <3>3, <3>4
  <2>5. CASE PlaceOrder(c)
    BY <2>5, PlaceOrderLevels
  <2>6. CASE MarkClosePending(c)
    <3>1. row'.hits = row.hits
      BY <2>6, <1>t DEF MarkClosePending, Patch, Row
    <3> QED BY <2>6, <3>1, <1>t, NoCloserMoves DEF MarkClosePending, CloserEnds
  <2>7. CASE CloserStops(c)
    BY <2>7, <1>t, NoCloserMoves DEF CloserStops, CloserEnds
  <2> QED BY <1>close, <2>1, <2>2, <2>3, <2>4, <2>5, <2>6, <2>7 DEF CloseStep
<1>others. CASE closer' = closer /\ tpOrders' = tpOrders /\ row'.hits = row.hits
  BY <1>others, NoCloserMoves
<1>reconcile. ASSUME NEW o \in Reconciles, ReconcileStep(o) PROVE LevelsInv'
  <2>1. closer' = closer /\ tpOrders' = tpOrders
    BY <1>reconcile DEF ReconcileStep, ReconcileList, ReconcileFetch, HandleExternalPresent,
         RecheckExternalPosition, FinalizeExternalMissing, SendCloseSummary, ReconcileStops
  <2>2. CASE HandleExternalPresent(o) \/ FinalizeExternalMissing(o)
    BY <2>2, <1>t, <2>1, <1>others DEF HandleExternalPresent, FinalizeExternalMissing, Patch, Row
  <2>3. CASE row' = row
    BY <2>1, <2>3, <1>others
  <2> QED BY <1>reconcile, <2>2, <2>3 DEF ReconcileStep, ReconcileList, ReconcileFetch,
            RecheckExternalPosition, SendCloseSummary, ReconcileStops
<1>crash. CASE Crash
  BY <1>crash, NoCloserMoves DEF Crash
<1>recover. CASE RecoverList \/ Recover
  <2>1. row'.hits = row.hits
    BY <1>recover, <1>t DEF RecoverList, Recover, Patch, Row
  <2> QED BY <1>recover, <2>1, <1>others DEF RecoverList, Recover
<1>world. CASE TradeShrinks \/ Tick
  <2>1. row'.hits = row.hits
    BY <1>world, <1>t DEF TradeShrinks, Tick, Aged, Row
  <2> QED BY <1>world, <2>1, <1>others DEF TradeShrinks, Tick
<1>stutter. CASE UNCHANGED vars
  BY <1>stutter, <1>others DEF vars
<1> QED
  BY <1>risk, <1>decide, <1>close, <1>reconcile, <1>crash, <1>recover, <1>world, <1>stutter DEF Next

\* With risk runs one after another and no plan rewritten behind their back, a
\* take-profit level orders at most one close, also when the process dies
\* between the mark and the order or the answer of the order is lost.
THEOREM LevelsOrderOnce ==
  ASSUME SerialRisk
  PROVE  Spec => []OneOrderPerLevel
<1>1. Init => TypeOK /\ LevelsInv
  BY InitTypes, InitLevels
<1>2. TypeOK /\ LevelsInv /\ [Next]_vars => (TypeOK /\ LevelsInv)'
  BY NextTypes, NextLevels
<1>3. LevelsInv => OneOrderPerLevel
  BY DEF LevelsInv, OneOrderPerLevel
<1> QED BY <1>1, <1>2, <1>3, PTL DEF Spec

-----------------------------------------------------------------------------
(* A closed position is gone.  What a job was told of the executor stays   *)
(* true until it acts on it, because a trade only shrinks; so it is enough *)
(* that nobody is told that an open trade is gone.                         *)

GoneInv ==
  /\ row.status = "CLOSED" => trade <= Residual
  /\ notified => trade <= Residual
  /\ \A o \in Observers :
       /\ observer[o].at \in {"finalize", "summary"} => trade <= Residual
       /\ observer[o].at = "recheck" /\ "omit" \notin Faults => trade <= Residual
       /\ observer[o].at \in {"list", "recover"} => "crash" \in Faults
       /\ observer[o].at = "recover" /\ ~Meaningful(observer[o].status, observer[o].ext)
            => trade <= Residual

LEMMA InitGone == Init => GoneInv
BY DEF Init, GoneInv, IdleObserver, Observing

LEMMA NotMeaningful ==
  ASSUME NEW s, NEW q \in Qty, ~Meaningful(s, q)
  PROVE  q <= Residual
BY BoundsAssumption DEF Meaningful, Qty

LEMMA GoneStays ==
  ASSUME TypeOK, [Next]_vars
  PROVE  trade <= Residual => trade' <= Residual
<1>1. CASE TradeShrinks
  BY <1>1, BoundsAssumption DEF TradeShrinks, TypeOK, Qty
<1>2. CASE ~TradeShrinks
  BY <1>2 DEF Next, vars, RiskStep, DecideStep, CloseStep, ReconcileStep, RiskList, RiskStop,
     RiskTakeProfit, RiskReload, DecideExit, DecideTighten, PlanFind, PlanWrite, LatchClose,
     MarkCloseSubmitting, PlaceOrder, MarkClosePending, CloserStops, ReconcileList,
     ReconcileFetch, HandleExternalPresent, RecheckExternalPosition, FinalizeExternalMissing,
     SendCloseSummary, ReconcileStops, Crash, RecoverList, Recover, Tick
<1> QED BY <1>1, <1>2

LEMMA NextGone ==
  ASSUME OmissionsAreRechecked, TypeOK, IInv, GoneInv, [Next]_vars
  PROVE  GoneInv'
<1>a. Boot \in Observers /\ Reconciles \subseteq Observers /\ Boot \notin Reconciles
  BY ActorsAssumption DEF Observers
<1>t. /\ observer \in [Observers -> Observer] /\ row \in Row /\ trade \in Qty
  BY DEF TypeOK
<1>gone. trade <= Residual => trade' <= Residual
  BY GoneStays
<1>same. ASSUME UNCHANGED <<observer, notified>>, row'.status = row.status PROVE GoneInv'
  BY <1>gone, <1>same DEF GoneInv, Meaningful, IsCloseFlowStatus
<1>open. ASSUME UNCHANGED <<observer, notified>>, row'.status # "CLOSED" PROVE GoneInv'
  BY <1>gone, <1>open DEF GoneInv, Meaningful, IsCloseFlowStatus
<1>ends. ASSUME NEW o \in Observers, ObserverEnds(o), notified' = notified,
                row'.status = "CLOSED" => row.status = "CLOSED" \/ trade <= Residual
         PROVE  GoneInv'
  <2>1. observer'[o].at = "idle" /\ \A p \in Observers : p # o => observer'[p] = observer[p]
    BY <1>t, <1>ends DEF ObserverEnds, IdleObserver, Observing
  <2> QED BY <1>gone, <1>ends, <2>1 DEF GoneInv, Meaningful, IsCloseFlowStatus
<1>jobs. ASSUME NEW c \in Closers,
                \/ RiskStep(c) \/ DecideStep(c) \/ CloseStep(c)
         PROVE  GoneInv'
  <2>1. UNCHANGED <<observer, notified>>
    BY <1>jobs DEF RiskStep, DecideStep, CloseStep, RiskList, RiskStop, RiskTakeProfit,
       RiskReload, DecideExit, DecideTighten, PlanFind, PlanWrite, LatchClose,
       MarkCloseSubmitting, PlaceOrder, MarkClosePending, CloserStops
  <2>2. row'.status \in {row.status, "CLOSE_ARMED", "CLOSE_SUBMITTING", "CLOSE_PENDING"}
    BY <1>t, <1>jobs DEF RiskStep, DecideStep, CloseStep, RiskList, RiskStop, RiskTakeProfit,
       RiskReload, DecideExit, DecideTighten, PlanFind, PlanWrite, LatchClose,
       MarkCloseSubmitting, PlaceOrder, MarkClosePending, CloserStops, Patch, Row
  <2> QED BY <2>1, <2>2, <1>same, <1>open
<1>reconcile. ASSUME NEW o \in Reconciles, ReconcileStep(o) PROVE GoneInv'
  <2>o. o \in Observers
    BY <1>a
  <2>1. CASE ReconcileList(o)
    BY <2>o, <1>t, <2>1, <1>gone DEF ReconcileList, Listed, GoneInv, Meaningful, IsCloseFlowStatus
  <2>2. CASE ReconcileFetch(o)
    <3>1. PICK q \in Listing : observer' = [observer EXCEPT ![o] =
            IF Meaningful(observer[o].status, q)
              THEN [@ EXCEPT !.at = "present", !.ext = q]
              ELSE [Observing("recheck") EXCEPT !.status = observer[o].status]]
      BY <2>2 DEF ReconcileFetch
    <3>2. \A p \in Observers : p # o => observer'[p] = observer[p]
      BY <1>t, <3>1
    <3>3. \/ observer'[o].at = "present"
          \/ observer'[o].at = "recheck" /\ ~Meaningful(observer[o].status, q)
      BY <2>o, <1>t, <3>1 DEF Observer, Observing
    <3>4. "omit" \notin Faults => q = trade
      BY <3>1 DEF Listing
    <3>5. observer'[o].at = "recheck" /\ "omit" \notin Faults => trade <= Residual
      BY <1>t, <3>3, <3>4, NotMeaningful
    <3> QED BY <2>2, <3>2, <3>3, <3>5 DEF ReconcileFetch, GoneInv, Meaningful, IsCloseFlowStatus
  <2>3. CASE HandleExternalPresent(o)
    <3>1. row'.status = "CLOSED" => row.status = "CLOSED"
      <4>1. row' = row \/ row'.status = NextStatus(observer[o])
        BY <1>t, <2>3 DEF HandleExternalPresent, Patch, Row
      <4>2. fresh[o] => observer[o].status = row.status
        BY <2>o, <2>3 DEF HandleExternalPresent, IInv, ObserverInv
      <4>3. ~fresh[o] => row' = row
        BY <2>3 DEF HandleExternalPresent, Patch
      <4> QED BY <4>1, <4>2, <4>3 DEF NextStatus
    <3> QED BY <2>o, <2>3, <3>1, <1>ends DEF HandleExternalPresent
  <2>4. CASE RecheckExternalPosition(o)
    <3>1. trade <= Residual
      <4>1. CASE ~Meaningful(observer[o].status, trade)
        BY <1>t, <4>1, NotMeaningful
      <4>2. CASE "recheck" \in Faults
        BY <2>o, <2>4, <4>2 DEF RecheckExternalPosition, OmissionsAreRechecked, GoneInv
      <4> QED BY <2>4, <4>1, <4>2 DEF RecheckExternalPosition
    <3> QED BY <2>o, <1>t, <2>4, <3>1 DEF RecheckExternalPosition, Observing, GoneInv,
              Meaningful, IsCloseFlowStatus
  <2>5. CASE FinalizeExternalMissing(o)
    <3>1. trade <= Residual /\ trade' = trade
      BY <2>o, <2>5 DEF FinalizeExternalMissing, GoneInv
    <3> QED BY <2>o, <1>t, <2>5, <3>1 DEF FinalizeExternalMissing, Observing, GoneInv,
              Meaningful, IsCloseFlowStatus
  <2>6. CASE SendCloseSummary(o)
    <3>1. trade <= Residual /\ trade' = trade
      BY <2>o, <2>6 DEF SendCloseSummary, GoneInv
    <3> QED BY <2>o, <1>t, <2>6, <3>1 DEF SendCloseSummary, ObserverEnds, IdleObserver,
              Observing, GoneInv, Meaningful, IsCloseFlowStatus
  <2>7. CASE ReconcileStops(o)
    BY <2>o, <2>7, <1>ends DEF ReconcileStops
  <2> QED BY <1>reconcile, <2>1, <2>2, <2>3, <2>4, <2>5, <2>6, <2>7 DEF ReconcileStep
<1>crash. CASE Crash
  BY <1>crash DEF Crash, Observing, GoneInv
<1>recoverlist. CASE RecoverList
  <2>0. "crash" \in Faults /\ "omit" \notin Faults
    BY <1>a, <1>recoverlist DEF RecoverList, GoneInv, OmissionsAreRechecked
  <2>1. CASE row.status = "CLOSED"
    BY <1>a, <1>recoverlist, <2>1, <1>ends DEF RecoverList
  <2>2. CASE row.status # "CLOSED"
    <3>1. PICK q \in Listing :
            observer' = [observer EXCEPT ![Boot] = [Listed("recover") EXCEPT !.ext = q]]
      BY <1>recoverlist, <2>2 DEF RecoverList
    <3>2. q = trade
      BY <2>0, <3>1 DEF Listing
    <3>3. /\ observer'[Boot].at = "recover" /\ observer'[Boot].ext = trade
          /\ \A p \in Observers : p # Boot => observer'[p] = observer[p]
      BY <1>a, <1>t, <3>1, <3>2 DEF Listed
    <3>4. ~Meaningful(observer'[Boot].status, observer'[Boot].ext) => trade <= Residual
      BY <1>t, <3>3, NotMeaningful
    <3> QED BY <1>recoverlist, <2>0, <2>2, <3>3, <3>4 DEF RecoverList, GoneInv, Meaningful,
              IsCloseFlowStatus
  <2> QED BY <2>1, <2>2
<1>recover. CASE Recover
  <2>1. row'.status = "CLOSED" => row.status = "CLOSED" \/ trade <= Residual
    <3>1. CASE Meaningful(observer[Boot].status, observer[Boot].ext)
      <4>1. row' = row \/ row'.status = "OPEN_ACTIVE"
        BY <1>t, <1>recover, <3>1 DEF Recover, Patch, Row
      <4> QED BY <4>1
    <3>2. CASE ~Meaningful(observer[Boot].status, observer[Boot].ext)
      BY <1>a, <1>recover, <3>2 DEF Recover, GoneInv
    <3> QED BY <3>1, <3>2
  <2> QED BY <1>a, <1>recover, <2>1, <1>ends DEF Recover
<1>shrink. CASE TradeShrinks
  BY <1>shrink, <1>same DEF TradeShrinks
<1>tick. CASE Tick
  <2>1. row'.status = row.status
    BY <1>t, <1>tick DEF Tick, Aged, Row
  <2>2. \A o \in Observers :
          /\ observer'[o].at = observer[o].at /\ observer'[o].status = observer[o].status
          /\ observer'[o].ext = observer[o].ext
    BY <1>t, <1>tick DEF Tick, Aged, Observer
  <2> QED BY <1>tick, <1>gone, <2>1, <2>2 DEF Tick, GoneInv, Meaningful, IsCloseFlowStatus
<1>stutter. CASE UNCHANGED vars
  BY <1>stutter, <1>same DEF vars
<1> QED
  <2>1. RiskRuns \subseteq Closers /\ DecideRuns \subseteq Closers
    BY DEF Closers
  <2> QED BY <2>1, <1>jobs, <1>reconcile, <1>crash, <1>recoverlist, <1>recover, <1>shrink,
        <1>tick, <1>stutter DEF Next

LEMMA SpecGone ==
  ASSUME OmissionsAreRechecked
  PROVE  Spec => [](TypeOK /\ IInv /\ GoneInv)
<1>1. Init => GoneInv
  BY InitGone
<1>2. TypeOK /\ IInv /\ GoneInv /\ [Next]_vars => GoneInv'
  BY NextGone
<1> QED BY <1>1, <1>2, SpecIInv, PTL DEF Spec

\* Whatever overlaps, a position is CLOSED only when the executor holds at
\* most a residual of it.
THEOREM ClosedIsGone ==
  ASSUME OmissionsAreRechecked
  PROVE  Spec => []ClosedMeansGone
<1>1. GoneInv => ClosedMeansGone
  BY DEF GoneInv, ClosedMeansGone
<1> QED BY <1>1, SpecGone, PTL

\* A close summary is sent only of a trade that is gone.
THEOREM SummaryIsGone ==
  ASSUME OmissionsAreRechecked
  PROVE  Spec => []SummaryMeansGone
<1>1. GoneInv => SummaryMeansGone
  BY DEF GoneInv, SummaryMeansGone
<1> QED BY <1>1, SpecGone, PTL

-----------------------------------------------------------------------------
(* The close flow implements CloseLifecycle.                               *)

LEMMA InitLifecycle == Init => Lifecycle!Init
<1> SUFFICES ASSUME Init PROVE Lifecycle!Init
  OBVIOUS
<1>1. row.status = "OPEN_ACTIVE" /\ notified = FALSE
  BY DEF Init
<1>2. ~(trade <= Residual)
  BY BoundsAssumption DEF Init
<1> QED BY <1>1, <1>2 DEF Lifecycle!Init, Phase, Gone

\* Only TradeShrinks touches the trade and only SendCloseSummary reports, and
\* neither moves the row: no handler closes the row and reports it in one step.
LEMMA OneThingAtATime ==
  ASSUME [Next]_vars
  PROVE  \/ UNCHANGED <<trade, notified>>
         \/ TradeShrinks
         \/ \E o \in Reconciles : SendCloseSummary(o)
BY DEF Next, vars, RiskStep, DecideStep, CloseStep, ReconcileStep, RiskList, RiskStop,
   RiskTakeProfit, RiskReload, DecideExit, DecideTighten, PlanFind, PlanWrite, LatchClose,
   MarkCloseSubmitting, PlaceOrder, MarkClosePending, CloserStops, ReconcileList,
   ReconcileFetch, HandleExternalPresent, RecheckExternalPosition, FinalizeExternalMissing,
   ReconcileStops, Crash, RecoverList, Recover, Tick

\* A step of the code is a step of the life cycle or none.
LEMMA StepLifecycle ==
  ASSUME TypeOK, IInv, GoneInv, GoneInv', [Next]_vars
  PROVE  [Lifecycle!Next]_(Lifecycle!vars)
<1>1. CASE UNCHANGED <<trade, notified>>
  <2>g. Gone' = Gone
    BY <1>1 DEF Gone
  <2>s. Phase' = Phase => [Lifecycle!Next]_(Lifecycle!vars)
    BY <1>1, <2>g DEF Lifecycle!vars
  <2>f. row'.status = "CLOSED" => Gone
    BY <1>1 DEF GoneInv, Gone
  <2>l. LegalStep
    BY StatusStep
  <2>1. CASE row'.status = row.status
    BY <2>1, <2>s DEF Phase
  <2>2. CASE row.status = "OPEN_ACTIVE" /\ row'.status = "CLOSE_ARMED"
    BY <1>1, <2>2, <2>g DEF Phase, Lifecycle!Next, Lifecycle!BeginClose
  <2>3. CASE row.status \in CloseStatus /\ row'.status \in CloseStatus
    BY <2>3, <2>s DEF Phase, CloseStatus
  <2>4. CASE row.status \in CloseStatus /\ row'.status = "OPEN_ACTIVE"
    BY <1>1, <2>4, <2>g DEF Phase, CloseStatus, Lifecycle!Next, Lifecycle!Reopen
  <2>5. CASE row.status # "CLOSED" /\ row'.status = "CLOSED"
    <3>1. Phase \in {"open", "closing"} /\ Phase' = "closed"
      BY <2>5 DEF Phase
    <3> QED BY <1>1, <2>5, <2>f, <2>g, <3>1 DEF Lifecycle!Next, Lifecycle!Finish
  <2> QED BY <2>l, <2>1, <2>2, <2>3, <2>4, <2>5 DEF LegalStep, CloseStatus
<1>2. CASE TradeShrinks
  <2>1. Phase' = Phase /\ notified' = notified
    BY <1>2 DEF TradeShrinks, Phase
  <2>2. CASE Gone'
    BY <2>1, <2>2 DEF Lifecycle!Next, Lifecycle!Vanish
  <2>3. CASE ~Gone'
    <3>1. ~Gone
      BY <2>3, GoneStays DEF Gone
    <3>2. Gone' = Gone
      BY <2>3, <3>1 DEF Gone
    <3> QED BY <2>1, <3>2 DEF Lifecycle!vars
  <2> QED BY <2>2, <2>3
<1>3. ASSUME NEW o \in Reconciles, SendCloseSummary(o) PROVE Lifecycle!Next
  <2>1. Phase' = Phase /\ Gone' = Gone /\ notified' = TRUE
    BY <1>3 DEF SendCloseSummary, Phase, Gone
  <2>2. Gone
    BY <1>3 DEF SendCloseSummary, GoneInv, Gone, Observers
  <2> QED BY <2>1, <2>2 DEF Lifecycle!Next, Lifecycle!Tell
<1> QED BY <1>1, <1>2, <1>3, OneThingAtATime

\* The jobs together do what CloseLifecycle promises of a position.
THEOREM CloseFlowImplementsLifecycle ==
  ASSUME OmissionsAreRechecked
  PROVE  Spec => LifecycleSpec
<1>1. Init => Lifecycle!Init
  BY InitLifecycle
<1>2. TypeOK /\ IInv /\ GoneInv /\ GoneInv' /\ [Next]_vars => [Lifecycle!Next]_(Lifecycle!vars)
  BY StepLifecycle
<1> QED BY <1>1, <1>2, SpecGone, PTL DEF Spec, LifecycleSpec, Lifecycle!Spec
=============================================================================
