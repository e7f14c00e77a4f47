-------------------------- MODULE EntryFlow_proofs --------------------------
(***************************************************************************)
(* Proofs about EntryFlow, for any number of plans and orders, for both    *)
(* schedulers and every choice of faults.                                  *)
(***************************************************************************)
EXTENDS EntryFlow, FiniteSetTheorems, TLAPS

-----------------------------------------------------------------------------
(* Type correctness.                                                       *)

LEMMA Bounds == MaxPlans \in Nat /\ MaxOrders \in Nat /\ MaxFaults \in Nat
BY BoundsAssumption

LEMMA IdleTypes == IdleJob \in Job /\ NoEntry \in Entry \cup {NoEntry}
BY Bounds DEF IdleJob, Job, At

LEMMA InitTypes == Init => TypeOK
<1> SUFFICES ASSUME Init PROVE TypeOK
  OBVIOUS
<1>1. job \in [Jobs -> Job]
  BY IdleTypes DEF Init
<1>2. order \in [Orders -> [plan : 0 .. MaxPlans, state : OrderState]]
  BY Bounds DEF Init, OrderState
<1> QED BY <1>1, <1>2, Bounds DEF Init, TypeOK, NoRow

\* A plan that is made gets an entry without an order.
LEMMA NewEntry ==
  ASSUME TypeOK, plans < MaxPlans
  PROVE  /\ plans + 1 \in Plans
         /\ [NoEntry EXCEPT !.plan = plans + 1] \in Entry
BY Bounds DEF TypeOK, Plans, NoEntry, Entry

\* What a job is after one of the four ways to change it.
LEMMA JobTypes ==
  ASSUME TypeOK, NEW j \in Jobs
  PROVE  /\ \A at \in At : Goes(j, at) => job' \in [Jobs -> Job]
         /\ \A at \in At, e \in Entry \cup {NoEntry} : Takes(j, at, e) => job' \in [Jobs -> Job]
         /\ Ends(j) => job' \in [Jobs -> Job]
BY IdleTypes DEF TypeOK, Goes, Takes, Ends, Job

\* A job that asks for an order or withdraws it knows which; a risk run has a
\* plan in hand until it has sent the order.
CancelKnows == \A j \in Jobs : job[j].at \in {"query", "withdraw"} => job[j].copy.ext \in Orders
Ordering == {"expire", "quote", "check", "mark", "place", "reset"}
RiskKnows == job["risk"].at \in Ordering => job["risk"].copy \in Entry
ReconcileKnows == job["reconcile"].at = "insert" => job["reconcile"].copy \in Entry

LEMMA CancelTypes ==
  ASSUME TypeOK, CancelKnows, NEW j \in Jobs, CancelStep(j)
  PROVE  TypeOK'
<1> USE DEF TypeOK
<1>0. {"idle", "query", "withdraw", "clear"} \subseteq At
  BY DEF At
<1>1. CASE CancelCheck(j)
  BY <1>0, <1>1, JobTypes DEF CancelCheck, executor, history
<1>2. CASE CancelQuery(j)
  <2>1. job' \in [Jobs -> Job]
    BY <1>0, <1>2, JobTypes DEF CancelQuery
  <2>2. left' \subseteq Orders /\ faults' \in 0 .. MaxFaults
    BY <1>2, Bounds DEF CancelQuery, CancelKnows, history, Fault
  <2> QED BY <1>2, <2>1, <2>2 DEF CancelQuery, executor
<1>3. CASE CancelWithdraw(j)
  <2>1. job' \in [Jobs -> Job]
    BY <1>0, <1>3, JobTypes DEF CancelWithdraw
  <2>2. left' \subseteq Orders /\ faults' \in 0 .. MaxFaults
    BY <1>3, Bounds DEF CancelWithdraw, CancelKnows, history, Fault
  <2>3. order' \in [Orders -> [plan : 0 .. MaxPlans, state : OrderState]]
    BY <1>3 DEF CancelWithdraw, OrderState
  <2> QED BY <1>3, <2>1, <2>2, <2>3 DEF CancelWithdraw
<1>4. CASE CancelClear(j)
  BY <1>0, <1>4, JobTypes DEF CancelClear, executor, history
<1> QED BY <1>1, <1>2, <1>3, <1>4 DEF CancelStep

LEMMA DecideTypes ==
  ASSUME TypeOK, CancelKnows, DecideStart \/ DecideStep
  PROVE  TypeOK'
<1> USE DEF TypeOK
<1>0. {"idle", "think", "cancel"} \subseteq At /\ "decide" \in Jobs
  BY DEF At, Jobs
<1>1. CASE DecideStart
  BY <1>0, <1>1, JobTypes DEF DecideStart, executor, history
<1>2. CASE DecideNothing
  BY <1>0, <1>2, JobTypes DEF DecideNothing, executor, history
<1>3. CASE DecideUpsert
  <2>1. job' \in [Jobs -> Job]
    BY <1>0, <1>3, JobTypes DEF DecideUpsert
  <2>2. plans' \in 0 .. MaxPlans /\ cache' \in Entry
    BY <1>3, NewEntry, Bounds DEF DecideUpsert, Plans
  <2> QED BY <1>3, <2>1, <2>2 DEF DecideUpsert, executor, history
<1> QED BY <1>0, <1>1, <1>2, <1>3, CancelTypes DEF DecideStep

LEMMA UpdateOrderTypes ==
  ASSUME TypeOK, NEW ext \in 0 .. MaxOrders, NEW client \in 0 .. MaxOrders,
         UpdateOrder(ext, client)
  PROVE  cache' \in Entry \cup {NoEntry}
BY DEF TypeOK, UpdateOrder, Cached, Entry

LEMMA RiskTypes ==
  ASSUME TypeOK, CancelKnows, RiskKnows, RiskLoad \/ RiskStep
  PROVE  TypeOK'
<1> USE DEF TypeOK
<1>0. /\ {"idle", "expire", "cancel", "quote", "check", "mark", "place", "answer", "reset"} \subseteq At
      /\ "risk" \in Jobs
  BY DEF At, Jobs
<1>t. job["risk"].trade \in 0 .. MaxOrders /\ job["risk"].copy \in Entry \cup {NoEntry}
  BY <1>0 DEF Job
<1>p. job["risk"].copy.plan \in 0 .. MaxPlans
  BY <1>t, Bounds DEF Entry, NoEntry, Plans
<1>1. CASE RiskLoad
  BY <1>0, <1>1, JobTypes DEF RiskLoad, executor, history
<1>2. CASE RiskExpire
  BY <1>0, <1>2, JobTypes DEF RiskExpire, executor, history
<1>3. CASE RiskDeclines
  BY <1>0, <1>3, JobTypes DEF RiskDeclines, executor, history
<1>4. CASE RiskResize
  <2>1. cache' \in Entry \cup {NoEntry}
    BY <1>4 DEF RiskResize, RiskKnows, Ordering, Cached, Entry
  <2> QED BY <1>0, <1>4, <2>1, JobTypes DEF RiskResize, executor, history
<1>5. CASE RiskCheck
  BY <1>0, <1>5, JobTypes DEF RiskCheck, executor, history
<1>6. CASE RiskMark
  <2>1. orders' \in 0 .. MaxOrders /\ 0 \in 0 .. MaxOrders
    BY <1>6, Bounds DEF RiskMark
  <2>2. cache' \in Entry \cup {NoEntry}
    BY <1>6, <2>1, UpdateOrderTypes DEF RiskMark
  <2>3. job' \in [Jobs -> Job]
    <3>1. [job["risk"] EXCEPT !.at = "place", !.trade = orders'] \in Job
      BY <1>0, <2>1 DEF Job
    <3>2. job' = [job EXCEPT !["risk"] = [job["risk"] EXCEPT !.at = "place", !.trade = orders']]
      BY <1>0, <1>6 DEF RiskMark
    <3> QED BY <3>1, <3>2
  <2> QED BY <1>6, <2>1, <2>2, <2>3 DEF RiskMark, history
<1>7. CASE RiskPlace
  <2>1. job' \in [Jobs -> Job]
    BY <1>0, <1>7, JobTypes DEF RiskPlace
  <2>2. order' \in [Orders -> [plan : 0 .. MaxPlans, state : OrderState]]
    BY <1>p, <1>7 DEF RiskPlace, Sends, OrderState
  <2>3. faults' \in 0 .. MaxFaults
    BY <1>7, Bounds DEF RiskPlace, Fault
  <2> QED BY <1>7, <2>1, <2>2, <2>3 DEF RiskPlace
<1>8. CASE RiskAnswer
  BY <1>0, <1>t, <1>8, JobTypes, UpdateOrderTypes DEF RiskAnswer, executor, history
<1>9. CASE RiskReset
  <2>1. cache' \in Entry \cup {NoEntry}
    <3>1. \A e \in Entry : [e EXCEPT !.ext = 0, !.client = 0] \in Entry
      <4>1. 0 \in 0 .. MaxOrders
        BY Bounds
      <4> QED BY <4>1 DEF Entry
    <3> QED BY <1>9, <3>1 DEF RiskReset, Cached
  <2> QED BY <1>0, <1>9, <2>1, JobTypes DEF RiskReset, executor, history
<1> QED
  BY <1>0, <1>1, <1>2, <1>3, <1>4, <1>5, <1>6, <1>7, <1>8, <1>9, CancelTypes DEF RiskStep

LEMMA ReconcileTypes ==
  ASSUME TypeOK, ReconcileKnows, ReconcileStart \/ ReconcileStep
  PROVE  TypeOK'
<1> USE DEF TypeOK
<1>0. {"idle", "match", "insert", "remove", "orders"} \subseteq At /\ "reconcile" \in Jobs
  BY DEF At, Jobs
<1>t. /\ job["reconcile"].trade \in 0 .. MaxOrders
      /\ job["reconcile"].copy \in Entry \cup {NoEntry}
      /\ job["reconcile"].seen \subseteq Orders
  BY <1>0 DEF Job
<1>o. \A at \in At, seen \in SUBSET Orders : [IdleJob EXCEPT !.at = at, !.seen = seen] \in Job
  BY IdleTypes DEF Job
<1>p. \A at \in At : [IdleJob EXCEPT !.at = at] \in Job
  BY IdleTypes DEF Job
<1>w. ASSUME NEW o \in 0 .. MaxOrders, NEW seen \in SUBSET Orders, OpensWith(cache, o, seen)
      PROVE job' \in [Jobs -> Job]
  BY <1>0, <1>w DEF OpensWith, Job
<1>s. SecondPass => job' \in [Jobs -> Job]
  BY <1>0, <1>p DEF SecondPass
<1>1. CASE ReconcileStart
  <2>1. Filled \subseteq Orders
    BY DEF Filled
  <2> QED BY <1>0, <1>o, <1>1, <2>1 DEF ReconcileStart, executor, history
<1>2. CASE ReconcileMatch
  <2>1. \A o \in TradeOf(cache, job["reconcile"].seen) : o \in 0 .. MaxOrders
    BY <1>t, Bounds DEF TradeOf, Orders
  <2>2. job' \in [Jobs -> Job]
    BY <1>2, <1>t, <1>w, <1>s, <2>1 DEF ReconcileMatch
  <2> QED BY <1>2, <2>2 DEF ReconcileMatch, executor, history
<1>3. CASE ReconcileInsert
  <2>1. job' \in [Jobs -> Job]
    BY <1>0, <1>3, JobTypes DEF ReconcileInsert
  <2>2. job["reconcile"].copy.plan \in 0 .. MaxPlans /\ 1 .. MaxPlans \subseteq 0 .. MaxPlans
    BY <1>t, Bounds DEF Entry, NoEntry, Plans
  <2>3. row' \in [trade : 0 .. MaxOrders, plan : 0 .. MaxPlans]
    BY <1>3, <1>t, <2>2 DEF ReconcileInsert
  <2>4. opened' \subseteq Plans
    BY <1>3 DEF Entry, ReconcileInsert, ReconcileKnows
  <2> QED BY <1>3, <2>1, <2>3, <2>4 DEF ReconcileInsert, executor, history
<1>4. CASE ReconcileRemove
  BY <1>0, <1>4, <1>s, JobTypes DEF ReconcileRemove, executor, history
<1>5. CASE ReconcileOrders
  <2>1. cache.ext \in Orders /\ Orders \subseteq 0 .. MaxOrders /\ {} \in SUBSET Orders => job' \in [Jobs -> Job]
    BY <1>0, <1>5, <1>w, JobTypes DEF ReconcileOrders
  <2>2. cache.ext # 0 => cache.ext \in Orders
    BY Bounds DEF Entry, NoEntry, Orders
  <2>3. job' \in [Jobs -> Job]
    BY <1>0, <1>5, <2>1, <2>2, JobTypes, Bounds DEF ReconcileOrders, Orders
  <2> QED BY <1>5, <2>3 DEF ReconcileOrders, executor, history
<1> QED BY <1>1, <1>2, <1>3, <1>4, <1>5 DEF ReconcileStep

\* The executor, the row, the operator and the process.
Outside ==
  \/ \E o \in Orders : Fill(o) \/ GivenUp(o) \/ Sold(o)
  \/ \E p \in Plans : Elapse(p)
  \/ RowCloses \/ Debug \/ Restart

LEMMA OutsideTypes ==
  ASSUME TypeOK, Outside
  PROVE  TypeOK'
<1> USE DEF TypeOK
<1>1. ASSUME NEW o \in Orders, Fill(o) \/ GivenUp(o) \/ Sold(o) PROVE TypeOK'
  BY <1>1 DEF Fill, GivenUp, Sold, OrderMoves, OrderState, history
<1>2. ASSUME NEW p \in Plans, Elapse(p) PROVE TypeOK'
  BY <1>2 DEF Elapse, executor, history
<1>3. CASE RowCloses
  BY <1>3, Bounds DEF RowCloses, NoRow, executor, history
<1>4. CASE Debug
  <2>1. faults' \in 0 .. MaxFaults
    BY <1>4, Bounds DEF Debug, Fault
  <2>2. plans' \in 0 .. MaxPlans /\ cache' \in Entry \cup {NoEntry}
    <3>1. CASE plans < MaxPlans /\ plans' = plans + 1 /\ cache' = [NoEntry EXCEPT !.plan = plans']
      BY <3>1, NewEntry, Bounds DEF Plans
    <3>2. CASE cache' = NoEntry /\ UNCHANGED plans
      BY <3>2
    <3> QED BY <1>4, <3>1, <3>2 DEF Debug
  <2> QED BY <1>4, <2>1, <2>2 DEF Debug, executor
<1>5. CASE Restart
  <2>1. faults' \in 0 .. MaxFaults
    BY <1>5, Bounds DEF Restart, Fault
  <2>2. job' \in [Jobs -> Job]
    BY <1>5, IdleTypes DEF Restart
  <2>3. Cardinality(Filled) = 1 => (CHOOSE o \in Filled : TRUE) \in 0 .. MaxOrders
    <3>1. Filled \subseteq Orders /\ Orders \subseteq 0 .. MaxOrders /\ IsFiniteSet(Filled)
      <4>1. IsFiniteSet(Orders) /\ Orders \subseteq 0 .. MaxOrders
        BY Bounds, FS_Interval DEF Orders
      <4>2. Filled \in SUBSET Orders
        BY DEF Filled
      <4> QED BY <4>1, <4>2, FS_Subset
    <3>2. Cardinality(Filled) = 1 => Filled # {}
      BY <3>1, FS_EmptySet
    <3> QED BY <3>1, <3>2
  <2>4. row' \in [trade : 0 .. MaxOrders, plan : 0 .. MaxPlans]
    BY <1>5, <2>3, Bounds DEF Restart
  <2> QED BY <1>5, <2>1, <2>2, <2>4 DEF Restart, executor
<1> QED BY <1>1, <1>2, <1>3, <1>4, <1>5 DEF Outside

\* A step of one job leaves the others where they are.
Knows == CancelKnows /\ RiskKnows /\ ReconcileKnows

LEMMA InitKnows == Init => Knows
BY DEF Init, Knows, CancelKnows, RiskKnows, ReconcileKnows, IdleJob, Jobs, Ordering

LEMMA StepKnows ==
  ASSUME TypeOK, Knows, NEW j \in Jobs, \A k \in Jobs \ {j} : job'[k] = job[k],
         job'[j].at \in {"query", "withdraw"} => job'[j].copy.ext \in Orders,
         j = "risk" => RiskKnows', j = "reconcile" => ReconcileKnows'
  PROVE  Knows'
BY DEF Knows, CancelKnows, RiskKnows, ReconcileKnows, Jobs

LEMMA CancelKnowsMore ==
  ASSUME TypeOK, Knows, NEW j \in Jobs, CancelStep(j)
  PROVE  Knows'
<1> USE DEF TypeOK
<1>1. \A k \in Jobs \ {j} : job'[k] = job[k]
  BY DEF CancelStep, CancelCheck, CancelQuery, CancelWithdraw, CancelClear, Goes, Ends
<1>2. job'[j].at \in {"query", "withdraw"} => job'[j].copy.ext \in Orders
  <2>1. job[j].copy.ext # 0 => job[j].copy.ext \in Orders
    BY Bounds DEF Job, Entry, NoEntry, Orders
  <2>2. CASE CancelCheck(j)
    BY <2>1, <2>2 DEF CancelCheck, Goes, Ends, IdleJob, Job
  <2>3. CASE CancelQuery(j)
    BY <2>3 DEF CancelQuery, Knows, CancelKnows, Goes, Ends, IdleJob, Job
  <2>4. CASE CancelWithdraw(j)
    BY <2>4 DEF CancelWithdraw, Goes, Ends, IdleJob, Job
  <2>5. CASE CancelClear(j)
    BY <2>5 DEF CancelClear, Ends, IdleJob
  <2> QED BY <2>2, <2>3, <2>4, <2>5 DEF CancelStep
<1>3. job'[j].at \in {"idle", "query", "withdraw", "clear"}
  BY DEF CancelStep, CancelCheck, CancelQuery, CancelWithdraw, CancelClear, Goes, Ends, IdleJob, Job
<1>4. (j = "risk" => RiskKnows') /\ (j = "reconcile" => ReconcileKnows')
  BY <1>3 DEF RiskKnows, ReconcileKnows, Ordering
<1> QED BY <1>1, <1>2, <1>4, StepKnows

LEMMA NextTypes == TypeOK /\ Knows /\ [Next]_vars => TypeOK' /\ Knows'
<1> SUFFICES ASSUME TypeOK, Knows, [Next]_vars PROVE TypeOK' /\ Knows'
  OBVIOUS
<1>j. {"decide", "risk", "reconcile"} = Jobs
  BY DEF Jobs
<1>a. job \in [Jobs -> Job] /\ cache \in Entry \cup {NoEntry}
  BY DEF TypeOK
<1>1. CASE DecideStart \/ DecideStep
  <2>1. TypeOK'
    BY <1>1, DecideTypes DEF Knows
  <2>2. CASE CancelStep("decide")
    BY <2>1, <2>2, <1>j, CancelKnowsMore
  <2>3. CASE DecideStart \/ DecideNothing \/ DecideUpsert
    <3>1. job'["decide"].at \notin {"query", "withdraw"} /\ \A k \in Jobs \ {"decide"} : job'[k] = job[k]
      BY <1>a, <1>j, <2>3 DEF DecideStart, DecideNothing, DecideUpsert, Goes, Takes, Ends, IdleJob, Job
    <3> QED BY <1>j, <2>1, <3>1, StepKnows
  <2> QED BY <1>1, <2>2, <2>3 DEF DecideStep
<1>2. CASE RiskLoad \/ RiskStep
  <2>1. TypeOK'
    BY <1>2, RiskTypes DEF Knows
  <2>2. CASE CancelStep("risk")
    BY <2>1, <2>2, <1>j, CancelKnowsMore
  <2>3. CASE ~CancelStep("risk")
    <3>1. \A k \in Jobs \ {"risk"} : job'[k] = job[k]
      BY <1>a, <1>2, <2>3 DEF RiskStep, RiskLoad, RiskExpire, RiskDeclines, RiskResize, RiskCheck,
           RiskMark, RiskPlace, RiskAnswer, RiskReset, Goes, Takes, Ends
    <3>2. job'["risk"].at \notin {"query", "withdraw"}
      BY <1>a, <1>j, <1>2, <2>3 DEF RiskStep, RiskLoad, RiskExpire, RiskDeclines, RiskResize, RiskCheck,
           RiskMark, RiskPlace, RiskAnswer, RiskReset, Goes, Takes, Ends, IdleJob, Job
    <3>3. RiskKnows'
      <4>1. CASE RiskLoad
        BY <1>a, <1>j, <4>1 DEF RiskLoad, Cached, Takes, RiskKnows, Job
      <4>2. CASE RiskExpire
        BY <1>a, <1>j, <4>2 DEF RiskExpire, Takes, Goes, Ends, IdleJob, Knows, RiskKnows, Ordering, Job
      <4>3. CASE RiskMark
        BY <1>a, <1>j, <4>3 DEF RiskMark, Knows, RiskKnows, Ordering, Job
      <4>4. CASE RiskDeclines \/ RiskResize \/ RiskCheck \/ RiskPlace \/ RiskAnswer \/ RiskReset
        BY <1>a, <1>j, <4>4 DEF RiskDeclines, RiskResize, RiskCheck, RiskPlace, RiskAnswer, RiskReset,
             Goes, Ends, IdleJob, Knows, RiskKnows, Ordering, Job
      <4> QED BY <1>2, <2>3, <4>1, <4>2, <4>3, <4>4 DEF RiskStep
    <3> QED BY <1>j, <2>1, <3>1, <3>2, <3>3, StepKnows
  <2> QED BY <2>2, <2>3
<1>3. CASE ReconcileStart \/ ReconcileStep
  <2>1. TypeOK'
    BY <1>3, ReconcileTypes DEF Knows
  <2>2. \A k \in Jobs \ {"reconcile"} : job'[k] = job[k]
    BY <1>a, <1>3 DEF ReconcileStep, ReconcileStart, ReconcileMatch, ReconcileInsert, ReconcileRemove,
         ReconcileOrders, OpensWith, SecondPass, Goes, Ends
  <2>3. /\ job'["reconcile"].at \notin {"query", "withdraw"}
        /\ job'["reconcile"].at = "insert" => job'["reconcile"].copy = cache /\ Cached
    <3>1. CASE ReconcileStart
      BY <1>a, <1>j, <3>1 DEF ReconcileStart, IdleJob
    <3>2. CASE ReconcileMatch
      BY <1>a, <1>j, <3>2 DEF ReconcileMatch, OpensWith, SecondPass, IdleJob
    <3>3. CASE ReconcileInsert \/ ReconcileRemove
      BY <1>a, <1>j, <3>3 DEF ReconcileInsert, ReconcileRemove, SecondPass, Goes, Ends, IdleJob, Job
    <3>4. CASE ReconcileOrders
      BY <1>a, <1>j, <3>4 DEF ReconcileOrders, OpensWith, Ends, IdleJob, Cached, NoEntry
    <3> QED BY <1>3, <3>1, <3>2, <3>3, <3>4 DEF ReconcileStep
  <2>4. ReconcileKnows'
    BY <1>a, <2>3 DEF ReconcileKnows, Cached
  <2> QED BY <1>j, <2>1, <2>2, <2>3, <2>4, StepKnows
<1>4. CASE Outside
  <2>1. job' = job \/ job' = [j \in Jobs |-> IdleJob]
    BY <1>4 DEF Outside, Fill, GivenUp, Sold, OrderMoves, Elapse, RowCloses, Debug, Restart
  <2>2. Knows'
    BY <1>j, <2>1 DEF Knows, CancelKnows, RiskKnows, ReconcileKnows, IdleJob, Ordering
  <2> QED BY <1>4, <2>2, OutsideTypes
<1>5. CASE UNCHANGED vars
  BY <1>5 DEF vars, executor, history, TypeOK, Knows, CancelKnows, RiskKnows, ReconcileKnows,
       Filled, HasFill
<1> QED BY <1>1, <1>2, <1>3, <1>4, <1>5 DEF Next, Outside

\* Every variable keeps its type, for any number of plans and orders and both
\* schedulers: no job asks for, withdraws or opens an order it does not know.
THEOREM TypeCorrect == Spec => []TypeOK
<1>1. Init => TypeOK /\ Knows
  BY InitTypes, InitKnows
<1>2. TypeOK /\ Knows /\ [Next]_vars => (TypeOK /\ Knows)'
  BY NextTypes
<1> QED BY <1>1, <1>2, PTL DEF Spec

-----------------------------------------------------------------------------
(* A plan is ordered once.  Only a risk run orders, and it has let go of   *)
(* the cache when it does: what keeps a plan from a second order is that   *)
(* a plan without order ids has no accepted order, neither in the cache    *)
(* nor in the hands of the run that is about to order it.                  *)

Unordered == {p \in Plans : \A o \in Orders : order[o].plan = p => ~Accepted(o)}

PlansMade ==
  /\ cache.plan <= plans /\ job["risk"].copy.plan <= plans
  /\ \A o \in Orders : order[o].plan <= plans

OrdersKnown == job["risk"].at \in {"place", "answer"} => job["risk"].trade \in Orders

CacheFresh == Cached /\ ~Submitted(cache) => cache.plan \in Unordered

AboutToOrder ==
  \/ job["risk"].at \in {"quote", "check", "mark", "place", "reset"}
  \/ job["risk"].at = "expire" /\ ~Submitted(job["risk"].copy)
RiskFresh ==
  AboutToOrder => job["risk"].copy.plan \in Unordered /\ (Cached => cache.plan \in Unordered)

\* The entry of the plan that is being ordered carries the mark of the order.
PlaceMarked ==
  job["risk"].at = "place" /\ Cached /\ cache.plan = job["risk"].copy.plan => Submitted(cache)

IInv ==
  /\ TypeOK /\ Knows
  /\ PlansMade /\ OrdersKnown /\ CacheFresh /\ RiskFresh /\ PlaceMarked
  /\ OneOrderPerPlan

LEMMA InitIInv == Init => IInv
<1> SUFFICES ASSUME Init PROVE IInv
  OBVIOUS
<1>1. TypeOK /\ Knows
  BY InitTypes, InitKnows
<1>2. \A o \in Orders : order[o].plan = 0 /\ ~Accepted(o)
  BY DEF Init, Accepted
<1>3. job["risk"] = IdleJob /\ cache = NoEntry /\ plans = 0
  BY DEF Init, Jobs
<1> QED BY <1>1, <1>2, <1>3 DEF IInv, PlansMade, OrdersKnown, CacheFresh, RiskFresh, PlaceMarked,
      OneOrderPerPlan, AboutToOrder, IdleJob, NoEntry, Cached

\* A step that sends no order and names no plan anew keeps what is unordered.
LEMMA UnorderedStays ==
  ASSUME \A o \in Orders : order'[o].plan = order[o].plan /\ (Accepted(o)' <=> Accepted(o))
  PROVE  Unordered' = Unordered /\ (OneOrderPerPlan => OneOrderPerPlan')
BY DEF Unordered, OneOrderPerPlan

\* Steps after which the cache holds what it held, nothing, or a new plan, and
\* the risk run is where it was, or idle.
LEMMA OtherSteps ==
  ASSUME IInv, TypeOK', Knows',
         \A o \in Orders : order'[o].plan = order[o].plan /\ (Accepted(o)' <=> Accepted(o)),
         job'["risk"] \in {job["risk"], IdleJob},
         \/ cache' \in {cache, NoEntry} /\ plans' = plans
         \/ plans < MaxPlans /\ plans' = plans + 1 /\ cache' = [NoEntry EXCEPT !.plan = plans']
  PROVE  IInv'
<1> USE DEF IInv
<1>1. Unordered' = Unordered /\ OneOrderPerPlan'
  BY UnorderedStays
<1>2. plans \in Nat /\ \A o \in Orders : order[o].plan \in Nat
  BY Bounds DEF TypeOK
<1>3. plans + 1 \in Plans /\ plans < MaxPlans => plans + 1 \in Unordered
  BY <1>2 DEF PlansMade, Unordered
<1>4. CASE cache' \in {cache, NoEntry} /\ plans' = plans
  BY <1>1, <1>2, <1>4 DEF PlansMade, OrdersKnown, CacheFresh, RiskFresh, PlaceMarked, AboutToOrder,
       Cached, NoEntry, IdleJob, Submitted
<1>5. CASE plans < MaxPlans /\ plans' = plans + 1 /\ cache' = [NoEntry EXCEPT !.plan = plans']
  <2>1. cache'.plan = plans + 1 /\ cache'.plan \in Unordered
    BY <1>3, <1>5, NewEntry DEF NoEntry
  <2>2. job["risk"].copy.plan \in Nat /\ job["risk"].copy.plan <= plans
    BY Bounds DEF PlansMade, TypeOK, Job, Jobs, Entry, NoEntry, Plans
  <2>3. PlansMade'
    BY <1>2, <1>5, <2>1, <2>2 DEF PlansMade, IdleJob, NoEntry
  <2>4. OrdersKnown' /\ CacheFresh' /\ RiskFresh'
    BY <1>1, <2>1 DEF OrdersKnown, CacheFresh, RiskFresh, AboutToOrder, IdleJob
  <2>5. PlaceMarked'
    BY <1>2, <2>1, <2>2 DEF PlaceMarked, IdleJob
  <2> QED BY <1>1, <2>3, <2>4, <2>5
<1> QED BY <1>4, <1>5

LEMMA CancelKeeps ==
  ASSUME IInv, TypeOK', Knows', NEW j \in Jobs, CancelStep(j)
  PROVE  IInv'
<1> USE DEF IInv
<1>a. job \in [Jobs -> Job] /\ order \in [Orders -> [plan : 0 .. MaxPlans, state : OrderState]]
  BY DEF TypeOK
<1>1. CASE j # "risk"
  <2>1. job'["risk"] = job["risk"]
    BY <1>1, <1>a DEF CancelStep, CancelCheck, CancelQuery, CancelWithdraw, CancelClear, Goes, Ends, Jobs
  <2>2. \A o \in Orders : order'[o].plan = order[o].plan /\ (Accepted(o)' <=> Accepted(o))
    BY <1>a DEF CancelStep, CancelCheck, CancelQuery, CancelWithdraw, CancelClear, executor, Accepted
  <2>3. cache' \in {cache, NoEntry} /\ plans' = plans
    BY DEF CancelStep, CancelCheck, CancelQuery, CancelWithdraw, CancelClear
  <2> QED BY <2>1, <2>2, <2>3, OtherSteps
<1>2. CASE j = "risk"
  <2>1. /\ job["risk"].at \in {"cancel", "query", "withdraw", "clear"}
        /\ job'["risk"].at \in {"idle", "query", "withdraw", "clear"}
        /\ job'["risk"].copy.plan \in {0, job["risk"].copy.plan}
    BY <1>2, <1>a DEF CancelStep, CancelCheck, CancelQuery, CancelWithdraw, CancelClear, Goes, Ends,
         Jobs, IdleJob, NoEntry, Job
  <2>2. \A o \in Orders : order'[o].plan = order[o].plan /\ (Accepted(o)' <=> Accepted(o))
    BY <1>a DEF CancelStep, CancelCheck, CancelQuery, CancelWithdraw, CancelClear, executor, Accepted
  <2>3. cache' \in {cache, NoEntry} /\ plans' = plans /\ plans \in Nat
    BY Bounds DEF CancelStep, CancelCheck, CancelQuery, CancelWithdraw, CancelClear, TypeOK
  <2>4. Unordered' = Unordered /\ OneOrderPerPlan'
    BY <2>2, UnorderedStays
  <2>5. PlansMade'
    BY <2>1, <2>2, <2>3 DEF PlansMade, NoEntry
  <2>6. OrdersKnown' /\ RiskFresh' /\ PlaceMarked'
    BY <2>1 DEF OrdersKnown, RiskFresh, PlaceMarked, AboutToOrder
  <2>7. CacheFresh'
    BY <2>3, <2>4 DEF CacheFresh, Cached
  <2> QED BY <2>4, <2>5, <2>6, <2>7
<1> QED BY <1>1, <1>2

\* The risk run up to the call of the executor, which sends no order yet.
LEMMA RiskPrepares ==
  ASSUME IInv, TypeOK', Knows',
         \/ RiskLoad \/ RiskExpire \/ RiskDeclines \/ RiskResize \/ RiskCheck \/ RiskMark
  PROVE  IInv'
<1> USE DEF IInv
<1>a. /\ job \in [Jobs -> Job] /\ "risk" \in Jobs /\ plans \in Nat
      /\ cache \in Entry \cup {NoEntry}
  BY Bounds DEF TypeOK, Jobs
<1>b. order' = order /\ plans' = plans
  BY DEF RiskLoad, RiskExpire, RiskDeclines, RiskResize, RiskCheck, RiskMark, executor
<1>c. Unordered' = Unordered /\ OneOrderPerPlan'
  BY <1>b, UnorderedStays DEF Accepted
<1>1. CASE RiskLoad
  <2>1. job'["risk"].at = "expire" /\ job'["risk"].copy = cache /\ cache' = cache /\ Cached
    BY <1>a, <1>1 DEF RiskLoad, Takes, Job
  <2> QED BY <1>b, <1>c, <2>1 DEF PlansMade, OrdersKnown, CacheFresh, RiskFresh, PlaceMarked, AboutToOrder, Cached
<1>2. CASE RiskExpire
  <2>1. CASE cache' = NoEntry /\ Takes("risk", "cancel", cache)
    <3>1. job'["risk"].at = "cancel" /\ job'["risk"].copy = cache
      BY <1>a, <2>1 DEF Takes, Job
    <3> QED BY <1>a, <1>b, <1>c, <2>1, <3>1 DEF PlansMade, OrdersKnown, CacheFresh, RiskFresh, PlaceMarked,
          AboutToOrder, Cached, NoEntry
  <2>2. CASE cache' = cache /\ Ends("risk")
    <3>1. job'["risk"] = IdleJob
      BY <1>a, <2>2 DEF Ends
    <3> QED BY <1>a, <1>b, <1>c, <2>2, <3>1 DEF PlansMade, OrdersKnown, CacheFresh, RiskFresh, PlaceMarked,
          AboutToOrder, Cached, NoEntry, IdleJob
  <2>3. CASE cache' = cache /\ ~Submitted(job["risk"].copy) /\ Goes("risk", "quote")
    <3>1. job'["risk"].at = "quote" /\ job'["risk"].copy = job["risk"].copy /\ job["risk"].at = "expire"
      BY <1>a, <1>2, <2>3 DEF Goes, Job, RiskExpire
    <3> QED BY <1>a, <1>b, <1>c, <2>3, <3>1 DEF PlansMade, OrdersKnown, CacheFresh, RiskFresh, PlaceMarked,
          AboutToOrder, Cached
  <2> QED BY <1>2, <2>1, <2>2, <2>3 DEF RiskExpire
<1>3. CASE RiskDeclines
  <2>1. job'["risk"] = IdleJob /\ cache' = cache
    BY <1>a, <1>3 DEF RiskDeclines, Ends
  <2> QED BY <1>a, <1>b, <1>c, <2>1 DEF PlansMade, OrdersKnown, CacheFresh, RiskFresh, PlaceMarked,
        AboutToOrder, Cached, NoEntry, IdleJob
<1>4. CASE RiskResize
  <2>1. /\ job["risk"].at = "quote" /\ job'["risk"].at = "check"
        /\ job'["risk"].copy = job["risk"].copy /\ job["risk"].copy.plan \in Unordered
    BY <1>a, <1>4 DEF RiskResize, Goes, Job, RiskFresh, AboutToOrder
  <2>2. \/ cache' = cache /\ ~Cached
        \/ cache'.plan = job["risk"].copy.plan
    BY <1>a, <1>4 DEF RiskResize, Entry, Cached
  <2>3. PlansMade'
    BY <1>b, <2>1, <2>2 DEF PlansMade
  <2> QED BY <1>c, <2>1, <2>2, <2>3 DEF OrdersKnown, CacheFresh, RiskFresh, PlaceMarked, AboutToOrder, Cached
<1>5. CASE RiskCheck
  <2>1. cache' = cache /\ job["risk"].at = "check"
    BY <1>5 DEF RiskCheck
  <2>2. \/ job'["risk"] = IdleJob
        \/ job'["risk"].at = "mark" /\ job'["risk"].copy = job["risk"].copy
    BY <1>a, <1>5 DEF RiskCheck, Goes, Ends, Job
  <2> QED BY <1>a, <1>b, <1>c, <2>1, <2>2 DEF PlansMade, OrdersKnown, CacheFresh, RiskFresh, PlaceMarked,
        AboutToOrder, Cached, NoEntry, IdleJob
<1>6. CASE RiskMark
  <2>1. orders' \in Orders
    BY <1>6, Bounds DEF RiskMark, TypeOK, Orders
  <2>2. /\ job["risk"].at = "mark" /\ job'["risk"].at = "place" /\ job'["risk"].trade = orders'
        /\ job'["risk"].copy = job["risk"].copy
    BY <1>a, <1>6 DEF RiskMark, Job
  <2>3. \/ cache' = cache /\ ~Cached
        \/ Cached /\ cache'.plan = cache.plan /\ cache'.client = orders'
    BY <1>a, <1>6 DEF RiskMark, UpdateOrder, Cached, Entry
  <2>4. Cached' => Submitted(cache)'
    BY <2>1, <2>3, Bounds DEF Submitted, Cached, Orders
  <2>5. PlansMade'
    BY <1>b, <2>2, <2>3 DEF PlansMade
  <2>6. OrdersKnown' /\ CacheFresh' /\ PlaceMarked'
    BY <2>1, <2>2, <2>4 DEF OrdersKnown, CacheFresh, PlaceMarked
  <2>7. RiskFresh'
    BY <1>c, <2>2, <2>3 DEF RiskFresh, AboutToOrder, Cached
  <2> QED BY <1>c, <2>5, <2>6, <2>7
<1> QED BY <1>1, <1>2, <1>3, <1>4, <1>5, <1>6

\* The call of the executor, and what the run does with the answer.
LEMMA RiskOrders ==
  ASSUME IInv, TypeOK', Knows', RiskPlace \/ RiskAnswer \/ RiskReset
  PROVE  IInv'
<1> USE DEF IInv
<1>a. /\ job \in [Jobs -> Job] /\ "risk" \in Jobs /\ plans \in Nat
      /\ cache \in Entry \cup {NoEntry}
      /\ order \in [Orders -> [plan : 0 .. MaxPlans, state : OrderState]]
  BY Bounds DEF TypeOK, Jobs
<1>1. CASE RiskPlace
  <2>0. job["risk"].at = "place" /\ job["risk"].trade \in Orders
    BY <1>1 DEF RiskPlace, OrdersKnown
  <2>p. PICK o \in Orders, p \in Plans : o = job["risk"].trade /\ p = job["risk"].copy.plan
    BY <2>0 DEF RiskFresh, AboutToOrder, Unordered
  <2>1. job["risk"].at = "place" /\ cache' = cache /\ plans' = plans
    BY <1>1 DEF RiskPlace
  <2>2. p \in Unordered /\ (Cached => cache.plan \in Unordered)
    BY <2>1, <2>p DEF RiskFresh, AboutToOrder
  <2>3. \E state \in {"resting", "refused"} :
          /\ Sends(o, state)
          /\ state = "refused" \/ job'["risk"].at \in {"answer", "idle"}
    BY <1>a, <1>1, <2>p DEF RiskPlace, Goes, Ends, IdleJob, Job
  <2>4. PICK state \in {"resting", "refused"} :
          Sends(o, state) /\ (state = "refused" \/ job'["risk"].at \in {"answer", "idle"})
    BY <2>3
  <2>5. /\ order'[o].plan = p /\ \A q \in Orders \ {o} : order'[q] = order[q]
        /\ Accepted(o)' <=> state = "resting"
    BY <1>a, <2>4, <2>p DEF Sends, Accepted
  <2>6. /\ job'["risk"].at \in {"answer", "idle", "reset"}
        /\ job'["risk"].copy.plan \in {0, p}
        /\ job'["risk"].at # "idle" => job'["risk"].copy = job["risk"].copy /\ job'["risk"].trade = o
    BY <1>a, <1>1, <2>p DEF RiskPlace, Goes, Ends, IdleJob, NoEntry, Job
  <2>7. PlansMade'
    BY <1>a, <2>1, <2>5, <2>6, <2>p DEF PlansMade
  <2>8. OneOrderPerPlan'
    <3> SUFFICES ASSUME NEW q \in Orders, NEW r \in Orders, Accepted(q)', Accepted(r)',
                        order'[q].plan = order'[r].plan
                 PROVE  q = r
      BY DEF OneOrderPerPlan
    <3>1. \A x \in Orders \ {o} : (Accepted(x)' <=> Accepted(x)) /\ (order[x].plan = p => ~Accepted(x))
      BY <2>2, <2>5 DEF Accepted, Unordered
    <3> QED BY <2>5, <3>1 DEF OneOrderPerPlan
  <2>9. \A x \in Unordered : x # p \/ state = "refused" => x \in Unordered'
    BY <2>5 DEF Unordered, Accepted
  <2>10. CacheFresh'
    BY <2>1, <2>2, <2>9, <2>p DEF CacheFresh, PlaceMarked, Cached
  <2>11. OrdersKnown' /\ PlaceMarked'
    BY <2>1, <2>6, <2>p DEF OrdersKnown, PlaceMarked
  <2>12. RiskFresh'
    BY <2>1, <2>2, <2>4, <2>6, <2>9, <2>p DEF RiskFresh, AboutToOrder, Cached
  <2> QED BY <2>7, <2>8, <2>10, <2>11, <2>12
<1>2. CASE RiskAnswer \/ RiskReset
  <2>1. order' = order /\ plans' = plans
    BY <1>2 DEF RiskAnswer, RiskReset, executor
  <2>2. Unordered' = Unordered /\ OneOrderPerPlan'
    BY <2>1, UnorderedStays DEF Accepted
  <2>3. job'["risk"] = IdleJob
    BY <1>a, <1>2 DEF RiskAnswer, RiskReset, Ends
  <2>4. cache'.plan = cache.plan
    BY <1>a, <1>2 DEF RiskAnswer, RiskReset, UpdateOrder, Cached, Entry
  <2>5. PlansMade' /\ OrdersKnown' /\ RiskFresh' /\ PlaceMarked'
    BY <1>a, <2>1, <2>3, <2>4 DEF PlansMade, OrdersKnown, RiskFresh, PlaceMarked, AboutToOrder, IdleJob, NoEntry
  <2>6. CASE RiskReset
    <3>1. Cached' => Cached
      BY <2>6 DEF RiskReset, Cached
    <3>2. Cached => cache.plan \in Unordered
      BY <2>6 DEF RiskReset, RiskFresh, AboutToOrder
    <3> QED BY <2>2, <2>4, <2>5, <3>1, <3>2 DEF CacheFresh
  <2>7. CASE RiskAnswer
    <3>1. job["risk"].trade # 0
      BY <2>7, Bounds DEF RiskAnswer, OrdersKnown, Orders
    <3>2. Cached' => Submitted(cache)'
      BY <1>a, <2>7, <3>1 DEF RiskAnswer, UpdateOrder, Cached, Submitted, Entry
    <3> QED BY <2>2, <2>5, <3>2 DEF CacheFresh
  <2> QED BY <1>2, <2>6, <2>7
<1> QED BY <1>1, <1>2

LEMMA NextIInv == IInv /\ [Next]_vars => IInv'
<1> SUFFICES ASSUME IInv, [Next]_vars PROVE IInv'
  OBVIOUS
<1>0. TypeOK' /\ Knows'
  BY NextTypes DEF IInv
<1>a. /\ job \in [Jobs -> Job] /\ "risk" \in Jobs /\ "decide" \in Jobs /\ "reconcile" \in Jobs
      /\ order \in [Orders -> [plan : 0 .. MaxPlans, state : OrderState]]
  BY DEF IInv, TypeOK, Jobs
<1>1. CASE CancelStep("decide") \/ CancelStep("risk")
  BY <1>0, <1>1, <1>a, CancelKeeps
<1>2. CASE DecideStart \/ DecideNothing \/ DecideUpsert
  <2>1. job'["risk"] = job["risk"]
    BY <1>2, <1>a DEF DecideStart, DecideNothing, DecideUpsert, Goes, Takes, Ends
  <2>2. order' = order
    BY <1>2 DEF DecideStart, DecideNothing, DecideUpsert, executor
  <2>3. \/ cache' = cache /\ plans' = plans
        \/ plans < MaxPlans /\ plans' = plans + 1 /\ cache' = [NoEntry EXCEPT !.plan = plans']
    BY <1>2 DEF DecideStart, DecideNothing, DecideUpsert
  <2> QED BY <1>0, <2>1, <2>2, <2>3, OtherSteps DEF Accepted
<1>3. CASE RiskLoad \/ RiskExpire \/ RiskDeclines \/ RiskResize \/ RiskCheck \/ RiskMark
  BY <1>0, <1>3, RiskPrepares
<1>4. CASE RiskPlace \/ RiskAnswer \/ RiskReset
  BY <1>0, <1>4, RiskOrders
<1>5. CASE ReconcileStart \/ ReconcileStep
  <2>1. job'["risk"] = job["risk"]
    BY <1>5, <1>a DEF ReconcileStep, ReconcileStart, ReconcileMatch, ReconcileInsert, ReconcileRemove,
         ReconcileOrders, OpensWith, SecondPass, Goes, Ends
  <2>2. order' = order /\ cache' \in {cache, NoEntry} /\ plans' = plans
    BY <1>5 DEF ReconcileStep, ReconcileStart, ReconcileMatch, ReconcileInsert, ReconcileRemove,
         ReconcileOrders, executor
  <2> QED BY <1>0, <2>1, <2>2, OtherSteps DEF Accepted
<1>6. CASE Outside
  <2>1. job'["risk"] \in {job["risk"], IdleJob}
    BY <1>6, <1>a DEF Outside, Fill, GivenUp, Sold, OrderMoves, Elapse, RowCloses, Debug, Restart
  <2>2. \A o \in Orders : order'[o].plan = order[o].plan /\ (Accepted(o)' <=> Accepted(o))
    BY <1>6, <1>a DEF Outside, Fill, GivenUp, Sold, OrderMoves, Elapse, RowCloses, Debug, Restart,
         executor, Accepted
  <2>3. \/ cache' \in {cache, NoEntry} /\ plans' = plans
        \/ plans < MaxPlans /\ plans' = plans + 1 /\ cache' = [NoEntry EXCEPT !.plan = plans']
    BY <1>6 DEF Outside, Fill, GivenUp, Sold, OrderMoves, Elapse, RowCloses, Debug, Restart
  <2> QED BY <1>0, <2>1, <2>2, <2>3, OtherSteps
<1>7. CASE UNCHANGED vars
  BY <1>0, <1>7, OtherSteps DEF vars, executor, Accepted
<1> QED
  BY <1>1, <1>2, <1>3, <1>4, <1>5, <1>6, <1>7 DEF Next, DecideStep, RiskStep, Outside

\* The executor accepts at most one entry order of a plan: however many plans
\* and orders there are, whichever answers are lost, jobs overlap, plans are
\* replaced or injected, and the process restarts.
THEOREM PlanOrderedOnce == Spec => []OneOrderPerPlan
<1>1. IInv => OneOrderPerPlan
  BY DEF IInv
<1> QED BY InitIInv, NextIInv, <1>1, PTL DEF Spec

-----------------------------------------------------------------------------
(* Trades in calm.  With one job at a time a copy cannot go stale: what a  *)
(* job has in hand is what the cache holds, or held when the job took it   *)
(* out, and no row is open while a plan is cached.                         *)

\* An idle job has nothing in hand, and one job at most is not idle.
Alone ==
  /\ \A j \in Jobs : job[j].at = "idle" => job[j] = IdleJob
  /\ \A j, k \in Jobs : job[j].at = "idle" \/ job[k].at = "idle" \/ j = k

\* The trade a cached plan carries was ordered for it.
EntryOrder == cache.ext # 0 => order[cache.ext].plan = cache.plan

\* The symbol is flat while a plan is made, cached or taken back, but for the
\* moment between the insertion of its row and its removal from the cache.
Replacing == {"think", "cancel", "query", "withdraw", "clear"}
Flat ==
  /\ Cached => row = NoRow \/ job["reconcile"].at = "remove"
  /\ \A j \in Jobs : job[j].at \in Replacing => row = NoRow

\* A plan is looked at, and ordered, as it is cached; the order that is being
\* placed is in hand only.
Looking == {"expire", "quote", "check", "mark"}
Placing == {"place", "answer", "reset"}
RiskHolds ==
  LET r == job["risk"] IN
  /\ r.at \in Looking => r.copy = cache /\ r.trade = 0
  /\ r.at \in {"mark"} \cup Placing => Cached /\ cache.ext = 0 /\ r.copy.ext = 0
  /\ r.at \in Placing => cache.plan = r.copy.plan /\ r.trade \in Orders
  /\ r.at = "answer" => order[r.trade].plan = r.copy.plan
  /\ r.at = "reset" => order[r.trade].state = "refused"

\* An order that has its fill, or may get it.
Live(o) == order[o].state \in {"resting", "filled"}

\* Orders are withdrawn one at a time, and let go of when they are gone or noted.
CancelHolds ==
  \A j \in Jobs : job[j].at \in Replacing =>
    /\ job[j].trade = 0
    /\ job[j].at = "think" => job[j].copy.ext = 0
    /\ job[j].at = "clear" =>
         /\ job[j].copy.ext \in Orders
         /\ job[j].copy.ext \in left \/ ~Live(job[j].copy.ext)

\* The trades a reconcile run has seen are the cached plan's, or noted; the one it
\* opens a row for is among them.
ReconcileHolds ==
  LET r == job["reconcile"] IN
  /\ r.at \in {"match", "orders"} => r.copy = NoEntry /\ r.trade = 0
  /\ r.at = "match" => \A o \in r.seen : HasFill(o) /\ (Cached => o \in left \/ o = cache.ext)
  /\ r.at \in {"insert", "remove"} =>
       /\ r.copy = cache /\ Cached /\ cache.ext \in {0, r.trade}
       /\ r.trade \in Orders /\ HasFill(r.trade)
       /\ cache.ext = 0 => r.trade \in left
  /\ r.at = "remove" => r.trade \in left \/ row.trade = r.trade \/ ~Live(r.trade)

RowFilled == row # NoRow => row.trade \in Orders /\ HasFill(row.trade)
RowMatches == row # NoRow => row.plan = order[row.trade].plan \/ row.trade \in left

\* TradesAreRemembered, for an order from the moment it may fill.
Remembered(o) ==
  \/ row.trade = o \/ cache.ext = o \/ o \in left
  \/ \E j \in Jobs : job[j].trade = o \/ job[j].copy.ext = o
LiveRemembered == \A o \in Orders : Live(o) => Remembered(o)

CalmInv ==
  /\ Alone /\ EntryOrder /\ Flat
  /\ RiskHolds /\ CancelHolds /\ ReconcileHolds
  /\ RowFilled /\ RowMatches /\ LiveRemembered

LEMMA InitCalm == Init => CalmInv
<1> SUFFICES ASSUME Init PROVE CalmInv
  OBVIOUS
<1>1. \A j \in Jobs : job[j] = IdleJob
  BY DEF Init
<1>2. "risk" \in Jobs /\ "reconcile" \in Jobs
  BY DEF Jobs
<1>3. Alone /\ Flat /\ RiskHolds /\ CancelHolds /\ ReconcileHolds
  BY <1>1, <1>2 DEF Init, Alone, Flat, RiskHolds, CancelHolds, ReconcileHolds, IdleJob, Cached,
       Replacing, Looking, Placing
<1>4. EntryOrder /\ RowFilled /\ RowMatches /\ LiveRemembered
  BY DEF Init, EntryOrder, RowFilled, RowMatches, LiveRemembered, Live, NoEntry
<1> QED BY <1>3, <1>4 DEF CalmInv

\* In calm the other jobs are idle while one starts or goes on.
LEMMA OthersIdle ==
  ASSUME Calm, CalmInv, NEW j \in Jobs, job[j].at # "idle" \/ MayStart(j)
  PROVE  /\ \A k \in Jobs \ {j} : job[k] = IdleJob
         /\ job[j].at = "idle" => job[j] = IdleJob
BY DEF Calm, CalmInv, Alone, MayStart

\* What is left to show of a step of one job.
LEMMA CalmAfter ==
  ASSUME NEW j \in Jobs, \A k \in Jobs \ {j} : job'[k] = IdleJob,
         job'[j].at = "idle" => job'[j] = IdleJob
  PROVE  /\ Alone'
         /\ j # "risk" => RiskHolds'
         /\ j # "reconcile" => ReconcileHolds'
         /\ job'[j].at \notin Replacing => CancelHolds'
         /\ job'[j].at \notin Replacing /\ (Cached' => row' = NoRow) => Flat'
         /\ row' = NoRow => Flat'
<1>1. IdleJob.at = "idle"
  BY DEF IdleJob
<1>2. "risk" \in Jobs /\ "reconcile" \in Jobs
  BY DEF Jobs
<1>3. Alone'
  BY <1>1 DEF Alone
<1>4. j # "risk" => RiskHolds'
  BY <1>1, <1>2 DEF RiskHolds, Looking, Placing
<1>5. j # "reconcile" => ReconcileHolds'
  BY <1>1, <1>2 DEF ReconcileHolds
<1>6. job'[j].at \notin Replacing => CancelHolds'
  BY <1>1 DEF CancelHolds, Replacing
<1>7. /\ job'[j].at \notin Replacing /\ (Cached' => row' = NoRow) => Flat'
      /\ row' = NoRow => Flat'
  BY <1>1 DEF Flat, Replacing
<1> QED BY <1>3, <1>4, <1>5, <1>6, <1>7

\* What a job is after each of the ways to move it.
LEMMA JobAfter ==
  ASSUME TypeOK, NEW j \in Jobs, NEW at, NEW e
  PROVE  /\ Goes(j, at) => /\ job'[j].at = at /\ job'[j].copy = job[j].copy
                           /\ job'[j].trade = job[j].trade /\ job'[j].seen = job[j].seen
                           /\ \A k \in Jobs \ {j} : job'[k] = job[k]
         /\ Takes(j, at, e) => /\ job'[j].at = at /\ job'[j].copy = e
                               /\ job'[j].trade = job[j].trade /\ job'[j].seen = job[j].seen
                               /\ \A k \in Jobs \ {j} : job'[k] = job[k]
         /\ Ends(j) => job'[j] = IdleJob /\ \A k \in Jobs \ {j} : job'[k] = job[k]
<1>1. job \in [Jobs -> Job]
  BY DEF TypeOK
<1> QED BY <1>1 DEF Goes, Takes, Ends, Job

\* Only the job that is at work has an order in hand.
LEMMA OneHand ==
  ASSUME NEW j \in Jobs, NEW o \in Orders
  PROVE  /\ (\A k \in Jobs \ {j} : job[k] = IdleJob) =>
              (Remembered(o) <=> \/ row.trade = o \/ cache.ext = o \/ o \in left
                                 \/ job[j].trade = o \/ job[j].copy.ext = o)
         /\ (\A k \in Jobs \ {j} : job'[k] = IdleJob) =>
              (Remembered(o)' <=> \/ row'.trade = o \/ cache'.ext = o \/ o \in left'
                                  \/ job'[j].trade = o \/ job'[j].copy.ext = o)
<1>1. o # 0
  BY Bounds DEF Orders
<1>2. IdleJob.trade = 0 /\ IdleJob.copy.ext = 0
  BY DEF IdleJob, NoEntry
<1> QED BY <1>1, <1>2 DEF Remembered

\* Where orders and row are left alone, and nothing noted is forgotten.
LEMMA SameTrades ==
  ASSUME CalmInv, order' = order, row' = row, left \subseteq left'
  PROVE  /\ RowFilled' /\ RowMatches'
         /\ cache'.ext \in {0, cache.ext} /\ cache'.plan = cache.plan => EntryOrder'
         /\ cache'.ext = 0 => EntryOrder'
BY DEF CalmInv, RowFilled, RowMatches, EntryOrder, HasFill

\* A live order stays remembered in a step of one job that forgets none it has
\* in hand or finds cached.
LEMMA StillRemembered ==
  ASSUME CalmInv, NEW j \in Jobs,
         \A k \in Jobs \ {j} : job[k] = IdleJob, \A k \in Jobs \ {j} : job'[k] = IdleJob,
         order' = order, row' = row, left \subseteq left',
         \A o \in Orders :
           Live(o) /\ (cache.ext = o \/ job[j].trade = o \/ job[j].copy.ext = o) =>
             cache'.ext = o \/ o \in left' \/ job'[j].trade = o \/ job'[j].copy.ext = o
  PROVE  LiveRemembered'
<1> SUFFICES ASSUME NEW o \in Orders, Live(o)' PROVE Remembered(o)'
  BY DEF LiveRemembered
<1>1. Live(o) /\ Remembered(o)
  BY DEF CalmInv, LiveRemembered, Live
<1> QED BY <1>1, OneHand

LEMMA CalmDecide ==
  ASSUME TypeOK, Calm, CalmInv, DecideStart \/ DecideNothing \/ DecideUpsert
  PROVE  CalmInv'
<1> DEFINE j == "decide"
<1>j. j \in Jobs /\ j # "risk" /\ j # "reconcile"
  BY DEF Jobs
<1> HIDE DEF j
<1>a. (job[j].at # "idle" \/ MayStart(j)) /\ order' = order /\ row' = row /\ left' = left
  BY DEF j, DecideStart, DecideNothing, DecideUpsert, executor, history
<1>b. \A k \in Jobs \ {j} : job[k] = IdleJob
  BY <1>a, <1>j, OthersIdle
<1>c. CalmInv => /\ Alone /\ EntryOrder /\ Flat /\ RiskHolds /\ CancelHolds /\ ReconcileHolds
                 /\ RowFilled /\ RowMatches /\ LiveRemembered
  BY DEF CalmInv
<1>1. CASE DecideStart
  <2>1. /\ job[j] = IdleJob /\ row = NoRow /\ cache' = cache
        /\ job'[j].at = "think" /\ job'[j].copy = job[j].copy /\ job'[j].trade = job[j].trade
        /\ \A k \in Jobs \ {j} : job'[k] = IdleJob
    BY <1>1, <1>a, <1>b, <1>j, JobAfter, OthersIdle DEF j, DecideStart, MayStart
  <2>2. CancelHolds'
    BY <2>1, <1>j DEF CancelHolds, Replacing, IdleJob, NoEntry
  <2>3. LiveRemembered'
    BY <2>1, <1>a, <1>b, <1>j, StillRemembered
  <2> QED BY <2>1, <2>2, <2>3, <1>a, <1>j, CalmAfter, SameTrades DEF CalmInv
<1>2. CASE DecideNothing
  <2>1. /\ job[j].at = "think" /\ cache' = cache /\ job'[j] = IdleJob
        /\ \A k \in Jobs \ {j} : job'[k] = IdleJob
    BY <1>2, <1>b, <1>j, JobAfter DEF j, DecideNothing
  <2>2. row = NoRow /\ job[j].trade = 0 /\ job[j].copy.ext = 0
    BY <2>1, <1>c, <1>j DEF Flat, CancelHolds, Replacing
  <2>3. LiveRemembered'
    BY <2>1, <2>2, <1>a, <1>b, <1>j, Bounds, StillRemembered DEF Orders
  <2>4. CancelHolds'
    BY <2>1, <1>j, CalmAfter DEF IdleJob, Replacing
  <2> QED BY <2>1, <2>2, <2>3, <2>4, <1>a, <1>j, CalmAfter, SameTrades DEF CalmInv
<1>3. CASE DecideUpsert
  <2>1. /\ job[j].at = "think" /\ cache'.ext = 0
        /\ \/ Cached /\ job'[j].at = "cancel" /\ job'[j].copy = cache /\ job'[j].trade = job[j].trade
           \/ ~Cached /\ job'[j] = IdleJob
        /\ \A k \in Jobs \ {j} : job'[k] = IdleJob
    BY <1>3, <1>b, <1>j, JobAfter DEF j, DecideUpsert, NoEntry
  <2>2. row = NoRow /\ job[j].trade = 0 /\ job[j].copy.ext = 0
    BY <2>1, <1>c, <1>j DEF Flat, CancelHolds, Replacing
  <2>3. LiveRemembered'
    BY <2>1, <2>2, <1>a, <1>b, <1>j, Bounds, StillRemembered DEF Orders, Cached, NoEntry
  <2>4. CancelHolds'
    BY <2>1, <2>2, <1>j DEF CancelHolds, Replacing, IdleJob
  <2>5. job'[j].at = "idle" => job'[j] = IdleJob
    BY <2>1
  <2> QED BY <2>1, <2>2, <2>3, <2>4, <2>5, <1>a, <1>j, CalmAfter, SameTrades DEF CalmInv
<1> QED BY <1>1, <1>2, <1>3

LEMMA CalmCancel ==
  ASSUME TypeOK, Knows, Calm, Calm', CalmInv, NEW j \in {"decide", "risk"}, CancelStep(j)
  PROVE  CalmInv'
<1>j. j \in Jobs /\ j # "reconcile"
  BY DEF Jobs
<1>a. job[j].at \in {"cancel", "query", "withdraw", "clear"} /\ row' = row
  BY DEF CancelStep, CancelCheck, CancelQuery, CancelWithdraw, CancelClear
<1>b. /\ \A k \in Jobs \ {j} : job[k] = IdleJob
      /\ row = NoRow /\ job[j].trade = 0
      /\ ~Fault("cancel")
  BY <1>a, <1>j, OthersIdle, Bounds DEF CalmInv, Flat, CancelHolds, Replacing, Calm, Fault
<1>c. /\ EntryOrder /\ Flat /\ CancelHolds /\ RowFilled /\ RowMatches /\ LiveRemembered
  BY DEF CalmInv
<1>1. \A k \in Jobs \ {j} : job'[k] = IdleJob
  BY <1>b, <1>j, JobAfter DEF CancelStep, CancelCheck, CancelQuery, CancelWithdraw, CancelClear
<1>2. \/ job'[j] = IdleJob
      \/ /\ job'[j].at \in {"query", "withdraw", "clear"}
         /\ job'[j].copy = job[j].copy /\ job'[j].trade = 0
  BY <1>b, <1>j, JobAfter DEF CancelStep, CancelCheck, CancelQuery, CancelWithdraw, CancelClear
<1>3. /\ Alone' /\ Flat' /\ ReconcileHolds' /\ (j # "risk" => RiskHolds')
  BY <1>1, <1>2, <1>a, <1>b, <1>j, CalmAfter DEF IdleJob
<1>4. RiskHolds'
  <2>1. job'[j].at \in {"idle", "query", "withdraw", "clear"}
    BY <1>2 DEF IdleJob
  <2> QED BY <1>3, <2>1 DEF RiskHolds, Looking, Placing
<1>5. RowFilled' /\ RowMatches'
  BY <1>a, <1>b DEF RowFilled, RowMatches
<1>6. CASE CancelCheck(j)
  <2>1. cache' = cache /\ order' = order /\ left' = left
    BY <1>6 DEF CancelCheck, executor, history
  <2>2. job'[j] = IdleJob => job[j].copy.ext = 0
    BY <1>6, <1>b, <1>j, JobAfter DEF CancelCheck, IdleJob
  <2>3. job'[j] = IdleJob \/ (job'[j].at = "query" /\ job'[j].trade = 0)
    BY <1>6, <1>b, <1>j, JobAfter DEF CancelCheck
  <2>4. LiveRemembered'
    BY <2>1, <2>2, <1>1, <1>2, <1>a, <1>b, <1>j, Bounds, StillRemembered DEF Orders
  <2>5. CancelHolds'
    BY <2>3, <1>1, <1>2, <1>j DEF CancelHolds, Replacing, IdleJob
  <2>6. EntryOrder'
    BY <2>1, <1>c, <1>a, SameTrades
  <2> QED BY <1>3, <1>4, <1>5, <2>4, <2>5, <2>6 DEF CalmInv
<1>7. CASE CancelQuery(j)
  <2>1. cache' = cache /\ order' = order /\ left \subseteq left'
    BY <1>7 DEF CancelQuery, executor, history
  <2>2. \/ job'[j] = IdleJob /\ (job[j].copy.ext \in left' \/ ~Live(job[j].copy.ext))
        \/ job'[j].at = "withdraw" /\ job'[j].copy = job[j].copy
    BY <1>7, <1>b, <1>j, JobAfter DEF CancelQuery, Live
  <2>3. \A o \in Orders : Live(o) /\ job[j].copy.ext = o => o \in left' \/ job'[j].copy.ext = o
    BY <2>2
  <2>4. LiveRemembered'
    BY <2>1, <2>3, <1>1, <1>a, <1>b, <1>j, Bounds, StillRemembered DEF Orders
  <2>5. CancelHolds'
    BY <2>2, <1>1, <1>2, <1>j DEF CancelHolds, Replacing, IdleJob
  <2>6. EntryOrder'
    BY <2>1, <1>c, <1>a, SameTrades
  <2> QED BY <1>3, <1>4, <1>5, <2>4, <2>5, <2>6 DEF CalmInv
<1>8. CASE CancelWithdraw(j)
  <2> DEFINE o == job[j].copy.ext
  <2>0. o \in Orders /\ order \in [Orders -> [plan : 0 .. MaxPlans, state : OrderState]]
    BY <1>8, <1>j DEF CancelWithdraw, Knows, CancelKnows, TypeOK
  <2>1. /\ cache' = cache /\ left \subseteq left'
        /\ job'[j].at = "clear" /\ job'[j].copy = job[j].copy
        /\ order' = [order EXCEPT ![o].state = IF @ = "resting" THEN "cancelled" ELSE @]
        /\ HasFill(o) => o \in left'
    BY <1>8, <1>b, <1>j, JobAfter DEF CancelWithdraw
  <2>2. /\ \A p \in Orders : Live(p)' => Live(p)
        /\ \A p \in Orders : order'[p].plan = order[p].plan
        /\ o \in left' \/ ~Live(o)'
    BY <2>0, <2>1 DEF Live, HasFill
  <2>4. LiveRemembered'
    BY <2>1, <2>2, <1>1, <1>a, <1>b, <1>c, <1>j, Bounds, OneHand DEF LiveRemembered, Orders
  <2>5. CancelHolds'
    BY <2>0, <2>1, <2>2, <1>1, <1>2, <1>j DEF CancelHolds, Replacing, IdleJob
  <2>6. cache.ext \in Orders \cup {0}
    BY DEF TypeOK, Entry, NoEntry, Orders
  <2>7. EntryOrder'
    BY <2>1, <2>2, <2>6, <1>c DEF EntryOrder
  <2> QED BY <1>3, <1>4, <1>5, <2>4, <2>5, <2>7 DEF CalmInv
<1>9. CASE CancelClear(j)
  <2>1. order' = order /\ left' = left /\ job'[j] = IdleJob
    BY <1>9, <1>j, JobAfter DEF CancelClear, executor, history
  <2>2. cache' = cache \/ (cache' = NoEntry /\ cache.ext = job[j].copy.ext)
    BY <1>9 DEF CancelClear
  <2>3. job[j].copy.ext \in left \/ ~Live(job[j].copy.ext)
    BY <1>9, <1>c, <1>j DEF CancelClear, CancelHolds, Replacing
  <2>4. LiveRemembered'
    BY <2>1, <2>2, <2>3, <1>1, <1>a, <1>b, <1>j, Bounds, StillRemembered DEF Orders
  <2>5. CancelHolds'
    BY <2>1, <1>1, <1>j DEF CancelHolds, Replacing, IdleJob
  <2>6. EntryOrder'
    BY <2>1, <2>2, <1>a, <1>c, SameTrades DEF NoEntry
  <2> QED BY <1>3, <1>4, <1>5, <2>4, <2>5, <2>6 DEF CalmInv
<1> QED BY <1>6, <1>7, <1>8, <1>9 DEF CancelStep

\* The risk run up to its order, and what it does with the answer.
LEMMA CalmRisk ==
  ASSUME TypeOK, Knows, Calm, Calm', CalmInv,
         \/ RiskLoad \/ RiskExpire \/ RiskDeclines \/ RiskResize \/ RiskCheck \/ RiskMark
         \/ RiskAnswer \/ RiskReset
  PROVE  CalmInv'
<1> DEFINE j == "risk"
<1>j. j \in Jobs /\ j # "reconcile"
  BY DEF Jobs
<1> HIDE DEF j
<1>a. (job[j].at # "idle" \/ MayStart(j)) /\ order' = order /\ row' = row /\ left' = left
  BY DEF j, RiskLoad, RiskExpire, RiskDeclines, RiskResize, RiskCheck, RiskMark, RiskAnswer, RiskReset,
     executor, history
<1>b. \A k \in Jobs \ {j} : job[k] = IdleJob
  BY <1>a, <1>j, OthersIdle
<1>c. CalmInv => /\ Alone /\ EntryOrder /\ Flat /\ RiskHolds /\ CancelHolds /\ ReconcileHolds
                 /\ RowFilled /\ RowMatches /\ LiveRemembered
  BY DEF CalmInv
<1>d. Cached => row = NoRow
  BY <1>b, <1>c, <1>j DEF Flat, IdleJob, Jobs
<1>e. cache \in Entry \cup {NoEntry} /\ job[j] \in Job
  BY <1>j DEF TypeOK
<1>r. /\ job[j].at \in Looking => job[j].copy = cache /\ job[j].trade = 0
      /\ job[j].at \in {"mark"} \cup Placing => Cached /\ cache.ext = 0 /\ job[j].copy.ext = 0
      /\ job[j].at \in Placing => cache.plan = job[j].copy.plan /\ job[j].trade \in Orders
      /\ job[j].at = "answer" => order[job[j].trade].plan = job[j].copy.plan
      /\ job[j].at = "reset" => order[job[j].trade].state = "refused"
  BY <1>c DEF j, RiskHolds
<1>0. ASSUME \A k \in Jobs \ {j} : job'[k] = IdleJob, job'[j].at = "idle" => job'[j] = IdleJob,
             job'[j].at \notin Replacing, cache' = NoEntry \/ Cached, EntryOrder', RiskHolds',
             \A o \in Orders :
               Live(o) /\ (cache.ext = o \/ job[j].trade = o \/ job[j].copy.ext = o) =>
                 cache'.ext = o \/ job'[j].trade = o \/ job'[j].copy.ext = o
      PROVE  CalmInv'
  <2>1. LiveRemembered'
    BY <1>0, <1>a, <1>b, <1>j, StillRemembered
  <2>2. Cached' => row' = NoRow
    BY <1>0, <1>a, <1>d DEF Cached
  <2> QED BY <1>0, <1>a, <1>j, <2>1, <2>2, CalmAfter, SameTrades DEF CalmInv
<1>1. CASE RiskLoad
  <2>1. /\ job[j] = IdleJob /\ Cached /\ cache' = cache
        /\ job'[j].at = "expire" /\ job'[j].copy = cache /\ job'[j].trade = job[j].trade
        /\ \A k \in Jobs \ {j} : job'[k] = IdleJob
    BY <1>1, <1>a, <1>b, <1>j, JobAfter, OthersIdle DEF j, RiskLoad, MayStart
  <2>2. RiskHolds'
    BY <2>1 DEF j, RiskHolds, Looking, Placing, IdleJob
  <2>3. EntryOrder'
    BY <2>1, <1>a, <1>c, SameTrades
  <2> QED BY <2>1, <2>2, <2>3, <1>0, Bounds DEF Orders, IdleJob, NoEntry, Replacing
<1>2. CASE RiskExpire
  <2>1. /\ job[j].at = "expire" /\ job[j].trade = 0 /\ job[j].copy = cache
        /\ \A k \in Jobs \ {j} : job'[k] = IdleJob
    BY <1>2, <1>b, <1>j, <1>r, JobAfter DEF j, RiskExpire, Looking
  <2>2. Cached
    BY <1>2, <2>1 DEF j, Knows, RiskKnows, Ordering, Cached, Entry, NoEntry, Plans
  <2>3. CASE cache' = NoEntry /\ Takes(j, "cancel", cache)
    <3>1. job'[j].at = "cancel" /\ job'[j].copy = cache /\ job'[j].trade = 0
      BY <2>1, <2>3, <1>j, JobAfter
    <3>2. EntryOrder' /\ RiskHolds'
      BY <2>3, <3>1, <1>a, SameTrades DEF j, RiskHolds, Looking, Placing, NoEntry
    <3>3. row' = NoRow
      BY <2>2, <1>a, <1>d
    <3>4. CancelHolds'
      BY <2>1, <3>1, <1>j DEF CancelHolds, Replacing, IdleJob
    <3>5. LiveRemembered'
      BY <2>1, <3>1, <1>a, <1>b, <1>j, Bounds, StillRemembered DEF Orders
    <3> QED BY <2>1, <3>1, <3>2, <3>3, <3>4, <3>5, <1>a, <1>j, CalmAfter, SameTrades DEF CalmInv
  <2>4. CASE cache' = cache /\ (Ends(j) \/ Goes(j, "quote"))
    <3>1. \/ job'[j] = IdleJob
          \/ job'[j].at = "quote" /\ job'[j].copy = job[j].copy /\ job'[j].trade = 0
      BY <2>1, <2>4, <1>j, JobAfter
    <3>2. RiskHolds'
      BY <2>1, <2>4, <3>1 DEF j, RiskHolds, Looking, Placing, IdleJob
    <3>3. EntryOrder'
      BY <2>4, <1>a, <1>c, SameTrades
    <3> QED BY <2>1, <2>2, <2>4, <3>1, <3>2, <3>3, <1>0, Bounds DEF Orders, IdleJob, Replacing
  <2> QED BY <1>2, <2>3, <2>4 DEF j, RiskExpire
<1>3. CASE RiskDeclines \/ RiskResize \/ RiskCheck
  <2>1. job[j].at \in {"quote", "check"} /\ job[j].trade = 0 /\ job[j].copy = cache
    BY <1>3, <1>r DEF j, RiskDeclines, RiskResize, RiskCheck, Looking
  <2>2. Cached
    BY <2>1 DEF j, Knows, RiskKnows, Ordering, Cached, Entry, NoEntry, Plans
  <2>3. cache' = cache
    BY <1>3, <1>e, <2>1 DEF j, RiskDeclines, RiskResize, RiskCheck, Entry, NoEntry
  <2>4. /\ \/ job'[j] = IdleJob
           \/ job'[j].at = "check" /\ job'[j].copy = job[j].copy /\ job'[j].trade = 0
           \/ /\ job'[j].at = "mark" /\ job'[j].copy = job[j].copy /\ job'[j].trade = 0
              /\ ~Submitted(cache)
        /\ \A k \in Jobs \ {j} : job'[k] = IdleJob
    <3>1. Ends(j) \/ Goes(j, "check") \/ (Goes(j, "mark") /\ ~Submitted(cache))
      BY <1>3 DEF j, RiskDeclines, RiskResize, RiskCheck
    <3> QED BY <2>1, <3>1, <1>b, <1>j, JobAfter
  <2>5. RiskHolds'
    BY <2>1, <2>2, <2>3, <2>4 DEF j, RiskHolds, Looking, Placing, IdleJob, Submitted, Cached
  <2>6. EntryOrder'
    BY <2>3, <1>a, <1>c, SameTrades
  <2> QED BY <2>1, <2>2, <2>3, <2>4, <2>5, <2>6, <1>0, Bounds DEF Orders, IdleJob, Replacing
<1>4. CASE RiskMark
  <2>1. /\ job[j].at = "mark" /\ job[j].trade = 0 /\ job[j].copy = cache
        /\ Cached /\ cache.ext = 0 /\ job[j].copy.ext = 0
    BY <1>4, <1>r DEF j, RiskMark, Looking
  <2>2. orders' \in Orders
    BY <1>4, Bounds DEF RiskMark, TypeOK, Orders
  <2>3. cache'.ext = 0 /\ cache'.plan = cache.plan /\ cache'.client # 0
    BY <1>4, <1>e, <2>1, <2>2, Bounds DEF RiskMark, UpdateOrder, Entry, Cached, Orders
  <2>4. /\ job'[j].at = "place" /\ job'[j].copy = job[j].copy /\ job'[j].trade = orders'
        /\ \A k \in Jobs \ {j} : job'[k] = IdleJob
    BY <1>4, <1>b, <1>j DEF j, RiskMark, TypeOK, Job
  <2>5. RiskHolds'
    BY <2>1, <2>2, <2>3, <2>4 DEF j, RiskHolds, Looking, Placing, Cached, NoEntry
  <2>6. EntryOrder'
    BY <2>3, <1>a, <1>c, SameTrades
  <2> QED BY <2>1, <2>3, <2>4, <2>5, <2>6, <1>0, Bounds DEF Orders, Replacing
<1>5. CASE RiskAnswer
  <2>1. /\ job[j].at = "answer" /\ job[j].trade \in Orders /\ Cached
        /\ cache.ext = 0 /\ job[j].copy.ext = 0 /\ cache.plan = job[j].copy.plan
        /\ order[job[j].trade].plan = job[j].copy.plan
    BY <1>5, <1>r DEF j, RiskAnswer, Placing
  <2>2. cache'.ext = job[j].trade /\ cache'.plan = cache.plan
    BY <1>5, <1>e, <2>1, Bounds DEF j, RiskAnswer, UpdateOrder, Entry, Cached, Orders
  <2>3. job'[j] = IdleJob /\ \A k \in Jobs \ {j} : job'[k] = IdleJob
    BY <1>5, <1>b, <1>j, JobAfter DEF j, RiskAnswer
  <2>4. EntryOrder'
    BY <2>1, <2>2, <1>a DEF EntryOrder
  <2>5. RiskHolds'
    BY <2>3 DEF j, RiskHolds, Looking, Placing, IdleJob
  <2> QED BY <2>1, <2>2, <2>3, <2>4, <2>5, <1>0, Bounds DEF Orders, IdleJob, Replacing
<1>6. CASE RiskReset
  <2>1. /\ job[j].at = "reset" /\ job[j].trade \in Orders /\ Cached
        /\ cache.ext = 0 /\ job[j].copy.ext = 0 /\ ~Live(job[j].trade)
    BY <1>6, <1>r DEF j, RiskReset, Placing, Live
  <2>2. cache'.ext = 0
    BY <1>6, <1>e, <2>1 DEF RiskReset, Entry, Cached
  <2>3. job'[j] = IdleJob /\ \A k \in Jobs \ {j} : job'[k] = IdleJob
    BY <1>6, <1>b, <1>j, JobAfter DEF j, RiskReset
  <2>4. EntryOrder'
    BY <2>2, <1>a, SameTrades
  <2>5. RiskHolds'
    BY <2>3 DEF j, RiskHolds, Looking, Placing, IdleJob
  <2> QED BY <2>1, <2>2, <2>3, <2>4, <2>5, <1>0, Bounds DEF Orders, IdleJob, Replacing
<1> QED BY <1>1, <1>2, <1>3, <1>4, <1>5, <1>6

\* The call of the executor, answered as it must be while there is no fault.
LEMMA CalmPlace ==
  ASSUME TypeOK, Knows, Calm, Calm', CalmInv, RiskPlace
  PROVE  CalmInv'
<1> DEFINE j == "risk"
           o == job[j].trade
<1>j. j \in Jobs /\ j # "reconcile"
  BY DEF Jobs
<1>1. /\ job[j].at = "place" /\ cache' = cache /\ row' = row /\ left' = left
      /\ ~Fault("unanswered")
  BY Bounds DEF RiskPlace, Calm, Fault
<1>b. \A k \in Jobs \ {j} : job[k] = IdleJob
  BY <1>1, <1>j, OthersIdle
<1>2. Cached /\ cache.ext = 0 /\ job[j].copy.ext = 0 /\ cache.plan = job[j].copy.plan /\ o \in Orders
  BY <1>1 DEF CalmInv, RiskHolds, Placing
<1>3. row = NoRow
  BY <1>2, <1>b, <1>j DEF CalmInv, Flat, IdleJob, Jobs
<1>4. \E state \in {"resting", "refused"}, at \in {"answer", "reset"} :
        Sends(o, state) /\ Goes(j, at) /\ (at = "reset" => state = "refused")
  BY <1>1 DEF RiskPlace
<1>5. PICK state \in {"resting", "refused"}, at \in {"answer", "reset"} :
        Sends(o, state) /\ Goes(j, at) /\ (at = "reset" => state = "refused")
  BY <1>4
<1>6. /\ order'[o] = [plan |-> job[j].copy.plan, state |-> state]
      /\ \A p \in Orders \ {o} : order'[p] = order[p]
  BY <1>2, <1>5 DEF Sends, TypeOK
<1>7. /\ job'[j].at = at /\ job'[j].copy = job[j].copy /\ job'[j].trade = o
      /\ \A k \in Jobs \ {j} : job'[k] = IdleJob
  BY <1>5, <1>b, <1>j, JobAfter
<1> HIDE DEF o
<1>8. RiskHolds'
  BY <1>1, <1>2, <1>5, <1>6, <1>7 DEF RiskHolds, Looking, Placing, Cached, o
<1>9. LiveRemembered'
  <2> SUFFICES ASSUME NEW p \in Orders, Live(p)' PROVE Remembered(p)'
    BY DEF LiveRemembered
  <2>1. CASE p = o
    BY <2>1, <1>7, <1>j, OneHand
  <2>2. CASE p # o
    <3>1. Live(p) /\ Remembered(p)
      BY <2>2, <1>6 DEF CalmInv, LiveRemembered, Live
    <3> QED BY <2>2, <3>1, <1>1, <1>b, <1>7, <1>j, OneHand DEF o
  <2> QED BY <2>1, <2>2
<1>10. EntryOrder' /\ RowFilled' /\ RowMatches'
  BY <1>1, <1>2, <1>3 DEF EntryOrder, RowFilled, RowMatches
<1> QED BY <1>1, <1>3, <1>5, <1>7, <1>8, <1>9, <1>10, <1>j, CalmAfter DEF CalmInv, Replacing

LEMMA CalmReconcile ==
  ASSUME TypeOK, Knows, Calm, CalmInv, ReconcileStart \/ ReconcileStep
  PROVE  CalmInv'
<1> DEFINE j == "reconcile"
<1>j. j \in Jobs /\ j # "risk"
  BY DEF Jobs
<1> HIDE DEF j
<1>a. (job[j].at # "idle" \/ MayStart(j)) /\ order' = order /\ left' = left
  BY DEF j, ReconcileStart, ReconcileStep, ReconcileMatch, ReconcileInsert, ReconcileRemove,
     ReconcileOrders, executor, history
<1>b. \A k \in Jobs \ {j} : job[k] = IdleJob
  BY <1>a, <1>j, OthersIdle
<1>c. CalmInv => /\ Alone /\ EntryOrder /\ Flat /\ RiskHolds /\ CancelHolds /\ ReconcileHolds
                 /\ RowFilled /\ RowMatches /\ LiveRemembered
  BY DEF CalmInv
<1>d. Cached => row = NoRow \/ job[j].at = "remove"
  BY <1>c DEF Flat, j
<1>e. cache \in Entry \cup {NoEntry} /\ job[j] \in Job /\ job \in [Jobs -> Job]
  BY <1>j DEF TypeOK
<1>r. /\ job[j].at \in {"match", "orders"} => job[j].copy = NoEntry /\ job[j].trade = 0
      /\ job[j].at = "match" =>
           \A o \in job[j].seen : HasFill(o) /\ (Cached => o \in left \/ o = cache.ext)
      /\ job[j].at \in {"insert", "remove"} =>
           /\ job[j].copy = cache /\ Cached /\ cache.ext \in {0, job[j].trade}
           /\ job[j].trade \in Orders /\ HasFill(job[j].trade)
           /\ cache.ext = 0 => job[j].trade \in left
      /\ job[j].at = "remove" =>
           job[j].trade \in left \/ row.trade = job[j].trade \/ ~Live(job[j].trade)
  BY <1>c DEF j, ReconcileHolds
<1>0. ASSUME row' = row, \A k \in Jobs \ {j} : job'[k] = IdleJob, job'[j].at = "idle" => job'[j] = IdleJob,
             job'[j].at \notin Replacing \cup {"remove"}, ReconcileHolds',
             \/ cache' = NoEntry
             \/ cache' = cache /\ job[j].at # "remove",
             \A o \in Orders :
               Live(o) /\ (cache.ext = o \/ job[j].trade = o \/ job[j].copy.ext = o) =>
                 row.trade = o \/ cache'.ext = o \/ o \in left \/ job'[j].trade = o \/ job'[j].copy.ext = o
      PROVE  CalmInv'
  <2>1. LiveRemembered'
    BY <1>0, <1>a, <1>b, <1>c, <1>j, OneHand DEF LiveRemembered, Live
  <2>2. Cached' => row' = NoRow
    BY <1>0, <1>d DEF Cached
  <2>3. EntryOrder'
    BY <1>0, <1>a, <1>c, SameTrades DEF NoEntry
  <2> QED BY <1>0, <1>a, <1>j, <2>1, <2>2, <2>3, CalmAfter, SameTrades DEF CalmInv
<1>1. CASE ReconcileStart
  <2>1. /\ job[j] = IdleJob /\ cache' = cache /\ row' = row
        /\ job'[j] = [IdleJob EXCEPT !.at = "match", !.seen = Filled]
        /\ \A k \in Jobs \ {j} : job'[k] = IdleJob
    BY <1>1, <1>a, <1>b, <1>e, <1>j, OthersIdle DEF j, ReconcileStart, MayStart
  <2>2. job'[j].at = "match" /\ job'[j].copy = NoEntry /\ job'[j].trade = 0 /\ job'[j].seen = Filled
    BY <2>1 DEF IdleJob
  <2>3. Cached => row = NoRow
    BY <2>1, <1>d DEF IdleJob
  <2>4. ASSUME NEW o \in Filled PROVE HasFill(o) /\ (Cached => o \in left \/ o = cache.ext)
    <3>1. o \in Orders /\ Live(o) /\ HasFill(o)
      BY <2>4 DEF Filled, Live, HasFill
    <3>2. Remembered(o)
      BY <3>1, <1>c DEF LiveRemembered
    <3>3. o # 0
      BY <3>1, Bounds DEF Orders
    <3> QED BY <3>1, <3>2, <3>3, <2>1, <2>3, <1>b, <1>j, OneHand DEF IdleJob, NoEntry, NoRow
  <2>5. ReconcileHolds'
    BY <2>1, <2>2, <2>4, <1>a DEF j, ReconcileHolds, HasFill, Cached
  <2> QED BY <2>1, <2>2, <2>5, <1>0, Bounds DEF Replacing, IdleJob, NoEntry, Orders
<1>2. CASE ReconcileMatch \/ ReconcileOrders
  <2>1. /\ job[j].at \in {"match", "orders"} /\ job[j].copy = NoEntry /\ job[j].trade = 0
        /\ cache' = cache /\ row' = row
    BY <1>2, <1>r DEF j, ReconcileMatch, ReconcileOrders
  <2>2. \/ \E o \in Orders, seen \in SUBSET Orders :
             /\ OpensWith(cache, o, seen) /\ Cached /\ HasFill(o)
             /\ o = cache.ext \/ (cache.ext = 0 /\ o \in left)
        \/ SecondPass
        \/ Ends(j)
    <3>1. CASE ReconcileMatch
      <4>1. \A o \in TradeOf(cache, job[j].seen) :
              o \in job[j].seen /\ (o = cache.ext \/ cache.ext = 0)
        BY DEF TradeOf
      <4>2. job[j].seen \in SUBSET Orders /\ job[j].at = "match"
        BY <1>e, <3>1 DEF Job, j, ReconcileMatch
      <4>3. \/ \E o \in TradeOf(cache, job[j].seen) : OpensWith(cache, o, job[j].seen) /\ Cached
            \/ SecondPass
        BY <3>1 DEF j, ReconcileMatch
      <4> QED BY <4>1, <4>2, <4>3, <1>r
    <3>2. CASE ReconcileOrders
      <4>1. \/ OpensWith(cache, cache.ext, {}) /\ cache.ext \in Orders /\ HasFill(cache.ext) /\ Cached
            \/ Ends(j)
        BY <3>2 DEF j, ReconcileOrders, Cached, NoEntry
      <4> QED BY <4>1
    <3> QED BY <1>2, <3>1, <3>2
  <2>3. \A k \in Jobs \ {j} : job'[k] = IdleJob
    BY <2>2, <1>b, <1>e, <1>j, JobAfter DEF j, OpensWith, SecondPass
  <2>4. \/ /\ job'[j].at = "insert" /\ job'[j].copy = cache /\ Cached
           /\ job'[j].trade \in Orders /\ HasFill(job'[j].trade)
           /\ job'[j].trade = cache.ext \/ (cache.ext = 0 /\ job'[j].trade \in left)
        \/ job'[j].at = "orders" /\ job'[j].copy = NoEntry /\ job'[j].trade = 0
        \/ job'[j] = IdleJob
    <3>1. ASSUME NEW o \in Orders, NEW seen \in SUBSET Orders, OpensWith(cache, o, seen)
          PROVE  job'[j].at = "insert" /\ job'[j].copy = cache /\ job'[j].trade = o
      BY <3>1, <1>e, <1>j DEF j, OpensWith
    <3>2. SecondPass => job'[j].at = "orders" /\ job'[j].copy = NoEntry /\ job'[j].trade = 0
      BY <1>e, <1>j DEF j, SecondPass, IdleJob
    <3>3. Ends(j) => job'[j] = IdleJob
      BY <1>j, JobAfter
    <3> QED BY <2>2, <3>1, <3>2, <3>3
  <2>5. ReconcileHolds'
    <3>1. CASE job'[j].at = "insert"
      <4>1. /\ job'[j].copy = cache' /\ Cached' /\ cache'.ext \in {0, job'[j].trade}
            /\ job'[j].trade \in Orders /\ HasFill(job'[j].trade)
            /\ cache'.ext = 0 => job'[j].trade \in left'
        <5>1. IdleJob.at # "insert"
          BY DEF IdleJob
        <5>2. /\ job'[j].copy = cache /\ Cached
              /\ job'[j].trade \in Orders /\ HasFill(job'[j].trade)
              /\ job'[j].trade = cache.ext \/ (cache.ext = 0 /\ job'[j].trade \in left)
          BY <2>4, <3>1, <5>1
        <5>3. job'[j].trade # 0
          BY <5>2, Bounds DEF Orders
        <5> QED BY <2>1, <5>2, <5>3, <1>a DEF Cached
      <4>2. HasFill(job'[j].trade) => order'[job'[j].trade].state \in {"filled", "sold"}
        BY <1>a DEF HasFill
      <4> QED BY <3>1, <4>1, <4>2 DEF j, ReconcileHolds, HasFill
    <3>2. CASE job'[j].at # "insert"
      BY <2>4, <3>2 DEF j, ReconcileHolds, IdleJob
    <3> QED BY <3>1, <3>2
  <2> QED BY <2>1, <2>3, <2>4, <2>5, <1>0, Bounds DEF Replacing, IdleJob, NoEntry, Orders
<1>3. CASE ReconcileInsert
  <2>1. /\ job[j].at = "insert" /\ cache' = cache
        /\ job[j].copy = cache /\ Cached /\ cache.ext \in {0, job[j].trade}
        /\ job[j].trade \in Orders /\ HasFill(job[j].trade)
        /\ cache.ext = 0 => job[j].trade \in left
    BY <1>3, <1>r DEF j, ReconcileInsert
  <2>2. row = NoRow
    BY <2>1, <1>d
  <2>3. CASE row' = [trade |-> job[j].trade, plan |-> job[j].copy.plan] /\ Goes(j, "remove")
    <3>1. /\ job'[j].at = "remove" /\ job'[j].copy = cache /\ job'[j].trade = job[j].trade
          /\ \A k \in Jobs \ {j} : job'[k] = IdleJob
      BY <2>1, <2>3, <1>b, <1>j, JobAfter
    <3>2. row'.trade = job[j].trade /\ row'.plan = cache.plan
      BY <2>1, <2>3
    <3>3. ReconcileHolds'
      BY <2>1, <3>1, <3>2, <1>a DEF j, ReconcileHolds, HasFill, Cached
    <3>4. RowFilled' /\ RowMatches' /\ EntryOrder'
      BY <2>1, <3>2, <1>a, <1>c DEF RowFilled, RowMatches, EntryOrder, HasFill
    <3>5. LiveRemembered'
      BY <2>1, <2>2, <3>1, <3>2, <1>a, <1>b, <1>c, <1>j, Bounds, OneHand
      DEF LiveRemembered, Live, Orders, NoRow
    <3>6. Flat'
      BY <3>1, <1>j DEF Flat, j, Replacing, IdleJob
    <3> QED BY <3>1, <3>3, <3>4, <3>5, <3>6, <1>j, CalmAfter DEF CalmInv, Replacing
  <2>4. CASE row' = row /\ Ends(j)
    <3>1. job'[j] = IdleJob /\ \A k \in Jobs \ {j} : job'[k] = IdleJob
      BY <2>4, <1>b, <1>j, JobAfter
    <3>2. ReconcileHolds'
      BY <3>1 DEF j, ReconcileHolds, IdleJob
    <3> QED BY <2>1, <2>4, <3>1, <3>2, <1>0 DEF Replacing, IdleJob
  <2> QED BY <1>3, <2>3, <2>4 DEF j, ReconcileInsert
<1>4. CASE ReconcileRemove
  <2>1. /\ job[j].at = "remove" /\ cache' = NoEntry /\ row' = row
        /\ job[j].copy = cache /\ cache.ext \in {0, job[j].trade}
        /\ job[j].trade \in left \/ row.trade = job[j].trade \/ ~Live(job[j].trade)
    BY <1>4, <1>r DEF j, ReconcileRemove
  <2>2. /\ job'[j] = IdleJob \/ job'[j] = [IdleJob EXCEPT !.at = "orders"]
        /\ \A k \in Jobs \ {j} : job'[k] = IdleJob
    BY <1>4, <1>b, <1>e, <1>j, JobAfter DEF j, ReconcileRemove, SecondPass
  <2>3. job'[j].at \in {"idle", "orders"} /\ job'[j].copy = NoEntry /\ job'[j].trade = 0
    BY <2>2 DEF IdleJob
  <2>4. ReconcileHolds'
    BY <2>3 DEF j, ReconcileHolds
  <2>5. job'[j].at = "idle" => job'[j] = IdleJob
    BY <2>2 DEF IdleJob
  <2> QED BY <2>1, <2>2, <2>3, <2>4, <2>5, <1>0, Bounds DEF Replacing, Orders
<1> QED BY <1>1, <1>2, <1>3, <1>4 DEF ReconcileStep

\* The executor, the passing of time and the end of a row.
LEMMA CalmOutside ==
  ASSUME TypeOK, Calm, Calm', CalmInv, Outside
  PROVE  CalmInv'
<1>c. CalmInv => /\ Alone /\ EntryOrder /\ Flat /\ RiskHolds /\ CancelHolds /\ ReconcileHolds
                 /\ RowFilled /\ RowMatches /\ LiveRemembered
  BY DEF CalmInv
<1>e. /\ order \in [Orders -> [plan : 0 .. MaxPlans, state : OrderState]]
      /\ job \in [Jobs -> Job] /\ "reconcile" \in Jobs /\ "risk" \in Jobs
      /\ \A e \in Entry \cup {NoEntry} : e.ext # 0 => e.ext \in Orders
      /\ cache \in Entry \cup {NoEntry}
  BY Bounds DEF TypeOK, Jobs, Entry, NoEntry, Orders
<1>1. ASSUME NEW o \in Orders, Fill(o) \/ GivenUp(o) \/ Sold(o) PROVE CalmInv'
  <2>1. UNCHANGED <<cache, row, job, left>>
    BY <1>1 DEF Fill, GivenUp, Sold, OrderMoves, history
  <2>2. \A p \in Orders : /\ order'[p].plan = order[p].plan
                          /\ Live(p)' => Live(p)
                          /\ HasFill(p) => HasFill(p)'
                          /\ order[p].state = "refused" => order'[p].state = "refused"
    BY <1>1, <1>e DEF Fill, GivenUp, Sold, OrderMoves, Live, HasFill
  <2>3. Alone' /\ Flat'
    BY <2>1, <1>c DEF Alone, Flat, Cached
  <2>4. EntryOrder'
    BY <2>1, <2>2, <1>c, <1>e DEF EntryOrder
  <2>5. RiskHolds'
    BY <2>1, <2>2, <1>c DEF RiskHolds, Looking, Placing, Cached
  <2>6. CancelHolds'
    BY <2>1, <2>2, <1>c DEF CancelHolds
  <2>7. ReconcileHolds'
    <3>1. job["reconcile"].seen \subseteq Orders
      BY <1>e DEF Job
    <3> QED BY <2>1, <2>2, <3>1, <1>c DEF ReconcileHolds, Cached
  <2>8. RowFilled' /\ RowMatches'
    BY <2>1, <2>2, <1>c DEF RowFilled, RowMatches
  <2>9. LiveRemembered'
    BY <2>1, <2>2, <1>c DEF LiveRemembered, Remembered
  <2> QED BY <2>3, <2>4, <2>5, <2>6, <2>7, <2>8, <2>9 DEF CalmInv
<1>2. ASSUME NEW p \in Plans, Elapse(p) PROVE CalmInv'
  BY <1>2 DEF Elapse, executor, history, CalmInv, Alone, EntryOrder, Flat, RiskHolds, CancelHolds,
     ReconcileHolds, RowFilled, RowMatches, LiveRemembered, Remembered, Live, HasFill, Cached
<1>3. CASE RowCloses
  <2>1. /\ UNCHANGED <<cache, order, job, left>> /\ row' = NoRow /\ row # NoRow
        /\ order[row.trade].state # "filled"
    BY <1>3 DEF RowCloses, executor, history
  <2>2. row.trade \in Orders /\ ~Live(row.trade)
    BY <2>1, <1>c DEF RowFilled, HasFill, Live
  <2>3. Alone' /\ EntryOrder' /\ Flat' /\ RiskHolds' /\ CancelHolds' /\ RowFilled' /\ RowMatches'
    BY <2>1, <1>c DEF Alone, EntryOrder, Flat, RiskHolds, CancelHolds, RowFilled, RowMatches,
       Cached, Looking, Placing, Replacing, Live
  <2>4. ReconcileHolds'
    BY <2>1, <2>2, <1>c DEF ReconcileHolds, Cached, HasFill, Live
  <2>5. LiveRemembered'
    BY <2>1, <2>2, <1>c DEF LiveRemembered, Remembered, Live
  <2> QED BY <2>3, <2>4, <2>5 DEF CalmInv
<1>4. ~Debug /\ ~Restart
  BY Bounds DEF Debug, Restart, Fault, Calm
<1> QED BY <1>1, <1>2, <1>3, <1>4 DEF Outside

\* A behaviour that is calm now has been calm all along.
LEMMA StaysUncalm == TypeOK /\ [Next]_vars /\ Calm' => Calm
<1> SUFFICES ASSUME TypeOK, [Next]_vars, Calm' PROVE Calm
  OBVIOUS
<1>1. faults \in Nat
  BY Bounds DEF TypeOK
<1>2. overlap' = overlap /\ (faults' = faults \/ faults' = faults + 1)
  <2>1. \A j \in {"decide", "risk"} :
          CancelStep(j) => overlap' = overlap /\ (faults' = faults \/ faults' = faults + 1)
    BY DEF CancelStep, CancelCheck, CancelQuery, CancelWithdraw, CancelClear, history, Fault
  <2>2. DecideStart \/ DecideNothing \/ DecideUpsert => UNCHANGED <<overlap, faults>>
    BY DEF DecideStart, DecideNothing, DecideUpsert, history
  <2>3. RiskLoad \/ RiskExpire \/ RiskDeclines \/ RiskResize \/ RiskCheck \/ RiskMark \/ RiskAnswer \/ RiskReset
          => UNCHANGED <<overlap, faults>>
    BY DEF RiskLoad, RiskExpire, RiskDeclines, RiskResize, RiskCheck, RiskMark, RiskAnswer, RiskReset, history
  <2>4. RiskPlace => overlap' = overlap /\ (faults' = faults \/ faults' = faults + 1)
    BY DEF RiskPlace, Fault
  <2>5. ReconcileStart \/ ReconcileStep => UNCHANGED <<overlap, faults>>
    BY DEF ReconcileStart, ReconcileStep, ReconcileMatch, ReconcileInsert, ReconcileRemove, ReconcileOrders, history
  <2>6. Outside => overlap' = overlap /\ (faults' = faults \/ faults' = faults + 1)
    BY DEF Outside, Fill, GivenUp, Sold, OrderMoves, Elapse, RowCloses, Debug, Restart, Fault, history
  <2>7. UNCHANGED vars => UNCHANGED <<overlap, faults>>
    BY DEF vars, history
  <2> QED BY <2>1, <2>2, <2>3, <2>4, <2>5, <2>6, <2>7 DEF Next, DecideStep, RiskStep, Outside
<1> QED BY <1>1, <1>2 DEF Calm

LEMMA NextCalm == TypeOK /\ Knows /\ Calm /\ CalmInv /\ [Next]_vars /\ Calm' => CalmInv'
<1> SUFFICES ASSUME TypeOK, Knows, Calm, CalmInv, [Next]_vars, Calm' PROVE CalmInv'
  OBVIOUS
<1>1. CASE DecideStart \/ DecideNothing \/ DecideUpsert
  BY <1>1, CalmDecide
<1>2. CASE CancelStep("decide") \/ CancelStep("risk")
  BY <1>2, CalmCancel
<1>3. CASE \/ RiskLoad \/ RiskExpire \/ RiskDeclines \/ RiskResize \/ RiskCheck \/ RiskMark
           \/ RiskAnswer \/ RiskReset
  BY <1>3, CalmRisk
<1>4. CASE RiskPlace
  BY <1>4, CalmPlace
<1>5. CASE ReconcileStart \/ ReconcileStep
  BY <1>5, CalmReconcile
<1>6. CASE Outside
  BY <1>6, CalmOutside
<1>7. CASE UNCHANGED vars
  BY <1>7 DEF vars, executor, history, CalmInv, Alone, EntryOrder, Flat, RiskHolds, CancelHolds,
     ReconcileHolds, RowFilled, RowMatches, LiveRemembered, Remembered, Live, HasFill, Cached
<1> QED BY <1>1, <1>2, <1>3, <1>4, <1>5, <1>6, <1>7 DEF Next, DecideStep, RiskStep, Outside

LEMMA CalmAlways == Spec => [](TypeOK /\ (Calm => CalmInv))
<1> DEFINE Inv == TypeOK /\ Knows /\ (Calm => CalmInv)
<1>1. Init => Inv
  BY InitTypes, InitKnows, InitCalm
<1>2. Inv /\ [Next]_vars => Inv'
  <2> SUFFICES ASSUME Inv, [Next]_vars PROVE Inv'
    OBVIOUS
  <2>1. TypeOK' /\ Knows'
    BY NextTypes
  <2>2. Calm' => CalmInv'
    BY StaysUncalm, NextCalm
  <2> QED BY <2>1, <2>2
<1>3. Inv => TypeOK /\ (Calm => CalmInv)
  OBVIOUS
<1> QED BY <1>1, <1>2, <1>3, PTL DEF Spec

\* While the jobs run one at a time and nothing has failed, a row carries the
\* plan its trade was ordered for, unless the order had a fill when it was to be
\* cancelled: for any number of plans, orders and rounds of the jobs.
THEOREM RowsMatch == Spec => []RowMatchesOrder
<1>1. TypeOK /\ (Calm => CalmInv) => RowMatchesOrder
  BY DEF RowMatchesOrder, CalmInv, RowMatches
<1> QED BY <1>1, CalmAlways, PTL

\* In calm no trade is forgotten: it is the row's, the cached plan's, noted as
\* left, or in the hands of the job at work.
THEOREM TradesRemembered == Spec => []TradesAreRemembered
<1>1. ASSUME TypeOK, Calm => CalmInv PROVE TradesAreRemembered
  <2> SUFFICES ASSUME Calm, NEW o \in Filled PROVE Remembered(o)
    BY DEF TradesAreRemembered, Remembered
  <2> QED BY <1>1 DEF CalmInv, LiveRemembered, Live, Filled
<1> QED BY <1>1, CalmAlways, PTL
=============================================================================
