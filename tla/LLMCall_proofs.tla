--------------------------- MODULE LLMCall_proofs ---------------------------
(***************************************************************************)
(* Proofs about LLMCall, for every number of calls, every limit, interval, *)
(* cooldown and threshold, with and without cancellations.                 *)
(***************************************************************************)
EXTENDS LLMCall, FiniteSetTheorems, TLAPS

\* The slots taken are those of the calls that hold one.
SlotsCounted == used = Cardinality(Holders)
\* A call that waits to retry has an attempt left.
AttemptsLeft == \A c \in Callers : caller[c].at = "retryWait" => caller[c].attempt < MaxAttempts
\* A half-open breaker is one whose probe is in flight.
HalfOpenProbes == breaker.state = "halfOpen" => breaker.probing
\* With one slot: past the recheck there is no cooldown but the holder's own.
QuietHolder ==
  Limit = 1 => \A c \in Callers :
    /\ caller[c].at \in {"interval", "send"} => cooldown = 0
    /\ caller[c].at = "retryWait" => cooldown <= caller[c].wait
\* With one slot: the holder waits for what the gap lacks.
SpacedHolder ==
  Limit = 1 => \A c \in Callers :
    caller[c].at = "interval" => gap + caller[c].wait >= MinInterval

IInv == TypeOK /\ SlotsCounted /\ AttemptsLeft /\ HalfOpenProbes /\ QuietHolder /\ SpacedHolder

-----------------------------------------------------------------------------
(* Type correctness, with what a retry needs.                              *)

LEMMA BreakerTypes ==
  ASSUME breaker \in Breaker
  PROVE  Closed \in Breaker /\ RecordFailure \in Breaker /\ Admit \in Breaker
<1>1. Closed \in Breaker
  BY LimitsAssumption DEF Closed, Breaker
<1>2. Admit \in Breaker
  BY DEF Admit, Breaker
<1>3. RecordFailure \in Breaker
  <2> DEFINE f == IF breaker.state = "halfOpen" \/ breaker.fails + 1 > FailThreshold
                    THEN FailThreshold ELSE breaker.fails + 1
  <2>1. f \in 0 .. FailThreshold
    BY LimitsAssumption DEF Breaker
  <2>2. [breaker EXCEPT !.fails = f] \in Breaker
    BY <2>1 DEF Breaker
  <2>3. [state |-> "open", fails |-> f, openAge |-> 0, probing |-> FALSE] \in Breaker
    BY <2>1, LimitsAssumption DEF Breaker
  <2> QED BY <2>2, <2>3 DEF RecordFailure
<1> QED BY <1>1, <1>2, <1>3

LEMMA ReleaseType ==
  ASSUME used \in 0 .. Limit, Release
  PROVE  used' \in 0 .. Limit
BY LimitsAssumption DEF Release

LEMMA GotoType ==
  ASSUME TypeOK, NEW c \in Callers, NEW at \in CallerAt, NEW w \in 0 .. Longest,
         Goto(c, at, w)
  PROVE  caller' \in [Callers -> Caller]
BY DEF TypeOK, Goto, Caller

LEMMA EndsType ==
  ASSUME TypeOK, NEW c \in Callers, Ends(c)
  PROVE  caller' \in [Callers -> Caller]
BY LimitsAssumption DEF TypeOK, Ends, Caller, IdleCaller, CallerAt, Longest, MaxAttempts

LEMMA WaitRanges ==
  /\ Longest \in Nat
  /\ \A n \in 0 .. MinInterval : n \in 0 .. Longest /\ MinInterval - n \in 0 .. Longest
  /\ \A n \in 0 .. MaxWait : n \in 0 .. Longest
BY LimitsAssumption DEF Longest

LEMMA InitInv == Init => IInv
<1> SUFFICES ASSUME Init PROVE IInv
  OBVIOUS
<1>1. TypeOK
  BY LimitsAssumption DEF Init, TypeOK, Breaker, Closed, Caller, IdleCaller, CallerAt,
       Longest, MaxAttempts
<1>2. Holders = {}
  BY DEF Init, Holders, Holds, IdleCaller
<1>3. SlotsCounted
  BY <1>2, FS_EmptySet DEF Init, SlotsCounted
<1> QED BY <1>1, <1>3 DEF Init, IInv, AttemptsLeft, HalfOpenProbes, QuietHolder, SpacedHolder,
       IdleCaller, Closed

LEMMA NextTypes == TypeOK /\ AttemptsLeft /\ [Next]_vars => TypeOK' /\ AttemptsLeft'
<1> SUFFICES ASSUME TypeOK, AttemptsLeft, [Next]_vars PROVE TypeOK' /\ AttemptsLeft'
  OBVIOUS
<1> USE DEF TypeOK
<1>0. 0 \in 0 .. Longest
  BY WaitRanges
<1>1. ASSUME NEW c \in Callers, Allow(c) PROVE TypeOK' /\ AttemptsLeft'
  <2>1. caller' \in [Callers -> Caller]
    BY <1>1, <1>0, GotoType DEF Allow, CallerAt
  <2> QED BY <1>1, <2>1, BreakerTypes DEF Allow, Goto, AttemptsLeft
<1>2. ASSUME NEW c \in Callers, TakeSlot(c) PROVE TypeOK' /\ AttemptsLeft'
  <2>1. caller' \in [Callers -> Caller]
    BY <1>2, <1>0, GotoType DEF TakeSlot, CallerAt
  <2> QED BY <1>2, <2>1, LimitsAssumption DEF TakeSlot, Goto, AttemptsLeft
<1>3. ASSUME NEW c \in Callers, WaitCooldown(c) PROVE TypeOK' /\ AttemptsLeft'
  <2>1. caller' \in [Callers -> Caller]
    BY <1>3, WaitRanges, GotoType DEF WaitCooldown, CallerAt
  <2> QED BY <1>3, <2>1 DEF WaitCooldown, Goto, AttemptsLeft
<1>4. ASSUME NEW c \in Callers, RecheckCooldown(c) PROVE TypeOK' /\ AttemptsLeft'
  <2>1. CASE cooldown > 0
    <3>1. caller' \in [Callers -> Caller]
      BY <1>4, <2>1, <1>0, GotoType DEF RecheckCooldown, CallerAt
    <3>2. used' \in 0 .. Limit
      BY <1>4, <2>1, ReleaseType DEF RecheckCooldown
    <3>3. AttemptsLeft'
      BY <1>4, <2>1 DEF RecheckCooldown, Goto, AttemptsLeft, Caller
    <3> QED BY <1>4, <3>1, <3>2, <3>3 DEF RecheckCooldown
  <2>2. CASE ~(cooldown > 0)
    <3>1. caller' \in [Callers -> Caller]
      BY <1>4, <2>2, WaitRanges, GotoType DEF RecheckCooldown, CallerAt
    <3>2. AttemptsLeft'
      BY <1>4, <2>2 DEF RecheckCooldown, Goto, AttemptsLeft, Caller
    <3> QED BY <1>4, <2>2, <3>1, <3>2 DEF RecheckCooldown
  <2> QED BY <2>1, <2>2
<1>5. ASSUME NEW c \in Callers, Send(c) PROVE TypeOK' /\ AttemptsLeft'
  <2>1. caller' \in [Callers -> Caller]
    <3>1. [caller[c] EXCEPT !.at = "send", !.attempt = 1] \in Caller
      <4>1. [caller[c] EXCEPT !.at = "send"] \in Caller
        BY DEF Caller, CallerAt
      <4>2. \A r \in Caller : [r EXCEPT !.attempt = 1] \in Caller
        BY DEF Caller, MaxAttempts
      <4> QED BY <4>1, <4>2
    <3>2. caller' = [caller EXCEPT ![c] = [caller[c] EXCEPT !.at = "send", !.attempt = 1]]
      BY <1>5 DEF Send
    <3> QED BY <3>1, <3>2
  <2> QED BY <1>5, <2>1, LimitsAssumption DEF Send, AttemptsLeft
<1>6. ASSUME NEW c \in Callers, Succeed(c) PROVE TypeOK' /\ AttemptsLeft'
  <2>1. caller' \in [Callers -> Caller] /\ used' \in 0 .. Limit
    BY <1>6, EndsType, ReleaseType DEF Succeed
  <2> QED BY <1>6, <2>1, BreakerTypes DEF Succeed, Ends, IdleCaller, AttemptsLeft
<1>7. ASSUME NEW c \in Callers, Fail(c) PROVE TypeOK' /\ AttemptsLeft'
  <2>1. caller' \in [Callers -> Caller] /\ used' \in 0 .. Limit
    BY <1>7, EndsType, ReleaseType DEF Fail
  <2> QED BY <1>7, <2>1, BreakerTypes DEF Fail, Ends, IdleCaller, AttemptsLeft
<1>8. ASSUME NEW c \in Callers, RateLimited(c) PROVE TypeOK' /\ AttemptsLeft'
  <2>1. PICK d \in 1 .. MaxWait :
          cooldown' = (IF d > cooldown THEN d ELSE cooldown) /\ Goto(c, "retryWait", d)
    BY <1>8 DEF RateLimited
  <2>2. d \in 0 .. MaxWait
    BY <2>1, LimitsAssumption
  <2>3. caller' \in [Callers -> Caller]
    BY <2>1, <2>2, WaitRanges, GotoType DEF CallerAt
  <2>4. cooldown' \in 0 .. MaxWait
    BY <2>1, <2>2
  <2> QED BY <1>8, <2>1, <2>3, <2>4 DEF RateLimited, Goto, AttemptsLeft
<1>9. ASSUME NEW c \in Callers, Retry(c) PROVE TypeOK' /\ AttemptsLeft'
  <2>1. caller[c].attempt + 1 \in 0 .. MaxAttempts
    BY <1>9 DEF Retry, AttemptsLeft, Caller, MaxAttempts
  <2> QED BY <1>9, <2>1 DEF Retry, AttemptsLeft, Caller, CallerAt
<1>10. ASSUME NEW c \in Callers, Cancel(c) PROVE TypeOK' /\ AttemptsLeft'
  <2>1. caller' \in [Callers -> Caller] /\ used' \in 0 .. Limit
    BY <1>10, EndsType, ReleaseType DEF Cancel
  <2> QED BY <1>10, <2>1 DEF Cancel, Ends, IdleCaller, AttemptsLeft
<1>11. CASE Tick
  <2>1. \A c \in Callers : Less(caller[c].wait) \in 0 .. Longest
    BY WaitRanges DEF Less, Caller
  <2>2. caller' \in [Callers -> Caller]
    BY <1>11, <2>1 DEF Tick, Caller
  <2>3. cooldown' \in 0 .. MaxWait /\ gap' \in 0 .. MinInterval
    BY <1>11, LimitsAssumption DEF Tick, Less, More
  <2>4. breaker' \in Breaker
    BY <1>11, LimitsAssumption DEF Tick, More, Breaker
  <2>5. AttemptsLeft'
    BY <1>11 DEF Tick, AttemptsLeft, Caller
  <2> QED BY <1>11, <2>2, <2>3, <2>4, <2>5 DEF Tick
<1>12. CASE UNCHANGED vars
  BY <1>12 DEF vars, AttemptsLeft
<1> QED BY <1>1, <1>2, <1>3, <1>4, <1>5, <1>6, <1>7, <1>8, <1>9, <1>10, <1>11, <1>12
       DEF Next, CallStep
-----------------------------------------------------------------------------
(* The slots.                                                              *)

LEMMA HoldersFinite == IsFiniteSet(Holders)
BY CallersAssumption, FS_Subset DEF Holders

\* With one slot there is one holder.
LEMMA Alone ==
  ASSUME TypeOK, SlotsCounted, Limit = 1,
         NEW c \in Callers, NEW d \in Callers, Holds(c), Holds(d)
  PROVE  c = d
<1>1. Cardinality(Holders) <= 1
  BY DEF TypeOK, SlotsCounted
<1>2. c \in Holders /\ d \in Holders
  BY DEF Holders
<1>3. Cardinality(Holders) # 0
  BY <1>2, HoldersFinite, FS_EmptySet
<1>4. Cardinality(Holders) = 1
  BY <1>1, <1>3, HoldersFinite, FS_CardinalityType
<1>5. PICK x : Holders = {x}
  BY <1>4, HoldersFinite, FS_Singleton
<1> QED BY <1>2, <1>5

LEMMA SlotTaken ==
  ASSUME TypeOK, SlotsCounted, NEW c \in Callers, ~Holds(c),
         used' = used + 1, Holders' = Holders \cup {c}
  PROVE  SlotsCounted'
<1>1. c \notin Holders
  BY DEF Holders
<1> QED BY <1>1, HoldersFinite, FS_AddElement DEF SlotsCounted

LEMMA SlotGivenBack ==
  ASSUME TypeOK, SlotsCounted, NEW c \in Callers, Holds(c),
         Release, Holders' = Holders \ {c}
  PROVE  SlotsCounted'
<1>1. c \in Holders
  BY DEF Holders
<1>2. used # 0
  BY <1>1, HoldersFinite, FS_EmptySet DEF SlotsCounted
<1>3. used' = used - 1
  BY <1>2, LimitsAssumption DEF Release, TypeOK
<1> QED BY <1>1, <1>3, HoldersFinite, FS_RemoveElement DEF SlotsCounted

LEMMA NextSlots == TypeOK /\ SlotsCounted /\ [Next]_vars => SlotsCounted'
<1> SUFFICES ASSUME TypeOK, SlotsCounted, [Next]_vars PROVE SlotsCounted'
  OBVIOUS
<1>0. caller \in [Callers -> Caller]
  BY DEF TypeOK
<1>1. ASSUME NEW c \in Callers, Allow(c) PROVE SlotsCounted'
  <2>1. Holders' = Holders
    BY <1>0, <1>1 DEF Allow, Goto, Holders, Holds
  <2> QED BY <1>1, <2>1 DEF Allow, SlotsCounted
<1>2. ASSUME NEW c \in Callers, TakeSlot(c) PROVE SlotsCounted'
  <2>1. Holders' = Holders \cup {c} /\ ~Holds(c)
    BY <1>0, <1>2 DEF TakeSlot, Goto, Holders, Holds
  <2> QED BY <1>2, <2>1, SlotTaken DEF TakeSlot
<1>3. ASSUME NEW c \in Callers, WaitCooldown(c) PROVE SlotsCounted'
  <2>1. Holders' = Holders
    BY <1>0, <1>3 DEF WaitCooldown, Goto, Holders, Holds
  <2> QED BY <1>3, <2>1 DEF WaitCooldown, SlotsCounted
<1>4. ASSUME NEW c \in Callers, RecheckCooldown(c) PROVE SlotsCounted'
  <2>1. CASE cooldown > 0
    <3>1. caller[c].at = "slot" /\ Goto(c, "gate", 0) /\ Release
      BY <1>4, <2>1 DEF RecheckCooldown
    <3>2. Holders' = Holders \ {c} /\ Holds(c)
      BY <1>0, <3>1 DEF Goto, Holders, Holds
    <3> QED BY <3>1, <3>2, SlotGivenBack
  <2>2. CASE ~(cooldown > 0)
    <3>1. caller[c].at = "slot" /\ Goto(c, "interval", MinInterval - gap) /\ UNCHANGED used
      BY <1>4, <2>2 DEF RecheckCooldown
    <3>2. Holders' = Holders
      BY <1>0, <3>1 DEF Goto, Holders, Holds
    <3> QED BY <3>1, <3>2 DEF SlotsCounted
  <2> QED BY <2>1, <2>2
<1>5. ASSUME NEW c \in Callers, Send(c) PROVE SlotsCounted'
  <2>1. Holders' = Holders
    BY <1>0, <1>5 DEF Send, Holders, Holds, Caller
  <2> QED BY <1>5, <2>1 DEF Send, SlotsCounted
<1>6. ASSUME NEW c \in Callers, Succeed(c) \/ Fail(c) PROVE SlotsCounted'
  <2>1. Holders' = Holders \ {c} /\ Holds(c) /\ Release
    BY <1>0, <1>6 DEF Succeed, Fail, Ends, IdleCaller, Holders, Holds
  <2> QED BY <2>1, SlotGivenBack
<1>7. ASSUME NEW c \in Callers, RateLimited(c) PROVE SlotsCounted'
  <2>1. Holders' = Holders
    BY <1>0, <1>7 DEF RateLimited, Goto, Holders, Holds
  <2> QED BY <1>7, <2>1 DEF RateLimited, SlotsCounted
<1>8. ASSUME NEW c \in Callers, Retry(c) PROVE SlotsCounted'
  <2>1. Holders' = Holders
    BY <1>0, <1>8 DEF Retry, Holders, Holds, Caller
  <2> QED BY <1>8, <2>1 DEF Retry, SlotsCounted
<1>9. ASSUME NEW c \in Callers, Cancel(c) PROVE SlotsCounted'
  <2>1. CASE caller[c].at = "cooldown" /\ UNCHANGED used
    <3>1. Holders' = Holders
      BY <1>0, <1>9, <2>1 DEF Cancel, Ends, IdleCaller, Holders, Holds
    <3> QED BY <2>1, <3>1 DEF SlotsCounted
  <2>2. CASE caller[c].at \in {"interval", "retryWait"} /\ Release
    <3>1. Holders' = Holders \ {c} /\ Holds(c)
      BY <1>0, <1>9, <2>2 DEF Cancel, Ends, IdleCaller, Holders, Holds
    <3> QED BY <2>2, <3>1, SlotGivenBack
  <2> QED BY <1>9, <2>1, <2>2 DEF Cancel
<1>10. CASE Tick
  <2>1. Holders' = Holders
    BY <1>0, <1>10 DEF Tick, Holders, Holds, Caller
  <2> QED BY <1>10, <2>1 DEF Tick, SlotsCounted
<1>11. CASE UNCHANGED vars
  BY <1>11 DEF vars, SlotsCounted, Holders, Holds
<1> QED BY <1>1, <1>2, <1>3, <1>4, <1>5, <1>6, <1>7, <1>8, <1>9, <1>10, <1>11
       DEF Next, CallStep

LEMMA NextProbes == HalfOpenProbes /\ breaker \in Breaker /\ [Next]_vars => HalfOpenProbes'
<1> SUFFICES ASSUME HalfOpenProbes, breaker \in Breaker, [Next]_vars PROVE HalfOpenProbes'
  OBVIOUS
<1> USE DEF HalfOpenProbes
<1>1. ASSUME NEW c \in Callers, Allow(c) PROVE HalfOpenProbes'
  <2>1. CASE breaker.state = "closed"
    BY <1>1, <2>1 DEF Allow, Admit
  <2>2. CASE breaker.state # "closed"
    <3>1. [breaker EXCEPT !.state = "halfOpen", !.probing = TRUE].probing
      BY DEF Breaker
    <3> QED BY <1>1, <2>2, <3>1 DEF Allow, Admit
  <2> QED BY <2>1, <2>2
<1>2. ASSUME NEW c \in Callers, Fail(c) PROVE HalfOpenProbes'
  BY <1>2 DEF Fail, RecordFailure, Breaker
<1>3. ASSUME NEW c \in Callers, Succeed(c) PROVE HalfOpenProbes'
  BY <1>3 DEF Succeed, Closed
<1>4. CASE Tick
  BY <1>4 DEF Tick, Breaker
<1>5. ASSUME UNCHANGED breaker PROVE HalfOpenProbes'
  BY <1>5
<1> QED BY <1>1, <1>2, <1>3, <1>4, <1>5 DEF Next, CallStep, vars, TakeSlot, WaitCooldown,
       RecheckCooldown, Send, RateLimited, Retry, Cancel
-----------------------------------------------------------------------------
(* One slot: the holder's cooldown and the gap before it.                  *)

LEMMA NextQuiet == IInv /\ [Next]_vars => QuietHolder'
<1> SUFFICES ASSUME IInv, [Next]_vars, Limit = 1,
                    NEW d \in Callers
             PROVE  /\ caller'[d].at \in {"interval", "send"} => cooldown' = 0
                    /\ caller'[d].at = "retryWait" => cooldown' <= caller'[d].wait
  BY DEF QuietHolder
<1> DEFINE Quiet == /\ caller'[d].at \in {"interval", "send"} => cooldown' = 0
                    /\ caller'[d].at = "retryWait" => cooldown' <= caller'[d].wait
<1>0. /\ caller \in [Callers -> Caller] /\ cooldown \in Nat
      /\ caller[d].at \in {"interval", "send"} => cooldown = 0
      /\ caller[d].at = "retryWait" => cooldown <= caller[d].wait
  BY LimitsAssumption DEF IInv, TypeOK, QuietHolder
<1>1. ASSUME caller'[d] = caller[d], UNCHANGED cooldown PROVE Quiet
  BY <1>0, <1>1
<1>2. ASSUME NEW c \in Callers, Allow(c) \/ TakeSlot(c) \/ WaitCooldown(c) PROVE Quiet
  <2>1. UNCHANGED cooldown /\ \E at \in {"gate", "slot", "cooldown"} : \E w : Goto(c, at, w)
    BY <1>2 DEF Allow, TakeSlot, WaitCooldown
  <2>2. PICK at \in {"gate", "slot", "cooldown"} : \E w : Goto(c, at, w)
    BY <2>1
  <2>w. PICK w : Goto(c, at, w)
    BY <2>2
  <2>3. CASE c = d
    BY <1>0, <2>w, <2>3 DEF Goto
  <2>4. CASE c # d
    BY <1>0, <1>1, <2>1, <2>w, <2>4 DEF Goto
  <2> QED BY <2>3, <2>4
<1>3. ASSUME NEW c \in Callers, RecheckCooldown(c) PROVE Quiet
  <2>1. CASE cooldown > 0
    <3>1. Goto(c, "gate", 0) /\ UNCHANGED cooldown
      BY <1>3, <2>1 DEF RecheckCooldown
    <3> QED BY <1>0, <3>1 DEF Goto
  <2>2. CASE ~(cooldown > 0)
    <3>1. Goto(c, "interval", MinInterval - gap) /\ UNCHANGED cooldown
      BY <1>3, <2>2 DEF RecheckCooldown
    <3> QED BY <1>0, <2>2, <3>1 DEF Goto
  <2> QED BY <2>1, <2>2
<1>4. ASSUME NEW c \in Callers, Send(c) PROVE Quiet
  BY <1>0, <1>4 DEF Send, Caller
<1>5. ASSUME NEW c \in Callers, Succeed(c) \/ Fail(c) \/ Cancel(c) PROVE Quiet
  <2>1. Ends(c) /\ UNCHANGED cooldown
    BY <1>5 DEF Succeed, Fail, Cancel
  <2> QED BY <1>0, <2>1 DEF Ends, IdleCaller
<1>6. ASSUME NEW c \in Callers, RateLimited(c) PROVE Quiet
  <2>1. cooldown = 0 /\ Holds(c)
    BY <1>6 DEF RateLimited, IInv, QuietHolder, Holds
  <2>2. PICK w \in 1 .. MaxWait :
          cooldown' = (IF w > cooldown THEN w ELSE cooldown) /\ Goto(c, "retryWait", w)
    BY <1>6 DEF RateLimited
  <2>3. cooldown' = w
    BY <2>1, <2>2
  <2>4. CASE c = d
    BY <1>0, <2>2, <2>3, <2>4 DEF Goto, Caller
  <2>5. CASE c # d
    <3>1. ~Holds(d)
      BY <2>1, <2>5, Alone DEF IInv
    <3> QED BY <1>0, <2>2, <2>5, <3>1 DEF Goto, Holds
  <2> QED BY <2>4, <2>5
<1>7. ASSUME NEW c \in Callers, Retry(c) PROVE Quiet
  <2>1. caller[c].at = "retryWait" => cooldown <= caller[c].wait
    BY DEF IInv, QuietHolder
  <2> QED BY <1>0, <1>7, <2>1 DEF Retry, Caller
<1>8. CASE Tick
  <2>1. /\ caller[d] \in Caller /\ cooldown' = Less(cooldown)
        /\ caller'[d] = [caller[d] EXCEPT !.wait = Less(@)]
    BY <1>0, <1>8 DEF Tick
  <2>2. caller'[d].at = caller[d].at /\ caller'[d].wait = Less(caller[d].wait)
    BY <2>1 DEF Caller
  <2>3. caller[d].wait \in Nat
    BY <2>1, WaitRanges DEF Caller
  <2> QED BY <1>0, <2>1, <2>2, <2>3 DEF Less
<1>9. CASE UNCHANGED vars
  BY <1>1, <1>9 DEF vars
<1> QED BY <1>2, <1>3, <1>4, <1>5, <1>6, <1>7, <1>8, <1>9 DEF Next, CallStep

LEMMA NextSpaced == IInv /\ [Next]_vars => SpacedHolder'
<1> SUFFICES ASSUME IInv, [Next]_vars, Limit = 1,
                    NEW d \in Callers, caller'[d].at = "interval"
             PROVE  gap' + caller'[d].wait >= MinInterval
  BY DEF SpacedHolder
<1> DEFINE Spaced == gap' + caller'[d].wait >= MinInterval
<1>0. /\ caller \in [Callers -> Caller] /\ gap \in 0 .. MinInterval /\ MinInterval \in Nat
      /\ caller[d].at = "interval" => gap + caller[d].wait >= MinInterval
  BY LimitsAssumption DEF IInv, TypeOK, SpacedHolder
<1>1. ASSUME NEW c \in Callers,
             Allow(c) \/ TakeSlot(c) \/ WaitCooldown(c) \/ Succeed(c) \/ Fail(c)
               \/ Cancel(c) \/ RateLimited(c) \/ Retry(c)
      PROVE  Spaced
  <2>1. UNCHANGED gap /\ c # d /\ caller'[d] = caller[d]
    BY <1>0, <1>1 DEF Allow, TakeSlot, WaitCooldown, Succeed, Fail, Cancel, RateLimited, Retry,
         Goto, Ends, IdleCaller, Caller
  <2> QED BY <1>0, <2>1
<1>2. ASSUME NEW c \in Callers, RecheckCooldown(c) PROVE Spaced
  <2>1. CASE cooldown > 0
    <3>1. Goto(c, "gate", 0) /\ UNCHANGED gap
      BY <1>2, <2>1 DEF RecheckCooldown
    <3> QED BY <1>0, <3>1 DEF Goto
  <2>2. CASE ~(cooldown > 0)
    <3>1. Goto(c, "interval", MinInterval - gap) /\ UNCHANGED gap
      BY <1>2, <2>2 DEF RecheckCooldown
    <3>2. CASE c = d
      BY <1>0, <3>1, <3>2 DEF Goto, Caller
    <3>3. CASE c # d
      BY <1>0, <3>1, <3>3 DEF Goto
    <3> QED BY <3>2, <3>3
  <2> QED BY <2>1, <2>2
<1>3. ASSUME NEW c \in Callers, Send(c) PROVE Spaced
  <2>1. c # d /\ caller[d].at = "interval" /\ Holds(c)
    BY <1>0, <1>3 DEF Send, Holds, Caller
  <2> QED BY <2>1, Alone DEF IInv, Holds
<1>4. CASE Tick
  <2>1. caller[d].at = "interval" /\ caller'[d].wait = Less(caller[d].wait)
    BY <1>0, <1>4 DEF Tick, Caller
  <2> QED BY <1>0, <1>4, <2>1, WaitRanges DEF Tick, Less, More, Caller
<1>5. CASE UNCHANGED vars
  BY <1>0, <1>5 DEF vars
<1> QED BY <1>1, <1>2, <1>3, <1>4, <1>5 DEF Next, CallStep

LEMMA Inductive == Spec => []IInv
<1>1. IInv /\ [Next]_vars => IInv'
  BY NextTypes, NextSlots, NextProbes, NextQuiet, NextSpaced DEF IInv, TypeOK
<1> QED BY InitInv, <1>1, PTL DEF Spec
-----------------------------------------------------------------------------
(* The theorems.                                                           *)

\* Every variable of the gate, the breaker and the calls keeps its type.
THEOREM TypeCorrect == Spec => []TypeOK
<1>1. IInv => TypeOK
  BY DEF IInv
<1> QED BY Inductive, <1>1, PTL

\* The semaphore holds: never more calls past it than the limit, whatever the
\* limit, and a slot is neither lost nor given back twice.
THEOREM GateWithinLimit == Spec => [](SlotsCounted /\ WithinLimit)
<1>1. IInv => SlotsCounted /\ WithinLimit
  BY LimitsAssumption DEF IInv, SlotsCounted, WithinLimit, TypeOK
<1> QED BY Inductive, <1>1, PTL

\* A half-open breaker lets no call in beside its probe.
THEOREM HalfOpenAdmitsNone == Spec => OneProbeOnly
<1>1. IInv /\ [Next]_vars => [NoSecondProbe]_vars
  <2> SUFFICES ASSUME IInv, Next, breaker.state = "halfOpen",
                      NEW d \in Callers, caller[d].at = "idle"
               PROVE  caller'[d].at = "idle"
    BY DEF NoSecondProbe, vars
  <2>0. caller \in [Callers -> Caller]
    BY DEF IInv, TypeOK
  <2>1. \A c \in Callers : ~Allow(c)
    BY DEF Allow, Admits, IInv, HalfOpenProbes
  <2>2. ASSUME NEW c \in Callers, c # d, CallStep(c) \/ TakeSlot(c) \/ Cancel(c)
        PROVE  caller'[d] = caller[d]
    BY <2>0, <2>2 DEF CallStep, TakeSlot, WaitCooldown, RecheckCooldown, Send, Succeed, Fail,
         RateLimited, Retry, Cancel, Goto, Ends
  <2>3. ~CallStep(d) /\ ~TakeSlot(d) /\ ~Cancel(d)
    BY DEF CallStep, TakeSlot, WaitCooldown, RecheckCooldown, Send, Succeed, Fail,
         RateLimited, Retry, Cancel
  <2>4. CASE Tick
    BY <2>0, <2>4 DEF Tick, Caller
  <2> QED BY <2>1, <2>2, <2>3, <2>4 DEF Next
<1> QED BY Inductive, <1>1, PTL DEF Spec, OneProbeOnly

\* With one slot no request leaves while the model cools down.
THEOREM CooldownIsRespected == Spec => RequestsRespectCooldown
<1>1. IInv /\ [Next]_vars => [Limit = 1 => SentWhenCool]_vars
  <2> SUFFICES ASSUME IInv, Next, Limit = 1,
                      NEW d \in Callers, caller[d].at # "send", caller'[d].at = "send"
               PROVE  cooldown = 0
    BY DEF SentWhenCool, vars
  <2>0. /\ caller \in [Callers -> Caller] /\ cooldown \in Nat
        /\ caller[d].at = "interval" => cooldown = 0
        /\ caller[d].at = "retryWait" => cooldown <= caller[d].wait
    BY LimitsAssumption DEF IInv, TypeOK, QuietHolder
  <2>1. ASSUME NEW c \in Callers, Send(c) \/ Retry(c) PROVE cooldown = 0
    <3>1. c = d
      BY <2>0, <2>1 DEF Send, Retry
    <3> QED BY <2>0, <2>1, <3>1 DEF Send, Retry
  <2>2. ASSUME NEW c \in Callers,
               Allow(c) \/ TakeSlot(c) \/ WaitCooldown(c) \/ RateLimited(c)
        PROVE  FALSE
    BY <2>0, <2>2 DEF Allow, TakeSlot, WaitCooldown, RateLimited, Goto, Caller
  <2>3. ASSUME NEW c \in Callers, RecheckCooldown(c) PROVE FALSE
    <3>1. Goto(c, "gate", 0) \/ Goto(c, "interval", MinInterval - gap)
      BY <2>3 DEF RecheckCooldown
    <3> QED BY <2>0, <3>1 DEF Goto, Caller
  <2>4. ASSUME NEW c \in Callers, Succeed(c) \/ Fail(c) \/ Cancel(c) PROVE FALSE
    BY <2>0, <2>4 DEF Succeed, Fail, Cancel, Ends, IdleCaller
  <2>5. ~Tick
    BY <2>0 DEF Tick, Caller
  <2> QED BY <2>1, <2>2, <2>3, <2>4, <2>5 DEF Next, CallStep
<1> QED BY Inductive, <1>1, PTL DEF Spec, RequestsRespectCooldown

\* With one slot the first requests of two calls are the interval apart.
THEOREM StartsAreSpaced == Spec => CallsAreSpaced
<1>1. IInv /\ [Next]_vars => [Limit = 1 => SentApart]_vars
  <2> SUFFICES ASSUME IInv, Next, Limit = 1,
                      NEW d \in Callers, caller[d].at = "interval", caller'[d].at = "send"
               PROVE  gap = MinInterval
    BY DEF SentApart, vars
  <2>0. /\ caller \in [Callers -> Caller] /\ gap \in 0 .. MinInterval
        /\ gap + caller[d].wait >= MinInterval
    BY DEF IInv, TypeOK, SpacedHolder
  <2>1. ASSUME NEW c \in Callers, Send(c) PROVE gap = MinInterval
    <3>1. c = d
      BY <2>0, <2>1 DEF Send
    <3> QED BY <2>0, <2>1, <3>1, LimitsAssumption DEF Send
  <2>2. ASSUME NEW c \in Callers,
               Allow(c) \/ TakeSlot(c) \/ WaitCooldown(c) \/ RateLimited(c) \/ Retry(c)
        PROVE  FALSE
    BY <2>0, <2>2 DEF Allow, TakeSlot, WaitCooldown, RateLimited, Retry, Goto, Caller
  <2>3. ASSUME NEW c \in Callers, RecheckCooldown(c) PROVE FALSE
    <3>1. Goto(c, "gate", 0) \/ Goto(c, "interval", MinInterval - gap)
      BY <2>3 DEF RecheckCooldown
    <3> QED BY <2>0, <3>1 DEF Goto, Caller
  <2>4. ASSUME NEW c \in Callers, Succeed(c) \/ Fail(c) \/ Cancel(c) PROVE FALSE
    BY <2>0, <2>4 DEF Succeed, Fail, Cancel, Ends, IdleCaller
  <2>5. ~Tick
    BY <2>0 DEF Tick, Caller
  <2> QED BY <2>1, <2>2, <2>3, <2>4, <2>5 DEF Next, CallStep
<1> QED BY Inductive, <1>1, PTL DEF Spec, CallsAreSpaced
=============================================================================
