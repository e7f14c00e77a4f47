------------------------------ MODULE LLMCall ------------------------------
(***************************************************************************)
(* The calls of one model of an LLM provider: the circuit breaker that     *)
(* admits a call, the gate that limits how many run at once and how close  *)
(* to one another they start, the cooldown a rate limit puts on the model, *)
(* and the attempts of a call.  Every agent and provider of a decision     *)
(* calls the same few models, so calls of one model overlap.               *)
(*                                                                         *)
(* Time.  The code keeps instants and sleeps; the model keeps what is left *)
(* of a wait and the age of an instant, capped, and Tick moves them.       *)
(***************************************************************************)
EXTENDS Integers, FiniteSets

CONSTANTS
  Callers,        \* calls that may overlap
  Limit,          \* calls of the model that may run at once
  FailThreshold,  \* failures that open the breaker
  OpenFor,        \* ticks an open breaker refuses every call
  MinInterval,    \* llm_min_interval, in ticks
  MaxWait,        \* bound: longest wait a rate limit asks for
  Cancels         \* kinds of behaviours: TRUE when contexts may end early

MaxAttempts == 3

ASSUME CallersAssumption == IsFiniteSet(Callers)

ASSUME LimitsAssumption ==
  /\ Limit \in Nat \ {0} /\ FailThreshold \in Nat \ {0}
  /\ OpenFor \in Nat /\ MinInterval \in Nat /\ MaxWait \in Nat
  /\ Cancels \subseteq BOOLEAN

VARIABLES
  cancels,   \* whether the context of a call may end early, chosen for good
  breaker,   \* the circuit breaker of the model
  cooldown,  \* ticks left of the cooldown of the model
  gap,       \* ticks since the gate last let a call start
  used,      \* occupied slots of the semaphore
  caller     \* caller[c]: where a call is, its attempt, what is left of its wait

vars == <<cancels, breaker, cooldown, gap, used, caller>>

-----------------------------------------------------------------------------
Breaker == [state : {"closed", "open", "halfOpen"}, fails : 0 .. FailThreshold,
            openAge : 0 .. OpenFor, probing : BOOLEAN]
Longest == IF MinInterval > MaxWait THEN MinInterval ELSE MaxWait
CallerAt == {"idle", "gate", "cooldown", "slot", "interval", "send", "retryWait"}
Caller == [at : CallerAt, attempt : 0 .. MaxAttempts, wait : 0 .. Longest]
IdleCaller == [at |-> "idle", attempt |-> 0, wait |-> 0]

Holds(c) == caller[c].at \in {"slot", "interval", "send", "retryWait"}
Holders == {c \in Callers : Holds(c)}

\* The breaker after a success, after a failure, after it admitted a call.
Closed == [state |-> "closed", fails |-> 0, openAge |-> 0, probing |-> FALSE]

\* Mutant: a failed probe leaves the breaker half-open, its probe in flight.
RecordFailureOfCalls ==
  IF breaker.state = "halfOpen" THEN [breaker EXCEPT !.fails = FailThreshold]
  ELSE IF breaker.fails + 1 < FailThreshold THEN [breaker EXCEPT !.fails = @ + 1]
  ELSE [state |-> "open", fails |-> FailThreshold, openAge |-> 0, probing |-> FALSE]

RecordFailure ==
  LET fails == IF breaker.state = "halfOpen" \/ breaker.fails + 1 > FailThreshold
                 THEN FailThreshold ELSE breaker.fails + 1
  IN IF fails = FailThreshold
       THEN [state |-> "open", fails |-> fails, openAge |-> 0, probing |-> FALSE]
       ELSE [breaker EXCEPT !.fails = fails]

Admits ==
  \/ breaker.state = "closed"
  \/ breaker.state = "open" /\ breaker.openAge = OpenFor
  \/ breaker.state = "halfOpen" /\ ~breaker.probing

\* Mutant: the call that turns the breaker half-open is not marked as a probe.
AdmitUnmarked ==
  IF breaker.state = "closed" THEN breaker
    ELSE [breaker EXCEPT !.state = "halfOpen", !.probing = breaker.state = "halfOpen"]

Admit ==
  IF breaker.state = "closed" THEN breaker
    ELSE [breaker EXCEPT !.state = "halfOpen", !.probing = TRUE]

Goto(c, at, wait) == caller' = [caller EXCEPT ![c].at = at, ![c].wait = wait]
Ends(c) == caller' = [caller EXCEPT ![c] = IdleCaller]
\* release(): a receive that does not block.
Release == used' = IF used > 0 THEN used - 1 ELSE used

Init ==
  /\ cancels \in Cancels
  /\ breaker = Closed
  /\ cooldown = 0
  /\ gap = MinInterval
  /\ used = 0
  /\ caller = [c \in Callers |-> IdleCaller]

-----------------------------------------------------------------------------
(* ModelGateRegistry.Acquire, behind the breaker.  A refused call changes  *)
(* nothing and is left out.                                                *)

Allow(c) ==
  /\ caller[c].at = "idle" /\ Admits
  /\ breaker' = Admit
  /\ Goto(c, "gate", 0)
  /\ UNCHANGED <<cancels, cooldown, gap, used>>

WaitCooldown(c) ==
  /\ caller[c].at = "gate"
  /\ Goto(c, "cooldown", cooldown)
  /\ UNCHANGED <<cancels, breaker, cooldown, gap, used>>

TakeSlot(c) ==
  /\ caller[c].at = "cooldown" /\ caller[c].wait = 0 /\ used < Limit
  /\ used' = used + 1
  /\ Goto(c, "slot", 0)
  /\ UNCHANGED <<cancels, breaker, cooldown, gap>>

\* Mutants of RecheckCooldown: no recheck; no wait for the interval.
NoRecheck(c) ==
  /\ caller[c].at = "slot"
  /\ Goto(c, "interval", MinInterval - gap)
  /\ UNCHANGED <<cancels, breaker, cooldown, gap, used>>
RecheckWithoutInterval(c) ==
  /\ caller[c].at = "slot"
  /\ IF cooldown > 0 THEN Goto(c, "gate", 0) /\ Release
                     ELSE Goto(c, "interval", 0) /\ UNCHANGED used
  /\ UNCHANGED <<cancels, breaker, cooldown, gap>>

\* With the slot in hand the cooldown may have come meanwhile; if not, what
\* is left of the interval is read and waited for.
RecheckCooldown(c) ==
  /\ caller[c].at = "slot"
  /\ IF cooldown > 0 THEN Goto(c, "gate", 0) /\ Release
                     ELSE Goto(c, "interval", MinInterval - gap) /\ UNCHANGED used
  /\ UNCHANGED <<cancels, breaker, cooldown, gap>>

Send(c) ==
  /\ caller[c].at = "interval" /\ caller[c].wait = 0
  /\ gap' = 0
  /\ caller' = [caller EXCEPT ![c].at = "send", ![c].attempt = 1]
  /\ UNCHANGED <<cancels, breaker, cooldown, used>>

-----------------------------------------------------------------------------
(* The attempts of doCall.                                                 *)

Succeed(c) ==
  /\ caller[c].at = "send"
  /\ breaker' = Closed
  /\ Ends(c) /\ Release
  /\ UNCHANGED <<cancels, cooldown, gap>>

\* Mutant of Fail: a call that fails keeps its slot.
FailKeepsSlot(c) ==
  /\ caller[c].at = "send"
  /\ breaker' = RecordFailure
  /\ Ends(c)
  /\ UNCHANGED <<cancels, cooldown, gap, used>>

\* Any other error, a cancelled request, or a rate limit on the last attempt.
Fail(c) ==
  /\ caller[c].at = "send"
  /\ breaker' = RecordFailure
  /\ Ends(c) /\ Release
  /\ UNCHANGED <<cancels, cooldown, gap>>

\* Mutant of RateLimited: every attempt is followed by another one.
RateLimitedForEver(c) ==
  /\ caller[c].at = "send"
  /\ \E d \in 1 .. MaxWait :
       cooldown' = (IF d > cooldown THEN d ELSE cooldown) /\ Goto(c, "retryWait", d)
  /\ UNCHANGED <<cancels, breaker, gap, used>>

\* SetCooldown only moves the end of the cooldown away; the slot is kept.
RateLimited(c) ==
  /\ caller[c].at = "send" /\ caller[c].attempt < MaxAttempts
  /\ \E d \in 1 .. MaxWait :
       cooldown' = (IF d > cooldown THEN d ELSE cooldown) /\ Goto(c, "retryWait", d)
  /\ UNCHANGED <<cancels, breaker, gap, used>>

Retry(c) ==
  /\ caller[c].at = "retryWait" /\ caller[c].wait = 0
  /\ caller' = [caller EXCEPT ![c].at = "send", ![c].attempt = @ + 1]
  /\ UNCHANGED <<cancels, breaker, cooldown, gap, used>>

\* Mutant of Cancel: a call that waits in the queue gives a slot back.
CancelReleases(c) ==
  /\ cancels
  /\ \/ caller[c].at = "cooldown"
     \/ caller[c].at \in {"interval", "retryWait"} /\ caller[c].wait > 0
  /\ Ends(c) /\ Release
  /\ UNCHANGED <<cancels, breaker, cooldown, gap>>

\* The context ends while the call waits: it returns, and tells the breaker
\* nothing.
Cancel(c) ==
  /\ cancels
  /\ \/ caller[c].at = "cooldown" /\ UNCHANGED used
     \/ caller[c].at \in {"interval", "retryWait"} /\ caller[c].wait > 0 /\ Release
  /\ Ends(c)
  /\ UNCHANGED <<cancels, breaker, cooldown, gap>>

Less(n) == IF n > 0 THEN n - 1 ELSE n
More(n, max) == IF n < max THEN n + 1 ELSE n

Tick ==
  /\ cooldown' = Less(cooldown)
  /\ gap' = More(gap, MinInterval)
  /\ breaker' = [breaker EXCEPT !.openAge =
                   IF breaker.state = "open" THEN More(@, OpenFor) ELSE @]
  /\ caller' = [c \in Callers |-> [caller[c] EXCEPT !.wait = Less(@)]]
  /\ UNCHANGED <<cancels, used>>

CallStep(c) ==
  \/ WaitCooldown(c) \/ RecheckCooldown(c) \/ Send(c)
  \/ Succeed(c) \/ Fail(c) \/ RateLimited(c) \/ Retry(c)

Next ==
  \/ \E c \in Callers : Allow(c) \/ TakeSlot(c) \/ CallStep(c) \/ Cancel(c)
  \/ Tick

Spec == Init /\ [][Next]_vars

\* Time passes; a call takes its next step (a request has a timeout); the
\* goroutines blocked on the semaphore are served in the order they came; and
\* decisions keep calling.
Fairness ==
  /\ WF_vars(Tick)
  /\ \A c \in Callers : WF_vars(CallStep(c)) /\ SF_vars(TakeSlot(c)) /\ WF_vars(Allow(c))

FairSpec == Spec /\ Fairness

-----------------------------------------------------------------------------
(* Properties                                                              *)

TypeOK ==
  /\ cancels \in Cancels
  /\ breaker \in Breaker
  /\ cooldown \in 0 .. MaxWait
  /\ gap \in 0 .. MinInterval
  /\ used \in 0 .. Limit
  /\ caller \in [Callers -> Caller]

\* No more calls of a model hold the gate than its concurrency allows, however
\* calls are cancelled or sent back to the cooldown on the way.
WithinLimit == Cardinality(Holders) <= Limit

\* With a concurrency of one no request leaves while the model cools down: not
\* one that queued before the rate limit came, not a retry.
SentWhenCool ==
  \A c \in Callers : caller[c].at # "send" /\ caller'[c].at = "send" => cooldown = 0
RequestsRespectCooldown == [][Limit = 1 => SentWhenCool]_vars

\* With a concurrency of one the first requests of two calls are at least
\* llm_min_interval apart.
SentApart ==
  \A c \in Callers : caller[c].at = "interval" /\ caller'[c].at = "send" => gap = MinInterval
CallsAreSpaced == [][Limit = 1 => SentApart]_vars

\* A half-open breaker lets no call in beside the probe.
NoSecondProbe ==
  breaker.state = "halfOpen" =>
    \A c \in Callers : caller[c].at = "idle" => caller'[c].at = "idle"
OneProbeOnly == [][NoSecondProbe]_vars

\* While no context ends early, an admitted call ends: its slot, and the slots,
\* cooldowns and intervals it waits for, all come free.
CallsEndUncancelled ==
  \A c \in Callers : (~cancels /\ caller[c].at # "idle") ~> (caller[c].at = "idle")

\* While no context ends early, a breaker that refuses calls admits one again.
BreakerProbesUncancelled == (~cancels /\ ~Admits) ~> Admits

\* CHANGELOG.org:60 says of the breaker that it opens after five failures and
\* probes half-open after one minute: it does not refuse calls for ever.
BreakerProbes == ~Admits ~> Admits
=============================================================================
