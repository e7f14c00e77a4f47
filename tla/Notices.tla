------------------------------ MODULE Notices ------------------------------
(***************************************************************************)
(* The notices a position gives rise to, on their way to the outbound      *)
(* channels: the producers (open, take-profit, close, reconcile summary,   *)
(* Freqtrade's webhook), the render and deliver jobs that River keeps in   *)
(* Postgres, and the dedupe guard of the notify manager, which lives in    *)
(* memory.  Up to four notices of one position speak of its close under    *)
(* one key, and the guard is meant to merge them.                          *)
(*                                                                         *)
(* Time.  The guard compares now with an instant; the model keeps the age  *)
(* of the entry in ticks, and Tick moves it.  A send is bounded by the     *)
(* 15 s of the clients, less than the 90 s of the guard.                   *)
(***************************************************************************)
EXTENDS Integers

CONSTANTS
  Channels,     \* outbound channels: telegram, feishu, email
  Setups,       \* channels configured, notices a position makes, and the
                \* attempts of a deliver job (notifyDeliverMaxAttempts)
  TTL,          \* life of a dedupe entry, in ticks
  MaxFaults     \* bound: failing sends and inserts, and restarts

NoticeKinds == {"open", "partial", "tradePartial", "close", "summary", "trade"}
    \* open: the row of a fill;  partial, close: the close order of a part, of
    \* all;  tradePartial, trade: the webhook's word of either;  summary: the
    \* reconcile run found the trade gone

ASSUME NoticesAssumption ==
  /\ Setups \subseteq [channels : SUBSET Channels, kinds : SUBSET NoticeKinds,
                      attempts : Nat \ {0}]
  /\ TTL \in Nat /\ MaxFaults \in Nat

VARIABLES
  setup,    \* one of Setups, chosen for good
  stage,    \* how far the position is
  render,   \* render[n]: the render job of a notice
  deliver,  \* deliver[n][c]: its deliver job for a channel, and the attempts made
  guard,    \* guard[k][c]: the dedupe entry of a key on a channel
  told,     \* told[k][c]: ticks since a message of the key went out, for checking
  sent,     \* sent[n]: channels a message of the notice went out on, for checking
  covered,  \* covered[n]: channels told of n's key since n was made, or shortly before
  faults    \* failures so far

vars == <<setup, stage, render, deliver, guard, told, sent, covered, faults>>

-----------------------------------------------------------------------------
\* closeAggregateKey gives every notice of a close the key of its trade.
Key(n) == IF n \in {"open", "tradePartial"} THEN n ELSE "close_final"
Keys == {"open", "tradePartial", "close_final"}

Stages == {"open", "partly", "closing", "closed"}
JobAt == {"none", "queued", "sending", "sent", "done", "dropped"}
Job == [at : JobAt, tries : 0 .. setup.attempts]
NoJob == [at |-> "none", tries |-> 0]

\* An entry is free, in flight or kept; the age is that of its instant.
Entry == [at : {"free", "inFlight", "kept"}, age : 0 .. TTL]
Free == [at |-> "free", age |-> 0]
Never == TTL + 1

At(n, c) == deliver[n][c].at
\* One more failure fits the bound.
Fault == faults < MaxFaults /\ faults' = faults + 1

Init ==
  /\ setup \in Setups
  /\ stage = "open"
  \* The open notice was inserted in the transaction that saved the row.
  /\ render = [n \in NoticeKinds |-> IF n = "open" /\ n \in setup.kinds THEN "queued" ELSE "none"]
  /\ deliver = [n \in NoticeKinds |-> [c \in Channels |-> NoJob]]
  /\ guard = [k \in Keys |-> [c \in Channels |-> Free]]
  /\ told = [k \in Keys |-> [c \in Channels |-> Never]]
  /\ sent = [n \in NoticeKinds |-> {}]
  /\ covered = [n \in NoticeKinds |-> {}]
  /\ faults = 0

-----------------------------------------------------------------------------
(* Producers.  A notice that cannot be inserted is logged and forgotten.   *)

Enqueue(n) ==
  /\ n \in setup.kinds /\ render[n] = "none"
  /\ \/ /\ render' = [render EXCEPT ![n] = "queued"]
        /\ covered' = [covered EXCEPT ![n] = {c \in Channels : told[Key(n)][c] <= TTL}]
        /\ UNCHANGED faults
     \/ /\ Fault
        /\ render' = [render EXCEPT ![n] = "lost"]
        /\ UNCHANGED covered
  /\ UNCHANGED <<setup, deliver, guard, told, sent>>

\* ArmClose after a take-profit level, and after anything that closes it all.
TakeProfit == stage = "open" /\ stage' = "partly" /\ Enqueue("partial")
CloseAll == stage \in {"open", "partly"} /\ stage' = "closing" /\ Enqueue("close")

\* The webhook of a filled exit order.
WebhookPartial == stage = "partly" /\ Enqueue("tradePartial") /\ UNCHANGED stage
WebhookExit == stage = "closed" /\ Enqueue("trade") /\ UNCHANGED stage

\* The executor closes the trade, ordered or not; a reconcile run sees it.
Gone ==
  /\ stage # "closed" /\ stage' = "closed"
  /\ UNCHANGED <<setup, render, deliver, guard, told, sent, covered, faults>>
Summary == stage = "closed" /\ Enqueue("summary") /\ UNCHANGED stage

-----------------------------------------------------------------------------
(* Render job: one deliver job for each channel.                           *)

Inserted(n) == {c \in Channels : At(n, c) # "none"}

\* Mutant of InsertDeliver: the job ends with the first channel.
InsertFirstOnly(n, c) ==
  /\ render[n] = "queued" /\ At(n, c) = "none" /\ c \in setup.channels
  /\ deliver' = [deliver EXCEPT ![n][c].at = "queued"]
  /\ render' = [render EXCEPT ![n] = "done"]
  /\ UNCHANGED <<setup, stage, guard, told, sent, covered, faults>>

\* EnqueueRendered; a failing insert or a restart ends the attempt, and the
\* next goes through the channels again: what is there already is unique.
InsertDeliver(n, c) ==
  /\ render[n] = "queued" /\ At(n, c) = "none" /\ c \in setup.channels
  /\ deliver' = [deliver EXCEPT ![n][c].at = "queued"]
  /\ render' = [render EXCEPT ![n] =
                  IF setup.channels \subseteq Inserted(n) \cup {c} THEN "done" ELSE @]
  /\ UNCHANGED <<setup, stage, guard, told, sent, covered, faults>>

\* The period of uniqueness has passed when the attempt is repeated: a channel
\* that was served gets a second job.
RenderAgain(n, c) ==
  /\ render[n] = "queued" /\ At(n, c) \in {"done", "dropped"}
  /\ Fault
  /\ deliver' = [deliver EXCEPT ![n][c] = [at |-> "queued", tries |-> 0]]
  /\ UNCHANGED <<setup, stage, render, guard, told, sent, covered>>

-----------------------------------------------------------------------------
(* Deliver job: sendWithKey on the manager scoped to one channel.          *)

\* Mutant of TryAcquire: a send in flight does not stop another one.
TryAcquireUnlessKept(n, c) ==
  /\ At(n, c) = "queued" /\ guard[Key(n)][c].at # "kept"
  /\ guard' = [guard EXCEPT ![Key(n)][c] = [at |-> "inFlight", age |-> 0]]
  /\ deliver' = [deliver EXCEPT ![n][c] = [at |-> "sending", tries |-> @.tries + 1]]
  /\ UNCHANGED <<setup, stage, render, told, sent, covered, faults>>

TryAcquire(n, c) ==
  /\ At(n, c) = "queued" /\ guard[Key(n)][c].at = "free"
  /\ guard' = [guard EXCEPT ![Key(n)][c] = [at |-> "inFlight", age |-> 0]]
  /\ deliver' = [deliver EXCEPT ![n][c] = [at |-> "sending", tries |-> @.tries + 1]]
  /\ UNCHANGED <<setup, stage, render, told, sent, covered, faults>>

\* A duplicate is skipped without an error: the job is done.
Skip(n, c) ==
  /\ At(n, c) = "queued" /\ guard[Key(n)][c].at # "free"
  /\ deliver' = [deliver EXCEPT ![n][c].at = "done"]
  /\ UNCHANGED <<setup, stage, render, guard, told, sent, covered, faults>>

\* The message is out, and commit starts the life of the entry.
SendSucceeds(n, c) ==
  /\ At(n, c) = "sending"
  /\ deliver' = [deliver EXCEPT ![n][c].at = "sent"]
  /\ guard' = [guard EXCEPT ![Key(n)][c] = [at |-> "kept", age |-> 0]]
  /\ told' = [told EXCEPT ![Key(n)][c] = 0]
  /\ sent' = [sent EXCEPT ![n] = @ \cup {c}]
  /\ covered' = [m \in NoticeKinds |-> IF Key(m) = Key(n) /\ render[m] # "none"
                                   THEN covered[m] \cup {c} ELSE covered[m]]
  /\ UNCHANGED <<setup, stage, render, faults>>

\* A failed attempt is repeated until the attempts are used up.
AfterAttempt(job) == [job EXCEPT !.at = IF job.tries < setup.attempts THEN "queued" ELSE "dropped"]

\* Mutants of SendFails: the key is not released; the attempts do not end.
SendFailsKeepsKey(n, c) ==
  /\ At(n, c) = "sending" /\ Fault
  /\ deliver' = [deliver EXCEPT ![n][c] = AfterAttempt(@)]
  /\ UNCHANGED <<setup, stage, render, guard, told, sent, covered>>
SendFailsForEver(n, c) ==
  /\ At(n, c) = "sending" /\ Fault
  /\ deliver' = [deliver EXCEPT ![n][c].at = "queued"]
  /\ guard' = [guard EXCEPT ![Key(n)][c] = Free]
  /\ UNCHANGED <<setup, stage, render, told, sent, covered>>

SendFails(n, c) ==
  /\ At(n, c) = "sending" /\ Fault
  /\ deliver' = [deliver EXCEPT ![n][c] = AfterAttempt(@)]
  /\ guard' = [guard EXCEPT ![Key(n)][c] = Free]
  /\ UNCHANGED <<setup, stage, render, told, sent, covered>>

\* River writes the end of the job down.
Complete(n, c) ==
  /\ At(n, c) = "sent"
  /\ deliver' = [deliver EXCEPT ![n][c].at = "done"]
  /\ UNCHANGED <<setup, stage, render, guard, told, sent, covered, faults>>

-----------------------------------------------------------------------------
\* The guard is lost, and River runs again what it has no end of.  Whether a
\* message went out before the restart is not remembered either.
Restart ==
  /\ Fault
  /\ guard' = [k \in Keys |-> [c \in Channels |-> Free]]
  /\ told' = [k \in Keys |-> [c \in Channels |-> Never]]
  /\ deliver' = [n \in NoticeKinds |-> [c \in Channels |->
       IF At(n, c) \in {"sending", "sent"} THEN AfterAttempt(deliver[n][c]) ELSE deliver[n][c]]]
  /\ UNCHANGED <<setup, stage, render, sent, covered>>

Aged(e) ==
  IF e.at = "kept" /\ e.age = TTL THEN Free
    ELSE IF e.at = "free" THEN e ELSE [e EXCEPT !.age = @ + 1]

\* A send ends within the life of an entry.
Tick ==
  /\ \A k \in Keys, c \in Channels : ~(guard[k][c].at = "inFlight" /\ guard[k][c].age = TTL)
  /\ guard' = [k \in Keys |-> [c \in Channels |-> Aged(guard[k][c])]]
  /\ told' = [k \in Keys |-> [c \in Channels |->
       IF told[k][c] < Never THEN told[k][c] + 1 ELSE told[k][c]]]
  /\ UNCHANGED <<setup, stage, render, deliver, sent, covered, faults>>

Produce ==
  TakeProfit \/ WebhookPartial \/ CloseAll \/ Gone \/ Summary \/ WebhookExit

Work(n, c) ==
  \/ InsertDeliver(n, c) \/ TryAcquire(n, c) \/ Skip(n, c)
  \/ SendSucceeds(n, c) \/ SendFails(n, c) \/ Complete(n, c)

Next ==
  \/ Produce
  \/ \E n \in NoticeKinds, c \in Channels : Work(n, c) \/ RenderAgain(n, c)
  \/ Restart \/ Tick

Spec == Init /\ [][Next]_vars

\* River goes on as long as there is a job, and a send ends one way or the other.
Fairness == WF_vars(\E n \in NoticeKinds, c \in Channels : Work(n, c))

FairSpec == Spec /\ Fairness

-----------------------------------------------------------------------------
(* Properties                                                              *)

TypeOK ==
  /\ setup \in Setups
  /\ stage \in Stages
  /\ render \in [NoticeKinds -> {"none", "lost", "queued", "done"}]
  /\ deliver \in [NoticeKinds -> [Channels -> Job]]
  /\ guard \in [Keys -> [Channels -> Entry]]
  /\ told \in [Keys -> [Channels -> 0 .. Never]]
  /\ sent \in [NoticeKinds -> SUBSET Channels]
  /\ covered \in [NoticeKinds -> SUBSET Channels]
  /\ faults \in 0 .. MaxFaults

\* A channel is not told twice of one key within the life of an entry: not by
\* notices of different producers, jobs that overlap, retries or repeated
\* renders.  Only a restart, which forgets the entries, lets a message repeat.
ToldApart ==
  \A n \in NoticeKinds, c \in Channels :
    At(n, c) = "sending" /\ At(n, c)' = "sent" => told[Key(n)][c] = Never
NoRepeat == [][ToldApart]_vars

\* A deliver job that is done was told of, itself or by a message of its key,
\* or it was skipped for a job of the key that is still at it: one that gives
\* up has used all its attempts.
SkippedIsCarried ==
  \A n \in NoticeKinds, c \in Channels :
    At(n, c) = "done" /\ c \notin covered[n] =>
      \E m \in NoticeKinds : Key(m) = Key(n) /\ At(m, c) \in {"queued", "sending", "dropped"}

\* With fewer failures than a job has attempts, every notice that was accepted
\* is told on every channel, itself or by a message of its key sent since, or at
\* most TTL before.
AllTold ==
  \A n \in NoticeKinds, c \in setup.channels :
    render[n] \in {"queued", "done"} => c \in covered[n]
NoticesAreTold == []<>(MaxFaults < setup.attempts => AllTold)

\* docs/runtime-api.org:278 says of the position close notice: sent on full
\* close, duplicate notifications merged.
FullCloseIsTold ==
  \A c \in Channels :
    (stage = "closed" /\ render["summary"] = "queued" /\ c \in setup.channels) ~>
      \E n \in {"close", "summary", "trade"} : c \in sent[n]
=============================================================================
