--------------------------- MODULE Notices_proofs ---------------------------
(***************************************************************************)
(* Proofs about Notices, for all channels, setups, lives of an entry and   *)
(* numbers of faults.                                                      *)
(***************************************************************************)
EXTENDS Notices, TLAPS

LEMMA Bounds ==
  /\ TTL \in Nat /\ MaxFaults \in Nat
  /\ \A s \in Setups : s.attempts \in Nat \ {0} /\ s.channels \subseteq Channels
BY NoticesAssumption

LEMMA KeyInKeys == \A n \in NoticeKinds : Key(n) \in Keys
BY DEF Key, Keys

-----------------------------------------------------------------------------
(* Type correctness.                                                       *)

LEMMA InitTypes == Init => TypeOK
<1> SUFFICES ASSUME Init PROVE TypeOK
  OBVIOUS
<1>1. NoJob \in Job /\ Free \in Entry /\ Never \in 0 .. Never
  BY Bounds DEF Init, NoJob, Job, JobAt, Free, Entry, Never
<1> QED BY <1>1, Bounds DEF Init, TypeOK, Stages

\* What the actions write.
LEMMA Values ==
  ASSUME TypeOK
  PROVE  /\ \A job \in Job : /\ \A at \in JobAt : [job EXCEPT !.at = at] \in Job
                             /\ AfterAttempt(job) \in Job
         /\ [at |-> "queued", tries |-> 0] \in Job
         /\ \A at \in {"free", "inFlight", "kept"} : [at |-> at, age |-> 0] \in Entry
         /\ Free \in Entry /\ 0 \in 0 .. Never /\ Never \in 0 .. Never
BY Bounds DEF TypeOK, Job, JobAt, AfterAttempt, Entry, Free, Never

LEMMA FaultType == TypeOK /\ Fault => faults' \in 0 .. MaxFaults
BY Bounds DEF TypeOK, Fault

LEMMA EnqueueTypes ==
  ASSUME TypeOK, NEW n \in NoticeKinds, Enqueue(n), stage' \in Stages
  PROVE  TypeOK'
<1> USE DEF TypeOK
<1>1. /\ render' \in [NoticeKinds -> {"none", "lost", "queued", "done"}]
      /\ covered' \in [NoticeKinds -> SUBSET Channels]
  BY DEF Enqueue
<1>2. faults' \in 0 .. MaxFaults
  BY FaultType DEF Enqueue
<1> QED BY <1>1, <1>2 DEF Enqueue, Job

LEMMA ProduceTypes == TypeOK /\ Produce => TypeOK'
<1> SUFFICES ASSUME TypeOK, Produce PROVE TypeOK'
  OBVIOUS
<1>1. CASE Gone
  BY <1>1 DEF Gone, TypeOK, Stages, Job
<1>2. CASE \E n \in NoticeKinds : Enqueue(n) /\ stage' \in Stages
  BY <1>2, EnqueueTypes
<1> QED
  BY <1>1, <1>2 DEF Produce, TakeProfit, WebhookPartial, CloseAll, Summary, WebhookExit, TypeOK,
     Stages, NoticeKinds

\* A job that waits for an attempt has one left.
TriesLeft ==
  \A n \in NoticeKinds, c \in Channels :
    At(n, c) \in {"none", "queued"} => deliver[n][c].tries < setup.attempts

LEMMA WorkTypes ==
  ASSUME TypeOK, TriesLeft, NEW n \in NoticeKinds, NEW c \in Channels, Work(n, c) \/ RenderAgain(n, c)
  PROVE  TypeOK'
<1> USE DEF TypeOK
<1>k. Key(n) \in Keys
  BY KeyInKeys
<1>j. Job' = Job
  BY DEF Work, InsertDeliver, TryAcquire, Skip, SendSucceeds, SendFails, Complete, RenderAgain, Job
<1>d. deliver[n][c] \in Job /\ deliver[n][c].tries \in 0 .. setup.attempts
  BY DEF Job
<1>w. ASSUME NEW job \in Job, deliver' = [deliver EXCEPT ![n][c] = job]
      PROVE  deliver' \in [NoticeKinds -> [Channels -> Job']]
  BY <1>j, <1>w
<1>g. ASSUME NEW e \in Entry, guard' = [guard EXCEPT ![Key(n)][c] = e]
      PROVE  guard' \in [Keys -> [Channels -> Entry]]
  BY <1>k, <1>g
<1>at. ASSUME NEW at \in JobAt, deliver' = [deliver EXCEPT ![n][c].at = at]
       PROVE  deliver' \in [NoticeKinds -> [Channels -> Job']]
  <2>1. [deliver[n][c] EXCEPT !.at = at] \in Job
    BY <1>d, Values
  <2>2. deliver' = [deliver EXCEPT ![n][c] = [deliver[n][c] EXCEPT !.at = at]]
    BY <1>at
  <2> QED BY <1>w, <2>1, <2>2
<1>1. CASE InsertDeliver(n, c)
  <2>1. deliver' \in [NoticeKinds -> [Channels -> Job']]
    BY <1>1, <1>at DEF InsertDeliver, JobAt
  <2>2. render' \in [NoticeKinds -> {"none", "lost", "queued", "done"}]
    BY <1>1 DEF InsertDeliver
  <2> QED BY <1>1, <2>1, <2>2 DEF InsertDeliver
<1>2. CASE TryAcquire(n, c)
  <2>1. deliver[n][c].tries + 1 \in 0 .. setup.attempts
    BY <1>2, <1>d, Bounds DEF TryAcquire, TriesLeft, At
  <2>2. [at |-> "sending", tries |-> deliver[n][c].tries + 1] \in Job
    BY <2>1 DEF Job, JobAt
  <2>3. deliver' \in [NoticeKinds -> [Channels -> Job']]
    BY <1>2, <1>w, <2>2 DEF TryAcquire
  <2> QED BY <1>2, <1>g, <2>3, Values DEF TryAcquire
<1>3. CASE Skip(n, c)
  BY <1>3, <1>at DEF Skip, JobAt
<1>4. CASE SendSucceeds(n, c)
  <2>1. deliver' \in [NoticeKinds -> [Channels -> Job']]
    BY <1>4, <1>at DEF SendSucceeds, JobAt
  <2>2. guard' \in [Keys -> [Channels -> Entry]]
    BY <1>4, <1>g, Values DEF SendSucceeds
  <2>3. told' \in [Keys -> [Channels -> 0 .. Never]]
    BY <1>4, <1>k, Values DEF SendSucceeds
  <2>4. sent' \in [NoticeKinds -> SUBSET Channels] /\ covered' \in [NoticeKinds -> SUBSET Channels]
    BY <1>4 DEF SendSucceeds
  <2> QED BY <1>4, <2>1, <2>2, <2>3, <2>4 DEF SendSucceeds
<1>5. CASE SendFails(n, c)
  BY <1>5, <1>w, <1>g, <1>d, Values, FaultType DEF SendFails
<1>6. CASE Complete(n, c)
  BY <1>6, <1>at DEF Complete, JobAt
<1>7. CASE RenderAgain(n, c)
  BY <1>7, <1>w, Values, FaultType DEF RenderAgain
<1> QED BY <1>1, <1>2, <1>3, <1>4, <1>5, <1>6, <1>7 DEF Work

LEMMA RestartTypes == TypeOK /\ Restart => TypeOK'
<1> SUFFICES ASSUME TypeOK, Restart PROVE TypeOK'
  OBVIOUS
<1> USE DEF TypeOK
<1>1. faults' \in 0 .. MaxFaults
  BY FaultType DEF Restart
<1>2. guard' \in [Keys -> [Channels -> Entry]] /\ told' \in [Keys -> [Channels -> 0 .. Never]]
  BY Values DEF Restart
<1>3. Job' = Job
  BY DEF Restart, Job
<1>4. ASSUME NEW n \in NoticeKinds, NEW c \in Channels
      PROVE  (IF At(n, c) \in {"sending", "sent"} THEN AfterAttempt(deliver[n][c]) ELSE deliver[n][c]) \in Job
  BY Values
<1>5. deliver' \in [NoticeKinds -> [Channels -> Job]]
  BY <1>4 DEF Restart
<1> QED BY <1>1, <1>2, <1>3, <1>5 DEF Restart

LEMMA AgedType ==
  ASSUME NEW e \in Entry, ~(e.at = "inFlight" /\ e.age = TTL)
  PROVE  Aged(e) \in Entry
<1>1. e.age \in Nat /\ e.age <= TTL
  BY Bounds DEF Entry
<1>2. CASE e.at = "free" \/ (e.at = "kept" /\ e.age = TTL)
  BY <1>2, Bounds DEF Aged, Free, Entry
<1>3. CASE e.at # "free" /\ ~(e.at = "kept" /\ e.age = TTL)
  <2>1. e.age # TTL
    BY <1>3 DEF Entry
  <2>2. e.age + 1 \in 0 .. TTL
    BY <1>1, <2>1, Bounds
  <2> QED BY <1>3, <2>2 DEF Aged, Entry
<1> QED BY <1>2, <1>3

LEMMA TickTypes == TypeOK /\ Tick => TypeOK'
<1> SUFFICES ASSUME TypeOK, Tick PROVE TypeOK'
  OBVIOUS
<1> USE DEF TypeOK
<1>1. ASSUME NEW k \in Keys, NEW c \in Channels PROVE Aged(guard[k][c]) \in Entry
  <2>1. guard[k][c] \in Entry /\ ~(guard[k][c].at = "inFlight" /\ guard[k][c].age = TTL)
    BY DEF Tick
  <2> QED BY <2>1, AgedType
<1>2. ASSUME NEW k \in Keys, NEW c \in Channels
      PROVE  (IF told[k][c] < Never THEN told[k][c] + 1 ELSE told[k][c]) \in 0 .. Never
  BY Bounds DEF Never
<1>3. guard' \in [Keys -> [Channels -> Entry]] /\ told' \in [Keys -> [Channels -> 0 .. Never]]
  BY <1>1, <1>2 DEF Tick
<1> QED BY <1>3 DEF Tick, Job

-----------------------------------------------------------------------------
(* The guard.  An entry in flight has exactly one job that sends, a kept   *)
(* one is as old as the last message of its key.                           *)

OneSender ==
  \A n, m \in NoticeKinds, c \in Channels :
    Key(n) = Key(m) /\ At(n, c) = "sending" /\ At(m, c) = "sending" => n = m
SenderHolds ==
  \A n \in NoticeKinds, c \in Channels :
    At(n, c) = "sending" => guard[Key(n)][c].at = "inFlight"
HeldBySender ==
  \A k \in Keys, c \in Channels : guard[k][c].at = "inFlight" =>
    \E n \in NoticeKinds : Key(n) = k /\ At(n, c) = "sending"
KeptIsTold ==
  \A k \in Keys, c \in Channels :
    IF guard[k][c].at = "kept" THEN guard[k][c].age = told[k][c] ELSE told[k][c] = Never
GuardInv == OneSender /\ SenderHolds /\ HeldBySender /\ KeptIsTold

(* A job was rendered; a notice whose key was told lately is covered, and  *)
(* so is one whose own message went out.                                   *)

Accepted(n) == render[n] \in {"queued", "done"}
JobsRendered == \A n \in NoticeKinds, c \in Channels : At(n, c) # "none" => Accepted(n)
ToldIsCovered ==
  \A n \in NoticeKinds, c \in Channels :
    Accepted(n) /\ told[Key(n)][c] # Never => c \in covered[n]
SentIsCovered == \A n \in NoticeKinds, c \in Channels : At(n, c) = "sent" => c \in covered[n]
CoverInv == JobsRendered /\ ToldIsCovered /\ SentIsCovered /\ SkippedIsCarried

IInv == TypeOK /\ TriesLeft /\ GuardInv /\ CoverInv

LEMMA InitIInv == Init => IInv
<1> SUFFICES ASSUME Init PROVE IInv
  OBVIOUS
<1>1. /\ \A n \in NoticeKinds, c \in Channels : At(n, c) = "none" /\ deliver[n][c].tries = 0
      /\ \A k \in Keys, c \in Channels : guard[k][c].at = "free" /\ told[k][c] = Never
  BY DEF Init, At, NoJob, Free
<1>2. TriesLeft
  BY <1>1, Bounds DEF TriesLeft, Init
<1>3. GuardInv
  BY <1>1 DEF GuardInv, OneSender, SenderHolds, HeldBySender, KeptIsTold
<1>4. CoverInv
  BY <1>1, KeyInKeys DEF CoverInv, JobsRendered, ToldIsCovered, SentIsCovered, SkippedIsCarried
<1> QED BY <1>2, <1>3, <1>4, InitTypes DEF IInv

\* What a step on one job does to all of them.
Moves(n, c, from, to) ==
  /\ At(n, c) \in from /\ At(n, c)' \in to
  /\ \A m \in NoticeKinds, d \in Channels : <<m, d>> # <<n, c>> => deliver'[m][d] = deliver[m][d]

LEMMA WorkMoves ==
  ASSUME TypeOK, NEW n \in NoticeKinds, NEW c \in Channels
  PROVE  /\ InsertDeliver(n, c) => Moves(n, c, {"none"}, {"queued"})
         /\ TryAcquire(n, c) => Moves(n, c, {"queued"}, {"sending"})
         /\ Skip(n, c) => Moves(n, c, {"queued"}, {"done"})
         /\ SendSucceeds(n, c) => Moves(n, c, {"sending"}, {"sent"})
         /\ SendFails(n, c) => Moves(n, c, {"sending"}, {"queued", "dropped"})
         /\ Complete(n, c) => Moves(n, c, {"sent"}, {"done"})
         /\ RenderAgain(n, c) => Moves(n, c, {"done", "dropped"}, {"queued"})
<1> USE DEF TypeOK, Moves, At, Job
<1>1. InsertDeliver(n, c) => Moves(n, c, {"none"}, {"queued"})
  BY DEF InsertDeliver
<1>2. TryAcquire(n, c) => Moves(n, c, {"queued"}, {"sending"})
  BY DEF TryAcquire
<1>3. Skip(n, c) => Moves(n, c, {"queued"}, {"done"})
  BY DEF Skip
<1>4. SendSucceeds(n, c) => Moves(n, c, {"sending"}, {"sent"})
  BY DEF SendSucceeds
<1>5. SendFails(n, c) => Moves(n, c, {"sending"}, {"queued", "dropped"})
  BY DEF SendFails, AfterAttempt
<1>6. Complete(n, c) => Moves(n, c, {"sent"}, {"done"})
  BY DEF Complete
<1>7. RenderAgain(n, c) => Moves(n, c, {"done", "dropped"}, {"queued"})
  BY DEF RenderAgain
<1> QED BY <1>1, <1>2, <1>3, <1>4, <1>5, <1>6, <1>7

LEMMA OthersStay ==
  ASSUME NEW n \in NoticeKinds, NEW c \in Channels, NEW from, NEW to, Moves(n, c, from, to)
  PROVE  \A m \in NoticeKinds, d \in Channels : <<m, d>> # <<n, c>> => At(m, d)' = At(m, d)
BY DEF Moves, At

LEMMA WorkTries ==
  ASSUME IInv, NEW n \in NoticeKinds, NEW c \in Channels, Work(n, c) \/ RenderAgain(n, c)
  PROVE  TriesLeft'
<1> USE DEF IInv, TypeOK
<1>s. setup' = setup /\ setup.attempts \in Nat \ {0}
  BY Bounds DEF Work, InsertDeliver, TryAcquire, Skip, SendSucceeds, SendFails, Complete, RenderAgain
<1>1. \A m \in NoticeKinds, d \in Channels : <<m, d>> # <<n, c>> => deliver'[m][d] = deliver[m][d]
  BY WorkMoves DEF Work, Moves
<1>2. At(n, c)' \in {"none", "queued"} => deliver'[n][c].tries < setup.attempts
  <2>1. CASE InsertDeliver(n, c)
    BY <2>1 DEF InsertDeliver, TriesLeft, At, Job
  <2>2. CASE SendFails(n, c)
    BY <2>2 DEF SendFails, AfterAttempt, At, Job
  <2>3. CASE RenderAgain(n, c)
    BY <2>3, <1>s DEF RenderAgain
  <2>4. CASE TryAcquire(n, c) \/ Skip(n, c) \/ SendSucceeds(n, c) \/ Complete(n, c)
    BY <2>4, WorkMoves DEF Moves
  <2> QED BY <2>1, <2>2, <2>3, <2>4 DEF Work
<1> QED BY <1>s, <1>1, <1>2 DEF TriesLeft, At

LEMMA WorkGuards ==
  ASSUME IInv, NEW n \in NoticeKinds, NEW c \in Channels, Work(n, c) \/ RenderAgain(n, c)
  PROVE  GuardInv'
<1> USE DEF IInv, GuardInv
<1>k. Key(n) \in Keys /\ \A m \in NoticeKinds : Key(m) \in Keys
  BY KeyInKeys
<1>g. guard \in [Keys -> [Channels -> Entry]] /\ told \in [Keys -> [Channels -> 0 .. Never]]
  BY DEF TypeOK
<1>o. \A m \in NoticeKinds, d \in Channels : <<m, d>> # <<n, c>> => At(m, d)' = At(m, d)
  BY WorkMoves, OthersStay DEF Work
<1>1. CASE \/ InsertDeliver(n, c) \/ Skip(n, c) \/ Complete(n, c) \/ RenderAgain(n, c)
  <2>1. At(n, c)' # "sending" /\ At(n, c) # "sending"
    BY <1>1, WorkMoves DEF IInv, Moves
  <2>2. guard' = guard /\ told' = told
    BY <1>1 DEF InsertDeliver, Skip, Complete, RenderAgain
  <2> QED BY <1>o, <2>1, <2>2 DEF OneSender, SenderHolds, HeldBySender, KeptIsTold
<1>2. CASE TryAcquire(n, c)
  <2>1. /\ guard[Key(n)][c].at = "free" /\ guard'[Key(n)][c].at = "inFlight" /\ told' = told
        /\ \A k \in Keys, d \in Channels : <<k, d>> # <<Key(n), c>> => guard'[k][d] = guard[k][d]
    BY <1>2, <1>k, <1>g DEF TryAcquire
  <2>2. At(n, c)' = "sending"
    BY <1>2, WorkMoves DEF Moves
  <2>3. \A m \in NoticeKinds : Key(m) = Key(n) => At(m, c) # "sending"
    BY <2>1 DEF SenderHolds
  <2>4. OneSender'
    BY <1>o, <2>2, <2>3 DEF OneSender
  <2>5. SenderHolds'
    BY <1>o, <1>k, <2>1, <2>2 DEF SenderHolds
  <2>6. HeldBySender'
    <3> SUFFICES ASSUME NEW k \in Keys, NEW d \in Channels, guard'[k][d].at = "inFlight"
                 PROVE  \E m \in NoticeKinds : Key(m) = k /\ At(m, d)' = "sending"
      BY DEF HeldBySender
    <3>1. CASE k = Key(n) /\ d = c
      BY <2>2, <3>1
    <3>2. CASE ~(k = Key(n) /\ d = c)
      BY <1>o, <2>1, <2>2, <3>2 DEF HeldBySender
    <3> QED BY <3>1, <3>2
  <2>7. KeptIsTold'
    BY <2>1 DEF KeptIsTold
  <2> QED BY <2>4, <2>5, <2>6, <2>7
<1>3. CASE SendSucceeds(n, c) \/ SendFails(n, c)
  <2>1. At(n, c) = "sending" /\ At(n, c)' # "sending" /\ guard[Key(n)][c].at = "inFlight"
    BY <1>3, WorkMoves DEF Moves, SenderHolds
  <2>2. \A m \in NoticeKinds \ {n} : Key(m) = Key(n) => At(m, c) # "sending"
    BY <2>1 DEF OneSender
  <2>3. \A k \in Keys, d \in Channels : <<k, d>> # <<Key(n), c>> =>
          guard'[k][d] = guard[k][d] /\ told'[k][d] = told[k][d]
    BY <1>3, <1>k, <1>g DEF SendSucceeds, SendFails
  <2>4. \/ guard'[Key(n)][c] = [at |-> "kept", age |-> 0] /\ told'[Key(n)][c] = 0
        \/ guard'[Key(n)][c] = Free /\ told'[Key(n)][c] = Never
    BY <1>3, <1>k, <1>g, <2>1 DEF SendSucceeds, SendFails, KeptIsTold
  <2>5. OneSender'
    BY <1>o, <2>1 DEF OneSender
  <2>6. SenderHolds'
    BY <1>o, <1>k, <2>1, <2>2, <2>3 DEF SenderHolds
  <2>7. HeldBySender'
    <3> SUFFICES ASSUME NEW k \in Keys, NEW d \in Channels, guard'[k][d].at = "inFlight"
                 PROVE  \E m \in NoticeKinds : Key(m) = k /\ At(m, d)' = "sending"
      BY DEF HeldBySender
    <3>1. ~(k = Key(n) /\ d = c)
      BY <2>4 DEF Free
    <3>2. PICK m \in NoticeKinds : Key(m) = k /\ At(m, d) = "sending"
      BY <2>3, <3>1 DEF HeldBySender
    <3> QED BY <1>o, <3>1, <3>2
  <2>8. KeptIsTold'
    BY <2>3, <2>4 DEF KeptIsTold, Free
  <2> QED BY <2>5, <2>6, <2>7, <2>8
<1> QED BY <1>1, <1>2, <1>3 DEF Work

LEMMA WorkCovers ==
  ASSUME IInv, NEW n \in NoticeKinds, NEW c \in Channels, Work(n, c) \/ RenderAgain(n, c)
  PROVE  CoverInv'
<1> USE DEF IInv, GuardInv, CoverInv
<1>k. \A m \in NoticeKinds : Key(m) \in Keys
  BY KeyInKeys
<1>t. /\ told \in [Keys -> [Channels -> 0 .. Never]] /\ covered \in [NoticeKinds -> SUBSET Channels]
      /\ render \in [NoticeKinds -> {"none", "lost", "queued", "done"}]
  BY DEF TypeOK
<1>o. \A m \in NoticeKinds, d \in Channels : <<m, d>> # <<n, c>> => At(m, d)' = At(m, d)
  BY WorkMoves, OthersStay DEF Work
<1>r. \A m \in NoticeKinds : Accepted(m)' <=> Accepted(m)
  BY <1>t DEF Work, InsertDeliver, TryAcquire, Skip, SendSucceeds, SendFails, Complete, RenderAgain, Accepted
<1>1. JobsRendered'
  <2>1. Accepted(n)
    <3>1. CASE InsertDeliver(n, c)
      BY <3>1 DEF InsertDeliver, Accepted
    <3>2. CASE ~InsertDeliver(n, c)
      <4>1. At(n, c) # "none"
        BY <3>2, WorkMoves DEF Work, Moves
      <4> QED BY <4>1 DEF JobsRendered
    <3> QED BY <3>1, <3>2
  <2> QED BY <1>o, <1>r, <2>1 DEF JobsRendered
<1>2. CASE SendSucceeds(n, c)
  <2>1. /\ \A m \in NoticeKinds : covered[m] \subseteq covered'[m]
        /\ \A m \in NoticeKinds : Key(m) = Key(n) /\ Accepted(m) => c \in covered'[m]
    BY <1>2, <1>t DEF SendSucceeds, Accepted
  <2>2. \A k \in Keys, d \in Channels : <<k, d>> # <<Key(n), c>> => told'[k][d] = told[k][d]
    BY <1>2, <1>t, <1>k DEF SendSucceeds
  <2>3. At(n, c)' = "sent" /\ Accepted(n)
    BY <1>2, WorkMoves DEF Moves, JobsRendered
  <2>4. ToldIsCovered'
    BY <1>k, <1>r, <2>1, <2>2 DEF ToldIsCovered
  <2>5. SentIsCovered'
    BY <1>o, <2>1, <2>3 DEF SentIsCovered
  <2>6. SkippedIsCarried'
    <3> SUFFICES ASSUME NEW m \in NoticeKinds, NEW d \in Channels, At(m, d)' = "done", d \notin covered'[m]
                 PROVE  \E l \in NoticeKinds : Key(l) = Key(m) /\ At(l, d)' \in {"queued", "sending", "dropped"}
      BY DEF SkippedIsCarried
    <3>1. At(m, d) = "done" /\ d \notin covered[m] /\ Accepted(m)
      BY <1>o, <2>1, <2>3 DEF JobsRendered
    <3>2. PICK l \in NoticeKinds : Key(l) = Key(m) /\ At(l, d) \in {"queued", "sending", "dropped"}
      BY <3>1 DEF SkippedIsCarried
    <3>3. <<l, d>> # <<n, c>>
      BY <2>1, <3>1, <3>2
    <3> QED BY <1>o, <3>2, <3>3
  <2> QED BY <1>1, <2>4, <2>5, <2>6
<1>3. CASE Skip(n, c)
  <2>1. told' = told /\ covered' = covered
    BY <1>3 DEF Skip
  <2>2. At(n, c) = "queued" /\ At(n, c)' = "done" /\ Accepted(n)
    BY <1>3, WorkMoves DEF Moves, JobsRendered
  <2>3. ToldIsCovered' /\ SentIsCovered'
    BY <1>o, <1>r, <2>1, <2>2 DEF ToldIsCovered, SentIsCovered
  <2>4. CASE guard[Key(n)][c].at = "inFlight"
    <3>1. PICK l \in NoticeKinds : Key(l) = Key(n) /\ At(l, c) = "sending"
      BY <1>k, <2>4 DEF HeldBySender
    <3>2. At(l, c)' = "sending"
      BY <1>o, <2>2, <3>1
    <3>3. SkippedIsCarried'
      <4> SUFFICES ASSUME NEW m \in NoticeKinds, NEW d \in Channels, At(m, d)' = "done", d \notin covered[m]
                   PROVE  \E x \in NoticeKinds : Key(x) = Key(m) /\ At(x, d)' \in {"queued", "sending", "dropped"}
        BY <2>1 DEF SkippedIsCarried
      <4>1. CASE Key(m) = Key(n) /\ d = c
        BY <3>1, <3>2, <4>1
      <4>2. CASE ~(Key(m) = Key(n) /\ d = c)
        <5>1. PICK x \in NoticeKinds : Key(x) = Key(m) /\ At(x, d) \in {"queued", "sending", "dropped"}
          BY <1>o, <4>2 DEF SkippedIsCarried
        <5> QED BY <1>o, <4>2, <5>1
      <4> QED BY <4>1, <4>2
    <3> QED BY <1>1, <2>3, <3>3
  <2>5. CASE guard[Key(n)][c].at = "kept"
    <3>1. told[Key(n)][c] # Never
      <4>1. guard[Key(n)][c].age = told[Key(n)][c] /\ guard[Key(n)][c].age \in 0 .. TTL
        BY <1>k, <2>5 DEF KeptIsTold, TypeOK, Entry
      <4> QED BY <4>1, Bounds DEF Never
    <3>2. \A m \in NoticeKinds : Key(m) = Key(n) /\ At(m, c)' = "done" => c \in covered[m]
      BY <1>o, <2>2, <3>1 DEF ToldIsCovered, JobsRendered
    <3>3. SkippedIsCarried'
      <4> SUFFICES ASSUME NEW m \in NoticeKinds, NEW d \in Channels, At(m, d)' = "done", d \notin covered[m]
                   PROVE  \E x \in NoticeKinds : Key(x) = Key(m) /\ At(x, d)' \in {"queued", "sending", "dropped"}
        BY <2>1 DEF SkippedIsCarried
      <4>1. ~(Key(m) = Key(n) /\ d = c)
        BY <3>2
      <4>2. PICK x \in NoticeKinds : Key(x) = Key(m) /\ At(x, d) \in {"queued", "sending", "dropped"}
        BY <1>o, <4>1 DEF SkippedIsCarried
      <4> QED BY <1>o, <4>1, <4>2
    <3> QED BY <1>1, <2>3, <3>3
  <2> QED BY <1>3, <1>k, <2>4, <2>5 DEF Skip, TypeOK, Entry
<1>4. CASE InsertDeliver(n, c) \/ TryAcquire(n, c) \/ SendFails(n, c) \/ RenderAgain(n, c)
  <2>1. told' = told /\ covered' = covered
    BY <1>4 DEF InsertDeliver, TryAcquire, SendFails, RenderAgain
  <2>2. At(n, c)' \in {"queued", "sending", "dropped"}
    BY <1>4, WorkMoves DEF Moves
  <2> QED BY <1>1, <1>o, <1>r, <2>1, <2>2 DEF ToldIsCovered, SentIsCovered, SkippedIsCarried
<1>5. CASE Complete(n, c)
  <2>1. told' = told /\ covered' = covered
    BY <1>5 DEF Complete
  <2>2. At(n, c) = "sent" /\ At(n, c)' = "done" /\ c \in covered[n]
    BY <1>5, WorkMoves DEF Moves, SentIsCovered
  <2> QED BY <1>1, <1>o, <1>r, <2>1, <2>2 DEF ToldIsCovered, SentIsCovered, SkippedIsCarried
<1> QED BY <1>2, <1>3, <1>4, <1>5 DEF Work

LEMMA ProduceKeeps ==
  ASSUME IInv, Produce
  PROVE  IInv'
<1> USE DEF IInv, GuardInv, CoverInv
<1>1. TypeOK'
  BY ProduceTypes
<1>s. UNCHANGED <<setup, deliver, guard, told>>
  BY DEF Produce, TakeProfit, WebhookPartial, CloseAll, Gone, Summary, WebhookExit, Enqueue
<1>a. \A n \in NoticeKinds, c \in Channels : At(n, c)' = At(n, c)
  BY <1>s DEF At
<1>2. TriesLeft' /\ GuardInv'
  BY <1>s, <1>a DEF TriesLeft, OneSender, SenderHolds, HeldBySender, KeptIsTold
<1>3. CASE Gone
  <2>1. render' = render /\ covered' = covered
    BY <1>3 DEF Gone
  <2> QED BY <1>1, <1>2, <1>s, <1>a, <2>1 DEF JobsRendered, ToldIsCovered, SentIsCovered, SkippedIsCarried, Accepted
<1>4. ASSUME NEW n \in NoticeKinds, Enqueue(n) PROVE IInv'
  <2>1. \A c \in Channels : At(n, c) = "none"
    BY <1>4 DEF Enqueue, JobsRendered, Accepted
  <2>2. \A m \in NoticeKinds \ {n} : covered'[m] = covered[m] /\ render'[m] = render[m]
    BY <1>4 DEF Enqueue, TypeOK
  <2>3. JobsRendered' /\ SentIsCovered' /\ SkippedIsCarried'
    BY <1>a, <2>1, <2>2 DEF JobsRendered, SentIsCovered, SkippedIsCarried, Accepted
  <2>4. ASSUME NEW c \in Channels, Accepted(n)', told[Key(n)][c] # Never PROVE c \in covered'[n]
    <3>0. told[Key(n)][c] \in 0 .. TTL + 1 /\ told[Key(n)][c] # TTL + 1
      BY <2>4, KeyInKeys DEF TypeOK, Never
    <3>1. told[Key(n)][c] <= TTL
      BY <3>0, Bounds
    <3>2. covered'[n] = {d \in Channels : told[Key(n)][d] <= TTL}
      BY <1>4, <2>4 DEF Enqueue, TypeOK, Accepted
    <3> QED BY <3>1, <3>2
  <2>5. ToldIsCovered'
    BY <1>s, <2>2, <2>4 DEF ToldIsCovered, Accepted
  <2> QED BY <1>1, <1>2, <2>3, <2>5
<1> QED
  BY <1>3, <1>4 DEF Produce, TakeProfit, WebhookPartial, CloseAll, Summary, WebhookExit, NoticeKinds

LEMMA AttemptEnds ==
  ASSUME NEW job \in Job
  PROVE  /\ AfterAttempt(job).at \in {"queued", "dropped"}
         /\ AfterAttempt(job).tries = job.tries
         /\ AfterAttempt(job).at = "queued" => job.tries < setup.attempts
BY DEF AfterAttempt, Job

LEMMA RestartKeeps ==
  ASSUME IInv, Restart
  PROVE  IInv'
<1> USE DEF IInv, GuardInv, CoverInv
<1>1. TypeOK'
  BY RestartTypes
<1>j. \A n \in NoticeKinds, c \in Channels : deliver[n][c] \in Job
  BY DEF TypeOK
<1>d. \A n \in NoticeKinds, c \in Channels :
        deliver'[n][c] = IF At(n, c) \in {"sending", "sent"} THEN AfterAttempt(deliver[n][c]) ELSE deliver[n][c]
  BY DEF Restart
<1>a. \A n \in NoticeKinds, c \in Channels :
        IF At(n, c) \in {"sending", "sent"} THEN At(n, c)' \in {"queued", "dropped"} ELSE At(n, c)' = At(n, c)
  BY <1>d, <1>j, AttemptEnds DEF At
<1>2. TriesLeft'
  <2>1. setup' = setup
    BY DEF Restart
  <2>2. ASSUME NEW n \in NoticeKinds, NEW c \in Channels, At(n, c)' \in {"none", "queued"}
        PROVE  deliver'[n][c].tries < setup.attempts
    <3>1. CASE At(n, c) \in {"sending", "sent"}
      BY <1>d, <1>j, <2>2, <3>1, AttemptEnds DEF At
    <3>2. CASE At(n, c) \notin {"sending", "sent"}
      BY <1>d, <2>2, <3>2 DEF TriesLeft, At
    <3> QED BY <3>1, <3>2
  <2> QED BY <2>1, <2>2 DEF TriesLeft
<1>3. GuardInv'
  <2>1. \A k \in Keys, c \in Channels : guard'[k][c].at = "free" /\ told'[k][c] = Never
    BY DEF Restart, Free
  <2>2. \A n \in NoticeKinds, c \in Channels : At(n, c)' # "sending"
    BY <1>a
  <2> QED BY <2>1, <2>2 DEF OneSender, SenderHolds, HeldBySender, KeptIsTold
<1>4. ToldIsCovered'
  BY KeyInKeys DEF Restart, ToldIsCovered
<1>5. JobsRendered' /\ SentIsCovered' /\ SkippedIsCarried'
  <2>1. render' = render /\ covered' = covered
    BY DEF Restart
  <2> QED BY <1>a, <2>1 DEF JobsRendered, SentIsCovered, SkippedIsCarried, Accepted
<1> QED BY <1>1, <1>2, <1>3, <1>4, <1>5

LEMMA Ages ==
  ASSUME NEW e \in Entry
  PROVE  /\ Aged(e).at = "inFlight" <=> e.at = "inFlight"
         /\ e.at = "free" => Aged(e).at = "free"
         /\ e.at = "kept" /\ e.age = TTL => Aged(e).at = "free"
         /\ e.at = "kept" /\ e.age # TTL => Aged(e).at = "kept" /\ Aged(e).age = e.age + 1
BY DEF Aged, Free, Entry

LEMMA TickKeeps ==
  ASSUME IInv, Tick
  PROVE  IInv'
<1> USE DEF IInv, GuardInv, CoverInv
<1>1. TypeOK'
  BY TickTypes
<1>s. UNCHANGED <<setup, render, deliver, covered>>
  BY DEF Tick
<1>a. \A n \in NoticeKinds, c \in Channels : At(n, c)' = At(n, c)
  BY <1>s DEF At
<1>g. \A k \in Keys, c \in Channels :
        guard'[k][c] = Aged(guard[k][c]) /\ guard[k][c] \in Entry /\ told[k][c] \in 0 .. Never
  BY DEF Tick, TypeOK
<1>t. \A k \in Keys, c \in Channels :
        told'[k][c] = IF told[k][c] < Never THEN told[k][c] + 1 ELSE told[k][c]
  BY DEF Tick
<1>f. \A k \in Keys, c \in Channels : guard'[k][c].at = "inFlight" <=> guard[k][c].at = "inFlight"
  BY <1>g, Ages
<1>2. TriesLeft' /\ OneSender' /\ SenderHolds' /\ HeldBySender'
  BY <1>s, <1>a, <1>f, KeyInKeys DEF TriesLeft, OneSender, SenderHolds, HeldBySender
<1>3. KeptIsTold'
  <2> SUFFICES ASSUME NEW k \in Keys, NEW c \in Channels
               PROVE  IF guard'[k][c].at = "kept" THEN guard'[k][c].age = told'[k][c] ELSE told'[k][c] = Never
    BY DEF KeptIsTold
  <2>1. CASE guard[k][c].at # "kept"
    <3>1. guard'[k][c].at # "kept" /\ told[k][c] = Never
      BY <1>g, <2>1, Ages DEF Entry, KeptIsTold
    <3> QED BY <1>t, <3>1, Bounds DEF Never
  <2>2. CASE guard[k][c].at = "kept" /\ guard[k][c].age = TTL
    <3>1. guard'[k][c].at = "free" /\ told[k][c] = TTL
      BY <1>g, <2>2, Ages DEF KeptIsTold
    <3> QED BY <1>t, <3>1, Bounds DEF Never
  <2>3. CASE guard[k][c].at = "kept" /\ guard[k][c].age # TTL
    <3>1. guard'[k][c].at = "kept" /\ guard'[k][c].age = guard[k][c].age + 1
      BY <1>g, <2>3, Ages
    <3>2. told[k][c] = guard[k][c].age /\ guard[k][c].age \in 0 .. TTL
      BY <1>g, <2>3 DEF KeptIsTold, Entry
    <3> QED BY <1>t, <3>1, <3>2, Bounds DEF Never
  <2> QED BY <2>1, <2>2, <2>3
<1>4. ToldIsCovered'
  <2>1. \A k \in Keys, c \in Channels : told'[k][c] # Never => told[k][c] # Never
    BY <1>t, Bounds DEF Never
  <2> QED BY <1>s, <2>1, KeyInKeys DEF ToldIsCovered, Accepted
<1>5. JobsRendered' /\ SentIsCovered' /\ SkippedIsCarried'
  BY <1>s, <1>a DEF JobsRendered, SentIsCovered, SkippedIsCarried, Accepted
<1> QED BY <1>1, <1>2, <1>3, <1>4, <1>5

LEMMA NextIInv == IInv /\ [Next]_vars => IInv'
<1> SUFFICES ASSUME IInv, [Next]_vars PROVE IInv'
  OBVIOUS
<1>1. ASSUME NEW n \in NoticeKinds, NEW c \in Channels, Work(n, c) \/ RenderAgain(n, c) PROVE IInv'
  BY <1>1, WorkTypes, WorkTries, WorkGuards, WorkCovers DEF IInv
<1>2. CASE UNCHANGED vars
  BY <1>2 DEF vars, IInv, TypeOK, TriesLeft, GuardInv, OneSender, SenderHolds, HeldBySender, KeptIsTold,
       CoverInv, JobsRendered, ToldIsCovered, SentIsCovered, SkippedIsCarried, Accepted, At, Job
<1> QED BY <1>1, <1>2, ProduceKeeps, RestartKeeps, TickKeeps DEF Next

LEMMA Invariant == Spec => []IInv
BY InitIInv, NextIInv, PTL DEF Spec

-----------------------------------------------------------------------------
\* Every variable keeps its type: no job makes more attempts than it has.
THEOREM TypeCorrect == Spec => []TypeOK
<1>1. IInv => TypeOK
  BY DEF IInv
<1> QED BY <1>1, Invariant, PTL

\* A job that is done without a message of its key was skipped for one that is
\* still at it, or that used all its attempts: for any number of channels,
\* attempts, repeated renders and restarts.
THEOREM SkippedAreCarried == Spec => []SkippedIsCarried
<1>1. IInv => SkippedIsCarried
  BY DEF IInv, CoverInv
<1> QED BY <1>1, Invariant, PTL

\* No channel is told twice of one key within the life of an entry, restarts
\* apart.
THEOREM NeverToldTwice == Spec => NoRepeat
<1>1. IInv => ToldApart
  <2> SUFFICES ASSUME IInv, NEW n \in NoticeKinds, NEW c \in Channels, At(n, c) = "sending"
               PROVE  told[Key(n)][c] = Never
    BY DEF ToldApart
  <2>1. guard[Key(n)][c].at = "inFlight" /\ Key(n) \in Keys
    BY KeyInKeys DEF IInv, GuardInv, SenderHolds
  <2> QED BY <2>1 DEF IInv, GuardInv, KeptIsTold
<1>2. IInv => [ToldApart]_vars
  BY <1>1
<1> QED BY <1>2, Invariant, PTL DEF NoRepeat
=============================================================================
