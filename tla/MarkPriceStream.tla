-------------------------- MODULE MarkPriceStream --------------------------
(***************************************************************************)
(* The mark price stream: Start and Close, and the reader goroutine of     *)
(* each start, which connects, reconnects after a pause, and writes the    *)
(* connected flag of the whole stream if no later start has been made.     *)
(* It is driven by the runtime (module Runtime).  Start and Close are      *)
(* atomic here, as they are for one caller after another.                  *)
(***************************************************************************)
EXTENDS Integers

VARIABLES
  stream,     \* running: between a Start and the Close after it
  runID,      \* starts so far
  connected,  \* what StreamStatus tells of the connection
  readers     \* the reader goroutines, one of each run at most

streamVars == <<stream, runID, connected, readers>>

\* at: where the loop of run is; last: it returns after setConnected;
\* stopped: its context is cancelled and its stop channel closed.
ReaderAt == {"top", "serve", "set", "store", "connected", "retry"}
Reader == [run : Nat, at : ReaderAt, value : BOOLEAN, last : BOOLEAN, stopped : BOOLEAN]
NewReader(id) == [run |-> id, at |-> "top", value |-> FALSE, last |-> FALSE, stopped |-> FALSE]

StreamTypeOK ==
  /\ stream \in BOOLEAN /\ connected \in BOOLEAN
  /\ runID \in Nat
  /\ readers \subseteq Reader

\* After the first Start, or before any.
StreamInit(started) ==
  /\ stream = started
  /\ runID = (IF started THEN 1 ELSE 0)
  /\ connected = FALSE
  /\ readers = {NewReader(id) : id \in 1 .. runID}

Start ==
  IF stream THEN UNCHANGED streamVars
  ELSE /\ stream' = TRUE
       /\ runID' = runID + 1
       /\ connected' = FALSE
       /\ readers' = readers \cup {NewReader(runID + 1)}

\* Mutant of Close: the reader is left to find out by itself.
CloseUnheard ==
  /\ stream' = FALSE
  /\ connected' = (IF stream THEN FALSE ELSE connected)
  /\ UNCHANGED <<runID, readers>>

Close ==
  IF ~stream THEN UNCHANGED streamVars
  ELSE /\ stream' = FALSE
       /\ connected' = FALSE
       /\ readers' = {IF r.run = runID THEN [r EXCEPT !.stopped = TRUE] ELSE r : r \in readers}
       /\ UNCHANGED runID

ApplyStreamTransition(start) == IF start THEN Start ELSE Close

-----------------------------------------------------------------------------
(* The loop of a reader.                                                   *)

Goto(r, at) == readers' = (readers \ {r}) \cup {[r EXCEPT !.at = at]}
Return(r) == readers' = readers \ {r}

\* On to setConnected(value), and to the end of the loop after it if last.
GotoSet(r, value, last) ==
  readers' = (readers \ {r}) \cup {[r EXCEPT !.at = "set", !.value = value, !.last = last]}

AfterSet(r) ==
  CASE r.last -> Return(r)
    [] ~r.last /\ r.value -> Goto(r, "connected")
    [] OTHER -> Goto(r, "retry")

CheckRunning(r) ==
  /\ r.at = "top"
  /\ IF stream THEN Goto(r, "serve") ELSE GotoSet(r, FALSE, TRUE)
  /\ UNCHANGED <<stream, runID, connected>>

\* Mutant of Serve: a failure to connect is not told.
ServeSilently(r) ==
  /\ r.at = "serve"
  /\ GotoSet(r, TRUE, FALSE) \/ Goto(r, "retry")
  /\ UNCHANGED <<stream, runID, connected>>

Serve(r) ==
  /\ r.at = "serve"
  /\ \E ok \in BOOLEAN : GotoSet(r, ok, FALSE)
  /\ UNCHANGED <<stream, runID, connected>>

\* setConnected: a run that is not the last one writes nothing; the id is
\* compared first and the flag stored after it.
CompareRun(r) ==
  /\ r.at = "set"
  /\ IF r.run = runID THEN Goto(r, "store") ELSE AfterSet(r)
  /\ UNCHANGED <<stream, runID, connected>>

StoreConnected(r) ==
  /\ r.at = "store"
  /\ connected' = r.value
  /\ AfterSet(r)
  /\ UNCHANGED <<stream, runID>>

HearStop(r) ==
  /\ r.at = "connected" /\ r.stopped
  /\ GotoSet(r, FALSE, TRUE)
  /\ UNCHANGED <<stream, runID, connected>>

LoseConnection(r) ==
  /\ r.at = "connected"
  /\ GotoSet(r, FALSE, FALSE)
  /\ UNCHANGED <<stream, runID, connected>>

\* The timer needs a second or more; a stop ends the wait at once.
WaitRetry(r) ==
  /\ r.at = "retry"
  /\ IF r.stopped THEN Return(r) ELSE Goto(r, "top")
  /\ UNCHANGED <<stream, runID, connected>>

\* All steps of a reader but the loss of its connection.
ReaderGoes(r) ==
  \/ CheckRunning(r) \/ Serve(r) \/ CompareRun(r) \/ StoreConnected(r) \/ HearStop(r)
  \/ WaitRetry(r)

ReaderStep == \E r \in readers : ReaderGoes(r) \/ LoseConnection(r)

\* The reader of the last run, and those of the runs before it.
LastGoes == \E r \in readers : r.run = runID /\ ReaderGoes(r)
OldGoes == \E r \in readers : r.run # runID /\ ReaderGoes(r)

-----------------------------------------------------------------------------
(* Properties.                                                             *)

\* A closed stream and every run before the last lose their readers in the
\* end: none keeps a connection that nobody can close any more.
ReadersEnd == []<>(\A r \in readers : stream /\ r.run = runID)

\* While the stream runs, a late reader of an earlier run cannot make it look
\* connected for good: that is taken back, or comes true.
StatusHeals ==
  stream /\ connected ~> ~stream \/ ~connected \/ \E r \in readers : r.at = "connected"
=============================================================================
