--------------------------- MODULE CloseLifecycle ---------------------------
(***************************************************************************)
(* What brale-core promises of one position, whatever jobs overlap: it is  *)
(* open, being closed or closed; it ends up closed only when the executor  *)
(* holds nothing of it any more, it never comes back, and nobody is told   *)
(* of a close that has not happened.                                       *)
(***************************************************************************)
VARIABLES
  phase,   \* what the positions table says of the position
  gone,    \* the executor holds no more than a residual of it
  told     \* the close summary went out

vars == <<phase, gone, told>>

Init == phase = "open" /\ gone = FALSE /\ told = FALSE

BeginClose == phase = "open" /\ phase' = "closing" /\ UNCHANGED <<gone, told>>

\* A close that leads nowhere is given up, or it took a part only.
Reopen == phase = "closing" /\ phase' = "open" /\ UNCHANGED <<gone, told>>

Finish ==
  /\ phase \in {"open", "closing"} /\ gone
  /\ phase' = "closed"
  /\ UNCHANGED <<gone, told>>

Tell == gone /\ told' = TRUE /\ UNCHANGED <<phase, gone>>

Vanish == gone' = TRUE /\ UNCHANGED <<phase, told>>

Next == BeginClose \/ Reopen \/ Finish \/ Tell \/ Vanish

Spec == Init /\ [][Next]_vars
=============================================================================
