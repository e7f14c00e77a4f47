---------------------------- MODULE MCCloseFlow ----------------------------
(* Model-checking instances of CloseFlow: overlapping runs of one job kind *)
(* are interchangeable.                                                    *)
EXTENDS CloseFlow, TLC

Symmetry == Permutations(RiskRuns) \cup Permutations(DecideRuns)
              \cup Permutations(Reconciles)
=============================================================================
