------------------------ MODULE MCRefreshTransaction ------------------------
(* Instances of RefreshTransaction for TLC.                                *)
EXTENDS RefreshTransaction, TLC

\* Processes are interchangeable; only used where no liveness is checked.
Symmetry == Permutations(Proc)
=============================================================================
