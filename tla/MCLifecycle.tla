---------------------------- MODULE MCLifecycle ----------------------------
(***************************************************************************)
(* Instances of Lifecycle for TLC.                                         *)
(***************************************************************************)
EXTENDS Lifecycle

\* Spotify's first two windows belong to one process, the third to the next.
TwoProcesses == [w \in Windows |-> IF w <= 2 THEN 1 ELSE 2]
=============================================================================
