------------------------------ MODULE MCSignal ------------------------------
(***************************************************************************)
(* Instances of Signal for TLC.                                            *)
(***************************************************************************)
EXTENDS Signal, TLC

CONSTANTS p1, p2, c1, c2
=============================================================================
