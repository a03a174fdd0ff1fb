--------------------------- MODULE MCAudioSession ---------------------------
(***************************************************************************)
(* Instances of AudioSession for TLC.                                      *)
(***************************************************************************)
EXTENDS AudioSession

CONSTANTS pidA, pidB, soft

\* The mixer holds different settings for the two processes.
MCInit == Init /\ setting[pidA].muted /\ ~setting[pidB].muted

MCSpec == MCInit /\ [][Next]_vars /\ Fairness
=============================================================================
