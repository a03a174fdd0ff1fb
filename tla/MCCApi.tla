------------------------------- MODULE MCCApi -------------------------------
(***************************************************************************)
(* Instances of CApi for TLC.                                              *)
(***************************************************************************)
EXTENDS CApi

CONSTANTS app, ui, library, nobody
=============================================================================
