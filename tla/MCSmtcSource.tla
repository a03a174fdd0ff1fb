---------------------------- MODULE MCSmtcSource ----------------------------
(***************************************************************************)
(* Instances of SmtcSource for TLC.                                        *)
(***************************************************************************)
EXTENDS SmtcSource

CONSTANTS t1, t2

\* No property of the run says anything of a source that has had a mishap, and
\* little of one that does not run any more: of those, the ones with a handler
\* that has only begun.
Orderly ==
    /\ ~mishap
    /\ running \/ (due = {} /\ \A t \in PoolThreads : pc[t] \in {"idle", "find"})

\* Setup has succeeded, and nothing has gone wrong since.
Faultless == ~mishap /\ (pc[Owner] = "started" => running)
=============================================================================
