---------------------------- MODULE MCWarmWorker -----------------------------
(***************************************************************************)
(* Instances of WarmWorker for TLC.                                        *)
(***************************************************************************)
EXTENDS WarmWorker

CONSTANTS r1, r2, r3, quit
=============================================================================
