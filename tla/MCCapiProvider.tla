--------------------------- MODULE MCCapiProvider ----------------------------
(***************************************************************************)
(* Instances of CapiProvider for TLC.                                      *)
(***************************************************************************)
EXTENDS CapiProvider

CONSTANTS r1, r2, quit
=============================================================================
