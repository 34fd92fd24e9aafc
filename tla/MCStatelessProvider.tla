------------------------- MODULE MCStatelessProvider --------------------------
(***************************************************************************)
(* Instances of StatelessProvider for TLC.                                 *)
(***************************************************************************)
EXTENDS StatelessProvider

CONSTANTS r1, r2
=============================================================================
