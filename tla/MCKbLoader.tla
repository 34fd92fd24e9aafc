----------------------------- MODULE MCKbLoader ------------------------------
(***************************************************************************)
(* An instance of KbSearch, and of the KbLoader it asks, for TLC.          *)
(***************************************************************************)
EXTENDS KbSearch, TLC

CONSTANTS f1, f2, p1, p2

\* Questions of the other persona find nothing; one text has both words, one
\* of them a single letter.
SampleFolders == [f \in Files |-> "infra"]

SampleTexts == <<{"c"}, {"c", "npu"}>>

FileProcSymmetry == Permutations(Files) \union Permutations(Procs)
=============================================================================
