------------------------------ MODULE MCChatTui ------------------------------
(***************************************************************************)
(* Instances of ChatTui for TLC.                                           *)
(***************************************************************************)
EXTENDS ChatTui, TLC

CONSTANTS s1, s2, s3

ChatSymmetry == Permutations(Chats)
=============================================================================
