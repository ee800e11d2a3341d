----------------------------- MODULE MCChatTurn -----------------------------
(***************************************************************************)
(* ChatTurn for TLC.                                                       *)
(***************************************************************************)
EXTENDS ChatTurn

Symmetry == Permutations(Users)
=============================================================================
