---------------------------- MODULE MCKnowledgeBase ----------------------------
(***************************************************************************)
(* KnowledgeBase for TLC.                                                  *)
(***************************************************************************)
EXTENDS KnowledgeBase, TLC

Symmetry == Permutations(Workers) \union Permutations(Requests)
=============================================================================
