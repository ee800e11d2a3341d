-------------------------- MODULE MCWorkflowLifecycle --------------------------
(***************************************************************************)
(* WorkflowLifecycle for TLC.                                              *)
(***************************************************************************)
EXTENDS WorkflowLifecycle, TLC

Symmetry == Permutations(Requests) \union Permutations(Debugs)
=============================================================================
