-------------------------- MODULE MCTaskLifecycle --------------------------
(***************************************************************************)
(* TLC instances of TaskLifecycle: handlers and machines are interchange-  *)
(* able, so the runs of safety properties are reduced by their symmetry.   *)
(***************************************************************************)
EXTENDS TaskLifecycle, TLC

Symmetry == Permutations(SNs) \cup Permutations(Handlers)
=============================================================================
