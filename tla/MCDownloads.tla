---------------------------- MODULE MCDownloads -----------------------------
(***************************************************************************)
(* TLC instances of Downloads. A worker is only compared with another.     *)
(***************************************************************************)
EXTENDS Downloads, TLC

Symmetry == Permutations(Workers)
=============================================================================
