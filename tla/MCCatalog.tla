----------------------------- MODULE MCCatalog ------------------------------
(***************************************************************************)
(* TLC instances of Catalog: one bundled template that names a script and  *)
(* a file, and one that only users write.                                  *)
(***************************************************************************)
EXTENDS Catalog, TLC

CONSTANTS b1, b2, s1, x1, v1

MCRefs == [v \in Values |-> IF v = v1 THEN {s1, x1} ELSE {}]
MCSeeds == [k \in Keys |->
               IF k = b1 THEN [c \in Columns |-> v1]
               ELSE IF k \in {s1, x1} THEN v1 ELSE NoRow]
Symmetry == Permutations(Handlers)
=============================================================================
