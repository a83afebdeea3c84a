-------------------------- MODULE MCTaskAdmission ---------------------------
(***************************************************************************)
(* A TLC instance of TaskAdmission: a cloud-init template that names an    *)
(* image, a path, an answer file, a script and a file, a kickstart         *)
(* template that names a path and an answer file, and the empty columns.   *)
(***************************************************************************)
EXTENDS TaskAdmission, TLC

CONSTANTS b1, s1, x1, v1, v2, i1, p1, n1, n2

MCRefs == [v \in Values |-> IF v = v1 THEN {s1, x1} ELSE {}]
MCSeeds == [k \in Templates \cup Scripts \cup Extras |->
               IF k = b1 THEN [resources |-> v1, lists |-> v1, text |-> Empty]
               ELSE IF k = s1 THEN v1 ELSE NoRow]
MCIsoOf == [v \in Values |-> IF v = v1 THEN i1 ELSE Empty]
MCPathOf == [v \in Values |-> IF v = Empty THEN Empty ELSE p1]
MCNameOf == [v \in Values |-> IF v = Empty THEN Empty ELSE n1]
MCBootOf == [v \in Values |-> IF v = v1 THEN "cloud-init"
                             ELSE IF v = v2 THEN "kickstart" ELSE "other"]
MCBase == [i \in Isos |-> i]
MCFallbacks == [b \in Templates |-> <<n2>>]
Symmetry == Permutations(Admitters) \cup Permutations(Mounters)
=============================================================================
