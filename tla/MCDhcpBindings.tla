--------------------------- MODULE MCDhcpBindings ---------------------------
(***************************************************************************)
(* TLC instances of DhcpBindings; addresses and handlers are symmetric.    *)
(***************************************************************************)
EXTENDS DhcpBindings

Symmetry == Permutations(Macs) \cup Permutations(IPs) \cup Permutations(Handlers)
=============================================================================
