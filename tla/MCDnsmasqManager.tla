-------------------------- MODULE MCDnsmasqManager --------------------------
(***************************************************************************)
(* TLC instances of DnsmasqManager, reduced by the symmetry of handlers.   *)
(***************************************************************************)
EXTENDS DnsmasqManager, TLC

Symmetry == Permutations(Handlers)
=============================================================================
