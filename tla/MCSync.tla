------------------------------- MODULE MCSync -------------------------------
(***************************************************************************)
(* TLC instances of Sync: some versions have fewer machines and parts than *)
(* the one before, so that a newer one does not cover all of an older one. *)
(***************************************************************************)
EXTENDS Sync, TLC

CONSTANTS s1, s2, f1

MCPushed == (1 :> {s1, s2}) @@ (2 :> {s1}) @@ (3 :> {s1, s2})
MCMalformed == (1 :> {s2}) @@ (2 :> {}) @@ (3 :> {})
NoneMalformed == [v \in 1 .. 3 |-> {}]
MCBrings == (1 :> {"ip", "port", "os_templates", f1}) @@ (2 :> {"ip", "port", f1})
                @@ (3 :> {"os_templates", f1})
=============================================================================
