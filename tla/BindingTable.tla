---------------------------- MODULE BindingTable -----------------------------
(***************************************************************************)
(* What the static DHCP bindings promise to those who create, delete and   *)
(* are served them: one table with at most one binding of a MAC, which     *)
(* each request changes at once, some time before it is answered; and      *)
(* dnsmasq serves the table as it was when it last looked, or nothing when *)
(* it looked while a binding was deleted. The promise ends where requests  *)
(* overlap that must not.                                                  *)
(***************************************************************************)
CONSTANTS
    Macs, IPs,
    Handlers,           \* handler goroutines
    None

Binding == [mac : Macs, ip : IPs]
Request == [op : {"create", "delete"}, line : Binding, done : BOOLEAN]

VARIABLES
    table,              \* the bindings
    served,             \* those by which dnsmasq gives leases
    doing,              \* the request each goroutine works on
    spoiled             \* whether the promise ended

bvars == <<table, served, doing, spoiled>>

BInit ==
    /\ table = {} /\ served = {}
    /\ doing = [h \in Handlers |-> None]
    /\ spoiled = FALSE

Begin(h, op, line) ==
    /\ doing[h] = None
    /\ doing' = [doing EXCEPT ![h] = [op |-> op, line |-> line, done |-> FALSE]]
    /\ UNCHANGED <<table, served, spoiled>>

TakesEffect(h, op) ==
    /\ doing[h] # None /\ doing[h].op = op /\ ~ doing[h].done
    /\ doing' = [doing EXCEPT ![h] = [op |-> op, line |-> doing[h].line, done |-> TRUE]]
    /\ UNCHANGED <<served, spoiled>>

Create(h) ==
    /\ TakesEffect(h, "create")
    /\ \A k \in table : k.mac # doing[h].line.mac
    /\ table' = table \cup {doing[h].line}

Delete(h) ==
    /\ TakesEffect(h, "delete")
    /\ \E k \in table : k.mac = doing[h].line.mac
    /\ table' = {k \in table : k.mac # doing[h].line.mac}

Answer(h) ==
    /\ doing[h] # None /\ doing[h].done
    /\ doing' = [doing EXCEPT ![h] = None]
    /\ UNCHANGED <<table, served, spoiled>>

(* Nobody is answered, whether or not the request took effect.             *)
Die ==
    /\ doing' = [h \in Handlers |-> None]
    /\ UNCHANGED <<table, served, spoiled>>

Deleting == \E h \in Handlers : doing[h] # None /\ doing[h].op = "delete"

Serve ==
    /\ served' = table \/ (Deleting /\ served' = {})
    /\ UNCHANGED <<table, doing, spoiled>>

BNext ==
    \/ spoiled'
    \/ \E h \in Handlers :
          \/ \E op \in {"create", "delete"}, line \in Binding : Begin(h, op, line)
          \/ Create(h) \/ Delete(h) \/ Answer(h)
    \/ Serve \/ Die

BSpec == BInit /\ [][BNext]_bvars
=============================================================================
