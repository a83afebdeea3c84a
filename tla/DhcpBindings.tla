---------------------------- MODULE DhcpBindings ----------------------------
(***************************************************************************)
(* The static DHCP bindings: a line of dnsmasq.hostsfile per MAC address,  *)
(* created by POST /api/dhcp/bindings, deleted by DELETE, and the same by  *)
(* two MCP tools. The handlers read, append to and rewrite the file with   *)
(* no lock, and tell dnsmasq with a SIGHUP to read it again.               *)
(*                                                                         *)
(* MAC addresses are compared without regard to case: a MAC here stands    *)
(* for all its spellings. Blank lines say nothing and are left out. A      *)
(* SIGHUP is taken to reach the dnsmasq that runs; when it does is the     *)
(* subject of DnsmasqManager.                                              *)
(***************************************************************************)
EXTENDS Integers, SequencesExt

CONSTANTS
    Macs, IPs,
    Handlers,           \* handler goroutines
    MaxCalls,           \* bound: requests
    MaxStarts,          \* bound: times dnsmasq or the engine dies
    Idle,
    Fragment            \* what an overwritten line leaves of itself

Line == [mac : Macs, ip : IPs]
Content == Seq(Line \cup {Fragment})
Call == [op : {"create", "delete"}, pc : {"append", "truncate", "rewrite", "reload"},
         line : Line, kept : Content]

ASSUME BindingsAssumption ==
    /\ MaxCalls \in Nat /\ MaxStarts \in Nat
    /\ Fragment \notin Line /\ Idle \notin Call

VARIABLES
    file,               \* the lines of dnsmasq.hostsfile
    loaded,             \* the lines dnsmasq serves leases by
    running,            \* whether dnsmasq runs
    hup,                \* whether a SIGHUP waits for dnsmasq
    call,               \* the call each handler goroutine works on
    calls, starts,      \* requests and deaths so far
    bound,              \* history variable: the bindings the calls add up to
    raced,              \* history variable: calls overlapped that must not
    orphaned            \* history variable: a change died before its SIGHUP

vars == <<file, loaded, running, hup, call, calls, starts, bound, raced, orphaned>>

Init ==
    /\ file = <<>> /\ loaded = <<>>
    /\ running \in BOOLEAN
    /\ hup = FALSE
    /\ call = [h \in Handlers |-> Idle]
    /\ calls = 0 /\ starts = 0
    /\ bound = {}
    /\ raced = FALSE /\ orphaned = FALSE

At(h, pc) == call[h] # Idle /\ call[h].pc = pc
Goto(h, pc) == call' = [call EXCEPT ![h].pc = pc]
Names(content, m) == \E l \in ToSet(content) : l # Fragment /\ l.mac = m

(* What must not overlap: a delete with anything, two creates of one MAC.  *)
Conflict(h, op, m) ==
    \E g \in Handlers \ {h} : call[g] # Idle /\ (op = "delete" \/ call[g].op = "delete"
                                                 \/ call[g].line.mac = m)

Begin(h, op, pc, line, kept) ==
    /\ call[h] = Idle
    /\ calls < MaxCalls /\ calls' = calls + 1
    /\ raced' = (raced \/ Conflict(h, op, line.mac))
    /\ call' = [call EXCEPT ![h] = [op |-> op, pc |-> pc, line |-> line, kept |-> kept]]
    /\ UNCHANGED <<file, loaded, running, hup, starts, bound, orphaned>>
-----------------------------------------------------------------------------
(* Mutant: no look at the existing bindings.                               *)
CreateAnyway(h, line) ==
    Begin(h, "create", "append", line, <<>>)

(* Mutant: the two fields of the body are taken one for the other.         *)
CreateSwapped(h, line) ==
    /\ ~ Names(file, line.mac)
    /\ Begin(h, "create", "append", [mac |-> line.ip, ip |-> line.mac], <<>>)

(* dhcpBindingsCreateHandler reads the file; a MAC it names is a conflict. *)
CheckDuplicate(h, line) ==
    /\ ~ Names(file, line.mac)
    /\ Begin(h, "create", "append", line, <<>>)

(* O_APPEND: the line goes to the end of what the file is by now.          *)
AppendBinding(h) ==
    /\ At(h, "append")
    /\ file' = Append(file, call[h].line)
    /\ bound' = bound \cup {call[h].line}
    /\ Goto(h, "reload")
    /\ UNCHANGED <<loaded, running, hup, calls, starts, raced, orphaned>>

(* Mutant: the line of the MAC is kept with the others.                    *)
KeepAll(m) == file

(* The loop over the lines, after n of them; those of the MAC are skipped. *)
Kept(m) ==
    LET Found(l) == l # Fragment /\ l.mac = m
        kept[n \in 0 .. Len(file)] ==
            IF n = 0 THEN << >>
            ELSE IF Found(file[n]) THEN kept[n - 1] ELSE Append(kept[n - 1], file[n])
    IN  kept[Len(file)]

(* dhcpBindingsDeleteHandler reads the file and keeps the other lines.     *)
ReadHosts(h, m) ==
    /\ Names(file, m)
    /\ \E i \in IPs : Begin(h, "delete", "truncate", [mac |-> m, ip |-> i], Kept(m))

(* os.WriteFile opens with O_TRUNC and writes from offset 0: over what was *)
(* appended in between, whose tail stays, its first line perhaps cut.      *)
Truncate(h) ==
    /\ At(h, "truncate")
    /\ file' = <<>>
    /\ Goto(h, "rewrite")
    /\ UNCHANGED <<loaded, running, hup, calls, starts, bound, raced, orphaned>>

Overwritten(new, old) ==
    IF new = <<>> THEN {old}
    ELSE {new \o SubSeq(old, k, Len(old)) : k \in 1 .. Len(old) + 1}
         \cup {new \o <<Fragment>> \o SubSeq(old, k, Len(old)) : k \in 2 .. Len(old) + 1}

(* Mutant: the handler returns when the file is written.                   *)
RewriteAndReturn(h) ==
    /\ At(h, "rewrite")
    /\ file' \in Overwritten(call[h].kept, file)
    /\ bound' = {l \in bound : l.mac # call[h].line.mac}
    /\ call' = [call EXCEPT ![h] = Idle]
    /\ UNCHANGED <<loaded, running, hup, calls, starts, raced, orphaned>>

Rewrite(h) ==
    /\ At(h, "rewrite")
    /\ file' \in Overwritten(call[h].kept, file)
    /\ bound' = {l \in bound : l.mac # call[h].line.mac}
    /\ Goto(h, "reload")
    /\ UNCHANGED <<loaded, running, hup, calls, starts, raced, orphaned>>

(* SIGHUP; a signal that already waits is not counted twice.               *)
Reload(h) ==
    /\ At(h, "reload")
    /\ hup' = running
    /\ orphaned' = FALSE
    /\ call' = [call EXCEPT ![h] = Idle]
    /\ UNCHANGED <<file, loaded, running, calls, starts, bound, raced>>
-----------------------------------------------------------------------------
(* dnsmasq: reads its hosts file when it starts and on SIGHUP.             *)
ReadHostsFile ==
    /\ hup
    /\ loaded' = file
    /\ hup' = FALSE
    /\ UNCHANGED <<file, running, call, calls, starts, bound, raced, orphaned>>

StartDnsmasq ==
    /\ ~ running
    /\ running' = TRUE
    /\ loaded' = file
    /\ orphaned' = FALSE
    /\ UNCHANGED <<file, hup, call, calls, starts, bound, raced>>

StopDnsmasq ==
    /\ running
    /\ starts < MaxStarts /\ starts' = starts + 1
    /\ running' = FALSE /\ hup' = FALSE
    /\ UNCHANGED <<file, loaded, call, calls, bound, raced, orphaned>>

(* The engine dies; a dnsmasq that lives on is not told of its restart. A  *)
(* change cut short in the middle counts as a race.                        *)
EngineRestart ==
    /\ starts < MaxStarts /\ starts' = starts + 1
    /\ call' = [h \in Handlers |-> Idle]
    /\ raced' = (raced \/ \E h \in Handlers : At(h, "rewrite"))
    /\ orphaned' = (orphaned \/ \E h \in Handlers : At(h, "rewrite") \/ At(h, "reload"))
    /\ UNCHANGED <<file, loaded, running, hup, calls, bound>>
-----------------------------------------------------------------------------
Next ==
    \/ \E h \in Handlers :
          \/ \E line \in Line : CheckDuplicate(h, line)
          \/ \E m \in Macs : ReadHosts(h, m)
          \/ AppendBinding(h) \/ Truncate(h) \/ Rewrite(h) \/ Reload(h)
    \/ ReadHostsFile \/ StartDnsmasq \/ StopDnsmasq \/ EngineRestart

Spec == Init /\ [][Next]_vars
-----------------------------------------------------------------------------
(* Properties                                                              *)

(* Types of the file, of what dnsmasq read of it, and of the calls.        *)
TypeOK ==
    /\ file \in Content /\ loaded \in Content
    /\ running \in BOOLEAN /\ hup \in BOOLEAN
    /\ call \in [Handlers -> Call \cup {Idle}]
    /\ calls \in 0 .. MaxCalls /\ starts \in 0 .. MaxStarts
    /\ bound \subseteq Line
    /\ raced \in BOOLEAN /\ orphaned \in BOOLEAN

(* As long as no delete overlaps another call, no MAC is created twice at  *)
(* once and no rewrite is cut short, the file holds each binding once, one *)
(* per MAC, and no other line, whatever creates of different MACs, reloads *)
(* and restarts do in between.                                             *)
TableIsExact ==
    ~ raced /\ ~ (\E h \in Handlers : At(h, "rewrite")) =>
        /\ ToSet(file) = bound /\ IsInjective(file)
        /\ \A a, b \in bound : a.mac = b.mac => a = b

(* However calls, restarts and signals interleave, dnsmasq serves another  *)
(* table than the file holds only while somebody is about to tell it, or   *)
(* after the engine died before it did.                                    *)
ServesTheFile ==
    running /\ loaded # file =>
        hup \/ orphaned \/ \E h \in Handlers : At(h, "rewrite") \/ At(h, "reload")

(* Requests that take several steps on a file change a table at once: a    *)
(* create when it appends, a delete when it truncates, from when on it has *)
(* the other bindings in hand.                                             *)
Rewriters == {h \in Handlers : At(h, "rewrite")}
Bindings == IF Rewriters = {} THEN ToSet(file) ELSE UNION {ToSet(call[h].kept) : h \in Rewriters}
Doing(h) ==
    IF call[h] = Idle THEN Idle
    ELSE [op |-> call[h].op, line |-> call[h].line, done |-> call[h].pc \in {"rewrite", "reload"}]

Table == INSTANCE BindingTable WITH
             None <- Idle, table <- Bindings, served <- ToSet(loaded),
             doing <- [h \in Handlers |-> Doing(h)], spoiled <- raced

ASSUME RequestAssumption == Idle \notin Table!Request

(* The handlers keep the promises of BindingTable, however creates of      *)
(* different MACs, deletes, looks of dnsmasq and deaths interleave, up to  *)
(* the overlaps that the code does nothing against.                        *)
ImplementsTable == Table!BSpec
=============================================================================
