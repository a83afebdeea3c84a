--------------------------- MODULE DnsmasqManager ---------------------------
(***************************************************************************)
(* dnsmasq.Manager and the handlers that drive it. The manager knows the   *)
(* dnsmasq process it started by a field, m.pid, that no lock protects,    *)
(* and by a pid file that outlives the engine; the operating system gives  *)
(* process ids out again. Start, Stop and the update of the configuration  *)
(* are sequences of steps that interleave with each other, with the death  *)
(* of any process and with a restart of the engine.                        *)
(*                                                                         *)
(* A signal takes effect at once: the 300 ms Start sleeps after its pkill  *)
(* are taken to be enough for dnsmasq to exit.                             *)
(***************************************************************************)
EXTENDS Integers

CONSTANTS
    Handlers,           \* handler goroutines
    MaxPid,             \* bound: process ids the system cycles through
    MaxVersion,         \* bound: configurations the operators push
    Unusable,           \* the ones dnsmasq exits on
    MaxCalls,           \* bound: requests
    MaxCrashes,         \* bound: times the engine dies and is restarted
    Idle

Pids == 1 .. MaxPid
Versions == 1 .. MaxVersion
None == 0                                \* no process, no file, no value
Config == [iface : Versions \cup {None}, range : Versions \cup {None}]
NoConfig == [iface |-> None, range |-> None]

StopSteps  == {"term", "forget", "pidfile", "unlink", "pkill"}
StartSteps == {"check", "stray", "stat", "restore", "spawn", "own", "record", "verify", "drop"}
Call == [op : {"start", "stop", "update", "boot", "shutdown", "sigterm"},
         pc : {"iface", "range", "conf", "drain", "exit"} \cup StopSteps \cup StartSteps,
         v : Versions \cup {None}, pid : Pids \cup {None}, alone : BOOLEAN]

ASSUME ManagerAssumption ==
    /\ MaxPid \in Nat /\ MaxVersion \in Nat /\ MaxCalls \in Nat /\ MaxCrashes \in Nat
    /\ Unusable \subseteq Versions
    /\ Idle \notin Call

VARIABLES
    proc,               \* what process each id is, if any
    mpid,               \* Manager.pid
    pidfile,            \* the id in dnsmasq.pid
    conf,               \* dnsmasq.conf, by the values rendered into it
    db,                 \* the dhcp_* keys of table config, as two of them
    current,            \* the processes started since an update last wrote conf
    call,               \* the call each handler goroutine works on
    calls, crashes,     \* requests and restarts so far
    torn                \* history variable: the engine died before an update's pkill

vars == <<proc, mpid, pidfile, conf, db, current, call, calls, crashes, torn>>

Init ==
    /\ proc = [p \in Pids |-> "free"]
    /\ mpid = None
    /\ pidfile = None
    /\ conf = NoConfig
    /\ db = NoConfig
    /\ current = {}
    /\ call = [h \in Handlers |-> Idle]
    /\ calls = 0
    /\ crashes = 0
    /\ torn = FALSE

Live(p) == p \in Pids /\ proc[p] = "dnsmasq"
Quiet == \A h \in Handlers : call[h] = Idle
Usable(c) == c.iface \notin Unusable /\ c.range \notin Unusable
Configured(c) == c.iface # None /\ c.range # None

(* Kill(pid, 0), and the look at /proc for a zombie.                       *)
Exists(p) == p = None \/ proc[p] # "free"
IsProcessAlive(p) == p # None /\ proc[p] \notin {"free", "zombie"}

IsRunning == IsProcessAlive(mpid) \/ IsProcessAlive(pidfile)

(* A dnsmasq that gets SIGTERM exits and waits to be reaped; it unlinks    *)
(* the pid file it was given if it comes to that. Another process ends.    *)
Terminated(P) ==
    [p \in Pids |-> IF p \in P /\ proc[p] = "dnsmasq" THEN "zombie"
                    ELSE IF p \in P /\ proc[p] = "other" THEN "free" ELSE proc[p]]
AfterExit(P) == {pidfile} \cup (IF \E p \in P : Live(p) THEN {None} ELSE {})
-----------------------------------------------------------------------------
At(h, pc) == call[h] # Idle /\ call[h].pc = pc
Goto(h, pc) == call' = [call EXCEPT ![h].pc = pc]
Return(h) == call' = [call EXCEPT ![h] = Idle]

(* A call is alone while no other one is in flight and no dnsmasq dies.    *)
Disturbed == [g \in Handlers |-> IF call[g] = Idle THEN Idle
                                                   ELSE [call[g] EXCEPT !.alone = FALSE]]

Begin(h, op, pc, v) ==
    /\ call[h] = Idle
    /\ ~ \E g \in Handlers : call[g] # Idle /\ call[g].op \in {"boot", "sigterm"}
    /\ calls < MaxCalls /\ calls' = calls + 1
    /\ call' = [Disturbed EXCEPT ![h] =
                   [op |-> op, pc |-> pc, v |-> v, pid |-> None, alone |-> Quiet]]
    /\ UNCHANGED <<proc, mpid, pidfile, conf, db, current, crashes, torn>>

StartCall(h) == Begin(h, "start", "check", None)
StopCall(h) == Begin(h, "stop", "term", None)
ShutdownCall(h) == Begin(h, "shutdown", "term", None)
UpdateCall(h, v) == Begin(h, "update", "iface", v)

(* RegenerateConfig after a change of tasks or bindings, and Reload: a     *)
(* SIGHUP, which makes dnsmasq read its hosts file again and ends others.  *)
Reload ==
    LET p == IF mpid # None THEN mpid ELSE pidfile
    IN  /\ p # None /\ proc[p] = "other"
        /\ proc' = [proc EXCEPT ![p] = "free"]
        /\ UNCHANGED <<mpid, pidfile, conf, db, current, call, calls, crashes, torn>>
-----------------------------------------------------------------------------
(* dhcpConfigUpdateHandler: persist key by key, write dnsmasq.conf, then   *)
(* Stop and Start. The server address it may derive is left out.           *)
SetInterface(h) ==
    /\ At(h, "iface")
    /\ db' = [db EXCEPT !.iface = call[h].v]
    /\ Goto(h, "range")
    /\ UNCHANGED <<proc, mpid, pidfile, conf, current, calls, crashes, torn>>

SetRange(h) ==
    /\ At(h, "range")
    /\ db' = [db EXCEPT !.range = call[h].v]
    /\ Goto(h, "conf")
    /\ UNCHANGED <<proc, mpid, pidfile, conf, current, calls, crashes, torn>>

WriteConfig(h) ==
    /\ At(h, "conf")
    /\ conf' = [iface |-> call[h].v, range |-> call[h].v]
    /\ current' = {}
    /\ Goto(h, "term")
    /\ UNCHANGED <<proc, mpid, pidfile, db, calls, crashes, torn>>
-----------------------------------------------------------------------------
(* Stop                                                                    *)
TermOwn(h) ==
    /\ At(h, "term")
    /\ IF mpid = None
       THEN Goto(h, "pidfile") /\ UNCHANGED <<proc, pidfile>>
       ELSE /\ Goto(h, "forget")
            /\ proc' = Terminated({mpid})
            /\ pidfile' \in AfterExit({mpid})
    /\ UNCHANGED <<mpid, conf, db, current, calls, crashes, torn>>

(* Mutant: no process is -1 here and 0 where the field is read.             *)
ForgetAsMinusOne(h) ==
    /\ At(h, "forget")
    /\ mpid' = -1
    /\ Goto(h, "pidfile")
    /\ UNCHANGED <<proc, pidfile, conf, db, current, calls, crashes, torn>>

ForgetOwn(h) ==
    /\ At(h, "forget")
    /\ mpid' = None
    /\ Goto(h, "pidfile")
    /\ UNCHANGED <<proc, pidfile, conf, db, current, calls, crashes, torn>>

TermRecorded(h) ==
    /\ At(h, "pidfile")
    /\ proc' = Terminated({pidfile})
    /\ pidfile' \in AfterExit({pidfile})
    /\ Goto(h, "unlink")
    /\ UNCHANGED <<mpid, conf, db, current, calls, crashes, torn>>

(* Mutant: the pid file stays.                                             *)
KeepPidFile(h) ==
    /\ At(h, "unlink")
    /\ Goto(h, "pkill")
    /\ UNCHANGED <<proc, mpid, pidfile, conf, db, current, calls, crashes, torn>>

RemovePidFile(h) ==
    /\ At(h, "unlink")
    /\ pidfile' = None
    /\ Goto(h, "pkill")
    /\ UNCHANGED <<proc, mpid, conf, db, current, calls, crashes, torn>>

(* Mutant: Stop ends with the processes the manager knows of.              *)
EndStopWithoutPkill(h) ==
    /\ At(h, "pkill")
    /\ CASE call[h].op = "update" -> Goto(h, "check")
         [] call[h].op = "stop" -> Return(h)
         [] OTHER -> Goto(h, "exit")
    /\ UNCHANGED <<proc, mpid, pidfile, conf, db, current, calls, crashes, torn>>

PkillAndEndStop(h) ==
    /\ At(h, "pkill")
    /\ proc' = Terminated({p \in Pids : Live(p)})
    /\ pidfile' \in AfterExit(Pids)
    /\ torn' = FALSE
    /\ CASE call[h].op = "update" -> Goto(h, "check")
         [] call[h].op = "stop" -> Return(h)
         [] OTHER -> Goto(h, "exit")
    /\ UNCHANGED <<mpid, conf, db, current, calls, crashes>>
-----------------------------------------------------------------------------
(* Start                                                                   *)
CheckRunning(h) ==
    /\ At(h, "check")
    /\ IF IsRunning THEN Return(h) ELSE Goto(h, "stray")
    /\ UNCHANGED <<proc, mpid, pidfile, conf, db, current, calls, crashes, torn>>

PkillStray(h) ==
    /\ At(h, "stray")
    /\ proc' = Terminated({p \in Pids : Live(p)})
    /\ pidfile' \in AfterExit(Pids)
    /\ Goto(h, "stat")
    /\ UNCHANGED <<mpid, conf, db, current, calls, crashes, torn>>

StatConfig(h) ==
    /\ At(h, "stat")
    /\ Goto(h, IF conf = NoConfig THEN "restore" ELSE "spawn")
    /\ UNCHANGED <<proc, mpid, pidfile, conf, db, current, calls, crashes, torn>>

(* Write the file from the database; without one there, Start fails.       *)
RestoreConfig(h) ==
    /\ At(h, "restore")
    /\ conf' = IF Configured(db) THEN db ELSE conf
    /\ IF conf' = NoConfig THEN Return(h) ELSE Goto(h, "spawn")
    /\ UNCHANGED <<proc, mpid, pidfile, db, current, calls, crashes, torn>>

(* A second dnsmasq finds its ports taken and exits, as one with a file it *)
(* cannot use does. One that stays records its id in the pid file as well. *)
Spawn(h) ==
    /\ At(h, "spawn")
    /\ \E p \in Pids :
          /\ proc[p] = "free"
          /\ LET stays == Usable(conf) /\ ~ \E q \in Pids : Live(q)
             IN  /\ proc' = [proc EXCEPT ![p] = IF stays THEN "dnsmasq" ELSE "zombie"]
                 /\ current' = IF stays THEN current \cup {p} ELSE current \ {p}
                 /\ pidfile' \in {pidfile} \cup (IF stays THEN {p} ELSE {})
          /\ call' = [call EXCEPT ![h].pc = "own", ![h].pid = p]
    /\ UNCHANGED <<mpid, conf, db, calls, crashes, torn>>

(* cmd.Start() fails: no binary there, or no process to be had.            *)
SpawnFails(h) ==
    /\ At(h, "spawn")
    /\ Return(h)
    /\ UNCHANGED <<proc, mpid, pidfile, conf, db, current, calls, crashes, torn>>

OwnPid(h) ==
    /\ At(h, "own")
    /\ mpid' = call[h].pid
    /\ Goto(h, "record")
    /\ UNCHANGED <<proc, pidfile, conf, db, current, calls, crashes, torn>>

RecordPid(h) ==
    /\ At(h, "record")
    /\ pidfile' = mpid
    /\ Goto(h, "verify")
    /\ UNCHANGED <<proc, mpid, conf, db, current, calls, crashes, torn>>

(* Kill(m.pid, 0): a zombie exists, and so does process group 0.           *)
VerifyPid(h) ==
    /\ At(h, "verify")
    /\ IF Exists(mpid) THEN Return(h) /\ UNCHANGED mpid
                       ELSE Goto(h, "drop") /\ mpid' = None
    /\ UNCHANGED <<proc, pidfile, conf, db, current, calls, crashes, torn>>

DropPidFile(h) ==
    /\ At(h, "drop")
    /\ pidfile' = None
    /\ Return(h)
    /\ UNCHANGED <<proc, mpid, conf, db, current, calls, crashes, torn>>
-----------------------------------------------------------------------------
(* The system around the manager                                           *)

(* go cmd.Wait(), or init once the engine that started it is gone.         *)
Reap(p) ==
    /\ proc[p] = "zombie"
    /\ proc' = [proc EXCEPT ![p] = "free"]
    /\ UNCHANGED <<mpid, pidfile, conf, db, current, call, calls, crashes, torn>>

DnsmasqDies(p) ==
    /\ Live(p)
    /\ proc' = [proc EXCEPT ![p] = "zombie"]
    /\ call' = Disturbed
    /\ UNCHANGED <<mpid, pidfile, conf, db, current, calls, crashes, torn>>

OtherStarts(p) ==
    /\ proc[p] = "free"
    /\ proc' = [proc EXCEPT ![p] = "other"]
    /\ current' = current \ {p}
    /\ UNCHANGED <<mpid, pidfile, conf, db, call, calls, crashes, torn>>

OtherEnds(p) ==
    /\ proc[p] = "other"
    /\ proc' = [proc EXCEPT ![p] = "free"]
    /\ UNCHANGED <<mpid, pidfile, conf, db, current, call, calls, crashes, torn>>

UpdatePending ==
    \E h \in Handlers : call[h] # Idle /\ call[h].op = "update" /\ call[h].pc \in StopSteps

(* A new process starts dnsmasq, if one is configured, before it serves    *)
(* any request; what the old one had not finished stays unfinished.        *)
NewProcess ==
    /\ mpid' = None
    /\ torn' = (torn \/ UpdatePending)
    /\ \E b \in Handlers :
          call' = [h \in Handlers |->
                      IF h = b /\ Configured(db)
                      THEN [op |-> "boot", pc |-> "check", v |-> None, pid |-> None,
                            alone |-> FALSE]
                      ELSE Idle]
    /\ UNCHANGED <<conf, db, current, calls>>

(* The engine dies; dnsmasq, in a session of its own, lives on or is taken *)
(* along by the service manager or the power cut.                          *)
Restart ==
    /\ crashes < MaxCrashes /\ crashes' = crashes + 1
    /\ \/ UNCHANGED <<proc, pidfile>>
       \/ /\ proc' = [p \in Pids |-> IF Live(p) THEN "free" ELSE proc[p]]
          /\ pidfile' \in AfterExit(Pids)
    /\ NewProcess

(* SIGTERM: no request is taken any more, the ones in flight are waited    *)
(* for, five seconds at most, and the deferred Stop runs. POST             *)
(* /api/shutdown runs it without waiting, beside requests that go on.      *)
Sigterm(h) == Begin(h, "sigterm", "drain", None)

Drain(h) ==
    /\ At(h, "drain")
    /\ LET drained == \A g \in Handlers \ {h} : call[g] = Idle
       IN  call' = [call EXCEPT ![h].pc = "term", ![h].alone = drained]
    /\ UNCHANGED <<proc, mpid, pidfile, conf, db, current, calls, crashes, torn>>

(* The process ends and, some time, is started again.                      *)
Exit(h) ==
    /\ At(h, "exit")
    /\ NewProcess
    /\ UNCHANGED <<proc, pidfile, crashes>>
-----------------------------------------------------------------------------
Continue(h) ==
    \/ SetInterface(h) \/ SetRange(h) \/ WriteConfig(h)
    \/ TermOwn(h) \/ ForgetOwn(h) \/ TermRecorded(h) \/ RemovePidFile(h) \/ PkillAndEndStop(h)
    \/ CheckRunning(h) \/ PkillStray(h) \/ StatConfig(h) \/ RestoreConfig(h)
    \/ Spawn(h) \/ SpawnFails(h) \/ OwnPid(h) \/ RecordPid(h) \/ VerifyPid(h) \/ DropPidFile(h)
    \/ Drain(h) \/ Exit(h)

System ==
    \/ \E p \in Pids : Reap(p) \/ DnsmasqDies(p) \/ OtherStarts(p) \/ OtherEnds(p)
    \/ Restart

Next ==
    \/ \E h \in Handlers :
          \/ StartCall(h) \/ StopCall(h) \/ ShutdownCall(h) \/ Sigterm(h)
          \/ \E v \in Versions : UpdateCall(h, v)
          \/ Continue(h)
    \/ Reload
    \/ System

Spec == Init /\ [][Next]_vars
-----------------------------------------------------------------------------
(* Properties                                                              *)

(* Types of the processes, the manager's field, the files and the calls.   *)
TypeOK ==
    /\ proc \in [Pids -> {"free", "dnsmasq", "zombie", "other"}]
    /\ mpid \in Pids \cup {None}
    /\ pidfile \in Pids \cup {None}
    /\ conf \in Config /\ db \in Config
    /\ current \subseteq Pids
    /\ call \in [Handlers -> Call \cup {Idle}]
    /\ calls \in 0 .. MaxCalls /\ crashes \in 0 .. MaxCrashes
    /\ torn \in BOOLEAN

(* However starts, stops and updates interleave, no dnsmasq goes on with a *)
(* configuration older than the file: every live one was started since the *)
(* last update wrote it, while that update has not come to its pkill, or   *)
(* the engine died before it did.                                          *)
NoStaleServer == \A p \in Pids : Live(p) => p \in current \/ UpdatePending \/ torn

EndsAlone(h, op) ==
    /\ call[h] # Idle /\ call[h].op = op /\ call[h].alone
    /\ call'[h] = Idle /\ crashes' = crashes

(* An update that runs alone repairs whatever came before it, lost pids,   *)
(* stray servers, stale pid files: when it returns, the dnsmasq it started *)
(* runs, the manager knows it, and file and database hold what was asked;  *)
(* unless no process could be started, which the handler does not tell     *)
(* (dhcp.go:294).                                                          *)
UpdateRepairs ==
    [][\A h \in Handlers :
          EndsAlone(h, "update") /\ ~ At(h, "spawn") /\ call[h].v \notin Unusable =>
              /\ mpid' # None /\ proc'[mpid'] = "dnsmasq" /\ mpid' \in current'
              /\ pidfile' = mpid'
              /\ conf' = db' /\ db'.iface = call[h].v /\ db'.range = call[h].v]_vars

(* A stop that runs alone leaves no dnsmasq and nothing that names one.    *)
StopStops ==
    [][\A h \in Handlers : EndsAlone(h, "stop") =>
          mpid' = None /\ pidfile' = None /\ \A p \in Pids : proc'[p] # "dnsmasq"]_vars

(* An engine that shuts down in order, with no handler in flight or after  *)
(* the last one returned, leaves no DHCP server behind and no pid file     *)
(* that the next engine could take another program's id from.              *)
ShutdownLeavesNothing ==
    \A h \in Handlers : At(h, "exit") /\ call[h].alone =>
        mpid = None /\ pidfile = None /\ \A p \in Pids : ~ Live(p)
=============================================================================
