---------------------------- MODULE DnsmasqProofs ----------------------------
(***************************************************************************)
(* DnsmasqManager for any handlers, process ids, configurations and        *)
(* bounds: types, that no dnsmasq goes on with an old configuration, and   *)
(* what a call that runs alone leaves behind.                              *)
(***************************************************************************)
EXTENDS DnsmasqManager, TLAPS

USE ManagerAssumption

NoServer == \A p \in Pids : ~ Live(p)

(* Which calls are where.                                                  *)
Shape(c) ==
    /\ c.op = "update" => c.v \in Versions
    /\ c.pc \in {"iface", "range", "conf"} => c.op = "update"
    /\ c.pc \in {"drain", "exit"} => c.op \in {"shutdown", "sigterm"}
    /\ c.pc \in StopSteps => c.op \in {"stop", "update", "shutdown", "sigterm"}
    /\ c.pc \in StartSteps => c.op \in {"start", "update", "boot"}

(* What a Stop that is alone has behind it.                                *)
Stopped(c) ==
    /\ c.pc \in {"pidfile", "unlink", "pkill", "exit"} => mpid = None
    /\ c.pc \in {"pkill", "exit"} => pidfile = None
    /\ c.pc = "exit" => NoServer

(* What an update that is alone has behind it.                             *)
Written(c) ==
    /\ c.pc # "iface" => db.iface = c.v
    /\ c.pc \notin {"iface", "range"} => db.range = c.v
    /\ c.pc \notin {"iface", "range", "conf"} => conf = db
    /\ c.pc = "check" => mpid = None /\ pidfile = None
    /\ c.pc \in {"check", "stray", "stat", "spawn"} => NoServer
    /\ c.pc # "restore"

Started(c) ==
    /\ c.pc \in {"own", "record", "verify"} =>
          c.pid \in Pids /\ proc[c.pid] = "dnsmasq" /\ c.pid \in current
    /\ c.pc \in {"record", "verify"} => mpid = c.pid
    /\ c.pc = "verify" => pidfile = c.pid
    /\ c.pc # "drop"

AloneOK(c) ==
    /\ Stopped(c)
    /\ c.op = "update" => Written(c) /\ (c.v \notin Unusable => Started(c))

CallOK(h) ==
    call[h] # Idle =>
        /\ Shape(call[h])
        /\ call[h].alone => AloneOK(call[h]) /\ \A g \in Handlers \ {h} : call[g] = Idle

Inv == TypeOK /\ NoStaleServer /\ \A h \in Handlers : CallOK(h)
-----------------------------------------------------------------------------
LEMMA NoneIsNoPid == None \notin Pids /\ None \notin Versions
BY DEF None, Pids, Versions

(* A call that goes on.                                                    *)
LEMMA GotoMoves ==
    ASSUME TypeOK, NEW h \in Handlers, call[h] # Idle,
           NEW p \in {"iface", "range", "conf", "drain", "exit"} \cup StopSteps \cup StartSteps,
           Goto(h, p)
    PROVE  /\ call' \in [Handlers -> Call \cup {Idle}]
           /\ \A g \in Handlers \ {h} : call'[g] = call[g]
           /\ call'[h] # Idle /\ call'[h].pc = p /\ call'[h].op = call[h].op
           /\ call'[h].v = call[h].v /\ call'[h].pid = call[h].pid
           /\ call'[h].alone = call[h].alone
<1> DEFINE d == [call[h] EXCEPT !.pc = p]
<1>1. call[h] \in Call
  BY DEF TypeOK
<1>2. /\ d \in Call /\ d.pc = p /\ d.op = call[h].op /\ d.v = call[h].v /\ d.pid = call[h].pid
      /\ d.alone = call[h].alone
  BY <1>1 DEF Call
<1>3. call' = [call EXCEPT ![h] = d]
  BY DEF Goto
<1> HIDE DEF d
<1>4. /\ call' \in [Handlers -> Call \cup {Idle}] /\ call'[h] = d
      /\ \A g \in Handlers \ {h} : call'[g] = call[g]
  BY <1>2, <1>3 DEF TypeOK
<1> QED  BY <1>2, <1>4

LEMMA ReturnEnds ==
    ASSUME TypeOK, NEW h \in Handlers, Return(h)
    PROVE  /\ call' \in [Handlers -> Call \cup {Idle}]
           /\ \A g \in Handlers \ {h} : call'[g] = call[g]
           /\ call'[h] = Idle
BY DEF TypeOK, Return

LEMMA DisturbedCalls ==
    ASSUME TypeOK
    PROVE  /\ Disturbed \in [Handlers -> Call \cup {Idle}]
           /\ \A g \in Handlers :
                 /\ call[g] = Idle => Disturbed[g] = Idle
                 /\ call[g] # Idle => /\ Disturbed[g] # Idle
                                      /\ Disturbed[g].pc = call[g].pc
                                      /\ Disturbed[g].op = call[g].op
                                      /\ Disturbed[g].v = call[g].v
                                      /\ Disturbed[g].alone = FALSE
<1> DEFINE d(g) == [call[g] EXCEPT !.alone = FALSE]
<1>1. ASSUME NEW g \in Handlers, call[g] # Idle
      PROVE  /\ d(g) \in Call /\ d(g).pc = call[g].pc /\ d(g).op = call[g].op
             /\ d(g).v = call[g].v /\ d(g).alone = FALSE
  <2>1. call[g] \in Call
    BY <1>1 DEF TypeOK
  <2> QED  BY <2>1 DEF Call
<1>2. \A g \in Handlers : Disturbed[g] = IF call[g] = Idle THEN Idle ELSE d(g)
  BY DEF Disturbed
<1>3. Disturbed = [g \in Handlers |-> Disturbed[g]]
  BY DEF Disturbed
<1> HIDE DEF d
<1>4. \A g \in Handlers : Disturbed[g] \in Call \cup {Idle}
  BY <1>1, <1>2
<1>5. Disturbed \in [Handlers -> Call \cup {Idle}]
  BY <1>3, <1>4
<1> QED  BY <1>1, <1>2, <1>5

(* Signals start nothing, and leave the pid file or an empty one.          *)
LEMMA Signalled ==
    ASSUME TypeOK, NEW P, proc' = Terminated(P), pidfile' \in AfterExit(P)
    PROVE  /\ proc' \in [Pids -> {"free", "dnsmasq", "zombie", "other"}]
           /\ pidfile' \in Pids \cup {None}
           /\ pidfile' = pidfile \/ pidfile' = None
           /\ \A p \in Pids : proc'[p] = "dnsmasq" => proc[p] = "dnsmasq" /\ p \notin P
BY DEF TypeOK, Terminated, AfterExit

(* One step of a call that is in flight, as seen by the invariant.         *)
LEMMA OneCall ==
    ASSUME Inv, NEW h \in Handlers, call[h] # Idle, TypeOK', NoStaleServer',
           \A g \in Handlers \ {h} : call'[g] = call[g],
           call'[h] # Idle =>
               /\ Shape(call'[h])
               /\ call'[h].alone => /\ AloneOK(call[h])'
                                    /\ call[h].alone \/ \A g \in Handlers \ {h} : call[g] = Idle
    PROVE  Inv'
<1>1. ASSUME NEW g \in Handlers PROVE CallOK(g)'
  <2>1. CASE g = h
    BY <2>1 DEF Inv, CallOK, Shape
  <2>2. CASE g # h
    <3>1. call'[g] # Idle => Shape(call[g]) /\ ~ call[g].alone
      BY <2>2 DEF Inv, CallOK
    <3> QED  BY <2>2, <3>1 DEF CallOK, Shape
  <2> QED  BY <2>1, <2>2
<1> QED  BY <1>1 DEF Inv

LEMMA Facts ==
    ASSUME Inv, NEW h \in Handlers, call[h] # Idle
    PROVE  /\ TypeOK /\ NoStaleServer /\ call[h] \in Call /\ Shape(call[h])
           /\ call[h].alone => AloneOK(call[h])
           /\ call[h].v \in Versions \cup {None} /\ call[h].pid \in Pids \cup {None}
           /\ call[h].pc \in {"iface", "range", "conf", "drain", "exit"} \cup StopSteps \cup StartSteps
BY DEF Inv, CallOK, TypeOK, Call

(* The pending updates are those of the calls that do not move, and one    *)
(* that moves within Stop.                                                 *)
LEMMA StillPending ==
    ASSUME NEW h \in Handlers, \A g \in Handlers \ {h} : call'[g] = call[g], UpdatePending,
           call[h] # Idle /\ call[h].pc \in StopSteps =>
               call'[h] # Idle /\ call'[h].pc \in StopSteps /\ call'[h].op = call[h].op
    PROVE  UpdatePending'
BY DEF UpdatePending
-----------------------------------------------------------------------------
LEMMA InitInv == Init => Inv
<1> SUFFICES ASSUME Init PROVE Inv
  OBVIOUS
<1>1. TypeOK
  <2>1. NoConfig \in Config
    BY DEF NoConfig, Config
  <2>2. 0 \in 0 .. MaxCalls /\ 0 \in 0 .. MaxCrashes
    OBVIOUS
  <2> QED  BY <2>1, <2>2 DEF Init, TypeOK
<1> QED  BY <1>1 DEF Init, Inv, NoStaleServer, Live, CallOK

LEMMA BeginInv ==
    ASSUME Inv, NEW h \in Handlers, NEW v \in Versions \cup {None},
           NEW op \in {"start", "stop", "update", "shutdown", "sigterm"},
           NEW pc \in {"iface", "check", "term", "drain"},
           <<op, pc>> \in {<<"start", "check">>, <<"stop", "term">>, <<"shutdown", "term">>,
                           <<"sigterm", "drain">>, <<"update", "iface">>},
           op = "update" => v \in Versions,
           Begin(h, op, pc, v)
    PROVE  Inv'
<1> USE DEF Inv
<1> DEFINE c == [op |-> op, pc |-> pc, v |-> v, pid |-> None, alone |-> Quiet]
<1>0. Quiet \in BOOLEAN
  BY DEF Quiet
<1>1. /\ c \in Call /\ c.op = op /\ c.pc = pc /\ c.v = v /\ c.alone = Quiet
  BY <1>0 DEF Call, StopSteps, StartSteps
<1> HIDE DEF c
<1>2. /\ call[h] = Idle /\ call' = [Disturbed EXCEPT ![h] = c]
      /\ calls' \in 0 .. MaxCalls
      /\ UNCHANGED <<proc, mpid, pidfile, conf, db, current, crashes, torn>>
  BY DEF Begin, c, TypeOK
<1>3. /\ call' \in [Handlers -> Call \cup {Idle}] /\ call'[h] = c
      /\ \A g \in Handlers \ {h} : call'[g] = Disturbed[g]
  BY <1>1, <1>2, DisturbedCalls
<1>4. TypeOK'
  BY <1>2, <1>3 DEF TypeOK
<1>5. NoStaleServer'
  <2>1. UpdatePending => UpdatePending'
    BY <1>2, <1>3, DisturbedCalls DEF UpdatePending
  <2> QED  BY <1>2, <2>1 DEF NoStaleServer, Live
<1>6. ASSUME NEW g \in Handlers PROVE CallOK(g)'
  <2>1. CASE g = h
    <3>1. Shape(c)
      BY <1>1 DEF Shape, StopSteps, StartSteps
    <3>2. c.alone => AloneOK(call[h])' /\ \A k \in Handlers \ {h} : call'[k] = Idle
      BY <1>1, <1>3, DisturbedCalls DEF Quiet, AloneOK, Stopped, Written, Started
    <3> QED  BY <1>3, <2>1, <3>1, <3>2 DEF CallOK, Shape
  <2>2. CASE g # h
    <3>0. call'[g] = Disturbed[g] /\ TypeOK
      BY <1>3, <2>2
    <3>1. call'[g] # Idle => call[g] # Idle /\ call'[g].alone = FALSE
      BY <3>0, DisturbedCalls
    <3>2. call'[g] # Idle => Shape(call[g])
      BY <3>1 DEF CallOK
    <3>3. call'[g] # Idle => Shape(call[g])'
      BY <1>3, <2>2, <3>1, <3>2, DisturbedCalls DEF Shape
    <3> QED  BY <3>1, <3>3 DEF CallOK
  <2> QED  BY <2>1, <2>2
<1> QED  BY <1>4, <1>5, <1>6
(* The update's own steps, and Stop.                                       *)
LEMMA SetInterfaceInv == ASSUME Inv, NEW h \in Handlers, SetInterface(h) PROVE Inv'
<1>1. /\ call[h] # Idle /\ call[h].pc = "iface" /\ Goto(h, "range")
      /\ db' = [db EXCEPT !.iface = call[h].v]
      /\ UNCHANGED <<proc, mpid, pidfile, conf, current, calls, crashes, torn>>
  BY DEF SetInterface, At
<1>2. /\ TypeOK /\ call[h].op = "update" /\ db'.iface = call[h].v
      /\ db' \in Config
  BY <1>1, Facts DEF Shape, TypeOK, Config
<1>3. TypeOK'
  BY <1>1, <1>2, GotoMoves DEF TypeOK
<1>4. NoStaleServer'
  BY <1>1, <1>2, GotoMoves, StillPending DEF Inv, NoStaleServer, Live, StopSteps
<1> QED  BY <1>1, <1>2, <1>3, <1>4, GotoMoves, Facts, OneCall
         DEF Shape, AloneOK, Stopped, Written, Started, StopSteps, StartSteps

LEMMA SetRangeInv == ASSUME Inv, NEW h \in Handlers, SetRange(h) PROVE Inv'
<1>1. /\ call[h] # Idle /\ call[h].pc = "range" /\ Goto(h, "conf")
      /\ db' = [db EXCEPT !.range = call[h].v]
      /\ UNCHANGED <<proc, mpid, pidfile, conf, current, calls, crashes, torn>>
  BY DEF SetRange, At
<1>2. /\ TypeOK /\ call[h].op = "update" /\ db'.iface = db.iface /\ db'.range = call[h].v
      /\ db' \in Config
  BY <1>1, Facts DEF Shape, TypeOK, Config
<1>3. TypeOK'
  BY <1>1, <1>2, GotoMoves DEF TypeOK
<1>4. NoStaleServer'
  BY <1>1, <1>2, GotoMoves, StillPending DEF Inv, NoStaleServer, Live, StopSteps
<1> QED  BY <1>1, <1>2, <1>3, <1>4, GotoMoves, Facts, OneCall
         DEF Shape, AloneOK, Stopped, Written, Started, StopSteps, StartSteps

LEMMA WriteConfigInv == ASSUME Inv, NEW h \in Handlers, WriteConfig(h) PROVE Inv'
<1>1. /\ call[h] # Idle /\ call[h].pc = "conf" /\ Goto(h, "term")
      /\ conf' = [iface |-> call[h].v, range |-> call[h].v] /\ current' = {}
      /\ UNCHANGED <<proc, mpid, pidfile, db, calls, crashes, torn>>
  BY DEF WriteConfig, At
<1>2. TypeOK /\ call[h].op = "update" /\ conf' \in Config
  BY <1>1, Facts DEF Shape, TypeOK, Config
<1>3. TypeOK'
  BY <1>1, <1>2, GotoMoves DEF TypeOK, StopSteps
<1>4. NoStaleServer'
  <2>1. UpdatePending'
    BY <1>1, <1>2, GotoMoves DEF UpdatePending, StopSteps
  <2> QED  BY <2>1 DEF NoStaleServer
<1>5. call[h].alone => conf' = db
  BY <1>1, <1>2, Facts DEF AloneOK, Written, TypeOK, Config
<1> QED  BY <1>1, <1>2, <1>3, <1>4, <1>5, GotoMoves, Facts, OneCall
         DEF Shape, AloneOK, Stopped, Written, Started, StopSteps, StartSteps

LEMMA TermOwnInv == ASSUME Inv, NEW h \in Handlers, TermOwn(h) PROVE Inv'
<1>1. /\ call[h] # Idle /\ call[h].pc = "term"
      /\ UNCHANGED <<mpid, conf, db, current, calls, crashes, torn>>
  BY DEF TermOwn, At
<1>2. TypeOK /\ Shape(call[h])
  BY <1>1, Facts
<1>3. CASE mpid = None
  <2>1. Goto(h, "pidfile") /\ UNCHANGED <<proc, pidfile>>
    BY <1>3 DEF TermOwn
  <2>2. TypeOK'
    BY <1>1, <1>2, <2>1, GotoMoves DEF TypeOK, StopSteps
  <2>3. NoStaleServer'
    BY <1>1, <1>2, <2>1, GotoMoves, StillPending DEF Inv, NoStaleServer, Live, StopSteps
  <2> QED  BY <1>1, <1>2, <1>3, <2>1, <2>2, <2>3, GotoMoves, Facts, OneCall
           DEF Shape, AloneOK, Stopped, Written, Started, StopSteps, StartSteps
<1>4. CASE mpid # None
  <2>1. Goto(h, "forget") /\ proc' = Terminated({mpid}) /\ pidfile' \in AfterExit({mpid})
    BY <1>4 DEF TermOwn
  <2>2. TypeOK'
    BY <1>1, <1>2, <2>1, GotoMoves, Signalled DEF TypeOK, StopSteps
  <2>3. NoStaleServer'
    <3>1. \A p \in Pids : Live(p)' => Live(p)
      BY <1>2, <2>1, Signalled DEF Live
    <3>2. UpdatePending => UpdatePending'
      BY <1>1, <1>2, <2>1, GotoMoves, StillPending DEF StopSteps
    <3> QED  BY <1>1, <3>1, <3>2 DEF Inv, NoStaleServer
  <2> QED  BY <1>1, <1>2, <2>1, <2>2, <2>3, GotoMoves, Facts, OneCall
           DEF Shape, AloneOK, Stopped, Written, Started, StopSteps, StartSteps
<1> QED  BY <1>3, <1>4

LEMMA ForgetOwnInv == ASSUME Inv, NEW h \in Handlers, ForgetOwn(h) PROVE Inv'
<1>1. /\ call[h] # Idle /\ call[h].pc = "forget" /\ Goto(h, "pidfile") /\ mpid' = None
      /\ UNCHANGED <<proc, pidfile, conf, db, current, calls, crashes, torn>>
  BY DEF ForgetOwn, At
<1>2. TypeOK /\ Shape(call[h])
  BY <1>1, Facts
<1>3. TypeOK'
  BY <1>1, <1>2, GotoMoves DEF TypeOK, StopSteps
<1>4. NoStaleServer'
  BY <1>1, <1>2, GotoMoves, StillPending DEF Inv, NoStaleServer, Live, StopSteps
<1> QED  BY <1>1, <1>2, <1>3, <1>4, GotoMoves, Facts, OneCall
         DEF Shape, AloneOK, Stopped, Written, Started, StopSteps, StartSteps

LEMMA TermRecordedInv == ASSUME Inv, NEW h \in Handlers, TermRecorded(h) PROVE Inv'
<1>1. /\ call[h] # Idle /\ call[h].pc = "pidfile" /\ Goto(h, "unlink")
      /\ proc' = Terminated({pidfile}) /\ pidfile' \in AfterExit({pidfile})
      /\ UNCHANGED <<mpid, conf, db, current, calls, crashes, torn>>
  BY DEF TermRecorded, At
<1>2. TypeOK /\ Shape(call[h])
  BY <1>1, Facts
<1>3. TypeOK'
  BY <1>1, <1>2, GotoMoves, Signalled DEF TypeOK, StopSteps
<1>4. NoStaleServer'
  <2>1. \A p \in Pids : Live(p)' => Live(p)
    BY <1>1, <1>2, Signalled DEF Live
  <2>2. UpdatePending => UpdatePending'
    BY <1>1, <1>2, GotoMoves, StillPending DEF StopSteps
  <2> QED  BY <1>1, <2>1, <2>2 DEF Inv, NoStaleServer
<1> QED  BY <1>1, <1>2, <1>3, <1>4, GotoMoves, Facts, OneCall
         DEF Shape, AloneOK, Stopped, Written, Started, StopSteps, StartSteps

LEMMA RemovePidFileInv == ASSUME Inv, NEW h \in Handlers, RemovePidFile(h) PROVE Inv'
<1>1. /\ call[h] # Idle /\ call[h].pc = "unlink" /\ Goto(h, "pkill") /\ pidfile' = None
      /\ UNCHANGED <<proc, mpid, conf, db, current, calls, crashes, torn>>
  BY DEF RemovePidFile, At
<1>2. TypeOK /\ Shape(call[h])
  BY <1>1, Facts
<1>3. TypeOK'
  BY <1>1, <1>2, GotoMoves DEF TypeOK, StopSteps
<1>4. NoStaleServer'
  BY <1>1, <1>2, GotoMoves, StillPending DEF Inv, NoStaleServer, Live, StopSteps
<1> QED  BY <1>1, <1>2, <1>3, <1>4, GotoMoves, Facts, OneCall
         DEF Shape, AloneOK, Stopped, Written, Started, StopSteps, StartSteps

(* pkill ends every dnsmasq there is.                                      *)
LEMMA PkillSteps ==
    ASSUME TypeOK, proc' = Terminated({p \in Pids : Live(p)}), pidfile' \in AfterExit(Pids)
    PROVE  /\ proc' \in [Pids -> {"free", "dnsmasq", "zombie", "other"}]
           /\ pidfile' \in Pids \cup {None}
           /\ pidfile = None => pidfile' = None
           /\ NoServer'
<1>1. proc' \in [Pids -> {"free", "dnsmasq", "zombie", "other"}]
  BY DEF TypeOK, Terminated
<1>2. NoServer'
  BY <1>1 DEF NoServer, Live, Terminated, TypeOK
<1> QED  BY <1>1, <1>2 DEF TypeOK, AfterExit

LEMMA PkillAndEndStopInv == ASSUME Inv, NEW h \in Handlers, PkillAndEndStop(h) PROVE Inv'
<1>1. /\ call[h] # Idle /\ call[h].pc = "pkill"
      /\ proc' = Terminated({p \in Pids : Live(p)}) /\ pidfile' \in AfterExit(Pids)
      /\ torn' = FALSE
      /\ UNCHANGED <<mpid, conf, db, current, calls, crashes>>
  BY DEF PkillAndEndStop, At
<1>2. TypeOK /\ Shape(call[h])
  BY <1>1, Facts
<1>3. NoServer' /\ NoStaleServer'
  BY <1>1, <1>2, PkillSteps DEF NoServer, NoStaleServer
<1>4. CASE Return(h)
  <2>1. TypeOK'
    BY <1>1, <1>2, <1>4, ReturnEnds, PkillSteps DEF TypeOK
  <2> QED  BY <1>1, <1>2, <1>3, <1>4, <2>1, ReturnEnds, OneCall
<1>5. ASSUME NEW p \in {"check", "exit"}, Goto(h, p),
             IF p = "check" THEN call[h].op = "update" ELSE call[h].op \notin {"update", "stop"}
      PROVE  Inv'
  <2>1. TypeOK'
    BY <1>1, <1>2, <1>5, GotoMoves, PkillSteps DEF TypeOK, StartSteps
  <2> QED  BY <1>1, <1>2, <1>3, <1>5, <2>1, GotoMoves, PkillSteps, Facts, OneCall
           DEF Shape, AloneOK, Stopped, Written, Started, StopSteps, StartSteps
<1> QED  BY <1>4, <1>5 DEF PkillAndEndStop

LEMMA DrainInv == ASSUME Inv, NEW h \in Handlers, Drain(h) PROVE Inv'
<1> DEFINE drained == \A g \in Handlers \ {h} : call[g] = Idle
           d == [call[h] EXCEPT !.pc = "term", !.alone = drained]
<1>1. /\ call[h] # Idle /\ call[h].pc = "drain" /\ call' = [call EXCEPT ![h] = d]
      /\ UNCHANGED <<proc, mpid, pidfile, conf, db, current, calls, crashes, torn>>
  BY DEF Drain, At
<1>2. TypeOK /\ Shape(call[h]) /\ call[h] \in Call
  BY <1>1, Facts
<1>3. /\ d \in Call /\ d.pc = "term" /\ d.alone = drained /\ d.op = call[h].op
      /\ d.v = call[h].v /\ d.pid = call[h].pid
  <2>1. drained \in BOOLEAN
    OBVIOUS
  <2> HIDE DEF drained
  <2> QED  BY <1>2, <2>1 DEF Call, StopSteps
<1> HIDE DEF d
<1>4. /\ call' \in [Handlers -> Call \cup {Idle}] /\ call'[h] = d
      /\ \A g \in Handlers \ {h} : call'[g] = call[g]
  BY <1>1, <1>2, <1>3 DEF TypeOK
<1>5. TypeOK'
  BY <1>1, <1>2, <1>4 DEF TypeOK
<1>6. NoStaleServer'
  BY <1>1, <1>3, <1>4, StillPending DEF Inv, NoStaleServer, Live, StopSteps
<1> QED  BY <1>1, <1>2, <1>3, <1>4, <1>5, <1>6, OneCall
         DEF Shape, AloneOK, Stopped, Written, Started, StopSteps, StartSteps
-----------------------------------------------------------------------------
(* Start. Steps that touch the call only, or the pid file or the field as  *)
(* well.                                                                   *)
LEMMA CheckRunningInv == ASSUME Inv, NEW h \in Handlers, CheckRunning(h) PROVE Inv'
<1>1. /\ call[h] # Idle /\ call[h].pc = "check"
      /\ UNCHANGED <<proc, mpid, pidfile, conf, db, current, calls, crashes, torn>>
  BY DEF CheckRunning, At
<1>2. TypeOK /\ Shape(call[h])
  BY <1>1, Facts
<1>3. CASE Return(h)
  <2>1. TypeOK'
    BY <1>1, <1>2, <1>3, ReturnEnds DEF TypeOK
  <2>2. NoStaleServer'
    BY <1>1, <1>2, <1>3, ReturnEnds, StillPending DEF Inv, NoStaleServer, Live, StopSteps
  <2> QED  BY <1>1, <1>3, <2>1, <2>2, <1>2, ReturnEnds, OneCall
<1>4. CASE Goto(h, "stray")
  <2>1. TypeOK'
    BY <1>1, <1>2, <1>4, GotoMoves DEF TypeOK, StartSteps
  <2>2. NoStaleServer'
    BY <1>1, <1>2, <1>4, GotoMoves, StillPending
    DEF Inv, NoStaleServer, Live, StopSteps, StartSteps
  <2> QED  BY <1>1, <1>2, <1>4, <2>1, <2>2, GotoMoves, Facts, OneCall
           DEF Shape, AloneOK, Stopped, Written, Started, StopSteps, StartSteps, NoServer, Live
<1> QED  BY <1>3, <1>4 DEF CheckRunning

LEMMA PkillStrayInv == ASSUME Inv, NEW h \in Handlers, PkillStray(h) PROVE Inv'
<1>1. /\ call[h] # Idle /\ call[h].pc = "stray" /\ Goto(h, "stat")
      /\ proc' = Terminated({p \in Pids : Live(p)}) /\ pidfile' \in AfterExit(Pids)
      /\ UNCHANGED <<mpid, conf, db, current, calls, crashes, torn>>
  BY DEF PkillStray, At
<1>2. TypeOK /\ Shape(call[h])
  BY <1>1, Facts
<1>3. NoServer' /\ NoStaleServer'
  BY <1>1, <1>2, PkillSteps DEF NoServer, NoStaleServer
<1>4. TypeOK'
  BY <1>1, <1>2, GotoMoves, PkillSteps DEF TypeOK, StartSteps
<1> QED  BY <1>1, <1>2, <1>3, <1>4, GotoMoves, PkillSteps, Facts, OneCall
         DEF Shape, AloneOK, Stopped, Written, Started, StopSteps, StartSteps

(* An update that is alone finds the file it has written.                  *)
LEMMA StatConfigInv == ASSUME Inv, NEW h \in Handlers, StatConfig(h) PROVE Inv'
<1>1. /\ call[h] # Idle /\ call[h].pc = "stat"
      /\ UNCHANGED <<proc, mpid, pidfile, conf, db, current, calls, crashes, torn>>
  BY DEF StatConfig, At
<1>2. TypeOK /\ Shape(call[h])
  BY <1>1, Facts
<1>3. ASSUME NEW p \in {"restore", "spawn"}, Goto(h, p), p = "restore" => conf = NoConfig
      PROVE  Inv'
  <2>1. TypeOK'
    BY <1>1, <1>2, <1>3, GotoMoves DEF TypeOK, StartSteps
  <2>2. NoStaleServer'
    BY <1>1, <1>2, <1>3, GotoMoves, StillPending
    DEF Inv, NoStaleServer, Live, StopSteps, StartSteps
  <2>3. call[h].op = "update" /\ call[h].alone => p # "restore"
    BY <1>1, <1>2, <1>3, Facts, NoneIsNoPid DEF AloneOK, Written, Shape, NoConfig
  <2> QED  BY <1>1, <1>2, <1>3, <2>1, <2>2, <2>3, GotoMoves, Facts, OneCall
           DEF Shape, AloneOK, Stopped, Written, Started, StopSteps, StartSteps, NoServer, Live
<1> QED  BY <1>3 DEF StatConfig

LEMMA SpawnFailsInv == ASSUME Inv, NEW h \in Handlers, SpawnFails(h) PROVE Inv'
<1>1. /\ call[h] # Idle /\ call[h].pc = "spawn" /\ Return(h)
      /\ UNCHANGED <<proc, mpid, pidfile, conf, db, current, calls, crashes, torn>>
  BY DEF SpawnFails, At
<1>2. TypeOK /\ Shape(call[h])
  BY <1>1, Facts
<1>3. TypeOK'
  BY <1>1, <1>2, ReturnEnds DEF TypeOK
<1>4. NoStaleServer'
  BY <1>1, <1>2, ReturnEnds, StillPending DEF Inv, NoStaleServer, Live, StopSteps
<1> QED  BY <1>1, <1>2, <1>3, <1>4, ReturnEnds, OneCall

LEMMA RestoreConfigInv == ASSUME Inv, NEW h \in Handlers, RestoreConfig(h) PROVE Inv'
<1>1. /\ call[h] # Idle /\ call[h].pc = "restore" /\ conf' \in {conf, db}
      /\ UNCHANGED <<proc, mpid, pidfile, db, current, calls, crashes, torn>>
  BY DEF RestoreConfig, At
<1>2. TypeOK /\ Shape(call[h]) /\ (call[h].alone => call[h].op # "update")
  BY <1>1, Facts DEF AloneOK, Written
<1>3. CASE Return(h)
  <2>1. TypeOK'
    BY <1>1, <1>2, <1>3, ReturnEnds DEF TypeOK
  <2>2. NoStaleServer'
    BY <1>1, <1>2, <1>3, ReturnEnds, StillPending DEF Inv, NoStaleServer, Live, StopSteps
  <2> QED  BY <1>1, <1>3, <2>1, <2>2, <1>2, ReturnEnds, OneCall
<1>4. CASE Goto(h, "spawn")
  <2>1. TypeOK'
    BY <1>1, <1>2, <1>4, GotoMoves DEF TypeOK, StartSteps
  <2>2. NoStaleServer'
    BY <1>1, <1>2, <1>4, GotoMoves, StillPending
    DEF Inv, NoStaleServer, Live, StopSteps, StartSteps
  <2> QED  BY <1>1, <1>2, <1>4, <2>1, <2>2, GotoMoves, Facts, OneCall
           DEF Shape, AloneOK, Stopped, StopSteps, StartSteps
<1> QED  BY <1>3, <1>4 DEF RestoreConfig

(* A dnsmasq that stays has read what an update wrote last.                *)
LEMMA SpawnInv == ASSUME Inv, NEW h \in Handlers, Spawn(h) PROVE Inv'
<1> DEFINE stays == Usable(conf) /\ ~ \E q \in Pids : Live(q)
<1>1. /\ call[h] # Idle /\ call[h].pc = "spawn"
      /\ UNCHANGED <<mpid, conf, db, calls, crashes, torn>>
  BY DEF Spawn, At
<1>2. PICK p \in Pids :
         /\ proc[p] = "free"
         /\ proc' = [proc EXCEPT ![p] = IF stays THEN "dnsmasq" ELSE "zombie"]
         /\ current' = IF stays THEN current \cup {p} ELSE current \ {p}
         /\ pidfile' \in {pidfile} \cup (IF stays THEN {p} ELSE {})
         /\ call' = [call EXCEPT ![h].pc = "own", ![h].pid = p]
  BY DEF Spawn
<1> DEFINE d == [call[h] EXCEPT !.pc = "own", !.pid = p]
<1>3. TypeOK /\ Shape(call[h]) /\ call[h] \in Call
  BY <1>1, Facts
<1>4. call' = [call EXCEPT ![h] = d]
  BY <1>2
<1>5. /\ d \in Call /\ d.pc = "own" /\ d.pid = p /\ d.op = call[h].op /\ d.v = call[h].v
      /\ d.alone = call[h].alone
  BY <1>3 DEF Call, StartSteps
<1> HIDE DEF d, stays
<1>6. /\ call' \in [Handlers -> Call \cup {Idle}] /\ call'[h] = d
      /\ \A g \in Handlers \ {h} : call'[g] = call[g]
  BY <1>1, <1>3, <1>4, <1>5 DEF TypeOK
<1>7. TypeOK'
  BY <1>1, <1>2, <1>3, <1>6 DEF TypeOK
<1>8. /\ proc'[p] = IF stays THEN "dnsmasq" ELSE "zombie"
      /\ \A q \in Pids \ {p} : proc'[q] = proc[q]
  BY <1>2, <1>3 DEF TypeOK
<1>9. NoStaleServer'
  <2>1. UpdatePending => UpdatePending'
    BY <1>1, <1>6, StillPending DEF StopSteps
  <2>2. ASSUME NEW q \in Pids, Live(q)' PROVE q \in current' \/ UpdatePending' \/ torn'
    <3>1. CASE q = p
      BY <1>2, <1>8, <2>2, <3>1 DEF Live
    <3>2. CASE q # p
      <4>1. Live(q)
        BY <1>8, <2>2, <3>2 DEF Live
      <4> QED  BY <1>1, <1>2, <2>1, <3>2, <4>1 DEF Inv, NoStaleServer
    <3> QED  BY <3>1, <3>2
  <2> QED  BY <2>2 DEF NoStaleServer
<1>10. call[h].alone /\ call[h].op = "update" /\ call[h].v \notin Unusable => stays
  <2> SUFFICES ASSUME call[h].alone, call[h].op = "update", call[h].v \notin Unusable
               PROVE  stays
    OBVIOUS
  <2>1. Written(call[h])
    BY <1>1, Facts DEF AloneOK
  <2>2. NoServer /\ conf.iface = call[h].v /\ conf.range = call[h].v
    BY <1>1, <2>1 DEF Written
  <2> QED  BY <2>2 DEF stays, NoServer, Usable
<1>11. Shape(d)
  BY <1>1, <1>3, <1>5 DEF Shape, StopSteps, StartSteps
<1>12. call[h].alone => AloneOK(call[h])'
  <2> SUFFICES ASSUME call[h].alone PROVE AloneOK(call[h])'
    OBVIOUS
  <2>1. Stopped(call[h])'
    BY <1>5, <1>6 DEF Stopped
  <2>2. call[h].op = "update" => Written(call[h])'
    BY <1>1, <1>5, <1>6, Facts DEF AloneOK, Written
  <2>3. call[h].op = "update" /\ call[h].v \notin Unusable => Started(call[h])'
    BY <1>2, <1>5, <1>6, <1>8, <1>10 DEF Started
  <2> QED  BY <1>5, <1>6, <2>1, <2>2, <2>3 DEF AloneOK
<1> QED  BY <1>1, <1>5, <1>6, <1>7, <1>9, <1>11, <1>12, OneCall DEF Shape

LEMMA OwnPidInv == ASSUME Inv, NEW h \in Handlers, OwnPid(h) PROVE Inv'
<1>1. /\ call[h] # Idle /\ call[h].pc = "own" /\ Goto(h, "record") /\ mpid' = call[h].pid
      /\ UNCHANGED <<proc, pidfile, conf, db, current, calls, crashes, torn>>
  BY DEF OwnPid, At
<1>2. TypeOK /\ Shape(call[h]) /\ call[h].pid \in Pids \cup {None}
  BY <1>1, Facts
<1>3. TypeOK'
  BY <1>1, <1>2, GotoMoves DEF TypeOK, StartSteps
<1>4. NoStaleServer'
  BY <1>1, <1>2, GotoMoves, StillPending DEF Inv, NoStaleServer, Live, StopSteps, StartSteps
<1> QED  BY <1>1, <1>2, <1>3, <1>4, GotoMoves, Facts, OneCall
         DEF Shape, AloneOK, Stopped, Written, Started, StopSteps, StartSteps

LEMMA RecordPidInv == ASSUME Inv, NEW h \in Handlers, RecordPid(h) PROVE Inv'
<1>1. /\ call[h] # Idle /\ call[h].pc = "record" /\ Goto(h, "verify") /\ pidfile' = mpid
      /\ UNCHANGED <<proc, mpid, conf, db, current, calls, crashes, torn>>
  BY DEF RecordPid, At
<1>2. TypeOK /\ Shape(call[h])
  BY <1>1, Facts
<1>3. TypeOK'
  BY <1>1, <1>2, GotoMoves DEF TypeOK, StartSteps
<1>4. NoStaleServer'
  BY <1>1, <1>2, GotoMoves, StillPending DEF Inv, NoStaleServer, Live, StopSteps, StartSteps
<1> QED  BY <1>1, <1>2, <1>3, <1>4, GotoMoves, Facts, OneCall
         DEF Shape, AloneOK, Stopped, Written, Started, StopSteps, StartSteps

LEMMA VerifyPidInv == ASSUME Inv, NEW h \in Handlers, VerifyPid(h) PROVE Inv'
<1>1. /\ call[h] # Idle /\ call[h].pc = "verify"
      /\ UNCHANGED <<proc, pidfile, conf, db, current, calls, crashes, torn>>
  BY DEF VerifyPid, At
<1>2. TypeOK /\ Shape(call[h])
  BY <1>1, Facts
<1>3. CASE Exists(mpid)
  <2>1. Return(h) /\ UNCHANGED mpid
    BY <1>3 DEF VerifyPid
  <2>2. TypeOK'
    BY <1>1, <1>2, <2>1, ReturnEnds DEF TypeOK
  <2>3. NoStaleServer'
    BY <1>1, <1>2, <2>1, ReturnEnds, StillPending DEF Inv, NoStaleServer, Live, StopSteps
  <2> QED  BY <1>1, <1>2, <2>1, <2>2, <2>3, ReturnEnds, OneCall
<1>4. CASE ~ Exists(mpid)
  <2>1. Goto(h, "drop") /\ mpid' = None
    BY <1>4 DEF VerifyPid
  <2>2. TypeOK'
    BY <1>1, <1>2, <2>1, GotoMoves DEF TypeOK, StartSteps
  <2>3. NoStaleServer'
    BY <1>1, <1>2, <2>1, GotoMoves, StillPending
    DEF Inv, NoStaleServer, Live, StopSteps, StartSteps
  <2>4. call[h].alone /\ call[h].op = "update" => call[h].v \in Unusable
    BY <1>1, <1>4, Facts DEF AloneOK, Started, Exists
  <2> QED  BY <1>1, <1>2, <2>1, <2>2, <2>3, <2>4, GotoMoves, Facts, OneCall
           DEF Shape, AloneOK, Stopped, Written, Started, StopSteps, StartSteps
<1> QED  BY <1>3, <1>4

LEMMA DropPidFileInv == ASSUME Inv, NEW h \in Handlers, DropPidFile(h) PROVE Inv'
<1>1. /\ call[h] # Idle /\ call[h].pc = "drop" /\ Return(h) /\ pidfile' = None
      /\ UNCHANGED <<proc, mpid, conf, db, current, calls, crashes, torn>>
  BY DEF DropPidFile, At
<1>2. TypeOK
  BY <1>1, Facts
<1>3. TypeOK'
  BY <1>1, <1>2, ReturnEnds DEF TypeOK
<1>4. NoStaleServer'
  BY <1>1, <1>2, ReturnEnds, StillPending DEF Inv, NoStaleServer, Live, StopSteps
<1> QED  BY <1>1, <1>2, <1>3, <1>4, ReturnEnds, OneCall
-----------------------------------------------------------------------------
(* The end of the process, and the system around it.                       *)
LEMMA NewProcessInv ==
    ASSUME Inv, TypeOK, NewProcess, proc' \in [Pids -> {"free", "dnsmasq", "zombie", "other"}],
           pidfile' \in Pids \cup {None}, crashes' \in 0 .. MaxCrashes,
           \A p \in Pids : Live(p)' => Live(p)
    PROVE  Inv'
<1> DEFINE c == [op |-> "boot", pc |-> "check", v |-> None, pid |-> None, alone |-> FALSE]
<1>1. PICK b \in Handlers :
         call' = [h \in Handlers |-> IF h = b /\ Configured(db) THEN c ELSE Idle]
  BY DEF NewProcess
<1>2. c \in Call /\ c.op = "boot" /\ c.pc = "check" /\ c.alone = FALSE
  BY DEF Call, StartSteps
<1> HIDE DEF c
<1>3. /\ mpid' = None /\ torn' = (torn \/ UpdatePending)
      /\ UNCHANGED <<conf, db, current, calls>>
  BY DEF NewProcess
<1>4. UpdatePending \in BOOLEAN
  BY DEF UpdatePending
<1>5. TypeOK'
  BY <1>1, <1>2, <1>3, <1>4 DEF TypeOK
<1>6. NoStaleServer'
  BY <1>3 DEF Inv, NoStaleServer
<1>7. Shape(c)
  BY <1>2 DEF Shape, StopSteps, StartSteps
<1>8. ASSUME NEW h \in Handlers PROVE CallOK(h)'
  <2>1. call'[h] \in {c, Idle}
    BY <1>1
  <2> QED  BY <1>2, <1>7, <2>1 DEF CallOK, Shape
<1> QED  BY <1>5, <1>6, <1>8 DEF Inv

LEMMA ExitInv == ASSUME Inv, NEW h \in Handlers, Exit(h) PROVE Inv'
<1>1. NewProcess /\ UNCHANGED <<proc, pidfile, crashes>> /\ TypeOK
  BY DEF Exit, Inv
<1>2. \A p \in Pids : Live(p)' => Live(p)
  BY <1>1 DEF Live
<1> QED  BY <1>1, <1>2, NewProcessInv DEF TypeOK

LEMMA RestartInv == ASSUME Inv, Restart PROVE Inv'
<1>1. NewProcess /\ TypeOK /\ crashes' \in 0 .. MaxCrashes
  BY DEF Restart, Inv, TypeOK
<1>2. CASE UNCHANGED <<proc, pidfile>>
  <2>1. \A p \in Pids : Live(p)' => Live(p)
    BY <1>2 DEF Live
  <2> QED  BY <1>1, <1>2, <2>1, NewProcessInv DEF TypeOK
<1>3. CASE /\ proc' = [p \in Pids |-> IF Live(p) THEN "free" ELSE proc[p]]
           /\ pidfile' \in AfterExit(Pids)
  <2>1. proc' \in [Pids -> {"free", "dnsmasq", "zombie", "other"}]
    BY <1>1, <1>3 DEF TypeOK
  <2>2. \A p \in Pids : Live(p)' => Live(p)
    BY <1>3 DEF Live
  <2>3. pidfile' \in Pids \cup {None}
    BY <1>1, <1>3 DEF TypeOK, AfterExit
  <2> QED  BY <1>1, <2>1, <2>2, <2>3, NewProcessInv
<1> QED  BY <1>2, <1>3 DEF Restart

(* Another process than dnsmasq comes or goes.                             *)
LEMMA OtherProcess ==
    ASSUME Inv, NEW p \in Pids, proc[p] # "dnsmasq", NEW what \in {"free", "other"},
           proc' = [proc EXCEPT ![p] = what], current' \in {current, current \ {p}},
           UNCHANGED <<mpid, pidfile, conf, db, call, calls, crashes, torn>>
    PROVE  Inv'
<1> USE DEF Inv
<1>1. \A q \in Pids : /\ proc'[q] = "dnsmasq" <=> proc[q] = "dnsmasq"
                      /\ proc[q] = "dnsmasq" => (q \in current' <=> q \in current)
  BY DEF TypeOK
<1>2. TypeOK'
  BY DEF TypeOK
<1>3. UpdatePending' = UpdatePending
  BY DEF UpdatePending
<1>4. NoStaleServer'
  BY <1>1, <1>3 DEF NoStaleServer, Live
<1>5. ASSUME NEW h \in Handlers PROVE CallOK(h)'
  <2> SUFFICES ASSUME call[h] # Idle PROVE CallOK(h)'
    BY DEF CallOK
  <2>1. CallOK(h)
    OBVIOUS
  <2>2. NoServer => NoServer'
    BY <1>1 DEF NoServer, Live
  <2>3. AloneOK(call[h]) => AloneOK(call[h])'
    <3>1. Stopped(call[h]) => Stopped(call[h])'
      BY <2>2 DEF Stopped
    <3>2. Written(call[h]) => Written(call[h])'
      BY <2>2 DEF Written
    <3>3. Started(call[h]) => Started(call[h])'
      BY <1>1 DEF Started
    <3> QED  BY <3>1, <3>2, <3>3 DEF AloneOK
  <2> QED  BY <2>1, <2>3 DEF CallOK, Shape
<1> QED  BY <1>2, <1>4, <1>5

(* With the dnsmasq that dies, nobody is alone any more.                   *)
LEMMA DnsmasqDiesInv == ASSUME Inv, NEW p \in Pids, DnsmasqDies(p) PROVE Inv'
<1> USE DEF Inv
<1>1. /\ proc' = [proc EXCEPT ![p] = "zombie"] /\ call' = Disturbed /\ TypeOK
      /\ UNCHANGED <<mpid, pidfile, conf, db, current, calls, crashes, torn>>
  BY DEF DnsmasqDies
<1>2. TypeOK'
  BY <1>1, DisturbedCalls DEF TypeOK
<1>3. UpdatePending => UpdatePending'
  BY <1>1, DisturbedCalls DEF UpdatePending
<1>4. NoStaleServer'
  BY <1>1, <1>3 DEF NoStaleServer, Live, TypeOK
<1>5. ASSUME NEW h \in Handlers PROVE CallOK(h)'
  <2>1. call'[h] = Disturbed[h]
    BY <1>1
  <2>2. call'[h] # Idle => Shape(call[h]) /\ call[h] # Idle /\ call'[h].alone = FALSE
    BY <1>1, <2>1, DisturbedCalls DEF CallOK
  <2>3. call'[h] # Idle => Shape(call[h])'
    BY <1>1, <2>1, <2>2, DisturbedCalls DEF Shape
  <2> QED  BY <2>2, <2>3 DEF CallOK
<1> QED  BY <1>2, <1>4, <1>5

LEMMA ReloadInv == ASSUME Inv, Reload PROVE Inv'
<1>1. PICK p \in Pids \cup {None} :
         /\ p # None /\ proc[p] = "other" /\ proc' = [proc EXCEPT ![p] = "free"]
         /\ UNCHANGED <<mpid, pidfile, conf, db, current, call, calls, crashes, torn>>
  BY DEF Reload, Inv, TypeOK
<1> QED  BY <1>1, OtherProcess

LEMMA SystemInv == ASSUME Inv, System PROVE Inv'
<1>1. ASSUME NEW p \in Pids, Reap(p) PROVE Inv'
  BY <1>1, OtherProcess DEF Reap
<1>2. ASSUME NEW p \in Pids, OtherStarts(p) PROVE Inv'
  BY <1>2, OtherProcess DEF OtherStarts
<1>3. ASSUME NEW p \in Pids, OtherEnds(p) PROVE Inv'
  BY <1>3, OtherProcess DEF OtherEnds
<1> QED  BY <1>1, <1>2, <1>3, DnsmasqDiesInv, RestartInv DEF System

LEMMA ContinueInv == ASSUME Inv, NEW h \in Handlers, Continue(h) PROVE Inv'
BY SetInterfaceInv, SetRangeInv, WriteConfigInv, TermOwnInv, ForgetOwnInv, TermRecordedInv,
   RemovePidFileInv, PkillAndEndStopInv, CheckRunningInv, PkillStrayInv, StatConfigInv,
   RestoreConfigInv, SpawnInv, SpawnFailsInv, OwnPidInv, RecordPidInv, VerifyPidInv, DropPidFileInv,
   DrainInv, ExitInv
DEF Continue

LEMMA BeginsInv ==
    ASSUME Inv, NEW h \in Handlers,
           \/ StartCall(h) \/ StopCall(h) \/ ShutdownCall(h) \/ Sigterm(h)
           \/ \E v \in Versions : UpdateCall(h, v)
    PROVE  Inv'
<1>1. CASE StartCall(h)
  BY <1>1, BeginInv DEF StartCall
<1>2. CASE StopCall(h)
  BY <1>2, BeginInv DEF StopCall
<1>3. CASE ShutdownCall(h)
  BY <1>3, BeginInv DEF ShutdownCall
<1>4. CASE Sigterm(h)
  BY <1>4, BeginInv DEF Sigterm
<1>5. ASSUME NEW v \in Versions, UpdateCall(h, v) PROVE Inv'
  BY <1>5, BeginInv DEF UpdateCall
<1> QED  BY <1>1, <1>2, <1>3, <1>4, <1>5

LEMMA NextInv == Inv /\ [Next]_vars => Inv'
<1> SUFFICES ASSUME Inv, [Next]_vars PROVE Inv'
  OBVIOUS
<1>1. CASE UNCHANGED vars
  BY <1>1 DEF vars, Inv, TypeOK, NoStaleServer, Live, UpdatePending, CallOK, Shape, AloneOK,
              Stopped, Written, Started, NoServer
<1> QED  BY <1>1, BeginsInv, ContinueInv, ReloadInv, SystemInv DEF Next

LEMMA Invariance == Spec => []Inv
BY InitInv, NextInv, PTL DEF Spec
-----------------------------------------------------------------------------
(* Processes, files, the field and the calls keep their types.             *)
THEOREM ManagerTypes == Spec => []TypeOK
<1>1. Inv => TypeOK  BY DEF Inv
<1> QED  BY <1>1, Invariance, PTL

(* However calls interleave, no dnsmasq outlives the configuration it has. *)
THEOREM NoServerIsStale == Spec => []NoStaleServer
<1>1. Inv => NoStaleServer  BY DEF Inv
<1> QED  BY <1>1, Invariance, PTL

(* An engine that shuts down in order leaves nothing behind.               *)
THEOREM ShutdownIsClean == Spec => []ShutdownLeavesNothing
<1>1. Inv => ShutdownLeavesNothing
  BY DEF Inv, CallOK, AloneOK, Stopped, NoServer, ShutdownLeavesNothing, At
<1> QED  BY <1>1, Invariance, PTL

(* Who is alone ends by a step of its own.                                 *)
LEMMA EndsByItself ==
    ASSUME Inv, Next, NEW h \in Handlers, NEW op \in {"update", "stop"}, EndsAlone(h, op)
    PROVE  Continue(h) /\ AloneOK(call[h]) /\ Shape(call[h]) /\ TypeOK
<1>1. /\ call[h] # Idle /\ call[h].op = op /\ call[h].alone /\ call'[h] = Idle
      /\ crashes' = crashes
  BY DEF EndsAlone
<1>2. /\ TypeOK /\ Shape(call[h]) /\ AloneOK(call[h])
      /\ \A g \in Handlers \ {h} : call[g] = Idle
  BY <1>1 DEF Inv, CallOK
<1>3. ASSUME NEW g \in Handlers, Continue(g) PROVE g = h
  <2>1. call[g] # Idle
    BY <1>3 DEF Continue, At, SetInterface, SetRange, WriteConfig, TermOwn, ForgetOwn, TermRecorded,
                RemovePidFile, PkillAndEndStop, CheckRunning, PkillStray, StatConfig,
                RestoreConfig, Spawn, SpawnFails, OwnPid, RecordPid, VerifyPid, DropPidFile, Drain, Exit
  <2> QED  BY <1>2, <2>1
<1>4. ASSUME NEW g \in Handlers, NEW o, NEW pc, NEW v, Begin(g, o, pc, v) PROVE FALSE
  <2>1. g # h /\ call'[h] = Disturbed[h]
    BY <1>1, <1>4, <1>2, DisturbedCalls DEF Begin
  <2> QED  BY <1>1, <1>2, <2>1, DisturbedCalls
<1>5. ASSUME NEW g \in Handlers PROVE
        /\ ~ StartCall(g) /\ ~ StopCall(g) /\ ~ ShutdownCall(g) /\ ~ Sigterm(g)
        /\ \A v \in Versions : ~ UpdateCall(g, v)
  BY <1>4 DEF StartCall, StopCall, ShutdownCall, Sigterm, UpdateCall
<1>6. ~ System
  <2>1. ASSUME NEW p \in Pids, DnsmasqDies(p) PROVE FALSE
    BY <1>1, <1>2, <2>1, DisturbedCalls DEF DnsmasqDies
  <2>2. ~ Restart
    BY <1>1, <1>2 DEF Restart, TypeOK
  <2> QED  BY <1>1, <2>1, <2>2 DEF System, Reap, OtherStarts, OtherEnds
<1>7. ~ Reload
  BY <1>1 DEF Reload
<1> QED  BY <1>2, <1>3, <1>5, <1>6, <1>7 DEF Next

(* A step that goes on does not end.                                       *)
LEMMA EndingSteps ==
    ASSUME Inv, NEW h \in Handlers, Continue(h), call'[h] = Idle,
           call[h].op \in {"update", "stop"}
    PROVE  \/ call[h].op = "stop" /\ PkillAndEndStop(h)
           \/ CheckRunning(h) /\ IsRunning
           \/ At(h, "restore") \/ At(h, "spawn") \/ At(h, "drop")
           \/ VerifyPid(h) /\ UNCHANGED mpid
<1>1. call[h] # Idle
  BY DEF Continue, At, SetInterface, SetRange, WriteConfig, TermOwn, ForgetOwn, TermRecorded,
         RemovePidFile, PkillAndEndStop, CheckRunning, PkillStray, StatConfig,
         RestoreConfig, Spawn, SpawnFails, OwnPid, RecordPid, VerifyPid, DropPidFile, Drain, Exit
<1>2. TypeOK /\ Shape(call[h]) /\ call[h] \in Call
  BY <1>1, Facts
<1>3. \A p \in {"iface", "range", "conf", "drain", "exit"} \cup StopSteps \cup StartSteps : ~ Goto(h, p)
  BY <1>1, <1>2, GotoMoves
<1>4. ~ Spawn(h)
  <2>1. ASSUME NEW p \in Pids, call' = [call EXCEPT ![h].pc = "own", ![h].pid = p]
        PROVE  FALSE
    <3> DEFINE d == [call[h] EXCEPT !.pc = "own", !.pid = p]
    <3>1. d \in Call
      BY <1>2 DEF Call, StartSteps
    <3>2. call'[h] = d
      BY <1>2, <2>1 DEF TypeOK
    <3> QED  BY <3>1, <3>2
  <2> QED  BY <2>1 DEF Spawn
<1>5. ~ Drain(h) /\ ~ Exit(h)
  BY <1>2 DEF Shape, Drain, Exit, At
<1>6. ~ (SetInterface(h) \/ SetRange(h) \/ WriteConfig(h) \/ TermOwn(h) \/ ForgetOwn(h)
          \/ TermRecorded(h) \/ RemovePidFile(h) \/ PkillStray(h) \/ StatConfig(h)
          \/ OwnPid(h) \/ RecordPid(h))
  BY <1>3 DEF SetInterface, SetRange, WriteConfig, TermOwn, ForgetOwn, TermRecorded,
              RemovePidFile, PkillStray, StatConfig, OwnPid, RecordPid, StopSteps, StartSteps
<1>7. PkillAndEndStop(h) => call[h].op = "stop"
  BY <1>3 DEF PkillAndEndStop, StartSteps
<1>8. CheckRunning(h) => IsRunning
  BY <1>3 DEF CheckRunning, StartSteps
<1>9. VerifyPid(h) => UNCHANGED mpid
  BY <1>3 DEF VerifyPid, StartSteps
<1> QED  BY <1>4, <1>5, <1>6, <1>7, <1>8, <1>9 DEF Continue, RestoreConfig, SpawnFails, DropPidFile

(* An update that runs alone leaves the server that was asked for.         *)
THEOREM UpdatesRepair == Spec => UpdateRepairs
<1> DEFINE Repaired == \A h \in Handlers :
          EndsAlone(h, "update") /\ ~ At(h, "spawn") /\ call[h].v \notin Unusable =>
              /\ mpid' # None /\ proc'[mpid'] = "dnsmasq" /\ mpid' \in current'
              /\ pidfile' = mpid'
              /\ conf' = db' /\ db'.iface = call[h].v /\ db'.range = call[h].v
<1>1. Inv /\ [Next]_vars => [Repaired]_vars
  <2> SUFFICES ASSUME Inv, Next, NEW h \in Handlers, EndsAlone(h, "update"),
                      ~ At(h, "spawn"), call[h].v \notin Unusable
               PROVE  /\ mpid' # None /\ proc'[mpid'] = "dnsmasq" /\ mpid' \in current'
                      /\ pidfile' = mpid'
                      /\ conf' = db' /\ db'.iface = call[h].v /\ db'.range = call[h].v
    OBVIOUS
  <2>1. /\ call[h] # Idle /\ call[h].op = "update" /\ call'[h] = Idle /\ Continue(h)
        /\ Shape(call[h]) /\ Written(call[h]) /\ Started(call[h])
    BY EndsByItself DEF EndsAlone, AloneOK
  <2>2. ~ (CheckRunning(h) /\ IsRunning)
    BY <2>1 DEF CheckRunning, At, IsRunning, IsProcessAlive, Written
  <2>3. ~ At(h, "restore") /\ ~ At(h, "drop")
    BY <2>1 DEF At, Written, Started
  <2>4. VerifyPid(h) /\ UNCHANGED mpid
    BY <2>1, <2>2, <2>3, EndingSteps
  <2>5. call[h].pc = "verify" /\ UNCHANGED <<proc, pidfile, conf, db, current, mpid>>
    BY <2>4 DEF VerifyPid, At
  <2> QED  BY <2>1, <2>5, NoneIsNoPid DEF Written, Started
<1> QED  BY <1>1, Invariance, PTL DEF Spec, UpdateRepairs

(* A stop that runs alone leaves no dnsmasq and nothing that names one.    *)
THEOREM StopsStop == Spec => StopStops
<1> DEFINE Stops == \A h \in Handlers : EndsAlone(h, "stop") =>
          mpid' = None /\ pidfile' = None /\ \A p \in Pids : proc'[p] # "dnsmasq"
<1>1. Inv /\ [Next]_vars => [Stops]_vars
  <2> SUFFICES ASSUME Inv, Next, NEW h \in Handlers, EndsAlone(h, "stop")
               PROVE  mpid' = None /\ pidfile' = None /\ \A p \in Pids : proc'[p] # "dnsmasq"
    OBVIOUS
  <2>1. /\ call[h] # Idle /\ call[h].op = "stop" /\ call'[h] = Idle /\ Continue(h)
        /\ Shape(call[h]) /\ Stopped(call[h]) /\ TypeOK
    BY EndsByItself DEF EndsAlone, AloneOK
  <2>2. call[h].pc \notin StartSteps
    BY <2>1 DEF Shape
  <2>3. PkillAndEndStop(h)
    BY <2>1, <2>2, EndingSteps DEF CheckRunning, VerifyPid, At, StartSteps
  <2>4. /\ call[h].pc = "pkill" /\ UNCHANGED mpid
        /\ proc' = Terminated({p \in Pids : Live(p)}) /\ pidfile' \in AfterExit(Pids)
    BY <2>3 DEF PkillAndEndStop, At
  <2>5. mpid = None /\ pidfile = None
    BY <2>1, <2>4 DEF Stopped
  <2> QED  BY <2>1, <2>4, <2>5, PkillSteps DEF NoServer, Live
<1> QED  BY <1>1, Invariance, PTL DEF Spec, StopStops
=============================================================================
