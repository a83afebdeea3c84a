--------------------------- MODULE DownloadsProofs ---------------------------
(***************************************************************************)
(* Downloads for any files, workers, chunks and bounds: types, that        *)
(* "downloading" is said only while somebody downloads, and that a file no *)
(* two pulls wrote at once is whole where machines install from.           *)
(***************************************************************************)
EXTENDS Downloads, TLAPS

USE DownloadsAssumption

(* The handle of who copies is on a file that is there.                    *)
HandleOK(c, t, d) ==
    c.pc = "copy" => (c.handle = "tmp" => t # Absent) /\ (c.handle = "dest" => d # Absent)

(* wget and uploads only open, write and, an upload, remove.               *)
ShapeOK(c) ==
    /\ c.op # "pull" => c.pc \in {"create", "copy", "remove"}
    /\ c.pc \in {"stat", "set", "create"} => c.off = 0

Handles ==
    \A w \in Workers : call[w] # Idle =>
        HandleOK(call[w], tmp[call[w].f], dest[call[w].f]) /\ ShapeOK(call[w])

(* A pull that put its progress into the map.                              *)
Pulls(w, f) == call[w] # Idle /\ call[w].f = f /\ call[w].op = "pull"
                /\ call[w].pc \notin {"stat", "set"}

(* What the one pull of a file has written, unless it was deleted since.   *)
PullOK(c, t) ==
    /\ c.pc = "copy" => (c.handle = "tmp" /\ t = 1 .. c.off) \/ (c.handle = "gone" /\ t = Absent)
    /\ c.pc = "rename" => t \in {Absent, All}

(* A file that is not tainted has one pull at most and no other writer.    *)
CleanFile(f) ==
    /\ dest[f] \in {Absent, All}
    /\ \A v, w \in Workers : Pulls(v, f) /\ Pulls(w, f) => v = w
    /\ \A w \in Workers : Pulls(w, f) => PullOK(call[w], tmp[f])
    /\ \A w \in Workers : call[w] # Idle /\ call[w].f = f /\ call[w].op # "pull"
                              => call[w].pc = "create"

Clean == \A f \in Files \ tainted : CleanFile(f)

Inv == TypeOK /\ Handles /\ DownloadingIsAlive /\ Clean
-----------------------------------------------------------------------------
LEMMA CallFields ==
    ASSUME NEW c \in Call
    PROVE  /\ c.f \in Files /\ c.op \in {"pull", "wget", "upload"} /\ c.off \in 0 .. Chunks
           /\ c.pc \in {"stat", "set", "create", "copy", "rename", "ready", "remove", "fail"}
           /\ c.handle \in {"none", "tmp", "dest", "gone"}
BY DEF Call

(* A call that goes on: another place in the code, another handle.         *)
LEMMA CallMoves ==
    ASSUME NEW c \in Call,
           NEW p \in {"stat", "set", "create", "copy", "rename", "ready", "remove", "fail"},
           NEW h \in {"none", "tmp", "dest", "gone"}
    PROVE  /\ [c EXCEPT !.pc = p] \in Call
           /\ [c EXCEPT !.pc = p].f = c.f /\ [c EXCEPT !.pc = p].op = c.op
           /\ [c EXCEPT !.pc = p].pc = p /\ [c EXCEPT !.pc = p].off = c.off
           /\ [c EXCEPT !.pc = p].handle = c.handle
           /\ [c EXCEPT !.handle = h] \in Call
           /\ [c EXCEPT !.handle = h].f = c.f /\ [c EXCEPT !.handle = h].op = c.op
           /\ [c EXCEPT !.handle = h].pc = c.pc /\ [c EXCEPT !.handle = h].off = c.off
           /\ [c EXCEPT !.handle = h].handle = h
BY DEF Call

(* Goto moves the one call to another place.                               *)
LEMMA GotoMoves ==
    ASSUME TypeOK, NEW w \in Workers, call[w] # Idle,
           NEW p \in {"stat", "set", "create", "copy", "rename", "ready", "remove", "fail"},
           Goto(w, p)
    PROVE  /\ call' \in [Workers -> Call \cup {Idle}]
           /\ \A v \in Workers \ {w} : call'[v] = call[v]
           /\ call'[w] \in Call /\ call'[w].f = call[w].f /\ call'[w].op = call[w].op
           /\ call'[w].pc = p /\ call'[w].off = call[w].off /\ call'[w].handle = call[w].handle
<1>1. call[w] \in Call
  BY DEF TypeOK
<1>2. call' = [call EXCEPT ![w] = [call[w] EXCEPT !.pc = p]]
  BY DEF Goto
<1>3. [call[w] EXCEPT !.pc = p] \in Call
  BY <1>1, CallMoves
<1>4. /\ call' \in [Workers -> Call \cup {Idle}]
      /\ \A v \in Workers \ {w} : call'[v] = call[v]
      /\ call'[w] = [call[w] EXCEPT !.pc = p]
  BY <1>2, <1>3 DEF TypeOK
<1>5. /\ [call[w] EXCEPT !.pc = p].f = call[w].f /\ [call[w] EXCEPT !.pc = p].op = call[w].op
      /\ [call[w] EXCEPT !.pc = p].pc = p /\ [call[w] EXCEPT !.pc = p].off = call[w].off
      /\ [call[w] EXCEPT !.pc = p].handle = call[w].handle
  BY <1>1, CallMoves
<1> QED  BY <1>3, <1>4, <1>5

LEMMA ReturnEnds ==
    ASSUME TypeOK, NEW w \in Workers, Return(w)
    PROVE  /\ call' \in [Workers -> Call \cup {Idle}]
           /\ \A v \in Workers \ {w} : call'[v] = call[v]
           /\ call'[w] = Idle
BY DEF TypeOK, Return

(* Tell is seen by the files whose progress the worker still has.          *)
LEMMA TellSays ==
    ASSUME TypeOK, NEW w \in Workers, NEW s \in {"failed", "ready"}, Tell(w, s)
    PROVE  /\ progress' \in [Files -> [status : Statuses, by : Workers \cup {Idle}]]
           /\ \A f \in Files : progress'[f].status = "downloading" =>
                 progress'[f] = progress[f] /\ progress[f].by # w
<1>1. [status |-> s, by |-> Idle] \in [status : Statuses, by : Workers \cup {Idle}]
  BY DEF Statuses
<1> QED  BY <1>1 DEF TypeOK, Tell

(* New names for handles change nothing else about the calls.              *)
LEMMA RehandledCalls ==
    ASSUME TypeOK, NEW f, NEW new, NEW w \in Workers, NEW d,
           \A n \in DOMAIN new : new[n] \in {"none", "tmp", "dest", "gone"},
           d = Rehandled(f, new)[w]
    PROVE  /\ call[w] = Idle => d = Idle
           /\ call[w] # Idle =>
                /\ d \in Call
                /\ d.f = call[w].f /\ d.op = call[w].op /\ d.pc = call[w].pc
                /\ d.off = call[w].off
                /\ d.handle = IF call[w].f = f /\ call[w].handle \in DOMAIN new
                              THEN new[call[w].handle] ELSE call[w].handle
<1>1. CASE call[w] = Idle
  BY <1>1 DEF Rehandled
<1>2. CASE call[w] # Idle
  <2>1. call[w] \in Call
    BY <1>2 DEF TypeOK
  <2>2. CASE call[w].f = f /\ call[w].handle \in DOMAIN new
    <3>1. d = [call[w] EXCEPT !.handle = new[call[w].handle]]
      BY <1>2, <2>2 DEF Rehandled
    <3>2. new[call[w].handle] \in {"none", "tmp", "dest", "gone"}
      BY <2>2
    <3>3. /\ d \in Call /\ d.f = call[w].f /\ d.op = call[w].op /\ d.pc = call[w].pc
          /\ d.off = call[w].off /\ d.handle = new[call[w].handle]
      BY <2>1, <3>1, <3>2 DEF Call
    <3> QED  BY <1>2, <2>2, <3>3
  <2>3. CASE ~ (call[w].f = f /\ call[w].handle \in DOMAIN new)
    <3>1. d = call[w]
      BY <2>3 DEF Rehandled
    <3> QED  BY <1>2, <2>1, <2>3, <3>1
  <2> QED  BY <2>2, <2>3
<1> QED  BY <1>1, <1>2
-----------------------------------------------------------------------------
(* Steps that touch neither files nor taints: the call goes on or ends.    *)
LEMMA GoesOn ==
    ASSUME Inv, NEW w \in Workers, call[w] # Idle,
           NEW p \in {"set", "rename", "remove", "fail"}, Goto(w, p),
           UNCHANGED <<tmp, dest, progress, tainted>>,
           call[w].pc = IF p = "set" THEN "stat" ELSE call[w].pc,
           p # "set" => call[w].pc \notin {"stat", "set"},
           call[w].op # "pull" => call[w].pc = "copy" /\ p = "remove",
           p = "rename" /\ call[w].f \notin tainted => tmp[call[w].f] \in {Absent, All}
    PROVE  Handles' /\ DownloadingIsAlive' /\ Clean'
<1> USE DEF Inv
<1>1. /\ \A v \in Workers \ {w} : call'[v] = call[v]
      /\ call'[w] \in Call /\ call'[w] # Idle
      /\ call'[w].f = call[w].f /\ call'[w].op = call[w].op
      /\ call'[w].pc = p /\ call'[w].off = call[w].off /\ call'[w].handle = call[w].handle
  BY GotoMoves
<1>2. ShapeOK(call[w]) /\ HandleOK(call[w], tmp[call[w].f], dest[call[w].f])
  BY DEF Handles
<1>3. Handles'
  BY <1>1, <1>2 DEF Handles, ShapeOK, HandleOK
<1>4. DownloadingIsAlive'
  BY <1>1 DEF DownloadingIsAlive, Working
<1>5. Clean'
  <2> SUFFICES ASSUME NEW f \in Files \ tainted PROVE CleanFile(f)'
    BY DEF Clean
  <2>1. CleanFile(f)
    BY DEF Clean
  <2>2. \A v \in Workers : Pulls(v, f)' => Pulls(v, f)
    BY <1>1 DEF Pulls
  <2>3. ASSUME NEW v \in Workers, Pulls(v, f)' PROVE PullOK(call[v], tmp[f])'
    BY <1>1, <2>1, <2>2, <2>3 DEF PullOK, CleanFile, Pulls
  <2>4. ASSUME NEW v \in Workers, call'[v] # Idle, call'[v].f = f, call'[v].op # "pull"
        PROVE  call'[v].pc = "create"
    BY <1>1, <2>1, <2>4 DEF CleanFile
  <2> QED  BY <2>1, <2>2, <2>3, <2>4 DEF CleanFile
<1> QED  BY <1>3, <1>4, <1>5

LEMMA Ends ==
    ASSUME Inv, NEW w \in Workers, call[w] # Idle, Return(w), UNCHANGED <<tmp, dest, tainted>>,
           \A f \in Files : progress'[f].status = "downloading" =>
               progress'[f] = progress[f] /\ progress[f].by # w
    PROVE  Handles' /\ DownloadingIsAlive' /\ Clean'
<1> USE DEF Inv
<1>1. (\A v \in Workers \ {w} : call'[v] = call[v]) /\ call'[w] = Idle
  BY ReturnEnds
<1>2. Handles'
  BY <1>1 DEF Handles, HandleOK, ShapeOK
<1>3. DownloadingIsAlive'
  BY <1>1 DEF DownloadingIsAlive, Working
<1>4. Clean'
  <2> SUFFICES ASSUME NEW f \in Files \ tainted PROVE CleanFile(f)'
    BY DEF Clean
  <2>1. CleanFile(f)
    BY DEF Clean
  <2>2. \A v \in Workers : call'[v] # Idle => v # w /\ call'[v] = call[v]
    BY <1>1
  <2>3. \A v \in Workers : Pulls(v, f)' => Pulls(v, f) /\ call'[v] = call[v]
    BY <2>2 DEF Pulls
  <2> QED  BY <2>1, <2>2, <2>3 DEF CleanFile, PullOK
<1> QED  BY <1>2, <1>3, <1>4

(* Who is not a pull past its start has no progress that is downloading.   *)
LEMMA NotInProgress ==
    ASSUME DownloadingIsAlive, NEW w \in Workers, call[w].pc = "stat" \/ call[w].op # "pull"
    PROVE  \A f \in Files : progress[f].status = "downloading" => progress[f].by # w
BY DEF DownloadingIsAlive, Working
-----------------------------------------------------------------------------
LEMMA InitInv == Init => Inv
<1> SUFFICES ASSUME Init PROVE Inv
  OBVIOUS
<1>1. TypeOK
  BY DEF Init, TypeOK, Content, NoProgress, Statuses
<1> QED  BY <1>1 DEF Init, Inv, Handles, DownloadingIsAlive, Clean, CleanFile, Pulls, NoProgress

(* A request is new: it has written nothing and has no progress yet.       *)
LEMMA BeginInv ==
    ASSUME Inv, NEW w \in Workers, NEW f \in Files, UNCHANGED tainted,
           NEW op \in {"pull", "wget", "upload"}, NEW pc \in {"stat", "create"},
           op = "pull" <=> pc = "stat", Begin(w, op, pc, f)
    PROVE  Inv'
<1> USE DEF Inv
<1> DEFINE c == [op |-> op, f |-> f, pc |-> pc, off |-> 0, handle |-> "none"]
<1>1. c \in Call
  BY DEF Call
<1>2. /\ call[w] = Idle /\ UNCHANGED <<tmp, dest, progress, crashes>>
      /\ call' \in [Workers -> Call \cup {Idle}]
      /\ call'[w] = c /\ \A v \in Workers \ {w} : call'[v] = call[v]
  BY <1>1 DEF Begin, TypeOK
<1>3. c.op = op /\ c.pc = pc /\ c.off = 0 /\ c.handle = "none" /\ c.f = f
  OBVIOUS
<1> HIDE DEF c
<1>4. TypeOK'
  BY <1>2 DEF TypeOK
<1>5. Handles'
  BY <1>2, <1>3 DEF Handles, HandleOK, ShapeOK
<1>6. DownloadingIsAlive'
  BY <1>2 DEF DownloadingIsAlive, Working
<1>7. Clean'
  <2> SUFFICES ASSUME NEW g \in Files \ tainted PROVE CleanFile(g)'
    BY DEF Clean
  <2>1. CleanFile(g)
    BY DEF Clean
  <2>2. \A v \in Workers : Pulls(v, g)' => Pulls(v, g) /\ v # w
    BY <1>2, <1>3 DEF Pulls
  <2> QED  BY <1>2, <1>3, <2>1, <2>2 DEF CleanFile, PullOK
<1> QED  BY <1>4, <1>5, <1>6, <1>7

LEMMA StatDestInv == ASSUME Inv, NEW w \in Workers, StatDest(w) PROVE Inv'
<1>1. call[w] # Idle /\ call[w].pc = "stat" /\ UNCHANGED <<tmp, dest, progress, tainted>>
  BY DEF StatDest, At
<1>2. call[w].op = "pull"
  BY <1>1 DEF Inv, Handles, ShapeOK
<1>3. CASE Return(w)
  <2>1. TypeOK'
    BY <1>1, <1>3, ReturnEnds DEF Inv, TypeOK
  <2> QED  BY <1>1, <1>3, <2>1, Ends, NotInProgress DEF Inv
<1>4. CASE Goto(w, "set")
  <2>1. TypeOK'
    BY <1>1, <1>4, GotoMoves DEF Inv, TypeOK
  <2> QED  BY <1>1, <1>2, <1>4, <2>1, GoesOn DEF Inv
<1> QED  BY <1>3, <1>4 DEF StatDest

(* Whoever else is at work on the file taints it.                          *)
LEMMA SetProgressInv == ASSUME Inv, NEW w \in Workers, SetProgress(w) PROVE Inv'
<1> USE DEF Inv
<1> DEFINE f == call[w].f
<1>1. /\ call[w] # Idle /\ call[w].pc = "set" /\ UNCHANGED <<tmp, dest>> /\ Goto(w, "create")
      /\ progress' = [progress EXCEPT ![f] = [status |-> "downloading", by |-> w]]
      /\ tainted' = tainted \cup {g \in {f} : \E v \in Workers \ {w} : Working(v, f)}
  BY DEF SetProgress, At
<1>2. /\ f \in Files /\ call[w].op = "pull" /\ call[w].off = 0
      /\ HandleOK(call[w], tmp[f], dest[f])
  BY <1>1, CallFields DEF TypeOK, Handles, ShapeOK
<1>3. /\ call' \in [Workers -> Call \cup {Idle}] /\ call'[w] # Idle
      /\ \A v \in Workers \ {w} : call'[v] = call[v]
      /\ call'[w].f = f /\ call'[w].op = call[w].op /\ call'[w].pc = "create"
      /\ call'[w].off = 0 /\ call'[w].handle = call[w].handle
  BY <1>1, <1>2, GotoMoves
<1> HIDE DEF f
<1>4. TypeOK'
  <2>1. [status |-> "downloading", by |-> w] \in [status : Statuses, by : Workers \cup {Idle}]
    BY DEF Statuses
  <2> QED  BY <1>1, <1>2, <1>3, <2>1 DEF TypeOK
<1>5. Handles'
  BY <1>1, <1>2, <1>3 DEF Handles, HandleOK, ShapeOK
<1>6. DownloadingIsAlive'
  <2>1. progress'[f].by = w /\ \A g \in Files \ {f} : progress'[g] = progress[g]
    BY <1>1, <1>2 DEF TypeOK
  <2> SUFFICES ASSUME NEW g \in Files, progress'[g].status = "downloading"
               PROVE  \E v \in Workers : progress'[g].by = v /\ Working(v, g)'
                                         /\ call'[v].op = "pull"
    BY DEF DownloadingIsAlive
  <2>2. CASE g = f
    BY <1>2, <1>3, <2>1, <2>2 DEF Working
  <2>3. CASE g # f
    <3>1. PICK v \in Workers : progress[g].by = v /\ Working(v, g) /\ call[v].op = "pull"
      BY <2>1, <2>3 DEF DownloadingIsAlive
    <3>2. v # w
      BY <2>3, <3>1 DEF Working, f
    <3> QED  BY <1>3, <2>1, <2>3, <3>1, <3>2 DEF Working
  <2> QED  BY <2>2, <2>3
<1>7. Clean'
  <2> SUFFICES ASSUME NEW g \in Files \ tainted' PROVE CleanFile(g)'
    BY DEF Clean
  <2>1. g \notin tainted /\ CleanFile(g)
    BY <1>1 DEF Clean
  <2>2. g = f => \A v \in Workers \ {w} : ~ Pulls(v, g)'
    BY <1>1, <1>3 DEF Pulls, Working
  <2>3. \A v \in Workers : Pulls(v, g)' /\ v # w => Pulls(v, g) /\ call'[v] = call[v]
    BY <1>3 DEF Pulls
  <2>4. Pulls(w, g)' => g = f
    BY <1>3 DEF Pulls
  <2> QED  BY <1>1, <1>2, <1>3, <2>1, <2>2, <2>3, <2>4 DEF CleanFile, PullOK
<1> QED  BY <1>4, <1>5, <1>6, <1>7
LEMMA GetFailsInv == ASSUME Inv, NEW w \in Workers, GetFails(w) PROVE Inv'
<1>1. call[w] # Idle /\ Return(w) /\ Tell(w, "failed") /\ UNCHANGED <<tmp, dest, tainted>>
  BY DEF GetFails, At
<1>2. TypeOK'
  BY <1>1, ReturnEnds, TellSays DEF Inv, TypeOK
<1> QED  BY <1>1, <1>2, Ends, TellSays DEF Inv

LEMMA FailInv == ASSUME Inv, NEW w \in Workers, Fail(w) PROVE Inv'
<1>1. call[w] # Idle /\ Return(w) /\ Tell(w, "failed") /\ UNCHANGED <<tmp, dest, tainted>>
  BY DEF Fail, At
<1>2. TypeOK'
  BY <1>1, ReturnEnds, TellSays DEF Inv, TypeOK
<1> QED  BY <1>1, <1>2, Ends, TellSays DEF Inv

LEMMA ReadyInv == ASSUME Inv, NEW w \in Workers, Ready(w) PROVE Inv'
<1>1. call[w] # Idle /\ Return(w) /\ Tell(w, "ready") /\ UNCHANGED <<tmp, dest, tainted>>
  BY DEF Ready, At
<1>2. TypeOK'
  BY <1>1, ReturnEnds, TellSays DEF Inv, TypeOK
<1> QED  BY <1>1, <1>2, Ends, TellSays DEF Inv

(* A pull that has all of the body renames, unless its file was deleted.   *)
LEMMA EndCopyInv == ASSUME Inv, NEW w \in Workers, EndCopy(w) PROVE Inv'
<1>1. /\ call[w] # Idle /\ call[w].pc = "copy" /\ call[w].off = Chunks
      /\ UNCHANGED <<tmp, dest, progress, tainted>>
  BY DEF EndCopy, At
<1>2. CASE call[w].op = "pull"
  <2>1. Goto(w, "rename")
    BY <1>2 DEF EndCopy
  <2>2. call[w].f \notin tainted => tmp[call[w].f] \in {Absent, All}
    <3>1. call[w].f \in Files
      BY <1>1, CallFields DEF Inv, TypeOK
    <3> QED  BY <1>1, <1>2, <3>1 DEF Inv, Clean, CleanFile, Pulls, PullOK, All
  <2>3. TypeOK'
    BY <1>1, <2>1, GotoMoves DEF Inv, TypeOK
  <2> QED  BY <1>1, <1>2, <2>1, <2>2, <2>3, GoesOn DEF Inv
<1>3. CASE call[w].op # "pull"
  <2>1. Return(w)
    BY <1>3 DEF EndCopy
  <2>2. TypeOK'
    BY <1>1, <2>1, ReturnEnds DEF Inv, TypeOK
  <2> QED  BY <1>1, <1>3, <2>1, <2>2, Ends, NotInProgress DEF Inv
<1> QED  BY <1>2, <1>3

(* A file whose body broke off is tainted, and the others are as before.   *)
LEMMA EndsEarlyInv == ASSUME Inv, NEW w \in Workers, EndsEarly(w) PROVE Inv'
<1> USE DEF Inv
<1>1. /\ call[w] # Idle /\ call[w].pc = "copy" /\ call[w].op = "pull" /\ Goto(w, "rename")
      /\ tainted' = tainted \cup {call[w].f}
      /\ UNCHANGED <<tmp, dest, progress, calls, crashes>>
  BY DEF EndsEarly, At
<1>2. /\ call' \in [Workers -> Call \cup {Idle}]
      /\ \A v \in Workers \ {w} : call'[v] = call[v]
      /\ call'[w] \in Call /\ call'[w] # Idle
      /\ call'[w].f = call[w].f /\ call'[w].op = call[w].op
      /\ call'[w].pc = "rename" /\ call'[w].off = call[w].off
      /\ call'[w].handle = call[w].handle
  BY <1>1, GotoMoves
<1>3. TypeOK'
  BY <1>1, <1>2, CallFields DEF TypeOK
<1>4. Handles'
  <2>1. ShapeOK(call[w]) /\ HandleOK(call[w], tmp[call[w].f], dest[call[w].f])
    BY <1>1 DEF Handles
  <2> QED  BY <1>1, <1>2, <2>1 DEF Handles, ShapeOK, HandleOK
<1>5. DownloadingIsAlive'
  BY <1>1, <1>2 DEF DownloadingIsAlive, Working
<1>6. Clean'
  <2> SUFFICES ASSUME NEW f \in Files \ tainted' PROVE CleanFile(f)'
    BY DEF Clean
  <2>1. f \notin tainted /\ f # call[w].f /\ CleanFile(f)
    BY <1>1 DEF Clean
  <2>2. \A v \in Workers : Pulls(v, f)' => Pulls(v, f) /\ call'[v] = call[v]
    BY <1>2, <2>1 DEF Pulls
  <2>3. ASSUME NEW v \in Workers, call'[v] # Idle, call'[v].f = f, call'[v].op # "pull"
        PROVE  call'[v].pc = "create"
    BY <1>1, <1>2, <2>1, <2>3 DEF CleanFile
  <2> QED  BY <1>1, <2>1, <2>2, <2>3 DEF CleanFile, PullOK
<1> QED  BY <1>3, <1>4, <1>5, <1>6

LEMMA CopyFailsInv == ASSUME Inv, NEW w \in Workers, CopyFails(w) PROVE Inv'
<1>1. call[w] # Idle /\ call[w].pc = "copy" /\ UNCHANGED <<tmp, dest, progress, tainted>>
  BY DEF CopyFails, At
<1>2. CASE call[w].op = "wget"
  <2>1. Return(w)
    BY <1>2 DEF CopyFails
  <2>2. TypeOK'
    BY <1>1, <2>1, ReturnEnds DEF Inv, TypeOK
  <2> QED  BY <1>1, <1>2, <2>1, <2>2, Ends, NotInProgress DEF Inv
<1>3. CASE call[w].op # "wget"
  <2>1. Goto(w, "remove")
    BY <1>3 DEF CopyFails
  <2>2. TypeOK'
    BY <1>1, <2>1, GotoMoves DEF Inv, TypeOK
  <2> QED  BY <1>1, <2>1, <2>2, GoesOn DEF Inv
<1> QED  BY <1>2, <1>3

LEMMA CreateTempInv == ASSUME Inv, NEW w \in Workers, CreateTemp(w) PROVE Inv'
<1> USE DEF Inv
<1> DEFINE f == call[w].f
           c == [call[w] EXCEPT !.pc = "copy", !.handle = "tmp"]
<1>1. /\ call[w] # Idle /\ call[w].pc = "create" /\ call[w].op = "pull"
      /\ tmp' = [tmp EXCEPT ![f] = {}] /\ call' = [call EXCEPT ![w] = c]
      /\ UNCHANGED <<dest, progress, tainted>>
  BY DEF CreateTemp, At
<1>2. call[w] \in Call /\ f \in Files /\ call[w].off = 0
  BY <1>1, CallFields DEF TypeOK, Handles, ShapeOK
<1>3. /\ c \in Call /\ c.f = f /\ c.op = "pull" /\ c.pc = "copy" /\ c.off = 0
      /\ c.handle = "tmp"
  BY <1>1, <1>2 DEF Call
<1> HIDE DEF f, c
<1>4. /\ call' \in [Workers -> Call \cup {Idle}] /\ call'[w] = c
      /\ \A v \in Workers \ {w} : call'[v] = call[v]
  BY <1>1, <1>3 DEF TypeOK
<1>5. tmp'[f] = {} /\ (\A g \in Files \ {f} : tmp'[g] = tmp[g]) /\ {} # Absent
  BY <1>1, <1>2 DEF TypeOK
<1>6. TypeOK'
  BY <1>1, <1>2, <1>4 DEF TypeOK, Content
<1>7. Handles'
  <2> SUFFICES ASSUME NEW v \in Workers, call'[v] # Idle
               PROVE  HandleOK(call[v], tmp[call[v].f], dest[call[v].f])' /\ ShapeOK(call[v])'
    BY DEF Handles
  <2>1. call'[v].f \in Files
    BY <1>3, <1>4, CallFields DEF TypeOK
  <2> QED  BY <1>1, <1>3, <1>4, <1>5, <2>1 DEF Handles, HandleOK, ShapeOK
<1>8. DownloadingIsAlive'
  BY <1>1, <1>3, <1>4 DEF DownloadingIsAlive, Working, f
<1>9. Clean'
  <2> SUFFICES ASSUME NEW g \in Files \ tainted PROVE CleanFile(g)'
    BY <1>1 DEF Clean
  <2>1. CleanFile(g)
    BY DEF Clean
  <2>2. \A v \in Workers : Pulls(v, g)' => Pulls(v, g)
    BY <1>1, <1>3, <1>4 DEF Pulls, f
  <2>3. ASSUME NEW v \in Workers, Pulls(v, g)' PROVE PullOK(call[v], tmp[g])'
    <3>1. CASE g = f
      <4>1. v = w
        BY <1>1, <2>1, <2>2, <2>3, <3>1 DEF CleanFile, Pulls, f
      <4>2. 1 .. c.off = {}
        BY <1>3
      <4>3. call'[v] = c /\ tmp'[g] = {}
        BY <1>4, <1>5, <3>1, <4>1
      <4> QED  BY <1>3, <4>2, <4>3 DEF PullOK
    <3>2. CASE g # f
      <4>1. v # w
        BY <1>3, <1>4, <2>3, <3>2 DEF Pulls
      <4>2. call'[v] = call[v] /\ tmp'[g] = tmp[g]
        BY <1>4, <1>5, <3>2, <4>1
      <4>3. PullOK(call[v], tmp[g])
        BY <2>1, <2>2, <2>3 DEF CleanFile
      <4> QED  BY <4>2, <4>3 DEF PullOK
    <3> QED  BY <3>1, <3>2
  <2> QED  BY <1>1, <1>3, <1>4, <2>1, <2>2, <2>3 DEF CleanFile
<1> QED  BY <1>6, <1>7, <1>8, <1>9

(* Writing to the name machines install from taints it.                    *)
LEMMA CreateDestInv == ASSUME Inv, NEW w \in Workers, CreateDest(w) PROVE Inv'
<1> USE DEF Inv
<1> DEFINE f == call[w].f
           c == [call[w] EXCEPT !.pc = "copy", !.handle = "dest"]
<1>1. /\ call[w] # Idle /\ call[w].pc = "create" /\ call[w].op # "pull"
      /\ dest' = [dest EXCEPT ![f] = {}] /\ call' = [call EXCEPT ![w] = c]
      /\ tainted' = tainted \cup {f} /\ UNCHANGED <<tmp, progress>>
  BY DEF CreateDest, At
<1>2. call[w] \in Call /\ f \in Files
  BY <1>1, CallFields DEF TypeOK
<1>3. /\ c \in Call /\ c.f = f /\ c.op = call[w].op /\ c.pc = "copy" /\ c.handle = "dest"
  BY <1>1, <1>2 DEF Call
<1> HIDE DEF f, c
<1>4. /\ call' \in [Workers -> Call \cup {Idle}] /\ call'[w] = c
      /\ \A v \in Workers \ {w} : call'[v] = call[v]
  BY <1>1, <1>3 DEF TypeOK
<1>5. dest'[f] = {} /\ (\A g \in Files \ {f} : dest'[g] = dest[g]) /\ {} # Absent
  BY <1>1, <1>2 DEF TypeOK
<1>6. TypeOK'
  BY <1>1, <1>2, <1>4 DEF TypeOK, Content
<1>7. Handles'
  <2> SUFFICES ASSUME NEW v \in Workers, call'[v] # Idle
               PROVE  HandleOK(call[v], tmp[call[v].f], dest[call[v].f])' /\ ShapeOK(call[v])'
    BY DEF Handles
  <2>1. call'[v].f \in Files
    BY <1>3, <1>4, CallFields DEF TypeOK
  <2> QED  BY <1>1, <1>3, <1>4, <1>5, <2>1 DEF Handles, HandleOK, ShapeOK
<1>8. DownloadingIsAlive'
  BY <1>1, <1>3, <1>4 DEF DownloadingIsAlive, Working, f
<1>9. Clean'
  <2> SUFFICES ASSUME NEW g \in Files \ tainted' PROVE CleanFile(g)'
    BY DEF Clean
  <2>1. CleanFile(g) /\ g # f
    BY <1>1 DEF Clean
  <2>2. \A v \in Workers : call'[v] # Idle /\ call'[v].f = g => v # w /\ call'[v] = call[v]
    BY <1>3, <1>4, <2>1
  <2>3. \A v \in Workers : Pulls(v, g)' => Pulls(v, g) /\ call'[v] = call[v]
    BY <2>2 DEF Pulls
  <2> QED  BY <1>1, <1>5, <2>1, <2>2, <2>3 DEF CleanFile, PullOK
<1> QED  BY <1>6, <1>7, <1>8, <1>9
(* The next chunk of an untainted file goes to its temporary file, or to   *)
(* one that has no name any more.                                          *)
LEMMA CopyChunkInv == ASSUME Inv, NEW w \in Workers, CopyChunk(w) PROVE Inv'
<1> USE DEF Inv
<1> DEFINE f == call[w].f
           n == call[w].off + 1
           c == [call[w] EXCEPT !.off = n]
<1>1. /\ call[w] # Idle /\ call[w].pc = "copy" /\ call[w].off < Chunks
      /\ tmp' = IF call[w].handle = "tmp" THEN [tmp EXCEPT ![f] = tmp[f] \cup {n}] ELSE tmp
      /\ dest' = IF call[w].handle = "dest" THEN [dest EXCEPT ![f] = dest[f] \cup {n}] ELSE dest
      /\ call' = [call EXCEPT ![w] = c]
      /\ UNCHANGED <<progress, tainted>>
  BY DEF CopyChunk, At
<1>2. /\ call[w] \in Call /\ f \in Files /\ n \in All /\ n \in 0 .. Chunks
      /\ HandleOK(call[w], tmp[f], dest[f]) /\ ShapeOK(call[w])
  BY <1>1, CallFields DEF TypeOK, Handles, All
<1>3. /\ c \in Call /\ c.f = f /\ c.op = call[w].op /\ c.pc = "copy" /\ c.off = n
      /\ c.handle = call[w].handle
  BY <1>1, <1>2 DEF Call
<1>4. call[w].off \in 0 .. Chunks /\ 1 .. n = (1 .. call[w].off) \cup {n}
  BY <1>2, CallFields
<1>5. /\ tmp[f] # Absent => (tmp[f] \cup {n}) \in SUBSET All
      /\ dest[f] # Absent => (dest[f] \cup {n}) \in SUBSET All
  BY <1>2 DEF TypeOK, Content
<1> HIDE DEF f, c, n
<1>6. /\ call' \in [Workers -> Call \cup {Idle}] /\ call'[w] = c
      /\ \A v \in Workers \ {w} : call'[v] = call[v]
  BY <1>1, <1>3 DEF TypeOK
<1>7. /\ tmp' \in [Files -> Content] /\ \A g \in Files : tmp[g] # Absent => tmp'[g] # Absent
      /\ \A g \in Files : g # f \/ call[w].handle # "tmp" => tmp'[g] = tmp[g]
      /\ call[w].handle = "tmp" => tmp'[f] = tmp[f] \cup {n}
  <2>1. CASE call[w].handle = "tmp"
    <3>1. tmp[f] \cup {n} \in SUBSET All /\ tmp[f] \cup {n} # Absent
      BY <1>1, <1>2, <1>5, <2>1 DEF HandleOK, All
    <3> QED  BY <1>1, <1>2, <2>1, <3>1 DEF TypeOK, Content
  <2>2. CASE call[w].handle # "tmp"
    BY <1>1, <2>2 DEF TypeOK
  <2> QED  BY <2>1, <2>2
<1>8. /\ dest' \in [Files -> Content] /\ \A g \in Files : dest[g] # Absent => dest'[g] # Absent
      /\ \A g \in Files : g # f \/ call[w].handle # "dest" => dest'[g] = dest[g]
  <2>1. CASE call[w].handle = "dest"
    <3>1. dest[f] \cup {n} \in SUBSET All /\ dest[f] \cup {n} # Absent
      BY <1>1, <1>2, <1>5, <2>1 DEF HandleOK, All
    <3> QED  BY <1>1, <1>2, <2>1, <3>1 DEF TypeOK, Content
  <2>2. CASE call[w].handle # "dest"
    BY <1>1, <2>2 DEF TypeOK
  <2> QED  BY <2>1, <2>2
<1>9. TypeOK'
  BY <1>1, <1>6, <1>7, <1>8 DEF TypeOK
<1>10. Handles'
  <2> SUFFICES ASSUME NEW v \in Workers, call'[v] # Idle
               PROVE  HandleOK(call[v], tmp[call[v].f], dest[call[v].f])' /\ ShapeOK(call[v])'
    BY DEF Handles
  <2>1. call'[v].f \in Files
    BY <1>2, <1>3, <1>6, CallFields DEF TypeOK
  <2>2. CASE v = w
    BY <1>1, <1>2, <1>3, <1>6, <1>7, <1>8, <2>2 DEF HandleOK, ShapeOK
  <2>3. CASE v # w
    <3>1. call'[v] = call[v]
      BY <1>6, <2>3
    <3>2. HandleOK(call[v], tmp[call[v].f], dest[call[v].f]) /\ ShapeOK(call[v])
      BY <3>1 DEF Handles
    <3> QED  BY <1>7, <1>8, <2>1, <3>1, <3>2 DEF HandleOK, ShapeOK
  <2> QED  BY <2>2, <2>3
<1>11. DownloadingIsAlive'
  BY <1>1, <1>3, <1>6 DEF DownloadingIsAlive, Working, f
<1>12. Clean'
  <2> SUFFICES ASSUME NEW g \in Files \ tainted PROVE CleanFile(g)'
    BY <1>1 DEF Clean
  <2>1. CleanFile(g)
    BY DEF Clean
  <2>2. \A v \in Workers : Pulls(v, g)' => Pulls(v, g)
    BY <1>1, <1>3, <1>6 DEF Pulls, f
  <2>3. g = f => Pulls(w, g) /\ PullOK(call[w], tmp[g])
    <3>1. g = f => Pulls(w, g)
      BY <1>1, <2>1 DEF CleanFile, Pulls, f
    <3> QED  BY <2>1, <3>1 DEF CleanFile
  <2>4. dest'[g] = dest[g]
    BY <1>1, <1>8, <2>3 DEF PullOK
  <2>5. ASSUME NEW v \in Workers, Pulls(v, g)' PROVE PullOK(call[v], tmp[g])'
    <3>1. CASE g = f
      <4>1. v = w
        BY <2>1, <2>2, <2>3, <2>5, <3>1 DEF CleanFile
      <4> QED  BY <1>1, <1>3, <1>4, <1>6, <1>7, <2>3, <3>1, <4>1 DEF PullOK
    <3>2. CASE g # f
      <4>1. v # w
        BY <1>3, <1>6, <2>5, <3>2 DEF Pulls
      <4>2. call'[v] = call[v] /\ tmp'[g] = tmp[g]
        BY <1>6, <1>7, <3>2, <4>1
      <4>3. PullOK(call[v], tmp[g])
        BY <2>1, <2>2, <2>5 DEF CleanFile
      <4> QED  BY <4>2, <4>3 DEF PullOK
    <3> QED  BY <3>1, <3>2
  <2>6. ASSUME NEW v \in Workers, call'[v] # Idle, call'[v].f = g, call'[v].op # "pull"
        PROVE  call'[v].pc = "create"
    <3>1. v # w
      BY <1>3, <1>6, <2>3, <2>6 DEF Pulls
    <3> QED  BY <1>6, <2>1, <2>6, <3>1 DEF CleanFile
  <2> QED  BY <2>1, <2>2, <2>4, <2>5, <2>6 DEF CleanFile
<1> QED  BY <1>9, <1>10, <1>11, <1>12
(* A pull that failed removes its temporary file; an upload, what it wrote.*)
LEMMA RemoveFileInv == ASSUME Inv, NEW w \in Workers, RemoveFile(w) PROVE Inv'
<1> USE DEF Inv
<1> DEFINE f == call[w].f
           name == IF call[w].op = "pull" THEN "tmp" ELSE "dest"
           new == [n \in {name} |-> "gone"]
           d == [call[w] EXCEPT !.pc = "fail"]
           H == Rehandled(f, new)
<1>1. /\ call[w] # Idle /\ call[w].pc = "remove" /\ UNCHANGED <<progress, tainted>>
      /\ call' = [H EXCEPT ![w] = IF call[w].op = "pull" THEN d ELSE Idle]
      /\ name = "tmp" => tmp' = [tmp EXCEPT ![f] = Absent] /\ UNCHANGED dest
      /\ name = "dest" => dest' = [dest EXCEPT ![f] = Absent] /\ UNCHANGED tmp
      /\ name \in {"tmp", "dest"}
      /\ DOMAIN new = {name} /\ new[name] = "gone"
  BY DEF RemoveFile, At
<1>2. call[w] \in Call /\ f \in Files /\ ShapeOK(call[w])
  BY <1>1, CallFields DEF TypeOK, Handles
<1>3. /\ d \in Call /\ d.f = f /\ d.op = call[w].op /\ d.pc = "fail"
      /\ d.handle = call[w].handle /\ d.off = call[w].off
  BY <1>2, CallMoves
<1>4. \A v \in Workers :
         /\ call[v] = Idle => H[v] = Idle
         /\ call[v] # Idle =>
              /\ H[v] \in Call
              /\ H[v].f = call[v].f /\ H[v].op = call[v].op /\ H[v].pc = call[v].pc
              /\ H[v].off = call[v].off
              /\ H[v].handle = IF call[v].f = f /\ call[v].handle = name
                               THEN "gone" ELSE call[v].handle
  <2> TAKE v \in Workers
  <2> DEFINE e == H[v]
  <2>1. \A n \in DOMAIN new : new[n] \in {"none", "tmp", "dest", "gone"}
    BY <1>1
  <2>2. e = Rehandled(f, new)[v]
    OBVIOUS
  <2> HIDE DEF e, f, new, name
  <2> QED  BY <1>1, <2>1, <2>2, RehandledCalls DEF e
<1>5. DOMAIN H = Workers
  BY DEF Rehandled
<1> HIDE DEF f, name, new, d, H
<1>6. /\ \A v \in Workers \ {w} : call'[v] = H[v]
      /\ call'[w] = IF call[w].op = "pull" THEN d ELSE Idle
      /\ DOMAIN call' = Workers
  BY <1>1, <1>5
<1>7. call' \in [Workers -> Call \cup {Idle}]
  <2>1. call' = [v \in Workers |-> call'[v]]
    BY <1>1, <1>5, <1>6
  <2>2. \A v \in Workers : call'[v] \in Call \cup {Idle}
    BY <1>3, <1>4, <1>6
  <2> QED  BY <2>1, <2>2
<1>8. TypeOK'
  BY <1>1, <1>2, <1>7 DEF TypeOK, Content
<1>9. /\ \A v \in Workers \ {w} :
            /\ (call'[v] = Idle) = (call[v] = Idle)
            /\ call[v] # Idle =>
                 /\ call'[v].f = call[v].f /\ call'[v].op = call[v].op
                 /\ call'[v].pc = call[v].pc /\ call'[v].off = call[v].off
                 /\ call'[v].handle = IF call[v].f = f /\ call[v].handle = name
                                      THEN "gone" ELSE call[v].handle
      /\ call'[w] # Idle => call[w].op = "pull" /\ call'[w] = d
  BY <1>4, <1>6
<1>10. Handles'
  <2> SUFFICES ASSUME NEW v \in Workers, call'[v] # Idle
               PROVE  HandleOK(call[v], tmp[call[v].f], dest[call[v].f])' /\ ShapeOK(call[v])'
    BY DEF Handles
  <2>1. CASE v = w
    BY <1>2, <1>3, <1>9, <2>1 DEF HandleOK, ShapeOK
  <2>2. CASE v # w
    <3>1. HandleOK(call[v], tmp[call[v].f], dest[call[v].f]) /\ ShapeOK(call[v])
      BY <1>9, <2>2 DEF Handles
    <3>2. call[v] \in Call /\ call[v].f \in Files
      BY <1>9, <2>2, CallFields DEF TypeOK
    <3>3. /\ call[v].f # f \/ name = "dest" => tmp'[call[v].f] = tmp[call[v].f]
          /\ call[v].f # f \/ name = "tmp" => dest'[call[v].f] = dest[call[v].f]
      BY <1>1, <3>2 DEF TypeOK
    <3> QED  BY <1>1, <1>9, <2>2, <3>1, <3>3 DEF HandleOK, ShapeOK
  <2> QED  BY <2>1, <2>2
<1>11. DownloadingIsAlive'
  <2> SUFFICES ASSUME NEW g \in Files, progress[g].status = "downloading"
               PROVE  \E v \in Workers : progress[g].by = v /\ Working(v, g)'
                                         /\ call'[v].op = "pull"
    BY <1>1 DEF DownloadingIsAlive
  <2>1. PICK v \in Workers : progress[g].by = v /\ Working(v, g) /\ call[v].op = "pull"
    BY DEF DownloadingIsAlive
  <2>2. CASE v = w
    BY <1>3, <1>6, <2>1, <2>2, CallFields DEF Working, f
  <2>3. CASE v # w
    BY <1>9, <2>1, <2>3 DEF Working
  <2> QED  BY <2>2, <2>3
<1>12. Clean'
  <2> SUFFICES ASSUME NEW g \in Files \ tainted PROVE CleanFile(g)'
    BY <1>1 DEF Clean
  <2>1. CleanFile(g)
    BY DEF Clean
  <2>2. \A v \in Workers : Pulls(v, g)' =>
           Pulls(v, g) /\ call'[v].pc = IF v = w THEN "fail" ELSE call[v].pc
    BY <1>1, <1>3, <1>9 DEF Pulls, f
  <2>3. dest'[g] \in {Absent, All}
    BY <1>1, <1>2, <2>1 DEF CleanFile, TypeOK
  <2>4. ASSUME NEW v \in Workers, Pulls(v, g)' PROVE PullOK(call[v], tmp[g])'
    <3>1. CASE v = w
      BY <2>2, <2>4, <3>1 DEF PullOK
    <3>2. CASE v # w
      <4>1. PullOK(call[v], tmp[g]) /\ call[v] # Idle /\ call[v].f = g /\ call[v].op = "pull"
        BY <2>1, <2>2, <2>4 DEF CleanFile, Pulls
      <4>2. g # f \/ name = "dest"
        BY <1>1, <2>1, <2>2, <2>4, <3>2 DEF CleanFile, Pulls, f, name
      <4>3. tmp'[g] = tmp[g] /\ (g = f => name = "dest")
        BY <1>1, <4>2 DEF TypeOK
      <4>4. call'[v].handle = call[v].handle \/ (call[v].handle = "dest" /\ g = f)
        BY <1>1, <1>9, <3>2, <4>1, <4>3
      <4> QED  BY <1>9, <3>2, <4>1, <4>3, <4>4 DEF PullOK
    <3> QED  BY <3>1, <3>2
  <2>5. ASSUME NEW v \in Workers, call'[v] # Idle, call'[v].f = g, call'[v].op # "pull"
        PROVE  call'[v].pc = "create"
    <3>1. v # w
      BY <1>3, <1>9, <2>5
    <3> QED  BY <1>9, <2>1, <2>5, <3>1 DEF CleanFile
  <2> QED  BY <2>1, <2>2, <2>3, <2>4, <2>5 DEF CleanFile
<1> QED  BY <1>8, <1>10, <1>11, <1>12

(* What the one pull of an untainted file renames has all of its chunks.   *)
LEMMA RenameTempInv == ASSUME Inv, NEW w \in Workers, RenameTemp(w) PROVE Inv'
<1> USE DEF Inv
<1> DEFINE f == call[w].f
<1>1. call[w] # Idle /\ call[w].pc = "rename" /\ UNCHANGED <<progress, tainted>>
  BY DEF RenameTemp, At
<1>2. call[w] \in Call /\ f \in Files /\ ShapeOK(call[w]) /\ call[w].op = "pull"
  BY <1>1, CallFields DEF TypeOK, Handles, ShapeOK
<1>3. CASE tmp[f] = Absent
  <2>1. Goto(w, "fail") /\ UNCHANGED <<tmp, dest>>
    BY <1>3 DEF RenameTemp
  <2>2. TypeOK'
    BY <1>1, <2>1, GotoMoves DEF TypeOK
  <2> QED  BY <1>1, <1>2, <2>1, <2>2, GoesOn
<1>4. CASE tmp[f] # Absent
  <2> DEFINE new == [tmp |-> "dest", dest |-> "gone"]
             H == Rehandled(f, new)
             d == [H[w] EXCEPT !.pc = "ready"]
  <2>1. /\ dest' = [dest EXCEPT ![f] = tmp[f]] /\ tmp' = [tmp EXCEPT ![f] = Absent]
        /\ call' = [H EXCEPT ![w] = d]
    BY <1>4 DEF RenameTemp
  <2>2. /\ DOMAIN new = {"tmp", "dest"} /\ new["tmp"] = "dest" /\ new["dest"] = "gone"
    OBVIOUS
  <2>3. \A v \in Workers :
           /\ call[v] = Idle => H[v] = Idle
           /\ call[v] # Idle =>
                /\ H[v] \in Call
                /\ H[v].f = call[v].f /\ H[v].op = call[v].op /\ H[v].pc = call[v].pc
                /\ H[v].off = call[v].off
                /\ H[v].handle = IF call[v].f = f /\ call[v].handle \in {"tmp", "dest"}
                                 THEN new[call[v].handle] ELSE call[v].handle
    <3> TAKE v \in Workers
    <3> DEFINE e == H[v]
    <3>1. \A n \in DOMAIN new : new[n] \in {"none", "tmp", "dest", "gone"}
      BY <2>2
    <3>2. e = Rehandled(f, new)[v]
      OBVIOUS
    <3> HIDE DEF e, f, new
    <3> QED  BY <2>2, <3>1, <3>2, RehandledCalls DEF e
  <2>4. DOMAIN H = Workers
    BY DEF Rehandled
  <2> HIDE DEF new, H
  <2>5. d \in Call /\ d.f = f /\ d.op = "pull" /\ d.pc = "ready" /\ d.off = call[w].off
    <3>1. /\ H[w] \in Call /\ H[w].f = f /\ H[w].op = "pull" /\ H[w].pc = "rename"
          /\ H[w].off = call[w].off
      BY <1>1, <1>2, <2>3
    <3> HIDE DEF f
    <3> DEFINE e == H[w]
    <3>2. d = [e EXCEPT !.pc = "ready"]
      OBVIOUS
    <3> HIDE DEF d, e
    <3> QED  BY <3>1, <3>2, CallMoves DEF e
  <2> HIDE DEF f, d
  <2>6. /\ \A v \in Workers \ {w} : call'[v] = H[v]
        /\ call'[w] = d /\ call'[w] # Idle
    BY <2>1, <2>4, <2>5
  <2>7. call' \in [Workers -> Call \cup {Idle}]
    <3>1. call' = [v \in Workers |-> call'[v]]
      BY <2>1, <2>4
    <3>2. \A v \in Workers : call'[v] \in Call \cup {Idle}
      BY <2>3, <2>5, <2>6
    <3> QED  BY <3>1, <3>2
  <2>8. TypeOK'
    BY <1>1, <1>2, <2>1, <2>7 DEF TypeOK, Content
  <2>9. \A v \in Workers \ {w} :
           /\ (call'[v] = Idle) = (call[v] = Idle)
           /\ call[v] # Idle =>
                /\ call'[v].f = call[v].f /\ call'[v].op = call[v].op
                /\ call'[v].pc = call[v].pc /\ call'[v].off = call[v].off
                /\ call'[v].handle = IF call[v].f = f /\ call[v].handle \in {"tmp", "dest"}
                                     THEN new[call[v].handle] ELSE call[v].handle
    BY <2>3, <2>6
  <2>10. /\ tmp'[f] = Absent /\ dest'[f] = tmp[f]
         /\ \A g \in Files \ {f} : tmp'[g] = tmp[g] /\ dest'[g] = dest[g]
    BY <1>2, <2>1 DEF TypeOK
  <2>11. Handles'
    <3> SUFFICES ASSUME NEW v \in Workers, call'[v] # Idle
                 PROVE  HandleOK(call[v], tmp[call[v].f], dest[call[v].f])' /\ ShapeOK(call[v])'
      BY DEF Handles
    <3>1. CASE v = w
      BY <2>5, <2>6, <3>1 DEF HandleOK, ShapeOK
    <3>2. CASE v # w
      <4>1. HandleOK(call[v], tmp[call[v].f], dest[call[v].f]) /\ ShapeOK(call[v])
        BY <2>9, <3>2 DEF Handles
      <4>2. call[v].f \in Files
        BY <2>9, <3>2, CallFields DEF TypeOK
      <4>3. call[v].f = f => call'[v].handle # "tmp"
        BY <2>2, <2>9, <3>2
      <4> QED  BY <1>4, <2>9, <2>10, <3>2, <4>1, <4>2, <4>3 DEF HandleOK, ShapeOK, f
    <3> QED  BY <3>1, <3>2
  <2>12. DownloadingIsAlive'
    <3> SUFFICES ASSUME NEW g \in Files, progress[g].status = "downloading"
                 PROVE  \E v \in Workers : progress[g].by = v /\ Working(v, g)'
                                           /\ call'[v].op = "pull"
      BY <1>1 DEF DownloadingIsAlive
    <3>1. PICK v \in Workers : progress[g].by = v /\ Working(v, g) /\ call[v].op = "pull"
      BY DEF DownloadingIsAlive
    <3>2. CASE v = w
      BY <2>5, <2>6, <3>1, <3>2 DEF Working, f
    <3>3. CASE v # w
      BY <2>9, <3>1, <3>3 DEF Working
    <3> QED  BY <3>2, <3>3
  <2>13. Clean'
    <3> SUFFICES ASSUME NEW g \in Files \ tainted PROVE CleanFile(g)'
      BY <1>1 DEF Clean
    <3>1. CleanFile(g)
      BY DEF Clean
    <3>2. \A v \in Workers : Pulls(v, g)' => Pulls(v, g)
      BY <1>1, <1>2, <2>5, <2>6, <2>9 DEF Pulls, f
    <3>3. g = f => Pulls(w, g)
      BY <1>1, <1>2 DEF Pulls, f
    <3>4. dest'[g] \in {Absent, All}
      BY <1>1, <1>4, <2>10, <3>1, <3>3 DEF CleanFile, PullOK, f
    <3>5. ASSUME NEW v \in Workers, Pulls(v, g)' PROVE PullOK(call[v], tmp[g])'
      <4>1. CASE v = w
        BY <2>5, <2>6, <4>1 DEF PullOK
      <4>2. CASE v # w
        <5>1. g # f /\ PullOK(call[v], tmp[g])
          BY <3>1, <3>2, <3>3, <3>5, <4>2 DEF CleanFile
        <5>2. call[v] # Idle /\ call[v].f = g
          BY <3>2, <3>5 DEF Pulls
        <5> QED  BY <2>9, <2>10, <4>2, <5>1, <5>2 DEF PullOK
      <4> QED  BY <4>1, <4>2
    <3>6. ASSUME NEW v \in Workers, call'[v] # Idle, call'[v].f = g, call'[v].op # "pull"
          PROVE  call'[v].pc = "create"
      <4>1. v # w
        BY <2>5, <2>6, <3>6
      <4> QED  BY <2>9, <3>1, <3>6, <4>1 DEF CleanFile
    <3> QED  BY <3>1, <3>2, <3>4, <3>5, <3>6 DEF CleanFile
  <2> QED  BY <2>8, <2>11, <2>12, <2>13
<1> QED  BY <1>3, <1>4

(* A deleted file leaves its writers with handles on nothing.              *)
LEMMA DeleteFileInv == ASSUME Inv, NEW f \in Files, DeleteFile(f) PROVE Inv'
<1> USE DEF Inv
<1> DEFINE new == [tmp |-> "gone", dest |-> "gone"]
<1>1. /\ tmp' = [tmp EXCEPT ![f] = Absent] /\ dest' = [dest EXCEPT ![f] = Absent]
      /\ call' = Rehandled(f, new) /\ UNCHANGED progress
      /\ tainted' = IF \E w \in Workers : Working(w, f) THEN tainted ELSE tainted \ {f}
  BY DEF DeleteFile
<1>2. DOMAIN new = {"tmp", "dest"} /\ new["tmp"] = "gone" /\ new["dest"] = "gone"
  OBVIOUS
<1>3. \A v \in Workers :
         /\ call[v] = Idle => call'[v] = Idle
         /\ call[v] # Idle =>
              /\ call'[v] \in Call
              /\ call'[v].f = call[v].f /\ call'[v].op = call[v].op /\ call'[v].pc = call[v].pc
              /\ call'[v].off = call[v].off
              /\ call'[v].handle = IF call[v].f = f /\ call[v].handle \in {"tmp", "dest"}
                                   THEN "gone" ELSE call[v].handle
  <2> TAKE v \in Workers
  <2>1. \A n \in DOMAIN new : new[n] \in {"none", "tmp", "dest", "gone"}
    BY <1>2
  <2>2. call'[v] = Rehandled(f, new)[v]
    BY <1>1
  <2> HIDE DEF new
  <2> QED  BY <1>2, <2>1, <2>2, RehandledCalls
<1>4. DOMAIN call' = Workers /\ call' = [v \in Workers |-> call'[v]]
  BY <1>1 DEF Rehandled
<1> HIDE DEF new
<1>5. TypeOK'
  <2>1. call' \in [Workers -> Call \cup {Idle}]
    BY <1>3, <1>4
  <2> QED  BY <1>1, <2>1 DEF TypeOK, Content, DeleteFile
<1>6. /\ tmp'[f] = Absent /\ dest'[f] = Absent
      /\ \A g \in Files \ {f} : tmp'[g] = tmp[g] /\ dest'[g] = dest[g]
  BY <1>1 DEF TypeOK
<1>7. Handles'
  <2> SUFFICES ASSUME NEW v \in Workers, call'[v] # Idle
               PROVE  HandleOK(call[v], tmp[call[v].f], dest[call[v].f])' /\ ShapeOK(call[v])'
    BY DEF Handles
  <2>1. HandleOK(call[v], tmp[call[v].f], dest[call[v].f]) /\ ShapeOK(call[v])
    BY <1>3 DEF Handles
  <2>2. call[v] # Idle /\ call[v].f \in Files
    BY <1>3, CallFields DEF TypeOK
  <2> QED  BY <1>3, <1>6, <2>1, <2>2 DEF HandleOK, ShapeOK
<1>8. DownloadingIsAlive'
  BY <1>1, <1>3 DEF DownloadingIsAlive, Working
<1>9. Clean'
  <2> SUFFICES ASSUME NEW g \in Files \ tainted' PROVE CleanFile(g)'
    BY DEF Clean
  <2>1. \A v \in Workers : call'[v] # Idle => call[v] # Idle
    BY <1>3
  <2>2. \A v \in Workers : Pulls(v, g)' => Pulls(v, g) /\ Working(v, g)
    BY <1>3 DEF Pulls, Working
  <2>3. CASE g \in tainted
    <3>1. g = f /\ \A v \in Workers : ~ Working(v, g)
      BY <1>1, <2>3
    <3>2. ASSUME NEW v \in Workers, call'[v] # Idle, call'[v].f = g, call'[v].op # "pull"
          PROVE  FALSE
      BY <1>3, <3>1, <3>2 DEF Working, Handles, ShapeOK
    <3> QED  BY <1>6, <2>2, <3>1, <3>2 DEF CleanFile
  <2>4. CASE g \notin tainted
    <3>1. CleanFile(g)
      BY <2>4 DEF Clean
    <3>2. ASSUME NEW v \in Workers, Pulls(v, g)' PROVE PullOK(call[v], tmp[g])'
      <4>1. PullOK(call[v], tmp[g]) /\ call[v] # Idle /\ call[v].f = g
        BY <2>2, <3>1, <3>2 DEF CleanFile, Pulls
      <4> QED  BY <1>3, <1>6, <4>1 DEF PullOK
    <3>3. ASSUME NEW v \in Workers, call'[v] # Idle, call'[v].f = g, call'[v].op # "pull"
          PROVE  call'[v].pc = "create"
      BY <1>3, <3>1, <3>3 DEF CleanFile
    <3>4. dest'[g] \in {Absent, All}
      BY <1>6, <3>1 DEF CleanFile
    <3> QED  BY <2>2, <3>1, <3>2, <3>3, <3>4 DEF CleanFile
  <2> QED  BY <2>3, <2>4
<1> QED  BY <1>5, <1>7, <1>8, <1>9

LEMMA CrashInv == ASSUME Inv, Crash PROVE Inv'
<1>1. TypeOK'
  BY DEF Inv, Crash, TypeOK, NoProgress, Statuses
<1>2. /\ \A w \in Workers : call'[w] = Idle \/ (call'[w] = call[w] /\ call[w].op = "wget")
      /\ \A f \in Files : progress'[f].status = "none"
      /\ UNCHANGED <<tmp, dest, tainted>>
  BY DEF Crash, NoProgress
<1>3. Handles'
  BY <1>2 DEF Inv, Handles, ShapeOK, HandleOK
<1>4. Clean'
  BY <1>2 DEF Inv, Clean, CleanFile, Pulls
<1> QED  BY <1>1, <1>2, <1>3, <1>4 DEF Inv, DownloadingIsAlive

LEMMA NextInv == Inv /\ [Next]_vars => Inv'
<1> SUFFICES ASSUME Inv, [Next]_vars PROVE Inv'
  OBVIOUS
<1>1. ASSUME NEW w \in Workers, Continue(w) PROVE Inv'
  BY <1>1, StatDestInv, SetProgressInv, GetFailsInv, CreateTempInv, CreateDestInv, CopyChunkInv,
     EndCopyInv, EndsEarlyInv, CopyFailsInv, RemoveFileInv, FailInv, RenameTempInv, ReadyInv DEF Continue
<1>2. ASSUME NEW w \in Workers, NEW f \in Files, PullRequest(w, f) PROVE Inv'
  BY <1>2, BeginInv DEF PullRequest
<1>3. ASSUME NEW w \in Workers, NEW f \in Files, NEW op \in {"wget", "upload"},
             DirectRequest(w, op, f)
      PROVE  Inv'
  BY <1>3, BeginInv DEF DirectRequest
<1>4. CASE UNCHANGED vars
  BY <1>4 DEF vars, Inv, TypeOK, Handles, HandleOK, ShapeOK, DownloadingIsAlive, Working, Clean,
              CleanFile, Pulls, PullOK
<1> QED  BY <1>1, <1>2, <1>3, <1>4, DeleteFileInv, CrashInv DEF Next

LEMMA Invariance == Spec => []Inv
BY InitInv, NextInv, PTL DEF Spec
-----------------------------------------------------------------------------
(* Types of the files, of the progress map and of the workers.             *)
THEOREM DownloadTypes == Spec => []TypeOK
<1>1. Inv => TypeOK  BY DEF Inv
<1> QED  BY <1>1, Invariance, PTL

(* No status "downloading" is left behind by a goroutine that is gone.     *)
THEOREM NamesStayFree == Spec => []DownloadingIsAlive
<1>1. Inv => DownloadingIsAlive  BY DEF Inv
<1> QED  BY <1>1, Invariance, PTL

(* Machines install from whole files, unless two pulls wrote one at once,  *)
(* somebody wrote it in place, or a body without a length broke off.       *)
THEOREM ServedWhole == Spec => []ServedIsComplete
<1>1. Inv => ServedIsComplete  BY DEF Inv, Clean, CleanFile, ServedIsComplete
<1> QED  BY <1>1, Invariance, PTL
=============================================================================
