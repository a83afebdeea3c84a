----------------------------- MODULE Downloads ------------------------------
(***************************************************************************)
(* How ISO images and files get into the directories machines install      *)
(* from: isoDownloadHandler and filePullHandler start a goroutine that     *)
(* writes name.downloading and renames it, while the MCP tool iso_download *)
(* (wget -O) and fileUploadHandler write to the name itself.               *)
(*                                                                         *)
(* A file's content is the set of its chunks that are in it. Two writers   *)
(* can hold one file open: a writer has a handle on the file that has, by  *)
(* now, the temporary name, the final name, or none.                       *)
(***************************************************************************)
EXTENDS Integers

CONSTANTS
    Files,              \* ISO file names, or bids of pulled files
    Workers,            \* requests, each with the goroutine it starts
    Chunks,             \* bound: buffers a file is copied in
    MaxCalls,           \* bound: requests
    MaxCrashes,         \* bound: times the engine dies
    Absent, Idle

All == 1 .. Chunks
Content == {Absent} \cup SUBSET All
Statuses == {"none", "downloading", "ready", "failed"}
Call == [op : {"pull", "wget", "upload"}, f : Files,
         pc : {"stat", "set", "create", "copy", "rename", "ready", "remove", "fail"},
         off : 0 .. Chunks, handle : {"none", "tmp", "dest", "gone"}]

ASSUME DownloadsAssumption ==
    /\ Chunks \in Nat \ {0} /\ MaxCalls \in Nat /\ MaxCrashes \in Nat
    /\ \A S \in SUBSET (1 .. Chunks) : S # Absent
    /\ Idle \notin Call /\ Idle \notin Workers

VARIABLES
    tmp, dest,          \* the files under the temporary and the final name
    progress,           \* downloads: its status, and the worker that still has it
    call,               \* what each worker does
    calls, crashes,     \* requests and crashes so far
    tainted             \* history variable: files two workers wrote, or one in place,
                        \* or whose body broke off unnoticed

vars == <<tmp, dest, progress, call, calls, crashes, tainted>>

NoProgress == [status |-> "none", by |-> Idle]

Init ==
    /\ tmp = [f \in Files |-> Absent]
    /\ dest = [f \in Files |-> Absent]
    /\ progress = [f \in Files |-> NoProgress]
    /\ call = [w \in Workers |-> Idle]
    /\ calls = 0 /\ crashes = 0
    /\ tainted = {}

At(w, pc) == call[w] # Idle /\ call[w].pc = pc
Goto(w, pc) == call' = [call EXCEPT ![w].pc = pc]
Return(w) == call' = [call EXCEPT ![w] = Idle]
Working(w, f) == call[w] # Idle /\ call[w].f = f /\ call[w].pc # "stat"

(* os.Stat, and a size above 0.                                            *)
Exists(f) == dest[f] \notin {Absent, {}}

Begin(w, op, pc, f) ==
    /\ call[w] = Idle
    /\ calls < MaxCalls /\ calls' = calls + 1
    /\ call' = [call EXCEPT ![w] = [op |-> op, f |-> f, pc |-> pc, off |-> 0, handle |-> "none"]]
    /\ UNCHANGED <<tmp, dest, progress, crashes>>
-----------------------------------------------------------------------------
(* isoDownloadHandler, filePullHandler: nothing while it is downloading.   *)
PullRequest(w, f) ==
    /\ progress[f].status # "downloading"
    /\ Begin(w, "pull", "stat", f)
    /\ UNCHANGED tainted

StatDest(w) ==
    /\ At(w, "stat")
    /\ IF Exists(call[w].f) THEN Return(w) ELSE Goto(w, "set")
    /\ UNCHANGED <<tmp, dest, progress, calls, crashes, tainted>>

(* A new progress replaces the one in the map; who wrote that one keeps it *)
(* and is no longer seen.                                                  *)
SetProgress(w) ==
    /\ At(w, "set")
    /\ LET f == call[w].f
       IN  /\ progress' = [progress EXCEPT ![f] = [status |-> "downloading", by |-> w]]
           /\ tainted' = tainted \cup {g \in {f} : \E v \in Workers \ {w} : Working(v, f)}
    /\ Goto(w, "create")
    /\ UNCHANGED <<tmp, dest, calls, crashes>>

Tell(w, status) ==
    progress' = [f \in Files |-> IF progress[f].by = w THEN [status |-> status, by |-> Idle]
                                                       ELSE progress[f]]

(* The answer is an error, or the temporary file cannot be created.        *)
GetFails(w) ==
    /\ At(w, "create") /\ call[w].op = "pull"
    /\ Tell(w, "failed")
    /\ Return(w)
    /\ UNCHANGED <<tmp, dest, calls, crashes, tainted>>

(* os.Create: a temporary file that is there is opened and emptied.        *)
CreateTemp(w) ==
    /\ At(w, "create") /\ call[w].op = "pull"
    /\ tmp' = [tmp EXCEPT ![call[w].f] = {}]
    /\ call' = [call EXCEPT ![w].pc = "copy", ![w].handle = "tmp"]
    /\ UNCHANGED <<dest, progress, calls, crashes, tainted>>

(* Mutant: what is left in the buffer is written once more at the end.     *)
CopyOnceMore(w) ==
    /\ At(w, "copy")
    /\ LET c == call[w]
           With(content) == content \cup {c.off + 1}
       IN  /\ tmp' = IF c.handle = "tmp" THEN [tmp EXCEPT ![c.f] = With(@)] ELSE tmp
           /\ dest' = IF c.handle = "dest" THEN [dest EXCEPT ![c.f] = With(@)] ELSE dest
    /\ call' = [call EXCEPT ![w].off = @ + 1]
    /\ UNCHANGED <<progress, calls, crashes, tainted>>

(* The next chunk goes to the writer's own offset, wherever the file is.   *)
CopyChunk(w) ==
    /\ At(w, "copy") /\ call[w].off < Chunks
    /\ LET c == call[w]
           With(content) == content \cup {c.off + 1}
       IN  /\ tmp' = IF c.handle = "tmp" THEN [tmp EXCEPT ![c.f] = With(@)] ELSE tmp
           /\ dest' = IF c.handle = "dest" THEN [dest EXCEPT ![c.f] = With(@)] ELSE dest
    /\ call' = [call EXCEPT ![w].off = @ + 1]
    /\ UNCHANGED <<progress, calls, crashes, tainted>>

(* The body ends: io.EOF.                                                  *)
EndCopy(w) ==
    /\ At(w, "copy") /\ call[w].off = Chunks
    /\ IF call[w].op = "pull" THEN Goto(w, "rename") ELSE Return(w)
    /\ UNCHANGED <<tmp, dest, progress, calls, crashes, tainted>>

(* A body of no declared length ends with its connection: wherever that    *)
(* breaks, it is io.EOF as well.                                           *)
EndsEarly(w) ==
    /\ At(w, "copy") /\ call[w].op = "pull"
    /\ tainted' = tainted \cup {call[w].f}
    /\ Goto(w, "rename")
    /\ UNCHANGED <<tmp, dest, progress, calls, crashes>>

(* Mutant: a connection that breaks is taken for the end of the body.      *)
EndOnAnyError(w) ==
    /\ At(w, "copy")
    /\ Goto(w, "rename")
    /\ UNCHANGED <<tmp, dest, progress, calls, crashes, tainted>>

(* A read or a write fails; wget leaves what it has.                       *)
CopyFails(w) ==
    /\ At(w, "copy")
    /\ IF call[w].op = "wget" THEN Return(w) ELSE Goto(w, "remove")
    /\ UNCHANGED <<tmp, dest, progress, calls, crashes, tainted>>

(* The handles on a name that goes away or is given to another file.       *)
Rehandled(f, new) ==
    [w \in Workers |-> IF call[w] = Idle \/ call[w].f # f \/ call[w].handle \notin DOMAIN new
                       THEN call[w] ELSE [call[w] EXCEPT !.handle = new[call[w].handle]]]

RemoveFile(w) ==
    /\ At(w, "remove")
    /\ LET f == call[w].f
           name == IF call[w].op = "pull" THEN "tmp" ELSE "dest"
       IN  /\ IF name = "tmp" THEN tmp' = [tmp EXCEPT ![f] = Absent] /\ UNCHANGED dest
                              ELSE dest' = [dest EXCEPT ![f] = Absent] /\ UNCHANGED tmp
           /\ call' = [Rehandled(f, [n \in {name} |-> "gone"]) EXCEPT ![w] =
                          IF call[w].op = "pull" THEN [call[w] EXCEPT !.pc = "fail"] ELSE Idle]
    /\ UNCHANGED <<progress, calls, crashes, tainted>>

(* Mutant: the temporary file is gone, the progress stays.                 *)
FailSilently(w) ==
    /\ At(w, "fail")
    /\ Return(w)
    /\ UNCHANGED <<tmp, dest, progress, calls, crashes, tainted>>

Fail(w) ==
    /\ At(w, "fail")
    /\ Tell(w, "failed")
    /\ Return(w)
    /\ UNCHANGED <<tmp, dest, calls, crashes, tainted>>

(* os.Rename moves the temporary name, whoever wrote the file under it.    *)
RenameTemp(w) ==
    /\ At(w, "rename")
    /\ LET f == call[w].f
       IN  IF tmp[f] = Absent
           THEN Goto(w, "fail") /\ UNCHANGED <<tmp, dest>>
           ELSE /\ dest' = [dest EXCEPT ![f] = tmp[f]]
                /\ tmp' = [tmp EXCEPT ![f] = Absent]
                /\ call' = [Rehandled(f, [tmp |-> "dest", dest |-> "gone"]) EXCEPT ![w].pc = "ready"]
    /\ UNCHANGED <<progress, calls, crashes, tainted>>

Ready(w) ==
    /\ At(w, "ready")
    /\ Tell(w, "ready")
    /\ Return(w)
    /\ UNCHANGED <<tmp, dest, calls, crashes, tainted>>
-----------------------------------------------------------------------------
(* The MCP tool iso_download looks at the file only; an upload at nothing. *)
DirectRequest(w, op, f) ==
    /\ op = "wget" => ~ Exists(f)
    /\ Begin(w, op, "create", f)
    /\ UNCHANGED tainted

CreateDest(w) ==
    /\ At(w, "create") /\ call[w].op # "pull"
    /\ dest' = [dest EXCEPT ![call[w].f] = {}]
    /\ tainted' = tainted \cup {call[w].f}
    /\ call' = [call EXCEPT ![w].pc = "copy", ![w].handle = "dest"]
    /\ UNCHANGED <<tmp, progress, calls, crashes>>

(* fileDeleteHandler removes the directory of the file.                    *)
DeleteFile(f) ==
    /\ tmp[f] # Absent \/ dest[f] # Absent
    /\ tmp' = [tmp EXCEPT ![f] = Absent]
    /\ dest' = [dest EXCEPT ![f] = Absent]
    /\ call' = Rehandled(f, [tmp |-> "gone", dest |-> "gone"])
    /\ tainted' = IF \E w \in Workers : Working(w, f) THEN tainted ELSE tainted \ {f}
    /\ UNCHANGED <<progress, calls, crashes>>

(* The engine dies: goroutines and progress are gone. A wget, which is a   *)
(* process of its own, may go on.                                          *)
Crash ==
    /\ crashes < MaxCrashes /\ crashes' = crashes + 1
    /\ \E S \in SUBSET {w \in Workers : call[w] # Idle /\ call[w].op = "wget"} :
          call' = [w \in Workers |-> IF w \in S THEN call[w] ELSE Idle]
    /\ progress' = [f \in Files |-> NoProgress]
    /\ UNCHANGED <<tmp, dest, calls, tainted>>
-----------------------------------------------------------------------------
Continue(w) ==
    \/ StatDest(w) \/ SetProgress(w) \/ GetFails(w) \/ CreateTemp(w) \/ CreateDest(w)
    \/ CopyChunk(w) \/ EndCopy(w) \/ EndsEarly(w) \/ CopyFails(w) \/ RemoveFile(w) \/ Fail(w)
    \/ RenameTemp(w) \/ Ready(w)

Next ==
    \/ \E w \in Workers :
          \/ \E f \in Files :
                PullRequest(w, f) \/ DirectRequest(w, "wget", f) \/ DirectRequest(w, "upload", f)
          \/ Continue(w)
    \/ \E f \in Files : DeleteFile(f)
    \/ Crash

Spec == Init /\ [][Next]_vars
-----------------------------------------------------------------------------
(* Properties                                                              *)

(* Types of the files, of the progress map and of the workers.             *)
TypeOK ==
    /\ tmp \in [Files -> Content] /\ dest \in [Files -> Content]
    /\ progress \in [Files -> [status : Statuses, by : Workers \cup {Idle}]]
    /\ call \in [Workers -> Call \cup {Idle}]
    /\ tainted \subseteq Files

(* What machines install from is whole: through failures, retries, crashes *)
(* and deletions, a file that no two pulls wrote at once, that nothing     *)
(* wrote in place, and whose body had a length to be checked by, is under  *)
(* its final name with all of its chunks, or not at all.                   *)
ServedIsComplete == \A f \in Files \ tainted : dest[f] \in {Absent, All}

(* No status is left behind: "downloading", which makes the handler refuse *)
(* another request, is said only while a goroutine is there to take it     *)
(* back, however many pulls of the file raced. One that waits for a server *)
(* that stalls takes nothing back: there is no timeout.                    *)
DownloadingIsAlive ==
    \A f \in Files : progress[f].status = "downloading" =>
        \E w \in Workers : progress[f].by = w /\ Working(w, f) /\ call[w].op = "pull"
=============================================================================
