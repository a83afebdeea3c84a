----------------------------- MODULE Installer -----------------------------
(***************************************************************************)
(* The target machines: iPXE menu, kickstart and autoinstall scripts, and  *)
(* what the engine answers them, from the network boot of a machine to the *)
(* next one.                                                               *)
(*                                                                         *)
(* A machine is a sequence of calls to the engine; operators change the    *)
(* tasks between any two of them, calls get lost, machines are switched    *)
(* off and on. One call is one step here: how the engine's handlers inter- *)
(* leave is the subject of TaskLifecycle. Machines boot from the network   *)
(* first and install again whenever the engine offers them a task.         *)
(***************************************************************************)
EXTENDS Integers

CONSTANTS
    Machines,           \* target machines
    SNs,                \* serial numbers of tasks
    MACs,               \* MAC addresses
    Networks,           \* the network configurations of tasks, as sets of MACs
    Dmi,                \* machine -> its product_serial in DMI, or NoSN
    Nics,               \* machine -> the MACs of its ports
    NoSN, NoTask,       \* no serial number; no task
    MaxTasks,           \* bound: tasks an operator creates
    MaxLosses,          \* bound: calls that fail
    MaxResets           \* bound: machines switched off and on again

(* Boot types of OS templates. "none": the row of the task's OS is gone.   *)
BootTypes == {"kickstart", "cloud-init", "none"}
Statuses == {"pending", "installing", "configured", "failed"}
Task == [id : 1 .. MaxTasks, sn : SNs, macs : Networks, boot : BootTypes,
         status : Statuses]

(* What a script knows of a task: the id stands for all of its settings.   *)
Config == [id : 1 .. MaxTasks, sn : SNs]
ConfigOf(t) == IF t = NoTask THEN NoTask ELSE [id |-> t.id, sn |-> t.sn]

(* A machine: where it is; the installer it was given, and for which task; *)
(* the shell variable SN; provision.json as the pre script leaves it, by   *)
(* which the disk is laid out; the one %post takes the hostname from; the  *)
(* ports left to look up; and whether a call failed since it booted.       *)
Machine == [pc : {"menu", "menuByMAC", "fetch", "bySN", "lookup", "byMAC", "report", "install",
                  "identify", "post", "complete", "local", "halted"},
            boot : BootTypes, offer : 0 .. MaxTasks, sn : SNs \cup {NoSN},
            prov : Config \cup {NoTask}, host : Config \cup {NoTask},
            left : SUBSET MACs, lost : BOOLEAN]

ASSUME ConstantsAssumption ==
    /\ MaxTasks \in Nat /\ MaxLosses \in Nat /\ MaxResets \in Nat
    /\ Networks \subseteq SUBSET MACs
    /\ Dmi \in [Machines -> SNs \cup {NoSN}]
    /\ Nics \in [Machines -> (SUBSET MACs) \ {{}}]
    /\ NoSN \notin SNs /\ NoTask \notin Task \cup Config

VARIABLES
    tasks,              \* serial number -> its task or NoTask
    lastId,             \* the last id given to a task
    mach,               \* the machines
    trail,              \* history variable: what became of a task on a machine
    completed,          \* history variable: the tasks that completions ended
    losses, resets      \* calls lost, machines reset (for the bounds only)

vars == <<tasks, lastId, mach, trail, completed, losses, resets>>

-----------------------------------------------------------------------------
Booted(m) == [pc |-> "menu", boot |-> "none", offer |-> 0, sn |-> NoSN,
              prov |-> NoTask, host |-> NoTask, left |-> Nics[m], lost |-> FALSE]

Init ==
    /\ tasks = [s \in SNs |-> NoTask]
    /\ lastId = 0
    /\ mach = [m \in Machines |-> Booted(m)]
    /\ trail = {}
    /\ completed = {}
    /\ losses = 0 /\ resets = 0

Open == {tasks[s] : s \in SNs} \ {NoTask}

TaskBySN(s) == IF s \in SNs THEN tasks[s] ELSE NoTask

(* The answers to a lookup by MAC: of the tasks that name it the first in   *)
(* the order of ids, in which the table is scanned.                        *)
TaskByMAC(a) ==
    LET naming == {t \in Open : a \in t.macs}
    IN  IF naming = {} THEN {NoTask} ELSE {t \in naming : \A u \in naming : t.id <= u.id}

At(m, pc) == mach[m].pc = pc
Become(m, r) == mach' = [mach EXCEPT ![m] = r]

Answered == UNCHANGED losses
Lost == losses < MaxLosses /\ losses' = losses + 1

(* The machine goes on as r after a call that is answered, and as r after  *)
(* one that is not.                                                        *)
OnAnswer(m, r) == Become(m, r) /\ Answered
OnLoss(m, r)   == Become(m, [r EXCEPT !.lost = TRUE]) /\ Lost

(* Mutant: the stage is written where the status belongs.                  *)
SetStage(s, status) ==
    tasks' = IF TaskBySN(s) = NoTask THEN tasks
             ELSE [tasks EXCEPT ![s].status = "sn_identifying"]

SetStatus(s, status) ==
    tasks' = IF TaskBySN(s) = NoTask THEN tasks ELSE [tasks EXCEPT ![s].status = status]

(* pxe_event, then the machine goes on as r: one call, which is not tried  *)
(* again, and sets the status of the row of s if there is one.             *)
Event(m, s, status, r) ==
    \/ SetStatus(s, status) /\ OnAnswer(m, r)
    \/ UNCHANGED tasks /\ OnLoss(m, r)
-----------------------------------------------------------------------------
(* Operators                                                               *)

(* A create or a batch: the row of the serial number is a new one.         *)
PushTask(s, net, b) ==
    /\ lastId < MaxTasks
    /\ lastId' = lastId + 1
    /\ tasks' = [tasks EXCEPT ![s] = [id |-> lastId + 1, sn |-> s, macs |-> net,
                                      boot |-> b, status |-> "pending"]]
    /\ UNCHANGED <<mach, trail, completed, losses, resets>>

DeleteTask(s) ==
    /\ tasks[s] # NoTask
    /\ tasks' = [tasks EXCEPT ![s] = NoTask]
    /\ UNCHANGED <<lastId, mach, trail, completed, losses, resets>>
-----------------------------------------------------------------------------
(* The menu: chain /boot/<serial>, then /boot/mac/<mac>, then local disk   *)

(* A task whose template is gone is answered with an iPXE shell.           *)
Offered(m, t) ==
    [mach[m] EXCEPT !.pc = IF t.boot = "none" THEN "halted" ELSE "fetch",
                    !.boot = t.boot, !.offer = t.id]

BootBySN(m) ==
    /\ At(m, "menu")
    /\ LET t == TaskBySN(Dmi[m])
           next == [mach[m] EXCEPT !.pc = "menuByMAC"]
       IN  OnAnswer(m, IF t = NoTask THEN next ELSE Offered(m, t)) \/ OnLoss(m, next)
    /\ UNCHANGED <<tasks, lastId, trail, completed, resets>>

(* netX is one port, the one iPXE opened last.                             *)
BootByMAC(m) ==
    /\ At(m, "menuByMAC")
    /\ \E a \in Nics[m] : \E t \in TaskByMAC(a) :
          LET next == [mach[m] EXCEPT !.pc = "local"]
          IN  OnAnswer(m, IF t = NoTask THEN next ELSE Offered(m, t)) \/ OnLoss(m, next)
    /\ UNCHANGED <<tasks, lastId, trail, completed, resets>>
-----------------------------------------------------------------------------
(* %pre and early-commands                                                 *)

(* The kickstart template has a fallback that installs with the defaults;  *)
(* autoinstall stops when an early command fails, and iPXE in a shell when *)
(* it cannot fetch the kernel.                                             *)
FetchPre(m) ==
    /\ At(m, "fetch")
    /\ \/ OnAnswer(m, [mach[m] EXCEPT !.pc = "bySN", !.sn = Dmi[m]])
       \/ mach[m].boot = "kickstart" /\ OnLoss(m, [mach[m] EXCEPT !.pc = "install"])
       \/ OnLoss(m, [mach[m] EXCEPT !.pc = "halted"])
    /\ UNCHANGED <<tasks, lastId, trail, completed, resets>>

(* The kickstart script sends sn_identifying before it asks.               *)
Identify(m) ==
    /\ At(m, "bySN")
    /\ LET next == [mach[m] EXCEPT !.pc = "lookup"]
       IN  IF mach[m].boot = "kickstart" THEN Event(m, mach[m].sn, "installing", next)
                                         ELSE OnAnswer(m, next) /\ UNCHANGED tasks
    /\ UNCHANGED <<lastId, trail, completed, resets>>

(* A lookup of the pre scripts has found t, or goes on as r.               *)
Found(m, t, r) ==
    OnAnswer(m, IF t = NoTask THEN r
                ELSE [mach[m] EXCEPT !.pc = "report", !.prov = ConfigOf(t)])

(* A lookup fails: the kickstart script goes on as r, the Ubuntu one stops *)
(* at the first command that fails, under set -e.                          *)
NotFound(m, r) ==
    \/ mach[m].boot = "kickstart" /\ OnLoss(m, r)
    \/ mach[m].boot = "cloud-init" /\ OnLoss(m, [mach[m] EXCEPT !.pc = "halted"])

(* Without a serial number there is nothing to ask for.                    *)
PreBySN(m) ==
    /\ At(m, "lookup")
    /\ LET next == [mach[m] EXCEPT !.pc = "byMAC"]
       IN  \/ Found(m, TaskBySN(mach[m].sn), next)
           \/ mach[m].sn # NoSN /\ NotFound(m, next)
    /\ UNCHANGED <<tasks, lastId, trail, completed, resets>>

(* Mutant: only one port is looked up.                                     *)
PreByOneMAC(m) ==
    /\ At(m, "byMAC")
    /\ \E a \in mach[m].left : \E t \in TaskByMAC(a) :
          LET next == [mach[m] EXCEPT !.left = {}]
          IN  Found(m, t, next) \/ NotFound(m, next)
    /\ UNCHANGED <<tasks, lastId, trail, completed, resets>>

PreByMAC(m) ==
    /\ At(m, "byMAC")
    /\ \E a \in mach[m].left : \E t \in TaskByMAC(a) :
          LET next == [mach[m] EXCEPT !.left = @ \ {a}]
          IN  Found(m, t, next) \/ NotFound(m, next)
    /\ UNCHANGED <<tasks, lastId, trail, completed, resets>>

(* No lookup found a task. The kickstart script exits before it writes     *)
(* what anaconda includes, which stops anaconda; the Ubuntu one leaves the *)
(* defaults of autoinstall.yaml in place.                                  *)
PreUnmatched(m) ==
    /\ At(m, "byMAC") /\ mach[m].left = {}
    /\ Event(m, mach[m].sn, "failed", [mach[m] EXCEPT
           !.pc = IF mach[m].boot = "cloud-init" THEN "install" ELSE "halted"])
    /\ UNCHANGED <<lastId, trail, completed, resets>>

(* Mutant: SN stays what DMI says.                                         *)
DmiSN(m) == mach[m].sn

(* The kickstart script takes SN from provision.json when DMI has none,    *)
(* the Ubuntu script always. (A DMI that says "NotSpecified" is taken for  *)
(* one that has none; the kickstart script keeps that as its SN here.)     *)
EffectiveSN(m) ==
    IF mach[m].boot = "cloud-init" \/ mach[m].sn = NoSN THEN mach[m].prov.sn ELSE mach[m].sn

(* provision_matching, the choice of a disk, disk_selected, partitioning   *)
(* and pkg_installing. Without a disk the kickstart script gives up.       *)
PreReport(m) ==
    /\ At(m, "report")
    /\ LET s == EffectiveSN(m)
       IN  \/ Event(m, s, "installing", [mach[m] EXCEPT !.pc = "install", !.sn = s])
           \/ /\ mach[m].boot = "kickstart"
              /\ Event(m, s, "failed", [mach[m] EXCEPT !.pc = "halted", !.sn = s])
    /\ UNCHANGED <<lastId, trail, completed, resets>>
-----------------------------------------------------------------------------
(* The installation itself, external: it lays out the disk or fails.       *)

Mark(m, c, how) ==
    IF c = NoTask THEN trail ELSE trail \cup {[machine |-> m, task |-> c.id, how |-> how]}

Install(m) ==
    /\ At(m, "install")
    /\ \/ /\ Become(m, [mach[m] EXCEPT !.pc = "identify"])
          /\ trail' = Mark(m, mach[m].prov, "applied")
       \/ /\ Become(m, [mach[m] EXCEPT !.pc = "halted"])
          /\ UNCHANGED trail
    /\ UNCHANGED <<tasks, lastId, completed, losses, resets>>
-----------------------------------------------------------------------------
(* %post and late-commands                                                 *)

(* Mutant: the serial number of DMI, which pre may not have found a task by. *)
PostDmiSN(m) == Dmi[m]

(* The serial number in the copy of provision.json, else that of DMI, else *)
(* the UUID of the machine, for which there is no task.                    *)
PostSN(m) == IF mach[m].prov # NoTask THEN mach[m].prov.sn ELSE Dmi[m]

(* Mutant: no fallback on the copy that pre left.                          *)
RefetchedOnly(m, t) == ConfigOf(t)

AsksAgain(m) == mach[m].boot = "kickstart" \/ mach[m].prov = NoTask

(* /tmp/provision.json in %post: the copy that pre left stands in for an   *)
(* answer t without a task.                                                *)
PostProvision(m, t) == IF t = NoTask THEN mach[m].prov ELSE ConfigOf(t)

(* The kickstart template reboots with nothing reported when it cannot get *)
(* the script; autoinstall stops. Ubuntu asks only when pre had no task.   *)
PostIdentify(m) ==
    /\ At(m, "identify")
    /\ LET s == PostSN(m)
           knowing(t) == [mach[m] EXCEPT !.pc = "post", !.sn = s, !.host = PostProvision(m, t)]
       IN  \/ /\ OnAnswer(m, knowing(IF AsksAgain(m) THEN TaskBySN(s) ELSE NoTask))
              /\ UNCHANGED trail
           \/ AsksAgain(m) /\ OnLoss(m, knowing(NoTask)) /\ UNCHANGED trail
           \/ /\ OnLoss(m, IF mach[m].boot = "kickstart" THEN Booted(m)
                            ELSE [mach[m] EXCEPT !.pc = "halted"])
              /\ trail' = Mark(m, mach[m].prov, "cut")
    /\ UNCHANGED <<tasks, lastId, completed, resets>>

(* Files, scripts, hardware reports: events of the configured stages.      *)
PostReport(m) ==
    /\ At(m, "post")
    /\ Event(m, mach[m].sn, "configured", [mach[m] EXCEPT !.pc = "complete"])
    /\ UNCHANGED <<lastId, trail, completed, resets>>

(* Mutant: the engine records the completion and keeps the task.           *)
KeepTask(s) == UNCHANGED tasks

RemoveTask(s) == tasks' = [tasks EXCEPT ![s] = NoTask]

(* Mutant: a completion ends the task the menu offered, by its id.         *)
TaskOffered(m) ==
    IF \E t \in Open : t.id = mach[m].offer
    THEN CHOOSE t \in Open : t.id = mach[m].offer ELSE NoTask

(* The task that a completion of m ends.                                   *)
TaskCompletedBy(m) == TaskBySN(mach[m].sn)

(* provision/complete: the engine records it and deletes the task. When    *)
(* the answer is lost, curl may send it again.                             *)
Complete(m) ==
    /\ At(m, "complete")
    /\ LET t == TaskCompletedBy(m)
       IN  IF t = NoTask THEN UNCHANGED <<tasks, completed, trail>>
           ELSE /\ RemoveTask(t.sn)
                /\ completed' = completed \cup
                      {[task |-> t.id, sn |-> t.sn, prov |-> mach[m].prov]}
                /\ trail' = Mark(m, t, "completed")
    /\ OnAnswer(m, Booted(m)) \/ OnLoss(m, mach[m])
    /\ UNCHANGED <<lastId, resets>>

(* It never reaches the engine: curl retries what timed out, but neither a *)
(* refused connection nor for ever. Its status is that of the script, which *)
(* anaconda ignores and late-commands stop at.                             *)
CompleteFails(m) ==
    /\ At(m, "complete")
    /\ \/ OnLoss(m, mach[m])
       \/ mach[m].boot = "cloud-init" /\ OnLoss(m, [mach[m] EXCEPT !.pc = "halted"])
       \/ mach[m].boot # "cloud-init" /\ OnLoss(m, Booted(m))
    /\ trail' = Mark(m, mach[m].prov, "cut")
    /\ UNCHANGED <<tasks, lastId, completed, resets>>
-----------------------------------------------------------------------------
(* Somebody switches a machine off and on.                                 *)
Reset(m) ==
    /\ resets < MaxResets /\ resets' = resets + 1
    /\ ~ At(m, "menu")
    /\ Become(m, Booted(m))
    /\ trail' = IF mach[m].pc \in {"identify", "post", "complete"}
                THEN Mark(m, mach[m].prov, "cut") ELSE trail
    /\ UNCHANGED <<tasks, lastId, completed, losses>>

Operator ==
    \/ \E s \in SNs, net \in Networks, b \in BootTypes : PushTask(s, net, b)
    \/ \E s \in SNs : DeleteTask(s)

Run(m) ==
    \/ BootBySN(m) \/ BootByMAC(m)
    \/ FetchPre(m) \/ Identify(m) \/ PreBySN(m) \/ PreByMAC(m)
    \/ PreUnmatched(m) \/ PreReport(m)
    \/ Install(m)
    \/ PostIdentify(m) \/ PostReport(m) \/ Complete(m) \/ CompleteFails(m)

Next == Operator \/ \E m \in Machines : Run(m) \/ Reset(m)

Spec == Init /\ [][Next]_vars

(* A machine that is on goes on: its scripts wait for nothing but calls    *)
(* that are answered or fail.                                              *)
FairSpec == Spec /\ \A m \in Machines : WF_vars(Run(m))
-----------------------------------------------------------------------------
(* Properties                                                              *)

(* Types of the tasks and of what a machine knows.                         *)
TypeOK ==
    /\ tasks \in [SNs -> Task \cup {NoTask}]
    /\ lastId \in 0 .. MaxTasks
    /\ mach \in [Machines -> Machine]
    /\ trail \subseteq [machine : Machines, task : 1 .. MaxTasks,
                       how : {"applied", "cut", "completed"}]
    /\ completed \subseteq [task : 1 .. MaxTasks, sn : SNs, prov : Config \cup {NoTask}]
    /\ losses \in 0 .. MaxLosses /\ resets \in 0 .. MaxResets

Was(m, c, how) == [machine |-> m, task |-> c.id, how |-> how] \in trail

(* A machine is not installed again for a task it was installed for, unless *)
(* the completion of that installation was cut off by a lost call or by a  *)
(* reset; and never when the engine has handled the completion.            *)
InstalledOncePerTask ==
    \A m \in Machines :
        LET c == mach[m].prov
        IN  At(m, "install") /\ c # NoTask /\ Was(m, c, "applied") =>
                Was(m, c, "cut") /\ ~ Was(m, c, "completed")

(* A task that ends as completed is the one by which the disk of the       *)
(* machine was laid out, or one that was pushed over it since: never one   *)
(* of another serial number or an older one. (A machine installed with the *)
(* defaults does end the task of its serial number.)                       *)
CompletesItsInstallation ==
    \A c \in completed :
        c.prov # NoTask => c.prov.sn = c.sn /\ c.prov.id <= c.task

(* The hostname that %post sets is that of the task by which the disk was  *)
(* laid out, or of one that was pushed over it since, whichever lookup     *)
(* found it and whatever became of it.                                     *)
HostnameFromItsTask ==
    \A m \in Machines :
        mach[m].pc \in {"post", "complete"} /\ mach[m].prov # NoTask =>
            /\ mach[m].host # NoTask
            /\ mach[m].host.sn = mach[m].prov.sn
            /\ mach[m].host.id >= mach[m].prov.id

(* A machine that was offered a task is installed with the defaults only   *)
(* when a call failed (kickstart), or when that task is gone (Ubuntu): what *)
(* the menu finds the pre script finds as well.                            *)
DefaultsOnlyWithoutTask ==
    \A m \in Machines :
        At(m, "install") /\ mach[m].prov = NoTask =>
            \/ mach[m].boot = "kickstart" /\ mach[m].lost
            \/ mach[m].boot = "cloud-init" /\ \A t \in Open : t.id # mach[m].offer

(* A task by which a machine is being installed has left "pending", unless *)
(* an event was lost or DMI names another serial number to the kickstart   *)
(* script, which then reports under that one.                              *)
StatusFollowsMachine ==
    \A m \in Machines :
        LET c == mach[m].prov
        IN  /\ mach[m].pc \in {"install", "identify", "post", "complete"}
            /\ c # NoTask /\ ~ mach[m].lost
            /\ mach[m].boot = "kickstart" => Dmi[m] \in {NoSN, c.sn}
            /\ tasks[c.sn] # NoTask /\ tasks[c.sn].id = c.id
            => tasks[c.sn].status # "pending"

(* Every machine that boots ends up on its disk or stands still: it is not *)
(* installed over and over, as long as not every completion is lost.       *)
EveryBootSettles ==
    \A m \in Machines : At(m, "menu") ~> mach[m].pc \in {"local", "halted"}
=============================================================================
