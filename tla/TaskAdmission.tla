--------------------------- MODULE TaskAdmission ----------------------------
(***************************************************************************)
(* From a task that is asked for to the machine that boots it, over the    *)
(* catalog, the mounts and the files: taskCreateHandler and create_task    *)
(* check everything an OS template rests on, resource by resource, read    *)
(* the template again to inherit its scripts and files, and insert the     *)
(* task; bootBySNHandler, the file server and kickstartHandler or          *)
(* cloudInitUserDataHandler use it all again when the machine boots.       *)
(*                                                                         *)
(* The parts of Catalog and IsoMounts run beside, step by step. Requests   *)
(* with scripts or files of their own, which inherit none, and requests    *)
(* without an OS, which nothing is checked for, are left out, and so are   *)
(* those that IsRunning refuses, which change nothing.                     *)
(***************************************************************************)
EXTENDS IsoMounts

CONSTANTS
    Templates, Scripts, Extras, Values, Empty, Refs, Seeds, Handlers, MaxCalls,
    MayFail, NoRow,     \* those of Catalog
    SNs,                \* serial numbers of machines
    Admitters,          \* handler goroutines that create tasks
    Names,              \* template files
    IsoOf, PathOf, NameOf, BootOf,  \* iso_path, distro_path, template and boot_type
                        \* of a resources column
    Base,               \* Base[i]: the image under the base name of i in boot/iso
    Fallbacks,          \* Fallbacks[b]: the files tried when that of b is not there
    Unpacked,           \* paths with content on disk, mounted or not
    MaxCreates,         \* bound: tasks created
    MaxAsks             \* bound: requests, and changes of files, of any kind

ASSUME AdmissionAssumption ==
    /\ MaxCreates \in Nat /\ MaxAsks \in Nat
    /\ IsoOf \in [Values -> Isos \cup {Empty}]
    /\ PathOf \in [Values -> Paths \cup {Empty}]
    /\ NameOf \in [Values -> Names \cup {Empty}]
    /\ BootOf \in [Values -> {"kickstart", "cloud-init", "other"}]
    /\ Base \in [Isos -> Isos]
    /\ Fallbacks \in [Templates -> Seq(Names)]
    /\ Unpacked \subseteq Paths
    /\ Admitters \cap SNs = {}

VARIABLES
    rows, call, calls, imported, meant, raced, dropped,     \* those of Catalog
    file,               \* template files: absent, empty while written, or whole
    stored,             \* files under boot/http: the bids whose directory has one
    tasks, lastId,      \* the row of each machine, and the last id given out
    acall,              \* what each request for a task is at
    machine,            \* how far each machine came with its last boot
    asks,               \* requests and changes so far
    intact              \* history variable: requests and tasks nothing was taken from

Cat == INSTANCE Catalog

catalogVars == <<rows, call, calls, imported, meant, raced, dropped>>
diskVars == <<file, stored>>
taskVars == <<tasks, lastId, acall>>
vars == <<catalogVars, mountVars, diskVars, taskVars, machine, asks, intact>>

Ids == 1 .. MaxCreates
Task == [id : Ids, os : Templates, scripts : SUBSET Scripts, extras : SUBSET Extras,
         known : SUBSET Extras]
ACall == [pc : {"row", "template", "iso", "repo", "scripts", "files", "inherit",
                "inheritScripts", "inheritFiles", "insert", "readBack"},
          sn : SNs, os : Templates, row : Cat!OSTemplate \cup {NoRow},
          scripts : SUBSET Scripts, extras : SUBSET Extras, known : SUBSET Extras]
Machine == [id : Ids, os : Templates, pc : {"find", "kernel", "answer", "render", "end"},
            row : Cat!OSTemplate \cup {NoRow}, tried : Nat,
            got : {"nothing", "shell", "whole", "empty"}, from : Names \cup {Empty}]

ASSUME PartsAssumption ==
    /\ Cat!CatalogAssumption /\ Cat!CallAssumption
    /\ Seeds \in [Cat!Keys -> Cat!Row \cup {NoRow}]
    /\ NoRow \notin Task /\ Idle \notin ACall /\ Idle \notin Machine

(* The engine starts with the bundled rows imported and its template files *)
(* as it is installed, and whatever images and files the host has.         *)
Init ==
    /\ rows = Seeds /\ meant = Seeds /\ imported = TRUE
    /\ call = [h \in Handlers |-> Idle] /\ calls = 0 /\ raced = {} /\ dropped = {}
    /\ MountInit
    /\ file = [n \in Names |-> "whole"]
    /\ stored \in SUBSET Extras
    /\ asks = 0
    /\ tasks = [s \in SNs |-> NoRow] /\ lastId = 0
    /\ acall = [a \in Admitters |-> Idle]
    /\ machine = [s \in SNs |-> Idle]
    /\ intact = {}

At(a, pc) == acall[a] # Idle /\ acall[a].pc = pc
Goto(a, pc) == acall' = [acall EXCEPT ![a].pc = pc]
Return(a) == acall' = [acall EXCEPT ![a] = Idle]
(* A check that fails makes the answer "not ready"; the ones after it have *)
(* no effect.                                                              *)
Check(a, pc, ok, next) ==
    /\ At(a, pc)
    /\ IF ok THEN Goto(a, next) ELSE Return(a)
    /\ UNCHANGED <<tasks, lastId>>

ListedScripts(row) == Refs[row["lists"]] \cap Scripts
ListedExtras(row) == Refs[row["lists"]] \cap Extras
InDB(S) == {k \in S : rows[k] # NoRow}

(* isMountPointOrHasContent.                                               *)
HasContent(p) == IsMountPoint(p) \/ p \in Unpacked

TemplateOK(row) == LET n == NameOf[row["resources"]] IN n # Empty => file[n] # "absent"
IsoOK(row) == LET i == IsoOf[row["resources"]] IN i # Empty => i \in images
RepoOK(row) == LET p == PathOf[row["resources"]] IN p # Empty => HasContent(p)
ScriptsOK(row) == ListedScripts(row) \subseteq InDB(Scripts)
FilesOK(row) == ListedExtras(row) \subseteq stored
-----------------------------------------------------------------------------
(* Creating a task                                                         *)

CreateRequest(a, s, b) ==
    /\ acall[a] = Idle
    /\ acall' = [acall EXCEPT ![a] =
                    [pc |-> "row", sn |-> s, os |-> b, row |-> NoRow,
                     scripts |-> {}, extras |-> {}, known |-> InDB(Extras)]]
    /\ UNCHANGED <<tasks, lastId>>

(* ValidateOSTemplate reads the row once.                                  *)
ReadRow(a) ==
    /\ At(a, "row")
    /\ LET row == rows[acall[a].os]
       IN  IF row = NoRow THEN Return(a)
           ELSE acall' = [acall EXCEPT ![a].pc = "template", ![a].row = row]
    /\ UNCHANGED <<tasks, lastId>>

CheckTemplate(a) == Check(a, "template", TemplateOK(acall[a].row), "iso")
CheckIso(a) == Check(a, "iso", IsoOK(acall[a].row), "repo")

(* Mutant: the mount is taken for granted when the image is there.         *)
SkipRepo(a) == Check(a, "repo", TRUE, "scripts")

CheckRepo(a) == Check(a, "repo", RepoOK(acall[a].row), "scripts")
CheckScripts(a) == Check(a, "scripts", ScriptsOK(acall[a].row), "files")
CheckFiles(a) == Check(a, "files", FilesOK(acall[a].row), "inherit")

(* InheritTemplateResources reads it again, and inherits nothing when it   *)
(* is gone; scripts and files that are not in the catalog are skipped.     *)
InheritRow(a) ==
    /\ At(a, "inherit")
    /\ LET row == rows[acall[a].os]
       IN  acall' = [acall EXCEPT ![a].row = row,
                         ![a].pc = IF row = NoRow THEN "insert" ELSE "inheritScripts"]
    /\ UNCHANGED <<tasks, lastId>>

InheritScripts(a) ==
    /\ At(a, "inheritScripts")
    /\ acall' = [acall EXCEPT ![a].pc = "inheritFiles",
                     ![a].scripts = InDB(ListedScripts(acall[a].row))]
    /\ UNCHANGED <<tasks, lastId>>

InheritFiles(a) ==
    /\ At(a, "inheritFiles")
    /\ acall' = [acall EXCEPT ![a].pc = "insert",
                     ![a].extras = InDB(ListedExtras(acall[a].row))]
    /\ UNCHANGED <<tasks, lastId>>

(* CreateTask: sn is UNIQUE; a second task of a machine is a conflict.     *)
InsertTask(a) ==
    /\ At(a, "insert")
    /\ LET c == acall[a]
       IN  IF tasks[c.sn] # NoRow THEN Return(a) /\ UNCHANGED <<tasks, lastId>>
           ELSE /\ lastId < MaxCreates /\ lastId' = lastId + 1
                /\ tasks' = [tasks EXCEPT ![c.sn] =
                       [id |-> lastId', os |-> c.os, scripts |-> c.scripts,
                        extras |-> c.extras, known |-> c.known]]
                /\ acall' = [acall EXCEPT ![a].pc = "readBack"]

(* GetTaskBySN, outside the write lock: the row that the machine has by    *)
(* now, no row (a conflict), or an error, is what the caller is told; what *)
(* was inserted stays in every case.                                       *)
ReadBack(a) ==
    /\ At(a, "readBack")
    /\ Return(a)
    /\ UNCHANGED <<tasks, lastId>>

(* A task is deleted, by an operator or on completion.                     *)
DeleteTask(s) ==
    /\ tasks[s] # NoRow
    /\ tasks' = [tasks EXCEPT ![s] = NoRow]
    /\ UNCHANGED <<lastId, acall>>

(* A batch or a sync replaces the row, with an OS that nobody validated.   *)
PushTask(s, b) ==
    /\ lastId < MaxCreates /\ lastId' = lastId + 1
    /\ tasks' = [tasks EXCEPT ![s] =
           [id |-> lastId', os |-> b, scripts |-> {}, extras |-> {}, known |-> {}]]
    /\ UNCHANGED acall

Validate(a) ==
    ReadRow(a) \/ CheckTemplate(a) \/ CheckIso(a) \/ CheckRepo(a) \/ CheckScripts(a) \/ CheckFiles(a)

AskTask ==
    /\ \/ \E a \in Admitters, s \in SNs, b \in Templates : CreateRequest(a, s, b)
       \/ \E s \in SNs : DeleteTask(s) \/ \E b \in Templates : PushTask(s, b)
    /\ UNCHANGED <<catalogVars, mountVars, diskVars, machine>>

Admit ==
    /\ \E a \in Admitters :
          \/ Validate(a)
          \/ InheritRow(a) \/ InheritScripts(a) \/ InheritFiles(a)
          \/ InsertTask(a) \/ ReadBack(a)
    /\ UNCHANGED <<catalogVars, mountVars, diskVars, machine>>
-----------------------------------------------------------------------------
(* Template files, and files under boot/http                               *)

(* templateUpsertHandler, template_push, SaveTemplates: os.WriteFile       *)
(* truncates the file and then writes it.                                  *)
TruncateTemplate(n) == file' = [file EXCEPT ![n] = "empty"] /\ UNCHANGED stored
FillTemplate(n) ==
    file[n] = "empty" /\ file' = [file EXCEPT ![n] = "whole"] /\ UNCHANGED stored
DeleteTemplate(n) ==
    file[n] # "absent" /\ file' = [file EXCEPT ![n] = "absent"] /\ UNCHANGED stored

StoreFile(x) == x \notin stored /\ stored' = stored \cup {x} /\ UNCHANGED file
RemoveFile(x) == x \in stored /\ stored' = stored \ {x} /\ UNCHANGED file

AskDisk ==
    /\ \/ \E n \in Names : TruncateTemplate(n) \/ DeleteTemplate(n)
       \/ \E x \in Extras : StoreFile(x) \/ RemoveFile(x)
    /\ UNCHANGED <<catalogVars, mountVars, taskVars, machine>>

Fill ==
    /\ \E n \in Names : FillTemplate(n)
    /\ UNCHANGED <<catalogVars, mountVars, taskVars, machine>>

(* Mutant: a template without an image is mounted.                         *)
MountUnnamed(m, b) ==
    /\ rows[b] # NoRow
    /\ LET r == rows[b]["resources"] IN RequestMount(m, IsoOf[r], PathOf[r])

(* mount_iso with the bid of a template takes image and path from its row, *)
(* which it reads once; what the row leaves open is as any other request.  *)
MountTemplate(m, b) ==
    /\ rows[b] # NoRow
    /\ LET r == rows[b]["resources"]
       IN  IsoOf[r] # Empty /\ PathOf[r] # Empty /\ RequestMount(m, IsoOf[r], PathOf[r])

AskImage ==
    /\ AskMount \/ \E m \in Mounters, b \in Templates : MountTemplate(m, b)
    /\ UNCHANGED <<catalogVars, diskVars, taskVars, machine>>

Mounting ==
    /\ \E m \in Mounters : ContinueMount(m)
    /\ UNCHANGED <<catalogVars, diskVars, taskVars, machine>>
-----------------------------------------------------------------------------
(* Booting a task                                                          *)

MachineAt(s, pc) == machine[s] # Idle /\ machine[s].pc = pc
End(s, got, from) ==
    machine' = [machine EXCEPT ![s].pc = "end", ![s].tried = 0, ![s].got = got, ![s].from = from]

BootBySN(s) ==
    /\ tasks[s] # NoRow
    /\ machine' = [machine EXCEPT ![s] =
           [id |-> tasks[s].id, os |-> tasks[s].os, pc |-> "find", row |-> NoRow,
            tried |-> 0, got |-> "nothing", from |-> Empty]]

(* No row with the bid of the task: "No OS template found".                *)
FindBootTemplate(s) ==
    /\ MachineAt(s, "find")
    /\ LET row == rows[machine[s].os]
       IN  IF row = NoRow THEN End(s, "shell", Empty)
           ELSE machine' = [machine EXCEPT ![s].pc = "kernel", ![s].row = row]

(* Kernel and initrd come from the path of the template, and the installer *)
(* of cloud-init fetches the image besides, by its base name from boot/iso. *)
(* Any other boot type gets no kernel at all: goto failed.                 *)
Bootable(row) ==
    LET r == row["resources"]
    IN  /\ PathOf[r] # Empty /\ RepoOK(row)
        /\ \/ BootOf[r] = "kickstart"
           \/ BootOf[r] = "cloud-init" /\ IsoOf[r] # Empty /\ Base[IsoOf[r]] \in images

FetchKernel(s) ==
    /\ MachineAt(s, "kernel")
    /\ IF Bootable(machine[s].row) THEN machine' = [machine EXCEPT ![s].pc = "answer"]
       ELSE End(s, "shell", Empty)

(* kickstartHandler and cloudInitUserDataHandler look the row up again.    *)
AskAnswer(s) ==
    /\ MachineAt(s, "answer")
    /\ machine' = [machine EXCEPT ![s].pc = "render", ![s].tried = 0,
                                  ![s].row = rows[machine[s].os]]

OwnFile(row) == IF row = NoRow THEN Empty ELSE NameOf[row["resources"]]

(* One file after the other is tried, as it is at the time; "no template   *)
(* available" is an answer file without a line.                            *)
TryNext(s, files) ==
    /\ MachineAt(s, "render")
    /\ LET i == machine[s].tried + 1
       IN  IF i > Len(files) THEN End(s, "nothing", Empty)
           ELSE IF files[i] # Empty /\ file[files[i]] # "absent" THEN End(s, file[files[i]], files[i])
           ELSE machine' = [machine EXCEPT ![s].tried = i]

(* Mutant: the files for any OS are tried before that of the template.     *)
RenderFallbackFirst(s) ==
    TryNext(s, Fallbacks[machine[s].os] \o <<OwnFile(machine[s].row)>>)

(* The file of the template, or a fallback.                                *)
RenderAnswer(s) ==
    TryNext(s, <<OwnFile(machine[s].row)>> \o Fallbacks[machine[s].os])

AskBoot ==
    /\ \E s \in SNs : BootBySN(s)
    /\ UNCHANGED <<catalogVars, mountVars, diskVars, taskVars>>

Boot ==
    /\ \E s \in SNs : FindBootTemplate(s) \/ FetchKernel(s) \/ AskAnswer(s) \/ RenderAnswer(s)
    /\ UNCHANGED <<catalogVars, mountVars, diskVars, taskVars>>
-----------------------------------------------------------------------------
(* The OS whose resources a request or a task rests on: nothing of it is   *)
(* changed or taken away by the step, and its file is not being written.   *)
Spared(b) ==
    /\ rows'[b] = rows[b]
    /\ rows[b] # NoRow =>
          LET r == rows[b]["resources"]
          IN  /\ NameOf[r] # Empty =>
                    /\ file'[NameOf[r]] # "empty"
                    /\ file[NameOf[r]] = "whole" => file'[NameOf[r]] = "whole"
              /\ IsoOf[r] \in images => IsoOf[r] \in images'
              /\ PathOf[r] \in Paths => (IsMountPoint(PathOf[r]) => mounts'[PathOf[r]] # << >>)
              /\ ListedExtras(rows[b]) \cap stored \subseteq stored'

Started(a) == acall[a] = Idle /\ acall'[a] # Idle
Inserted(a, s) == At(a, "insert") /\ acall[a].sn = s /\ tasks'[s] # tasks[s]

Track ==
    intact' =
        {a \in Admitters : /\ acall'[a] # Idle
                           /\ Started(a) \/ a \in intact
                           /\ Spared(acall'[a].os)}
        \cup
        {s \in SNs : /\ tasks'[s] # NoRow
                     /\ \/ s \in intact /\ tasks'[s] = tasks[s]
                        \/ \E a \in Admitters \cap intact : Inserted(a, s) /\ acall'[a] # acall[a]
                     /\ Spared(tasks'[s].os)}

(* The engine dies, alone or with the host: every request ends where it is. *)
EngineDies ==
    /\ call' = [h \in Handlers |-> Idle]
    /\ acall' = [a \in Admitters |-> Idle]
    /\ UNCHANGED <<rows, calls, imported, meant, raced, dropped, diskVars, tasks, lastId, machine>>

(* A mount(8) or umount(8) that runs by then may go on without it.         *)
Crash ==
    /\ EngineDies
    /\ \E S \in SUBSET {m \in Mounters : MountAt(m, "mount") \/ MountAt(m, "umount")} :
          mcall' = [m \in Mounters |-> IF m \in S THEN mcall[m] ELSE Idle]
    /\ UNCHANGED <<images, mounts, mcalls, reboots, stacking>>

Ask ==
    /\ asks < MaxAsks /\ asks' = asks + 1
    /\ \/ AskTask \/ AskDisk \/ AskImage \/ AskBoot
       \/ Cat!Ask /\ UNCHANGED <<mountVars, diskVars, taskVars, machine>>

Work ==
    /\ \/ Admit \/ Fill \/ Mounting \/ Boot
       \/ Cat!Work /\ UNCHANGED <<mountVars, diskVars, taskVars, machine>>
       \/ Crash
       \/ EngineDies /\ Reboot
    /\ UNCHANGED asks

Next == (Ask \/ Work) /\ Track

Spec == Init /\ [][Next]_vars
-----------------------------------------------------------------------------
(* Properties                                                              *)

(* Types of the parts, of the files, tasks, requests and machines.         *)
TypeOK ==
    /\ Cat!TypeOK /\ MountTypeOK
    /\ file \in [Names -> {"absent", "empty", "whole"}]
    /\ stored \subseteq Extras
    /\ tasks \in [SNs -> Task \cup {NoRow}]
    /\ lastId \in 0 .. MaxCreates /\ asks \in 0 .. MaxAsks
    /\ acall \in [Admitters -> ACall \cup {Idle}]
    /\ machine \in [SNs -> Machine \cup {Idle}]
    /\ intact \subseteq Admitters \cup SNs

(* What was validated can be installed: a task that create_task accepted   *)
(* has everything its template names in place, with all of the scripts and *)
(* of the files registered by then, from the request on, until something   *)
(* of just that template is changed or taken away; whatever else is        *)
(* pushed, mounted, written or created meanwhile.                          *)
PromiseHolds ==
    \A s \in SNs \cap intact :
        LET t == tasks[s]
            row == rows[t.os]
        IN  /\ row # NoRow
            /\ TemplateOK(row) /\ IsoOK(row) /\ RepoOK(row) /\ FilesOK(row)
            /\ t.scripts = ListedScripts(row)
            /\ ListedExtras(row) \cap t.known \subseteq t.extras

(* Such a task, its template naming a path and an answer file, boots: the  *)
(* machine comes as far as that file and gets it whole, and no fallback.   *)
GetsItsFile(s) ==
    machine[s] # Idle /\ machine[s].id = tasks[s].id /\ machine[s].pc = "end" =>
        LET r == rows[tasks[s].os]["resources"]
        IN  NameOf[r] # Empty /\ PathOf[r] # Empty =>
                machine[s].got = "whole" /\ machine[s].from = NameOf[r]

(* The boot types that a machine can be started for, with an image that is *)
(* directly in boot/iso where one is fetched.                              *)
Startable(r) ==
    \/ BootOf[r] = "kickstart"
    \/ BootOf[r] = "cloud-init" /\ IsoOf[r] # Empty /\ Base[IsoOf[r]] = IsoOf[r]

(* A machine that boots such a task, of a template that can be started,    *)
(* gets its file, through the five reads of three handlers.                *)
BootsAsPromised ==
    \A s \in SNs \cap intact : Startable(rows[tasks[s].os]["resources"]) => GetsItsFile(s)
=============================================================================
