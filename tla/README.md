# infra-pxe in TLA+

Specifications, model-checking runs and proofs for the PXE engine in `src/`: one Go
process that keeps provisioning tasks in SQLite, drives a dnsmasq child process, serves
boot files, and answers a REST API, an MCP server and the shell scripts of the machines
it installs.

    tlc -workers 2 -config lifecycle_safety.cfg MCTaskLifecycle     # a run
    tlapm TaskLifecycleProofs.tla                                   # the proofs

## The system

Every HTTP request and every MCP call runs in a goroutine of its own. Four kinds of state
are shared, with very different protection:

| state | where | protection |
|---|---|---|
| tables `tasks`, `results`, `config`, `os_templates`, ... | SQLite | `DB.wmu` makes each statement or transaction atomic; nothing spans two of them |
| archives, hosts file, template files, images | file system | none; every read, truncation, write, rename is a step of its own |
| `Manager.pid`, the pid file, the dnsmasq process | memory, disk, kernel | none |
| mounts of ISO images | kernel | none, between the look at `/proc/mounts` and mount(8) |
| progress of downloads | memory | a lock around each access of the map, none around check-then-set |

So a handler is a sequence of atomic steps, and that is how all modules here are built: a
handler goroutine holds a `call` with a program counter, each action is one step of it, and
the process can die between any two.

### Components

| component | state | operations | hard behaviour | what makes it correct |
|---|---|---|---|---|
| task store (`internal/db`, `internal/store`) | `tasks`, AUTOINCREMENT, `results` | create, update, delete, batch (INSERT OR REPLACE), delete on completion | a push replaces a task whose installation runs; ids outlive rows | ids identify one task for good; a task ends once, and as completed only on the record |
| installation callbacks (`handler.go`) | `results`, `tasks.status`, `logs/installs/<sn>.json` | event, components, hardware, complete | read-modify-write of the archive; delete by serial number several steps after the lookup; errors dropped | the archive says nothing the database does not; a status has an event behind it |
| sync (`handler.go`, `store.go`) | `sync_version`, tasks, server address, templates | `POST /api/sync` | redelivery, late delivery, overlap, crash half way, rejected transaction, dropped errors | a recorded version lacks nothing but what an error was dropped for; a completed task returns only with a version that was not recorded |
| dnsmasq manager (`dnsmasq.go`, `dhcp.go`) | `Manager.pid`, pid file, `dnsmasq.conf`, `dhcp_*` keys | start, stop, reload, update, auto-start, shutdown | no lock; process ids reused; dnsmasq outlives the engine; a shutdown beside requests | no server goes on with an old configuration; an update leaves the right server running, a shutdown none |
| DHCP bindings (`dhcp.go`) | `dnsmasq.hostsfile`, what dnsmasq read of it | create, delete, reload | append against rewrite; check-then-append | the file is the table of bindings; dnsmasq serves the file |
| downloads, files (`iso_download.go`, `file_pull.go`, `file.go`, MCP) | temporary and final files, progress map | pull, upload, `wget -O`, delete, check | shared temporary name, partial files, crash | what machines install from is whole; no status outlives its goroutine |
| ISO mounts (`iso.go`, MCP) | mount table, images | mount, unmount | check-then-mount; a reboot of the host unmounts | one mount per path |
| OS templates, scripts, files (`os_templates.go`, `scripts_files.go`, MCP, seeds) | three tables | upsert, delete, sync, update of columns, seed import | read-modify-write in two statements; an import cut off half way | no column is lost; a bundled template finds what it lists |
| validation (`validate.go`, `tasks_crud.go`) | - | validate, inherit, create | validated over seven reads, then used at boot | an accepted task can be installed |
| boot rendering | reads tasks, templates, files | menu, kickstart, cloud-init, by SN, by MAC | a MAC named by two tasks, a template that is gone | the machine gets its own task |
| installer scripts (`templates/scripts`, `*.j2`) | `SN`, `provision.json`, the disk | pre, post, dhcp hook | lost calls, fallback from serial number to MAC, task replaced half way | a machine ends the task it was installed by, and is installed once |
| server start and shutdown (`server.go`) | - | auto-start, SIGTERM, `POST /api/shutdown` | shutdown with handlers in flight | nothing is left running |
| MCP server | that of the handlers | the tools | bodies of its own beside those of the handlers | as the handlers |
| webhook, CLI, config, logger | - | - | - | - |

`PROJECT.json` lists the components with their status, and the hazards with their lines.

## The modules

`TaskContract` and `BindingTable` are the abstract specifications. `TaskLifecycle` implements the
former: the engine's side of an installation; `DhcpBindings` the latter. `Installer` is the machine's side, over the same tasks, with the engine's
handlers as single steps. `TaskAdmission` is the way from a request for a task to the boot of
its machine; it composes `Catalog` (by INSTANCE) and `IsoMounts` (by EXTENDS), whose steps run
beside its own. The other components share no state with the tasks but the process that dies;
each is a module of its own and touches the others only where said below.

### TaskContract
The promise, without handlers: machine `s` has at most one open task (`open[s]`), ids grow,
a task ends by `Cancel`, by a `Push` over it, or by `Complete`, which asks for an
installation on record.

### TaskLifecycle
| state | code |
|---|---|
| `tasks`, `nextId` | table `tasks` and its `sqlite_sequence` |
| `results` | table `results`, as a set of (machine, kind, task id) |
| `archive` | `logs/installs/<sn>.json`: whole, truncated (between open and write of `os.WriteFile`), or garbled |
| `call` | handler goroutines: `save`, `read`, `truncate`, `write`, `remove`, `update` |
| `closed` | history variable: which tasks ended, and how |

`CreateTask`, `UpdateTask`, `DeleteTask`, `BatchCreateTasks` are the operators' requests, one
transaction each. A batch may name one machine twice: the later row replaces the earlier, and
ids in between are used up. `SaveEvent` and `UpdateStatus` are pxeEventHandler (the history
row, then the status of whatever row is there); `SaveReport` starts the components and
hardware handlers; `FindTask`, `SaveInstalled`, `ReadArchive`, `TruncateArchive`,
`WriteArchive`, `RemoveTaskBySN` are provisionCompleteHandler. `Crash` ends every call.
`DbMayFail` lets the statements fail whose errors the code drops. Replies are abstracted
from; what a creation is told after its read-back is in `TaskAdmission`. dnsmasq being down
only makes a create fail.

### Sync
| state | code |
|---|---|
| `version`, `kept` | the keys of `config`: `sync_version`, the two of the server address; and the table `os_templates` |
| `rows` | table `tasks`, by machine |
| `files` | template files; 0 for one that is absent, empty or cut short |
| `call` | syncHandler: `tasks`, `ip`, `port`, `os_templates`, `files`, `version` are the writes to come |
| `written`, `done`, `lost`, `torn`, `cut` | history variables: rows written, tasks ended, parts lost with a dropped error, files cut short, versions not recorded after their tasks were written |

Each row, key and file is represented by the version that wrote it, and a version may leave parts
out (`Pushed`, `Brings`). `CheckVersion` is the comparison at the top of syncHandler; then come
`SaveTasks` (one transaction; `Stored` leaves out the tasks that do not parse, and all of them when
one has no network), `SaveKey` for the two keys and the OS templates, `TruncateTemplate` and
`WriteTemplate` for each file in any order, and `SetSyncVersion`. The handler drops the error of every
one of them, and of the SELECT of the recorded version, which then counts as 0: `CheckFails`,
`SaveTasksFails`, `SaveKeyFails`, `OpenTemplateFails`, `WriteTemplateFails`, `SetSyncVersionFails`.
`TaskEnds` is a completion or a deletion, from TaskLifecycle. A payload without a version skips the
comparison and is left out.

### DnsmasqManager
`proc` is what the kernel has for each process id: nothing, dnsmasq, a zombie, another
program. `Start` is CheckRunning, PkillStray, StatConfig, RestoreConfig, Spawn, OwnPid,
RecordPid, VerifyPid, DropPidFile; `Stop` is TermOwn, ForgetOwn, TermRecorded, RemovePidFile,
PkillAndEndStop; the update of the configuration is SetInterface, SetRange, WriteConfig and
then both. The eight `dhcp_*` keys are represented by two, which is enough for a mixture of
two updates. `Restart` is the death of the engine: dnsmasq, in a session of its own, may
live on; the restarted engine starts it before it serves requests (server.go:40). `SpawnFails` is a process that
cannot be started. A signal takes effect at once, pid-file accesses and the write of the
configuration are atomic, and a second dnsmasq exits because its ports are taken.

An engine also ends in order. `Sigterm` closes the listener, `Drain` waits for the requests in
flight or gives up after five seconds, and the deferred Stop runs (server.go:35, 71); `ShutdownCall`
is the goroutine of `POST /api/shutdown`, which runs Stop while requests are still taken and
served. Either ends in `Exit`. After the Stop of shutdownHandler, its cancelFunc also wakes
`Run`, whose deferred Stop may begin before `os.Exit(0)` in the next statement ends the process;
that second Stop, of which any prefix may run, is left out.

### DhcpBindings
`file` is the hosts file line by line, `loaded` what dnsmasq read of it, `hup` a SIGHUP on
its way. A create is a check and an append; a delete is a read, a truncation and a write from
offset 0, over whatever was appended in between (`Overwritten`: a tail of it stays, its first
line perhaps cut). The REST handlers and the MCP tools have the same bodies.

`BindingTable` is what that promises: one table, at most one binding of a MAC, which a request
changes at once, between its call and its answer, and which dnsmasq serves as it was when it last
looked. In `DhcpBindings` a create takes effect when it appends. A delete takes effect when it
truncates: from then on the table is what it kept, which is in its hands until it is in the file, and
a dnsmasq that looks in between serves nothing, as `Serve` allows. The promise is `spoiled` where
calls overlapped that must not, or a rewrite was cut short (`raced`): nothing in the code prevents
either, and what is left of the file then is in `Overwritten`.

### Downloads
A file's content is the set of chunks in it; a writer has a `handle` on what is now the
temporary file, the final one, or neither, as `rename` and `remove` move names away under
open files. Pulls of ISO images and of files have the same code. Uploads and the MCP download
write in place. `EndsEarly` is a body of no declared length that breaks off, which the copy loop takes for
its end (iso_download.go:168). The `wget` of the MCP download is a process of its own and may go on when
the engine dies; every other worker ends with it. `progress` is the map of progress objects: the status, and whether the
goroutine that can still change it is there.

### Catalog
| state | code |
|---|---|
| `rows` | tables `os_templates`, `scripts`, `files`: a template has a column for what an installation needs (`resources`: ISO, path, template file, boot type), one for `script_bids` and `file_bids`, and one for the rest |
| `call` | update_os_template, and the seed imports, between reading a row and writing it |
| `meant`, `raced` | history variables: the rows had every request been atomic, and the keys written under a request that had read them, or whose lookup failed |
| `dropped` | history variable: bundled keys that an import passed over with an error |

`UpsertOSTemplate`, `SaveOSTemplates` (a sync, of the old format too, which has no lists),
`DeleteOSTemplate`, `CreateScript`, `CreateFile` write whole rows. `FindOSTemplate` and
`SaveUpdate` are the two statements of update_os_template; `SeedImport`, `LookUpSeed`, `PutSeed`,
`EndImport` the import, which takes templates first, then scripts, then files, and over REST
stops after the templates. An error ends
none of its parts: a lookup that fails counts as a row that is not there (`LookUpFails`), a row that cannot
be written is passed over (`PutSeedFails`), a file of scripts or files that is missing or does not parse
is passed over as a whole (`SkipSeeds`), and the import ends as if nothing had happened.
`SaveUpdateFails` is the only error a caller must act on.

### IsoMounts
`mounts[p]` is the stack of images at `p`, as the kernel keeps it. `StatIso`, `CheckMounted`,
`MountIso` are isoMountHandler and mount_iso, `CheckUmount`, `Umount` isoUmountHandler; the
command may fail at any time; images come and go; `Reboot` empties the mount table, and
nothing in the code mounts anything again.

### TaskAdmission
| state | code |
|---|---|
| `acall` | taskCreateHandler and create_task: `row`, `template`, `iso`, `repo`, `scripts`, `files` are the reads of ValidateOSTemplate, then the three of InheritTemplateResources, `insert`, `readBack` |
| `tasks`, `lastId` | the rows, with the OS they name and what they inherited |
| `file` | template files: absent, empty (between open and write of `os.WriteFile`), whole |
| `stored` | which files of the catalog have a file in their directory |
| `machine` | the boot of a task: its template, kernel and path, the second lookup, the answer file or a fallback, one after the other |
| `intact` | history variable: requests and tasks from whose template nothing was taken |

A task that somebody pushes or deletes, an upsert, an import, an unmount, a template file that is
written or deleted can come between any two of these steps, and so can the death of the
engine and of the host. Requests with scripts or files of their own, which inherit none, and
requests without an OS, which nothing is checked for, are left out, as are updates of a task's
OS. The machine directory is taken not to be a symbolic link, behind which isMountPoint would
not find the mount. A mount(8) or umount(8) that the engine started may finish after its death.

`Bootable` is what the boot script needs: a path that is mounted, and a boot type it knows; for cloud-init
also an image under the base name (`Base`) of the one the template names, while validation looks for
the image under the whole name. The images of `admission_safety` are directly in `boot/iso`, where the two agree;
the theorems are about any. The read-back of a creation changes nothing, whatever it finds.

### Installer
| state | code |
|---|---|
| `tasks`, `lastId` | the rows, with the MACs of their network and the boot type of their OS |
| `mach[m].pc` | where the machine is, from the menu to the next boot |
| `sn` | the shell variable `SN`; `NoSN` when DMI has none |
| `prov`, `host` | `provision.json` of the pre script, `/tmp/provision.json` of the post script |
| `left` | the ports whose MACs the loop of the pre script has not asked for |
| `trail`, `completed`, `lost` | history variables: tasks laid out, cut off, completed; failed calls |

`BootBySN` and `BootByMAC` are the default entry of the menu and the engine's answers;
`FetchPre` the installer fetching the answer file and its script; `Identify`, `PreBySN`, `PreByMAC`,
`PreUnmatched`, `PreReport` the pre script of the machine's family; `Install` what anaconda or
Subiquity does of itself; `PostIdentify`, `PostReport`, `Complete`, `CompleteFails` the post script.
The two families differ where the scripts do: in what a failed call does (the kickstart
script goes on, the Ubuntu one runs under `set -e`, and late-commands stop at a completion that is
not accepted), in whose serial number `SN` is, in what
happens without a task (anaconda stops for want of its include files, Subiquity installs with
defaults), and in whether post asks again. Events that follow each other with no call in between
that depends on the tasks are one event, of the status they leave. An operator pushes,
moves and deletes tasks between any two steps; `UpdateTask` is left out, as no property
tells it from a push except by the id. A task's settings are its id, so "the disk is laid out
by task 2" is `prov.id = 2`.

The module assumes that machines boot from the network first and take the default entry of
the menu, that every call reaches the engine or fails, and that a script is not edited while
machines run it.

## What the runs show

| run | instance | shows |
|---|---|---|
| `lifecycle_safety` | 2 machines, 2 handlers, 5 requests, ids to 3, batches of 2, crashes | types, `IdsAreNeverReused`, `CompletedIsInHistory`, `ArchiveBackedByHistory`, `StatusExplained`, `ImplementsContract` |
| `lifecycle_liveness` | 1 machine, 2 handlers, 4 requests, no crash | `CompletionEndsTask` |
| `lifecycle_stale` | violation | a completion ends a task created after the one it found |
| `sync_safety` | 3 versions with different parts over 2 machines and a template file, one rejected, one with a task that does not parse, 2 failures, crashes, any redelivery | `RecordedIsApplied`, `NoResurrection`, one delivery at a time |
| `sync_rejected` | violation | a version that was rolled back is recorded, and skipped from then on |
| `dnsmasq_safety` | 2 handlers, 3 requests, 2 process ids, a usable and an unusable configuration, 1 restart, any shutdowns | `NoStaleServer`, `UpdateRepairs`, `StopStops`, `ShutdownLeavesNothing` |
| `bindings_safety` | 3 handlers, 4 requests, 2 MACs, 2 addresses, 2 deaths | `TableIsExact`, `ServesTheFile`, `ImplementsTable` |
| `downloads_safety` | 3 workers on one file of 2 chunks, 4 requests, 1 crash | `ServedIsComplete`, `DownloadingIsAlive` |
| `installer_safety` | 2 machines (one with no serial number and two ports), 2 tasks, 1 lost call | `InstalledOncePerTask`, `CompletesItsInstallation`, `HostnameFromItsTask`, `DefaultsOnlyWithoutTask`, `StatusFollowsMachine` |
| `installer_liveness` | the machine without a serial number, 2 tasks, 2 lost calls, 1 reset | `EveryBootSettles`, `InstalledOncePerTask` |
| `catalog_safety` | 2 templates (one bundled), a script, a file, 2 handlers, 3 requests, failing statements, unreadable seeds, crashes | `RowsAsMeant`, `SeedsResolve` |
| `admission_safety` | 1 machine, 1 template with everything, 2 requests for tasks, 2 mounters, 1 update or import, 4 requests in all, crashes, 1 host reboot | `PromiseHolds`, `BootsAsPromised`, `OneMountPerPath` |

Every passing run also checks the `TypeOK` of its module, but `lifecycle_liveness` and
`installer_liveness`: that theorem is proved for every instance, theirs included. The violations are disagreements between the code and its own comments or documents;
`findings` in `PROJECT.json` quotes them.

**Bounds.** Every bound is a CONSTANT and appears in a guard. Two handlers are enough for every
race of two read-modify-writes and for an operator against an installer; a third request
before or after a race sets its stage or meets its remains, hence 4 or 5 requests. Three ids
let a task be created, replaced and created again while a completion of the first is in
flight. Two process ids are the smallest number with which an id is given out again while
another process runs. Two chunks are the smallest file that can be partly there. Two files,
machines or MACs are only needed where one operation writes several. In `Installer`, a machine
with a serial number and one port and one with neither a serial number nor a single port
are the two ways of being found; two tasks let a task be replaced, or take a port from another,
while a machine installs by it; the networks `{a1}` and `{b1}` leave one port of the second
machine named by no task, so that the menu and the loop of the pre script may differ. In
`TaskAdmission`, one template that names a resource of each kind, and an alternative with none,
give every check both outcomes; two requests for one machine race for its row; `MaxAsks` counts
everything that is asked from outside, and four are enough to create a task, boot it and
change two things in between. In `Sync`, the second version has less than the first, so that a newer one does
not cover an older one, and two failures let a part be lost and then the number of its version. In `Catalog`, the
statements may fail (`MayFail`) as often as they like; in the run of `TaskAdmission` they do not,
to keep it small; its theorems are about either. One mount at the start and two requests show a path mounted twice, were it not
for the check.

**Excuses.** Some properties hold only as long as calls that the code does not protect from
each other do not overlap. The overlap is then tracked by a history variable (`raced`,
`stacking`, `intact`, `tainted`, `torn`, `orphaned`, `alone`), and so is what was lost with an error that the code
drops (`lost`, `cut`, `dropped`), so that everything else - crashes, failures, calls on
other keys - stays in the run: `TableIsExact` up to a delete that overlaps a call or two
creates of one MAC, `ServedIsComplete` up to two pulls of one file, a write in place or a body
that breaks off unnoticed,
`NoStaleServer` up to a crash between an update's write and its pkill, `UpdateRepairs`,
`StopStops` and `ShutdownLeavesNothing` for calls that run alone, from any state (the first if a process
can be started),
`RecordedIsApplied` but for parts with a dropped error or a torn write, `NoResurrection` but for versions that
were not recorded after their tasks were written, `SeedsResolve` but for keys passed over with an error,
`RowsAsMeant` for rows that nobody wrote under a request that had read them and whose lookup did not fail, `OneMountPerPath` up
to two mount requests that both looked first, `PromiseHolds` and `BootsAsPromised` until
something of just the template of the task is changed or taken away. What is excused is not covered: the
properties say that the listed cases are the only ones, and where a comment or document of the
repository promises more, a violation run or the last section says so. In `Installer`, `InstalledOncePerTask` excepts
installations whose completion was cut off (a lost call, a reset), `DefaultsOnlyWithoutTask`
a kickstart machine that a call failed for, and `StatusFollowsMachine` a lost event and a
kickstart machine that DMI gives another serial number than its task: each of them does happen,
and is a step of the run.

**Deadlock** checking is off everywhere: requests are bounded and nobody has to send one, so
the system really may stop with nothing to do.

**Fairness.** `lifecycle_liveness` assumes weak fairness of the steps of each
handler goroutine once a request is in it, which the Go scheduler gives and which nothing in
those handlers blocks (the write lock is held for one transaction). It is not assumed that a
client sends anything, nor that the process lives: the run has no crash, because nothing in
the code resumes a completion that a restart cut off. Downloads have no liveness property:
`http.Get` has no timeout, and a server that stalls stalls its download for good.
`installer_liveness` assumes weak fairness of each machine's steps: its scripts wait for nothing but
loops that are bounded and calls, which are assumed to end, answered or not: curl is given a time to connect but none
to finish, so a server that accepts and never answers would hold a machine for good. Losses and resets are bounded,
because a machine that loses every completion is installed for ever.

## What is proved

`TaskLifecycleProofs` proves, for any sets of machines, handlers and stages and any bounds:

* `TypeCorrect`: `Spec => []TypeOK`. `TypeInv` adds what the program counter says of a call:
  only an event with a mapped stage comes to `update`, only a completion to `save` and
  `remove`.
* `IdsCorrect`: `Spec => []IdsAreNeverReused`. Not inductive alone: `IdInv` says that every id
  that a row, the history, a call in flight or the record of ended tasks names is below
  `nextId`, and that two of them that name one id name one machine. Without the calls a
  completion in flight could record an id of another machine.
* `CompletionRecorded`, `ArchiveBacked`, `StatusBacked`: the other three invariants, under
  `~ DbMayFail`. `RecordInv` adds that a call past its first step is already backed: what a
  handler is about to write to the archive, and the completion it is about to finish, are on
  record. That is the order of statements in the code.
* `LifecycleImplementsContract`: `Spec => ImplementsContract` under `~ DbMayFail`. Each step maps
  to a step of TaskContract or a stutter; `TypeInv`, `IdInv` and `RecordInv` provide the guards.

`~ DbMayFail` is needed: with `DbMayFail = TRUE`, TLC finds `CompletedIsInHistory` violated by a
history INSERT that fails, whose error `SaveResult` drops, and a task that is deleted off the
record; `ArchiveBackedByHistory` and `StatusExplained` rest on the same statement. The assumptions on
the constants are in `ConstantsAssumption`.

`InstallerProofs` proves, for any machines, serial numbers, ports, networks and bounds:

* `InstallerTypes`: `Spec => []TypeOK`.
* `InstallationCompletesItsTask`: `Spec => []CompletesItsInstallation`.
* `PostAppliesItsTask`: `Spec => []HostnameFromItsTask`.

* `InstallationIsNotRepeated`: `Spec => []InstalledOncePerTask`.
* `OfferedTaskIsFound`: `Spec => []DefaultsOnlyWithoutTask`.
* `TaskStatusFollowsMachine`: `Spec => []StatusFollowsMachine`.

The first three follow from one invariant, `Inv`. Its heart is `NotOvertaken`: the task a machine
remembers is never newer than the row of its serial number, which is what makes a second
lookup return the same task or a newer one; and `PostOK`: from the post script on, the
serial number a machine completes under is that of the task it was laid out by.

The other three need a second one beside it, `Runs`. `TrailOK`: a task that a machine was laid
out by is gone, unless its completion was cut off or the machine still is on its way there; it
holds over a completion because of `PostOK`, and because ids tell the rows apart (`Unique`).
`ProvOK`: what the pre script found was a row at that moment, hence not one that the machine was
done with. `OfferOK`: as long as the task on offer is there, it names the serial number of the
machine or one of the ports it has not looked up yet, which is the loop over the ports in
pxe-pre-ubuntu.sh. `StatusOK` is the property, of one machine. Between the steps of a machine the
table only `Evolves`: ids do not change, new ones are larger, no status becomes `pending`.

`CatalogProofs` proves, for any tables, values, seeds, handlers and bounds, `CatalogTypes`,
`UpdatesAreAtomic` (`Spec => []RowsAsMeant`) and `ImportsResolve` (`Spec => []SeedsResolve`).
`RowsAsMeant` needs what a request in flight remembers: `ReadIsCurrent`, that the row it read is
the row that is there unless the key is in `raced`, and `KnowsKey`, that an import without
overwrite holds a key that had no row. `SeedsResolve` needs `Covers`: every bundled script and
file is in the catalog, still to come or in the hand of each import of everything, or was passed
over with an error (`dropped`). The
assumption that bundled templates list only bundled scripts and files is `SeedsAssumption`, which
only `ImportsResolve` uses; `seeds/*.yaml` satisfy it.

`TaskAdmissionProofs` proves, for any templates, scripts, files, images, paths, machines, handlers
and bounds:

* of the mounts alone, `MountTypes` and `MountsDoNotPileUp` (`MountSpec => []OneMountPerPath`).
  `Exclusive` is the strengthening: where no two requests raced, at most one request is past its
  look, and what it looked at is still empty;
* of the whole, `AdmissionTypes`, `TasksKeepTheirPromise` (`Spec => []PromiseHolds`),
  `MachinesBootAsPromised` (`Spec => []BootsAsPromised`), and `MountsStayApart`, one mount per path where templates are
  mounted by their row and engine and host die.

The invariant of the whole, `IInv`, has two halves. `TypesInv` joins the parts: `CatalogInv` for the
tables, `MountInv`, the types of the rest, and `IdInv`: the id of a row was given out (`TaskIds`), and a
machine with the id of a task boots the OS of that task (`BootIds`).
`PromiseInv` is the argument of the promise, per program counter. `Found` says that each check a
request has passed would still pass, `Gathered` that what it remembers of the row is the row that
is there, and that what it inherited so far is all that the row lists; so `insert` makes a task to
which the promise applies (`InsertedHolds`, `NewTaskHolds`). `SparedStays` is the frame: no step but one that changes
something of just that template invalidates any of it. Scripts need no such exception, because no
step removes a script or a file from its table (`Stays`), which is also why the files registered
when the request came are inherited. The machine needs `NotEmpty`: its template file is not
being written at any moment since the promise; and what it has fetched so far is what it was
promised, if its boot type and the name of its image are such that it can start (`BootHolds`, `Startable`). Each step is first reduced to what it
does to requests, tasks and machines (`Kinds`), and the invariant is shown for each kind.

`DhcpBindingsProofs` proves `BindingTypes`, `TheTableIsExact` (`Spec => []TableIsExact`),
`DnsmasqServesTheFile` (`Spec => []ServesTheFile`) and `BindingsAreATable` (`Spec => ImplementsTable`) for any addresses, handlers and bounds, hence for
files of any length. `ExactInv` follows the calls that do not overlap what they must not: the file
has each line once, and the lines are the bindings; a delete between its truncation and its write
holds the lines that the file will have. What the loop of the delete handler keeps (`KeptFacts`: the
lines of other MACs, none twice if none was before) is shown by induction over the number of lines;
the induction is a fact about sets of naturals (`SetInduction`), from the library's theorem that `<`
is well-founded. For the refinement, `BindingsAre` says what the abstract table is in a state where no
calls raced (`bound`, or what the delete kept), `FoundInv` that what a delete found is still there when
it truncates, and one lemma per action (`BeginMaps` to `RestartMaps`) to which abstract step it maps:
the write of a delete, and the death of dnsmasq, to none. Where calls raced, `BNext` allows anything
(`spoiled'`), and the theorem says nothing.

`SyncProofs` proves `SyncTypes` for any deliveries; and for deliveries that do not overlap
(`~ MayOverlap`) `RecordedWasApplied` (`Spec => []RecordedIsApplied`) and `CompletedReturnsOnlyCut`
(`Spec => NoResurrection`), for any versions, parts, rejected versions and failures. `Progress`
says of a delivery what it has behind it at each of its steps, which is the order of statements
in syncHandler: all of that is `Accounted` for, on disk, in `lost` or in `torn` (`Behind`), and the
version is above the recorded one unless a failed read let it in (`Excused`). `RowsKnown` follows
the rows: a version that wrote one is recorded, in flight or in `cut`, the versions that were not
recorded after their tasks were written, or that a failed read of the recorded one lets in again; so
only those write the row of a task that ended. `RecordedAccounted` says of the recorded version what `Behind`
says of one in flight. The hypothesis is needed: with
`MayOverlap = TRUE` and two handlers, TLC finds both properties violated without any failure or crash. Nothing in
the code keeps two deliveries apart but a controller that waits for its answer.

`DownloadsProofs` proves `DownloadTypes`, `NamesStayFree` (`Spec => []DownloadingIsAlive`) and
`ServedWhole` (`Spec => []ServedIsComplete`) for any workers, files and sizes. `CleanFile` is
what a file is like that had neither overlapping writers nor a body that broke off unnoticed: one pull, whose temporary file is what it copied
so far, or is gone.

`DnsmasqProofs` proves, for any handlers, process ids and configurations, `ManagerTypes`,
`NoServerIsStale`, `UpdatesRepair`, `StopsStop` and `ShutdownIsClean`. The invariant adds
`Shape`, which calls can be at which step, and for a call that runs alone what it has behind it at
each step: `Stopped`, `Written`, `Started`.

**Only model-checked**: liveness (`CompletionEndsTask`, `EveryBootSettles`), because fairness and
ENABLED are out of the prover's reach. Every other property of a passing run is the statement of a
theorem.

**Assumptions**. The theorems rest on the named assumptions on constants, which every run evaluates:
bounds are numbers, model values differ from the records they stand beside, tables of constants
have the types that the code's columns have, handlers and machines are told apart
(`Admitters` and `SNs` share a history variable), and those named above. `~ DbMayFail` and `~ MayOverlap`
are hypotheses of the theorems that say so.

## Not modelled

* The text of the rendered files, of `dnsmasq.conf` and of the replies: rendering is template
  substitution, and no property here tells one text from another. Which file is rendered, from
  which rows, is modelled.
* The menu entries other than the default one, which install without a task, and the DHCP
  hook, which reports what no state depends on (and reports nothing, see below).
* Webhook forwarding: best effort, outgoing, its errors dropped, no state of the engine.
* In sync, payloads without a version, which skip the comparison. There is no abstract specification
  of sync either: the properties of `Sync` say what a controller may rely on, and it has one
  observable state.
* The write of `dnsmasq.conf` is one step, not a truncation and a write (dnsmasq.go:148); that of a
  template file, of an archive and of the hosts file are two.
* Errors after a successful open or write: a failed `Close` of a downloaded file, a template file that
  cannot be read any more between the look at it and its rendering, a `/proc/mounts` that cannot be read, which
  isMountPoint takes for nothing mounted (iso.go:218).
* A machine whose DMI says "NotSpecified" for its serial number is taken for one whose DMI says nothing.
  Neither is looked up by it (pxe-pre.sh:36), but only the empty one is replaced by the serial
  number of the task before the events that follow (pxe-pre.sh:69), so the status of its task stays
  behind as it does for a machine that DMI gives another serial number.
* The components together under one shutdown: a handler of any of them ends between two of its
  steps, in `Crash`, `Restart`, `EngineDies` of its own module, and they share no state that a
  shutdown touches but dnsmasq, which is in `DnsmasqManager` with the handlers that drive it.
* Updates of the OS of a task, requests for tasks without an OS or with scripts or files of their
  own, in `TaskAdmission`.
* Tools and handlers that only read; the command line client, which keeps no state; the
  configuration file, read once; logging; packaging.

## Read in the code, not checked

Disagreements that no run shows, for the reader who maintains the code:

* The comment at handler.go:449 says that the menu tries every NIC in turn; the menu chains
  `${netX/mac}` once. `BootByMAC` models the latter.
* `dhcp-event.sh` reads `sn` at the top level of the answer of `by-mac`, where
  `provisionByMACHandler` puts it under `data`: `dhcp_assigned` is never sent.
* `fileCheckHandler` takes the first file of the directory, the temporary one included, before it
  looks for a download: a half-pulled file is reported as existing.
* A kickstart machine found by MAC whose DMI has a serial number reports its progress under that
  number (pxe-pre.sh:69), and the status of its task stays behind until post.
* Two handlers of one machine lose a report from its archive: mergeArchive reads, merges and writes
  without a lock (handler.go:342), where its comments speak of merging (handler.go:305, 332).
  `ArchiveBackedByHistory` is the half that holds: the archive never says too much.
* `IsRunning` (dnsmasq.go:224) takes any process with the id in the pid file for dnsmasq, where its
  comment (219) says that it "checks if dnsmasq is alive": with a stale file and a reused id,
  Start does nothing. `UpdateRepairs` holds because an update stops first, and removes the file.
* `POST /api/seed/import` imports OS templates only, where `seeds/scripts.yaml:2` and
  `seeds/files.yaml:2` say that it loads scripts and files; the MCP tool seed_import does.
* A file that is stored but has no row in table `files` validates as ready and is then
  left out of the task without a word, where `SKILL.md:46` promises that a task inherits the files of
  its template; `PromiseHolds` is about the files registered when the request came.
* `SKILL.md:204` has update_os_template change `iso_path` and `distro_path`: the tool has
  neither parameter.
* Two deliveries of a sync at once (handler.go:211): the older one can write over what the newer one
  wrote, and be first to record its version, or last and take the number back; what is recorded, and
  skipped from then on (handler.go:210), lacks parts though no statement failed.
* An import looks a row up and replaces it in a second statement: a row that an operator creates in
  between is replaced, where seed_import.go:68 says that "Existing rows are left alone unless
  overwrite=true". `RowsAsMeant` has such a key in `raced`.
* `CreateTask` reads back by serial number, outside the write lock, where tasks.go:135 says "Read back to get
  defaults": of a row that was deleted meanwhile, or that cannot be read, the caller is told as of a conflict, with the
  task created; of one that was replaced, it is told of the other task.
* bootBySNHandler makes the address of the image from the base name of `iso_path` (handler.go:655), where
  validation looks the path up below `boot/iso` (validate.go:55), and knows two boot types only, where
  validation asks for none: such a template is found ready, and does not boot.
* Batches and syncs (tasks_crud.go:143) create tasks that are neither validated nor inherit
  anything; validation takes any mounted image, or any content, at a path for the right one; an
  empty answer file validates; an empty `distro_path` validates, and has no kernel.
* `script_bids` and `file_bids` default to `'[]'` in rows older than the columns (schema.go:35),
  which ParseBids reads as a bid of that name: such templates fail validation.
* formatValidationErrors leaves out scripts and files: a template that fails by them alone is an
  "unknown error"; the menu handler takes the
  first byte of `distro_family`, which may be empty (handler.go:412); and the `mounted` of the ISO
  list compares the first field of `/proc/mounts`, a loop device, with the path of the image.
