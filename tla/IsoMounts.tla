----------------------------- MODULE IsoMounts ------------------------------
(***************************************************************************)
(* ISO images and where they are mounted. isoMountHandler and the MCP tool *)
(* mount_iso look for the image, look for a mount point in /proc/mounts    *)
(* and run mount(8); isoUmountHandler looks for a mount point and runs     *)
(* umount(8). The kernel stacks mounts: what is seen under a path is the   *)
(* last image mounted there, and umount takes the top one away.            *)
(***************************************************************************)
EXTENDS Integers, Sequences

CONSTANTS
    Isos,               \* file names under boot/iso
    Paths,              \* boot/http/<distro path>/repo
    Mounters,           \* handler goroutines that mount or unmount
    MaxMounts,          \* bound: requests to mount or unmount
    MaxReboots,         \* bound: times the host boots
    Idle

MountCall == [pc : {"stat", "check", "mount", "checkUmount", "umount"},
              iso : Isos \cup {Idle}, path : Paths]

ASSUME MountsAssumption ==
    /\ MaxMounts \in Nat /\ MaxReboots \in Nat
    /\ Idle \notin MountCall

VARIABLES
    images,             \* the images, or symbolic links to images, that are there
    mounts,             \* mounts[p]: the images mounted at p, the visible one first
    mcall,              \* what each mount or unmount request is at
    mcalls, reboots,    \* requests and boots so far
    stacking            \* history variable: paths two mount requests were past the check of

mountVars == <<images, mounts, mcall, mcalls, reboots, stacking>>

(* The engine starts on a host where some images are linked and mounted.   *)
MountInit ==
    /\ images \in SUBSET Isos
    /\ mounts \in [Paths -> {<< >>} \cup {<<iso>> : iso \in images}]
    /\ mcall = [m \in Mounters |-> Idle]
    /\ mcalls = 0 /\ reboots = 0
    /\ stacking = {}

MountAt(m, pc) == mcall[m] # Idle /\ mcall[m].pc = pc
MountGoto(m, pc) == mcall' = [mcall EXCEPT ![m].pc = pc]
MountReturn(m) == mcall' = [mcall EXCEPT ![m] = Idle]
About(m, p) == MountAt(m, "mount") /\ mcall[m].path = p

(* isMountPoint reads /proc/mounts.                                        *)
IsMountPoint(p) == mounts[p] # << >>

MountRequest(m, iso, p, pc) ==
    /\ mcall[m] = Idle
    /\ mcalls < MaxMounts /\ mcalls' = mcalls + 1
    /\ mcall' = [mcall EXCEPT ![m] = [pc |-> pc, iso |-> iso, path |-> p]]
    /\ UNCHANGED <<images, mounts, reboots, stacking>>
-----------------------------------------------------------------------------
RequestMount(m, iso, p) == MountRequest(m, iso, p, "stat")

(* os.Stat: "ISO not found".                                               *)
StatIso(m) ==
    /\ MountAt(m, "stat")
    /\ IF mcall[m].iso \in images THEN MountGoto(m, "check") ELSE MountReturn(m)
    /\ UNCHANGED <<images, mounts, mcalls, reboots, stacking>>

(* Mutant: the mount point is not looked for.                              *)
MountAnyway(m) ==
    /\ MountAt(m, "check")
    /\ MountGoto(m, "mount")
    /\ UNCHANGED <<images, mounts, mcalls, reboots>>
    /\ stacking' = stacking \cup {p \in {mcall[m].path} : \E n \in Mounters : About(n, p)}

(* "already_mounted", whatever image is mounted there.                     *)
CheckMounted(m) ==
    /\ MountAt(m, "check")
    /\ LET p == mcall[m].path
       IN  IF IsMountPoint(p)
           THEN MountReturn(m) /\ UNCHANGED stacking
           ELSE /\ MountGoto(m, "mount")
                /\ stacking' = stacking \cup {q \in {p} : \E n \in Mounters : About(n, q)}
    /\ UNCHANGED <<images, mounts, mcalls, reboots>>

MountIso(m) ==
    /\ MountAt(m, "mount") /\ mcall[m].iso \in images
    /\ mounts' = [mounts EXCEPT ![mcall[m].path] = <<mcall[m].iso>> \o @]
    /\ MountReturn(m)
    /\ UNCHANGED <<images, mcalls, reboots, stacking>>

(* mount(8) or umount(8) fails: no image, no loop device, path busy or not *)
(* mounted.                                                                *)
CommandFails(m) ==
    /\ MountAt(m, "mount") \/ MountAt(m, "umount")
    /\ MountReturn(m)
    /\ UNCHANGED <<images, mounts, mcalls, reboots, stacking>>

RequestUmount(m, p) == MountRequest(m, Idle, p, "checkUmount")

CheckUmount(m) ==
    /\ MountAt(m, "checkUmount")
    /\ IF IsMountPoint(mcall[m].path) THEN MountGoto(m, "umount") ELSE MountReturn(m)
    /\ UNCHANGED <<images, mounts, mcalls, reboots, stacking>>

(* A path with a mount less is as before any of them when it is empty and  *)
(* nobody is about to mount there.                                         *)
Settled(p) == Len(mounts[p]) = 1 /\ \A m \in Mounters : ~ About(m, p)

Umount(m) ==
    /\ MountAt(m, "umount") /\ IsMountPoint(mcall[m].path)
    /\ mounts' = [mounts EXCEPT ![mcall[m].path] = Tail(@)]
    /\ stacking' = stacking \ {p \in {mcall[m].path} : Settled(p)}
    /\ MountReturn(m)
    /\ UNCHANGED <<images, mcalls, reboots>>

(* A download ends, or the operator links, unlinks or removes an image.    *)
ChangeImage(iso) ==
    /\ images' = IF iso \in images THEN images \ {iso} ELSE images \cup {iso}
    /\ UNCHANGED <<mounts, mcall, mcalls, reboots, stacking>>

(* The host boots: nothing is mounted, and the engine mounts nothing when  *)
(* it starts.                                                              *)
Reboot ==
    /\ reboots < MaxReboots /\ reboots' = reboots + 1
    /\ mounts' = [p \in Paths |-> << >>]
    /\ mcall' = [m \in Mounters |-> Idle]
    /\ stacking' = {}
    /\ UNCHANGED <<images, mcalls>>
-----------------------------------------------------------------------------
ContinueMount(m) ==
    \/ StatIso(m) \/ CheckMounted(m) \/ MountIso(m) \/ CommandFails(m)
    \/ CheckUmount(m) \/ Umount(m)

AskMount ==
    \/ \E m \in Mounters, p \in Paths :
          RequestUmount(m, p) \/ \E iso \in Isos : RequestMount(m, iso, p)
    \/ \E iso \in Isos : ChangeImage(iso)

MountNext == AskMount \/ (\E m \in Mounters : ContinueMount(m)) \/ Reboot

MountSpec == MountInit /\ [][MountNext]_mountVars
-----------------------------------------------------------------------------
(* Properties                                                              *)

(* Types of the images, the mounts and the calls.                          *)
MountTypeOK ==
    /\ images \subseteq Isos
    /\ mounts \in [Paths -> Seq(Isos)]
    /\ mcall \in [Mounters -> MountCall \cup {Idle}]
    /\ \A m \in Mounters, pc \in {"stat", "check", "mount"} :
          MountAt(m, pc) => mcall[m].iso \in Isos
    /\ mcalls \in Nat /\ reboots \in Nat
    /\ stacking \subseteq Paths

(* A path carries one image, so that one unmount empties it: mounts do not *)
(* pile up however requests to mount and to unmount alternate or fail,     *)
(* unless two requests to mount there both looked before either mounted.   *)
OneMountPerPath == \A p \in Paths \ stacking : Len(mounts[p]) <= 1
=============================================================================
