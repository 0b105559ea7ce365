----------------------------- MODULE HomeVolume -----------------------------
(***************************************************************************)
(* The home volume of one app: a btrfs file on a loop device with the      *)
(* subvolumes @home and @snapshots, mounted on the host and bind-mounted   *)
(* into the app's container.  ensureHomeVolume brings it into place,       *)
(* createSnapshot, restoreSnapshot and deleteApp work on it.               *)
(*                                                                         *)
(* Every process runs one server command; each docker, mount, losetup and  *)
(* btrfs call is a step.  There is no lock.  A @home subvolume is a number *)
(* (a restore makes a new one) with a version of the app's data.           *)
(***************************************************************************)
EXTENDS Integers

CONSTANTS
  Procs,     \* server processes alive at the same time
  Commands,  \* the commands they are run with
  MaxVol,    \* bound: @home subvolumes over time
  MaxVer,    \* bound: versions the app writes
  MaxTag     \* bound: snapshots v1 .. vMaxTag

Jobs == {"open", "snapshot", "restore", "update", "list", "delete"}

ASSUME VolumeAssumption ==
  Commands \subseteq Jobs /\ MaxVol \in Nat /\ MaxVer \in Nat /\ MaxTag \in Nat \ {0}

Vols == 1..MaxVol
Tags == 1..MaxTag
None == 0          \* no subvolume, no mount
HostDir == -1      \* the plain directory under the mount point
Absent == -1       \* no snapshot of that tag
Old == -2          \* the subvolume of a file that was removed

VARIABLES
  file,       \* home.btrfs: "none", "blank" (no filesystem yet), "btrfs"
  loop,       \* a loop device is attached to it
  root,       \* RootMountDir: "off", "on", "old" (mounted from a removed file)
  home,       \* the subvolume at @home
  data,       \* data[v]: version of the app's files in subvolume v
  snaps,      \* snaps[t]: the version in snapshot vt
  mount,      \* what is mounted at MountDir
  container,  \* "absent", "stopped", "running", "paused"
  view,       \* what the running container has at /home/viberun
  nextVol, ver,   \* subvolumes made, versions written
  pc, job,    \* per process: the step it is at, its command
  tag,        \* snapshot the command is about
  need,       \* what it has to do for the container to run: "run", "start", "nothing"
  made,       \* ensureHomeVolume's "created"
  died,       \* history: where a command failed or was killed
  forced,     \* history: a restore went on after docker stop failed
  had,        \* history: this filesystem has had a @home
  emptied,    \* history: an empty @home was made where one had been
  kept        \* history: @home was deleted with its mount still there

disk == <<file, loop, root, home, data, snaps, mount, nextVol, emptied, had, kept>>
app == <<container, view, ver>>
proc == <<pc, job, tag, need, made>>
vars == <<disk, app, proc, died, forced>>

Init ==
  /\ file = "none" /\ loop = FALSE /\ root = "off"
  /\ home = None /\ data = [v \in Vols |-> 0] /\ snaps = [t \in Tags |-> Absent]
  /\ mount = None /\ container = "absent" /\ view = None
  /\ nextVol = 1 /\ ver = 0
  /\ pc = [p \in Procs |-> "off"] /\ job = [p \in Procs |-> "list"]
  /\ tag = [p \in Procs |-> 1] /\ need = [p \in Procs |-> "nothing"] /\ made = [p \in Procs |-> FALSE]
  /\ died = "nowhere" /\ forced = FALSE /\ emptied = FALSE /\ had = FALSE
  /\ kept = FALSE

At(p, l) == pc[p] = l
Goto(p, l) == pc' = [pc EXCEPT ![p] = l]
Running == container \in {"running", "paused"}   \* what docker inspect calls so
\* A new @home with the given version.
NewHome(v) ==
  /\ nextVol <= MaxVol
  /\ home' = nextVol /\ data' = [data EXCEPT ![nextVol] = v]
  /\ nextVol' = nextVol + 1
Stopped == container' = "stopped" /\ view' = None
Started == container' = "running" /\ view' = (IF mount = None THEN HostDir ELSE mount)

-----------------------------------------------------------------------------
(* ensureHomeVolume                                                        *)

\* A command starts: containerExists, which snapshot and update insist on,
\* and containerRunning.
Begin(p, j, t) ==
  /\ At(p, "off")
  /\ j = "restore" \/ t = 1
  /\ j \in {"snapshot", "update"} => container # "absent"
  /\ need' = [need EXCEPT ![p] = IF container = "absent" THEN "run"
                                ELSE IF container = "stopped" THEN "start" ELSE "nothing"]
  /\ job' = [job EXCEPT ![p] = j]
  /\ tag' = [tag EXCEPT ![p] = t]
  /\ made' = [made EXCEPT ![p] = FALSE]
  /\ Goto(p, IF j = "delete" THEN "rm" ELSE "file")
  /\ UNCHANGED <<disk, app, died, forced>>

\* ensureSparseFile: created when the app is opened for the first time.
EnsureFile(p) ==
  LET create == job[p] = "open" /\ need[p] = "run" IN
  /\ At(p, "file")
  /\ IF file = "none" /\ create
     THEN file' = "blank" /\ made' = [made EXCEPT ![p] = TRUE]
     ELSE UNCHANGED <<file, made>>
  /\ Goto(p, IF file # "none" \/ create THEN "loop" ELSE "off")
  /\ UNCHANGED <<loop, root, home, data, snaps, mount, nextVol, emptied, had, kept, app, job, tag,
                 need, died, forced>>

EnsureLoop(p) ==
  /\ At(p, "loop")
  /\ loop' = TRUE
  /\ Goto(p, "mkfs")
  /\ UNCHANGED <<file, root, home, data, snaps, mount, nextVol, emptied, had, kept, app, job, tag,
                 need, made, died, forced>>

\* ensureBtrfsFilesystem: mkfs for the process that made the file (it refuses
\* a mounted device), the others need the filesystem to be there.
EnsureFilesystem(p) ==
  /\ At(p, "mkfs")
  /\ IF made[p] /\ root # "on" /\ mount \notin Vols
     THEN /\ file' = "btrfs" /\ home' = None /\ snaps' = [t \in Tags |-> Absent]
          /\ had' = FALSE
          /\ Goto(p, "root")
     ELSE /\ Goto(p, IF ~made[p] /\ file = "btrfs" THEN "root" ELSE "off")
          /\ UNCHANGED <<file, home, snaps, had>>
  /\ UNCHANGED <<loop, root, data, mount, nextVol, emptied, kept, app, job, tag, need, made,
                 died, forced>>

\* A root mounted from another device, that of a removed file, is refused.
EnsureRootMount(p) ==
  /\ At(p, "root")
  /\ IF file = "btrfs" /\ loop /\ root # "old"
     THEN root' = "on" /\ Goto(p, "subvolumes")
     ELSE UNCHANGED root /\ Goto(p, "off")
  /\ UNCHANGED <<file, loop, home, data, snaps, mount, nextVol, emptied, had, kept, app, job, tag,
                 need, made, died, forced>>

\* ensureSubvolumes: a missing @home is made, empty, whatever it is missing
\* for.
EnsureSubvolumes(p) ==
  /\ At(p, "subvolumes")
  /\ IF root # "on" THEN Goto(p, "off") /\ UNCHANGED <<home, data, nextVol, emptied, had>>
     ELSE /\ Goto(p, "mount")
          /\ IF home = None
             THEN NewHome(0) /\ emptied' = (emptied \/ had) /\ had' = TRUE
             ELSE UNCHANGED <<home, data, nextVol, emptied, had>>
  /\ UNCHANGED <<file, loop, root, snaps, mount, kept, app, job, tag, need, made, died, forced>>

\* ensureSubvolumeMounted: what is mounted from this device with the option
\* subvol=@home is accepted.  A subvolume that was deleted meanwhile may still
\* be shown with it, or not; another device's is refused.
MountHome(p, then) ==
  /\ mount' = IF mount = None THEN home ELSE mount
  /\ \/ mount' \in Vols /\ Goto(p, then)
     \/ (mount' \notin Vols \/ mount' # home) /\ Goto(p, "off")

EnsureMounted(p) ==
  /\ At(p, "mount")
  /\ MountHome(p, CASE job[p] = "open" -> "attach" [] job[p] = "update" -> "replace"
                     [] job[p] = "snapshot" -> "tag" [] job[p] = "restore" -> "lookup"
                     [] OTHER -> "off")
  /\ UNCHANGED <<file, loop, root, home, data, snaps, nextVol, emptied, had, kept, app, job, tag,
                 need, made, died, forced>>

-----------------------------------------------------------------------------
(* open, update: the container                                             *)

\* update removes the container and runs another one.
Replace(p) ==
  /\ At(p, "replace")
  /\ container' = "absent" /\ view' = None
  /\ need' = [need EXCEPT ![p] = "run"]
  /\ Goto(p, "attach")
  /\ UNCHANGED <<disk, ver, job, tag, made, died, forced>>

\* dockerRun, which fails when there is a container, or dockerStart, which
\* fails when there is none.
Launches(p) ==
  \/ need[p] = "run" /\ container = "absent"
  \/ need[p] = "start" /\ container = "stopped"
Attach(p) ==
  /\ At(p, "attach")
  /\ IF Launches(p) THEN Started ELSE UNCHANGED <<container, view>>
  /\ Goto(p, "off")
  /\ UNCHANGED <<disk, ver, job, tag, need, made, died, forced>>

-----------------------------------------------------------------------------
(* createSnapshot, snapshotContainer                                       *)

\* nextSnapshotTagFromInfos
NextTag(p) ==
  /\ At(p, "tag")
  /\ LET taken == {t \in Tags : snaps[t] # Absent}
     IN \E t \in Tags :
          /\ t - 1 \in taken \cup {0} /\ \A u \in taken : u < t
          /\ tag' = [tag EXCEPT ![p] = t]
  /\ Goto(p, "pause")
  /\ UNCHANGED <<disk, app, job, need, made, died, forced>>

\* A running container is paused; pausing a paused one fails.
Pause(p) ==
  /\ At(p, "pause")
  /\ IF snaps[tag[p]] # Absent \/ container = "paused"
     THEN Goto(p, "off") /\ UNCHANGED container
     ELSE IF container = "running"
     THEN Goto(p, "take paused") /\ container' = "paused"
     ELSE Goto(p, "take") /\ UNCHANGED container
  /\ UNCHANGED <<disk, view, ver, job, tag, need, made, died, forced>>

\* Mutant: a failed snapshot returns before the unpause.
TakeSnapshotReturning(p) ==
  /\ pc[p] \in {"take", "take paused"}
  /\ \/ /\ snaps[tag[p]] = Absent /\ mount \in Vols
        /\ snaps' = [snaps EXCEPT ![tag[p]] = data[mount]]
        /\ Goto(p, IF At(p, "take") THEN "off" ELSE "unpause")
     \/ Goto(p, "off") /\ UNCHANGED snaps
  /\ UNCHANGED <<file, loop, root, home, data, mount, nextVol, emptied, had, kept, app, job, tag,
                 need, made, died, forced>>

\* btrfs subvolume snapshot -r of what is mounted at MountDir; it can fail.
TakeSnapshot(p) ==
  /\ pc[p] \in {"take", "take paused"}
  /\ \/ /\ snaps[tag[p]] = Absent /\ mount \in Vols
        /\ snaps' = [snaps EXCEPT ![tag[p]] = data[mount]]
     \/ UNCHANGED snaps
  /\ Goto(p, IF At(p, "take") THEN "off" ELSE "unpause")
  /\ UNCHANGED <<file, loop, root, home, data, mount, nextVol, emptied, had, kept, app, job, tag,
                 need, made, died, forced>>

Unpause(p) ==
  /\ At(p, "unpause")
  /\ container' = IF container = "paused" THEN "running" ELSE container
  /\ Goto(p, "off")
  /\ UNCHANGED <<disk, view, ver, job, tag, need, made, died, forced>>

-----------------------------------------------------------------------------
(* restoreSnapshot, restoreHomeVolume                                      *)

\* ensureSnapshotExists
LookupSnapshot(p) ==
  /\ At(p, "lookup")
  /\ Goto(p, IF snaps[tag[p]] = Absent THEN "off" ELSE "stop")
  /\ UNCHANGED <<disk, app, job, tag, need, made, died, forced>>

\* Mutant: the container is left running.
KeepContainer(p) ==
  /\ At(p, "stop")
  /\ Goto(p, "umount")
  /\ UNCHANGED <<disk, app, job, tag, need, made, died, forced>>

\* containerExists, then docker stop, its failure ignored.
StopContainer(p) ==
  /\ At(p, "stop")
  /\ \/ /\ IF container = "absent" THEN UNCHANGED <<container, view>> ELSE Stopped
        /\ UNCHANGED forced
     \/ /\ Running /\ forced' = TRUE
        /\ UNCHANGED <<container, view>>
  /\ need' = [need EXCEPT ![p] = IF container = "absent" THEN "run" ELSE "start"]
  /\ Goto(p, "umount")
  /\ UNCHANGED <<disk, ver, job, tag, made, died>>

\* umount's failure is ignored.
UmountHome(p) ==
  /\ At(p, "umount")
  /\ mount' \in {None, mount} /\ kept' = (kept /\ mount' # None)
  /\ Goto(p, "delete home")
  /\ UNCHANGED <<file, loop, root, home, data, snaps, nextVol, emptied, had, app, job, tag,
                 need, made, died, forced>>

\* Mutant: the old @home is not deleted.
DeleteHomeNot(p) ==
  /\ At(p, "delete home")
  /\ Goto(p, "clone")
  /\ UNCHANGED <<disk, app, job, tag, need, made, died, forced>>

\* btrfs subvolume delete @home, if it is there; while it is mounted btrfs may
\* refuse to, or delete it under the mount.
DeleteHome(p) ==
  /\ At(p, "delete home")
  /\ \/ home' = None /\ kept' = (kept \/ mount # None) /\ Goto(p, "clone")
     \/ mount # None /\ mount = home /\ UNCHANGED <<home, kept>> /\ Goto(p, "off")
  /\ UNCHANGED <<file, loop, root, data, snaps, mount, nextVol, emptied, had, app, job, tag,
                 need, made, died, forced>>

\* btrfs subvolume snapshot @snapshots/vN @home; when @home exists (again),
\* the new subvolume ends up inside it, and the call succeeds.
CloneSnapshot(p) ==
  /\ At(p, "clone")
  /\ IF snaps[tag[p]] = Absent
     THEN Goto(p, "off") /\ UNCHANGED <<home, data, nextVol>>
     ELSE /\ Goto(p, "remount")
          /\ IF home = None THEN NewHome(snaps[tag[p]])
             ELSE UNCHANGED <<home, data, nextVol>>
  /\ UNCHANGED <<file, loop, root, snaps, mount, emptied, had, kept, app, job, tag, need, made, died, forced>>

Remount(p) ==
  /\ At(p, "remount")
  /\ MountHome(p, "start")
  /\ UNCHANGED <<file, loop, root, home, data, snaps, nextVol, emptied, had, kept, app, job, tag,
                 need, made, died, forced>>

\* docker start, or docker run when there was no container.
StartContainer(p) ==
  /\ At(p, "start")
  /\ IF Launches(p) THEN Started ELSE UNCHANGED <<container, view>>
  /\ Goto(p, "off")
  /\ UNCHANGED <<disk, ver, job, tag, need, made, died, forced>>

-----------------------------------------------------------------------------
(* deleteApp, deleteHomeVolume                                             *)

RemoveContainer(p) ==
  /\ At(p, "rm")
  /\ container' = "absent" /\ view' = None
  /\ Goto(p, "umount all")
  /\ UNCHANGED <<disk, ver, job, tag, need, made, died, forced>>

\* The failures of umount and losetup are ignored.
UmountAll(p) ==
  /\ At(p, "umount all")
  /\ mount' \in {None, mount} /\ kept' = (kept /\ mount' # None)
  /\ root' \in {"off", root}
  /\ Goto(p, "detach")
  /\ UNCHANGED <<file, loop, home, data, snaps, nextVol, emptied, had, app, job, tag, need, made,
                 died, forced>>

\* A device that is mounted stays until it no longer is.
DetachLoop(p) ==
  /\ At(p, "detach")
  /\ \/ UNCHANGED loop
     \/ loop' = FALSE /\ root # "on" /\ mount \notin Vols
  /\ Goto(p, "remove all")
  /\ UNCHANGED <<file, root, home, data, snaps, mount, nextVol, emptied, had, kept, app, job, tag,
                 need, made, died, forced>>

\* os.RemoveAll: what is still mounted outlives the file it is on, and no loop
\* device is found for the file that takes its place.
RemoveAll(p) ==
  /\ At(p, "remove all")
  /\ file' = "none" /\ home' = None /\ snaps' = [t \in Tags |-> Absent]
  /\ loop' = FALSE /\ mount' = IF mount = None THEN None ELSE Old
  /\ root' = IF root = "off" THEN "off" ELSE "old"
  /\ had' = FALSE /\ kept' = FALSE
  /\ Goto(p, "off")
  /\ UNCHANGED <<data, nextVol, emptied, app, job, tag, need, made, died, forced>>

-----------------------------------------------------------------------------
(* Failures and the app                                                    *)

\* A step fails and the command returns, or the process is killed; followed
\* for one such death.
Dies(p) ==
  /\ pc[p] # "off" /\ died = "nowhere"
  /\ died' = pc[p]
  /\ Goto(p, "off")
  /\ UNCHANGED <<disk, app, job, tag, need, made, forced>>

\* The host reboots between commands: mounts and loop device are gone.
Reboot ==
  /\ \A p \in Procs : At(p, "off")
  /\ loop' = FALSE /\ root' = "off" /\ mount' = None /\ kept' = FALSE
  /\ IF container = "absent" THEN UNCHANGED <<container, view>> ELSE Stopped
  /\ UNCHANGED <<file, home, data, snaps, nextVol, emptied, had, ver, proc, died, forced>>

ContainerExits ==
  /\ container = "running"
  /\ Stopped
  /\ UNCHANGED <<disk, ver, proc, died, forced>>

\* The app writes to its home; through another view, the write is not in
\* @home.
AppWrites ==
  /\ container = "running" /\ ver < MaxVer
  /\ ver' = ver + 1
  /\ data' = IF view \in Vols THEN [data EXCEPT ![view] = ver + 1] ELSE data
  /\ UNCHANGED <<file, loop, root, home, snaps, mount, nextVol, emptied, had, kept, container, view,
                 proc, died, forced>>

Ensure(p) ==
  \/ EnsureFile(p) \/ EnsureLoop(p) \/ EnsureFilesystem(p) \/ EnsureRootMount(p)
  \/ EnsureSubvolumes(p) \/ EnsureMounted(p)
Snapshot(p) == NextTag(p) \/ Pause(p) \/ TakeSnapshot(p) \/ Unpause(p)
Restore(p) ==
  \/ LookupSnapshot(p) \/ StopContainer(p) \/ UmountHome(p) \/ DeleteHome(p)
  \/ CloneSnapshot(p) \/ Remount(p) \/ StartContainer(p)
Delete(p) == RemoveContainer(p) \/ UmountAll(p) \/ DetachLoop(p) \/ RemoveAll(p)

Next ==
  \/ \E p \in Procs :
       \/ \E j \in Commands, t \in Tags : Begin(p, j, t)
       \/ Ensure(p) \/ Replace(p) \/ Attach(p) \/ Snapshot(p) \/ Restore(p) \/ Delete(p) \/ Dies(p)
  \/ Reboot \/ ContainerExits \/ AppWrites

Spec == Init /\ [][Next]_vars

-----------------------------------------------------------------------------
(* Properties                                                              *)

\* Every variable has its type: @home and the root volume are mounted from the
\* loop device of a file with a filesystem, unless that file was removed.
TypeOK ==
  /\ file \in {"none", "blank", "btrfs"} /\ loop \in BOOLEAN /\ root \in {"off", "on", "old"}
  /\ home \in Vols \cup {None} /\ data \in [Vols -> 0..MaxVer]
  /\ snaps \in [Tags -> 0..MaxVer \cup {Absent}]
  /\ mount \in Vols \cup {None, Old}
  /\ container \in {"absent", "stopped", "running", "paused"}
  /\ view \in Vols \cup {None, HostDir, Old}
  /\ nextVol \in 1..(MaxVol + 1) /\ ver \in 0..MaxVer
  /\ job \in [Procs -> Jobs] /\ tag \in [Procs -> Tags] /\ made \in [Procs -> BOOLEAN]
  /\ need \in [Procs -> {"run", "start", "nothing"}]
  /\ forced \in BOOLEAN /\ emptied \in BOOLEAN /\ had \in BOOLEAN /\ kept \in BOOLEAN
  /\ mount \in Vols \/ root = "on" => loop /\ file = "btrfs"

\* A running app writes to what is mounted, and that is @home, where the next
\* start, the next snapshot and the next restore find it: the container never
\* runs on the host's own directory or on a removed volume, and on a deleted
\* subvolume only if a restore could not stop it or could not unmount it.
\* And an app that had a home gets an empty one only after a restore was cut
\* short between deleting @home and making it anew.
WritesReachHome ==
  /\ Running /\ ~forced => mount \in Vols /\ view = mount /\ (mount = home \/ kept)
  /\ emptied => died = "clone"

\* A restore that comes to starting the container again has made @home the
\* snapshot it was asked for, and has it mounted if it could unmount the old.
RestoreDelivers ==
  \A p \in Procs :
    At(p, "start") /\ ~forced =>
      home # None /\ data[home] = snaps[tag[p]] /\ (mount = home \/ kept)

\* Between commands the app can be used: its container is not left paused,
\* its volume not without a filesystem - but for a command that died there.
UsableBetweenCommands ==
  (\A p \in Procs : At(p, "off"))
    => /\ container = "paused" => died \in {"take paused", "unpause"}
       /\ file = "blank" => died \in {"loop", "mkfs"}

\* Known not to hold (see README): "the current @home subvolume is replaced"
\* (README.md) for the app as well.  After a failed umount the app goes on
\* with the deleted one.
RestoredIsUsed == Running /\ ~forced => view = home

\* Known not to hold (see README): an app that was deleted can be opened again.
\* A mount that a delete left behind refuses every later one.
NothingLeftMounted == file = "none" => mount = None /\ root = "off"
=============================================================================
