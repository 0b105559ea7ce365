-------------------------- MODULE HomeVolumeProofs --------------------------
(***************************************************************************)
(* HomeVolume for any commands, snapshots and writes, as long as no two    *)
(* commands run at the same time: the container runs on what is mounted,   *)
(* which is @home unless it was deleted under a mount that umount had not  *)
(* taken away, a restore delivers the snapshot it was asked for, and a     *)
(* command that ends leaves the app usable.                                *)
(***************************************************************************)
EXTENDS HomeVolume, TLAPS

\* The hypothesis of the theorems: nothing in the code keeps a second command
\* on the same app from running, and MCHomeVolumeTwo shows what two do.
OneAtATime == \A p, q \in Procs : pc[p] # "off" /\ pc[q] # "off" => p = q

-----------------------------------------------------------------------------
(* The invariant                                                           *)

Labels == {"off", "file", "loop", "mkfs", "root", "subvolumes", "mount", "replace", "attach",
           "tag", "pause", "take", "take paused", "unpause", "lookup", "stop", "umount",
           "delete home", "clone", "remount", "start", "rm", "umount all", "detach", "remove all"}

\* Where a command stands: with the volume's file, with @home mounted, with
\* the snapshot it restores, with the app's container taken away.
Making == {"file", "loop", "mkfs"}
Mounted == {"replace", "attach", "tag", "pause", "take", "take paused", "unpause", "lookup",
            "stop", "start"}
Rooted == Mounted \cup {"subvolumes", "mount", "umount", "delete home", "clone", "remount"}
Restoring == {"stop", "umount", "delete home", "clone", "remount", "start"}
Halted == Restoring \ {"stop"}
Restored == {"remount", "start"}
Deleting == {"umount all", "detach", "remove all"}

DiskTyped ==
  /\ file \in {"none", "blank", "btrfs"} /\ loop \in BOOLEAN /\ root \in {"off", "on", "old"}
  /\ home \in Vols \cup {None} /\ data \in [Vols -> 0..MaxVer]
  /\ snaps \in [Tags -> 0..MaxVer \cup {Absent}]
  /\ mount \in Vols \cup {None, Old}
  /\ nextVol \in 1..(MaxVol + 1) /\ emptied \in BOOLEAN /\ had \in BOOLEAN
  /\ kept \in BOOLEAN
AppTyped ==
  /\ container \in {"absent", "stopped", "running", "paused"}
  /\ view \in Vols \cup {None, HostDir, Old} /\ ver \in 0..MaxVer
ProcTyped ==
  /\ pc \in [Procs -> Labels]
  /\ job \in [Procs -> Jobs] /\ tag \in [Procs -> Tags] /\ made \in [Procs -> BOOLEAN]
  /\ need \in [Procs -> {"run", "start", "nothing"}]
Typed == DiskTyped /\ AppTyped /\ ProcTyped /\ forced \in BOOLEAN

\* What a command has achieved by the step it is at.
Achieved(p) ==
  /\ pc[p] \in Making /\ made[p] => need[p] = "run"
  /\ pc[p] \in Making /\ need[p] = "run" => container = "absent"
  /\ pc[p] \in Rooted => root = "on"
  /\ pc[p] = "mount" => home # None
  /\ pc[p] \in Mounted => mount \in Vols
  /\ pc[p] \in Restoring => snaps[tag[p]] # Absent
  /\ pc[p] \in Halted /\ Running => forced
  /\ pc[p] = "clone" => home = None
  /\ pc[p] \in Restored /\ ~forced => home # None /\ data[home] = snaps[tag[p]]
  /\ pc[p] \in Deleting => container = "absent"

\* What is mounted is of a file with a filesystem on a loop device, and it is
\* @home, or @home was deleted under it.
Stack ==
  /\ mount \in Vols => loop /\ file = "btrfs" /\ (mount = home \/ kept)
  /\ root = "on" => loop /\ file = "btrfs"

\* Whoever leaves something half done is at it, or died at it: @home deleted,
\* the container paused, the file without a filesystem.
HalfDone ==
  /\ had /\ home = None => died = "clone" \/ \E p \in Procs : At(p, "clone")
  /\ container = "paused" =>
       \/ died \in {"take paused", "unpause"}
       \/ \E p \in Procs : pc[p] \in {"take paused", "unpause"}
  /\ file = "blank" =>
       \/ died \in {"loop", "mkfs"}
       \/ \E p \in Procs : pc[p] \in {"loop", "mkfs"} /\ made[p]

VolumeInv == Typed /\ Stack /\ HalfDone /\ WritesReachHome /\ \A p \in Procs : Achieved(p)

-----------------------------------------------------------------------------
(* Steps                                                                   *)

\* What stands for no subvolume is none.
LEMMA Marks == None \notin Vols /\ Old \notin Vols /\ None # Old
BY VolumeAssumption DEF Vols, None, Old

\* A new @home.
LEMMA Fresh ==
  ASSUME Typed, NEW v \in 0..MaxVer, NewHome(v)
  PROVE  /\ home' \in Vols /\ home' # None /\ nextVol' \in 1..(MaxVol + 1)
         /\ data' \in [Vols -> 0..MaxVer] /\ data'[home'] = v
<1>1. nextVol \in Vols /\ nextVol # None /\ nextVol + 1 \in 1..(MaxVol + 1)
  BY VolumeAssumption DEF NewHome, Typed, DiskTyped, Vols, None
<1> QED
  BY <1>1 DEF NewHome, Typed, DiskTyped

\* A command's step leaves the other processes where they are: between commands.
LEMMA Concludes ==
  ASSUME OneAtATime, NEW p \in Procs, pc[p] # "off", \A q \in Procs \ {p} : pc'[q] = pc[q],
         Typed', Stack', HalfDone', WritesReachHome', Achieved(p)'
  PROVE  VolumeInv'
<1>1. ASSUME NEW q \in Procs \ {p} PROVE Achieved(q)'
  <2>1. pc'[q] = "off"
    BY DEF OneAtATime
  <2> QED
    BY <2>1 DEF Achieved, Making, Rooted, Mounted, Restoring, Halted, Restored, Deleting
<1> QED
  BY <1>1 DEF VolumeInv

\* The steps of ensureHomeVolume.
LEMMA EnsureSound ==
  ASSUME VolumeInv, OneAtATime, NEW p \in Procs,
         EnsureFile(p) \/ EnsureLoop(p) \/ EnsureFilesystem(p) \/ EnsureRootMount(p) \/
         EnsureSubvolumes(p) \/ EnsureMounted(p)
  PROVE  VolumeInv'
<1>a. Typed /\ Stack /\ HalfDone /\ WritesReachHome /\ Achieved(p)
  BY DEF VolumeInv
<1>b. \A q \in Procs : pc[q] # "off" /\ pc[p] # "off" => q = p
  BY DEF OneAtATime
<1>c. (UNCHANGED disk => DiskTyped') /\ (UNCHANGED app => AppTyped')
  BY <1>a DEF disk, app, Typed, DiskTyped, AppTyped
<1>1. CASE EnsureFile(p)
  <2>1. Typed'
    <3>1. DiskTyped'
      BY <1>1, <1>a DEF EnsureFile, Typed, DiskTyped
    <3>2. ProcTyped' /\ forced' \in BOOLEAN
      BY <1>1, <1>a DEF EnsureFile, Goto, Typed, ProcTyped, Labels
    <3> QED
      BY <1>1, <1>c, <3>1, <3>2 DEF EnsureFile, Typed
  <2>2. pc[p] # "off" /\ \A q \in Procs \ {p} : pc'[q] = pc[q]
    BY <1>1, <1>a DEF EnsureFile, At, Goto, Typed, ProcTyped
  <2>3. Stack'
    BY <1>1, <1>a DEF EnsureFile, Stack
  <2>4. HalfDone'
    BY <1>1, <1>a, <1>b, <2>2 DEF EnsureFile, At, Goto, app, Typed, ProcTyped, HalfDone
  <2>5. WritesReachHome'
    BY <1>1, <1>a DEF EnsureFile, app, WritesReachHome, Running
  <2>6. Achieved(p)'
    BY <1>1, <1>a
       DEF EnsureFile, At, Goto, app, Typed, ProcTyped, Stack, Achieved, Running, Making, Rooted,
           Mounted, Restoring, Halted, Restored, Deleting
  <2> QED
    BY <2>1, <2>2, <2>3, <2>4, <2>5, <2>6, Concludes
<1>2. CASE EnsureLoop(p)
  <2>1. Typed'
    <3>1. DiskTyped'
      BY <1>2, <1>a DEF EnsureLoop, Typed, DiskTyped
    <3>2. ProcTyped' /\ forced' \in BOOLEAN
      BY <1>2, <1>a DEF EnsureLoop, Goto, Typed, ProcTyped, Labels
    <3> QED
      BY <1>2, <1>c, <3>1, <3>2 DEF EnsureLoop, Typed
  <2>2. pc[p] # "off" /\ \A q \in Procs \ {p} : pc'[q] = pc[q]
    BY <1>2, <1>a DEF EnsureLoop, At, Goto, Typed, ProcTyped
  <2>3. Stack'
    BY <1>2, <1>a DEF EnsureLoop, Stack
  <2>4. HalfDone'
    BY <1>2, <1>a, <1>b, <2>2 DEF EnsureLoop, At, Goto, app, Typed, ProcTyped, HalfDone
  <2>5. WritesReachHome'
    BY <1>2, <1>a DEF EnsureLoop, app, WritesReachHome, Running
  <2>6. Achieved(p)'
    BY <1>2, <1>a
       DEF EnsureLoop, At, Goto, app, Typed, ProcTyped, Stack, Achieved, Running, Making, Rooted,
           Mounted, Restoring, Halted, Restored, Deleting
  <2> QED
    BY <2>1, <2>2, <2>3, <2>4, <2>5, <2>6, Concludes
<1>3. CASE EnsureFilesystem(p)
  <2>1. Typed'
    <3>1. DiskTyped'
      BY <1>3, <1>a DEF EnsureFilesystem, Typed, DiskTyped
    <3>2. ProcTyped' /\ forced' \in BOOLEAN
      BY <1>3, <1>a DEF EnsureFilesystem, Goto, Typed, ProcTyped, Labels
    <3> QED
      BY <1>3, <1>c, <3>1, <3>2 DEF EnsureFilesystem, Typed
  <2>2. pc[p] # "off" /\ \A q \in Procs \ {p} : pc'[q] = pc[q]
    BY <1>3, <1>a DEF EnsureFilesystem, At, Goto, Typed, ProcTyped
  <2>3. Stack'
    BY <1>3, <1>a DEF EnsureFilesystem, Stack
  <2>4. HalfDone'
    BY <1>3, <1>a, <1>b, <2>2
       DEF EnsureFilesystem, At, Goto, app, Typed, ProcTyped, Stack, HalfDone, Achieved, Making
  <2>5. WritesReachHome'
    BY <1>3, <1>a DEF EnsureFilesystem, At, app, Achieved, Making, WritesReachHome, Running
  <2>6. Achieved(p)'
    BY <1>3, <1>a
       DEF EnsureFilesystem, At, Goto, app, Typed, ProcTyped, Stack, Achieved, Running, Making,
           Rooted, Mounted, Restoring, Halted, Restored, Deleting
  <2> QED
    BY <2>1, <2>2, <2>3, <2>4, <2>5, <2>6, Concludes
<1>4. CASE EnsureRootMount(p)
  <2>1. Typed'
    <3>1. DiskTyped'
      BY <1>4, <1>a DEF EnsureRootMount, Typed, DiskTyped
    <3>2. ProcTyped' /\ forced' \in BOOLEAN
      BY <1>4, <1>a DEF EnsureRootMount, Goto, Typed, ProcTyped, Labels
    <3> QED
      BY <1>4, <1>c, <3>1, <3>2 DEF EnsureRootMount, Typed
  <2>2. pc[p] # "off" /\ \A q \in Procs \ {p} : pc'[q] = pc[q]
    BY <1>4, <1>a DEF EnsureRootMount, At, Goto, Typed, ProcTyped
  <2>3. Stack'
    BY <1>4, <1>a DEF EnsureRootMount, Stack
  <2>4. HalfDone'
    BY <1>4, <1>a, <1>b, <2>2 DEF EnsureRootMount, At, app, HalfDone
  <2>5. WritesReachHome'
    BY <1>4, <1>a DEF EnsureRootMount, app, WritesReachHome, Running
  <2>6. Achieved(p)'
    BY <1>4, <1>a
       DEF EnsureRootMount, At, Goto, app, Typed, ProcTyped, Stack, Achieved, Running, Making,
           Rooted, Mounted, Restoring, Halted, Restored, Deleting
  <2> QED
    BY <2>1, <2>2, <2>3, <2>4, <2>5, <2>6, Concludes
<1>5. CASE EnsureSubvolumes(p)
  <2>0. NewHome(0) =>
          /\ home' \in Vols /\ home' # None /\ nextVol' \in 1..(MaxVol + 1)
          /\ data' \in [Vols -> 0..MaxVer] /\ data'[home'] = 0
    <3>1. 0 \in 0..MaxVer
      BY VolumeAssumption
    <3> QED
      BY <1>a, <3>1, Fresh
  <2>1. Typed'
    <3>1. DiskTyped'
      BY <2>0, <1>5, <1>a DEF EnsureSubvolumes, Typed, DiskTyped
    <3>2. ProcTyped' /\ forced' \in BOOLEAN
      BY <1>5, <1>a DEF EnsureSubvolumes, Goto, Typed, ProcTyped, Labels
    <3> QED
      BY <1>5, <1>c, <3>1, <3>2 DEF EnsureSubvolumes, Typed
  <2>2. pc[p] # "off" /\ \A q \in Procs \ {p} : pc'[q] = pc[q]
    BY <1>5, <1>a DEF EnsureSubvolumes, At, Goto, Typed, ProcTyped
  <2>3. Stack'
    BY <1>5, <1>a, Marks DEF EnsureSubvolumes, Stack
  <2>4. HalfDone'
    BY <2>0, <1>5, <1>a, <1>b, <2>2 DEF EnsureSubvolumes, At, Goto, app, Typed, ProcTyped, HalfDone
  <2>5. WritesReachHome'
    <3>1. (Running /\ ~forced => mount \in Vols /\ view = mount /\ (mount = home \/ kept))'
      BY <1>5, <1>a, Marks DEF EnsureSubvolumes, app, Stack, WritesReachHome, Running
    <3>2. had /\ home = None => died = "clone"
      BY <1>5, <1>a, <1>b DEF EnsureSubvolumes, At, HalfDone
    <3>3. (emptied => died = "clone")'
      BY <1>5, <1>a, <3>2 DEF EnsureSubvolumes, WritesReachHome
    <3> QED
      BY <3>1, <3>3 DEF WritesReachHome
  <2>6. Achieved(p)'
    BY <2>0, <1>5, <1>a
       DEF EnsureSubvolumes, At, Goto, app, Typed, ProcTyped, Stack, Achieved, Running, Making,
           Rooted, Mounted, Restoring, Halted, Restored, Deleting
  <2> QED
    BY <2>1, <2>2, <2>3, <2>4, <2>5, <2>6, Concludes
<1>6. CASE EnsureMounted(p)
  <2>1. Typed'
    <3>1. DiskTyped'
      BY <1>6, <1>a DEF EnsureMounted, MountHome, Typed, DiskTyped
    <3>2. ProcTyped' /\ forced' \in BOOLEAN
      BY <1>6, <1>a DEF EnsureMounted, MountHome, Goto, Typed, ProcTyped, Labels
    <3> QED
      BY <1>6, <1>c, <3>1, <3>2 DEF EnsureMounted, Typed
  <2>2. pc[p] # "off" /\ \A q \in Procs \ {p} : pc'[q] = pc[q]
    BY <1>6, <1>a DEF EnsureMounted, MountHome, At, Goto, Typed, ProcTyped
  <2>3. Stack'
    BY <1>6, <1>a, Marks
       DEF EnsureMounted, MountHome, At, Stack, Achieved, Rooted, Mounted
  <2>4. HalfDone'
    BY <1>6, <1>a, <1>b, <2>2 DEF EnsureMounted, At, app, HalfDone
  <2>5. WritesReachHome'
    BY <1>6, <1>a, Marks DEF EnsureMounted, MountHome, app, WritesReachHome, Running
  <2>6. Achieved(p)'
    BY <1>6, <1>a
       DEF EnsureMounted, At, Goto, MountHome, app, Typed, ProcTyped, Stack, Achieved, Running,
           Making, Rooted, Mounted, Restoring, Halted, Restored, Deleting
  <2> QED
    BY <2>1, <2>2, <2>3, <2>4, <2>5, <2>6, Concludes
<1> QED
  BY <1>1, <1>2, <1>3, <1>4, <1>5, <1>6

\* The steps of createSnapshot.
LEMMA SnapshotSound ==
  ASSUME VolumeInv, OneAtATime, NEW p \in Procs,
         NextTag(p) \/ Pause(p) \/ TakeSnapshot(p) \/ Unpause(p)
  PROVE  VolumeInv'
<1>a. Typed /\ Stack /\ HalfDone /\ WritesReachHome /\ Achieved(p)
  BY DEF VolumeInv
<1>b. \A q \in Procs : pc[q] # "off" /\ pc[p] # "off" => q = p
  BY DEF OneAtATime
<1>c. (UNCHANGED disk => DiskTyped') /\ (UNCHANGED app => AppTyped')
  BY <1>a DEF disk, app, Typed, DiskTyped, AppTyped
<1>1. CASE NextTag(p)
  <2>1. Typed'
    <3>1. ProcTyped' /\ forced' \in BOOLEAN
      BY <1>1, <1>a DEF NextTag, Goto, Typed, ProcTyped, Labels
    <3> QED
      BY <1>1, <1>c, <3>1 DEF NextTag, Typed
  <2>2. pc[p] # "off" /\ \A q \in Procs \ {p} : pc'[q] = pc[q]
    BY <1>1, <1>a DEF NextTag, At, Goto, Typed, ProcTyped
  <2>3. Stack'
    BY <1>1, <1>a DEF NextTag, disk, Stack
  <2>4. HalfDone'
    BY <1>1, <1>a, <1>b, <2>2 DEF NextTag, At, disk, app, HalfDone
  <2>5. WritesReachHome'
    BY <1>1, <1>a DEF NextTag, disk, app, WritesReachHome, Running
  <2>6. Achieved(p)'
    BY <1>1, <1>a
       DEF NextTag, At, Goto, disk, app, Typed, ProcTyped, Stack, Achieved, Running, Making, Rooted,
           Mounted, Restoring, Halted, Restored, Deleting
  <2> QED
    BY <2>1, <2>2, <2>3, <2>4, <2>5, <2>6, Concludes
<1>2. CASE Pause(p)
  <2>1. Typed'
    <3>1. AppTyped'
      BY <1>2, <1>a DEF Pause, Typed, AppTyped
    <3>2. ProcTyped' /\ forced' \in BOOLEAN
      BY <1>2, <1>a DEF Pause, Goto, Typed, ProcTyped, Labels
    <3> QED
      BY <1>2, <1>c, <3>1, <3>2 DEF Pause, Typed
  <2>2. pc[p] # "off" /\ \A q \in Procs \ {p} : pc'[q] = pc[q]
    BY <1>2, <1>a DEF Pause, At, Goto, Typed, ProcTyped
  <2>3. Stack'
    BY <1>2, <1>a DEF Pause, disk, Stack
  <2>4. HalfDone'
    BY <1>2, <1>a, <1>b, <2>2 DEF Pause, At, Goto, disk, Typed, ProcTyped, HalfDone
  <2>5. WritesReachHome'
    BY <1>2, <1>a DEF Pause, disk, WritesReachHome, Running
  <2>6. Achieved(p)'
    BY <1>2, <1>a
       DEF Pause, At, Goto, disk, Typed, ProcTyped, Stack, Achieved, Running, Making, Rooted,
           Mounted, Restoring, Halted, Restored, Deleting
  <2> QED
    BY <2>1, <2>2, <2>3, <2>4, <2>5, <2>6, Concludes
<1>3. CASE TakeSnapshot(p)
  <2>1. Typed'
    <3>1. DiskTyped'
      BY <1>3, <1>a DEF TakeSnapshot, Typed, DiskTyped
    <3>2. ProcTyped' /\ forced' \in BOOLEAN
      BY <1>3, <1>a DEF TakeSnapshot, Goto, Typed, ProcTyped, Labels
    <3> QED
      BY <1>3, <1>c, <3>1, <3>2 DEF TakeSnapshot, Typed
  <2>2. pc[p] # "off" /\ \A q \in Procs \ {p} : pc'[q] = pc[q]
    BY <1>3, <1>a DEF TakeSnapshot, At, Goto, Typed, ProcTyped
  <2>3. Stack'
    BY <1>3, <1>a DEF TakeSnapshot, Stack
  <2>4. HalfDone'
    BY <1>3, <1>a, <1>b, <2>2 DEF TakeSnapshot, At, Goto, app, Typed, ProcTyped, HalfDone
  <2>5. WritesReachHome'
    BY <1>3, <1>a DEF TakeSnapshot, app, WritesReachHome, Running
  <2>6. Achieved(p)'
    BY <1>3, <1>a
       DEF TakeSnapshot, At, Goto, app, Typed, ProcTyped, Stack, Achieved, Running, Making, Rooted,
           Mounted, Restoring, Halted, Restored, Deleting
  <2> QED
    BY <2>1, <2>2, <2>3, <2>4, <2>5, <2>6, Concludes
<1>4. CASE Unpause(p)
  <2>1. Typed'
    <3>1. AppTyped'
      BY <1>4, <1>a DEF Unpause, Typed, AppTyped
    <3>2. ProcTyped' /\ forced' \in BOOLEAN
      BY <1>4, <1>a DEF Unpause, Goto, Typed, ProcTyped, Labels
    <3> QED
      BY <1>4, <1>c, <3>1, <3>2 DEF Unpause, Typed
  <2>2. pc[p] # "off" /\ \A q \in Procs \ {p} : pc'[q] = pc[q]
    BY <1>4, <1>a DEF Unpause, At, Goto, Typed, ProcTyped
  <2>3. Stack'
    BY <1>4, <1>a DEF Unpause, disk, Stack
  <2>4. HalfDone'
    BY <1>4, <1>a, <1>b, <2>2 DEF Unpause, At, disk, HalfDone
  <2>5. WritesReachHome'
    BY <1>4, <1>a DEF Unpause, disk, WritesReachHome, Running
  <2>6. Achieved(p)'
    BY <1>4, <1>a
       DEF Unpause, At, Goto, disk, Typed, ProcTyped, Stack, Achieved, Running, Making, Rooted,
           Mounted, Restoring, Halted, Restored, Deleting
  <2> QED
    BY <2>1, <2>2, <2>3, <2>4, <2>5, <2>6, Concludes
<1> QED
  BY <1>1, <1>2, <1>3, <1>4

\* The steps of restoreHomeVolume.
LEMMA RestoreSound ==
  ASSUME VolumeInv, OneAtATime, NEW p \in Procs,
         LookupSnapshot(p) \/ StopContainer(p) \/ UmountHome(p) \/ DeleteHome(p) \/
         CloneSnapshot(p) \/ Remount(p) \/ StartContainer(p)
  PROVE  VolumeInv'
<1>a. Typed /\ Stack /\ HalfDone /\ WritesReachHome /\ Achieved(p)
  BY DEF VolumeInv
<1>b. \A q \in Procs : pc[q] # "off" /\ pc[p] # "off" => q = p
  BY DEF OneAtATime
<1>c. (UNCHANGED disk => DiskTyped') /\ (UNCHANGED app => AppTyped')
  BY <1>a DEF disk, app, Typed, DiskTyped, AppTyped
<1>1. CASE LookupSnapshot(p)
  <2>1. Typed'
    <3>1. ProcTyped' /\ forced' \in BOOLEAN
      BY <1>1, <1>a DEF LookupSnapshot, Goto, Typed, ProcTyped, Labels
    <3> QED
      BY <1>1, <1>c, <3>1 DEF LookupSnapshot, Typed
  <2>2. pc[p] # "off" /\ \A q \in Procs \ {p} : pc'[q] = pc[q]
    BY <1>1, <1>a DEF LookupSnapshot, At, Goto, Typed, ProcTyped
  <2>3. Stack'
    BY <1>1, <1>a DEF LookupSnapshot, disk, Stack
  <2>4. HalfDone'
    BY <1>1, <1>a, <1>b, <2>2 DEF LookupSnapshot, At, disk, app, HalfDone
  <2>5. WritesReachHome'
    BY <1>1, <1>a DEF LookupSnapshot, disk, app, WritesReachHome, Running
  <2>6. Achieved(p)'
    BY <1>1, <1>a
       DEF LookupSnapshot, At, Goto, disk, app, Typed, ProcTyped, Stack, Achieved, Running, Making,
           Rooted, Mounted, Restoring, Halted, Restored, Deleting
  <2> QED
    BY <2>1, <2>2, <2>3, <2>4, <2>5, <2>6, Concludes
<1>2. CASE StopContainer(p)
  <2>1. Typed'
    <3>1. AppTyped'
      BY <1>2, <1>a DEF StopContainer, Stopped, Typed, AppTyped
    <3>2. ProcTyped' /\ forced' \in BOOLEAN
      BY <1>2, <1>a DEF StopContainer, Goto, Typed, ProcTyped, Labels
    <3> QED
      BY <1>2, <1>c, <3>1, <3>2 DEF StopContainer, Typed
  <2>2. pc[p] # "off" /\ \A q \in Procs \ {p} : pc'[q] = pc[q]
    BY <1>2, <1>a DEF StopContainer, At, Goto, Typed, ProcTyped
  <2>3. Stack'
    BY <1>2, <1>a DEF StopContainer, disk, Stack
  <2>4. HalfDone'
    BY <1>2, <1>a, <1>b, <2>2 DEF StopContainer, At, Stopped, disk, HalfDone
  <2>5. WritesReachHome'
    BY <1>2, <1>a DEF StopContainer, Stopped, disk, WritesReachHome, Running
  <2>6. Achieved(p)'
    BY <1>2, <1>a
       DEF StopContainer, At, Goto, Stopped, Running, disk, Typed, ProcTyped, Stack, Achieved,
           Making, Rooted, Mounted, Restoring, Halted, Restored, Deleting
  <2> QED
    BY <2>1, <2>2, <2>3, <2>4, <2>5, <2>6, Concludes
<1>3. CASE UmountHome(p)
  <2>1. Typed'
    <3>1. DiskTyped'
      BY <1>3, <1>a DEF UmountHome, Typed, DiskTyped
    <3>2. ProcTyped' /\ forced' \in BOOLEAN
      BY <1>3, <1>a DEF UmountHome, Goto, Typed, ProcTyped, Labels
    <3> QED
      BY <1>3, <1>c, <3>1, <3>2 DEF UmountHome, Typed
  <2>2. pc[p] # "off" /\ \A q \in Procs \ {p} : pc'[q] = pc[q]
    BY <1>3, <1>a DEF UmountHome, At, Goto, Typed, ProcTyped
  <2>3. Stack'
    BY <1>3, <1>a, Marks DEF UmountHome, Stack
  <2>4. HalfDone'
    BY <1>3, <1>a, <1>b, <2>2 DEF UmountHome, At, app, HalfDone
  <2>5. WritesReachHome'
    BY <1>3, <1>a
       DEF UmountHome, At, app, Achieved, Restoring, Halted, WritesReachHome, Running
  <2>6. Achieved(p)'
    BY <1>3, <1>a
       DEF UmountHome, At, Goto, app, Typed, ProcTyped, Stack, Achieved, Running, Making, Rooted,
           Mounted, Restoring, Halted, Restored, Deleting
  <2> QED
    BY <2>1, <2>2, <2>3, <2>4, <2>5, <2>6, Concludes
<1>4. CASE DeleteHome(p)
  <2>1. Typed'
    <3>1. DiskTyped'
      BY <1>4, <1>a DEF DeleteHome, Typed, DiskTyped
    <3>2. ProcTyped' /\ forced' \in BOOLEAN
      BY <1>4, <1>a DEF DeleteHome, Goto, Typed, ProcTyped, Labels
    <3> QED
      BY <1>4, <1>c, <3>1, <3>2 DEF DeleteHome, Typed
  <2>2. pc[p] # "off" /\ \A q \in Procs \ {p} : pc'[q] = pc[q]
    BY <1>4, <1>a DEF DeleteHome, At, Goto, Typed, ProcTyped
  <2>3. Stack'
    BY <1>4, <1>a DEF DeleteHome, Stack
  <2>4. HalfDone'
    BY <1>4, <1>a, <1>b, <2>2 DEF DeleteHome, At, Goto, app, Typed, ProcTyped, HalfDone
  <2>5. WritesReachHome'
    BY <1>4, <1>a
       DEF DeleteHome, At, app, Achieved, Rooted, Mounted, Restoring, Halted,
           WritesReachHome, Running
  <2>6. Achieved(p)'
    BY <1>4, <1>a
       DEF DeleteHome, At, Goto, app, Typed, ProcTyped, Stack, Achieved, Running, Making, Rooted,
           Mounted, Restoring, Halted, Restored, Deleting
  <2> QED
    BY <2>1, <2>2, <2>3, <2>4, <2>5, <2>6, Concludes
<1>5. CASE CloneSnapshot(p)
  <2>0. snaps[tag[p]] # Absent /\ NewHome(snaps[tag[p]]) =>
          /\ home' \in Vols /\ home' # None /\ nextVol' \in 1..(MaxVol + 1)
          /\ data' \in [Vols -> 0..MaxVer] /\ data'[home'] = snaps[tag[p]]
    <3>1. snaps[tag[p]] # Absent => snaps[tag[p]] \in 0..MaxVer
      BY <1>a DEF Typed, DiskTyped, ProcTyped
    <3> QED
      BY <1>a, <3>1, Fresh
  <2>1. Typed'
    <3>1. DiskTyped'
      BY <2>0, <1>5, <1>a DEF CloneSnapshot, Typed, DiskTyped
    <3>2. ProcTyped' /\ forced' \in BOOLEAN
      BY <1>5, <1>a DEF CloneSnapshot, Goto, Typed, ProcTyped, Labels
    <3> QED
      BY <1>5, <1>c, <3>1, <3>2 DEF CloneSnapshot, Typed
  <2>2. pc[p] # "off" /\ \A q \in Procs \ {p} : pc'[q] = pc[q]
    BY <1>5, <1>a DEF CloneSnapshot, At, Goto, Typed, ProcTyped
  <2>3. Stack'
    BY <1>5, <1>a, Marks DEF CloneSnapshot, At, Stack, Achieved, Restored
  <2>4. HalfDone'
    BY <2>0, <1>5, <1>a, <1>b, <2>2
       DEF CloneSnapshot, At, Goto, app, Typed, ProcTyped, Stack, HalfDone, Achieved, Rooted,
           Mounted, Restoring, Halted
  <2>5. WritesReachHome'
    BY <1>5, <1>a
       DEF CloneSnapshot, At, app, Achieved, Restoring, Halted, WritesReachHome, Running
  <2>6. Achieved(p)'
    BY <2>0, <1>5, <1>a
       DEF CloneSnapshot, At, Goto, app, Typed, ProcTyped, Stack, Achieved, Running, Making, Rooted,
           Mounted, Restoring, Halted, Restored, Deleting
  <2> QED
    BY <2>1, <2>2, <2>3, <2>4, <2>5, <2>6, Concludes
<1>6. CASE Remount(p)
  <2>1. Typed'
    <3>1. DiskTyped'
      BY <1>6, <1>a DEF Remount, MountHome, Typed, DiskTyped
    <3>2. ProcTyped' /\ forced' \in BOOLEAN
      BY <1>6, <1>a DEF Remount, MountHome, Goto, Typed, ProcTyped, Labels
    <3> QED
      BY <1>6, <1>c, <3>1, <3>2 DEF Remount, Typed
  <2>2. pc[p] # "off" /\ \A q \in Procs \ {p} : pc'[q] = pc[q]
    BY <1>6, <1>a DEF Remount, MountHome, At, Goto, Typed, ProcTyped
  <2>3. Stack'
    BY <1>6, <1>a, Marks
       DEF Remount, MountHome, At, Stack, Achieved, Rooted, Mounted, Restoring, Halted,
           Restored
  <2>4. HalfDone'
    BY <1>6, <1>a, <1>b, <2>2 DEF Remount, At, app, HalfDone
  <2>5. WritesReachHome'
    BY <1>6, <1>a
       DEF Remount, At, app, Achieved, Restoring, Halted, WritesReachHome, Running
  <2>6. Achieved(p)'
    BY <1>6, <1>a
       DEF Remount, At, Goto, MountHome, app, Typed, ProcTyped, Stack, Achieved, Running, Making,
           Rooted, Mounted, Restoring, Halted, Restored, Deleting
  <2> QED
    BY <2>1, <2>2, <2>3, <2>4, <2>5, <2>6, Concludes
<1>7. CASE StartContainer(p)
  <2>1. Typed'
    <3>1. AppTyped'
      BY <1>7, <1>a DEF StartContainer, Started, Typed, AppTyped, DiskTyped
    <3>2. ProcTyped' /\ forced' \in BOOLEAN
      BY <1>7, <1>a DEF StartContainer, Goto, Typed, ProcTyped, Labels
    <3> QED
      BY <1>7, <1>c, <3>1, <3>2 DEF StartContainer, Typed
  <2>2. pc[p] # "off" /\ \A q \in Procs \ {p} : pc'[q] = pc[q]
    BY <1>7, <1>a DEF StartContainer, At, Goto, Typed, ProcTyped
  <2>3. Stack'
    BY <1>7, <1>a DEF StartContainer, disk, Stack
  <2>4. HalfDone'
    BY <1>7, <1>a, <1>b, <2>2 DEF StartContainer, At, Launches, Started, disk, HalfDone
  <2>5. WritesReachHome'
    <3>1. CASE Launches(p)
      <4>1. container' = "running" /\ view' = mount /\ mount \in Vols /\ (mount = home \/ kept)
        BY <1>7, <1>a, <3>1, Marks DEF StartContainer, At, Started, Stack, Achieved, Mounted
      <4>2. UNCHANGED <<mount, kept, home, emptied, died, forced>>
        BY <1>7 DEF StartContainer, disk
      <4> QED
        BY <1>a, <4>1, <4>2 DEF WritesReachHome
    <3>2. CASE ~Launches(p)
      <4>1. UNCHANGED <<container, view, mount, kept, home, emptied, died, forced>>
        BY <1>7, <3>2 DEF StartContainer, disk
      <4> QED
        BY <1>a, <4>1 DEF WritesReachHome, Running
    <3> QED
      BY <3>1, <3>2
  <2>6. Achieved(p)'
    BY <1>7, <1>a
       DEF StartContainer, At, Goto, Launches, Started, disk, Typed, ProcTyped, Stack, Achieved,
           Running, Making, Rooted, Mounted, Restoring, Halted, Restored, Deleting
  <2> QED
    BY <2>1, <2>2, <2>3, <2>4, <2>5, <2>6, Concludes
<1> QED
  BY <1>1, <1>2, <1>3, <1>4, <1>5, <1>6, <1>7

\* The steps of deleteHomeVolume.
LEMMA DeleteSound ==
  ASSUME VolumeInv, OneAtATime, NEW p \in Procs,
         RemoveContainer(p) \/ UmountAll(p) \/ DetachLoop(p) \/ RemoveAll(p)
  PROVE  VolumeInv'
<1>a. Typed /\ Stack /\ HalfDone /\ WritesReachHome /\ Achieved(p)
  BY DEF VolumeInv
<1>b. \A q \in Procs : pc[q] # "off" /\ pc[p] # "off" => q = p
  BY DEF OneAtATime
<1>c. (UNCHANGED disk => DiskTyped') /\ (UNCHANGED app => AppTyped')
  BY <1>a DEF disk, app, Typed, DiskTyped, AppTyped
<1>1. CASE RemoveContainer(p)
  <2>1. Typed'
    <3>1. AppTyped'
      BY <1>1, <1>a DEF RemoveContainer, Typed, AppTyped
    <3>2. ProcTyped' /\ forced' \in BOOLEAN
      BY <1>1, <1>a DEF RemoveContainer, Goto, Typed, ProcTyped, Labels
    <3> QED
      BY <1>1, <1>c, <3>1, <3>2 DEF RemoveContainer, Typed
  <2>2. pc[p] # "off" /\ \A q \in Procs \ {p} : pc'[q] = pc[q]
    BY <1>1, <1>a DEF RemoveContainer, At, Goto, Typed, ProcTyped
  <2>3. Stack'
    BY <1>1, <1>a DEF RemoveContainer, disk, Stack
  <2>4. HalfDone'
    BY <1>1, <1>a, <1>b, <2>2 DEF RemoveContainer, At, disk, HalfDone
  <2>5. WritesReachHome'
    BY <1>1, <1>a DEF RemoveContainer, disk, WritesReachHome, Running
  <2>6. Achieved(p)'
    BY <1>1, <1>a
       DEF RemoveContainer, At, Goto, disk, Typed, ProcTyped, Stack, Achieved, Running, Making,
           Rooted, Mounted, Restoring, Halted, Restored, Deleting
  <2> QED
    BY <2>1, <2>2, <2>3, <2>4, <2>5, <2>6, Concludes
<1>2. CASE UmountAll(p)
  <2>1. Typed'
    <3>1. DiskTyped'
      BY <1>2, <1>a DEF UmountAll, Typed, DiskTyped
    <3>2. ProcTyped' /\ forced' \in BOOLEAN
      BY <1>2, <1>a DEF UmountAll, Goto, Typed, ProcTyped, Labels
    <3> QED
      BY <1>2, <1>c, <3>1, <3>2 DEF UmountAll, Typed
  <2>2. pc[p] # "off" /\ \A q \in Procs \ {p} : pc'[q] = pc[q]
    BY <1>2, <1>a DEF UmountAll, At, Goto, Typed, ProcTyped
  <2>3. Stack'
    BY <1>2, <1>a, Marks DEF UmountAll, Stack
  <2>4. HalfDone'
    BY <1>2, <1>a, <1>b, <2>2 DEF UmountAll, At, app, HalfDone
  <2>5. WritesReachHome'
    BY <1>2, <1>a DEF UmountAll, At, app, Achieved, Deleting, WritesReachHome, Running
  <2>6. Achieved(p)'
    BY <1>2, <1>a
       DEF UmountAll, At, Goto, app, Typed, ProcTyped, Stack, Achieved, Running, Making, Rooted,
           Mounted, Restoring, Halted, Restored, Deleting
  <2> QED
    BY <2>1, <2>2, <2>3, <2>4, <2>5, <2>6, Concludes
<1>3. CASE DetachLoop(p)
  <2>1. Typed'
    <3>1. DiskTyped'
      BY <1>3, <1>a DEF DetachLoop, Typed, DiskTyped
    <3>2. ProcTyped' /\ forced' \in BOOLEAN
      BY <1>3, <1>a DEF DetachLoop, Goto, Typed, ProcTyped, Labels
    <3> QED
      BY <1>3, <1>c, <3>1, <3>2 DEF DetachLoop, Typed
  <2>2. pc[p] # "off" /\ \A q \in Procs \ {p} : pc'[q] = pc[q]
    BY <1>3, <1>a DEF DetachLoop, At, Goto, Typed, ProcTyped
  <2>3. Stack'
    BY <1>3, <1>a DEF DetachLoop, Stack
  <2>4. HalfDone'
    BY <1>3, <1>a, <1>b, <2>2 DEF DetachLoop, At, app, HalfDone
  <2>5. WritesReachHome'
    BY <1>3, <1>a DEF DetachLoop, app, WritesReachHome, Running
  <2>6. Achieved(p)'
    BY <1>3, <1>a
       DEF DetachLoop, At, Goto, app, Typed, ProcTyped, Stack, Achieved, Running, Making, Rooted,
           Mounted, Restoring, Halted, Restored, Deleting
  <2> QED
    BY <2>1, <2>2, <2>3, <2>4, <2>5, <2>6, Concludes
<1>4. CASE RemoveAll(p)
  <2>1. Typed'
    <3>1. DiskTyped'
      BY <1>4, <1>a DEF RemoveAll, Typed, DiskTyped
    <3>2. ProcTyped' /\ forced' \in BOOLEAN
      BY <1>4, <1>a DEF RemoveAll, Goto, Typed, ProcTyped, Labels
    <3> QED
      BY <1>4, <1>c, <3>1, <3>2 DEF RemoveAll, Typed
  <2>2. pc[p] # "off" /\ \A q \in Procs \ {p} : pc'[q] = pc[q]
    BY <1>4, <1>a DEF RemoveAll, At, Goto, Typed, ProcTyped
  <2>3. Stack'
    BY <1>4, <1>a, Marks DEF RemoveAll, Stack
  <2>4. HalfDone'
    BY <1>4, <1>a, <1>b, <2>2 DEF RemoveAll, At, app, HalfDone
  <2>5. WritesReachHome'
    BY <1>4, <1>a DEF RemoveAll, At, app, Achieved, Deleting, WritesReachHome, Running
  <2>6. Achieved(p)'
    BY <1>4, <1>a
       DEF RemoveAll, At, Goto, app, Typed, ProcTyped, Stack, Achieved, Running, Making, Rooted,
           Mounted, Restoring, Halted, Restored, Deleting
  <2> QED
    BY <2>1, <2>2, <2>3, <2>4, <2>5, <2>6, Concludes
<1> QED
  BY <1>1, <1>2, <1>3, <1>4

\* The steps of update and open.
LEMMA ContainSound ==
  ASSUME VolumeInv, OneAtATime, NEW p \in Procs,
         Replace(p) \/ Attach(p)
  PROVE  VolumeInv'
<1>a. Typed /\ Stack /\ HalfDone /\ WritesReachHome /\ Achieved(p)
  BY DEF VolumeInv
<1>b. \A q \in Procs : pc[q] # "off" /\ pc[p] # "off" => q = p
  BY DEF OneAtATime
<1>c. (UNCHANGED disk => DiskTyped') /\ (UNCHANGED app => AppTyped')
  BY <1>a DEF disk, app, Typed, DiskTyped, AppTyped
<1>1. CASE Replace(p)
  <2>1. Typed'
    <3>1. AppTyped'
      BY <1>1, <1>a DEF Replace, Typed, AppTyped
    <3>2. ProcTyped' /\ forced' \in BOOLEAN
      BY <1>1, <1>a DEF Replace, Goto, Typed, ProcTyped, Labels
    <3> QED
      BY <1>1, <1>c, <3>1, <3>2 DEF Replace, Typed
  <2>2. pc[p] # "off" /\ \A q \in Procs \ {p} : pc'[q] = pc[q]
    BY <1>1, <1>a DEF Replace, At, Goto, Typed, ProcTyped
  <2>3. Stack'
    BY <1>1, <1>a DEF Replace, disk, Stack
  <2>4. HalfDone'
    BY <1>1, <1>a, <1>b, <2>2 DEF Replace, At, disk, HalfDone
  <2>5. WritesReachHome'
    BY <1>1, <1>a DEF Replace, disk, WritesReachHome, Running
  <2>6. Achieved(p)'
    BY <1>1, <1>a
       DEF Replace, At, Goto, disk, Typed, ProcTyped, Stack, Achieved, Running, Making, Rooted,
           Mounted, Restoring, Halted, Restored, Deleting
  <2> QED
    BY <2>1, <2>2, <2>3, <2>4, <2>5, <2>6, Concludes
<1>2. CASE Attach(p)
  <2>1. Typed'
    <3>1. AppTyped'
      BY <1>2, <1>a DEF Attach, Started, Typed, AppTyped, DiskTyped
    <3>2. ProcTyped' /\ forced' \in BOOLEAN
      BY <1>2, <1>a DEF Attach, Goto, Typed, ProcTyped, Labels
    <3> QED
      BY <1>2, <1>c, <3>1, <3>2 DEF Attach, Typed
  <2>2. pc[p] # "off" /\ \A q \in Procs \ {p} : pc'[q] = pc[q]
    BY <1>2, <1>a DEF Attach, At, Goto, Typed, ProcTyped
  <2>3. Stack'
    BY <1>2, <1>a DEF Attach, disk, Stack
  <2>4. HalfDone'
    BY <1>2, <1>a, <1>b, <2>2 DEF Attach, At, Launches, Started, disk, HalfDone
  <2>5. WritesReachHome'
    <3>1. CASE Launches(p)
      <4>1. container' = "running" /\ view' = mount /\ mount \in Vols /\ (mount = home \/ kept)
        BY <1>2, <1>a, <3>1, Marks DEF Attach, At, Started, Stack, Achieved, Mounted
      <4>2. UNCHANGED <<mount, kept, home, emptied, died, forced>>
        BY <1>2 DEF Attach, disk
      <4> QED
        BY <1>a, <4>1, <4>2 DEF WritesReachHome
    <3>2. CASE ~Launches(p)
      <4>1. UNCHANGED <<container, view, mount, kept, home, emptied, died, forced>>
        BY <1>2, <3>2 DEF Attach, disk
      <4> QED
        BY <1>a, <4>1 DEF WritesReachHome, Running
    <3> QED
      BY <3>1, <3>2
  <2>6. Achieved(p)'
    BY <1>2, <1>a
       DEF Attach, At, Goto, Launches, Started, disk, Typed, ProcTyped, Stack, Achieved, Running,
           Making, Rooted, Mounted, Restoring, Halted, Restored, Deleting
  <2> QED
    BY <2>1, <2>2, <2>3, <2>4, <2>5, <2>6, Concludes
<1> QED
  BY <1>1, <1>2

\* Between commands a command starts.
LEMMA BeginSound ==
  ASSUME VolumeInv, OneAtATime', NEW p \in Procs, NEW j \in Commands, NEW t \in Tags, Begin(p, j, t)
  PROVE  VolumeInv'
<1>a. Typed /\ HalfDone /\ \A q \in Procs : Achieved(q)
  BY DEF VolumeInv
<1>1. /\ pc[p] = "off" /\ UNCHANGED <<disk, app, died, forced>>
      /\ \E l \in {"rm", "file"} : pc' = [pc EXCEPT ![p] = l]
      /\ \E n \in {"run", "start", "nothing"} :
           need' = [need EXCEPT ![p] = n] /\ (n = "run" => container = "absent")
      /\ made' = [made EXCEPT ![p] = FALSE]
      /\ job' = [job EXCEPT ![p] = j] /\ tag' = [tag EXCEPT ![p] = t] /\ j \in Jobs
  BY VolumeAssumption DEF Begin, At, Goto
<1>2. Typed'
  <2>1. DiskTyped' /\ AppTyped' /\ forced' \in BOOLEAN
    BY <1>a, <1>1 DEF Typed, DiskTyped, AppTyped, disk, app
  <2>2. ProcTyped'
    BY <1>a, <1>1 DEF Typed, ProcTyped, Labels
  <2> QED
    BY <2>1, <2>2 DEF Typed
<1>3. \A q \in Procs \ {p} : pc'[q] = pc[q] /\ pc'[q] = "off"
  <2>1. /\ \A q \in Procs \ {p} : pc'[q] = pc[q]
        /\ pc'[p] # "off"
    BY <1>a, <1>1 DEF Typed, ProcTyped
  <2> QED
    BY <2>1 DEF OneAtATime
<1>4. Stack' /\ WritesReachHome'
  BY <1>1 DEF VolumeInv, Stack, WritesReachHome, Running, disk, app
<1>5. HalfDone'
  <2>1. \A q \in Procs : pc[q] \notin {"clone", "take paused", "unpause", "loop", "mkfs"}
    BY <1>1, <1>3
  <2> QED
    BY <1>a, <1>1, <2>1 DEF HalfDone, At, disk, app
<1>6. Achieved(p)'
  <2>1. /\ pc'[p] \in {"rm", "file"} /\ ~made'[p]
        /\ need'[p] = "run" => container' = "absent"
    BY <1>a, <1>1 DEF Typed, ProcTyped, app
  <2> QED
    BY <2>1 DEF Achieved, Rooted, Mounted, Restoring, Halted, Restored, Deleting
<1>7. ASSUME NEW q \in Procs \ {p} PROVE Achieved(q)'
  BY <1>3 DEF Achieved, Making, Rooted, Mounted, Restoring, Halted, Restored, Deleting
<1> QED
  BY <1>2, <1>4, <1>5, <1>6, <1>7 DEF VolumeInv

\* A command dies at the step it is at.
LEMMA DiesSound ==
  ASSUME VolumeInv, OneAtATime, NEW p \in Procs, Dies(p)
  PROVE  VolumeInv'
<1>a. Typed /\ HalfDone /\ \A q \in Procs : pc[q] # "off" => q = p
  BY DEF VolumeInv, OneAtATime, Dies
<1>1. /\ pc[p] # "off" /\ died = "nowhere" /\ died' = pc[p]
      /\ UNCHANGED <<disk, app, job, tag, need, made, forced>>
      /\ pc' = [pc EXCEPT ![p] = "off"]
  BY DEF Dies, Goto
<1>2. Typed'
  <2>1. DiskTyped' /\ AppTyped' /\ forced' \in BOOLEAN
    BY <1>a, <1>1 DEF Typed, DiskTyped, AppTyped, disk, app
  <2>2. ProcTyped'
    BY <1>a, <1>1 DEF Typed, ProcTyped, Labels
  <2> QED
    BY <2>1, <2>2 DEF Typed
<1>3. pc'[p] = "off" /\ \A q \in Procs \ {p} : pc'[q] = pc[q]
  BY <1>a, <1>1 DEF Typed, ProcTyped
<1>4. Stack' /\ WritesReachHome'
  BY <1>1 DEF VolumeInv, Stack, WritesReachHome, Running, disk, app
<1>5. HalfDone'
  BY <1>a, <1>1 DEF HalfDone, At, disk, app
<1>6. Achieved(p)'
  BY <1>3 DEF Achieved, Making, Rooted, Mounted, Restoring, Halted, Restored, Deleting
<1> QED
  BY <1>1, <1>2, <1>3, <1>4, <1>5, <1>6, Concludes

\* The host reboots, the container exits, the app writes: no command moves.
LEMMA AppSound ==
  ASSUME VolumeInv, Reboot \/ ContainerExits \/ AppWrites
  PROVE  VolumeInv'
<1>a. Typed /\ Stack /\ HalfDone /\ WritesReachHome /\ \A p \in Procs : Achieved(p)
  BY DEF VolumeInv
<1>b. UNCHANGED proc /\ UNCHANGED <<died, forced>>
  BY DEF Reboot, ContainerExits, AppWrites
<1>1. Typed'
  <2>1. ver < MaxVer => ver + 1 \in 0..MaxVer
    BY <1>a, VolumeAssumption DEF Typed, AppTyped
  <2>2. DiskTyped'
    BY <1>a, <2>1 DEF Reboot, ContainerExits, AppWrites, Typed, DiskTyped, disk
  <2>3. AppTyped'
    BY <1>a, <2>1 DEF Reboot, ContainerExits, AppWrites, Stopped, Typed, AppTyped
  <2>4. ProcTyped' /\ forced' \in BOOLEAN
    BY <1>a, <1>b DEF proc, Typed, ProcTyped
  <2> QED
    BY <2>2, <2>3, <2>4 DEF Typed
<1>2. CASE Reboot
  <2>1. /\ \A p \in Procs : pc[p] = "off"
        /\ root' = "off" /\ mount' = None /\ container' \in {"absent", "stopped"}
        /\ UNCHANGED <<file, home, had, emptied>>
    BY <1>2, <1>a DEF Reboot, At, Stopped, Typed, AppTyped
  <2>2. Stack' /\ WritesReachHome'
    BY <1>a, <1>b, <2>1, Marks DEF Stack, WritesReachHome, Running
  <2>3. HalfDone'
    BY <1>a, <1>b, <2>1 DEF HalfDone, At
  <2>4. \A p \in Procs : Achieved(p)'
    BY <1>b, <2>1 DEF proc, Achieved, Making, Rooted, Mounted, Restoring, Halted, Restored, Deleting
  <2> QED
    BY <1>1, <2>2, <2>3, <2>4 DEF VolumeInv
<1>3. CASE ContainerExits
  <2>1. container = "running" /\ container' = "stopped" /\ UNCHANGED disk
    BY <1>3 DEF ContainerExits, Stopped
  <2>2. Stack' /\ WritesReachHome'
    BY <1>a, <1>b, <2>1 DEF Stack, WritesReachHome, Running, disk
  <2>3. HalfDone'
    BY <1>a, <1>b, <2>1 DEF HalfDone, At, disk, proc
  <2>4. \A p \in Procs : Achieved(p)'
    BY <1>a, <1>b, <2>1 DEF disk, proc, Achieved, Running
  <2> QED
    BY <1>1, <2>2, <2>3, <2>4 DEF VolumeInv
<1>4. CASE AppWrites
  <2>1. /\ container = "running" /\ container' = container
        /\ UNCHANGED <<file, loop, root, home, snaps, mount, nextVol, emptied, had, kept, view>>
    BY <1>4 DEF AppWrites
  <2>2. Stack' /\ WritesReachHome'
    BY <1>a, <1>b, <2>1 DEF Stack, WritesReachHome, Running
  <2>3. HalfDone'
    BY <1>a, <1>b, <2>1 DEF HalfDone, At, proc
  <2>4. \A p \in Procs : pc[p] \in Restored => forced
    BY <1>a, <2>1 DEF Achieved, Running, Restored, Restoring, Halted
  <2>5. \A p \in Procs : Achieved(p)'
    BY <1>a, <1>b, <2>1, <2>4 DEF proc, Achieved, Running
  <2> QED
    BY <1>1, <2>2, <2>3, <2>5 DEF VolumeInv
<1> QED
  BY <1>2, <1>3, <1>4

-----------------------------------------------------------------------------
(* The theorems                                                            *)

\* Init establishes it.
LEMMA InitSound == Init => VolumeInv
<1> SUFFICES ASSUME Init PROVE VolumeInv
  OBVIOUS
<1>1. Typed
  <2>1. 0 \in 0..MaxVer /\ 1 \in 1..(MaxVol + 1) /\ 1 \in Tags
    BY VolumeAssumption DEF Tags
  <2>2. DiskTyped
    BY <2>1 DEF Init, DiskTyped
  <2>3. AppTyped /\ ProcTyped /\ forced \in BOOLEAN
    BY <2>1 DEF Init, AppTyped, ProcTyped, Labels, Jobs
  <2> QED
    BY <2>2, <2>3 DEF Typed
<1>2. /\ file = "none" /\ root = "off" /\ mount = None /\ container = "absent"
      /\ had = FALSE /\ emptied = FALSE
  BY DEF Init
<1>3. Stack /\ HalfDone /\ WritesReachHome
  BY <1>2, Marks DEF Stack, HalfDone, WritesReachHome, Running
<1>4. \A p \in Procs : pc[p] = "off"
  BY DEF Init
<1>5. \A p \in Procs : Achieved(p)
  BY <1>4 DEF Achieved, Making, Rooted, Mounted, Restoring, Halted, Restored, Deleting
<1> QED
  BY <1>1, <1>3, <1>5 DEF VolumeInv

\* Every step keeps it.
LEMMA NextSound == VolumeInv /\ OneAtATime /\ OneAtATime' /\ [Next]_vars => VolumeInv'
<1> SUFFICES ASSUME VolumeInv, OneAtATime, OneAtATime', [Next]_vars PROVE VolumeInv'
  OBVIOUS
<1>1. ASSUME NEW p \in Procs, NEW j \in Commands, NEW t \in Tags, Begin(p, j, t) PROVE VolumeInv'
  BY <1>1, BeginSound
<1>2. ASSUME NEW p \in Procs,
             Ensure(p) \/ Replace(p) \/ Attach(p) \/ Snapshot(p) \/ Restore(p) \/ Delete(p)
      PROVE  VolumeInv'
  BY <1>2, EnsureSound, SnapshotSound, RestoreSound, DeleteSound, ContainSound
     DEF Ensure, Snapshot, Restore, Delete
<1>3. ASSUME NEW p \in Procs, Dies(p) PROVE VolumeInv'
  BY <1>3, DiesSound
<1>4. CASE Reboot \/ ContainerExits \/ AppWrites
  BY <1>4, AppSound
<1>5. CASE UNCHANGED vars
  <2>1. UNCHANGED <<disk, app, proc, died, forced>>
    BY <1>5 DEF vars
  <2>2. Typed'
    BY <2>1 DEF VolumeInv, Typed, DiskTyped, AppTyped, ProcTyped, disk, app, proc
  <2>3. Stack' /\ WritesReachHome'
    BY <2>1 DEF VolumeInv, Stack, WritesReachHome, Running, disk, app
  <2>4. HalfDone'
    BY <2>1 DEF VolumeInv, HalfDone, At, disk, app, proc
  <2>5. \A p \in Procs : Achieved(p)'
    BY <2>1 DEF VolumeInv, Achieved, Running, disk, app, proc
  <2> QED
    BY <2>2, <2>3, <2>4, <2>5 DEF VolumeInv
<1> QED
  BY <1>1, <1>2, <1>3, <1>4, <1>5 DEF Next

\* It always holds.
LEMMA Invariant == Spec /\ []OneAtATime => []VolumeInv
BY InitSound, NextSound, PTL DEF Spec

\* TypeOK: every variable keeps its type, and what is mounted is mounted from
\* where it should be.
THEOREM Typing == Spec /\ []OneAtATime => []TypeOK
<1>1. VolumeInv => TypeOK
  BY DEF VolumeInv, Typed, DiskTyped, AppTyped, ProcTyped, Stack, TypeOK
<1> QED
  BY <1>1, Invariant, PTL

\* WritesReachHome: what a running app writes is in @home, through snapshots,
\* restores, updates, reboots and a command's death; an app that had a home
\* gets an empty one only when a restore died before it made @home anew.
THEOREM HomeKept == Spec /\ []OneAtATime => []WritesReachHome
<1>1. VolumeInv => WritesReachHome
  BY DEF VolumeInv
<1> QED
  BY <1>1, Invariant, PTL

\* RestoreDelivers: a restore that starts the container again has made @home
\* the snapshot it was asked for.
THEOREM Delivered == Spec /\ []OneAtATime => []RestoreDelivers
<1>1. VolumeInv => RestoreDelivers
  BY DEF VolumeInv, RestoreDelivers, Achieved, Stack, Mounted, Restored, At
<1> QED
  BY <1>1, Invariant, PTL

\* UsableBetweenCommands: only a command's death leaves the container paused
\* or the volume without a filesystem.
THEOREM LeftUsable == Spec /\ []OneAtATime => []UsableBetweenCommands
<1>1. VolumeInv => UsableBetweenCommands
  BY DEF VolumeInv, HalfDone, UsableBetweenCommands, At
<1> QED
  BY <1>1, Invariant, PTL
=============================================================================
