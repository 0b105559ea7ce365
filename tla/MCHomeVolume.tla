---------------------------- MODULE MCHomeVolume ----------------------------
(***************************************************************************)
(* A small instance of HomeVolume for TLC: the sizes are in the cfg files. *)
(***************************************************************************)
EXTENDS HomeVolume

\* What can still matter of a state: the command of a process only while it
\* runs, the files of a subvolume only while something leads to it.
Seen ==
  << file, loop, root, home, snaps, mount, nextVol, emptied, had, kept, app, pc, died, forced,
     [v \in Vols |-> IF v \in {home, mount, view} THEN data[v] ELSE 0],
     [p \in Procs |-> IF pc[p] = "off" THEN <<>> ELSE <<job[p], tag[p], need[p], made[p]>>] >>

\* The app has been opened, its first write is in snapshot v1 and its second
\* one in @home; its container runs.
OpenedApp ==
  /\ file = "btrfs" /\ loop = TRUE /\ root = "on"
  /\ home = 1 /\ data = [v \in Vols |-> IF v = 1 THEN 2 ELSE 0]
  /\ snaps = [t \in Tags |-> IF t = 1 THEN 1 ELSE Absent]
  /\ mount = 1 /\ container = "running" /\ view = 1
  /\ nextVol = 2 /\ ver = 2
  /\ pc = [p \in Procs |-> "off"] /\ job = [p \in Procs |-> "list"]
  /\ tag = [p \in Procs |-> 1] /\ need = [p \in Procs |-> "nothing"]
  /\ made = [p \in Procs |-> FALSE]
  /\ died = "nowhere" /\ forced = FALSE /\ emptied = FALSE /\ had = TRUE
  /\ kept = FALSE
TwoSpec == OpenedApp /\ [][Next]_vars
=============================================================================
