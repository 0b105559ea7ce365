----------------------------- MODULE MCAppUrls -----------------------------
(***************************************************************************)
(* Small instances of AppUrls for TLC: the apps are interchangeable, the   *)
(* first primary user is always the same one, and only the first two       *)
(* commands overlap, without faults then.                                  *)
(***************************************************************************)
EXTENDS AppUrls, TLC

Symmetry == Permutations(Apps)
Bounds ==
  /\ Loaded.on /\ commands = 0 => Loaded.primary = "ann"
  /\ raced => faults = 0 /\ ~(commands = MaxCommands /\ Cardinality(Active) > 1)
=============================================================================
