--------------------------- MODULE MCServerState ---------------------------
(***************************************************************************)
(* A small instance of ServerState for TLC.                                *)
(***************************************************************************)
EXTENDS ServerState, TLC

CONSTANTS p1, p2, app1, app2, app3

OneProc == {p1}
TwoProcs == {p1, p2}
TwoApps == {app1, app2}
ThreeApps == {app1, app2, app3}
AppSymmetry == Permutations(Apps)
=============================================================================
