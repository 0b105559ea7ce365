----------------------------- MODULE MCForwards -----------------------------
(***************************************************************************)
(* A small instance of Forwards for TLC: the sizes are in the cfg file.    *)
(***************************************************************************)
EXTENDS Forwards

TwoApps == <<"app1", "app2">>
=============================================================================
