----------------------------- MODULE MCSession ------------------------------
(***************************************************************************)
(* A small instance of Session for TLC: the sizes are in the cfg files.    *)
(***************************************************************************)
EXTENDS Session
=============================================================================
