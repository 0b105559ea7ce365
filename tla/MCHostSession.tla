--------------------------- MODULE MCHostSession ---------------------------
(***************************************************************************)
(* A small instance of HostSession for TLC.                                *)
(***************************************************************************)
EXTENDS HostSession

CONSTANTS s1, s2, v1, v2

TwoSessions == {s1, s2}
TwoRefs == {v1, v2}
=============================================================================
