------------------------------- MODULE MCMux -------------------------------
(***************************************************************************)
(* A small instance of Mux for TLC: the sizes are in the cfg files.        *)
(***************************************************************************)
EXTENDS Mux

\* What end e works on.
EndState(e) ==
  <<alive[e], wire[e], nextID[e], streams[e], streamMu[e], closedCh[e], opening[e],
    muxClose[e], loop[e], st[e], owner[e], queue[e], reader[e], got[e],
    reads[e]>>

\* Once the connection is down the two ends have nothing in common any more,
\* so every order of their steps shows the same states of each: only the one
\* in which the server first runs until its process exits is explored.
ServerFirstWhenDown ==
  link = "down" /\ alive["server"] => UNCHANGED EndState("client")
=============================================================================
