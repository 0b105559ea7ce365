------------------------------- MODULE MCShell -------------------------------
\* The instance of Shell that TLC checks: see MCShell.cfg.  A login that is
\* its own name, and an alias for another server.
EXTENDS Shell, TLC

CONSTANTS h1, h2, web, d1, d2

Aliases == [h \in Names |-> IF h = h1 THEN h1 ELSE h2]

Symmetry == Permutations(Deleters)
==============================================================================
