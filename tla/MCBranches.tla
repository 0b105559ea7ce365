----------------------------- MODULE MCBranches -----------------------------
(***************************************************************************)
(* Small instances of Branches for TLC.                                    *)
(***************************************************************************)
EXTENDS Branches, TLC

CONSTANTS code, env, feature, main, v1, v2

TwoFiles == {code, env}
EnvIgnored == {env}
OneName == {feature}
NamedMain == {main}
TwoVersions == {v1, v2}
VersionSymmetry == Permutations(Versions)
=============================================================================
