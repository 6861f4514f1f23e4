--------------------------- MODULE MCStaticDeploy ---------------------------
(* Small instances of StaticDeploy for TLC.                                 *)
EXTENDS StaticDeploy, TLC

Symmetry == Permutations(Keyed)
=============================================================================
