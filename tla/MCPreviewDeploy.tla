-------------------------- MODULE MCPreviewDeploy --------------------------
(* Small instances of PreviewDeploy for TLC.                                *)
EXTENDS PreviewDeploy, TLC

Symmetry == Permutations(Workers)
=============================================================================
