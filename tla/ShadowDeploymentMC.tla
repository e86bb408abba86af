------------------------- MODULE ShadowDeploymentMC -------------------------
(***************************************************************************)
(* ShadowDeployment for TLC.  No definition tells one lineage from another *)
(* or one price from another, and all properties are safety properties.    *)
(***************************************************************************)
EXTENDS ShadowDeployment, TLC

Symmetry == Permutations(Lineages) \union Permutations(Prices)
=============================================================================
