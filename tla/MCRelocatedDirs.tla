-------------------------- MODULE MCRelocatedDirs --------------------------
(***************************************************************************)
(* RelocatedDirs with relocation at every second level instead of every    *)
(* eighth, so that a path of four names is relocated twice.                *)
(***************************************************************************)
EXTENDS RelocatedDirs, TLC

\* Names are only compared.
NameSymmetry == Permutations(Name)
=============================================================================
