----------------------------- MODULE MCModuleEx -----------------------------
(***************************************************************************)
(* Instances of ModuleEx for TLC.                                          *)
(***************************************************************************)
EXTENDS ModuleEx, TLC

Symmetry == Permutations(Procs)
=============================================================================
