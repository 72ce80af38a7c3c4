----------------------------- MODULE MCCpuLimit -----------------------------
(***************************************************************************)
(* Instances of CpuLimit for TLC.  Pids are numbers because the order of   *)
(* /proc matters; the limiters are interchangeable.                        *)
(***************************************************************************)
EXTENDS CpuLimit, TLC

Symmetry == Permutations(Limiters)
=============================================================================
