----------------------------- MODULE MCCpuUsage -----------------------------
(***************************************************************************)
(* Instances of CpuUsage for TLC.                                          *)
(***************************************************************************)
EXTENDS CpuUsage

SmallLags == {0, 1}
NoSteps   == {0}
=============================================================================
