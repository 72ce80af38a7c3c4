----------------------------- MODULE MCTunning ------------------------------
(***************************************************************************)
(* Instances of Tunning for TLC.                                           *)
(***************************************************************************)
EXTENDS Tunning
=============================================================================
