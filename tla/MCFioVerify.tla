---------------------------- MODULE MCFioVerify ----------------------------
(* Model-checking instances of FioVerify: see the FioVerify*.cfg files. *)
EXTENDS FioVerify
=============================================================================
