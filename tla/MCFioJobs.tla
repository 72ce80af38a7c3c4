----------------------------- MODULE MCFioJobs -----------------------------
(* Model-checking instances of FioJobs: see the FioJobs*.cfg files. *)
EXTENDS FioJobs
=============================================================================
