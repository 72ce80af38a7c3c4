---------------------------- MODULE MCKvmStat ----------------------------
(* Model-checking instances of KvmStat: see the KvmStat*.cfg files. *)
EXTENDS KvmStat

\* Three of the 34 names, with the one that extends another.
MCChain   == <<"exits", "insn_emulation", "insn_emulation_fail">>
MCExtends == {<<"insn_emulation", "insn_emulation_fail">>}
==========================================================================
