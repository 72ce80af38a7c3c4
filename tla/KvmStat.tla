------------------------------ MODULE KvmStat ------------------------------
(***************************************************************************)
(* The kvmstat PMDA (kvmstat.c, kvm_debug.c) and the stand-alone kvm_trace *)
(* (kvm_trace.c): how they open one perf group of kvm trace events per cpu *)
(* and read it, and how the PMDA reads the counters of /sys/kernel/debug/  *)
(* kvm.  Both programs label the k-th value of a group with the k-th name  *)
(* of a table that is filled apart from the groups.                        *)
(*                                                                         *)
(* The kernel counts on while a fetch goes over the cpus and the files.    *)
(***************************************************************************)
EXTENDS Integers, Sequences, SequencesExt, Functions

CONSTANTS
    Programs,   \* what is run: "kvmstat", "kvm_trace"
    Cpus,       \* cpus of group_fd: 1..Cpus
    Events,     \* directories under tracing/events/kvm
    Chain,      \* the names refresh_kvm tests for, in the order it does
    Extends,    \* pairs <<s, f>>: the file name f is s and more
    MaxCount    \* bound: what a counter of the kernel reaches

ASSUME KvmAssumption ==
    /\ Programs \subseteq {"kvmstat", "kvm_trace"}
    /\ Cpus \in Nat \ {0} /\ MaxCount \in Nat
    /\ IsFiniteSet(Events)
    /\ Chain \in Seq(STRING)
    /\ Extends \subseteq ToSet(Chain) \X ToSet(Chain)

CpuSet == 1..Cpus
Files  == ToSet(Chain)

VARIABLES
    conf,    \* prog, trace_nametab, the events and files as their directories list
             \* them, is the first entry an event, does opendir succeed
    pc,      \* where perf_event or kvm_fetch is
    cpu, i,  \* loop variables: the cpu, and the name or the file
    flag,    \* is the leader's turn over, for the cpu at hand
    leader,  \* per cpu: is group_fd[cpu] an open event
    group,   \* per cpu: the members of the leader's group, as the kernel has them
    count,   \* per cpu and event: what the kernel has counted since the open
    tmp,     \* tmp_values[1..]
    value,   \* per cpu: the values shown under the labels
    file,    \* per file of debugfs: its value
    debug,   \* kvmstat.debug: per name of Chain
    seen     \* history: count and file as they were when last read

vars == <<conf, pc, cpu, i, flag, leader, group, count, tmp, value, file,
          debug, seen>>
perf == <<flag, leader, group>>

-----------------------------------------------------------------------------
(***************************************************************************)
(* perf_event: the events readdir returns.  The position it seeks back to  *)
(* is the one after the first entry, taken when that has been read: if the *)
(* first entry is an event, and not ".", "enable" or the like, it is seen  *)
(* once only.                                                              *)
(***************************************************************************)
FirstScan(c, k) == c = 1 /\ (k = 1 \/ conf.prog = "kvm_trace")
Scan(c, k) ==
    IF conf.eventfirst /\ ~FirstScan(c, k) THEN Tail(conf.dir) ELSE conf.dir

\* What is opened on a cpu: the names of trace_kvm.conf, or all the directory
\* has.  Those of the first cpu are the labels.
Wanted(c) ==
    IF conf.prog = "kvmstat" THEN conf.nametab ELSE Scan(c, 1)
Labels == Wanted(1)
ntrace == Len(Labels)
Zeros  == [k \in 1..ntrace |-> 0]

Opening == pc = "open" /\ i <= Len(Wanted(cpu))

\* readdir(NULL), or fgets on a file of an event that is gone: SIGSEGV.
Crash ==
    /\ \/ pc = "open" /\ ~conf.opendir /\ conf.prog = "kvm_trace"
       \/ Opening /\ ~conf.opendir
       \/ Opening /\ Wanted(cpu)[i] \in ToSet(Scan(cpu, i))
    /\ pc' = "crashed"
    /\ UNCHANGED <<conf, cpu, i, perf, count, tmp, value, file, debug, seen>>

\* The directory has no such entry: the name is left out of the group.
NotFound ==
    /\ Opening /\ conf.opendir
    /\ Wanted(cpu)[i] \notin ToSet(Scan(cpu, i))
    /\ i' = i + 1
    /\ UNCHANGED <<conf, pc, cpu, perf, count, tmp, value, file, debug, seen>>

\* perf_event_open, RESET and ENABLE.  The first event tried becomes the leader,
\* also when its open failed: then group_fd stays -1, and each later event is
\* opened as a group of its own that nobody reads.
OpenEvent(ok) ==
    /\ Opening /\ conf.opendir
    /\ Wanted(cpu)[i] \in ToSet(Scan(cpu, i))
    /\ flag' = TRUE
    /\ leader' = [leader EXCEPT ![cpu] = IF flag THEN @ ELSE ok]
    /\ group' = [group EXCEPT ![cpu] =
                   IF ok /\ leader'[cpu] THEN Append(@, Wanted(cpu)[i]) ELSE @]
    /\ i' = i + 1
    /\ UNCHANGED <<conf, pc, cpu, count, tmp, value, file, debug, seen>>

\* seekdir; the next cpu, or the end.
NextCpu ==
    /\ pc = "open" /\ i > Len(Wanted(cpu))
    /\ conf.opendir \/ conf.prog = "kvmstat"
    /\ i' = 1 /\ flag' = FALSE
    /\ IF cpu < Cpus THEN cpu' = cpu + 1 /\ pc' = pc
                     ELSE cpu' = 1 /\ pc' = "serve"
    /\ UNCHANGED <<conf, leader, group, count, tmp, value, file, debug, seen>>

-----------------------------------------------------------------------------
(***************************************************************************)
(* kvm_fetch, or a turn of kvm_trace's loop.                               *)
(***************************************************************************)
\* need_refresh: the debug files are read if one of their metrics is asked for.
Fetch(need_debug) ==
    /\ pc = "serve"
    /\ need_debug => conf.prog = "kvmstat"
    /\ pc' = IF need_debug THEN "debug" ELSE "trace"
    /\ UNCHANGED <<conf, cpu, i, perf, count, tmp, value, file, debug, seen>>

\* The branch of the if-else chain that strncmp takes for a file.
Matches(s, f) == s = f \/ <<s, f>> \in Extends
Slot(f) == Chain[CHOOSE k \in 1..Len(Chain) :
                   /\ Matches(Chain[k], f)
                   /\ \A h \in 1..(k - 1) : ~Matches(Chain[h], f)]

\* refresh_kvm: one file.
DebugFile ==
    /\ pc = "debug" /\ i <= Len(conf.debugdir)
    /\ LET f == conf.debugdir[i]
       IN  /\ debug' = [debug EXCEPT ![Slot(f)] = file[f]]
           /\ seen'  = [seen EXCEPT !.file[f] = file[f]]
    /\ i' = i + 1
    /\ UNCHANGED <<conf, pc, cpu, perf, count, tmp, value, file>>

\* The end of the directory, or a file that cannot be opened, or no directory.
DebugEnd ==
    /\ pc = "debug"
    /\ i' = 1 /\ pc' = "trace"
    /\ UNCHANGED <<conf, cpu, perf, count, tmp, value, file, debug, seen>>

\* Mutant: the values are taken from tmp_values[j] on, where nr is the first.
ReadFromNr ==
    [k \in 1..ntrace |-> IF ~leader[cpu] THEN tmp[k]
                          ELSE IF k = 1 THEN Len(group[cpu])
                          ELSE IF k - 1 <= Len(group[cpu])
                            THEN count[cpu][group[cpu][k - 1]] ELSE tmp[k]]

\* read(group_fd[cpu], ...): PERF_FORMAT_GROUP, after nr the members' counts.
Read ==
    [k \in 1..ntrace |-> IF leader[cpu] /\ k <= Len(group[cpu])
                           THEN count[cpu][group[cpu][k]] ELSE tmp[k]]

\* Mutant: tmp_values is not cleared for the next cpu.
ReadCpuNoClear ==
    /\ pc = "trace"
    /\ value' = [value EXCEPT ![cpu] = Read]
    /\ seen' = [seen EXCEPT !.count[cpu] = count[cpu]]
    /\ tmp' = Read
    /\ IF cpu < Cpus THEN cpu' = cpu + 1 /\ pc' = pc
                     ELSE cpu' = 1 /\ pc' = "serve"
    /\ UNCHANGED <<conf, i, perf, count, file, debug>>

\* refresh_kvm_trace: one cpu.  A failed read is reported and leaves the zeros
\* of tmp_values to be stored.
ReadCpu ==
    /\ pc = "trace"
    /\ value' = [value EXCEPT ![cpu] = Read]
    /\ seen' = [seen EXCEPT !.count[cpu] = count[cpu]]
    /\ tmp' = Zeros
    /\ IF cpu < Cpus THEN cpu' = cpu + 1 /\ pc' = pc
                     ELSE cpu' = 1 /\ pc' = "serve"
    /\ UNCHANGED <<conf, i, perf, count, file, debug>>

\* The kernel: a trace event fires, a counter of debugfs goes up.
Fires(c, e) ==
    /\ e \in ToSet(group[c]) /\ count[c][e] < MaxCount
    /\ count' = [count EXCEPT ![c][e] = @ + 1]
    /\ UNCHANGED <<conf, pc, cpu, i, perf, tmp, value, file, debug, seen>>

GoesUp(f) ==
    /\ conf.prog = "kvmstat" /\ file[f] < MaxCount
    /\ file' = [file EXCEPT ![f] = @ + 1]
    /\ UNCHANGED <<conf, pc, cpu, i, perf, count, tmp, value, debug, seen>>

-----------------------------------------------------------------------------
Init ==
    /\ conf \in [prog : Programs,
                 nametab : SetToAllKPermutations(Events),
                 dir : SetToAllKPermutations(Events),
                 eventfirst : BOOLEAN,
                 debugdir : SetToSeqs(Files),
                 opendir : BOOLEAN]
    /\ conf.eventfirst => conf.dir # <<>>
    /\ conf.prog = "kvm_trace" =>
         conf.nametab = <<>> /\ conf.debugdir = Chain
    /\ pc = "open" /\ cpu = 1 /\ i = 1
    /\ flag = FALSE
    /\ leader = [c \in CpuSet |-> FALSE]
    /\ group = [c \in CpuSet |-> <<>>]
    /\ count = [c \in CpuSet |-> [e \in Events |-> 0]]
    /\ tmp = Zeros
    /\ value = [c \in CpuSet |-> Zeros]
    /\ file = [f \in Files |-> 0]
    /\ debug = [f \in Files |-> 0]
    /\ seen = [count |-> count, file |-> file]

Next ==
    \/ Crash \/ NotFound \/ NextCpu \/ \E ok \in BOOLEAN : OpenEvent(ok)
    \/ \E need_debug \in BOOLEAN : Fetch(need_debug)
    \/ DebugFile \/ DebugEnd \/ ReadCpu
    \/ \E c \in CpuSet, e \in Events : Fires(c, e)
    \/ \E f \in Files : GoesUp(f)

Spec == Init /\ [][Next]_vars

-----------------------------------------------------------------------------
(***************************************************************************)
(* Properties.                                                             *)
(***************************************************************************)

\* The variables keep their types; a group is read only by its leader.
TypeOK ==
    /\ pc \in {"open", "serve", "debug", "trace", "crashed"}
    /\ cpu \in CpuSet /\ i \in 1..(Len(Chain) + ntrace + 1)
    /\ flag \in BOOLEAN /\ leader \in [CpuSet -> BOOLEAN]
    /\ \A c \in CpuSet :
         /\ group[c] \in Seq(Events) /\ Len(group[c]) <= ntrace
         /\ ~leader[c] => group[c] = <<>>
         /\ value[c] \in [1..ntrace -> 0..MaxCount]
    /\ debug \in [Files -> 0..MaxCount]

\* A label shows the counter of the event it names, as it was when it was last
\* read, if that event and all those before it could be opened on the cpu: an
\* event that is missing moves only what follows it (kvmstat.c:141-164).
OwnCounter ==
    \A c \in CpuSet : \A k \in 1..ntrace :
        (\A h \in 1..k : Labels[h] \in ToSet(group[c])) =>
            value[c][k] = seen.count[c][Labels[k]]

\* Whatever could not be opened or read, a value that is not 0 is the count of an
\* event on that cpu, and no event is shown twice: nothing of another cpu is left
\* in tmp_values (kvmstat.c:62-94).
NothingInvented ==
    \A c \in CpuSet :
        \E origin \in [{k \in 1..ntrace : value[c][k] # 0} -> Events] :
            /\ \A k \in DOMAIN origin : value[c][k] = seen.count[c][origin[k]]
            /\ IsInjective(origin)

\* "@ kvmstat.insn_emulation_fail Number of failed insn_emulation attempts."
\* (help:39): every debug metric shows its file as last read (kvm_debug.c:83-91).
EveryDebugMetricShown == \A f \in Files : debug[f] = seen.file[f]
=============================================================================
