----------------------------- MODULE ProcTable -----------------------------
(***************************************************************************)
(* The Linux process table as cpulimit sees it: through kill(2), through   *)
(* the directory stream of /proc, and through /proc/<pid>/stat and         *)
(* /proc/<pid>/exe.  The kernel is not part of the repository; what is     *)
(* here is exactly what cpulimit.c relies on.                              *)
(*                                                                         *)
(* A slot of the table is a process (or none).  `exe' says what the        *)
(* process is to a limiter.  "matching" and "other" may be signalled, and  *)
(* the link /proc/<pid>/exe of a "matching" one passes the comparison of   *)
(* getpidof: it is the path asked for, or it ends in the name asked for,   *)
(* as /usr/bin/foo and /usr/bin/barfoo both do for -e foo.  "foreign"      *)
(* belongs to another user: its link cannot be read, and kill(2) on it     *)
(* fails with EPERM.                                                       *)
(***************************************************************************)
EXTENDS Integers

CONSTANT Pids      \* the process identifiers of the instance

ASSUME PidsAssumption == Pids \subseteq Nat \ {0}

VARIABLE table     \* the process, if any, that each pid denotes

States == {"absent", "running", "stopped", "zombie"}
Exes   == {"matching", "other", "foreign"}
Slot   == [st : States, exe : Exes]

TableOK == table \in [Pids -> Slot]

Exists(p)     == p \in Pids /\ table[p].st # "absent"
Alive(p)      == p \in Pids /\ table[p].st \in {"running", "stopped"}
IsStopped(p)  == p \in Pids /\ table[p].st = "stopped"

\* kill(p, sig) returns 0: the pid exists (a zombie does) and is ours to signal.
Signalable(p) == Exists(p) /\ table[p].exe # "foreign"

\* The table after SIGSTOP, and after SIGCONT, to one process that accepts it.
Stopped(p)   == [table EXCEPT ![p].st = IF @ = "running" THEN "stopped" ELSE @]
Continued(p) == [table EXCEPT ![p].st = IF @ = "stopped" THEN "running" ELSE @]

\* The table after kill(q, SIGCONT) for any q a program may pass: -1 is every
\* process the caller may signal; 0 is the caller's own process group, which
\* holds none of the processes of the table; a pid that fails changes nothing.
ContinuedBy(q) ==
    IF q = -1
      THEN [p \in Pids |-> IF Signalable(p) /\ IsStopped(p)
                             THEN [table[p] EXCEPT !.st = "running"]
                             ELSE table[p]]
      ELSE IF Signalable(q) THEN Continued(q) ELSE table

\* fork and exec of a process that gets the free pid p.
SpawnAt(p, e) ==
    /\ table[p].st = "absent"
    /\ table' = [table EXCEPT ![p] = [st |-> "running", exe |-> e]]

\* The process exits, or is killed while it is stopped: a zombie until reaped.
ExitOf(p) ==
    /\ Alive(p)
    /\ table' = [table EXCEPT ![p].st = "zombie"]

\* The parent waits for it and the pid becomes free.
ReapOf(p) ==
    /\ table[p].st = "zombie"
    /\ table' = [table EXCEPT ![p].st = "absent"]
=============================================================================
