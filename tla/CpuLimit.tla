------------------------------ MODULE CpuLimit ------------------------------
(***************************************************************************)
(* The control flow of cpulimit.c: one or more limiters, each a process    *)
(* running main(), acting on a shared process table.  One action is the    *)
(* code between two system calls, so that processes can die, be reaped, or *)
(* be replaced by another process with the same pid, and SIGINT or SIGTERM *)
(* can arrive, between any two of them.                                    *)
(*                                                                         *)
(* How long a slice lasts is the subject of module CpuUsage; here          *)
(* nanosleep and sleep are steps that end at some time.                    *)
(***************************************************************************)
EXTENDS ProcTable

CONSTANTS
    Limiters,     \* the cpulimit processes
    Modes,        \* how the target is named: "pid" (-p), "exe" (-e and -P)
    Lazies,       \* the values of the -z flag
    Limits,       \* the -l classes: "zero" (0), "mid" (1-99), "full" (100)
    MaxFds,       \* how many files a limiter may have open (RLIMIT_NOFILE)
    PidReuse,     \* may a pid be given to a new process after it was reaped
    OpenMayFail   \* may opendir and fopen fail for a reason outside cpulimit

ASSUME LimitAssumption ==
    /\ Modes \subseteq {"pid", "exe"}
    /\ Lazies \subseteq BOOLEAN
    /\ Limits \subseteq {"zero", "mid", "full"}
    /\ MaxFds \in Nat \ {0}
    /\ PidReuse \in BOOLEAN
    /\ OpenMayFail \in BOOLEAN

VARIABLES
    args,      \* the parsed command line of each limiter
    pc,        \* the next system call of each limiter
    pid,       \* the global variable pid
    cand,      \* getpidof's own variable pid, which shadows the global one
    cursor,    \* the position of the /proc directory stream
    fds,       \* descriptors the limiter holds open
    prio,      \* its nice value: 0, 19 ("low") or -20 ("high")
    fresh,     \* the pids no process has had yet
    found,     \* history: how many searches of the limiter have succeeded
    lost       \* history: the pids stopped by an accident and not resumed since

limVars == <<args, pc, pid, cand, cursor, fds, prio, found>>
history == <<found, lost>>
vars    == <<table, args, pc, pid, cand, cursor, fds, prio, fresh, found, lost>>

\* What main accepts: exactly one way to name the target, a limit, flags.
Args == [mode : Modes, lazy : Lazies, limit : Limits, target : Pids]
NoArgs == [mode |-> "none", lazy |-> FALSE, limit |-> "none", target |-> 0]

Search  == {"open", "scan", "probeStop", "probeCont", "nap"}
Loop    == {"sample", "cont", "work", "stop", "rest"}
Gone    == {"exit0", "exit2", "killed"}
PcState == {"unborn"} \cup Search \cup Loop \cup Gone

IsLive(l) == pc[l] \in Search \cup Loop

Goto(l, label) == pc' = [pc EXCEPT ![l] = label]

\* The process l probes: waitforpid signals its parameter, which is the global
\* pid, getpidof its own variable.
Probed(l) == IF args[l].mode = "pid" THEN pid[l] ELSE cand[l]

CanOpen(l) == fds[l] < MaxFds

\* The process in the hands of l, which it may have stopped and is to resume: the
\* one it probes, and the one it controls with a limit below 100.  0 is nobody:
\* without a descriptor left l gets no further than the next sample.
Ward(l) ==
    IF pc[l] = "probeCont" THEN Probed(l)
    ELSE IF pc[l] \in Loop /\ args[l].limit # "full" /\ CanOpen(l) /\ pid[l] \in Pids
      THEN pid[l] ELSE 0

\* The history of a step that may resume processes, after which those of S that
\* are still stopped have nobody to resume them.
Losing(S) == lost' = {p \in lost \cup S : table'[p].st = "stopped"}

(***************************************************************************)
(* Start: the command line is parsed and accepted, the handlers are        *)
(* installed.  The search for the target begins at low priority.           *)
(***************************************************************************)
Start(l, a) ==
    /\ pc[l] = "unborn"
    /\ args' = [args EXCEPT ![l] = a]
    /\ pid'  = [pid EXCEPT ![l] = IF a.mode = "pid" THEN a.target ELSE 0]
    /\ prio' = [prio EXCEPT ![l] = "low"]
    /\ Goto(l, "open")
    /\ UNCHANGED <<table, cand, cursor, fds, fresh, history>>

(***************************************************************************)
(* getpidof and waitforpid.                                                *)
(***************************************************************************)
\* Mutant: the search goes on where the last one ended.
OpenProcNoRewind(l) ==
    /\ pc[l] = "open"
    /\ CanOpen(l)
    /\ fds' = [fds EXCEPT ![l] = @ + 1]
    /\ Goto(l, "scan")
    /\ UNCHANGED <<table, args, pid, cand, cursor, prio, fresh, history>>

OpenProc(l) ==
    /\ pc[l] = "open"
    /\ CanOpen(l)
    /\ fds'    = [fds EXCEPT ![l] = @ + 1]
    /\ cursor' = [cursor EXCEPT ![l] = 0]
    /\ Goto(l, "scan")
    /\ UNCHANGED <<table, args, pid, cand, prio, fresh, history>>

\* opendir fails and the function returns -1.  getpidof's result is assigned to
\* pid, waitforpid's is ignored; either way main goes on to the control loop.
OpenProcFails(l) ==
    /\ pc[l] = "open"
    /\ ~CanOpen(l) \/ OpenMayFail
    /\ pid' = [pid EXCEPT ![l] = IF args[l].mode = "exe" THEN -1 ELSE @]
    /\ Goto(l, "sample")
    /\ UNCHANGED <<table, args, cand, cursor, fds, prio, fresh, history>>

\* The entries readdir has yet to return, and the one it returns next.
Entries(l) == {p \in Pids : p > cursor[l] /\ Exists(p)}
IsNext(l, p) == p \in Entries(l) /\ \A q \in Entries(l) : p <= q

\* waitforpid compares the entry with pid; getpidof compares the link
\* /proc/<p>/exe, which a zombie no longer has and another user may not read.
Matches(l, p) ==
    IF args[l].mode = "pid" THEN p = pid[l]
                            ELSE Alive(p) /\ table[p].exe = "matching"

Scan(l) ==
    /\ pc[l] = "scan"
    /\ \E p \in Pids :
         /\ IsNext(l, p)
         /\ cursor' = [cursor EXCEPT ![l] = p]
         /\ \/ /\ Matches(l, p)
               /\ cand' = [cand EXCEPT ![l] = IF args[l].mode = "exe" THEN p ELSE @]
               /\ Goto(l, "probeStop")
            \/ /\ ~Matches(l, p)
               /\ UNCHANGED <<cand, pc>>
    /\ UNCHANGED <<table, args, pid, fds, prio, fresh, history>>

\* Mutant: the error branch closes the stream, which the end of the scan does too.
ProbeStopCloses(l) ==
    /\ pc[l] = "probeStop"
    /\ \/ /\ Signalable(Probed(l))
          /\ table' = Stopped(Probed(l))
          /\ Goto(l, "probeCont")
          /\ UNCHANGED fds
       \/ /\ ~Signalable(Probed(l))
          /\ fds' = [fds EXCEPT ![l] = @ - 1]
          /\ Goto(l, "scan")
          /\ UNCHANGED table
    /\ UNCHANGED <<args, pid, cand, cursor, prio, fresh, history>>

\* kill(pid,SIGSTOP)==0 && ... : on an error the scan goes on.
ProbeStop(l) ==
    /\ pc[l] = "probeStop"
    /\ \/ /\ Signalable(Probed(l))
          /\ table' = Stopped(Probed(l))
          /\ Goto(l, "probeCont")
       \/ /\ ~Signalable(Probed(l))
          /\ Goto(l, "scan")
          /\ UNCHANGED table
    /\ UNCHANGED <<args, pid, cand, cursor, fds, prio, fresh, history>>

\* ... && kill(pid,SIGCONT)==0 : goto done, past closedir.  The priority is
\* raised, the pid found is returned and assigned, the estimator is reset.
ProbeCont(l) ==
    /\ pc[l] = "probeCont"
    /\ \/ /\ Signalable(Probed(l))
          /\ table' = Continued(Probed(l))
          /\ pid'   = [pid EXCEPT ![l] = Probed(l)]
          /\ prio'  = [prio EXCEPT ![l] = "high"]
          /\ found' = [found EXCEPT ![l] = @ + 1]
          /\ Goto(l, "sample")
          /\ Losing({})
       \/ /\ ~Signalable(Probed(l))
          /\ Goto(l, "scan")
          /\ UNCHANGED <<table, pid, prio, history>>
    /\ UNCHANGED <<args, cand, cursor, fds, fresh>>

\* Mutant: the stream of a search that found nothing stays open.
ScanEndLeaks(l) ==
    /\ pc[l] = "scan"
    /\ Entries(l) = {}
    /\ Goto(l, IF args[l].lazy THEN "exit2" ELSE "nap")
    /\ UNCHANGED <<table, args, pid, cand, cursor, fds, prio, fresh, history>>

\* readdir returns NULL: closedir, then exit(2) if lazy and sleep(2) if not.
ScanEnd(l) ==
    /\ pc[l] = "scan"
    /\ Entries(l) = {}
    /\ fds' = [fds EXCEPT ![l] = @ - 1]
    /\ Goto(l, IF args[l].lazy THEN "exit2" ELSE "nap")
    /\ UNCHANGED <<table, args, pid, cand, cursor, prio, fresh, history>>

Nap(l) ==
    /\ pc[l] = "nap"
    /\ Goto(l, "open")
    /\ UNCHANGED <<table, args, pid, cand, cursor, fds, prio, fresh, history>>

(***************************************************************************)
(* The control loop of main.                                               *)
(***************************************************************************)

\* "Process %d dead!": exit(2) if lazy, else goto wait_for_process, where
\* getpidof or waitforpid first lowers the priority again.
Dead(l) ==
    /\ Goto(l, IF args[l].lazy THEN "exit2" ELSE "open")
    /\ prio' = [prio EXCEPT ![l] = IF args[l].lazy THEN @ ELSE "low"]

\* compute_cpu_usage: getjiffies opens /proc/<pid>/stat and closes it again.
CanRead(l) == Exists(pid[l]) /\ CanOpen(l)

\* Mutant: the test of the limit before the resume is the wrong way round.
SampleSkipsCont(l) ==
    /\ pc[l] = "sample"
    /\ \/ /\ CanRead(l)
          /\ Goto(l, IF args[l].limit = "mid" THEN "work" ELSE "cont")
          /\ UNCHANGED prio
       \/ /\ ~CanRead(l) \/ OpenMayFail
          /\ Dead(l)
    /\ UNCHANGED <<table, args, pid, cand, cursor, fds, fresh, history>>

\* A process whose file could not be opened is taken for dead, and let go of: if
\* it exists and is stopped, that is the first accident.
Sample(l) ==
    /\ pc[l] = "sample"
    /\ \/ /\ CanRead(l)
          /\ Goto(l, IF args[l].limit = "mid" THEN "cont" ELSE "work")
          /\ UNCHANGED <<prio, lost>>
       \/ /\ ~CanRead(l) \/ OpenMayFail
          /\ Dead(l)
          /\ lost' = lost \cup {p \in Pids : OpenMayFail /\ IsStopped(p) /\ Ward(l) = p}
    /\ UNCHANGED <<table, args, pid, cand, cursor, fds, fresh, found>>

\* Mutant: the resume goes to every process, as with the -1 of a failed getpidof.
ContAll(l) ==
    /\ pc[l] = "cont"
    /\ table' = ContinuedBy(-1)
    /\ Goto(l, "work")
    /\ Losing({})
    /\ UNCHANGED <<args, pid, cand, cursor, fds, prio, fresh, found>>

\* if (limit<1 && limit>0): resume the process.
Cont(l) ==
    /\ pc[l] = "cont"
    /\ \/ /\ Signalable(pid[l])
          /\ table' = Continued(pid[l])
          /\ Goto(l, "work")
          /\ Losing({})
          /\ UNCHANGED prio
       \/ /\ ~Signalable(pid[l])
          /\ Dead(l)
          /\ UNCHANGED <<table, lost>>
    /\ UNCHANGED <<args, pid, cand, cursor, fds, fresh, found>>

\* nanosleep(&twork): the process works.
Work(l) ==
    /\ pc[l] = "work"
    /\ Goto(l, IF args[l].limit = "full" THEN "sample" ELSE "stop")
    /\ UNCHANGED <<table, args, pid, cand, cursor, fds, prio, fresh, history>>

\* if (limit<1): stop the process, it has worked enough.
Stop(l) ==
    /\ pc[l] = "stop"
    /\ \/ /\ Signalable(pid[l])
          /\ table' = Stopped(pid[l])
          /\ Goto(l, "rest")
          /\ UNCHANGED prio
       \/ /\ ~Signalable(pid[l])
          /\ Dead(l)
          /\ UNCHANGED table
    /\ UNCHANGED <<args, pid, cand, cursor, fds, fresh, history>>

\* nanosleep(&tsleep): the process sleeps.
Rest(l) ==
    /\ pc[l] = "rest"
    /\ Goto(l, "sample")
    /\ UNCHANGED <<table, args, pid, cand, cursor, fds, prio, fresh, history>>

\* Mutant: the handler ends the program and resumes nobody.
QuitSilently(l) ==
    /\ IsLive(l)
    /\ Goto(l, "exit0")
    /\ UNCHANGED <<table, args, pid, cand, cursor, fds, prio, fresh, history>>

\* The handler of SIGINT and SIGTERM: it resumes the global pid.  A signal that
\* comes between the SIGSTOP and the SIGCONT of getpidof is the second accident.
Quit(l) ==
    /\ IsLive(l)
    /\ table' = ContinuedBy(pid[l])
    /\ Goto(l, "exit0")
    /\ Losing({p \in Pids : pc[l] = "probeCont" /\ args[l].mode = "exe" /\ cand[l] = p})
    /\ UNCHANGED <<args, pid, cand, cursor, fds, prio, fresh, found>>

(***************************************************************************)
(* The rest of the machine.                                                *)
(***************************************************************************)
Spawn(p, e) ==
    /\ p \in fresh \/ PidReuse
    /\ SpawnAt(p, e)
    /\ fresh' = IF PidReuse THEN fresh ELSE fresh \ {p}
    /\ UNCHANGED <<limVars, lost>>

Exit(p) == ExitOf(p) /\ Losing({}) /\ UNCHANGED <<limVars, fresh>>
Reap(p) == ReapOf(p) /\ UNCHANGED <<limVars, fresh, lost>>

-----------------------------------------------------------------------------
Init ==
    /\ table  = [p \in Pids |-> [st |-> "absent", exe |-> "other"]]
    /\ args   = [l \in Limiters |-> NoArgs]
    /\ pc     = [l \in Limiters |-> "unborn"]
    /\ pid    = [l \in Limiters |-> 0]
    /\ cand   = [l \in Limiters |-> 0]
    /\ cursor = [l \in Limiters |-> 0]
    /\ fds    = [l \in Limiters |-> 0]
    /\ prio   = [l \in Limiters |-> "normal"]
    /\ fresh  = Pids
    /\ found  = [l \in Limiters |-> 0]
    /\ lost   = {}

\* What a limiter does on its own, without a command or a signal.
Step(l) ==
    \/ OpenProc(l) \/ OpenProcFails(l) \/ Scan(l) \/ ScanEnd(l)
    \/ ProbeStop(l) \/ ProbeCont(l) \/ Nap(l)
    \/ Sample(l) \/ Cont(l) \/ Work(l) \/ Stop(l) \/ Rest(l)

Environment ==
    \E p \in Pids : (\E e \in Exes : Spawn(p, e)) \/ Exit(p) \/ Reap(p)

Next ==
    \/ \E l \in Limiters :
         (\E a \in Args : Start(l, a)) \/ Step(l) \/ Quit(l)
    \/ Environment

Spec == Init /\ [][Next]_vars

\* A limiter is scheduled and its sleeps end; zombies are reaped by their parent
\* or by init.  Nothing obliges a process to start or exit, or a user to signal.
Fairness ==
    /\ \A l \in Limiters : WF_vars(Step(l))
    /\ \A p \in Pids : WF_vars(Reap(p))

FairSpec == Spec /\ Fairness

-----------------------------------------------------------------------------
(***************************************************************************)
(* Properties.                                                             *)
(***************************************************************************)

\* The variables of cpulimit.c keep their types: pid is a pid of the table, 0
\* before the first search succeeds, or the -1 of a failed getpidof.
TypeOK ==
    /\ TableOK
    /\ args \in [Limiters -> Args \cup {NoArgs}]
    /\ pc \in [Limiters -> PcState]
    /\ pid \in [Limiters -> Pids \cup {-1, 0}]
    /\ cand \in [Limiters -> Pids \cup {0}]
    /\ cursor \in [Limiters -> Pids \cup {0}]
    /\ fds \in [Limiters -> 0..MaxFds]
    /\ prio \in [Limiters -> {"normal", "low", "high"}]
    /\ fresh \subseteq Pids
    /\ found \in [Limiters -> 0..MaxFds]
    /\ lost \subseteq Pids

\* A process is stopped only while it is the ward of a limiter that runs, and that
\* resumes it on its way or when it is told to quit: no search, death or exit
\* leaves one behind (cpulimit.c:96, 186, 232, 511-530), and no want of
\* descriptors.  The code has two accidents, each at one point: fopen of the stat
\* file fails for a reason of its own while the process is stopped, and a signal
\* comes between getpidof's SIGSTOP and SIGCONT.
StoppedIsHeld ==
    \A p \in Pids : IsStopped(p) =>
        p \in lost \/ \E l \in Limiters : Ward(l) = p

\* The processes of the machine are in the custody of the limiters.
Custodians == INSTANCE Custody WITH
    Keepers <- Limiters,
    state   <- [p \in Pids |-> table[p].st],
    ward    <- [l \in Limiters |-> Ward(l)]

\* cpulimit implements Custody: a limiter has one process at a time in its hands,
\* stops only that one, and lets go of it only when it runs, has died, or is lost
\* in one of the two accidents (cpulimit.c:88-244, 471-533).
InCustody == Custodians!Spec

\* The handler "let[s] the process continue if it's stopped" (cpulimit.c:231):
\* when every limiter has ended by a signal, no process is left stopped.
QuitResumes ==
    (\A l \in Limiters : pc[l] \in {"unborn", "exit0"}) =>
        \A p \in Pids : ~IsStopped(p)

\* "Process %d dead!" (cpulimit.c:297, 476-530) is true of a limiter that has found
\* fewer targets than it has descriptors: it gives up a process it could signal
\* only when every descriptor is a directory stream that "goto done" left open.
DeathIsReal ==
    [][\A l \in Limiters :
         pc[l] \in Loop /\ pc'[l] \in {"open", "exit2"} /\ Signalable(pid[l])
           => found[l] >= MaxFds]_vars

\* With a limit of 1-99 whoever is stopped runs again, or dies: no stop lasts,
\* whatever dies or is signalled in between (cpulimit.c:186, 511), but for those of
\* the two accidents whom no other limiter has in its hands.
StopsEnd ==
    \A p \in Pids :
        IsStopped(p) ~> \/ ~IsStopped(p)
                        \/ p \in lost /\ \A l \in Limiters : Ward(l) # p

\* A limiter that is not lazy and not signalled finds a target that stays: it
\* "wait[s] until our process appears" (cpulimit.c:478) and then controls it.
TargetFor(l, p) ==
    /\ Alive(p) /\ table[p].exe = "matching"
    /\ args[l].mode = "pid" => args[l].target = p

FindsTarget ==
    \A l \in Limiters, p \in Pids :
        []( [](TargetFor(l, p) /\ IsLive(l)) => <>(pc[l] \in Loop) )
=============================================================================
