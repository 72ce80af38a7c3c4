------------------------------ MODULE FioJobs ------------------------------
(***************************************************************************)
(* How the bundled fio 2.1.7 starts, runs and reaps its jobs: run_threads  *)
(* and reap_threads, which the core process runs, and the life of a job in *)
(* thread_main (backend.c), with fio_terminate_threads (libfio.c) and the  *)
(* semaphores of mutex.c.  A job is a thread or a child process; the       *)
(* thread_data of all jobs is in memory the core and the jobs share.       *)
(*                                                                         *)
(* What a job does between its start and its exit is one step, apart from  *)
(* the logs it writes under writeout_mutex.  An operation on a semaphore   *)
(* is one step too: nobody is killed in the middle of one, with the lock   *)
(* of the semaphore itself.                                                *)
(***************************************************************************)
EXTENDS Integers, FiniteSets

CONSTANTS
    NJobs,      \* thread_number
    Kinds,      \* what the jobs are: "thread", "process"
    Killable,   \* where a child process may be killed by SIGKILL or crash
    MaxBad,     \* bound: jobs whose setup_files fails
    MaxDelayed, \* bound: jobs with a start_delay
    Modulus     \* stands for 2^32, where an unsigned int wraps

ASSUME JobsAssumption ==
    /\ NJobs \in Nat \ {0}
    /\ Kinds \subseteq {"thread", "process"}
    /\ Killable \subseteq {"boot", "up", "blocked", "work", "logs"}
    /\ MaxBad \in 0..NJobs /\ MaxDelayed \in 0..NJobs
    /\ Modulus \in Nat /\ Modulus > NJobs

Jobs == 1..NJobs

VARIABLES
    conf,    \* the job file: kind, stonewalled and delayed jobs, exitall
    td,      \* per job: runstate, terminate, start_delay (still to pass), is
             \* pid set, the value of td->mutex, and where its thread is
    core,    \* the core process: pc, the variables of run_threads, fio_abort
    sem,     \* startup_mutex: value, and is its lock kept by a timed-out down;
             \* writeout_mutex: value
    cut      \* history: has a signal or exitall set a terminate flag

vars == <<conf, td, core, sem, cut>>

Pids    == {j \in Jobs : td[j].pid}
Ended   == {"gone", "dead"}
Live(j) == td[j].pc \notin Ended \cup {"none"}

\* add_job: a stonewall starts a new group; the global groupid is the last one.
Group(j) == Cardinality({k \in 2..j : k \in conf.stonewall})
groupid  == Group(NJobs)

(***************************************************************************)
(* fio_terminate_threads.  It compares the global groupid, not its         *)
(* parameter, with that of each job.  A job that has a pid and does not    *)
(* run yet is sent SIGTERM, and the handler terminates every job.          *)
(***************************************************************************)
TerminateAll(t) ==
    [j \in Jobs |-> [t[j] EXCEPT !.terminate = TRUE, !.start_delay = FALSE]]
TerminateGroup ==
    LET group == {j \in Jobs : Group(j) = groupid}
    IN  IF \E j \in group \cap Pids :
              Live(j) /\ td[j].runstate \in {"CREATED", "INITIALIZED"}
          THEN TerminateAll(td)
          ELSE [j \in Jobs |-> IF j \in group
                                 THEN [td[j] EXCEPT !.terminate = TRUE,
                                                    !.start_delay = FALSE]
                                 ELSE td[j]]

-----------------------------------------------------------------------------
(***************************************************************************)
(* The core: run_threads.                                                  *)
(***************************************************************************)
CoreAt(label) == core.pc = label
Less(n) == (n - 1) % Modulus

\* create_serialize: the files of each job are set up first; a job whose setup
\* fails is not started.
Setup ==
    /\ CoreAt("setup")
    /\ \E failed \in SUBSET Jobs :
         /\ Cardinality(failed) <= MaxBad
         /\ td' = [j \in Jobs |-> IF j \in failed
                                    THEN [td[j] EXCEPT !.runstate = "REAPED"]
                                    ELSE td[j]]
         /\ core' = [core EXCEPT !.todo = NJobs - Cardinality(failed),
                                 !.pc = IF failed = Jobs THEN "drain" ELSE "pass"]
    /\ UNCHANGED <<conf, sem, cut>>

\* One job in the loop "create threads (TD_NOT_CREATED -> TD_CREATED)".
Waits(j) == td[j].runstate = "NOT_CREATED" /\ ~td[j].terminate

PassOver ==
    /\ CoreAt("pass") /\ core.i <= NJobs
    /\ LET t == td[core.i]
       IN  t.runstate # "NOT_CREATED" \/ (~t.terminate /\ t.start_delay)
    /\ core' = [core EXCEPT !.i = @ + 1]
    /\ UNCHANGED <<conf, td, sem, cut>>

\* "never got a chance to start, killed by other thread for some reason": its
\* runstate stays TD_NOT_CREATED, and the next pass meets it again.
DropTerminated ==
    /\ CoreAt("pass") /\ core.i <= NJobs
    /\ td[core.i].runstate = "NOT_CREATED" /\ td[core.i].terminate
    /\ core' = [core EXCEPT !.i = @ + 1, !.todo = Less(@)]
    /\ UNCHANGED <<conf, td, sem, cut>>

\* Mutant: only jobs that are being started hold a stonewalled job back.
BehindStarted(j) == j \in conf.stonewall /\ core.nr_started > 0

\* The job must wait for those before it.
BehindWall(j) ==
    j \in conf.stonewall /\ (core.nr_started > 0 \/ core.nr_running > 0)

EndPass ==
    /\ CoreAt("pass")
    /\ \/ core.i > NJobs
       \/ /\ core.i <= NJobs /\ Waits(core.i) /\ ~td[core.i].start_delay
          /\ BehindWall(core.i)
    /\ core' = [core EXCEPT !.pc = "initwait"]
    /\ UNCHANGED <<conf, td, sem, cut>>

\* pthread_create or fork, or their failure.  Only a failed pthread_create is
\* noticed, and ends the pass; the job stays in the map.
Create(ok) ==
    /\ CoreAt("pass") /\ core.i <= NJobs
    /\ Waits(core.i) /\ ~td[core.i].start_delay /\ ~BehindWall(core.i)
    /\ td' = [td EXCEPT ![core.i].runstate = "CREATED",
                        ![core.i].pc = IF ok THEN "boot" ELSE "none"]
    /\ LET seen == ~ok /\ conf.kind = "thread"
       IN  core' = [core EXCEPT !.map = @ \cup {core.i},
                                !.nr_started = IF seen THEN @ ELSE @ + 1,
                                !.pc = IF seen THEN "initwait" ELSE "startup"]
    /\ UNCHANGED <<conf, sem, cut>>

\* fio_mutex_down_timeout(startup_mutex, 10).
Startup ==
    /\ CoreAt("startup")
    /\ sem.startup > 0
    /\ sem' = [sem EXCEPT !.startup = @ - 1]
    /\ core' = [core EXCEPT !.i = @ + 1, !.pc = "pass"]
    /\ UNCHANGED <<conf, td, cut>>

\* "job startup hung? exiting.": the down returns without unlocking the mutex.
StartupTimeout ==
    /\ CoreAt("startup")
    /\ sem.startup = 0
    /\ sem'  = [sem EXCEPT !.kept = TRUE]
    /\ td'   = TerminateAll(td)
    /\ core' = [core EXCEPT !.fio_abort = TRUE, !.nr_started = Less(@),
                            !.pc = "initwait"]
    /\ UNCHANGED <<conf, cut>>

\* Waiting for the jobs of the map to be TD_INITIALIZED.  None of them can be
\* TD_EXITED yet, the "work-around" of this loop: a job waits for td->mutex before
\* whatever could make it end, and a process that is killed sets no state.
Uninitialized == {j \in core.map : td[j].runstate = "CREATED"}

Initialized ==
    /\ CoreAt("initwait")
    /\ ~core.fio_abort /\ Uninitialized = {}
    /\ core' = [core EXCEPT !.pc = "start"]
    /\ UNCHANGED <<conf, td, sem, cut>>

\* JOB_START_TIMEOUT, or fio_abort: every job left in the map is sent SIGTERM;
\* its handler, or the core's own for the pid 0, terminates all.  Nobody starts
\* the jobs that are TD_INITIALIZED.
FailedToStart ==
    /\ CoreAt("initwait")
    /\ core.fio_abort \/ Uninitialized # {}
    /\ td' = TerminateAll(td)
    /\ core' = [core EXCEPT !.pc = "drain", !.failed = TRUE]
    /\ UNCHANGED <<conf, sem, cut>>

\* "start created threads (TD_INITIALIZED -> TD_RUNNING)".
Start ==
    /\ CoreAt("start")
    /\ LET S == {j \in Jobs : td[j].runstate = "INITIALIZED"}
           n == Cardinality(S)
       IN  /\ td' = [j \in Jobs |-> IF j \in S
                                      THEN [td[j] EXCEPT !.runstate = "RUNNING",
                                                         !.mutex = 1]
                                      ELSE td[j]]
           /\ core' = [core EXCEPT !.nr_running = @ + n, !.nr_started = @ - n,
                                   !.todo = (@ - n) % Modulus,
                                   !.pc = "reap"]
    /\ UNCHANGED <<conf, sem, cut>>

\* Mutant: only a job that says so is taken for dead.
DeadByState ==
    {j \in Pids : td[j].runstate = "EXITED"}

\* Mutant: a job that was reaped is waited for again.
DeadAgain ==
    {j \in Pids : IF conf.kind = "thread" THEN td[j].runstate = "EXITED"
                                          ELSE td[j].pc \in Ended}

\* The jobs reap_threads finds dead: threads that say so, processes waitpid
\* returns.
Dead ==
    {j \in Pids : /\ td[j].runstate # "REAPED"
                  /\ IF conf.kind = "thread" THEN td[j].runstate = "EXITED"
                                             ELSE td[j].pc \in Ended}

\* reap_threads, in the main loop and in "while (nr_running)".
Reap ==
    /\ CoreAt("reap") \/ (CoreAt("drain") /\ core.nr_running > 0)
    /\ LET reaped == [j \in Jobs |-> IF j \in Dead
                        THEN [td[j] EXCEPT !.runstate = "REAPED"] ELSE td[j]]
           left    == (core.nr_running - Cardinality(Dead)) % Modulus
           pending == {j \in Jobs : \/ j \notin Pids
                                    \/ /\ conf.kind = "process"
                                       /\ reaped[j].runstate # "REAPED"}
       IN  /\ td' = IF left = 0 /\ pending = {} THEN TerminateAll(reaped)
                                                ELSE reaped
           /\ core' = [core EXCEPT !.nr_running = left, !.map = {}, !.i = 1,
                 !.pc = IF core.pc = "reap" /\ core.todo > 0 THEN "pass"
                                                             ELSE "drain"]
    /\ UNCHANGED <<conf, sem, cut>>

Finish ==
    /\ CoreAt("drain") /\ core.nr_running = 0
    /\ core' = [core EXCEPT !.pc = "done"]
    /\ UNCHANGED <<conf, td, sem, cut>>

\* sig_int in the core: SIGINT or SIGTERM from the user.
Signal ==
    /\ core.pc \notin {"setup", "done"}
    /\ \E j \in Jobs : ~td[j].terminate
    /\ td' = TerminateAll(td)
    /\ cut' = TRUE
    /\ UNCHANGED <<conf, core, sem>>

-----------------------------------------------------------------------------
(***************************************************************************)
(* A job: thread_main.                                                     *)
(***************************************************************************)
JobAt(j, label) == td[j].pc = label

\* It sets its pid, initialises its lists and says so ...
Boot(j) ==
    /\ JobAt(j, "boot")
    /\ td' = [td EXCEPT ![j].pid = TRUE, ![j].runstate = "INITIALIZED",
                        ![j].pc = "up"]
    /\ UNCHANGED <<conf, core, sem, cut>>

\* ... fio_mutex_up(startup_mutex): blocks for ever on a lock that was kept ...
Up(j) ==
    /\ JobAt(j, "up")
    /\ ~sem.kept
    /\ sem' = [sem EXCEPT !.startup = @ + 1]
    /\ td'  = [td EXCEPT ![j].pc = "blocked"]
    /\ UNCHANGED <<conf, core, cut>>

\* ... fio_mutex_down(td->mutex): it waits to be started.
Go(j) ==
    /\ JobAt(j, "blocked")
    /\ td[j].mutex > 0
    /\ td' = [td EXCEPT ![j].mutex = @ - 1, ![j].pc = "work"]
    /\ UNCHANGED <<conf, core, sem, cut>>

\* The work ends, by itself or because of td->terminate: the logs are written
\* under writeout_mutex.
Logs(j) ==
    /\ JobAt(j, "work")
    /\ sem.writeout > 0
    /\ sem' = [sem EXCEPT !.writeout = @ - 1]
    /\ td'  = [td EXCEPT ![j].pc = "logs"]
    /\ UNCHANGED <<conf, core, cut>>

\* fio_mutex_up(writeout_mutex), exitall, TD_EXITED.
Exit(j) ==
    /\ JobAt(j, "logs")
    /\ sem' = [sem EXCEPT !.writeout = @ + 1]
    /\ td' = [(IF conf.exitall THEN TerminateGroup ELSE td) EXCEPT
                ![j].runstate = "EXITED", ![j].pc = "gone"]
    /\ cut' = (cut \/ conf.exitall)
    /\ UNCHANGED <<conf, core>>

\* "goto err" on one of the errors of the setup.
ExitError(j) ==
    /\ JobAt(j, "work")
    /\ td' = [td EXCEPT ![j].runstate = "EXITED", ![j].pc = "gone"]
    /\ UNCHANGED <<conf, core, sem, cut>>

\* "someone quit or got killed in an unusual way".
Killed(j) ==
    /\ conf.kind = "process" /\ td[j].pc \in Killable
    /\ td' = [td EXCEPT ![j].pc = "dead"]
    /\ UNCHANGED <<conf, core, sem, cut>>

\* Time passes: the start_delay of a job is over.
DelayOver(j) ==
    /\ td[j].start_delay
    /\ td' = [td EXCEPT ![j].start_delay = FALSE]
    /\ UNCHANGED <<conf, core, sem, cut>>

-----------------------------------------------------------------------------
Init ==
    /\ conf \in [kind : Kinds, stonewall : SUBSET Jobs, delayed : SUBSET Jobs,
                 exitall : BOOLEAN]
    /\ Cardinality(conf.delayed) <= MaxDelayed
    /\ td = [j \in Jobs |->
               [runstate |-> "NOT_CREATED", terminate |-> FALSE,
                start_delay |-> j \in conf.delayed, pid |-> FALSE, mutex |-> 0,
                pc |-> "none"]]
    /\ core = [pc |-> "setup", i |-> 1, todo |-> NJobs, nr_running |-> 0,
               nr_started |-> 0, map |-> {}, fio_abort |-> FALSE,
               failed |-> FALSE]
    /\ sem = [startup |-> 0, kept |-> FALSE, writeout |-> 1]
    /\ cut = FALSE

Core ==
    \/ Setup \/ PassOver \/ DropTerminated \/ EndPass \/ Create(TRUE)
    \/ Create(FALSE) \/ Startup \/ StartupTimeout \/ Initialized
    \/ FailedToStart \/ Start \/ Reap \/ Finish

Job(j) == Boot(j) \/ Up(j) \/ Go(j) \/ Logs(j) \/ Exit(j)

Next ==
    \/ Core
    \/ Signal
    \/ \E j \in Jobs : Job(j) \/ ExitError(j) \/ Killed(j) \/ DelayOver(j)

Spec == Init /\ [][Next]_vars

\* The core and the jobs are scheduled, jobs come to an end, time passes.
FairSpec ==
    /\ Spec
    /\ WF_vars(Core)
    /\ \A j \in Jobs : WF_vars(Job(j)) /\ WF_vars(DelayOver(j))

-----------------------------------------------------------------------------
(***************************************************************************)
(* Properties.                                                             *)
(***************************************************************************)

\* A terminate flag that was set while a delayed job was still to be created:
\* DropTerminated may then take a job off todo more than once.
CutDelayed == cut /\ conf.delayed # {}

\* The variables keep their types, and neither todo nor nr_running wraps below
\* zero, whatever is terminated and whoever is killed, unless a job fails to
\* start or a run with a delayed job is cut short (backend.c:1690, 1809).
TypeOK ==
    /\ \A j \in Jobs :
         /\ td[j].runstate \in {"NOT_CREATED", "CREATED", "INITIALIZED",
                                "RUNNING", "EXITED", "REAPED"}
         /\ td[j].mutex \in 0..1
         /\ td[j].pc \in {"none", "boot", "up", "blocked", "work", "logs",
                          "gone", "dead"}
    /\ core.todo \in 0..(Modulus - 1) /\ core.nr_running \in 0..(Modulus - 1)
    /\ core.nr_started \in 0..NJobs
    /\ ~CutDelayed /\ ~core.failed => core.todo <= NJobs /\ core.nr_running <= NJobs
    /\ sem.startup \in 0..NJobs /\ sem.writeout \in 0..1

\* When a stonewalled job is created no job is alive, and each job before it in
\* the file was reaped, but for one whose start_delay was not over when the pass
\* came to it: the code goes on without it (backend.c:1814-1825), although the
\* stonewalled job is to "Wait for preceding jobs in the job file to exit, before
\* starting this one" (HOWTO:1227).
StonewallWaits ==
    [][\A j \in conf.stonewall :
         td[j].runstate = "NOT_CREATED" /\ td'[j].runstate = "CREATED" =>
             \A k \in Jobs :
                 /\ ~Live(k)
                 /\ k < j => td[k].runstate = "REAPED" \/ k \in conf.delayed]_vars

\* When run_threads returns, every job was run and reaped, or was terminated
\* before its start, unless a job failed to start (then nr_running is lowered
\* for jobs it never counted) or a run with a delayed job was cut short
\* (backend.c:1713-1951).
NoJobForgotten ==
    core.pc = "done" /\ ~core.failed /\ ~CutDelayed =>
        \A j \in Jobs :
            \/ td[j].runstate = "REAPED"
            \/ td[j].runstate = "NOT_CREATED" /\ td[j].terminate

\* A process died between the down and the up of writeout_mutex: nobody is left
\* to raise it.
WriteoutLost == sem.writeout = 0 /\ \A j \in Jobs : td[j].pc # "logs"

\* run_threads returns, between whatever two steps processes are killed and
\* whenever the run is interrupted (backend.c:1790-1947), but for three cases: a
\* process was killed while it held writeout_mutex, for which the others wait for
\* ever; a job failed to start; a run with a delayed job was cut short.
RunEnds == <>(core.pc = "done" \/ WriteoutLost \/ CutDelayed \/ core.failed)
=============================================================================
