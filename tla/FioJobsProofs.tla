--------------------------- MODULE FioJobsProofs ----------------------------
(***************************************************************************)
(* What module FioJobs promises for every number of jobs, every job file   *)
(* and whichever jobs are killed.                                          *)
(***************************************************************************)
EXTENDS FioJobs, FiniteSetTheorems, TLAPS

RunStates == {"NOT_CREATED", "CREATED", "INITIALIZED", "RUNNING", "EXITED", "REAPED"}
JobPcs    == {"none", "boot", "up", "blocked", "work", "logs", "gone", "dead"}
CorePcs   == {"setup", "pass", "startup", "initwait", "start", "reap", "drain", "done"}

ConfType == [kind : Kinds, stonewall : SUBSET Jobs, delayed : SUBSET Jobs,
             exitall : BOOLEAN]
JobType  == [runstate : RunStates, terminate : BOOLEAN, start_delay : BOOLEAN,
             pid : BOOLEAN, mutex : 0..1, pc : JobPcs]
CoreType == [pc : CorePcs, i : 1..(NJobs + 1), todo : Int, nr_running : Int,
             nr_started : Int, map : SUBSET Jobs, fio_abort : BOOLEAN,
             failed : BOOLEAN]
SemType  == [startup : Nat, kept : BOOLEAN, writeout : 0..1]

\* Where the thread of a job can be in each of its run states, and whether its
\* pid is set by then.
Life(t) ==
    /\ t.runstate = "NOT_CREATED" => t.pc = "none"
    /\ t.runstate = "CREATED"     => t.pc \in {"none", "boot", "dead"}
    /\ t.runstate = "INITIALIZED" => t.pc \in {"up", "blocked", "dead"}
    /\ t.runstate = "RUNNING"     => t.pc \in {"up", "blocked", "work", "logs", "dead"}
    /\ t.runstate = "EXITED"      => t.pc = "gone"
    /\ t.runstate = "REAPED"      => t.pc \in {"none", "gone", "dead"}
    /\ t.pid => t.runstate \notin {"NOT_CREATED", "CREATED"}
    /\ t.mutex > 0 => t.runstate \in {"RUNNING", "REAPED"}
    /\ t.pc \in {"work", "logs", "gone"} => t.mutex = 0

\* The shape of the state: a job writes its logs alone, only a job with a
\* start_delay is delayed, and none is created before the files are set up.
Shape ==
    /\ conf \in ConfType /\ td \in [Jobs -> JobType] /\ core \in CoreType
    /\ sem \in SemType /\ cut \in BOOLEAN
    /\ \A j \in Jobs : Life(td[j]) /\ (td[j].start_delay => j \in conf.delayed)
    /\ sem.writeout > 0 => \A j \in Jobs : td[j].pc # "logs"
    /\ \A j, k \in Jobs : td[j].pc = "logs" /\ td[k].pc = "logs" => j = k
    /\ core.pc = "setup" => \A j \in Jobs : td[j].pc = "none"
    /\ core.pc = "startup" => core.i <= NJobs

\* The jobs by run state: those still to be created, those being started, and
\* those that run or ran and are not reaped yet.
In(S)    == {j \in Jobs : td[j].runstate \in S}
Fresh    == In({"NOT_CREATED"})
Starting == In({"CREATED", "INITIALIZED"})
Going    == In({"RUNNING", "EXITED"})

\* nr_started and nr_running count them, in every phase of run_threads that does
\* not follow a failure.
CoreInv ==
    /\ core.todo \in 0..(Modulus - 1) /\ core.nr_running \in 0..(Modulus - 1)
    /\ core.nr_started \in 0..NJobs
    /\ core.pc = "setup" => Fresh = Jobs /\ core.i = 1
    /\ core.pc # "initwait" /\ ~core.failed => ~core.fio_abort
    /\ core.pc \notin {"drain", "done"} => ~core.failed
    /\ core.pc \in {"pass", "startup", "initwait"} => Starting \subseteq core.map
    /\ core.pc \in {"pass", "startup", "start"} => core.nr_started = Cardinality(Starting)
    /\ core.pc = "startup" => core.i \in Starting
    /\ core.pc = "initwait" /\ ~core.fio_abort =>
         \/ core.nr_started = Cardinality(Starting)
         \/ \E j \in core.map : td[j].runstate = "CREATED" /\ td[j].pc = "none"
    /\ core.pc = "start" => \A j \in Jobs : td[j].runstate # "CREATED"
    /\ core.pc \in {"setup", "reap"} => core.nr_started = 0
    /\ core.pc \in {"reap", "drain", "done"} /\ ~core.failed => Starting = {}
    /\ ~core.failed => core.nr_running = Cardinality(Going)
    /\ core.pc = "done" => core.nr_running = 0

\* Jobs that DropTerminated took off todo in the pass at hand.
Dropped == {j \in Fresh : j < core.i /\ td[j].terminate}

\* todo counts the jobs that are to be started.  A terminate flag is set for all
\* jobs or for the last ones, so that a pass drops either none or all it meets
\* from some job on; and no pass follows one that dropped jobs.
Counting ==
    /\ core.pc \in {"pass", "startup", "initwait", "start"} =>
         core.todo = Cardinality((Fresh \cup Starting) \ Dropped)
    /\ core.pc = "reap" => core.todo = Cardinality(Fresh \ Dropped)
    /\ ~cut => \A j \in Fresh : ~td[j].terminate
    /\ \A j, k \in Fresh : j < k /\ td[j].terminate => td[k].terminate
    /\ conf.delayed = {} /\ core.pc \in {"pass", "startup", "initwait", "start", "reap"} =>
         \A j \in Fresh : j < core.i => td[j].terminate
    /\ core.pc \in {"initwait", "start", "reap"} /\ Dropped # {} => core.i = NJobs + 1
    /\ core.pc \in {"drain", "done"} => \A j \in Fresh : td[j].terminate

TodoInv ==
    ~CutDelayed /\ ~core.failed => core.todo <= NJobs /\ (core.fio_abort \/ Counting)

\* Flags are set for all jobs or for the last ones.  A pass has created the jobs
\* it went past, but for those that are terminated and those that are delayed.
PassInv ==
    /\ \A j, k \in Fresh : j < k /\ td[j].terminate => td[k].terminate
    /\ core.pc \in {"pass", "startup"} =>
         \A k \in Fresh : k < core.i => td[k].terminate \/ k \in conf.delayed

\* startup_mutex is raised once by each job.
Raised == {j \in Jobs : td[j].pc \notin {"none", "boot", "up"}}
SemInv == sem.startup <= Cardinality(Raised)

-----------------------------------------------------------------------------
\* An unsigned int that stays between 0 and what wraps is the number itself.
LEMMA NoWrap ==
    ASSUME NEW n \in 0..(Modulus - 1)
    PROVE  n % Modulus = n
BY JobsAssumption

LEMMA Wraps ==
    ASSUME NEW n \in Int
    PROVE  n % Modulus \in 0..(Modulus - 1)
BY JobsAssumption

\* A set of jobs is finite and has NJobs members at most.
LEMMA SomeJobs ==
    ASSUME NEW S \in SUBSET Jobs
    PROVE  IsFiniteSet(S) /\ Cardinality(S) \in 0..NJobs
<1>1. IsFiniteSet(Jobs) /\ Cardinality(Jobs) = NJobs
  BY JobsAssumption, FS_Interval DEF Jobs
<1> QED
  BY <1>1, FS_Subset, FS_CardinalityType, JobsAssumption

\* What fio_terminate_threads does to the jobs: flags only.
Flagged(t, u) ==
    \A j \in Jobs :
        /\ u[j].runstate = t[j].runstate /\ u[j].pid = t[j].pid
        /\ u[j].mutex = t[j].mutex /\ u[j].pc = t[j].pc
        /\ t[j].terminate => u[j].terminate
        /\ u[j].start_delay => t[j].start_delay

LEMMA TerminateAllFlags ==
    ASSUME NEW t \in [Jobs -> JobType]
    PROVE  /\ TerminateAll(t) \in [Jobs -> JobType]
           /\ Flagged(t, TerminateAll(t))
           /\ \A j \in Jobs : TerminateAll(t)[j].terminate
<1> DEFINE u == TerminateAll(t)
<1>1. \A j \in Jobs : u[j] = [t[j] EXCEPT !.terminate = TRUE, !.start_delay = FALSE]
  BY DEF TerminateAll
<1>2. \A j \in Jobs : u[j] \in JobType
  BY <1>1 DEF JobType
<1>3. u \in [Jobs -> JobType]
  BY <1>2 DEF TerminateAll
<1>4. \A j \in Jobs : u[j].terminate = TRUE /\ u[j].start_delay = FALSE
  BY <1>1 DEF JobType
<1>5. Flagged(t, u)
  <2> SUFFICES ASSUME NEW j \in Jobs
               PROVE  /\ u[j].runstate = t[j].runstate /\ u[j].pid = t[j].pid
                      /\ u[j].mutex = t[j].mutex /\ u[j].pc = t[j].pc
    BY <1>4 DEF Flagged
  <2>1. t[j] \in JobType /\ u[j] = [t[j] EXCEPT !.terminate = TRUE, !.start_delay = FALSE]
    BY <1>1
  <2> HIDE DEF u
  <2> QED
    BY <2>1 DEF JobType
<1> QED
  BY <1>3, <1>4, <1>5

LEMMA TerminateGroupFlags ==
    ASSUME td \in [Jobs -> JobType]
    PROVE  /\ TerminateGroup \in [Jobs -> JobType]
           /\ Flagged(td, TerminateGroup)
           /\ \/ \A j \in Jobs : TerminateGroup[j].terminate
              \/ \A j \in Jobs : IF Group(j) = groupid
                                   THEN TerminateGroup[j].terminate
                                   ELSE TerminateGroup[j] = td[j]
<1> DEFINE group == {j \in Jobs : Group(j) = groupid}
           u == [j \in Jobs |-> IF j \in group
                                  THEN [td[j] EXCEPT !.terminate = TRUE,
                                                     !.start_delay = FALSE]
                                  ELSE td[j]]
<1>1. CASE \E j \in group \cap Pids :
             Live(j) /\ td[j].runstate \in {"CREATED", "INITIALIZED"}
  <2>1. TerminateGroup = TerminateAll(td)
    BY <1>1 DEF TerminateGroup
  <2> QED
    BY <2>1, TerminateAllFlags
<1>2. CASE ~\E j \in group \cap Pids :
             Live(j) /\ td[j].runstate \in {"CREATED", "INITIALIZED"}
  <2>1. TerminateGroup = u
    BY <1>2 DEF TerminateGroup
  <2>2. \A j \in Jobs : u[j] \in JobType
    BY DEF JobType
  <2>3. u \in [Jobs -> JobType]
    BY <2>2
  <2>4. Flagged(td, u)
    BY DEF Flagged, JobType
  <2>5. \A j \in Jobs : IF Group(j) = groupid THEN u[j].terminate ELSE u[j] = td[j]
    BY DEF JobType
  <2> QED
    BY <2>1, <2>3, <2>4, <2>5
<1> QED
  BY <1>1, <1>2

\* Flags do not disturb what the run states and the threads have to do with each
\* other.
LEMMA FlagsKeepShape ==
    ASSUME NEW t \in [Jobs -> JobType], NEW u \in [Jobs -> JobType], Flagged(t, u),
           \A j \in Jobs : Life(t[j])
    PROVE  \A j \in Jobs : Life(u[j])
BY DEF Flagged, Life

\* Every step of the core and of the jobs keeps the shape of the state.
LEMMA ShapeInvariance == Spec => []Shape
<1> USE JobsAssumption
<1>1. Init => Shape
  <2> SUFFICES ASSUME Init PROVE Shape
    OBVIOUS
  <2>1. conf \in ConfType
    BY DEF Init, ConfType
  <2>2. td \in [Jobs -> JobType] /\ \A j \in Jobs : td[j].pc = "none"
    <3>1. \A j \in Jobs : (j \in conf.delayed) \in BOOLEAN
      OBVIOUS
    <3> QED
      BY <3>1 DEF Init, JobType, RunStates, JobPcs
  <2>3. core \in CoreType
    BY DEF Init, CoreType, CorePcs
  <2>4. sem \in SemType /\ cut \in BOOLEAN
    <3>1. cut \in BOOLEAN
      BY Zenon DEF Init
    <3>2. PICK kept \in BOOLEAN : sem = [startup |-> 0, kept |-> kept, writeout |-> 1]
      BY Zenon DEF Init
    <3> QED
      BY <3>1, <3>2 DEF SemType
  <2>5. \A j \in Jobs : Life(td[j])
    BY DEF Init, Life
  <2>6. \A j \in Jobs : td[j].start_delay => j \in conf.delayed
    BY DEF Init
  <2>7. core.pc = "setup"
    BY DEF Init
  <2> QED
    BY <2>1, <2>2, <2>3, <2>4, <2>5, <2>6, <2>7 DEF Shape
<1>2. Shape /\ [Next]_vars => Shape'
  <2> SUFFICES ASSUME Shape, [Next]_vars PROVE Shape'
    OBVIOUS
  <2>0. /\ conf \in ConfType /\ td \in [Jobs -> JobType] /\ core \in CoreType
        /\ sem \in SemType /\ cut \in BOOLEAN
        /\ \A j \in Jobs : td[j] \in JobType
    BY DEF Shape
  \* A step that gives the jobs new flags at most.
  <2>f. ASSUME td' \in [Jobs -> JobType], Flagged(td, td'), conf' = conf, core' \in CoreType,
               sem' \in SemType, sem'.writeout = sem.writeout, cut' \in BOOLEAN,
               core'.pc = "setup" => core.pc = "setup",
               core'.pc = "startup" => core.pc = "startup" /\ core'.i = core.i
        PROVE  Shape'
    <3>1. \A j \in Jobs : Life(td'[j])
      BY <2>0, <2>f, FlagsKeepShape DEF Shape
    <3>2. \A j \in Jobs : /\ td'[j].pc = td[j].pc
                          /\ td'[j].start_delay => j \in conf.delayed
      BY <2>f DEF Flagged, Shape
    <3> QED
      BY <2>f, <3>1, <3>2 DEF Shape
  <2>g. Flagged(td, td)
    BY DEF Flagged
  <2>1. CASE UNCHANGED vars
    BY <2>0, <2>1 DEF vars, Shape
  <2>2. CASE Setup
    <3>1. PICK failed \in SUBSET Jobs :
            /\ td' = [j \in Jobs |-> IF j \in failed
                                       THEN [td[j] EXCEPT !.runstate = "REAPED"]
                                       ELSE td[j]]
            /\ core' = [core EXCEPT !.todo = NJobs - Cardinality(failed),
                                    !.pc = IF failed = Jobs THEN "drain" ELSE "pass"]
      BY <2>2 DEF Setup
    <3>2. NJobs - Cardinality(failed) \in Int
      BY SomeJobs
    <3>3. core' \in CoreType
      BY <2>0, <3>1, <3>2 DEF CoreType, CorePcs
    <3>4. \A j \in Jobs :
            /\ td'[j] \in JobType /\ td'[j].pc = td[j].pc
            /\ td'[j].start_delay = td[j].start_delay
      BY <2>0, <3>1 DEF JobType, RunStates
    <3>5. \A j \in Jobs : Life(td'[j])
      <4> SUFFICES ASSUME NEW j \in Jobs PROVE Life(td'[j])
        OBVIOUS
      <4>1. td[j].pc = "none" /\ Life(td[j])
        BY <2>2 DEF Setup, CoreAt, Shape
      <4>2. CASE j \notin failed
        BY <3>1, <4>1, <4>2
      <4>3. CASE j \in failed
        <5>1. td'[j].runstate = "REAPED" /\ td'[j].pc = "none"
          BY <2>0, <3>1, <4>1, <4>3 DEF JobType
        <5> QED
          BY <5>1 DEF Life
      <4> QED
        BY <4>2, <4>3
    <3>6. core'.pc \notin {"setup", "startup"}
      BY <2>0, <3>1 DEF CoreType
    <3>7. td' \in [Jobs -> JobType]
      BY <3>1, <3>4
    <3> QED
      BY <2>0, <2>2, <3>3, <3>4, <3>5, <3>6, <3>7 DEF Setup, Shape
  <2>3. CASE PassOver
    <3>1. core.i + 1 \in 1..(NJobs + 1)
      BY <2>0, <2>3 DEF PassOver, CoreType
    <3>2. core' \in CoreType /\ core'.pc = "pass"
      BY <2>0, <2>3, <3>1 DEF PassOver, CoreAt, CoreType
    <3> QED
      BY <2>0, <2>3, <2>f, <2>g, <3>2 DEF PassOver
  <2>4. CASE DropTerminated
    <3>1. Less(core.todo) \in Int /\ core.i + 1 \in 1..(NJobs + 1)
      BY <2>0, <2>4, Wraps DEF DropTerminated, CoreType, Less
    <3>2. core' \in CoreType /\ core'.pc = "pass"
      BY <2>0, <2>4, <3>1 DEF DropTerminated, CoreAt, CoreType
    <3> QED
      BY <2>0, <2>4, <2>f, <2>g, <3>2 DEF DropTerminated
  <2>5. CASE EndPass
    BY <2>0, <2>5, <2>f, <2>g DEF EndPass, CoreType, CorePcs
  <2>6. ASSUME NEW ok \in BOOLEAN, Create(ok) PROVE Shape'
    <3>1. core.i \in Jobs /\ td[core.i].pc = "none" /\ td[core.i].mutex = 0 /\ ~td[core.i].pid
      <4>1. core.i \in Jobs /\ td[core.i].runstate = "NOT_CREATED"
        BY <2>0, <2>6 DEF Create, Waits, CoreType, Jobs
      <4>2. td[core.i] \in JobType /\ Life(td[core.i])
        BY <2>0, <4>1 DEF Shape
      <4> QED
        BY <4>1, <4>2 DEF JobType, Life
    <3>2. PICK label \in {"boot", "none"} :
            td' = [td EXCEPT ![core.i].runstate = "CREATED", ![core.i].pc = label]
      BY <2>6 DEF Create
    <3>3. td' \in [Jobs -> JobType]
      BY <2>0, <3>1, <3>2 DEF JobType, RunStates, JobPcs
    <3>4. /\ \A j \in Jobs : td'[j].start_delay = td[j].start_delay
          /\ \A j \in Jobs \ {core.i} : td'[j] = td[j]
          /\ td'[core.i].pc = label /\ td'[core.i].runstate = "CREATED"
          /\ td'[core.i].mutex = 0 /\ ~td'[core.i].pid
      BY <2>0, <3>1, <3>2 DEF JobType
    <3>5. \A j \in Jobs : Life(td'[j])
      <4>1. Life(td'[core.i])
        BY <3>1, <3>4 DEF Life
      <4>2. \A j \in Jobs : Life(td[j])
        BY Zenon DEF Shape
      <4> QED
        BY <3>4, <4>1, <4>2
    <3>6. PICK n \in Int, next \in {"initwait", "startup"} :
            core' = [core EXCEPT !.map = @ \cup {core.i}, !.nr_started = n, !.pc = next]
      <4> DEFINE seen == ~ok /\ conf.kind = "thread"
      <4>1. core' = [core EXCEPT !.map = @ \cup {core.i},
                                 !.nr_started = IF seen THEN @ ELSE @ + 1,
                                 !.pc = IF seen THEN "initwait" ELSE "startup"]
        BY <2>6 DEF Create
      <4>2. core.nr_started \in Int
        BY <2>0 DEF CoreType
      <4>3. CASE seen
        BY <4>1, <4>2, <4>3
      <4>4. CASE ~seen
        <5>1. core.nr_started + 1 \in Int
          BY <4>2
        <5> QED
          BY <4>1, <4>4, <5>1
      <4> QED
        BY <4>3, <4>4
    <3>7. core' \in CoreType /\ core'.pc # "setup" /\ core'.i = core.i
      BY <2>0, <3>1, <3>6 DEF CoreType, CorePcs
    <3> QED
      BY <2>0, <2>6, <3>1, <3>3, <3>4, <3>5, <3>7 DEF Create, Shape, Jobs
  <2>7. CASE Startup
    <3>0. core.i + 1 \in 1..(NJobs + 1)
      BY <2>0, <2>7 DEF Startup, CoreAt, CoreType, Shape
    <3>1. core' \in CoreType /\ core'.pc = "pass"
      BY <2>0, <2>7, <3>0 DEF Startup, CoreType, CorePcs
    <3>2. sem' \in SemType /\ sem'.writeout = sem.writeout
      BY <2>0, <2>7 DEF Startup, SemType
    <3> QED
      BY <2>0, <2>7, <2>f, <2>g, <3>1, <3>2 DEF Startup
  <2>8. CASE StartupTimeout
    <3>1. Less(core.nr_started) \in Int
      BY <2>0, Wraps DEF CoreType, Less
    <3>2. core' \in CoreType
      BY <2>0, <2>8, <3>1 DEF StartupTimeout, CoreType, CorePcs
    <3>3. sem' \in SemType /\ sem'.writeout = sem.writeout
      BY <2>0, <2>8 DEF StartupTimeout, SemType
    <3> QED
      BY <2>0, <2>8, <2>f, <3>2, <3>3, TerminateAllFlags DEF StartupTimeout
  <2>9. CASE Initialized
    BY <2>0, <2>9, <2>f, <2>g DEF Initialized, CoreType, CorePcs
  <2>10. CASE FailedToStart
    BY <2>0, <2>10, <2>f, TerminateAllFlags DEF FailedToStart, CoreType, CorePcs
  <2>11. CASE Start
    <3> DEFINE S == {j \in Jobs : td[j].runstate = "INITIALIZED"}
               n == Cardinality(S)
    <3>1. n \in Int
      BY SomeJobs
    <3>2. core' = [core EXCEPT !.nr_running = @ + n, !.nr_started = @ - n,
                               !.todo = (@ - n) % Modulus, !.pc = "reap"]
      BY <2>11 DEF Start
    <3>3. /\ (core.todo - n) % Modulus \in Int
          /\ core.nr_running + n \in Int /\ core.nr_started - n \in Int
      <4> HIDE DEF n
      <4> QED
        BY <2>0, <3>1, Wraps DEF CoreType
    <3>4. core' \in CoreType /\ core'.pc = "reap"
      <4> HIDE DEF n
      <4> QED
        BY <2>0, <3>1, <3>2, <3>3 DEF CoreType, CorePcs
    <3>5. \A j \in Jobs :
            td'[j] = IF td[j].runstate = "INITIALIZED"
                       THEN [td[j] EXCEPT !.runstate = "RUNNING", !.mutex = 1]
                       ELSE td[j]
      BY <2>11 DEF Start
    <3>6. \A j \in Jobs : /\ td'[j] \in JobType /\ td'[j].pc = td[j].pc
                          /\ td'[j].start_delay = td[j].start_delay
      <4> SUFFICES ASSUME NEW j \in Jobs
                   PROVE  /\ td'[j] \in JobType /\ td'[j].pc = td[j].pc
                          /\ td'[j].start_delay = td[j].start_delay
        OBVIOUS
      <4>1. td[j] \in JobType
        BY <2>0
      <4>2. CASE td[j].runstate = "INITIALIZED"
        <5>1. td'[j] = [td[j] EXCEPT !.runstate = "RUNNING", !.mutex = 1]
          BY <3>5, <4>2
        <5>2. td'[j].pc = td[j].pc /\ td'[j].start_delay = td[j].start_delay
          BY <4>1, <5>1 DEF JobType
        <5>3. "RUNNING" \in RunStates /\ 1 \in 0..1
          BY DEF RunStates
        <5>4. td'[j] \in JobType
          <6> HIDE JobsAssumption
          <6> QED
            BY <4>1, <5>1, <5>3 DEF JobType
        <5> QED
          BY <5>2, <5>4
      <4>3. CASE td[j].runstate # "INITIALIZED"
        BY <3>5, <4>1, <4>3
      <4> QED
        BY <4>2, <4>3
    <3>7. \A j \in Jobs : Life(td'[j])
      <4> SUFFICES ASSUME NEW j \in Jobs PROVE Life(td'[j])
        OBVIOUS
      <4>1. td[j] \in JobType /\ Life(td[j])
        BY <2>0 DEF Shape
      <4>2. CASE td[j].runstate = "INITIALIZED"
        <5>1. td'[j] = [td[j] EXCEPT !.runstate = "RUNNING", !.mutex = 1]
          BY <3>5, <4>2
        <5>2. td'[j].runstate = "RUNNING" /\ td'[j].pc = td[j].pc
          BY <4>1, <5>1 DEF JobType
        <5>3. td[j].pc \in {"up", "blocked", "dead"}
          BY <4>1, <4>2 DEF Life
        <5> QED
          BY <5>2, <5>3 DEF Life
      <4>3. CASE td[j].runstate # "INITIALIZED"
        BY <3>5, <4>1, <4>3
      <4> QED
        BY <4>2, <4>3
    <3>8. td' \in [Jobs -> JobType]
      BY <2>11, <3>6 DEF Start
    <3>9. UNCHANGED <<conf, sem, cut>>
      BY <2>11 DEF Start
    <3> QED
      BY <2>0, <2>11, <3>4, <3>6, <3>7, <3>8, <3>9 DEF Shape
  <2>12. CASE Reap
    <3> DEFINE reaped == [j \in Jobs |-> IF j \in Dead
                            THEN [td[j] EXCEPT !.runstate = "REAPED"] ELSE td[j]]
    <3>1. \A j \in Jobs : /\ reaped[j] \in JobType /\ reaped[j].pc = td[j].pc
                          /\ reaped[j].start_delay = td[j].start_delay
      BY <2>0 DEF JobType, RunStates
    <3>2. \A j \in Jobs : Life(reaped[j])
      <4> SUFFICES ASSUME NEW j \in Dead PROVE Life(reaped[j])
        BY DEF Shape
      <4>1. j \in Jobs /\ td[j].pc \in {"gone", "dead"} /\ Life(td[j])
        BY DEF Dead, Pids, Ended, Shape, Life
      <4>2. /\ reaped[j].runstate = "REAPED" /\ reaped[j].pc = td[j].pc
            /\ reaped[j].mutex = td[j].mutex
        BY <2>0, <4>1 DEF JobType
      <4> QED
        BY <4>1, <4>2 DEF Life
    <3>3. reaped \in [Jobs -> JobType]
      BY <3>1
    <3>4. /\ td' \in [Jobs -> JobType] /\ Flagged(reaped, td')
      <4>1. td' = TerminateAll(reaped) \/ td' = reaped
        BY <2>12 DEF Reap
      <4>2. Flagged(reaped, reaped)
        BY DEF Flagged
      <4> QED
        BY <3>3, <4>1, <4>2, TerminateAllFlags
    <3>5. \A j \in Jobs : Life(td'[j])
      BY <3>2, <3>3, <3>4, FlagsKeepShape
    <3>6. \A j \in Jobs : /\ td'[j].pc = td[j].pc
                          /\ td'[j].start_delay => j \in conf.delayed
      BY <3>1, <3>4 DEF Flagged, Shape
    <3>7. (core.nr_running - Cardinality(Dead)) % Modulus \in Int
      BY <2>0, SomeJobs, Wraps DEF CoreType, Dead, Pids
    <3>8. core' \in CoreType /\ core'.pc \notin {"setup", "startup"}
      <4>1. {} \in SUBSET Jobs /\ 1 \in 1..(NJobs + 1)
        OBVIOUS
      <4>2. PICK n \in Int, next \in {"pass", "drain"} :
              core' = [core EXCEPT !.nr_running = n, !.map = {}, !.i = 1, !.pc = next]
        BY <2>12, <3>7 DEF Reap
      <4> QED
        BY <2>0, <4>1, <4>2 DEF CoreType, CorePcs
    <3>9. UNCHANGED <<conf, sem, cut>>
      BY <2>12 DEF Reap
    <3> HIDE DEF reaped
    <3> QED
      BY <2>0, <3>4, <3>5, <3>6, <3>8, <3>9 DEF Shape
  <2>13. CASE Finish
    BY <2>0, <2>13, <2>f, <2>g DEF Finish, CoreType, CorePcs
  <2>14. CASE Signal
    BY <2>0, <2>14, <2>f, TerminateAllFlags DEF Signal
  <2>15. ASSUME NEW j \in Jobs, Boot(j) PROVE Shape'
    BY <2>0, <2>15 DEF Boot, JobAt, Shape, JobType, RunStates, JobPcs, Life
  <2>16. ASSUME NEW j \in Jobs, Up(j) PROVE Shape'
    BY <2>0, <2>16 DEF Up, JobAt, Shape, JobType, RunStates, JobPcs, Life, SemType
  <2>17. ASSUME NEW j \in Jobs, Go(j) PROVE Shape'
    BY <2>0, <2>17 DEF Go, JobAt, Shape, JobType, RunStates, JobPcs, Life
  <2>18. ASSUME NEW j \in Jobs, Logs(j) PROVE Shape'
    BY <2>0, <2>18 DEF Logs, JobAt, Shape, JobType, RunStates, JobPcs, Life, SemType
  <2>19. ASSUME NEW j \in Jobs, Exit(j) PROVE Shape'
    <3>1. PICK t \in [Jobs -> JobType] :
            Flagged(td, t) /\ td' = [t EXCEPT ![j].runstate = "EXITED", ![j].pc = "gone"]
      BY <2>0, <2>19, <2>g, TerminateGroupFlags DEF Exit
    <3>2. /\ td' \in [Jobs -> JobType]
          /\ \A k \in Jobs \ {j} : td'[k] = t[k]
          /\ td'[j].runstate = "EXITED" /\ td'[j].pc = "gone"
          /\ td'[j].mutex = td[j].mutex /\ td'[j].pid = td[j].pid
          /\ td'[j].start_delay => td[j].start_delay
      <4>1. t[j] \in JobType
        BY <3>1
      <4>2. /\ t[j].mutex = td[j].mutex /\ t[j].pid = td[j].pid
            /\ t[j].start_delay => td[j].start_delay
        BY <3>1 DEF Flagged
      <4>3. /\ td'[j] \in JobType
            /\ td'[j].runstate = "EXITED" /\ td'[j].pc = "gone"
            /\ td'[j].mutex = t[j].mutex /\ td'[j].pid = t[j].pid
            /\ td'[j].start_delay = t[j].start_delay
        BY <3>1, <4>1 DEF JobType, RunStates, JobPcs
      <4> QED
        BY <3>1, <4>2, <4>3
    <3>3. \A k \in Jobs : Life(t[k])
      BY <2>0, <3>1, FlagsKeepShape DEF Shape
    <3>4. td[j].pc = "logs" /\ td[j].mutex = 0 /\ core.pc # "setup"
      BY <2>19 DEF Exit, JobAt, Shape, Life
    <3>5. \A k \in Jobs : Life(td'[k])
      BY <3>2, <3>3, <3>4 DEF Life
    <3>6. \A k \in Jobs : td'[k].pc # "logs" /\ (td'[k].start_delay => k \in conf.delayed)
      BY <3>1, <3>2, <3>4 DEF Flagged, Shape
    <3>7. sem' \in SemType
      BY <2>0, <2>19, <3>4 DEF Exit, SemType, Shape
    <3>8. cut' \in BOOLEAN
      BY <2>19 DEF Exit
    <3> QED
      BY <2>0, <2>19, <3>2, <3>4, <3>5, <3>6, <3>7, <3>8 DEF Exit, Shape
  <2>20. ASSUME NEW j \in Jobs, ExitError(j) PROVE Shape'
    BY <2>0, <2>20 DEF ExitError, JobAt, Shape, JobType, RunStates, JobPcs, Life
  <2>21. ASSUME NEW j \in Jobs, Killed(j) PROVE Shape'
    BY <2>0, <2>21 DEF Killed, JobAt, Shape, JobType, RunStates, JobPcs, Life
  <2>22. ASSUME NEW j \in Jobs, DelayOver(j) PROVE Shape'
    <3>1. \A k \in Jobs : td'[k] = IF k = j THEN [td[k] EXCEPT !.start_delay = FALSE] ELSE td[k]
      BY <2>0, <2>22 DEF DelayOver
    <3>2. td'[j].start_delay = FALSE
      BY <2>0, <3>1 DEF JobType
    <3>3. Flagged(td, td')
      <4> SUFFICES ASSUME NEW k \in Jobs
                   PROVE  /\ td'[k].runstate = td[k].runstate /\ td'[k].pid = td[k].pid
                          /\ td'[k].mutex = td[k].mutex /\ td'[k].pc = td[k].pc
                          /\ td'[k].terminate = td[k].terminate
        BY <3>1, <3>2 DEF Flagged
      <4> QED
        BY <2>0, <3>1 DEF JobType
    <3>4. td' \in [Jobs -> JobType]
      BY <2>0, <2>22 DEF DelayOver, JobType
    <3> QED
      BY <2>0, <2>22, <2>f, <3>3, <3>4 DEF DelayOver
  <2> QED
    BY <2>1, <2>2, <2>3, <2>4, <2>5, <2>6, <2>7, <2>8, <2>9, <2>10, <2>11, <2>12,
       <2>13, <2>14, <2>15, <2>16, <2>17, <2>18, <2>19, <2>20, <2>21, <2>22
       DEF Next, Core, Job
<1> QED
  BY <1>1, <1>2, PTL DEF Spec
-----------------------------------------------------------------------------
\* Steps that leave the run states alone leave the counts alone.
SameRunStates == \A j \in Jobs : td'[j].runstate = td[j].runstate

LEMMA FlagsKeepRunStates ==
    ASSUME Flagged(td, td')
    PROVE  SameRunStates /\ \A j \in Jobs : td'[j].pc = td[j].pc
BY DEF Flagged, SameRunStates

LEMMA SameRunStatesSameSets ==
    ASSUME SameRunStates
    PROVE  Fresh' = Fresh /\ Starting' = Starting /\ Going' = Going
BY DEF SameRunStates, Fresh, Starting, Going, In

\* The two counters of run_threads are right: what a stonewall waits for.
LEMMA CoreInvariance == Spec => []CoreInv
<1> USE JobsAssumption
<1>1. Init => CoreInv
  <2> SUFFICES ASSUME Init PROVE CoreInv
    OBVIOUS
  <2>1. Fresh = Jobs /\ Starting = {} /\ Going = {}
    BY DEF Init, Fresh, Starting, Going, In
  <2>2. core = [pc |-> "setup", i |-> 1, todo |-> NJobs, nr_running |-> 0,
               nr_started |-> 0, map |-> {}, fio_abort |-> FALSE, failed |-> FALSE]
    BY DEF Init
  <2> QED
    BY <2>1, <2>2, FS_EmptySet DEF CoreInv
<1>2. Shape /\ CoreInv /\ [Next]_vars => CoreInv'
  <2> SUFFICES ASSUME Shape, CoreInv, [Next]_vars PROVE CoreInv'
    OBVIOUS
  <2>0. /\ td \in [Jobs -> JobType] /\ core \in CoreType
        /\ \A j \in Jobs : td[j] \in JobType /\ Life(td[j])
    BY DEF Shape
  <2>c. /\ IsFiniteSet(Starting) /\ Cardinality(Starting) \in 0..NJobs
        /\ IsFiniteSet(Going) /\ Cardinality(Going) \in 0..NJobs
    BY SomeJobs DEF Starting, Going, In
  \* A step of a job, or of a signal handler.
  <2>j. ASSUME core' = core, Starting' = Starting, Going' = Going,
               core.pc = "setup" => Fresh' = Fresh,
               \A j \in Jobs : td'[j].runstate = "CREATED" => td[j].runstate = "CREATED",
               \A j \in Jobs : td[j].runstate = "CREATED" /\ td[j].pc = "none" =>
                                 td'[j].runstate = "CREATED" /\ td'[j].pc = "none"
        PROVE  CoreInv'
    <3>1. core.map \subseteq Jobs
      BY <2>0 DEF CoreType
    <3> QED
      BY <2>j, <3>1 DEF CoreInv
  <2>s. ASSUME core' = core, SameRunStates,
               \A j \in Jobs : td[j].pc = "none" => td'[j].pc = "none"
        PROVE  CoreInv'
    BY <2>j, <2>s, SameRunStatesSameSets DEF SameRunStates
  <2>1. CASE UNCHANGED vars
    BY <2>1, <2>s DEF vars, SameRunStates
  <2>2. CASE Setup
    <3>1. PICK failed \in SUBSET Jobs :
            /\ td' = [j \in Jobs |-> IF j \in failed
                                       THEN [td[j] EXCEPT !.runstate = "REAPED"]
                                       ELSE td[j]]
            /\ core' = [core EXCEPT !.todo = NJobs - Cardinality(failed),
                                    !.pc = IF failed = Jobs THEN "drain" ELSE "pass"]
      BY <2>2 DEF Setup
    <3>2. NJobs - Cardinality(failed) \in 0..(Modulus - 1)
      BY SomeJobs
    <3>3. core.pc = "setup" /\ Fresh = Jobs
      BY <2>2 DEF Setup, CoreAt, CoreInv
    <3>4. \A j \in Jobs : td'[j].runstate \in {"NOT_CREATED", "REAPED"}
      BY <2>0, <3>1, <3>3 DEF JobType, Fresh, In
    <3>5. Starting' = {} /\ Going' = {} /\ Going = {}
      BY <3>3, <3>4 DEF Starting, Going, Fresh, In
    <3>6. /\ core'.pc \in {"drain", "pass"} /\ core'.todo \in 0..(Modulus - 1)
          /\ core'.nr_running = core.nr_running /\ core'.nr_started = core.nr_started
          /\ core'.failed = core.failed /\ core'.fio_abort = core.fio_abort
      BY <2>0, <3>1, <3>2 DEF CoreType
    <3>7. Cardinality(Starting') = 0 /\ Cardinality(Going') = 0 /\ Cardinality(Going) = 0
      BY <3>5, FS_EmptySet
    <3> QED
      BY <3>3, <3>5, <3>6, <3>7 DEF CoreInv
  <2>3. CASE PassOver
    <3>1. /\ core'.pc = core.pc /\ core'.pc = "pass" /\ core'.todo = core.todo
          /\ core'.nr_running = core.nr_running /\ core'.nr_started = core.nr_started
          /\ core'.failed = core.failed /\ core'.fio_abort = core.fio_abort
          /\ core'.map = core.map /\ td' = td
      BY <2>0, <2>3 DEF PassOver, CoreAt, CoreType
    <3>2. Starting' = Starting /\ Going' = Going
      BY <3>1 DEF Starting, Going, In
    <3> QED
      BY <3>1, <3>2 DEF CoreInv
  <2>4. CASE DropTerminated
    <3>1. /\ core'.pc = core.pc /\ core'.pc = "pass" /\ core'.todo = Less(core.todo)
          /\ core'.nr_running = core.nr_running /\ core'.nr_started = core.nr_started
          /\ core'.failed = core.failed /\ core'.fio_abort = core.fio_abort
          /\ core'.map = core.map /\ td' = td
      BY <2>0, <2>4 DEF DropTerminated, CoreAt, CoreType
    <3>2. Starting' = Starting /\ Going' = Going
      BY <3>1 DEF Starting, Going, In
    <3>3. Less(core.todo) \in 0..(Modulus - 1)
      BY <2>0, Wraps DEF CoreType, Less
    <3> QED
      BY <3>1, <3>2, <3>3 DEF CoreInv
  <2>5. CASE EndPass
    <3>1. /\ core.pc = "pass" /\ core'.pc = "initwait" /\ core'.todo = core.todo
          /\ core'.nr_running = core.nr_running /\ core'.nr_started = core.nr_started
          /\ core'.failed = core.failed /\ core'.fio_abort = core.fio_abort
          /\ core'.map = core.map /\ td' = td
      BY <2>0, <2>5 DEF EndPass, CoreAt, CoreType
    <3>2. Starting' = Starting /\ Going' = Going
      BY <3>1 DEF Starting, Going, In
    <3> QED
      BY <3>1, <3>2 DEF CoreInv
  <2>6. ASSUME NEW ok \in BOOLEAN, Create(ok) PROVE CoreInv'
    <3> DEFINE seen == ~ok /\ conf.kind = "thread"
               label == IF ok THEN "boot" ELSE "none"
    <3>1. core.i \in Jobs /\ td[core.i].runstate = "NOT_CREATED" /\ core.pc = "pass"
      BY <2>0, <2>6 DEF Create, Waits, CoreAt, CoreType, Jobs
    <3>2. /\ td'[core.i].runstate = "CREATED" /\ td'[core.i].pc = label
          /\ \A j \in Jobs \ {core.i} : td'[j] = td[j]
      BY <2>0, <2>6, <3>1 DEF Create, JobType
    <3>3. /\ Starting' = Starting \cup {core.i} /\ core.i \notin Starting
          /\ Going' = Going
      BY <3>1, <3>2 DEF Starting, Going, In
    <3>4. Cardinality(Starting') = Cardinality(Starting) + 1
      BY <2>c, <3>3, FS_AddElement
    <3>5. Cardinality(Starting') \in 0..NJobs
      <4>1. Starting' \subseteq Jobs
        BY DEF Starting, In
      <4> QED
        BY <4>1, SomeJobs
    <3>6. /\ core'.todo = core.todo /\ core'.nr_running = core.nr_running
          /\ core'.failed = core.failed /\ core'.fio_abort = core.fio_abort
          /\ core'.i = core.i /\ core'.map = core.map \cup {core.i}
          /\ core'.nr_started = IF seen THEN core.nr_started ELSE core.nr_started + 1
          /\ core'.pc = IF seen THEN "initwait" ELSE "startup"
      BY <2>0, <2>6 DEF Create, CoreType
    <3>7. CASE seen
      <4>1. core'.pc = "initwait" /\ core'.nr_started = core.nr_started
        BY <3>6, <3>7
      <4>2. td'[core.i].pc = "none"
        BY <3>2, <3>7
      <4> HIDE DEF seen, label
      <4> QED
        BY <3>1, <3>2, <3>3, <3>6, <4>1, <4>2 DEF CoreInv
    <3>8. CASE ~seen
      <4>1. core'.pc = "startup" /\ core'.nr_started = core.nr_started + 1
        BY <3>6, <3>8
      <4> HIDE DEF seen, label
      <4> QED
        BY <3>1, <3>3, <3>4, <3>5, <3>6, <4>1 DEF CoreInv
    <3> QED
      BY <3>7, <3>8
  <2>7. CASE Startup
    <3>1. /\ core.pc = "startup" /\ core'.pc = "pass" /\ core'.todo = core.todo
          /\ core'.nr_running = core.nr_running /\ core'.nr_started = core.nr_started
          /\ core'.failed = core.failed /\ core'.fio_abort = core.fio_abort
          /\ core'.map = core.map /\ td' = td
      BY <2>0, <2>7 DEF Startup, CoreAt, CoreType
    <3>2. Starting' = Starting /\ Going' = Going
      BY <3>1 DEF Starting, Going, In
    <3> QED
      BY <3>1, <3>2 DEF CoreInv
  <2>8. CASE StartupTimeout
    <3>1. /\ core.pc = "startup" /\ core'.pc = "initwait" /\ core'.todo = core.todo
          /\ core'.nr_running = core.nr_running /\ core'.nr_started = Less(core.nr_started)
          /\ core'.failed = core.failed /\ core'.fio_abort
          /\ core'.map = core.map
      <4>1. core'.fio_abort = TRUE
        BY <2>0, <2>8 DEF StartupTimeout, CoreType
      <4> QED
        BY <2>0, <2>8, <4>1 DEF StartupTimeout, CoreAt, CoreType
    <3>2. Starting' = Starting /\ Going' = Going
      BY <2>0, <2>8, TerminateAllFlags, FlagsKeepRunStates, SameRunStatesSameSets
         DEF StartupTimeout
    <3>3. core.nr_started \in 1..NJobs
      <4>1. Starting # {} /\ core.nr_started = Cardinality(Starting)
        BY <3>1 DEF CoreInv
      <4>2. Cardinality(Starting) # 0
        BY <2>c, <4>1, FS_EmptySet
      <4> QED
        BY <2>c, <4>1, <4>2
    <3>4. Less(core.nr_started) \in 0..NJobs
      <4>1. core.nr_started - 1 \in 0..(Modulus - 1)
        BY <3>3
      <4> QED
        BY <3>3, <4>1, NoWrap DEF Less
    <3> QED
      BY <3>1, <3>2, <3>4 DEF CoreInv
  <2>9. CASE Initialized
    <3>1. /\ core.pc = "initwait" /\ core'.pc = "start" /\ core'.todo = core.todo
          /\ core'.nr_running = core.nr_running /\ core'.nr_started = core.nr_started
          /\ core'.failed = core.failed /\ core'.fio_abort = core.fio_abort
          /\ core'.map = core.map /\ td' = td /\ ~core.fio_abort
      BY <2>0, <2>9 DEF Initialized, CoreAt, CoreType
    <3>2. Starting' = Starting /\ Going' = Going
      BY <3>1 DEF Starting, Going, In
    <3>3. \A j \in core.map : td[j].runstate # "CREATED"
      BY <2>9 DEF Initialized, Uninitialized
    <3>4. \A j \in Jobs : td[j].runstate # "CREATED"
      BY <3>1, <3>3 DEF CoreInv, Starting, In
    <3> QED
      BY <3>1, <3>2, <3>3, <3>4 DEF CoreInv
  <2>10. CASE FailedToStart
    <3>1. /\ core'.pc = "drain" /\ core'.todo = core.todo /\ core'.failed = TRUE
          /\ core'.nr_running = core.nr_running /\ core'.nr_started = core.nr_started
      BY <2>0, <2>10 DEF FailedToStart, CoreAt, CoreType
    <3> QED
      BY <3>1 DEF CoreInv
  <2>11. CASE Start
    <3> DEFINE S == {j \in Jobs : td[j].runstate = "INITIALIZED"}
               n == Cardinality(S)
    <3>1. /\ core.pc = "start" /\ core'.pc = "reap" /\ core'.todo = (core.todo - n) % Modulus
          /\ core'.nr_running = core.nr_running + n
          /\ core'.nr_started = core.nr_started - n
          /\ core'.failed = core.failed /\ core'.fio_abort = core.fio_abort
      <4>1. core' = [core EXCEPT !.nr_running = @ + n, !.nr_started = @ - n,
                                 !.todo = (@ - n) % Modulus, !.pc = "reap"]
        BY <2>11 DEF Start
      <4>2. core.pc = "start"
        BY <2>11 DEF Start, CoreAt
      <4> HIDE DEF n
      <4> QED
        BY <2>0, <4>1, <4>2 DEF CoreType
    <3>2. S = Starting
      BY <3>1 DEF CoreInv, Starting, In
    <3>3. \A j \in Jobs : td'[j].runstate = IF j \in S THEN "RUNNING" ELSE td[j].runstate
      BY <2>0, <2>11 DEF Start, JobType
    <3>4. Starting' = {} /\ Going' = Going \cup S /\ Going \cap S = {}
      BY <3>2, <3>3 DEF Starting, Going, In
    <3>5. Cardinality(Going') = Cardinality(Going) + n
      <4>1. Cardinality(Going \cup S) = Cardinality(Going) + Cardinality(S) - Cardinality({})
        BY <2>c, <3>2, <3>4, FS_Union
      <4>2. Cardinality({}) = 0 /\ n \in Nat /\ Cardinality(Going) \in Nat
        <5>1. Cardinality({}) = 0
          BY FS_EmptySet
        <5>2. n = Cardinality(Starting)
          BY <3>2, Zenon
        <5> HIDE DEF n
        <5> QED
          BY <2>c, <5>1, <5>2, JobsAssumption
      <4>3. Cardinality(Going \cup S) = Cardinality(Going) + n
        BY <4>1, <4>2
      <4> QED
        BY <3>4, <4>3
    <3>6. Cardinality(Going') \in 0..NJobs
      <4>1. Going' \subseteq Jobs
        BY DEF Going, In
      <4> QED
        BY <4>1, SomeJobs
    <3>7. core.nr_started = n /\ n \in 0..NJobs
      BY <2>c, <3>1, <3>2 DEF CoreInv
    <3>8. (core.todo - n) % Modulus \in 0..(Modulus - 1)
      <4> HIDE DEF n
      <4> QED
        BY <2>0, <3>7, Wraps DEF CoreType
    <3> HIDE DEF n, S
    <3>9. core'.nr_started = 0 /\ core'.nr_running = Cardinality(Going')
      BY <3>1, <3>5, <3>7 DEF CoreInv
    <3> QED
      BY <3>1, <3>4, <3>6, <3>8, <3>9 DEF CoreInv
  <2>12. CASE Reap
    <3> DEFINE reaped == [j \in Jobs |-> IF j \in Dead
                            THEN [td[j] EXCEPT !.runstate = "REAPED"] ELSE td[j]]
               left   == (core.nr_running - Cardinality(Dead)) % Modulus
    <3>1. /\ core.pc \in {"reap", "drain"} /\ core'.pc \in {"pass", "drain"}
          /\ core'.pc = "pass" => core.pc = "reap"
          /\ core'.todo = core.todo /\ core'.nr_running = left
          /\ core'.nr_started = core.nr_started /\ core'.map = {}
          /\ core'.failed = core.failed /\ core'.fio_abort = core.fio_abort
      <4>1. PICK next \in {"pass", "drain"} :
              /\ core' = [core EXCEPT !.nr_running = left, !.map = {}, !.i = 1, !.pc = next]
              /\ next = "pass" => core.pc = "reap"
        BY <2>12 DEF Reap
      <4>2. core.pc \in {"reap", "drain"}
        BY <2>12 DEF Reap, CoreAt
      <4> HIDE DEF left
      <4> QED
        BY <2>0, <4>1, <4>2 DEF CoreType
    <3>2. \A j \in Jobs : td'[j].runstate = IF j \in Dead THEN "REAPED" ELSE td[j].runstate
      <4>1. \A j \in Jobs : reaped[j] \in JobType
        BY <2>0 DEF JobType, RunStates
      <4>2. td' = TerminateAll(reaped) \/ td' = reaped
        BY <2>12 DEF Reap
      <4>3. \A j \in Jobs : td'[j].runstate = reaped[j].runstate
        <5>1. reaped \in [Jobs -> JobType]
          BY <4>1
        <5>2. Flagged(reaped, TerminateAll(reaped))
          BY <5>1, TerminateAllFlags
        <5> QED
          BY <4>2, <5>2 DEF Flagged
      <4> QED
        BY <2>0, <4>3 DEF JobType
    <3>3. Dead \subseteq Jobs /\ left \in 0..(Modulus - 1)
      BY <2>0, SomeJobs, Wraps DEF Dead, Pids, CoreType
    <3>4. CASE core.failed
      BY <2>0, <3>1, <3>3, <3>4 DEF CoreInv
    <3>5. CASE ~core.failed
      <4>1. Starting = {} /\ core.nr_running = Cardinality(Going)
        BY <3>1, <3>5 DEF CoreInv
      <4>2. Dead \subseteq Going
        BY <2>0, <4>1 DEF Dead, Pids, Ended, Going, Starting, In, JobType, Life, RunStates
      <4>3. Starting' = {} /\ Going' = Going \ Dead
        BY <3>2, <4>1, <4>2 DEF Starting, Going, In
      <4>4. /\ Cardinality(Going') = Cardinality(Going) - Cardinality(Dead)
            /\ Cardinality(Dead) \in Nat
            /\ Cardinality(Going') \in 0..NJobs
        <5>1. Going \cap Dead = Dead
          BY <4>2
        <5>2. Cardinality(Going \ Dead) = Cardinality(Going) - Cardinality(Going \cap Dead)
          BY <2>c, FS_Difference
        <5>3. Cardinality(Dead) \in Nat
          BY <3>3, SomeJobs
        <5>4. Cardinality(Going \ Dead) \in 0..NJobs
          BY SomeJobs DEF Going, In
        <5> QED
          BY <4>3, <5>1, <5>2, <5>3, <5>4
      <4>5. left = Cardinality(Going')
        <5> DEFINE g == Cardinality(Going')
        <5>1. core.nr_running - Cardinality(Dead) = g /\ g \in 0..(Modulus - 1)
          BY <4>1, <4>4
        <5> HIDE DEF g
        <5>2. left = g
          BY <5>1, NoWrap
        <5> QED
          BY <5>2 DEF g
      <4>6. Cardinality({}) = 0
        BY FS_EmptySet
      <4> HIDE DEF left
      <4> QED
        BY <3>1, <3>3, <3>5, <4>3, <4>5, <4>6 DEF CoreInv
    <3> QED
      BY <2>0, <3>4, <3>5 DEF CoreType
  <2>13. CASE Finish
    <3>1. /\ core.pc = "drain" /\ core'.pc = "done" /\ core'.todo = core.todo
          /\ core'.nr_running = core.nr_running /\ core'.nr_started = core.nr_started
          /\ core'.failed = core.failed /\ core'.fio_abort = core.fio_abort
          /\ core'.map = core.map /\ td' = td /\ core.nr_running = 0
      BY <2>0, <2>13 DEF Finish, CoreAt, CoreType
    <3>2. Starting' = Starting /\ Going' = Going
      BY <3>1 DEF Starting, Going, In
    <3> QED
      BY <3>1, <3>2 DEF CoreInv
  <2>14. CASE Signal
    BY <2>0, <2>14, <2>s, TerminateAllFlags, FlagsKeepRunStates DEF Signal
  <2>15. ASSUME NEW j \in Jobs, Boot(j) PROVE CoreInv'
    <3>1. td[j].runstate = "CREATED" /\ td[j].pc = "boot"
      BY <2>0, <2>15 DEF Boot, JobAt, JobType, Life, RunStates
    <3>2. /\ td'[j].runstate = "INITIALIZED"
          /\ \A k \in Jobs \ {j} : td'[k] = td[k]
      BY <2>0, <2>15 DEF Boot, JobType
    <3>3. Starting' = Starting /\ Going' = Going /\ Fresh' = Fresh
      BY <3>1, <3>2 DEF Starting, Going, Fresh, In
    <3> QED
      BY <2>15, <2>j, <3>1, <3>2, <3>3 DEF Boot
  <2>16. ASSUME NEW j \in Jobs, Up(j) \/ Go(j) \/ Logs(j) \/ Killed(j) PROVE CoreInv'
    <3>1. SameRunStates /\ \A k \in Jobs : td[k].pc = "none" => td'[k].pc = "none"
      BY <2>0, <2>16, JobsAssumption DEF Up, Go, Logs, Killed, JobAt, JobType, SameRunStates
    <3>2. core' = core
      BY <2>16 DEF Up, Go, Logs, Killed
    <3> QED
      BY <2>s, <3>1, <3>2
  \* A job that ends goes from TD_RUNNING to TD_EXITED.
  <2>e. ASSUME NEW j \in Jobs, NEW t \in [Jobs -> JobType], Flagged(td, t), core' = core,
               td[j].runstate = "RUNNING", td[j].pc # "none",
               td' = [t EXCEPT ![j].runstate = "EXITED", ![j].pc = "gone"]
        PROVE  CoreInv'
    <3>1. /\ td'[j].runstate = "EXITED"
          /\ \A k \in Jobs \ {j} : td'[k] = t[k]
      BY <2>e DEF JobType
    <3>2. \A k \in Jobs \ {j} : td'[k].runstate = td[k].runstate /\ td'[k].pc = td[k].pc
      BY <2>e, <3>1 DEF Flagged
    <3>3. Starting' = Starting /\ Going' = Going /\ Fresh' = Fresh
      BY <2>e, <3>1, <3>2 DEF Starting, Going, Fresh, In
    <3> QED
      BY <2>e, <2>j, <3>1, <3>2, <3>3
  <2>19. ASSUME NEW j \in Jobs, Exit(j) PROVE CoreInv'
    <3>1. PICK t \in [Jobs -> JobType] :
            Flagged(td, t) /\ td' = [t EXCEPT ![j].runstate = "EXITED", ![j].pc = "gone"]
      <4>1. Flagged(td, td)
        BY DEF Flagged
      <4> QED
        BY <2>0, <2>19, <4>1, TerminateGroupFlags DEF Exit
    <3>2. td[j].runstate = "RUNNING" /\ td[j].pc = "logs"
      BY <2>0, <2>19 DEF Exit, JobAt, JobType, Life, RunStates
    <3> QED
      BY <2>19, <2>e, <3>1, <3>2 DEF Exit
  <2>20. ASSUME NEW j \in Jobs, ExitError(j) PROVE CoreInv'
    <3>1. Flagged(td, td)
      BY DEF Flagged
    <3>2. td[j].runstate = "RUNNING" /\ td[j].pc = "work"
      BY <2>0, <2>20 DEF ExitError, JobAt, JobType, Life, RunStates
    <3> QED
      BY <2>0, <2>20, <2>e, <3>1, <3>2 DEF ExitError
  <2>22. ASSUME NEW j \in Jobs, DelayOver(j) PROVE CoreInv'
    BY <2>0, <2>22, <2>s DEF DelayOver, JobType, SameRunStates
  <2> QED
    BY <2>1, <2>2, <2>3, <2>4, <2>5, <2>6, <2>7, <2>8, <2>9, <2>10, <2>11, <2>12,
       <2>13, <2>14, <2>15, <2>16, <2>19, <2>20, <2>22 DEF Next, Core, Job
<1> QED
  BY <1>1, <1>2, ShapeInvariance, PTL DEF Spec
-----------------------------------------------------------------------------
\* The groups are numbered along the jobs, so that the last one is at the end.
LEMMA LastGroup ==
    ASSUME NEW j \in Jobs, NEW k \in Jobs, j < k, Group(j) = groupid
    PROVE  Group(k) = groupid
<1> DEFINE W(n) == {i \in 2..n : i \in conf.stonewall}
<1>1. W(j) \subseteq W(k) /\ W(k) \subseteq W(NJobs)
  BY JobsAssumption DEF Jobs
<1>2. W(NJobs) \subseteq Jobs
  BY JobsAssumption DEF Jobs
<1>3. W(k) \subseteq Jobs
  BY <1>1, <1>2
<1>4. /\ IsFiniteSet(W(k)) /\ IsFiniteSet(W(NJobs))
      /\ Cardinality(W(k)) \in Nat /\ Cardinality(W(NJobs)) \in Nat
  BY <1>2, <1>3, SomeJobs
<1>5. Cardinality(W(j)) <= Cardinality(W(k)) /\ Cardinality(W(j)) \in Nat
  BY <1>1, <1>4, FS_Subset, FS_CardinalityType
<1>6. Cardinality(W(k)) <= Cardinality(W(NJobs))
  BY <1>1, <1>4, FS_Subset
<1>7. Cardinality(W(j)) = Cardinality(W(NJobs))
  BY DEF Group, groupid
<1>8. Cardinality(W(k)) = Cardinality(W(NJobs))
  <2> DEFINE a == Cardinality(W(j))  b == Cardinality(W(k))  c == Cardinality(W(NJobs))
  <2> HIDE DEF a, b, c
  <2>1. a <= b /\ b <= c /\ a = c /\ a \in Nat /\ b \in Nat /\ c \in Nat
    BY <1>4, <1>5, <1>6, <1>7 DEF a, b, c
  <2>2. b = c
    BY <2>1
  <2> QED
    BY <2>2 DEF b, c
<1> QED
  BY <1>8 DEF Group, groupid

\* Whom a pass left behind, and why.
LEMMA PassInvariance == Spec => []PassInv
<1> USE JobsAssumption
<1>1. Init => PassInv
  <2> SUFFICES ASSUME Init PROVE PassInv
    OBVIOUS
  <2>1. core.pc = "setup" /\ \A j \in Jobs : td[j].terminate = FALSE
    BY DEF Init
  <2>2. \A j \in Fresh : ~td[j].terminate
    BY <2>1 DEF Fresh, In
  <2> QED
    BY <2>1, <2>2 DEF PassInv
<1>2. Shape /\ CoreInv /\ PassInv /\ [Next]_vars => PassInv'
  <2> SUFFICES ASSUME Shape, CoreInv, PassInv, [Next]_vars PROVE PassInv'
    OBVIOUS
  <2>0. /\ td \in [Jobs -> JobType] /\ core \in CoreType
        /\ \A j \in Jobs : td[j] \in JobType /\ Life(td[j])
        /\ Fresh \subseteq Jobs
    BY DEF Shape, Fresh, In
  \* A step that neither sets a flag nor goes on with the pass.
  <2>p. ASSUME conf' = conf, Fresh' \subseteq Fresh,
               \A j \in Fresh' : td'[j].terminate = td[j].terminate,
               core'.pc \in {"pass", "startup"} =>
                 core.pc \in {"pass", "startup"} /\ core'.i = core.i
        PROVE  PassInv'
    BY <2>p DEF PassInv
  \* A step that sets every flag.
  <2>a. ASSUME Fresh' \subseteq Jobs, \A j \in Jobs : td'[j].terminate
        PROVE  PassInv'
    BY <2>a DEF PassInv
  \* A step of the core in the pass, which leaves job core.i.
  <2>i. ASSUME conf' = conf, Fresh' \subseteq Fresh, td' = td, core.pc \in {"pass", "startup"},
               core'.i = core.i + 1,
               core.i \in Fresh => td[core.i].terminate \/ core.i \in conf.delayed
        PROVE  PassInv'
    <3>1. \A k \in Fresh : k < core.i + 1 => k < core.i \/ k = core.i
      BY <2>0 DEF CoreType, Jobs
    <3> QED
      BY <2>i, <3>1 DEF PassInv
  <2>1. CASE UNCHANGED vars
    BY <2>1, <2>p DEF vars, Fresh, In
  <2>2. CASE Setup
    <3>1. PICK failed \in SUBSET Jobs :
            /\ td' = [j \in Jobs |-> IF j \in failed
                                       THEN [td[j] EXCEPT !.runstate = "REAPED"]
                                       ELSE td[j]]
            /\ core' = [core EXCEPT !.todo = NJobs - Cardinality(failed),
                                    !.pc = IF failed = Jobs THEN "drain" ELSE "pass"]
      BY <2>2 DEF Setup
    <3>2. core.i = 1
      BY <2>2 DEF Setup, CoreAt, CoreInv
    <3>3. core'.i = 1
      BY <2>0, <3>1, <3>2 DEF CoreType
    <3>4. \A j \in Jobs : /\ td'[j].terminate = td[j].terminate
                          /\ td'[j].runstate \in {"REAPED", td[j].runstate}
      BY <2>0, <3>1 DEF JobType
    <3>5. Fresh' \subseteq Fresh
      BY <3>4 DEF Fresh, In
    <3>6. \A k \in Fresh' : ~(k < core'.i)
      BY <2>0, <3>3, <3>5 DEF Jobs
    <3> QED
      BY <2>0, <3>4, <3>5, <3>6 DEF PassInv
  <2>3. CASE PassOver
    <3>1. core.i \in Jobs /\ core.pc = "pass" /\ core'.i = core.i + 1
      BY <2>0, <2>3 DEF PassOver, CoreAt, CoreType, Jobs
    <3>2. core.i \in Fresh => core.i \in conf.delayed
      BY <2>3, <3>1 DEF PassOver, Shape, Fresh, In
    <3> QED
      BY <2>3, <2>i, <3>1, <3>2 DEF PassOver, Fresh, In
  <2>4. CASE DropTerminated
    <3>1. core.pc = "pass" /\ core'.i = core.i + 1 /\ td[core.i].terminate
      BY <2>0, <2>4 DEF DropTerminated, CoreAt, CoreType
    <3> QED
      BY <2>4, <2>i, <3>1 DEF DropTerminated, Fresh, In
  <2>5. CASE EndPass \/ Initialized \/ Finish
    <3>1. core'.pc \notin {"pass", "startup"}
      BY <2>0, <2>5 DEF EndPass, Initialized, Finish, CoreType
    <3> QED
      BY <2>5, <2>p, <3>1 DEF EndPass, Initialized, Finish, Fresh, In
  <2>6. ASSUME NEW ok \in BOOLEAN, Create(ok) PROVE PassInv'
    <3>1. PICK label \in {"boot", "none"} :
            td' = [td EXCEPT ![core.i].runstate = "CREATED", ![core.i].pc = label]
      BY <2>6 DEF Create
    <3>2. core.i \in Jobs /\ core.pc = "pass" /\ core'.i = core.i
      BY <2>0, <2>6 DEF Create, CoreAt, CoreType, Jobs
    <3>3. /\ \A j \in Jobs : td'[j].terminate = td[j].terminate
          /\ \A j \in Jobs : td'[j].runstate \in {"CREATED", td[j].runstate}
      BY <2>0, <3>1, <3>2 DEF JobType
    <3>4. Fresh' \subseteq Fresh
      BY <3>3 DEF Fresh, In
    <3> QED
      BY <2>0, <2>6, <2>p, <3>2, <3>3, <3>4 DEF Create
  <2>7. CASE Startup
    <3>1. core.pc = "startup" /\ core.i \in Starting /\ core'.i = core.i + 1
      BY <2>0, <2>7 DEF Startup, CoreAt, CoreInv, CoreType
    <3>2. core.i \notin Fresh
      BY <3>1 DEF Starting, Fresh, In
    <3> QED
      BY <2>7, <2>i, <3>1, <3>2 DEF Startup, Fresh, In
  <2>8. CASE StartupTimeout \/ FailedToStart \/ Signal
    <3>1. \A j \in Jobs : td'[j].terminate
      BY <2>0, <2>8, TerminateAllFlags DEF StartupTimeout, FailedToStart, Signal
    <3> QED
      BY <2>a, <3>1 DEF Fresh, In
  <2>11. CASE Start
    <3>1. \A j \in Jobs : \/ td'[j] = td[j]
                          \/ td'[j] = [td[j] EXCEPT !.runstate = "RUNNING", !.mutex = 1]
      BY <2>11 DEF Start
    <3>2. \A j \in Jobs : /\ td'[j].terminate = td[j].terminate
                          /\ td'[j].runstate \in {"RUNNING", td[j].runstate}
      <4> TAKE j \in Jobs
      <4>1. td[j] \in JobType
        BY <2>0
      <4>2. CASE td'[j] = td[j]
        BY <4>2
      <4>3. CASE td'[j] = [td[j] EXCEPT !.runstate = "RUNNING", !.mutex = 1]
        BY <4>1, <4>3 DEF JobType
      <4> QED
        BY <3>1, <4>2, <4>3
    <3>3. Fresh' \subseteq Fresh /\ core'.pc = "reap"
      BY <2>0, <2>11, <3>2 DEF Start, CoreType, Fresh, In
    <3> QED
      BY <2>0, <2>11, <2>p, <3>2, <3>3 DEF Start
  <2>12. CASE Reap
    <3> DEFINE reaped == [j \in Jobs |-> IF j \in Dead
                            THEN [td[j] EXCEPT !.runstate = "REAPED"] ELSE td[j]]
    <3>1. reaped \in [Jobs -> JobType]
      BY <2>0 DEF JobType, RunStates
    <3>2. td' = TerminateAll(reaped) \/ td' = reaped
      BY <2>12 DEF Reap
    <3>3. /\ Flagged(reaped, TerminateAll(reaped))
          /\ \A j \in Jobs : TerminateAll(reaped)[j].terminate
      BY <3>1, TerminateAllFlags
    <3>4. core'.i = 1
      BY <2>0, <2>12 DEF Reap, CoreType
    <3>5. \A k \in Fresh' : ~(k < core'.i)
      BY <3>4 DEF Fresh, In, Jobs
    <3>6. CASE td' = TerminateAll(reaped)
      BY <2>a, <3>3, <3>6 DEF Fresh, In
    <3>7. CASE td' = reaped
      <4>1. \A j \in Jobs : /\ td'[j].terminate = td[j].terminate
                            /\ td'[j].runstate \in {"REAPED", td[j].runstate}
        BY <2>0, <3>7 DEF JobType
      <4>2. Fresh' \subseteq Fresh
        BY <4>1 DEF Fresh, In
      <4> QED
        BY <2>0, <3>5, <4>1, <4>2 DEF PassInv
    <3> QED
      BY <3>2, <3>6, <3>7
  <2>15. ASSUME NEW j \in Jobs,
                Boot(j) \/ Up(j) \/ Go(j) \/ Logs(j) \/ ExitError(j) \/ Killed(j) \/ DelayOver(j)
         PROVE  PassInv'
    <3>1. /\ \A k \in Jobs : td'[k].terminate = td[k].terminate
          /\ \A k \in Jobs : td'[k].runstate \in {"INITIALIZED", "EXITED", td[k].runstate}
      BY <2>0, <2>15 DEF Boot, Up, Go, Logs, ExitError, Killed, DelayOver, JobType
    <3>2. Fresh' \subseteq Fresh
      BY <3>1 DEF Fresh, In
    <3>3. conf' = conf /\ core' = core
      BY <2>15 DEF Boot, Up, Go, Logs, ExitError, Killed, DelayOver
    <3> QED
      BY <2>0, <2>p, <3>1, <3>2, <3>3
  <2>19. ASSUME NEW j \in Jobs, Exit(j) PROVE PassInv'
    <3>1. PICK t \in {td, TerminateGroup} :
            td' = [t EXCEPT ![j].runstate = "EXITED", ![j].pc = "gone"]
      BY <2>19 DEF Exit
    <3>2. t \in [Jobs -> JobType] /\ Flagged(td, t)
      <4>1. Flagged(td, td)
        BY DEF Flagged
      <4> QED
        BY <2>0, <4>1, TerminateGroupFlags
    <3>3. /\ \A k \in Jobs : td'[k].terminate = t[k].terminate
          /\ \A k \in Jobs : td'[k].runstate \in {"EXITED", td[k].runstate}
      BY <3>1, <3>2 DEF Flagged, JobType
    <3>4. Fresh' \subseteq Fresh
      BY <3>3 DEF Fresh, In
    <3>5. \A k \in Fresh : td[k].terminate => t[k].terminate
      BY <2>0, <3>2 DEF Flagged
    <3>6. \A i, k \in Fresh : i < k /\ t[i].terminate => t[k].terminate
      <4> SUFFICES ASSUME NEW i \in Fresh, NEW k \in Fresh, i < k, t[i].terminate
                   PROVE  t[k].terminate
        OBVIOUS
      <4>1. CASE td[i].terminate
        BY <3>5, <4>1 DEF PassInv
      <4>2. CASE ~td[i].terminate
        <5>1. t = TerminateGroup
          BY <4>2
        <5>2. CASE \A h \in Jobs : TerminateGroup[h].terminate
          BY <2>0, <5>1, <5>2
        <5>3. CASE \A h \in Jobs : IF Group(h) = groupid
                                     THEN TerminateGroup[h].terminate
                                     ELSE TerminateGroup[h] = td[h]
          <6>1. Group(i) = groupid
            BY <2>0, <4>2, <5>1, <5>3
          <6>2. Group(k) = groupid
            BY <2>0, <6>1, LastGroup
          <6> QED
            BY <2>0, <5>1, <5>3, <6>2
        <5> QED
          BY <2>0, <5>2, <5>3, TerminateGroupFlags
      <4> QED
        BY <4>1, <4>2
    <3>7. conf' = conf /\ core' = core
      BY <2>19 DEF Exit
    <3> QED
      BY <2>0, <3>3, <3>4, <3>5, <3>6, <3>7 DEF PassInv
  <2> QED
    BY <2>1, <2>2, <2>3, <2>4, <2>5, <2>6, <2>7, <2>8, <2>11, <2>12, <2>15, <2>19
       DEF Next, Core, Job
<1> QED
  BY <1>1, <1>2, ShapeInvariance, CoreInvariance, PTL DEF Spec

\* For every number of jobs and every job file: when run_threads creates a
\* stonewalled job no job is alive, and every job before it in the file was reaped
\* or is one with a start_delay that the pass went past, whoever was killed and
\* whatever was terminated (backend.c:1814-1825).
THEOREM StonewallHolds == Spec => StonewallWaits
<1> USE JobsAssumption
<1>1. ASSUME Shape, CoreInv, PassInv, [Next]_vars, NEW j \in conf.stonewall,
             td[j].runstate = "NOT_CREATED", td'[j].runstate = "CREATED",
             NEW k \in Jobs
      PROVE  ~Live(k) /\ (k < j => td[k].runstate = "REAPED" \/ k \in conf.delayed)
  <2>0. /\ td \in [Jobs -> JobType] /\ core \in CoreType /\ j \in Jobs
        /\ \A i \in Jobs : td[i] \in JobType /\ Life(td[i])
        /\ td[j].pc = "none"
    BY <1>1 DEF Shape, ConfType, Life
  <2>f. ~Flagged(td, td')
    BY <1>1, <2>0 DEF Flagged
  \* Nobody else makes a job TD_CREATED.
  <2>1. PICK ok \in BOOLEAN : Create(ok)
    <3>1. ~UNCHANGED td
      BY <1>1
    <3>2. ~Setup
      <4> SUFFICES ASSUME Setup PROVE FALSE
        OBVIOUS
      <4>1. td'[j] = [td[j] EXCEPT !.runstate = "REAPED"] \/ td'[j] = td[j]
        BY <2>0 DEF Setup
      <4> QED
        BY <1>1, <2>0, <4>1 DEF JobType
    <3>3. ~(PassOver \/ DropTerminated \/ EndPass \/ Startup \/ Initialized \/ Finish)
      BY <3>1 DEF PassOver, DropTerminated, EndPass, Startup, Initialized, Finish
    <3>4. ~(StartupTimeout \/ FailedToStart \/ Signal)
      BY <2>0, <2>f, TerminateAllFlags DEF StartupTimeout, FailedToStart, Signal
    <3>5. ~Start
      BY <1>1, <2>0 DEF Start, JobType
    <3>6. ~Reap
      <4> DEFINE reaped == [i \in Jobs |-> IF i \in Dead
                              THEN [td[i] EXCEPT !.runstate = "REAPED"] ELSE td[i]]
      <4> SUFFICES ASSUME Reap PROVE FALSE
        OBVIOUS
      <4>1. reaped \in [Jobs -> JobType]
        BY <2>0 DEF JobType, RunStates
      <4>2. td' = TerminateAll(reaped) \/ td' = reaped
        BY DEF Reap
      <4>3. Flagged(reaped, TerminateAll(reaped))
        BY <4>1, TerminateAllFlags
      <4>4. td'[j].runstate = reaped[j].runstate
        BY <2>0, <4>2, <4>3 DEF Flagged
      <4> QED
        BY <1>1, <2>0, <4>4 DEF JobType
    <3>7. ASSUME NEW i \in Jobs
          PROVE  ~(Boot(i) \/ Up(i) \/ Go(i) \/ Logs(i) \/ ExitError(i) \/ Killed(i) \/ DelayOver(i))
      BY <1>1, <2>0 DEF Boot, Up, Go, Logs, ExitError, Killed, DelayOver, JobAt, JobType
    <3>8. ASSUME NEW i \in Jobs PROVE ~Exit(i)
      <4> SUFFICES ASSUME Exit(i) PROVE FALSE
        OBVIOUS
      <4>1. PICK t \in [Jobs -> JobType] :
              Flagged(td, t) /\ td' = [t EXCEPT ![i].runstate = "EXITED", ![i].pc = "gone"]
        <5>1. Flagged(td, td)
          BY DEF Flagged
        <5> QED
          BY <2>0, <5>1, TerminateGroupFlags DEF Exit
      <4>2. i # j
        BY <2>0 DEF Exit, JobAt
      <4>3. td'[j].runstate = t[j].runstate
        BY <2>0, <4>1, <4>2
      <4> QED
        BY <1>1, <2>0, <4>1, <4>3 DEF Flagged
    <3> QED
      BY <1>1, <3>1, <3>2, <3>3, <3>4, <3>5, <3>6, <3>7, <3>8 DEF Next, Core, Job, vars
  <2>2. core.pc = "pass" /\ core.i = j /\ ~BehindWall(j) /\ ~td[j].terminate
    BY <1>1, <2>0, <2>1 DEF Create, CoreAt, Waits
  <2>3. Starting = {} /\ Going = {}
    <3>1. core.nr_started = Cardinality(Starting) /\ core.nr_running = Cardinality(Going)
      BY <1>1, <2>2 DEF CoreInv
    <3>2. core.nr_started = 0 /\ core.nr_running = 0
      BY <1>1, <2>2 DEF BehindWall, CoreInv
    <3>3. IsFiniteSet(Starting) /\ IsFiniteSet(Going)
      BY SomeJobs DEF Starting, Going, In
    <3> QED
      BY <3>1, <3>2, <3>3, FS_EmptySet
  <2>4. td[k].runstate \in {"NOT_CREATED", "REAPED"}
    BY <2>0, <2>3 DEF Starting, Going, In, JobType, RunStates
  <2>5. ~Live(k)
    BY <2>0, <2>4 DEF Live, Ended, Life
  <2>6. ASSUME k < j, td[k].runstate = "NOT_CREATED" PROVE k \in conf.delayed
    <3>1. k \in Fresh /\ j \in Fresh
      BY <1>1, <2>0, <2>6 DEF Fresh, In
    <3>2. ~td[k].terminate
      BY <1>1, <2>2, <2>6, <3>1 DEF PassInv
    <3> QED
      BY <1>1, <2>2, <2>6, <3>1, <3>2 DEF PassInv
  <2> QED
    BY <2>4, <2>5, <2>6
<1>2. Shape /\ CoreInv /\ PassInv /\ [Next]_vars =>
        [\A j \in conf.stonewall :
           td[j].runstate = "NOT_CREATED" /\ td'[j].runstate = "CREATED" =>
               \A k \in Jobs :
                   /\ ~Live(k)
                   /\ k < j => td[k].runstate = "REAPED" \/ k \in conf.delayed]_vars
  BY <1>1
<1> QED
  BY <1>2, ShapeInvariance, CoreInvariance, PassInvariance, PTL DEF Spec, StonewallWaits
-----------------------------------------------------------------------------
\* startup_mutex never counts more than the jobs that raised it.
LEMMA SemInvariance == Spec => []SemInv
<1> USE JobsAssumption
<1>1. Init => SemInv
  <2> SUFFICES ASSUME Init PROVE SemInv
    OBVIOUS
  <2>1. sem.startup = 0 /\ Raised \subseteq Jobs
    BY DEF Init, Raised
  <2> QED
    BY <2>1, SomeJobs DEF SemInv
<1>2. Shape /\ SemInv /\ [Next]_vars => SemInv'
  <2> SUFFICES ASSUME Shape, SemInv, [Next]_vars PROVE SemInv'
    OBVIOUS
  <2>0. /\ td \in [Jobs -> JobType] /\ sem \in SemType
        /\ \A j \in Jobs : td[j] \in JobType /\ Life(td[j])
    BY DEF Shape
  <2>c. /\ IsFiniteSet(Raised) /\ Cardinality(Raised) \in 0..NJobs
        /\ IsFiniteSet(Raised') /\ Cardinality(Raised') \in 0..NJobs
    BY SomeJobs DEF Raised
  \* Who raised it has raised it.
  <2>g. ASSUME sem'.startup = sem.startup \/ sem'.startup = sem.startup - 1,
               Raised \subseteq Raised'
        PROVE  SemInv'
    <3>1. Cardinality(Raised) <= Cardinality(Raised')
      BY <2>c, <2>g, FS_Subset
    <3>2. sem.startup \in Nat /\ sem.startup <= Cardinality(Raised)
      BY <2>0 DEF SemType, SemInv
    <3>3. sem'.startup <= Cardinality(Raised')
      BY <2>c, <2>g, <3>1, <3>2
    <3> QED
      BY <3>3 DEF SemInv
  <2>p. ASSUME sem'.startup = sem.startup \/ sem'.startup = sem.startup - 1,
               \A j \in Jobs : td'[j].pc = td[j].pc
        PROVE  SemInv'
    BY <2>p, <2>g DEF Raised
  <2>1. CASE UNCHANGED vars
    BY <2>1, <2>p DEF vars
  <2>2. CASE Setup
    <3>1. \A j \in Jobs : td'[j] = [td[j] EXCEPT !.runstate = "REAPED"] \/ td'[j] = td[j]
      BY <2>2 DEF Setup
    <3>2. \A j \in Jobs : td'[j].pc = td[j].pc
      BY <2>0, <3>1 DEF JobType
    <3> QED
      BY <2>2, <2>p, <3>2 DEF Setup
  <2>3. CASE PassOver \/ DropTerminated \/ EndPass \/ Initialized \/ Finish
    BY <2>3, <2>p DEF PassOver, DropTerminated, EndPass, Initialized, Finish
  <2>6. ASSUME NEW ok \in BOOLEAN, Create(ok) PROVE SemInv'
    <3>1. core.i \in Jobs /\ td[core.i].pc = "none"
      BY <2>0, <2>6 DEF Create, Waits, CoreType, Shape, Jobs, Life
    <3>2. \A j \in Jobs \ {core.i} : td'[j] = td[j]
      BY <2>0, <2>6, <3>1 DEF Create
    <3>3. Raised \subseteq Raised'
      BY <3>1, <3>2 DEF Raised
    <3> QED
      BY <2>6, <2>g, <3>3 DEF Create
  <2>7. CASE Startup
    BY <2>0, <2>7, <2>p DEF Startup, SemType
  <2>8. CASE StartupTimeout \/ FailedToStart \/ Signal
    <3>1. \A j \in Jobs : td'[j].pc = td[j].pc
      BY <2>0, <2>8, TerminateAllFlags, FlagsKeepRunStates
         DEF StartupTimeout, FailedToStart, Signal
    <3>2. sem'.startup = sem.startup
      BY <2>0, <2>8 DEF StartupTimeout, FailedToStart, Signal, SemType
    <3> QED
      BY <2>p, <3>1, <3>2
  <2>11. CASE Start
    <3>1. \A j \in Jobs : \/ td'[j] = td[j]
                          \/ td'[j] = [td[j] EXCEPT !.runstate = "RUNNING", !.mutex = 1]
      BY <2>11 DEF Start
    <3>2. \A j \in Jobs : td'[j].pc = td[j].pc
      BY <2>0, <3>1 DEF JobType
    <3> QED
      BY <2>11, <2>p, <3>2 DEF Start
  <2>12. CASE Reap
    <3> DEFINE reaped == [j \in Jobs |-> IF j \in Dead
                            THEN [td[j] EXCEPT !.runstate = "REAPED"] ELSE td[j]]
    <3>1. reaped \in [Jobs -> JobType]
      BY <2>0 DEF JobType, RunStates
    <3>2. td' = TerminateAll(reaped) \/ td' = reaped
      BY <2>12 DEF Reap
    <3>3. Flagged(reaped, TerminateAll(reaped))
      BY <3>1, TerminateAllFlags
    <3>4. \A j \in Jobs : td'[j].pc = reaped[j].pc
      BY <3>2, <3>3 DEF Flagged
    <3>5. \A j \in Jobs : td'[j].pc = td[j].pc
      BY <2>0, <3>4 DEF JobType
    <3> QED
      BY <2>12, <2>p, <3>5 DEF Reap
  <2>15. ASSUME NEW j \in Jobs,
                Boot(j) \/ Go(j) \/ Logs(j) \/ ExitError(j) \/ Killed(j) \/ DelayOver(j)
         PROVE  SemInv'
    <3>1. \A k \in Jobs \ {j} : td'[k] = td[k]
      BY <2>0, <2>15 DEF Boot, Go, Logs, ExitError, Killed, DelayOver
    <3>2. j \in Raised => j \in Raised'
      BY <2>0, <2>15 DEF Boot, Go, Logs, ExitError, Killed, DelayOver, JobAt, JobType, Raised
    <3>3. Raised \subseteq Raised'
      BY <3>1, <3>2 DEF Raised
    <3>4. sem'.startup = sem.startup
      BY <2>0, <2>15 DEF Boot, Go, Logs, ExitError, Killed, DelayOver, SemType
    <3> QED
      BY <2>g, <3>3, <3>4
  <2>16. ASSUME NEW j \in Jobs, Up(j) PROVE SemInv'
    <3>1. /\ td'[j].pc = "blocked" /\ td[j].pc = "up"
          /\ \A k \in Jobs \ {j} : td'[k] = td[k]
      BY <2>0, <2>16 DEF Up, JobAt, JobType
    <3>2. Raised' = Raised \cup {j} /\ j \notin Raised
      BY <3>1 DEF Raised
    <3>3. Cardinality(Raised') = Cardinality(Raised) + 1
      BY <2>c, <3>2, FS_AddElement
    <3>4. sem'.startup = sem.startup + 1 /\ sem.startup \in Nat
      BY <2>0, <2>16 DEF Up, SemType
    <3> QED
      BY <2>c, <3>3, <3>4 DEF SemInv
  <2>19. ASSUME NEW j \in Jobs, Exit(j) PROVE SemInv'
    <3>1. PICK t \in [Jobs -> JobType] :
            Flagged(td, t) /\ td' = [t EXCEPT ![j].runstate = "EXITED", ![j].pc = "gone"]
      <4>1. Flagged(td, td)
        BY DEF Flagged
      <4> QED
        BY <2>0, <2>19, <4>1, TerminateGroupFlags DEF Exit
    <3>2. /\ \A k \in Jobs \ {j} : td'[k].pc = td[k].pc
          /\ td'[j].pc = "gone"
      BY <3>1 DEF Flagged, JobType
    <3>3. Raised \subseteq Raised'
      BY <3>2 DEF Raised
    <3>4. sem'.startup = sem.startup
      BY <2>0, <2>19 DEF Exit, SemType
    <3> QED
      BY <2>g, <3>3, <3>4
  <2> QED
    BY <2>1, <2>2, <2>3, <2>6, <2>7, <2>8, <2>11, <2>12, <2>15, <2>16, <2>19
       DEF Next, Core, Job
<1> QED
  BY <1>1, <1>2, ShapeInvariance, PTL DEF Spec
-----------------------------------------------------------------------------
\* todo is right: run_threads leaves its loop when no job is left to start.
LEMMA TodoInvariance == Spec => []TodoInv
<1> USE JobsAssumption
<1>1. Init => TodoInv
  <2> SUFFICES ASSUME Init PROVE TodoInv
    OBVIOUS
  <2>1. core.pc = "setup" /\ core.todo = NJobs
    BY DEF Init
  <2>2. \A j \in Jobs : td[j].terminate = FALSE
    BY DEF Init
  <2>3. \A j \in Fresh : ~td[j].terminate
    BY <2>2 DEF Fresh, In
  <2> QED
    BY <2>1, <2>3 DEF TodoInv, Counting
<1>2. Shape /\ CoreInv /\ TodoInv /\ [Next]_vars => TodoInv'
  <2> SUFFICES ASSUME Shape, CoreInv, TodoInv, [Next]_vars PROVE TodoInv'
    OBVIOUS
  <2>0. /\ td \in [Jobs -> JobType] /\ core \in CoreType
        /\ \A j \in Jobs : td[j] \in JobType /\ Life(td[j])
        /\ core.todo \in Nat
    BY DEF Shape, CoreInv
  <2>c. /\ Fresh \subseteq Jobs /\ Starting \subseteq Jobs /\ Dropped \subseteq Fresh
        /\ Fresh \cap Starting = {}
    BY DEF Fresh, Starting, Dropped, In
  \* A step that takes no job off Fresh, and sets no flag.
  <2>q. ASSUME core' = core, conf' = conf, cut' = cut, Fresh' = Fresh, Starting' = Starting,
               \A j \in Fresh : td'[j].terminate = td[j].terminate
        PROVE  TodoInv'
    <3>1. Dropped' = Dropped
      BY <2>q DEF Dropped
    <3> QED
      BY <2>q, <3>1 DEF TodoInv, Counting, CutDelayed
  \* A step that sets the flags of the last jobs: a pass has dropped those of them
  \* that it met, because none is delayed.
  <2>t. ASSUME core' = core, conf' = conf, cut', Fresh' = Fresh, Starting' = Starting,
               core.pc # "setup",
               \A j \in Fresh : td[j].terminate => td'[j].terminate,
               \A j, k \in Fresh : j < k /\ td'[j].terminate => td'[k].terminate
        PROVE  TodoInv'
    <3> SUFFICES ASSUME conf.delayed = {}, ~core.failed
                 PROVE  TodoInv'
      BY <2>t DEF TodoInv, CutDelayed
    <3>1. core.todo <= NJobs /\ (core.fio_abort \/ Counting)
      BY DEF TodoInv, CutDelayed
    <3>2. CASE core.fio_abort
      BY <2>t, <3>1, <3>2 DEF TodoInv
    <3>3. CASE Counting /\ core.pc \in {"drain", "done"}
      BY <2>t, <3>1, <3>3 DEF TodoInv, Counting
    <3>4. CASE Counting /\ core.pc \notin {"drain", "done"}
      <4>1. core.pc \in {"pass", "startup", "initwait", "start", "reap"}
        BY <2>0, <2>t, <3>4 DEF CoreType, CorePcs
      <4>2. \A j \in Fresh : j < core.i => td[j].terminate
        BY <3>4, <4>1 DEF Counting
      <4>3. Dropped' = Dropped
        BY <2>t, <4>2 DEF Dropped
      <4> QED
        BY <2>t, <3>1, <3>4, <4>1, <4>2, <4>3 DEF TodoInv, Counting
    <3> QED
      BY <3>1, <3>2, <3>3, <3>4
  \* In the steps of the core, todo counts.
  <2>n. ASSUME core.pc # "initwait" \/ ~core.fio_abort, ~CutDelayed, ~core.failed
        PROVE  ~core.fio_abort /\ core.todo <= NJobs /\ Counting
    BY <2>n DEF TodoInv, CoreInv
  <2>1. CASE UNCHANGED vars
    BY <2>1, <2>q DEF vars, Fresh, Starting, In
  <2>2. CASE Setup
    <3>1. PICK failed \in SUBSET Jobs :
            /\ td' = [j \in Jobs |-> IF j \in failed
                                       THEN [td[j] EXCEPT !.runstate = "REAPED"]
                                       ELSE td[j]]
            /\ core' = [core EXCEPT !.todo = NJobs - Cardinality(failed),
                                    !.pc = IF failed = Jobs THEN "drain" ELSE "pass"]
      BY <2>2 DEF Setup
    <3>2. core.pc = "setup" /\ core.i = 1 /\ Fresh = Jobs
      BY <2>2 DEF Setup, CoreAt, CoreInv
    <3>3. /\ core'.todo = NJobs - Cardinality(failed) /\ core'.i = 1
          /\ core'.pc = IF failed = Jobs THEN "drain" ELSE "pass"
          /\ core'.failed = core.failed /\ core'.fio_abort = core.fio_abort
      BY <2>0, <3>1, <3>2 DEF CoreType
    <3>4. \A j \in Jobs : /\ td'[j].runstate = IF j \in failed THEN "REAPED" ELSE "NOT_CREATED"
                          /\ td'[j].terminate = td[j].terminate
      BY <2>0, <3>1, <3>2 DEF JobType, Fresh, In
    <3>5. Fresh' = Jobs \ failed /\ Starting' = {}
      BY <3>4 DEF Fresh, Starting, In
    <3>6. Dropped' = {}
      BY <3>3, <3>5 DEF Dropped, Jobs
    <3>7. Cardinality(Jobs \ failed) = NJobs - Cardinality(failed)
      <4>1. IsFiniteSet(Jobs) /\ Cardinality(Jobs) = NJobs
        BY FS_Interval DEF Jobs
      <4>2. Cardinality(Jobs \ failed) = Cardinality(Jobs) - Cardinality(Jobs \cap failed)
        BY <4>1, FS_Difference
      <4>3. Jobs \cap failed = failed
        OBVIOUS
      <4> QED
        BY <4>1, <4>2, <4>3
    <3>8. conf' = conf /\ cut' = cut
      BY <2>2 DEF Setup
    <3>9. core'.todo \in 0..NJobs
      BY <3>3, <3>7, SomeJobs
    <3>10. (Fresh' \cup Starting') \ Dropped' = Jobs \ failed
      BY <3>5, <3>6
    <3>11. CASE CutDelayed \/ core.failed
      BY <3>3, <3>8, <3>11 DEF TodoInv, CutDelayed
    <3>12. CASE ~CutDelayed /\ ~core.failed
      <4>1. Counting
        BY <2>n, <3>2, <3>12
      <4>2. Counting'
        <5>1. core'.pc \in {"pass", "drain"} /\ (core'.pc = "drain" => Fresh' = {})
          BY <3>3, <3>5
        <5> QED
          BY <3>2, <3>3, <3>4, <3>5, <3>6, <3>7, <3>8, <3>10, <4>1, <5>1
             DEF Counting, Jobs
      <4> QED
        BY <3>9, <4>2 DEF TodoInv
    <3> QED
      BY <3>11, <3>12
  <2>3. CASE PassOver
    <3>1. /\ core.pc = "pass" /\ core'.pc = "pass" /\ core'.todo = core.todo
          /\ core'.failed = core.failed /\ core'.i = core.i + 1
          /\ td' = td /\ conf' = conf /\ cut' = cut /\ core.i \in Jobs
      BY <2>0, <2>3 DEF PassOver, CoreAt, CoreType, Jobs
    <3>2. Fresh' = Fresh /\ Starting' = Starting
      BY <3>1 DEF Fresh, Starting, In
    <3>3. core.i \in Fresh => ~td[core.i].terminate /\ conf.delayed # {}
      BY <2>3, <3>1 DEF PassOver, Fresh, In, Shape
    <3>4. Dropped' = Dropped
      BY <3>1, <3>2, <3>3 DEF Dropped, Fresh, In, Jobs
    <3>5. CASE CutDelayed \/ core.failed
      BY <3>1, <3>5 DEF TodoInv, CutDelayed
    <3>6. CASE ~CutDelayed /\ ~core.failed
      <4>1. core.todo <= NJobs /\ Counting
        BY <2>n, <3>1, <3>6
      <4>2. conf.delayed = {} => \A j \in Fresh : j < core.i + 1 => td[j].terminate
        BY <2>c, <3>1, <3>3, <4>1 DEF Counting, Jobs
      <4> QED
        BY <3>1, <3>2, <3>4, <4>1, <4>2 DEF TodoInv, Counting
    <3> QED
      BY <3>5, <3>6
  <2>4. CASE DropTerminated
    <3>1. /\ core.pc = "pass" /\ core'.pc = "pass" /\ core'.todo = Less(core.todo)
          /\ core'.failed = core.failed /\ core'.i = core.i + 1
          /\ td' = td /\ conf' = conf /\ cut' = cut /\ core.i \in Jobs
      BY <2>0, <2>4 DEF DropTerminated, CoreAt, CoreType, Jobs
    <3>2. Fresh' = Fresh /\ Starting' = Starting
      BY <3>1 DEF Fresh, Starting, In
    <3>3. core.i \in Fresh /\ td[core.i].terminate
      BY <2>4, <3>1 DEF DropTerminated, Fresh, In
    <3>4. Dropped' = Dropped \cup {core.i} /\ core.i \notin Dropped
      BY <3>1, <3>2, <3>3 DEF Dropped, Fresh, In, Jobs
    <3>5. CASE CutDelayed \/ core.failed
      BY <3>1, <3>5 DEF TodoInv, CutDelayed
    <3>6. CASE ~CutDelayed /\ ~core.failed
      <4> DEFINE P == (Fresh \cup Starting) \ Dropped
      <4>1. core.todo <= NJobs /\ Counting
        BY <2>n, <3>1, <3>6
      <4>2. conf.delayed = {} => \A j \in Fresh : j < core.i + 1 => td[j].terminate
        BY <2>c, <3>1, <3>3, <4>1 DEF Counting, Jobs
      <4>3. (Fresh' \cup Starting') \ Dropped' = P \ {core.i} /\ core.i \in P
        BY <3>2, <3>3, <3>4
      <4>4. Cardinality(P \ {core.i}) = Cardinality(P) - 1 /\ Cardinality(P) \in 1..NJobs
        <5>1. IsFiniteSet(P) /\ Cardinality(P) \in 0..NJobs
          BY <2>c, SomeJobs
        <5>2. Cardinality(P) # 0
          BY <4>3, <5>1, FS_EmptySet
        <5>3. Cardinality(P \ {core.i}) = Cardinality(P) - 1
          BY <4>3, <5>1, FS_RemoveElement
        <5> QED
          BY <5>1, <5>2, <5>3
      <4>5. core.todo = Cardinality(P)
        BY <3>1, <4>1 DEF Counting
      <4>6. Less(core.todo) = core.todo - 1 /\ core.todo \in 1..NJobs
        <5>1. core.todo \in 1..NJobs
          BY <4>4, <4>5
        <5>2. core.todo - 1 \in 0..(Modulus - 1)
          BY <5>1
        <5> QED
          BY <5>1, <5>2, NoWrap DEF Less
      <4>7. core'.todo = Cardinality((Fresh' \cup Starting') \ Dropped') /\ core'.todo <= NJobs
        <5>1. core'.todo = Cardinality(P) - 1 /\ core'.todo <= NJobs
          BY <3>1, <4>4, <4>5, <4>6
        <5> QED
          BY <4>3, <4>4, <5>1
      <4> QED
        BY <3>1, <3>2, <4>1, <4>2, <4>7 DEF TodoInv, Counting
    <3> QED
      BY <3>5, <3>6
  <2>5. CASE EndPass
    <3>1. /\ core.pc = "pass" /\ core'.pc = "initwait" /\ core'.todo = core.todo
          /\ core'.failed = core.failed /\ core'.i = core.i
          /\ td' = td /\ conf' = conf /\ cut' = cut /\ core.i \in 1..(NJobs + 1)
      BY <2>0, <2>5 DEF EndPass, CoreAt, CoreType
    <3>2. Fresh' = Fresh /\ Starting' = Starting /\ Dropped' = Dropped
      BY <3>1 DEF Fresh, Starting, Dropped, In
    <3>3. core.i = NJobs + 1 \/ (core.i \in Fresh /\ ~td[core.i].terminate)
      BY <2>5, <3>1 DEF EndPass, Waits, Fresh, In, Jobs
    <3>5. CASE CutDelayed \/ core.failed
      BY <3>1, <3>5 DEF TodoInv, CutDelayed
    <3>6. CASE ~CutDelayed /\ ~core.failed
      <4>1. core.todo <= NJobs /\ Counting
        BY <2>n, <3>1, <3>6
      <4>2. Dropped # {} => core.i = NJobs + 1
        BY <3>3, <4>1 DEF Counting, Dropped
      <4> QED
        BY <3>1, <3>2, <4>1, <4>2 DEF TodoInv, Counting
    <3> QED
      BY <3>5, <3>6
  <2>6. ASSUME NEW ok \in BOOLEAN, Create(ok) PROVE TodoInv'
    <3>1. /\ core.pc = "pass" /\ core'.pc \in {"initwait", "startup"} /\ core'.todo = core.todo
          /\ core'.failed = core.failed /\ core'.i = core.i
          /\ conf' = conf /\ cut' = cut /\ core.i \in Jobs
      BY <2>0, <2>6 DEF Create, CoreAt, CoreType, Jobs
    <3>2. td[core.i].runstate = "NOT_CREATED" /\ ~td[core.i].terminate
      BY <2>6 DEF Create, Waits
    <3>3. /\ td'[core.i].runstate = "CREATED"
          /\ \A j \in Jobs \ {core.i} : td'[j] = td[j]
      BY <2>0, <2>6, <3>1 DEF Create, JobType
    <3>4. /\ Fresh' = Fresh \ {core.i} /\ Starting' = Starting \cup {core.i}
          /\ core.i \in Fresh /\ core.i \notin Dropped
      BY <3>1, <3>2, <3>3 DEF Fresh, Starting, Dropped, In
    <3>5. \A j \in Fresh' : td'[j] = td[j]
      BY <2>c, <3>3, <3>4
    <3>6. Dropped' = Dropped
      BY <3>1, <3>4, <3>5 DEF Dropped
    <3>7. (Fresh' \cup Starting') \ Dropped' = (Fresh \cup Starting) \ Dropped
      BY <3>4, <3>6
    <3>8. CASE CutDelayed \/ core.failed
      BY <3>1, <3>8 DEF TodoInv, CutDelayed
    <3>9. CASE ~CutDelayed /\ ~core.failed
      <4>1. core.todo <= NJobs /\ Counting
        BY <2>n, <3>1, <3>9
      <4>2. Dropped = {}
        BY <3>2, <3>4, <4>1 DEF Counting, Dropped
      <4> QED
        BY <3>1, <3>4, <3>5, <3>6, <3>7, <4>1, <4>2 DEF TodoInv, Counting
    <3> QED
      BY <3>8, <3>9
  <2>7. CASE Startup
    <3>1. /\ core.pc = "startup" /\ core'.pc = "pass" /\ core'.todo = core.todo
          /\ core'.failed = core.failed /\ core'.i = core.i + 1
          /\ td' = td /\ conf' = conf /\ cut' = cut /\ core.i \in Int
      BY <2>0, <2>7 DEF Startup, CoreAt, CoreType
    <3>2. Fresh' = Fresh /\ Starting' = Starting /\ core.i \notin Fresh
      BY <2>c, <3>1 DEF Fresh, Starting, In, CoreInv
    <3>3. \A j \in Fresh : j \in Int /\ (j < core.i + 1 <=> j < core.i)
      BY <2>c, <3>1, <3>2 DEF Jobs
    <3>4. Dropped' = Dropped
      BY <3>1, <3>2, <3>3 DEF Dropped
    <3>5. CASE CutDelayed \/ core.failed
      BY <3>1, <3>5 DEF TodoInv, CutDelayed
    <3>6. CASE ~CutDelayed /\ ~core.failed
      <4>1. core.todo <= NJobs /\ Counting
        BY <2>n, <3>1, <3>6
      <4> QED
        BY <3>1, <3>2, <3>3, <3>4, <4>1 DEF TodoInv, Counting
    <3> QED
      BY <3>5, <3>6
  <2>8. CASE StartupTimeout
    <3>1. /\ core.pc = "startup" /\ core'.todo = core.todo
          /\ core'.failed = core.failed /\ conf' = conf /\ cut' = cut
      BY <2>0, <2>8 DEF StartupTimeout, CoreAt, CoreType
    <3>2. core'.fio_abort = TRUE
      BY <2>0, <2>8 DEF StartupTimeout, CoreType
    <3> QED
      BY <3>1, <3>2 DEF TodoInv, CutDelayed
  <2>9. CASE Initialized
    <3>1. /\ core.pc = "initwait" /\ core'.pc = "start" /\ core'.todo = core.todo
          /\ core'.failed = core.failed /\ core'.i = core.i /\ ~core.fio_abort
          /\ td' = td /\ conf' = conf /\ cut' = cut
      BY <2>0, <2>9 DEF Initialized, CoreAt, CoreType
    <3>2. Fresh' = Fresh /\ Starting' = Starting /\ Dropped' = Dropped
      BY <3>1 DEF Fresh, Starting, Dropped, In
    <3>5. CASE CutDelayed \/ core.failed
      BY <3>1, <3>5 DEF TodoInv, CutDelayed
    <3>6. CASE ~CutDelayed /\ ~core.failed
      <4>1. core.todo <= NJobs /\ Counting
        BY <2>n, <3>1, <3>6
      <4> QED
        BY <3>1, <3>2, <4>1 DEF TodoInv, Counting
    <3> QED
      BY <3>5, <3>6
  <2>10. CASE FailedToStart
    <3>1. core'.failed = TRUE
      BY <2>0, <2>10 DEF FailedToStart, CoreType
    <3> QED
      BY <3>1 DEF TodoInv
  <2>11. CASE Start
    <3> DEFINE S == {j \in Jobs : td[j].runstate = "INITIALIZED"}
               n == Cardinality(S)
    <3>1. /\ core.pc = "start" /\ core'.pc = "reap" /\ core'.todo = (core.todo - n) % Modulus
          /\ core'.failed = core.failed /\ core'.i = core.i /\ conf' = conf /\ cut' = cut
      <4>1. core' = [core EXCEPT !.nr_running = @ + n, !.nr_started = @ - n,
                                 !.todo = (@ - n) % Modulus, !.pc = "reap"]
        BY <2>11 DEF Start
      <4>2. core.pc = "start" /\ conf' = conf /\ cut' = cut
        BY <2>11 DEF Start, CoreAt
      <4> HIDE DEF n
      <4> QED
        BY <2>0, <4>1, <4>2 DEF CoreType
    <3>2. S = Starting
      BY <3>1 DEF CoreInv, Starting, In
    <3>3. \A j \in Jobs : /\ td'[j].runstate = IF j \in S THEN "RUNNING" ELSE td[j].runstate
                          /\ td'[j].terminate = td[j].terminate
      BY <2>0, <2>11 DEF Start, JobType
    <3>4. Fresh' = Fresh
      BY <3>2, <3>3 DEF Starting, Fresh, In
    <3>5. Dropped' = Dropped
      BY <2>c, <3>1, <3>3, <3>4 DEF Dropped
    <3>6. CASE CutDelayed \/ core.failed
      BY <3>1, <3>6 DEF TodoInv, CutDelayed
    <3>7. CASE ~CutDelayed /\ ~core.failed
      <4> DEFINE F == Fresh \ Dropped
      <4>1. core.todo <= NJobs /\ Counting
        BY <2>n, <3>1, <3>7
      <4>2. (Fresh \cup Starting) \ Dropped = F \cup S /\ F \cap S = {}
        BY <2>c, <3>2
      <4>3. Cardinality(F \cup S) = Cardinality(F) + n /\ Cardinality(F) \in 0..NJobs
        <5>1. /\ IsFiniteSet(F) /\ Cardinality(F) \in 0..NJobs
              /\ IsFiniteSet(S) /\ n \in 0..NJobs
          BY <2>c, <3>2, SomeJobs
        <5>2. Cardinality(F \cup S) = Cardinality(F) + Cardinality(S) - Cardinality({})
          BY <4>2, <5>1, FS_Union
        <5> QED
          BY <5>1, <5>2, FS_EmptySet
      <4>4. core.todo - n = Cardinality(F)
        <5>1. n \in 0..NJobs
          BY <3>2, <2>c, SomeJobs
        <5>2. core.todo = Cardinality(F) + n
          BY <3>1, <4>1, <4>2, <4>3 DEF Counting
        <5> QED
          BY <4>3, <5>1, <5>2
      <4>5. core'.todo = Cardinality(F)
        <5> DEFINE f == Cardinality(F)
        <5>1. core.todo - n = f /\ f \in 0..(Modulus - 1)
          BY <4>3, <4>4
        <5>2. core'.todo = f % Modulus
          BY <3>1, <5>1
        <5> HIDE DEF f
        <5>3. core'.todo = f
          BY <5>1, <5>2, NoWrap
        <5> QED
          BY <5>3 DEF f
      <4>6. \A j \in Fresh : td'[j].terminate = td[j].terminate
        BY <2>c, <3>3
      <4>7. F = Fresh' \ Dropped'
        BY <3>4, <3>5
      <4> HIDE DEF F, S, n
      <4> QED
        BY <3>1, <3>4, <3>5, <4>1, <4>3, <4>5, <4>6, <4>7 DEF TodoInv, Counting
    <3> QED
      BY <3>6, <3>7
  <2>12. CASE Reap
    <3> DEFINE reaped == [j \in Jobs |-> IF j \in Dead
                            THEN [td[j] EXCEPT !.runstate = "REAPED"] ELSE td[j]]
               left    == (core.nr_running - Cardinality(Dead)) % Modulus
               pending == {j \in Jobs : \/ j \notin Pids
                                        \/ /\ conf.kind = "process"
                                           /\ reaped[j].runstate # "REAPED"}
    <3>1. /\ core.pc \in {"reap", "drain"} /\ core'.todo = core.todo /\ core'.i = 1
          /\ core'.pc = IF core.pc = "reap" /\ core.todo > 0 THEN "pass" ELSE "drain"
          /\ core'.failed = core.failed /\ conf' = conf /\ cut' = cut
      <4>1. core' = [core EXCEPT !.nr_running = left, !.map = {}, !.i = 1,
                        !.pc = IF core.pc = "reap" /\ core.todo > 0 THEN "pass" ELSE "drain"]
        BY <2>12 DEF Reap
      <4>2. core.pc \in {"reap", "drain"} /\ conf' = conf /\ cut' = cut
        BY <2>12 DEF Reap, CoreAt
      <4> HIDE DEF left
      <4> QED
        BY <2>0, <4>1, <4>2 DEF CoreType
    <3>2. reaped \in [Jobs -> JobType]
      BY <2>0 DEF JobType, RunStates
    <3>3. td' = reaped \/ (td' = TerminateAll(reaped) /\ pending = {})
      BY <2>12 DEF Reap
    <3>4. Flagged(reaped, td')
      <4>1. Flagged(reaped, reaped)
        BY DEF Flagged
      <4> QED
        BY <3>2, <3>3, <4>1, TerminateAllFlags
    <3>5. \A j \in Jobs : td'[j].runstate = IF j \in Dead THEN "REAPED" ELSE td[j].runstate
      <4>1. \A j \in Jobs : td'[j].runstate = reaped[j].runstate
        BY <3>4 DEF Flagged
      <4> QED
        BY <2>0, <4>1 DEF JobType
    <3>6. \A j \in Fresh : j \notin Pids /\ j \notin Dead
      BY <2>0 DEF Fresh, In, Pids, Dead, Life
    <3>7. Fresh' = Fresh
      BY <3>5, <3>6 DEF Fresh, In
    \* reap_threads terminates the jobs only when each has a pid.
    <3>8. \A j \in Fresh : td'[j].terminate = td[j].terminate
      <4>1. CASE td' = reaped
        BY <2>0, <2>c, <3>6, <4>1
      <4>2. CASE pending = {}
        BY <2>c, <3>6, <4>2
      <4> QED
        BY <3>3, <4>1, <4>2
    <3>9. CASE CutDelayed \/ core.failed
      BY <3>1, <3>9 DEF TodoInv, CutDelayed
    <3>10. CASE ~CutDelayed /\ ~core.failed
      <4>1. core.todo <= NJobs /\ Counting
        BY <2>n, <3>1, <3>10
      <4>2. Starting = {}
        BY <3>1, <3>10 DEF CoreInv
      <4>3. Starting' = {}
        BY <3>5, <4>2 DEF Starting, In
      <4>f. \A j \in Fresh : ~(j < 1)
        BY <2>c DEF Jobs
      <4>4. Dropped' = {}
        <5>1. core'.i = 1
          BY <3>1
        <5> QED
          BY <3>7, <4>f, <5>1 DEF Dropped
      <4>5. CASE core.pc = "reap" /\ core.todo > 0
        \* No job was dropped in the pass: else all are, and todo is 0.
        <5>1. Dropped = {}
          <6> SUFFICES ASSUME Dropped # {} PROVE FALSE
            OBVIOUS
          <6>1. PICK j \in Fresh : td[j].terminate
            BY DEF Dropped
          <6>2. conf.delayed = {}
            BY <3>10, <4>1, <6>1 DEF Counting, CutDelayed
          <6>3. core.i = NJobs + 1
            BY <4>1, <4>5 DEF Counting
          <6>4. Fresh \ Dropped = {}
            BY <2>c, <4>1, <4>5, <6>2, <6>3 DEF Counting, Dropped, Jobs
          <6>5. core.todo = 0
            BY <4>1, <4>5, <6>4, FS_EmptySet DEF Counting
          <6> QED
            BY <4>5, <6>5
        <5>2. core'.todo = Cardinality((Fresh' \cup Starting') \ Dropped')
          <6>1. (Fresh' \cup Starting') \ Dropped' = Fresh \ Dropped
            BY <3>7, <4>3, <4>4, <5>1
          <6> QED
            BY <3>1, <4>1, <4>5, <6>1 DEF Counting
        <5>3. \A j \in Fresh : ~(j < core'.i)
          <6>1. core'.i = 1
            BY <3>1
          <6> QED
            BY <4>f, <6>1
        <5>4. core'.pc = "pass"
          BY <3>1, <4>5
        <5> QED
          BY <3>1, <3>7, <3>8, <4>1, <5>2, <5>3, <5>4 DEF TodoInv, Counting
      <4>6. CASE core.pc = "drain" \/ core.todo = 0
        <5>1. \A j \in Fresh : td[j].terminate
          <6>1. CASE core.pc = "drain"
            BY <4>1, <6>1 DEF Counting
          <6>2. CASE core.pc = "reap" /\ core.todo = 0
            <7>1. IsFiniteSet(Fresh \ Dropped)
              BY <2>c, SomeJobs
            <7>2. Cardinality(Fresh \ Dropped) = 0
              BY <4>1, <6>2 DEF Counting
            <7>3. Fresh \ Dropped = {}
              BY <7>1, <7>2, FS_EmptySet
            <7> QED
              BY <7>3 DEF Dropped
          <6> QED
            BY <3>1, <4>6, <6>1, <6>2
        <5>2. core'.pc = "drain"
          BY <3>1, <4>6
        <5> QED
          BY <3>1, <3>7, <3>8, <4>1, <5>1, <5>2 DEF TodoInv, Counting
      <4> QED
        BY <2>0, <3>1, <4>5, <4>6
    <3> QED
      BY <3>9, <3>10
  <2>13. CASE Finish
    <3>1. /\ core.pc = "drain" /\ core'.pc = "done" /\ core'.todo = core.todo
          /\ core'.failed = core.failed /\ core'.i = core.i
          /\ td' = td /\ conf' = conf /\ cut' = cut
      BY <2>0, <2>13 DEF Finish, CoreAt, CoreType
    <3>2. Fresh' = Fresh
      BY <3>1 DEF Fresh, In
    <3>5. CASE CutDelayed \/ core.failed
      BY <3>1, <3>5 DEF TodoInv, CutDelayed
    <3>6. CASE ~CutDelayed /\ ~core.failed
      <4>1. core.todo <= NJobs /\ Counting
        BY <2>n, <3>1, <3>6
      <4> QED
        BY <3>1, <3>2, <4>1 DEF TodoInv, Counting
    <3> QED
      BY <3>5, <3>6
  <2>14. CASE Signal
    <3>1. Flagged(td, td') /\ \A j \in Jobs : td'[j].terminate
      BY <2>0, <2>14, TerminateAllFlags DEF Signal
    <3>2. Fresh' = Fresh /\ Starting' = Starting
      BY <3>1, FlagsKeepRunStates, SameRunStatesSameSets
    <3>3. core' = core /\ conf' = conf /\ cut' /\ core.pc # "setup"
      BY <2>14 DEF Signal
    <3> QED
      BY <2>c, <2>t, <3>1, <3>2, <3>3
  <2>15. ASSUME NEW j \in Jobs, Boot(j) PROVE TodoInv'
    <3>1. td[j].runstate = "CREATED" /\ td[j].pc = "boot"
      BY <2>0, <2>15 DEF Boot, JobAt, JobType, Life, RunStates
    <3>2. /\ td'[j].runstate = "INITIALIZED"
          /\ \A k \in Jobs \ {j} : td'[k] = td[k]
      BY <2>0, <2>15 DEF Boot, JobType
    <3>3. Starting' = Starting /\ Fresh' = Fresh /\ j \notin Fresh
      BY <3>1, <3>2 DEF Starting, Fresh, In
    <3> QED
      BY <2>c, <2>15, <2>q, <3>2, <3>3 DEF Boot
  <2>16. ASSUME NEW j \in Jobs, Up(j) \/ Go(j) \/ Logs(j) \/ Killed(j) \/ DelayOver(j)
         PROVE  TodoInv'
    <3>1. SameRunStates /\ \A k \in Jobs : td'[k].terminate = td[k].terminate
      BY <2>0, <2>16 DEF Up, Go, Logs, Killed, DelayOver, JobAt, JobType, SameRunStates
    <3>2. core' = core /\ conf' = conf /\ cut' = cut
      BY <2>16 DEF Up, Go, Logs, Killed, DelayOver
    <3> QED
      BY <2>c, <2>q, <3>1, <3>2, SameRunStatesSameSets
  <2>19. ASSUME NEW j \in Jobs, Exit(j) PROVE TodoInv'
    <3> DEFINE t == IF conf.exitall THEN TerminateGroup ELSE td
    <3>1. Flagged(td, td) /\ Flagged(td, TerminateGroup)
      BY <2>0, TerminateGroupFlags DEF Flagged
    <3>2. t \in [Jobs -> JobType] /\ Flagged(td, t)
      BY <2>0, <3>1, TerminateGroupFlags
    <3>3. td' = [t EXCEPT ![j].runstate = "EXITED", ![j].pc = "gone"]
      BY <2>19 DEF Exit
    <3>4. td[j].runstate = "RUNNING" /\ td[j].pc = "logs"
      BY <2>0, <2>19 DEF Exit, JobAt, JobType, Life, RunStates
    <3> HIDE DEF t
    <3>5. /\ td'[j].runstate = "EXITED"
          /\ \A k \in Jobs \ {j} : td'[k] = t[k] /\ td'[k].runstate = td[k].runstate
      BY <3>2, <3>3 DEF Flagged, JobType
    <3>6. Fresh' = Fresh /\ Starting' = Starting /\ j \notin Fresh
      BY <3>4, <3>5 DEF Fresh, Starting, In
    <3>7. \A k \in Fresh : td'[k].terminate = t[k].terminate
      BY <2>c, <3>5, <3>6
    <3>8. core' = core /\ conf' = conf /\ core.pc # "setup"
      BY <2>19, <3>4 DEF Exit, Shape
    <3>9. CASE ~conf.exitall
      <4>1. t = td /\ cut' = cut
        BY <2>19, <3>9 DEF t, Exit, Shape
      <4> QED
        BY <2>q, <3>6, <3>7, <3>8, <4>1
    <3>10. CASE conf.exitall
      <4>1. t = TerminateGroup /\ cut'
        BY <2>19, <3>10 DEF t, Exit
      <4>2. \A k \in Fresh : td[k].terminate => td'[k].terminate
        BY <2>c, <3>2, <3>7 DEF Flagged
      <4>3. CASE CutDelayed \/ core.failed \/ core.fio_abort
        BY <3>8, <4>1, <4>3 DEF TodoInv, CutDelayed
      <4>4. CASE ~CutDelayed /\ ~core.failed /\ ~core.fio_abort
        <5>1. Counting
          BY <4>4, <2>n
        <5>2. ASSUME NEW a \in Fresh, NEW b \in Fresh, a < b, t[a].terminate
              PROVE  t[b].terminate
          <6>1. CASE \A k \in Jobs : t[k].terminate
            BY <2>c, <6>1
          <6>2. CASE \A k \in Jobs : IF Group(k) = groupid THEN t[k].terminate
                                                           ELSE t[k] = td[k]
            <7>1. CASE Group(a) = groupid
              <8>1. Group(b) = groupid
                BY <2>c, <5>2, <7>1, LastGroup
              <8> QED
                BY <2>c, <6>2, <8>1
            <7>2. CASE Group(a) # groupid
              <8>1. td[a].terminate
                BY <2>c, <5>2, <6>2, <7>2
              <8>2. td[b].terminate
                BY <5>1, <5>2, <8>1 DEF Counting
              <8> QED
                BY <2>c, <3>2, <8>2 DEF Flagged
            <7> QED
              BY <7>1, <7>2
          <6> QED
            BY <2>0, <4>1, <6>1, <6>2, TerminateGroupFlags
        <5> QED
          BY <2>t, <3>6, <3>7, <3>8, <4>1, <4>2, <5>2
      <4> QED
        BY <4>3, <4>4
    <3> QED
      BY <3>9, <3>10
  <2>20. ASSUME NEW j \in Jobs, ExitError(j) PROVE TodoInv'
    <3>1. td[j].runstate = "RUNNING"
      BY <2>0, <2>20 DEF ExitError, JobAt, JobType, Life, RunStates
    <3>2. /\ td'[j].runstate = "EXITED"
          /\ \A k \in Jobs \ {j} : td'[k] = td[k]
      BY <2>0, <2>20 DEF ExitError, JobType
    <3>3. Starting' = Starting /\ Fresh' = Fresh /\ j \notin Fresh
      BY <3>1, <3>2 DEF Starting, Fresh, In
    <3> QED
      BY <2>c, <2>20, <2>q, <3>2, <3>3 DEF ExitError
  <2> QED
    BY <2>1, <2>2, <2>3, <2>4, <2>5, <2>6, <2>7, <2>8, <2>9, <2>10, <2>11, <2>12,
       <2>13, <2>14, <2>15, <2>16, <2>19, <2>20 DEF Next, Core, Job
<1> QED
  BY <1>1, <1>2, ShapeInvariance, CoreInvariance, PTL DEF Spec
-----------------------------------------------------------------------------
\* For every number of jobs and every job file: the variables keep their types,
\* startup_mutex and nr_started count no more than there are jobs, and neither
\* todo nor nr_running wraps unless a job fails to start or a run with a delayed
\* job is cut short (backend.c:1690, 1809).
THEOREM TypeCorrect == Spec => []TypeOK
<1> USE JobsAssumption
<1>1. ASSUME Shape, CoreInv, TodoInv, SemInv
      PROVE  TypeOK
  <2>1. \A j \in Jobs : td[j] \in JobType
    BY <1>1 DEF Shape
  <2>2. \A j \in Jobs :
          /\ td[j].runstate \in {"NOT_CREATED", "CREATED", "INITIALIZED",
                                 "RUNNING", "EXITED", "REAPED"}
          /\ td[j].mutex \in 0..1
          /\ td[j].pc \in {"none", "boot", "up", "blocked", "work", "logs",
                           "gone", "dead"}
    BY <2>1 DEF JobType, RunStates, JobPcs
  <2>3. /\ core.todo \in 0..(Modulus - 1) /\ core.nr_running \in 0..(Modulus - 1)
        /\ core.nr_started \in 0..NJobs
    BY <1>1 DEF CoreInv
  <2>4. ~CutDelayed /\ ~core.failed => core.todo <= NJobs /\ core.nr_running <= NJobs
    <3>1. Going \subseteq Jobs
      BY DEF Going, In
    <3> QED
      BY <1>1, <3>1, SomeJobs DEF CoreInv, TodoInv
  <2>5. sem.startup \in 0..NJobs /\ sem.writeout \in 0..1
    <3>1. Raised \subseteq Jobs
      BY DEF Raised
    <3> QED
      BY <1>1, <3>1, SomeJobs DEF SemInv, Shape, SemType
  <2> QED
    BY <2>2, <2>3, <2>4, <2>5 DEF TypeOK
<1> QED
  BY <1>1, ShapeInvariance, CoreInvariance, TodoInvariance, SemInvariance, PTL

\* For every number of jobs and every job file: when run_threads returns, every
\* job was reaped or was terminated before its start, unless a job failed to
\* start or a run with a delayed job was cut short (backend.c:1713-1951).
THEOREM AllAccountedFor == Spec => []NoJobForgotten
<1> USE JobsAssumption
<1>1. ASSUME Shape, CoreInv, TodoInv, core.pc = "done", ~core.failed, ~CutDelayed,
             NEW j \in Jobs
      PROVE  \/ td[j].runstate = "REAPED"
             \/ td[j].runstate = "NOT_CREATED" /\ td[j].terminate
  <2>1. Starting = {} /\ Going = {}
    <3>1. Starting = {} /\ Cardinality(Going) = 0
      BY <1>1 DEF CoreInv
    <3>2. IsFiniteSet(Going)
      BY SomeJobs DEF Going, In
    <3> QED
      BY <3>1, <3>2, FS_EmptySet
  <2>2. \A k \in Fresh : td[k].terminate
    BY <1>1 DEF TodoInv, Counting, CoreInv
  <2>3. td[j].runstate \in RunStates
    BY <1>1 DEF Shape, JobType
  <2> QED
    BY <2>1, <2>2, <2>3 DEF Starting, Going, Fresh, In, RunStates
<1>2. Shape /\ CoreInv /\ TodoInv => NoJobForgotten
  BY <1>1 DEF NoJobForgotten
<1> QED
  BY <1>2, ShapeInvariance, CoreInvariance, TodoInvariance, PTL
=============================================================================
