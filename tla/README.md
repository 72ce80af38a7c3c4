# TLA+ models of Linux-note

Linux-note is a collection: notes, third-party programs kept for reference, and
a few programs of its own. This directory specifies those of its own programs that
keep state and act concurrently with the rest of a Linux machine, and two
concurrent cores of the bundled fio 2.1.7; it model-checks them with TLC and
proves the central results with TLAPS.

## 1. The system

### Components, their state and how they interact

| component | state | operations | interacts with |
|---|---|---|---|
| **cpulimit, search and control loop** (`src/I_tool/cpu/cpulimit/cpulimit.c`: `waitforpid`, `getpidof`, `quit`, `main`) | global `pid`, position of the `/proc` stream, open descriptors, nice value, place in the program | find the target, probe it with SIGSTOP and SIGCONT, sample, resume, let work, stop, let rest; quit on SIGINT or SIGTERM | every process of the machine, through `kill`, `/proc/<pid>/exe` and `/proc/<pid>/stat`; other cpulimit processes, through the same targets |
| **cpulimit, estimator and slices** (same file: `compute_cpu_usage`, `getjiffies`, `timediff`, slice arithmetic of `main`) | circular buffer `ps`, `front`, `tail`, `workingtime`, `twork`, `tsleep` | reset, sample, failing sample, working slice, sleeping slice | the clock, `/proc/<pid>/stat` |
| **tunning scripts** (`start_tunning.sh`, `stop_tunning.sh`) | background jobs, lists of processes | start `while1` and `cpulimit` for each core; `killall`, then twice `ps` and `kill -9` | cpulimit, `while1` |
| **module_ex** (`src/kernel/module_ex/module_ex.c`) | `device_open_count`, `msg_ptr`, the module's usage count | open, release, read, write, insmod, rmmod | threads on any processors, which may share files |
| **kvmstat PMDA, kvm_trace** (`src/develop/csample/kvmstat/`, `src/kvm/tool/kvm_trace.c`) | a perf group per cpu, `tmp_values`, the table of shown values, `kvmstat.debug` | open the groups, fetch, refresh | perf, debugfs |
| **fio, asynchronous verification** (`verify.c`, `io_u.c`, parts of `backend.c` of `src/I_benchmark/13-fio/fio_2.1.7/fio-2.1.7/`) | free list, requeues and `verify_list` of io_u's, flags of each io_u, number of verifiers, `verify_thread_exit` | create the verifiers, get an io_u, read, hand over, verify, put back, end | the job's thread and its verifiers, through one lock and two conditions |
| **fio, job control** (`backend.c`, `libfio.c`, `mutex.c`) | per job `runstate`, `terminate`, `pid`, `mutex`; `todo`, `nr_running`, `nr_started`; `startup_mutex`, `writeout_mutex` | set up, create, start, reap; terminate one group or all | the core process and the jobs, threads or processes, through shared memory, semaphores and signals |
| iperf harness, mem_usage_setting, sysstat checks, himeno, k8s check, cgroup scripts | little or none | run external tools | external tools |
| samples, vendored programs, notes | | | |

`PROJECT.json` lists all of them with their sources.

### What is hard

* **cpulimit acts on processes it does not own.** Between any two system calls
  the target can exit, be reaped or be replaced by a process with its pid,
  another cpulimit can signal it, and SIGINT can arrive. A mistake leaves a
  process stopped for good, or stops one nobody asked for.
* **Death is inferred** from a failing `fopen` or `kill`, which may fail for
  other reasons.
* **The estimator** is a circular buffer whose index moves before the sample is
  known to succeed, feeding a quotient of differences that may be zero or
  negative.
* **stop_tunning.sh** kills limiters and loads in an order in which signals are
  held back by stopped processes and take effect late, possibly while cores are
  still being set up.
* **module_ex** tests and changes its counter and its read position without a lock,
  and nothing but its own code keeps it loaded.
* **kvmstat and kvm_trace** label the k-th value of a perf group with the k-th name
  of a table filled apart from it, and events may be missing or refused. The
  debugfs files come in any order and are told apart by prefixes of their names.
* **fio's verifiers** take over io_u's from the job while it still looks at their
  flags, and are counted, told to end and waited for partly outside the lock.
* **fio's job control** counts jobs in unsigned variables while jobs exit, are
  killed, are terminated before they start, or fail to start.

`PROJECT.json` gives these hazards line by line with the property for each.

## 2. Modules

| module | models |
|---|---|
| `ProcTable` | the process table as cpulimit sees it (external: the kernel) |
| `CpuLimit` | control flow of any number of limiters over one process table |
| `CpuLimitProofs` | theorems about `CpuLimit` |
| `CpuUsage` | estimator and slices of one limiter |
| `Tunning` | both scripts, composed with the limiters of `CpuLimit` |
| `ModuleEx` | the character device |
| `Custody` | abstract specification of what cpulimit promises to the processes of the machine; `CpuLimit` implements it |
| `KvmStat` | kvmstat and kvm_trace |
| `FioVerify` | a fio job and its verifier threads |
| `FioJobs` | fio's core process and its jobs |
| `CpuUsageProofs`, `TunningProofs`, `ModuleExProofs`, `KvmStatProofs`, `FioVerifyProofs`, `FioJobsProofs` | theorems about the module each is named after |
| `MC...` | instances for TLC: symmetry, named sets of delays, names of metrics |

### CpuLimit

One action is the code up to and including one system call. `pc[l]` names the
call that comes next:

| `pc` | code | | `pc` | code |
|---|---|---|---|---|
| `open` | `opendir` | | `sample` | `compute_cpu_usage` |
| `scan` | `readdir`, and `readlink` in `getpidof` | | `cont` | `kill(pid,SIGCONT)` |
| `probeStop` | first `kill` of the probe | | `work` | `nanosleep(&twork)` |
| `probeCont` | second `kill` | | `stop` | `kill(pid,SIGSTOP)` |
| `nap` | `sleep(2)` | | `rest` | `nanosleep(&tsleep)` |

`waitforpid` and `getpidof` are the same code but for the test of an entry, so
they share their actions and differ in `Matches`. `pid` is the global the signal
handler reads; `cand` is the local that `getpidof` hides it with. `fds` counts
the directory streams `goto done` leaves open. Limits have three classes,
because the code makes three cases of them: 0, 1 to 99, and 100. `Quit` is the
handler and may run at any moment after it was installed. The environment
starts, ends and reaps processes, some of them another user's, and with
`PidReuse` gives a pid out again.

`found` and `lost` are history: how many searches of a limiter succeeded, and which
processes an accident left stopped. `Ward(l)` is the process in the hands of a
limiter: the one it probes, or the one it controls with a limit below 100. `Sample`
and `Quit` record in `lost` the only two points at which the code lets go of a
stopped process: `fopen` of the stat file fails for a reason outside cpulimit
(`OpenMayFail`) while the ward is stopped, and a signal comes between the SIGSTOP and
the SIGCONT of `getpidof`, whose local `pid` the handler does not see. Running out of
descriptors is not a third: the sample after a search fails before anything is
stopped.

Abstracted: `exe = "matching"` is that the link `/proc/<pid>/exe` passes the comparison
of `getpidof`, which takes an equal path, and also any path that ends in the name
asked for (`-e foo` takes `/usr/bin/barfoo`); a process keeps its executable (no
`exec` after it was seen); `setpriority` succeeds (cpulimit runs as root, as its
README asks); the verbose output.

### Custody

What cpulimit promises to the processes of a machine. A keeper has at most one
process in its hands. It may take one, stop it, resume it, and let go of it when it is
not stopped; when it leaves, it may resume any others (`kill(0, ...)` and
`kill(-1, ...)` do), and a process it leaves stopped enters `lost` until somebody
resumes it. A step of the environment starts, ends or reaps one process. `CpuLimit`
maps `state` to the states of its process table, `ward` to `Ward` and `lost` to
itself. `InCustody` says more than `StoppedIsHeld`: no step of a limiter stops a
process other than the one it has taken, none stops two, and only a step that gives
the ward up resumes anybody else.

### CpuUsage

The floats are exact fractions: `estimate` keeps `used`, `dtwork` and `dt`, from
which the code derives `usage`, `workingrate` and `pcpu`. `WorkSlice` has a case
for each outcome of the comparisons in `main`, NaN, infinity and a computed -1
included, and truncates towards zero like the conversion to `long`. `history` is
auxiliary: every screenshot since the reset, the reference for the buffer.
`greedy` chooses a process that uses all the time it is given; others use any part
of it. `MEM_ORDER` and `Period` are constants so that the buffer wraps within a few
rounds. The sum of the do-while loop is a recursive function, `Sums`, so that it can
be proved about. Not modelled: rounding of floats, `pcpu_avg` (only printed) and the rows
of the verbose table.

### Tunning

Extends `CpuLimit`: the limiter's steps, its handler and exits are its own actions.
Added are the background `execute` of every core and the stages of `stop_tunning.sh`
(variable `stage`). `killall` only sends: a `while1` with SIGTERM in `pending` ends when
it runs, a cpulimit in `termed` runs its handler at any later time (`Handle`), and
`kill -9` may come before. A process with a signal to come makes no further system
call before its handler. `ps | grep | sed '$d'` drops the last line, taken for the grep
itself; it may be the line of any other process, since pids wrap and `ps` may look
before grep is there (`Listed`); `dropped` records the loads that the last `ps while1`
lost so. `early` records, for the properties, that a core was still to be set up when
the script began.

### ModuleEx

One action is one access to a shared variable: `device_open_count++`, `msg_ptr++` and
the test before each are separate steps of any number of threads, in any
interleaving. Nothing is assumed of the number of processors; `put_user` may sleep, and
other handlers run meanwhile. A file is named after the thread that opened it, and any
thread may read or release it, as threads and forked children do. The module is gone,
live, or going: between the check of its usage count and its end handlers may still be
entered, and `try_module_get` fails, unnoticed by `device_open`. When the module is
gone no handler goes on (the kernel would execute freed memory). `raced` and `unref`
are history: which of the two races of the code has happened, and which files were
opened without a reference. `MaxCount` bounds how far a lost update takes
`device_open_count` from 0.

### KvmStat

`conf` is what the programs find: which program it is, the names of
`trace_kvm.conf`, both directories in the order `readdir` gives them, and whether the
trace directory can be opened. `conf.dir` has the events only; `conf.eventfirst` says
that the first entry of all is one of them, which `seekdir` then skips from the second
scan on (`Scan`), and not `.` or `enable`. The `open` phase is `perf_event`: one action for each
name and cpu (`NotFound`, `OpenEvent` with its success or failure, `Crash` for the
two dereferences of a null stream), `NextCpu` for `seekdir` and the next round.
`group[c]` is what the kernel has in the group of the leader; an event whose
leader failed is opened as a group of its own that nobody reads. A fetch reads the
debug files one action each, then the cpus one action each, while counters go on.
`seen` is auxiliary: the counters as they were when last read, the reference for
what is shown. kvm_trace differs in what it opens (everything in the directory) and
in having no debug files.

Names are model values; that one is the beginning of another is the constant
`Extends`. A name is listed once in `trace_kvm.conf`, there are fewer than the 200
names the arrays hold, and `pmdaCacheStore` succeeds.

### FioVerify

One job with `Depth` io_u's and `NThreads` verifiers. `io_u_lock` protects the lists;
a critical section is one action that needs the lock free, apart from the wait loop
of a verifier, which is two (`VIdle`, `VSleep`), because `verify_thread_exit` and its
broadcast do not take the lock. `nr_verify_threads++` is a load and a store without
the lock, and `nr_verify_threads--` a load and a store under it (`VLeave`, `VGone`), so
that either may overwrite the other; `lost` records which update was, and `missed`
the verifiers that went to sleep after the last broadcast.
`options.phase` tells the two loops apart that read for verification: `do_io` tests for
errors after every block, `do_verify` skips that test with `continue` and finds out
that nothing is left only after it got an io_u. `fate` records an assertion that
failed or a push beyond the capacity of the free list; nothing is said of what
follows.

Abstracted: the engine is synchronous, so that the job holds one io_u at a time;
`verify_io_u` has three outcomes (good, bad checksum, bad header), since they differ
in who sets `terminate`; `continue_on_error` covers all errors or none; condition
variables have no spurious wakeups and do not fail; `cur_depth`, file references and
statistics are left out; one loop is run, not several with `loops=`.

### FioJobs

`core` is the process in `run_threads`, one action per turn of its loops; `td[j]` is the
shared `thread_data` of a job with the place of its thread. `kind` makes all jobs
threads or all processes: only the latter are found by `waitpid` and can be killed
alone (`Killed`, at any place of the job's life). `todo` and `nr_running` are unsigned and
wrap at `Modulus`. `fio_terminate_threads` is atomic; where it sends SIGTERM, the
handler in the other process terminates all jobs, and the result of both is one step.
The ten and five seconds of the start-up timeouts may pass at any time. An operation
on a semaphore is one step: nobody is killed in the middle of one.

Abstracted: the work of a job is one step, and its errors are `ExitError`; `TD_RAMP`,
`TD_RUNNING` and the phases of the work are one runstate; `create_serialize` is on
(its default); no cpuio jobs, so that `cputhreads` is 0.

## 3. Runs

Passing:

| run | checks | bounds, and why they are enough |
|---|---|---|
| `pid_safety` | `TypeOK`, `StoppedIsHeld`, `QuitResumes`, `DeathIsReal` for targets named by pid | two limiters on two pids: same target, different ones, and a bystander; every limit class, lazy or not. Each pid is used once and three descriptors never run out; `exe_safety` has the opposite, and the theorems of section 4 remove these bounds |
| `exe_safety` | `StoppedIsHeld`, `DeathIsReal` when `getpidof` searches | two limiters, one probing what the other controls, and changing targets; pids are reused; two descriptors, so that `opendir` and `fopen` do come to fail |
| `limiter_liveness` | `StopsEnd`, `FindsTarget` under `FairSpec`; the refinement `InCustody` | two limiters with limit 1 to 99 looking for one executable, on one process or on two; the target before or behind another entry of `/proc` |
| `usage_window` | `EstimateIsOfRecentPast`, `ActiveRateInRange`, `SlicesSplitPeriod`, `UsageInRange`, `GreedyGetsItsShare`, `TypeOK` | buffer of 3 and 4 rounds: it fills, wraps, and is reset in every state; limits 0, 50 and 100 of a period of two jiffies, so that readings round; a greedy process, or any use of the time given by two threads; late sleeps; a reused pid |
| `tunning_stop` | `StopEndsLoad` under `TunFairSpec`, `NoFrozenLoad` | two cores, the script run at any moment, any line of `ps` dropped |
| `device_up` | all properties of `ModuleEx` | three threads, a message of one character, reads of none and of more than the message; two threads make each race (two increments pass the terminator), the third shows what it does to others; the theorems have messages and reads of any length |
| `kvmstat_values` | `OwnCounter`, `NothingInvented`, `TypeOK` | two cpus and two events, the least with a neighbour to be confused with; every directory order and every subset of events present; three of the 34 debug names, one the beginning of another; counters up to 1, enough to tell any two apart |
| `fio_verify` | `OneOwner`, `NoneAfterCleanup`, `WaitEnds`, `ExitEnds`, `TypeOK` under `FairSpec` | two io_u's, two verifiers, four blocks: the job runs out of io_u's, both verifiers are busy, and every io_u is used again |
| `fio_jobs` | `StonewallWaits`, `NoJobForgotten`, `RunEnds`, `TypeOK` under `FairSpec` | three jobs: a job before, at and behind a stonewall; one delayed, one whose set-up fails; processes killed at every place, also while they hold `writeout_mutex` |

Violations. Each states what a comment or document of the repository says:

| run | shows |
|---|---|
| `quit_in_getpidof` | SIGINT inside `getpidof`'s probe leaves the probed process stopped: the handler reads the global `pid`, hidden by a local one |
| `kvm_debug_metric` | the metric `kvmstat.insn_emulation_fail` of the help text is never set: its file is taken for that of `insn_emulation` |
| `fio_put_twice` | an io_u that a verifier has already returned is put again by `io_u_sync_complete`, and the assertion in `__get_io_u` fails |

The models reach other behaviours of the code that contradict its comments, for
which no run is kept:

* cpulimit: with few descriptors `fopen` comes to fail after enough targets and a
  live process is declared dead (`DeathIsReal` excepts a limiter that has found as many
  targets as it has descriptors). When `opendir` fails, as it does in `exe_safety`,
  `main` enters the control loop at nice 19, because it ignores the result of
  `waitforpid`, although "here we should already have high priority"
  (`cpulimit.c:470`).
* The estimator: a share below one jiffy lets a busy process have a whole period
  (`twork = Period` in `GreedyGetsItsShare`); `ClockSteps` below 0, a clock that is set
  back, makes `twork` negative (`SlicesSplitPeriod`); a process that takes over the pid
  makes the usage negative until the last screenshot of the former one leaves the
  window (`UsageInRange`), and with `Threads = 2` it passes 1.
* module_ex: two device_opens that both pass the test open the device twice, and an
  update of `device_open_count` may then be lost (`raced` in `BusyWhenOpen` and
  `ReopensAfterClose`); two readers can move `msg_ptr` past the message
  (`ReadsStayInBuffer`); the module can be freed under a handler and under a file whose
  `try_module_get` failed (`NotUnloadedInUse` names where).
* stop_tunning.sh run during the set-up leaves behind the cores that were not set up
  yet (the premise `~early` of `StopEndsLoad`), and a `while1` may stay stopped when sed
  dropped its line both times.
* fio's verifiers: with bad blocks all of them may have left while the job waits for
  an io_u, which then never comes (the premise of `WaitEnds`); a verifier that tested
  `verify_thread_exit` just before it was set sleeps through the broadcast (`missed` in
  `ExitEnds`); a lost update of `nr_verify_threads` makes `verify_async_exit` wait for
  ever, or return while a verifier is alive (`lost` in `ExitEnds` and
  `NoneAfterCleanup`); blocks still on `verify_list` when the job ends are not verified.
* fio's job control: a job whose `start_delay` is not over is passed over, and a
  stonewalled job behind it is created before it, although it is to "Wait for preceding
  jobs in the job file to exit, before starting this one" (`HOWTO:1227`; `conf.delayed`
  in `StonewallWaits`); a job terminated before its start is taken off `todo` in every
  pass, so that with a delayed job `todo` passes below zero and `run_threads` does not
  return (`CutDelayed`); when one job fails to start, initialised ones are not started,
  and reaping an uncounted one takes `nr_running` below zero (`core.failed`); a process
  killed while it holds `writeout_mutex` blocks all others (`WriteoutLost`); exitall ends
  the last group, not the one of the job that exits, because the global `groupid` is
  compared.

Each of these properties states the exact state in which the code fails, and so that
there is no other. `StoppedIsHeld` is the clearest case. "Nothing is left stopped" is
false of cpulimit, so the invariant says in whose hands each stopped process is: those
of a limiter that runs and will resume it, unless it was lost at one of exactly two
points of the code, both recorded when they are passed. A handler that resumed nobody,
in the control loop or in `waitforpid`, would violate it.

Deadlock is not checked where the system may really stop: all limiters have
ended, the script is done, the bounded rounds are over, the program has crashed, the
fio job or run is finished, or module_ex was freed under a handler or lies beyond
`MaxCount`. In `FioVerify` and `FioJobs` the liveness properties take the place of the
deadlock check.

### Fairness

* `WF(Step(l))`: the kernel schedules a limiter, and its sleeps end. A limiter has
  one enabled step at a time, so weak fairness is what scheduling gives.
* `WF(Reap(p))`: a parent, or init, reaps.
* `TunFairness` has, as one weak fairness condition, the steps of `stop_tunning.sh`
  once it is run, the handler of a cpulimit that was sent SIGTERM, and the delivery of
  a pending signal to a `while1` that runs: there are finitely many of each, so it is
  enough that one goes on. Nothing is asked of `start_tunning.sh` or of the limiters.
* `FioVerify`: `WF` of the job and of each verifier, which the kernel schedules. A
  mutex is always released, since critical sections do not block; that a thread
  waiting for it gets it in the end is weak fairness only because the others do not
  take it for ever: the number of blocks is bounded.
* `FioJobs`: `WF` of the core, of each job and of the passing of `start_delay`. That the
  work of a job ends is an assumption about the job file (a size, a runtime).

Nobody is obliged to start, to exit, to send a signal, to kill a job or to make one
fail. `FindsTarget` has as its
premise that the target stays and the limiter is neither lazy nor interrupted
(`IsLive` for ever).

## 4. Proofs

The theorems hold for every value of the constants that satisfies the assumptions
named in the modules (types, and sizes such as a buffer of at least two) and the
assumption in the last column.

| module | theorem | states | assumes |
|---|---|---|---|
| `CpuLimitProofs` | `TypeCorrect` | `Spec => []TypeOK` | |
| | `NoneLeftStopped` | `Spec => []StoppedIsHeld` | |
| | `ImplementsCustody` | `Spec => InCustody`, that is `Spec => Custodians!Spec` | |
| | `PidQuitResumes` | `Spec => []QuitResumes` | `Modes = {"pid"}` |
| | `NoFalseDeath` | `Spec => DeathIsReal` | `~OpenMayFail` |
| `TunningProofs` | `NothingFrozen` | `TunSpec => []NoFrozenLoad` | `~OpenMayFail`, `~PidReuse`, `Modes \subseteq {"pid"}` |
| `CpuUsageProofs` | `TypeCorrect` | `Spec => []TypeOK` | |
| | `EstimatesRecentPast` | `Spec => []EstimateIsOfRecentPast` | |
| | `ActiveRate` | `Spec => []ActiveRateInRange` | `ClockSteps \subseteq {0}` |
| | `SlicesSplit` | `Spec => []SlicesSplitPeriod` | `ClockSteps \subseteq {0}` |
| | `UsageBounded` | `Spec => []UsageInRange` | `ClockSteps \subseteq {0}` |
| | `GreedyServed` | `Spec => []GreedyGetsItsShare` | `ClockSteps \subseteq {0}` |
| `ModuleExProofs` | `TypeCorrect` | `Spec => []TypeOK` | |
| | `OneOpener`, `Reopens`, `ReadsInBuffer`, `StaysLoaded` | `BusyWhenOpen`, `ReopensAfterClose`, `ReadsStayInBuffer`, `NotUnloadedInUse` always hold | |
| `KvmStatProofs` | `TypeCorrect`, `LabelsOwnTheirValues`, `ValuesAreCounts` | `TypeOK`, `OwnCounter`, `NothingInvented` always hold | |
| `FioVerifyProofs` | `TypeCorrect`, `SingleOwner`, `CleanupIsLast` | `TypeOK`, `OneOwner`, `NoneAfterCleanup` always hold | |
| `FioJobsProofs` | `TypeCorrect`, `AllAccountedFor` | `TypeOK`, `NoJobForgotten` always hold | |
| | `StonewallHolds` | `Spec => StonewallWaits` | |

Where an assumption comes from:

* `Modes = {"pid"}`: for a target named by its executable `QuitResumes` is false, which is
  the run `quit_in_getpidof`. start_tunning.sh uses `-p` only.
* `~OpenMayFail`: `opendir` and `fopen` fail only when the descriptors are used up or
  the process is gone, not for want of memory. A death inferred from such a failure is
  not real, and a load let go of while it is stopped stays so; both theorems are false
  without it. No bound on descriptors is assumed: `NoFalseDeath` says of them exactly
  when they run out.
* `~PidReuse`: stop_tunning.sh acts on pids that `ps` showed it earlier; nothing in it
  would notice that one was given to another process.
* `ClockSteps \subseteq {0}`: nobody sets the clock. `clock_gettime` and `gettimeofday`
  give wall-clock time; if it is set back, `twork` can be negative.

Every assumption holds in a run that checks the property.

### The inductive invariants

cpulimit:

* `TypeOK` is not inductive: `closedir` must not bring `fds` below 0. `TypeInv` adds
  `Accounted`, where every descriptor is: one for each search that has succeeded, and
  one more while a search is on. `NoFalseDeath` follows from it: when a sample fails on
  a process that exists, all descriptors are those of former searches.
* `ControlInv` is what the control flow alone guarantees: a started limiter has a
  command line, its pid does not change if it was named, only limits below 100 reach
  the stop, nobody gets there without a descriptor left, only processes that may be
  signalled are stopped, and what is lost is stopped. Without it a limiter could have a
  ward it may not resume.
* `ImplementsCustody`: with these two, each action is shown to be a step of `Custody` or a
  stutter (`StepIsCustody`, `QuitIsCustody`). `Stop` and `ProbeStop` are `Custody!Stop`, the
  two resumes are `Custody!Resume`, an entry into the loop without a probe is `Take`;
  `Sample` and the failing kills let go of a ward that does not run or is recorded in
  `lost`; `Quit` is `Leave`. That the pids of the other limiters stay is `OthersKeep`.
* `NoneLeftStopped`: every step of `Custody` keeps `Kept` (`CustodyKeeps`), which under the
  mapping is `StoppedIsHeld`. So the invariant is one of the abstract specification,
  and the detailed one has it because it implements it.
* `PidHeld`, for `PidQuitResumes`, is weaker than `StoppedIsHeld` and survives a failing
  `fopen`: a stopped process is named by a limiter that no signal has ended, even if
  that limiter has let go of it and searches again.

Tunning. The steps of the composition are steps of `CpuLimit` or `kill -9` of a limiter
(`TunSteps`), so the step lemmas of `CpuLimitProofs` apply, and neither accident happens
(`LimitersInv`). `kill -9` is the one step by which a keeper vanishes without having a
say. `JobInv` says that a limiter that runs names a pid that was given away, `ListInv`
why `kill -9` does no harm: `ps` showed the limiters before the loads, so the load of
every limiter still on the list is on the list behind it, or dead, or dropped by sed.
`FrozenInv` is `NoFrozenLoad` before the script has ended: who is stopped is the ward of a
limiter, or about to be killed, or dropped.

CpuUsage:

* `BufferInv` relates buffer and history: between two samples `tail` is the oldest of
  the last `Held(history)` screenshots and `front + 1` the slot that the next one takes,
  modulo `MEM_ORDER`. `WindowGrows` is the step of that relation; the sum of the
  do-while loop and that of the reference are sums over equal sequences.
* `TimeInv` has that every working time lies between its screenshot and the one before,
  from which the sum over the window telescopes.
* `UsageInv` keeps, for every screenshot of the history and not only the oldest in the
  window, that the process used less since than the processors had to give, plus the
  jiffy the reading rounded off; and, for every one that is not of a former process,
  that the process has used no less than was read.
* `GreedyInv`, for a process that uses all it is given: there are exact process times
  (`Measured`), each within a jiffy above its reading, between which the process used
  the working time that the later screenshot records. So the sum over the window
  telescopes to within a jiffy of the jiffies counted, and the quotient of `main` is the
  share to that precision (`ShareBounds`). A window without working time gives NaN and
  keeps the slice, which is why the invariant has the slice at every place and not only
  while it is used.
* Sums over a prefix are proved about by the least counterexample (`Least`, a fact
  about sets of naturals), since an induction theorem cannot be instantiated here.

ModuleEx. `RefsInv` counts: while the module is live its usage count is that of the open
files and the releases under way, and each handler is where it may be; later, every file
that is open has no reference. `OpenInv` holds until two device_opens race: at most one
thread is between the test and `try_module_get`, or between `device_release` and its
decrement, and then there is no other file, so what it loaded of `device_open_count` is
still true when it stores. `ReadInv` is the same of `msg_ptr`: until a store comes between
another's test and load, a reader that is to load is not at the end.

KvmStat. `GroupInv` relates the kernel's group to what was asked for: events are `Drawn`
from the names asked for so far, and the two `Agree` up to the first event that is
missing. That makes `ValueInv` inductive, which has that `tmp_values` is clean between two
cpus. `ShownInv` says what is shown under every label, also behind a missing event: the
value of the group's member in that place, or 0; the members are distinct, so this is
the injection that `NothingInvented` asks for. For the type of `debug`, each file has a
slot in the chain of comparisons, the first name that it begins with (`SlotIs`).

FioVerify. `OwnerInv` is that the lists of the verifiers and `verify_list` hold no io_u
twice among them, and that the flags tell of each io_u whether it is there: that is
what the assertion in `__get_io_u` tests, and why a second `put_io_u` does not give an
io_u to two owners before an assertion fails. `CountInv`: the decrement and the unlocked
increment of `nr_verify_threads` may each overwrite the other. While no increment was
lost the counter, and what the job or a verifier loaded of it, is between the number of
threads counted less those that have left, and the number counted, so it reaches 0 only
when all have left; a lost decrement only makes it larger. `LockInv` keeps decrements
apart from each other. The lengths of the lists follow from the distinctness of their
elements, by a pigeonhole argument (`OnceIsShort`).

FioJobs. `CoreInv` says what `nr_running`, `nr_started` and the map of a pass count in
each phase of `run_threads`. `TodoInv` does it for `todo`; it is inductive only with the order in
which jobs are terminated: all, or those of the last group, so that a pass meets the
terminated ones from some job on. The two exceptions of `NoJobForgotten` are exactly
where these counts break. `PassInv`, for `StonewallHolds`: a job that a pass went by without
creating it is delayed or terminated, and behind a terminated job that was not created all
are terminated, so that a stonewalled job that is created goes past delayed ones only.

### Only model-checked

Liveness (`StopsEnd`, `FindsTarget`, `StopEndsLoad`, `WaitEnds`, `ExitEnds`, `RunEnds`) is out
of the prover's reach. Every invariant and action property that a passing run checks is
proved.

## 5. Not modelled, and the plan

Not modelled because there is no state of their own to check: the launch scripts,
the language samples and the notes (`PROJECT.json` has a line on each).

Most of the lines of the repository belong to third-party releases: cscope (two
copies, each with a generated scanner of 32257 lines), iometer, DTraceToolkit, and
fio. They are kept for reference and are not this repository's work. Of fio the two
parts are modelled in which threads and processes meet; its option tables, engines,
statistics, checksums and its server are sequential, or I/O, or data whose
properties a model would only restate. The share of all lines that the models cover
stays small for that reason, and is meant to: of cpulimit, the tunning scripts,
module_ex, kvmstat and kvm_trace nearly everything that changes state is covered.

Planned, in this order:

1. `ExeMatch` and `CpuLimitArgs`: the name comparison of `getpidof`, and the
   options of `main`, against reference definitions over bounded inputs.
2. `FioVerify` with an asynchronous engine, where the job holds several io_u's.
3. `IperfTest` and the arithmetic of mem_usage_setting.
