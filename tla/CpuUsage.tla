------------------------------ MODULE CpuUsage ------------------------------
(***************************************************************************)
(* The estimator and the slices of cpulimit.c: compute_cpu_usage with its  *)
(* circular buffer, and the arithmetic by which main splits each period    *)
(* into a working and a sleeping slice, while a process uses some of the   *)
(* time it is given.  Who is signalled, and what happens when processes    *)
(* come and go, is the subject of module CpuLimit.                         *)
(*                                                                         *)
(* Time is in units of which a period has Period and a jiffy has Jiffy.    *)
(* The floats of the code are exact fractions here, kept as numerator and  *)
(* denominator; their infinities and NaNs are told apart by cases.         *)
(***************************************************************************)
EXTENDS Integers, Sequences

CONSTANTS
    MEM_ORDER,   \* screenshots in the circular buffer (10 in the code)
    Period,      \* the time quantum (100000 us in the code)
    Jiffy,       \* the resolution of /proc/<pid>/stat (10000 us at HZ 100)
    Percents,    \* the arguments of -l
    Delays,      \* by how much a sleep, or the code around it, may be late
    ClockSteps,  \* by how much CLOCK_REALTIME may be set during a sleep
    Threads,     \* how many processors the process can use at once
    Greeds,      \* may the process be one that uses all the time it is given
    Reused,      \* may another process have taken the pid between two samples
    MaxRounds    \* bound: iterations of the loop in a behaviour

ASSUME UsageAssumption ==
    /\ MEM_ORDER \in Nat /\ MEM_ORDER > 1
    /\ Period \in Nat \ {0}
    /\ Jiffy \in Nat \ {0}
    /\ Percents \subseteq 0..100
    /\ Delays \subseteq Nat
    /\ ClockSteps \subseteq Int
    /\ Threads \in Nat \ {0}
    /\ Greeds \subseteq BOOLEAN
    /\ Reused \in BOOLEAN
    /\ MaxRounds \in Nat

VARIABLES
    percent,       \* perclimit
    greedy,        \* does the process use all the time it is given
    pc,            \* where main is: "search", "sample", "work" or "rest"
    ps,            \* the circular buffer of screenshots
    front,         \* the last screenshot recorded in it
    tail,          \* the oldest one
    workingtime,   \* how long the last working slice took, by the clock
    twork,         \* the working slice
    tsleep,        \* the sleeping slice
    estimate,      \* what the last call of compute_cpu_usage found
    clock,         \* CLOCK_REALTIME
    cpu,           \* processor time the process has used
    stopped,       \* is the process stopped
    history,       \* every screenshot since the estimator was reset
    former,        \* history: how many of them are of a process that has been replaced
    rounds         \* iterations so far

vars == <<percent, greedy, pc, ps, front, tail, workingtime, twork, tsleep,
          estimate, clock, cpu, stopped, history, former, rounds>>

Slots == 0..(MEM_ORDER - 1)
NoShot == [when |-> 0, jiffies |-> 0, cputime |-> 0]
NoEstimate == [first |-> TRUE, used |-> 0, dtwork |-> 0, dt |-> 0]

(***************************************************************************)
(* compute_cpu_usage.                                                      *)
(***************************************************************************)
Advance(i) == (i + 1) % MEM_ORDER

\* getjiffies: utime + stime of /proc/<pid>/stat, in whole jiffies.
Jiffies(c) == c \div Jiffy

Screenshot == [when |-> clock, jiffies |-> Jiffies(cpu), cputime |-> workingtime]

\* timediff: the microseconds from tb to ta, which may be negative.
TimeDiff(ta, tb) == ta - tb

Size(f, t) == ((f - t + MEM_ORDER) % MEM_ORDER) + 1

\* The sums of the first k numbers of a sequence, and of all.
Sums(a) ==
    LET sum[k \in 0..Len(a)] == IF k = 0 THEN 0 ELSE sum[k - 1] + a[k]
    IN  sum
Total(a) == Sums(a)[Len(a)]

\* Mutant: the window's first working quantum is added too.
DtworkFromTail(buf, f, t) ==
    Total([k \in 1..Size(f, t) |-> buf[(t + k - 1) % MEM_ORDER].cputime])

\* The do-while loop: the working quanta recorded after the oldest screenshot.
Dtwork(buf, f, t) ==
    Total([k \in 1..(Size(f, t) - 1) |-> buf[(t + k) % MEM_ORDER].cputime])

\* The fields of struct cpu_usage are usage = used * Jiffy / dtwork,
\* workingrate = dtwork / dt and pcpu = usage * workingrate.
Estimate(buf, f, t) ==
    IF Size(f, t) = 1
      THEN NoEstimate
      ELSE [first  |-> FALSE,
            used   |-> buf[f].jiffies - buf[t].jiffies,
            dtwork |-> Dtwork(buf, f, t),
            dt     |-> TimeDiff(buf[f].when, buf[t].when)]

\* Mutant: the oldest screenshot is dropped one call late.
NextTailLate(f, t) == IF Advance(f) = Advance(t) THEN Advance(t) ELSE t

NextTail(f, t) == IF Size(f, t) = MEM_ORDER THEN Advance(t) ELSE t

(***************************************************************************)
(* The slices.                                                             *)
(***************************************************************************)
\* Conversion of a fraction to an integer, towards zero.
Trunc(n, d) ==
    LET a == IF d < 0 THEN -n ELSE n
        b == IF d < 0 THEN -d ELSE d
    IN  IF a < 0 THEN -((-a) \div b) ELSE a \div b

\* Mutant: the slice is not held below the period.
Unbounded(x) == x

AtMostPeriod(x) == IF x < Period THEN x ELSE Period

\* period * limit, the slice of a process that uses all it is given.
Share == (Period * percent) \div 100

\* pcpu is NaN: 0/0, or an infinity times 0.  No branch of main is taken.
IsNaN(e) == e.dtwork = 0 \/ (e.dt = 0 /\ e.used = 0)

\* pcpu > 0: an infinite pcpu makes the quotient NaN, which min takes for large.
IsPositive(e) ==
    \/ e.dt = 0 /\ e.used > 0
    \/ e.dt > 0 /\ e.used > 0
    \/ e.dt < 0 /\ e.used < 0

IsNegative(e) == e.used # 0 /\ ~IsPositive(e)

\* pcpu == -1, computed: then it is taken for the mark of the first sample.
IsMinusOne(e) == e.used * Jiffy = -e.dt

\* period * limit / pcpu * workingrate
Quotient(e) == Trunc(Period * percent * e.dtwork, 100 * e.used * Jiffy)

\* "adjust work and sleep time slices"; when pcpu is negative twork stays.
WorkSlice(e) ==
    CASE e.first                                  -> AtMostPeriod(Share)
      [] ~e.first /\ IsNaN(e)                      -> twork
      [] ~e.first /\ ~IsNaN(e) /\ IsPositive(e)    ->
           IF e.dt = 0 THEN Period ELSE AtMostPeriod(Quotient(e))
      [] ~e.first /\ ~IsNaN(e) /\ e.used = 0       -> Period
      [] ~e.first /\ ~IsNaN(e) /\ IsNegative(e)    ->
           IF IsMinusOne(e) THEN AtMostPeriod(Share) ELSE twork

(***************************************************************************)
(* The loop of main.                                                       *)
(***************************************************************************)

\* Mutant: the estimator keeps what it knew of the last process.
FoundNoReset(c) ==
    /\ pc = "search"
    /\ rounds < MaxRounds
    /\ workingtime' = 0
    /\ cpu' = c
    /\ stopped' = FALSE
    /\ history' = <<>> /\ former' = 0
    /\ pc' = "sample"
    /\ UNCHANGED <<percent, greedy, ps, front, tail, twork, tsleep, estimate,
                   clock, rounds>>

\* wait_for_process ends: the process found is running and may have used any
\* time; compute_cpu_usage(0,0,NULL) resets the estimator, twork is kept.
Found(c) ==
    /\ pc = "search"
    /\ rounds < MaxRounds
    /\ front' = -1 /\ tail' = 0
    /\ workingtime' = 0
    /\ cpu' = c
    /\ stopped' = FALSE
    /\ history' = <<>> /\ former' = 0
    /\ pc' = "sample"
    /\ UNCHANGED <<percent, greedy, ps, twork, tsleep, estimate, clock, rounds>>

\* compute_cpu_usage succeeds; main sets the slices and resumes the process.
Sample ==
    /\ pc = "sample"
    /\ rounds < MaxRounds
    /\ LET f   == Advance(front)
           buf == [ps EXCEPT ![f] = Screenshot]
           e   == Estimate(buf, f, tail)
       IN  /\ front' = f
           /\ ps' = buf
           /\ tail' = NextTail(f, tail)
           /\ estimate' = e
           /\ twork' = WorkSlice(e)
    /\ tsleep' = Period - twork'
    /\ stopped' = (stopped /\ percent \notin 1..99)
    /\ history' = Append(history, Screenshot)
    /\ pc' = "work"
    /\ rounds' = rounds + 1
    /\ UNCHANGED <<percent, greedy, workingtime, clock, cpu, former>>

\* Mutant: the index is not taken modulo the size of the buffer.
SampleFailsNoWrap ==
    /\ pc = "sample"
    /\ front' = front + 1
    /\ pc' = "search"
    /\ UNCHANGED <<percent, greedy, ps, tail, workingtime, twork, tsleep,
                   estimate, clock, cpu, stopped, history, former, rounds>>

\* getjiffies fails: front has moved on by then, and main looks for the process.
SampleFails ==
    /\ pc = "sample"
    /\ front' = Advance(front)
    /\ pc' = "search"
    /\ UNCHANGED <<percent, greedy, ps, tail, workingtime, twork, tsleep,
                   estimate, clock, cpu, stopped, history, former, rounds>>

\* nanosleep returns at once if the time is negative, else not before it is over.
SleepTime(t, d) == (IF t < 0 THEN 0 ELSE t) + d

\* What the process may use of d units: nothing while it is stopped.
Uses(d) ==
    IF stopped THEN {0} ELSE IF greedy THEN {d} ELSE 0..(Threads * d)

\* Mutant: the slice that was asked for is recorded, not the one that was slept.
WorkUnmeasured(d, s) ==
    /\ pc = "work"
    /\ LET t == SleepTime(twork, d)
       IN  /\ clock' = clock + t + s
           /\ workingtime' = twork
           /\ \E u \in Uses(t) : cpu' = cpu + u
    /\ stopped' = (percent < 100)
    /\ pc' = IF percent < 100 THEN "rest" ELSE "sample"
    /\ UNCHANGED <<percent, greedy, ps, front, tail, twork, tsleep, estimate,
                   history, former, rounds>>

\* startwork, nanosleep(&twork), endwork; then SIGSTOP if the limit is below 100.
Work(d, s) ==
    /\ pc = "work"
    /\ LET t == SleepTime(twork, d)
       IN  /\ clock' = clock + t + s
           /\ workingtime' = TimeDiff(clock', clock)
           /\ \E u \in Uses(t) : cpu' = cpu + u
    /\ stopped' = (percent < 100)
    /\ pc' = IF percent < 100 THEN "rest" ELSE "sample"
    /\ UNCHANGED <<percent, greedy, ps, front, tail, twork, tsleep, estimate,
                   history, former, rounds>>

\* nanosleep(&tsleep).
Rest(d, s) ==
    /\ pc = "rest"
    /\ LET t == SleepTime(tsleep, d)
       IN  /\ clock' = clock + t + s
           /\ \E u \in Uses(t) : cpu' = cpu + u
    /\ pc' = "sample"
    /\ UNCHANGED <<percent, greedy, ps, front, tail, workingtime, twork, tsleep,
                   estimate, stopped, history, former, rounds>>

\* The SIGCONT before a working slice or the SIGSTOP before a sleeping one fails:
\* the process has died, and main looks for it again.
KillFails ==
    /\ pc = "rest" \/ (pc = "work" /\ percent \in 1..99)
    /\ pc' = "search"
    /\ UNCHANGED <<percent, greedy, ps, front, tail, workingtime, twork, tsleep,
                   estimate, clock, cpu, stopped, history, former, rounds>>

\* The process exits and is reaped, and a younger process is given its pid,
\* between two system calls of main: nothing that main calls fails.
Replaced ==
    /\ Reused /\ ~greedy
    /\ pc \in {"work", "rest"}
    /\ cpu > 0
    /\ cpu' = 0
    /\ stopped' = FALSE
    /\ former' = Len(history)
    /\ UNCHANGED <<percent, greedy, pc, ps, front, tail, workingtime, twork,
                   tsleep, estimate, clock, history, rounds>>

-----------------------------------------------------------------------------
Init ==
    /\ percent \in Percents
    /\ greedy \in Greeds
    /\ pc = "search"
    /\ ps = [i \in Slots |-> NoShot]
    /\ front = -1 /\ tail = 0
    /\ workingtime = 0
    /\ twork = 0 /\ tsleep = 0
    /\ estimate = NoEstimate
    /\ clock = 0
    /\ cpu = 0
    /\ stopped = FALSE
    /\ history = <<>> /\ former = 0
    /\ rounds = 0

Next ==
    \/ \E c \in {0, Jiffy} : Found(c)
    \/ Sample
    \/ SampleFails \/ KillFails
    \/ \E d \in Delays, s \in ClockSteps : Work(d, s) \/ Rest(d, s)
    \/ Replaced

Spec == Init /\ [][Next]_vars

-----------------------------------------------------------------------------
(***************************************************************************)
(* Properties.                                                             *)
(***************************************************************************)

\* The static and local variables keep their types.
TypeOK ==
    /\ percent \in Percents /\ greedy \in Greeds
    /\ pc \in {"search", "sample", "work", "rest"}
    /\ ps \in [Slots -> [when : Int, jiffies : Int, cputime : Int]]
    /\ front \in {-1} \cup Slots
    /\ tail \in Slots
    /\ {workingtime, twork, tsleep, clock, cpu} \subseteq Int
    /\ estimate \in [first : BOOLEAN, used : Int, dtwork : Int, dt : Int]
    /\ stopped \in BOOLEAN
    /\ former \in Nat
    /\ rounds \in 0..MaxRounds

\* The last k screenshots taken since the reset, k at most MEM_ORDER, summed up
\* without a circular buffer.
WindowOf(h) ==
    LET n == Len(h)
        k == IF n < MEM_ORDER THEN n ELSE MEM_ORDER
        o == n - k + 1
    IN  IF n < 2
          THEN NoEstimate
          ELSE [first  |-> FALSE,
                used   |-> h[n].jiffies - h[o].jiffies,
                dtwork |-> Total([i \in 1..(n - o) |-> h[o + i].cputime]),
                dt     |-> h[n].when - h[o].when]

\* The buffer does hold the "last MEM_ORDER process screenshots" (cpulimit.c:279):
\* after any number of samples, failures and resets, each estimate is the one the
\* whole history gives for its last MEM_ORDER entries.
EstimateIsOfRecentPast ==
    pc = "work" => estimate = WindowOf(history)

\* The "rate at which we are keeping active the process" is in the "range 0-1"
\* (cpulimit.c:484) while nobody sets the clock: dtwork counts no time twice.
ActiveRateInRange ==
    0 <= estimate.dtwork /\ estimate.dtwork <= estimate.dt

\* The quantum is "splitted in a working period and a sleeping one"
\* (cpulimit.c:440): neither slice is negative, together they are the period.
SlicesSplitPeriod ==
    pc \in {"work", "rest"} =>
        /\ 0 <= twork /\ 0 <= tsleep
        /\ twork + tsleep = Period

\* A process that uses all the time it is given is given its share of each period:
\* -l is the "percentage of cpu allowed" (cpulimit.c:342).  How far a slice may be
\* off is the jiffy by which two readings of /proc/<pid>/stat misjudge its use of
\* the window, be the sleeps late or not; a limit of 0 never resumes it.
GreedyGetsItsShare ==
    greedy /\ percent > 0 /\ pc \in {"work", "rest"} =>
        LET d == estimate.dtwork
        IN  /\ estimate.first => twork = Share
            /\ \/ twork = Period
               \/ Period * percent * d < 100 * (d + Jiffy) * (twork + 1)
            /\ 100 * (d - Jiffy) * twork <= Period * percent * d

\* "cpu actual usage of process (range 0-1)" (cpulimit.c:482), one for each
\* processor the process can run on: but for the jiffy that a reading may round
\* off, none is counted against time outside the window, before or after a reset.
\* It is negative only while a screenshot of a process that another one has
\* replaced is still in the window.
UsageInRange ==
    /\ estimate.used * Jiffy < Threads * estimate.dt + Jiffy
    /\ pc \in {"work", "rest"} /\ (former = 0 \/ former + MEM_ORDER <= Len(history)) =>
         0 <= estimate.used
=============================================================================
