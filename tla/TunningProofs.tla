--------------------------- MODULE TunningProofs ----------------------------
(***************************************************************************)
(* What the scripts of module Tunning leave behind, for any number of      *)
(* cores and processes.  The limiters are those of CpuLimit, whose steps   *)
(* keep their invariants here too; kill -9, which CpuLimit does not have,  *)
(* is the one step to be looked at anew.                                   *)
(***************************************************************************)
EXTENDS Tunning, CpuLimitProofs

\* What the scripts know of their processes: a core's while1 has been started
\* before its cpulimit, so a limiter that runs has a pid that was given away.
JobInv ==
    /\ job \in [Limiters -> {"none", "cpulimit", "done"}]
    /\ load \in [Limiters -> Pids \cup {0}]
    /\ \A l \in Limiters :
         /\ job[l] = "done" <=> pc[l] # "unborn"
         /\ job[l] = "cpulimit" => load[l] \in Pids /\ load[l] \notin fresh
         /\ pc[l] # "unborn" => pid[l] \in Pids /\ pid[l] \notin fresh

\* ps showed the limiters first: every while1 whose limiter is to be killed is on
\* the list behind it, or sed dropped it.
ListInv ==
    /\ limList \subseteq Limiters
    /\ \A l \in limList : pc[l] # "unborn"
    /\ stage = "kill -9" =>
         \A l \in limList : Alive(pid[l]) => pid[l] \in loadList \cup dropped

\* Who is stopped is in the hands of a limiter, or about to be killed, or dropped.
FrozenInv ==
    \A p \in Pids : IsStopped(p) =>
        Held(p) \/ p \in dropped \/ (stage = "kill -9" /\ p \in loadList)

\* What module CpuLimit keeps, and that neither accident happens to a limiter
\* whose target is named by its pid and whose files can be opened.
LimitersInv == TypeInv /\ ControlInv /\ lost = {}

\* kill -9 of a limiter.
Killed(l) ==
    /\ IsLive(l)
    /\ pc' = [pc EXCEPT ![l] = "killed"]
    /\ UNCHANGED <<table, args, pid, cand, cursor, fds, prio, fresh, found, lost>>

-----------------------------------------------------------------------------
\* The steps of the composition are steps of CpuLimit, or kill -9.
LEMMA TunSteps ==
    ASSUME TypeInv, [TunNext]_tunVars
    PROVE  \/ [Next]_vars
           \/ \E l \in limList \cap Limiters :
                /\ Killed(l) /\ stage = "kill -9" /\ limList' = limList \ {l}
                /\ UNCHANGED <<job, load, stage, loadList, dropped>>
<1>1. CASE UNCHANGED tunVars
  BY <1>1 DEF tunVars
<1>2. ASSUME NEW l \in Limiters, StartScript(l) PROVE [Next]_vars
  <2>2. CASE RunWhile1(l)
    BY <2>2 DEF RunWhile1, Next, Environment, Exes
  <2>3. CASE RunCpulimit(l)
    BY <2>3 DEF RunCpulimit, Next
  <2> QED
    BY <1>2, <2>2, <2>3 DEF StartScript
<1>3. ASSUME NEW l \in Limiters, LimiterStep(l) PROVE [Next]_vars
  BY <1>3 DEF LimiterStep, Next
<1>4. CASE KillallWhile1 \/ KillallCpulimit \/ PsCpulimit \/ PsWhile1 \/ EndScript
  BY <1>4 DEF KillallWhile1, KillallCpulimit, PsCpulimit, PsWhile1, EndScript
<1>5. ASSUME NEW p \in Pids,
             TermWhile1(p) \/ Kill9While1(p) \/ DeliverTerm(p) \/ ReapZombie(p)
      PROVE  [Next]_vars
  <2>1. UNCHANGED vars \/ Exit(p) \/ Reap(p)
    BY <1>5 DEF TermWhile1, Kill9While1, DeliverTerm, ReapZombie
  <2> QED
    BY <2>1 DEF Next, Environment
<1>6. ASSUME NEW l \in Limiters, TermCpulimit(l) \/ Handle(l) PROVE [Next]_vars
  BY <1>6 DEF TermCpulimit, Handle, Next
<1>7. ASSUME NEW l \in Limiters, Kill9Cpulimit(l), ~IsLive(l) PROVE UNCHANGED vars
  BY <1>7 DEF Kill9Cpulimit, Goto, TypeInv, TypeOK, vars, history
<1>8. ASSUME NEW l \in Limiters, Kill9Cpulimit(l), IsLive(l)
      PROVE  /\ l \in limList /\ Killed(l) /\ stage = "kill -9" /\ limList' = limList \ {l}
             /\ UNCHANGED <<job, load, stage, loadList, dropped>>
  BY <1>8 DEF Kill9Cpulimit, Goto, Killed, history
<1> QED
  BY <1>1, <1>2, <1>3, <1>4, <1>5, <1>6, <1>7, <1>8 DEF TunNext, StopScript

LEMMA KilledKeeps ==
    ASSUME LimitersInv, NEW l \in Limiters, Killed(l) PROVE LimitersInv'
<1> USE DEF LimitersInv, Killed
<1>0. pc[l] # "unborn"
  BY DEF IsLive, Search, Loop
<1>1. TypeInv'
  BY DEF TypeInv, TypeOK, TableOK, Accounted, PcState, Gone, Loop
<1>2. ControlInv'
  BY <1>0 DEF ControlInv, LimiterInv, CanOpen, TypeInv, TypeOK, IsStopped
<1> QED
  BY <1>1, <1>2

\* In pid mode, with files that open, no process gets lost.
LEMMA NobodyLost ==
    ASSUME ~OpenMayFail, Modes \subseteq {"pid"}, LimitersInv, [Next]_vars
    PROVE  lost' = {}
<1> USE DEF LimitersInv
<1>1. CASE UNCHANGED vars
  BY <1>1 DEF vars
<1>2. ASSUME NEW l \in Limiters, Step(l) PROVE lost' = {}
  BY <1>2 DEF Step, OpenProc, OpenProcFails, Scan, ScanEnd, ProbeStop, ProbeCont, Nap,
     Sample, Cont, Work, Stop, Rest, history, Losing
<1>3. ASSUME NEW l \in Limiters, Quit(l) PROVE lost' = {}
  <2>1. args[l].mode # "exe"
    BY DEF ControlInv, LimiterInv, Args, NoArgs
  <2> QED
    BY <1>3, <2>1 DEF Quit, Losing
<1>4. ASSUME NEW l \in Limiters, NEW a \in Args, Start(l, a) PROVE lost' = {}
  BY <1>4 DEF Start, history
<1>5. CASE Environment
  BY <1>5 DEF Environment, Spawn, Exit, Reap, Losing
<1> QED
  BY <1>1, <1>2, <1>3, <1>4, <1>5 DEF Next

LEMMA LimiterInvariance ==
    ASSUME ~OpenMayFail, Modes \subseteq {"pid"} PROVE TunSpec => []LimitersInv
<1>1. TunInit => LimitersInv
  BY LimitAssumption DEF TunInit, Init, LimitersInv, TypeInv, Accounted, TypeOK, TableOK, Slot,
     States, Exes, PcState, ControlInv, LimiterInv, IsStopped, NoArgs
<1>2. LimitersInv /\ [TunNext]_tunVars => LimitersInv'
  <2> SUFFICES ASSUME LimitersInv, [TunNext]_tunVars PROVE LimitersInv'
    OBVIOUS
  <2>1. CASE [Next]_vars
    BY <2>1, TypeStep, ControlStep, NobodyLost DEF LimitersInv
  <2>2. CASE \E l \in Limiters : Killed(l)
    BY <2>2, KilledKeeps
  <2> QED
    BY <2>1, <2>2, TunSteps DEF LimitersInv
<1> QED
  BY <1>1, <1>2, PTL DEF TunSpec

\* What a step leaves as it was: a limiter that has been started keeps its pid and
\* does not rise from the dead, and no process comes back.
LEMMA Onward ==
    ASSUME ~PidReuse, Modes \subseteq {"pid"}, LimitersInv, LimitersInv',
           [Next]_vars \/ \E l \in Limiters : Killed(l)
    PROVE  /\ fresh' \subseteq fresh
           /\ \A p \in Pids \ fresh : Alive(p)' => Alive(p)
           /\ \A k \in Limiters : pc[k] # "unborn" =>
                /\ pc'[k] # "unborn" /\ pid'[k] = pid[k]
                /\ IsLive(k)' => IsLive(k)
<1> USE DEF LimitersInv, TypeInv, TypeOK, TableOK, Slot
<1>1. fresh' \subseteq fresh /\ \A p \in Pids \ fresh : Alive(p)' => Alive(p)
  <2>1. CASE \E l \in Limiters : Killed(l)
    BY <2>1 DEF Killed, Alive
  <2>2. CASE UNCHANGED vars
    BY <2>2 DEF vars, Alive
  <2>3. ASSUME NEW l \in Limiters, Step(l)
        PROVE  fresh' = fresh /\ \A p \in Pids : Alive(p)' => Alive(p)
    BY <2>3 DEF Step, OpenProc, OpenProcFails, Scan, ScanEnd, ProbeStop, ProbeCont, Nap,
         Sample, Cont, Work, Stop, Rest, Signalable, Exists, Stopped, Continued, Alive
  <2>4. ASSUME NEW l \in Limiters, Quit(l)
        PROVE  fresh' = fresh /\ \A p \in Pids : Alive(p)' => Alive(p)
    BY <2>4 DEF Quit, ContinuedBy, Continued, Signalable, Exists, IsStopped, Alive
  <2>5. ASSUME NEW l \in Limiters, NEW a \in Args, Start(l, a)
        PROVE  fresh' = fresh /\ \A p \in Pids : Alive(p)' => Alive(p)
    BY <2>5 DEF Start, Alive
  <2>6. ASSUME NEW q \in Pids, NEW e \in Exes, Spawn(q, e)
        PROVE  fresh' \subseteq fresh /\ \A p \in Pids \ fresh : Alive(p)' => Alive(p)
    BY <2>6 DEF Spawn, SpawnAt, Alive
  <2>7. ASSUME NEW q \in Pids, Exit(q) \/ Reap(q)
        PROVE  fresh' = fresh /\ \A p \in Pids : Alive(p)' => Alive(p)
    BY <2>7 DEF Exit, ExitOf, Reap, ReapOf, Alive
  <2> QED
    BY <2>1, <2>2, <2>3, <2>4, <2>5, <2>6, <2>7 DEF Next, Environment
<1>2. ASSUME NEW k \in Limiters, pc[k] # "unborn"
      PROVE  pc'[k] # "unborn" /\ args'[k] = args[k] /\ (IsLive(k)' => IsLive(k))
  <2>1. CASE \E l \in Limiters : Killed(l)
    BY <1>2, <2>1 DEF Killed, IsLive, Search, Loop
  <2>2. CASE UNCHANGED vars \/ Environment
    BY <1>2, <2>2 DEF vars, Environment, Spawn, Exit, Reap, limVars, IsLive
  <2>3. ASSUME NEW l \in Limiters, Step(l)
        PROVE  args' = args /\ pc[l] \in Search \cup Loop /\ pc'[l] # "unborn"
               /\ \A j \in Limiters \ {l} : pc'[j] = pc[j]
    BY <2>3 DEF Step, OpenProc, OpenProcFails, Scan, ScanEnd, ProbeStop, ProbeCont, Nap,
         Sample, Cont, Work, Stop, Rest, Dead, Goto, Search, Loop
  <2>4. ASSUME NEW l \in Limiters, Quit(l)
        PROVE  args' = args /\ pc'[l] = "exit0" /\ \A j \in Limiters \ {l} : pc'[j] = pc[j]
    BY <2>4 DEF Quit, Goto
  <2>5. ASSUME NEW l \in Limiters, NEW a \in Args, Start(l, a)
        PROVE  pc[l] = "unborn"
               /\ \A j \in Limiters \ {l} : pc'[j] = pc[j] /\ args'[j] = args[j]
    BY <2>5 DEF Start, Goto
  <2> QED
    BY <1>2, <2>1, <2>2, <2>3, <2>4, <2>5 DEF Next, IsLive, Search, Loop
<1>3. ASSUME NEW k \in Limiters, pc[k] # "unborn" PROVE pid'[k] = pid[k]
  <2>1. args[k].mode = "pid" /\ args'[k] = args[k]
    BY <1>2, <1>3 DEF ControlInv, LimiterInv, Args
  <2> QED
    BY <2>1 DEF ControlInv, LimiterInv
<1> QED
  BY <1>1, <1>2, <1>3

-----------------------------------------------------------------------------
\* The steps that neither stop_tunning.sh takes nor its lists notice.
Aside ==
    \/ \E l \in Limiters : StartScript(l) \/ LimiterStep(l) \/ Handle(l)
    \/ \E p \in Pids : DeliverTerm(p) \/ ReapZombie(p)
    \/ UNCHANGED tunVars

LEMMA AsideLeaves ==
    ASSUME Aside PROVE UNCHANGED <<stage, limList, loadList, dropped>>
BY DEF Aside, StartScript, RunWhile1, RunCpulimit, LimiterStep, Handle, scriptVars,
       DeliverTerm, ReapZombie, tunVars

\* A limiter is started by its own core's job and by nothing else.
LEMMA OnlyJobsStart ==
    ASSUME TypeInv, [TunNext]_tunVars, NEW k \in Limiters, pc[k] = "unborn",
           ~RunCpulimit(k)
    PROVE  pc'[k] = "unborn"
<1> USE DEF TypeInv, TypeOK
<1>1. ASSUME NEW l \in Limiters, RunCpulimit(l) PROVE l # k /\ pc'[k] = "unborn"
  BY <1>1 DEF RunCpulimit, Start, Goto
<1>2. ASSUME NEW l \in Limiters, LimiterStep(l) PROVE pc'[k] = "unborn"
  BY <1>2 DEF LimiterStep, Step, OpenProc, OpenProcFails, Scan, ScanEnd, ProbeStop,
       ProbeCont, Nap, Sample, Cont, Work, Stop, Rest, Dead, Goto
<1>3. ASSUME NEW l \in Limiters, RunWhile1(l) PROVE pc' = pc
  BY <1>3 DEF RunWhile1, vars, Spawn, limVars
<1>4. ASSUME NEW l \in Limiters, TermCpulimit(l) \/ Handle(l) \/ Kill9Cpulimit(l)
      PROVE  pc'[k] = "unborn"
  BY <1>4 DEF TermCpulimit, Handle, Kill9Cpulimit, Quit, Goto, IsLive, Search, Loop, vars
<1>5. ASSUME NEW p \in Pids,
             TermWhile1(p) \/ Kill9While1(p) \/ DeliverTerm(p) \/ ReapZombie(p)
      PROVE  pc' = pc
  BY <1>5 DEF TermWhile1, Kill9While1, DeliverTerm, ReapZombie, Exit, Reap, limVars, vars
<1>6. CASE \/ KillallWhile1 \/ KillallCpulimit \/ PsCpulimit \/ PsWhile1 \/ EndScript
           \/ UNCHANGED tunVars
  BY <1>6 DEF KillallWhile1, KillallCpulimit, PsCpulimit, PsWhile1, EndScript, tunVars, vars
<1> QED
  BY <1>1, <1>2, <1>3, <1>4, <1>5, <1>6 DEF TunNext, StartScript, StopScript

LEMMA JobInvariance ==
    ASSUME ~OpenMayFail, ~PidReuse, Modes \subseteq {"pid"}
    PROVE  TunSpec => []JobInv
<1>1. TunInit => JobInv
  BY DEF TunInit, Init, JobInv
<1>2. LimitersInv /\ LimitersInv' /\ JobInv /\ [TunNext]_tunVars => JobInv'
  <2> SUFFICES ASSUME LimitersInv, LimitersInv', JobInv, [TunNext]_tunVars PROVE JobInv'
    OBVIOUS
  <2>0. /\ fresh' \subseteq fresh
        /\ \A k \in Limiters : pc[k] # "unborn" => pc'[k] # "unborn" /\ pid'[k] = pid[k]
    BY TunSteps, Onward DEF LimitersInv
  <2>2. ASSUME NEW l \in Limiters, RunWhile1(l) PROVE JobInv'
    <3>1. PICK p \in Pids : Spawn(p, "matching") /\ load' = [load EXCEPT ![l] = p]
      BY <2>2 DEF RunWhile1
    <3>2. /\ fresh' = fresh \ {p} /\ pc' = pc /\ pid' = pid
          /\ job[l] = "none" /\ job' = [job EXCEPT ![l] = "cpulimit"]
      BY <2>2, <3>1 DEF RunWhile1, Spawn, limVars
    <3> QED
      BY <3>1, <3>2 DEF JobInv
  <2>3. ASSUME NEW l \in Limiters, RunCpulimit(l) PROVE JobInv'
    <3>1. PICK a \in Args : a.target = load[l] /\ Start(l, a)
      BY <2>3 DEF RunCpulimit
    <3>2. a.mode = "pid"
      BY DEF Args
    <3>3. /\ pc' = [pc EXCEPT ![l] = "open"] /\ pid' = [pid EXCEPT ![l] = load[l]]
          /\ job[l] = "cpulimit" /\ job' = [job EXCEPT ![l] = "done"]
          /\ UNCHANGED <<load, fresh>>
      BY <2>3, <3>1, <3>2 DEF RunCpulimit, Start, Goto
    <3> QED
      BY <3>3 DEF JobInv, LimitersInv, TypeInv, TypeOK
  <2>4. ASSUME UNCHANGED <<job, load>>, \A l \in Limiters : ~RunCpulimit(l) PROVE JobInv'
    <3>1. \A k \in Limiters : pc[k] = "unborn" => pc'[k] = "unborn"
      BY <2>4, OnlyJobsStart DEF LimitersInv
    <3> QED
      BY <2>0, <2>4, <3>1 DEF JobInv
  <2>5. CASE UNCHANGED <<job, load>>
    BY <2>3, <2>4, <2>5
  <2>6. CASE ~UNCHANGED <<job, load>>
    <3>1. \E l \in Limiters : StartScript(l)
      BY <2>6 DEF TunNext, StopScript, LimiterStep, scriptVars, KillallWhile1, KillallCpulimit,
           PsCpulimit, PsWhile1, EndScript, TermWhile1, Kill9While1, TermCpulimit,
           Kill9Cpulimit, Handle, DeliverTerm, ReapZombie, tunVars
    <3> QED
      BY <2>2, <2>3, <3>1 DEF StartScript
  <2> QED
    BY <2>5, <2>6
<1> QED
  BY <1>1, <1>2, LimiterInvariance, PTL DEF TunSpec

LEMMA ListInvariance ==
    ASSUME ~OpenMayFail, ~PidReuse, Modes \subseteq {"pid"}
    PROVE  TunSpec => []ListInv
<1>1. TunInit => ListInv
  BY DEF TunInit, ListInv
<1>2. LimitersInv /\ LimitersInv' /\ JobInv /\ ListInv /\ [TunNext]_tunVars => ListInv'
  <2> SUFFICES ASSUME LimitersInv, LimitersInv', JobInv, ListInv, [TunNext]_tunVars
               PROVE  ListInv'
    OBVIOUS
  <2>0. /\ \A p \in Pids \ fresh : Alive(p)' => Alive(p)
        /\ \A k \in Limiters : pc[k] # "unborn" => pc'[k] # "unborn" /\ pid'[k] = pid[k]
    BY TunSteps, Onward DEF LimitersInv
  <2>a. \A k \in Limiters : pc[k] # "unborn" => (Alive(pid[k])' => Alive(pid[k]))
    BY <2>0 DEF JobInv, Alive
  <2>l. \A k \in limList : k \in Limiters /\ pc[k] # "unborn" /\ pc'[k] # "unborn"
    BY <2>0 DEF ListInv
  \* A step that adds no limiter to the list and takes no while1 off it.
  <2>1. ASSUME limList' \subseteq limList, stage' = stage,
               limList' = {} \/ UNCHANGED <<loadList, dropped>>
        PROVE  ListInv'
    BY <2>0, <2>a, <2>l, <2>1 DEF ListInv
  <2>2. CASE Aside
    BY <2>1, <2>2, AsideLeaves
  <2>3. CASE KillallWhile1
    BY <2>3, <2>l DEF KillallWhile1, ListInv
  <2>4. ASSUME NEW p \in Pids, TermWhile1(p) PROVE ListInv'
    BY <2>4, <2>l DEF TermWhile1, ListInv
  <2>5. CASE KillallCpulimit
    BY <2>5 DEF KillallCpulimit, ListInv, LiveLims, IsLive, Search, Loop, vars
  <2>6. ASSUME NEW l \in Limiters, TermCpulimit(l) \/ Kill9Cpulimit(l) PROVE ListInv'
    BY <2>1, <2>6 DEF TermCpulimit, Kill9Cpulimit
  <2>7. CASE PsCpulimit
    <3>1. limList' \subseteq LiveLims /\ UNCHANGED vars /\ stage' = "ps while1"
      BY <2>7 DEF PsCpulimit
    <3> QED
      BY <3>1 DEF ListInv, LiveLims, IsLive, Search, Loop, vars
  <2>8. CASE PsWhile1
    <3>1. Loads \subseteq loadList' \cup dropped' /\ limList' = limList /\ UNCHANGED vars
      BY <2>8 DEF PsWhile1
    <3>2. \A k \in limList : Alive(pid[k])' => pid'[k] \in Loads
      BY <2>l, <3>1 DEF Alive, Loads, vars, JobInv
    <3> QED
      BY <2>l, <3>1, <3>2 DEF ListInv
  <2>9. ASSUME NEW p \in Pids, Kill9While1(p) PROVE ListInv'
    BY <2>1, <2>9 DEF Kill9While1
  <2>10. CASE EndScript
    BY <2>l, <2>10 DEF EndScript, ListInv
  <2> QED
    BY <2>2, <2>3, <2>4, <2>5, <2>6, <2>7, <2>8, <2>9, <2>10 DEF TunNext, StopScript, Aside
<1> QED
  BY <1>1, <1>2, LimiterInvariance, JobInvariance, PTL DEF TunSpec

-----------------------------------------------------------------------------
LEMMA FrozenInvariance ==
    ASSUME ~OpenMayFail, ~PidReuse, Modes \subseteq {"pid"}
    PROVE  TunSpec => []FrozenInv
<1>1. TunInit => FrozenInv
  BY DEF TunInit, Init, FrozenInv, IsStopped
<1>2. LimitersInv /\ ListInv /\ FrozenInv /\ [TunNext]_tunVars => FrozenInv'
  <2> SUFFICES ASSUME LimitersInv, ListInv, FrozenInv, [TunNext]_tunVars,
                      NEW q \in Pids, IsStopped(q)'
               PROVE  Held(q)' \/ q \in dropped' \/ (stage' = "kill -9" /\ q \in loadList')
    BY DEF FrozenInv
  <2> DEFINE Doomed == q \in dropped \/ (stage = "kill -9" /\ q \in loadList)
  <2>1. IsStopped(q) => Held(q) \/ Doomed
    BY DEF FrozenInv
  \* One that was dropped or is about to be killed is so until the next ps, which
  \* lists it or drops it; it leaves the list by its death only.
  <2>2. ASSUME Doomed PROVE Doomed'
    <3>1. CASE Aside
      BY <2>2, <3>1, AsideLeaves
    <3>2. ASSUME NEW p \in Pids, Kill9While1(p) PROVE Doomed'
      <4>1. /\ stage' = stage /\ loadList' = loadList \ {p} /\ dropped' = dropped
            /\ Exit(p) \/ (~Alive(p) /\ UNCHANGED vars)
        BY <3>2 DEF Kill9While1
      <4>2. ~IsStopped(p)'
        BY <4>1 DEF Exit, ExitOf, Alive, IsStopped, vars, LimitersInv, TypeInv, TypeOK, TableOK, Slot
      <4> QED
        BY <2>2, <4>1, <4>2
    <3>3. CASE PsWhile1
      <4>1. q \in Loads
        BY <3>3 DEF PsWhile1, vars, Loads, Alive, IsStopped
      <4> QED
        BY <3>3, <4>1 DEF PsWhile1
    <3>4. CASE \/ KillallWhile1 \/ KillallCpulimit \/ PsCpulimit \/ EndScript
               \/ \E p \in Pids : TermWhile1(p)
               \/ \E l \in Limiters : TermCpulimit(l) \/ Kill9Cpulimit(l)
      BY <2>2, <3>4 DEF KillallWhile1, KillallCpulimit, PsCpulimit, EndScript,
           TermWhile1, TermCpulimit, Kill9Cpulimit
    <3> QED
      BY <3>1, <3>2, <3>3, <3>4 DEF TunNext, StopScript, Aside
  <2>3. CASE [Next]_vars
    <3>1. CASE IsStopped(q) => Held(q)
      BY <2>3, <3>1, HeldStep DEF LimitersInv
    <3>2. CASE ~(IsStopped(q) => Held(q))
      BY <2>1, <2>2, <3>2
    <3> QED
      BY <3>1, <3>2
  \* kill -9 frees what its limiter held, but that is on the list or was dropped.
  <2>4. ASSUME NEW l \in limList \cap Limiters, Killed(l), stage = "kill -9",
               UNCHANGED <<stage, loadList, dropped>>
        PROVE  Held(q)' \/ Doomed'
    <3>1. IsStopped(q)
      BY <2>4 DEF Killed, IsStopped
    <3>2. CASE Doomed
      BY <2>2, <3>2
    <3>3. CASE ~Doomed
      <4>1. PICK k \in Limiters : Ward(k) = q
        BY <2>1, <3>1, <3>3 DEF Held, LimitersInv
      <4>2. pid[k] = q
        <5>1. args[k].mode = "pid"
          BY <4>1, PidsAssumption DEF Ward, Loop, LimitersInv, ControlInv, LimiterInv, Args
        <5> QED
          BY <4>1, <5>1, PidsAssumption DEF Ward, Probed
      <4>3. k # l
        BY <2>4, <3>1, <3>3, <4>2 DEF ListInv, Alive, IsStopped
      <4>4. Ward(k)' = q
        BY <2>4, <4>1, <4>3 DEF Killed, Ward, Probed, CanOpen, LimitersInv, TypeInv, TypeOK
      <4> QED
        BY <4>4 DEF Held
    <3> QED
      BY <3>2, <3>3
  <2> QED
    BY <2>3, <2>4, TunSteps DEF LimitersInv
<1> QED
  BY <1>1, <1>2, LimiterInvariance, ListInvariance, PTL DEF TunSpec

\* For any number of cores: though kill -9 gives cpulimit no chance to resume its
\* target, and may overtake the handler of its SIGTERM, when stop_tunning.sh has
\* ended no while1 is stopped without a limiter that will resume it, whenever the
\* script was run, but for one whose line sed dropped (stop_tunning.sh:3-21).
THEOREM NothingFrozen ==
    ASSUME ~OpenMayFail, ~PidReuse, Modes \subseteq {"pid"}
    PROVE  TunSpec => []NoFrozenLoad
<1>1. LimitersInv /\ FrozenInv => NoFrozenLoad
  BY DEF LimitersInv, FrozenInv, NoFrozenLoad, Held
<1> QED
  BY <1>1, LimiterInvariance, FrozenInvariance, PTL
=============================================================================
