--------------------------- MODULE CpuLimitProofs ---------------------------
(***************************************************************************)
(* What module CpuLimit promises for every set of limiters and pids.       *)
(***************************************************************************)
EXTENDS CpuLimit, TLAPS

\* Where every descriptor is: each successful search left one directory stream
\* open, and the stream of the search that is on is the only other one.
Accounted ==
    \A l \in Limiters :
        /\ pc[l] \in {"scan", "probeStop", "probeCont"} => fds[l] = found[l] + 1
        /\ pc[l] \in {"unborn", "open", "nap"} \cup Loop => fds[l] = found[l]

TypeInv == TypeOK /\ Accounted

\* What the control flow alone says of the variables: a started limiter has a
\* command line, and the pid it names does not change; only a limit below 100
\* stops, and only with a descriptor left; only what may be signalled stops, and
\* what was lost is stopped.
LimiterInv(l) ==
    /\ IF pc[l] = "unborn" THEN args[l] = NoArgs ELSE args[l] \in Args
    /\ args[l].mode = "pid" => pid[l] = args[l].target
    /\ pc[l] \in {"probeStop", "probeCont"} /\ args[l].mode = "exe" => cand[l] \in Pids
    /\ pc[l] \in {"cont", "stop", "rest"} => args[l].limit # "full"
    /\ pc[l] \in {"cont", "work", "stop", "rest"} => CanOpen(l)

ControlInv ==
    /\ \A l \in Limiters : LimiterInv(l)
    /\ \A p \in Pids : IsStopped(p) => table[p].exe # "foreign"
    /\ \A p \in lost : IsStopped(p)

-----------------------------------------------------------------------------
\* The type invariant with the strengthening it needs, for every action of
\* cpulimit.c and of the processes around it.
LEMMA TypeStep == TypeInv /\ ControlInv /\ [Next]_vars => TypeInv'
<1> SUFFICES ASSUME TypeInv, ControlInv, [Next]_vars PROVE TypeInv'
  OBVIOUS
<1> USE PidsAssumption, LimitAssumption
        DEF TypeInv, TypeOK, TableOK, Accounted, history, Losing
<1>1. CASE UNCHANGED vars
  BY <1>1 DEF vars
<1>2. ASSUME NEW l \in Limiters, NEW a \in Args, Start(l, a) PROVE TypeInv'
  BY <1>2 DEF Start, Goto, Args, PcState, Search, NoArgs, Loop
<1>3. ASSUME NEW l \in Limiters, Step(l) PROVE TypeInv'
  <2>1. CASE OpenProc(l)
    BY <2>1 DEF OpenProc, CanOpen, Goto, PcState, Search, Loop
  <2>2. CASE OpenProcFails(l)
    BY <2>2 DEF OpenProcFails, Goto, PcState, Loop
  <2>3. CASE Scan(l)
    BY <2>3 DEF Scan, Goto, PcState, Search, Loop
  <2>4. CASE ScanEnd(l)
    BY <2>4 DEF ScanEnd, Goto, PcState, Search, Gone, Loop
  <2>5. CASE ProbeStop(l)
    <3>1. table' \in [Pids -> Slot]
      BY <2>5 DEF ProbeStop, Signalable, Exists, Stopped, Slot, States
    <3> QED
      BY <2>5, <3>1 DEF ProbeStop, Goto, PcState, Search, Loop
  <2>6. CASE ProbeCont(l)
    <3>1. CASE Signalable(Probed(l))
      <4>1. table' \in [Pids -> Slot] /\ Probed(l) \in Pids
        BY <2>6, <3>1 DEF ProbeCont, Signalable, Exists, Continued, Slot, States
      <4>2. found' = [found EXCEPT ![l] = @ + 1] /\ found[l] + 1 = fds[l]
        BY <2>6, <3>1 DEF ProbeCont
      <4>3. found' \in [Limiters -> 0..MaxFds]
        BY <4>2
      <4>4. Accounted'
        BY <2>6, <4>2 DEF ProbeCont, Goto, Loop
      <4>5. lost' \subseteq Pids
        BY <2>6, <3>1 DEF ProbeCont
      <4>6. /\ pc' \in [Limiters -> PcState]
            /\ pid' \in [Limiters -> Pids \cup {-1, 0}]
            /\ prio' \in [Limiters -> {"normal", "low", "high"}]
        BY <2>6, <3>1, <4>1 DEF ProbeCont, Goto, PcState, Loop
      <4>7. UNCHANGED <<args, cand, cursor, fds, fresh>>
        BY <2>6 DEF ProbeCont
      <4> QED
        BY <4>1, <4>3, <4>4, <4>5, <4>6, <4>7
    <3>2. CASE ~Signalable(Probed(l))
      BY <2>6, <3>2 DEF ProbeCont, Goto, PcState, Search, Loop
    <3> QED
      BY <3>1, <3>2
  <2>7. CASE Nap(l)
    BY <2>7 DEF Nap, Goto, PcState, Search, Loop
  <2>8. CASE Sample(l)
    BY <2>8 DEF Sample, Dead, Goto, PcState, Search, Loop, Gone
  <2>9. CASE Cont(l)
    <3>1. table' \in [Pids -> Slot]
      BY <2>9 DEF Cont, Signalable, Exists, Continued, Slot, States
    <3> QED
      BY <2>9, <3>1 DEF Cont, Dead, Goto, PcState, Search, Loop, Gone
  <2>10. CASE Work(l)
    BY <2>10 DEF Work, Goto, PcState, Loop
  <2>11. CASE Stop(l)
    <3>1. table' \in [Pids -> Slot]
      BY <2>11 DEF Stop, Signalable, Exists, Stopped, Slot, States
    <3> QED
      BY <2>11, <3>1 DEF Stop, Dead, Goto, PcState, Search, Loop, Gone
  <2>12. CASE Rest(l)
    BY <2>12 DEF Rest, Goto, PcState, Loop
  <2> QED
    BY <1>3, <2>1, <2>2, <2>3, <2>4, <2>5, <2>6, <2>7, <2>8, <2>9, <2>10, <2>11, <2>12 DEF Step
<1>4. ASSUME NEW l \in Limiters, Quit(l) PROVE TypeInv'
  <2>1. table' \in [Pids -> Slot]
    BY <1>4 DEF Quit, ContinuedBy, Continued, Signalable, Exists, Slot, States
  <2> QED
    BY <1>4, <2>1 DEF Quit, Goto, PcState, Gone, Loop
<1>5. ASSUME NEW p \in Pids, NEW e \in Exes, Spawn(p, e) PROVE TypeInv'
  BY <1>5 DEF Spawn, SpawnAt, limVars, Slot, States
<1>6. ASSUME NEW p \in Pids, Exit(p) PROVE TypeInv'
  BY <1>6 DEF Exit, ExitOf, limVars, Slot, States
<1>7. ASSUME NEW p \in Pids, Reap(p) PROVE TypeInv'
  BY <1>7 DEF Reap, ReapOf, limVars, Slot, States
<1> QED
  BY <1>1, <1>2, <1>3, <1>4, <1>5, <1>6, <1>7 DEF Next, Environment

-----------------------------------------------------------------------------
\* What the handler's kill(pid,SIGCONT) does: it stops nobody, it leaves the
\* executables alone, and the process it names, if it may be signalled, runs.
LEMMA ContinuedByEffect ==
    TableOK =>
      \A x \in Pids \cup {-1, 0}, p \in Pids :
        /\ ContinuedBy(x)[p].exe = table[p].exe
        /\ ContinuedBy(x)[p].st = "stopped" => table[p].st = "stopped"
        /\ x = p /\ table[p].exe # "foreign" => ContinuedBy(x)[p].st # "stopped"
<1> SUFFICES ASSUME TableOK, NEW x \in Pids \cup {-1, 0}, NEW p \in Pids
             PROVE  /\ ContinuedBy(x)[p].exe = table[p].exe
                    /\ ContinuedBy(x)[p].st = "stopped" => table[p].st = "stopped"
                    /\ x = p /\ table[p].exe # "foreign" => ContinuedBy(x)[p].st # "stopped"
  OBVIOUS
<1> USE PidsAssumption DEF TableOK, Slot
<1>1. CASE x = -1
  BY <1>1 DEF ContinuedBy, Signalable, Exists, IsStopped
<1>2. CASE x # -1 /\ Signalable(x)
  BY <1>2 DEF ContinuedBy, Continued, Signalable, Exists
<1>3. CASE x # -1 /\ ~Signalable(x)
  BY <1>3 DEF ContinuedBy, Signalable, Exists
<1> QED
  BY <1>1, <1>2, <1>3

\* What the history calls lost is stopped.
LEMMA LostIsStopped ==
    ASSUME lost \subseteq Pids, NEW S \in SUBSET Pids, Losing(S)
    PROVE  \A p \in lost' : p \in Pids /\ table'[p].st = "stopped"
  BY DEF Losing

\* The control flow of waitforpid, getpidof and main keeps ControlInv.
LEMMA ControlStep == TypeInv /\ ControlInv /\ [Next]_vars => ControlInv'
<1> SUFFICES ASSUME TypeInv, ControlInv, [Next]_vars PROVE ControlInv'
  OBVIOUS
<1> USE PidsAssumption, LimitAssumption
        DEF TypeInv, TypeOK, TableOK, Slot, ControlInv, LimiterInv, IsStopped, history, CanOpen
<1>1. CASE UNCHANGED vars
  BY <1>1 DEF vars
<1>2. ASSUME NEW l \in Limiters, NEW a \in Args, Start(l, a) PROVE ControlInv'
  BY <1>2 DEF Start, Goto, Args
<1>3. ASSUME NEW l \in Limiters, Step(l) PROVE ControlInv'
  <2>1. CASE OpenProc(l)
    BY <2>1 DEF OpenProc, Goto
  <2>2. CASE OpenProcFails(l)
    BY <2>2 DEF OpenProcFails, Goto, Args
  <2>3. CASE Scan(l)
    BY <2>3 DEF Scan, Goto, Matches, IsNext, Entries
  <2>4. CASE ScanEnd(l)
    BY <2>4 DEF ScanEnd, Goto
  <2>5. CASE ProbeStop(l)
    <3>1. \A p \in Pids : /\ IsStopped(p)' => table'[p].exe # "foreign"
                          /\ IsStopped(p) => IsStopped(p)'
      BY <2>5 DEF ProbeStop, Signalable, Exists, Stopped
    <3>2. \A p \in lost' : IsStopped(p)'
      BY <2>5, <3>1 DEF ProbeStop
    <3>3. ASSUME NEW k \in Limiters PROVE LimiterInv(k)'
      BY <2>5 DEF ProbeStop, Goto
    <3> QED
      BY <3>1, <3>2, <3>3
  <2>6. CASE ProbeCont(l)
    <3>1. \A p \in Pids : IsStopped(p)' => table'[p].exe # "foreign"
      BY <2>6 DEF ProbeCont, Signalable, Exists, Continued
    <3>2. \A p \in lost' : IsStopped(p)'
      <4>1. CASE Signalable(Probed(l))
        BY <2>6, <4>1, LostIsStopped DEF ProbeCont
      <4>2. CASE ~Signalable(Probed(l))
        BY <2>6, <4>2 DEF ProbeCont
      <4> QED
        BY <4>1, <4>2
    <3> QED
      BY <2>6, <3>1, <3>2 DEF ProbeCont, Goto, Probed
  <2>7. CASE Nap(l)
    BY <2>7 DEF Nap, Goto
  <2>8. CASE Sample(l)
    <3>1. \A p \in lost' : IsStopped(p)'
      <4>1. table' = table /\ \A p \in lost' : p \in lost \/ (p \in Pids /\ IsStopped(p))
        BY <2>8 DEF Sample
      <4> QED
        BY <4>1
    <3>2. ASSUME NEW k \in Limiters, pc'[k] \in {"cont", "work", "stop", "rest"}
          PROVE  fds'[k] < MaxFds
      BY <2>8, <3>2 DEF Sample, Dead, Goto, CanRead
    <3> QED
      BY <2>8, <3>1, <3>2 DEF Sample, Dead, Goto
  <2>9. CASE Cont(l)
    <3>1. \A p \in Pids : IsStopped(p)' => table'[p].exe # "foreign"
      BY <2>9 DEF Cont, Signalable, Exists, Continued
    <3>2. \A p \in lost' : IsStopped(p)'
      <4>1. CASE Signalable(pid[l])
        BY <2>9, <4>1, LostIsStopped DEF Cont
      <4>2. CASE ~Signalable(pid[l])
        BY <2>9, <4>2 DEF Cont
      <4> QED
        BY <4>1, <4>2
    <3> QED
      BY <2>9, <3>1, <3>2 DEF Cont, Dead, Goto
  <2>10. CASE Work(l)
    BY <2>10 DEF Work, Goto
  <2>11. CASE Stop(l)
    <3>1. \A p \in Pids : /\ IsStopped(p)' => table'[p].exe # "foreign"
                          /\ IsStopped(p) => IsStopped(p)'
      BY <2>11 DEF Stop, Signalable, Exists, Stopped
    <3>2. \A p \in lost' : IsStopped(p)'
      BY <2>11, <3>1 DEF Stop
    <3>3. ASSUME NEW k \in Limiters PROVE LimiterInv(k)'
      BY <2>11 DEF Stop, Dead, Goto
    <3> QED
      BY <3>1, <3>2, <3>3
  <2>12. CASE Rest(l)
    BY <2>12 DEF Rest, Goto
  <2> QED
    BY <1>3, <2>1, <2>2, <2>3, <2>4, <2>5, <2>6, <2>7, <2>8, <2>9, <2>10, <2>11, <2>12 DEF Step
<1>4. ASSUME NEW l \in Limiters, Quit(l) PROVE ControlInv'
  <2>1. \A p \in Pids : table'[p].exe = table[p].exe /\ (IsStopped(p)' => IsStopped(p))
    <3> SUFFICES ASSUME NEW p \in Pids
                 PROVE  table'[p].exe = table[p].exe /\ (IsStopped(p)' => IsStopped(p))
      OBVIOUS
    <3>1. PICK x \in Pids \cup {-1, 0} : x = pid[l]
      OBVIOUS
    <3>2. table' = ContinuedBy(x)
      BY <1>4, <3>1 DEF Quit, ContinuedBy
    <3>3. /\ ContinuedBy(x)[p].exe = table[p].exe
          /\ ContinuedBy(x)[p].st = "stopped" => table[p].st = "stopped"
      BY ContinuedByEffect
    <3> QED
      BY <3>2, <3>3 DEF IsStopped
  <2>2. /\ pc' = [pc EXCEPT ![l] = "exit0"] /\ pc[l] # "unborn"
        /\ UNCHANGED <<args, pid, cand, fds>>
        /\ \A p \in lost' : p \in Pids /\ table'[p].st = "stopped"
    BY <1>4 DEF Quit, IsLive, Search, Loop, Goto, Losing
  <2> QED
    BY <2>1, <2>2
<1>5. ASSUME NEW p \in Pids, NEW e \in Exes, Spawn(p, e) PROVE ControlInv'
  BY <1>5 DEF Spawn, SpawnAt, limVars
<1>6. ASSUME NEW p \in Pids, Exit(p) PROVE ControlInv'
  BY <1>6 DEF Exit, ExitOf, limVars, Losing
<1>7. ASSUME NEW p \in Pids, Reap(p) PROVE ControlInv'
  BY <1>7 DEF Reap, ReapOf, limVars
<1> QED
  BY <1>1, <1>2, <1>3, <1>4, <1>5, <1>6, <1>7 DEF Next, Environment

LEMMA Invariance == Spec => [](TypeInv /\ ControlInv)
<1>1. Init => TypeInv /\ ControlInv
  BY LimitAssumption DEF Init, TypeInv, Accounted, TypeOK, TableOK, Slot, States, Exes,
     PcState, ControlInv, LimiterInv, IsStopped, NoArgs
<1> QED
  BY <1>1, TypeStep, ControlStep, PTL DEF Spec

\* cpulimit.c keeps its variables within their types, whatever processes come,
\* go and reuse pids, and whenever opendir fails or a signal arrives.
THEOREM TypeCorrect == Spec => []TypeOK
<1>1. TypeInv => TypeOK
  BY DEF TypeInv
<1> QED
  BY <1>1, Invariance, PTL

-----------------------------------------------------------------------------
(***************************************************************************)
(* cpulimit implements Custody.  The abstract state is the table without   *)
(* the executables, the process in the hands of each limiter, and lost.    *)
(***************************************************************************)
St == [p \in Pids |-> table[p].st]
Wd == [l \in Limiters |-> Ward(l)]

\* What a limiter does leaves the others with what they have in their hands.
LEMMA OthersKeep ==
    ASSUME TypeInv, NEW l \in Limiters,
           Step(l) \/ Quit(l) \/ \E a \in Args : Start(l, a)
    PROVE  Wd' = [Wd EXCEPT ![l] = Ward(l)']
<1>1. ASSUME NEW k \in Limiters, k # l
      PROVE  /\ pc'[k] = pc[k] /\ args'[k] = args[k] /\ pid'[k] = pid[k]
             /\ cand'[k] = cand[k] /\ fds'[k] = fds[k]
  BY <1>1 DEF TypeInv, TypeOK, Step, Quit, Start, OpenProc, OpenProcFails, Scan, ScanEnd,
     ProbeStop, ProbeCont, Nap, Sample, Cont, Work, Stop, Rest, Dead, Goto
<1>2. ASSUME NEW k \in Limiters, k # l PROVE Ward(k)' = Ward(k)
  BY <1>1, <1>2 DEF Ward, Probed, CanOpen
<1> QED
  BY <1>2 DEF Wd

\* A process that cannot be signalled is not stopped; the one probed is a process.
LEMMA UnsignalledRuns ==
    ASSUME ControlInv, NEW p \in Pids, ~Signalable(p) PROVE ~IsStopped(p)
  BY DEF ControlInv, Signalable, Exists, IsStopped

LEMMA ProbedIsProcess ==
    ASSUME ControlInv, NEW l \in Limiters, pc[l] \in {"probeStop", "probeCont"}
    PROVE  Probed(l) \in Pids
<1>1. args[l] \in Args /\ LimiterInv(l)
  BY DEF ControlInv, LimiterInv
<1>2. args[l].mode \in {"pid", "exe"} /\ args[l].target \in Pids
  BY <1>1, LimitAssumption DEF Args
<1> QED
  BY <1>1, <1>2 DEF LimiterInv, Probed

\* A limiter that lets go of a ward that is not stopped, and resumes nobody.
LEMMA LetsGo ==
    ASSUME TypeInv, NEW l \in Limiters, Wd' = [Wd EXCEPT ![l] = 0],
           St' = St, lost' = lost, ControlInv,
           Ward(l) \in Pids => ~IsStopped(Ward(l))
    PROVE  Custodians!Leave(l, {})
<1> DEFINE w == Wd[l]
<1>1. w = Ward(l)
  BY DEF Wd
<1>2. lost' = {p \in lost \cup {w} : p \in Pids /\ St'[p] = "stopped"}
  BY <1>1 DEF TypeInv, TypeOK, ControlInv, IsStopped, St
<1>3. St' = [p \in Pids |-> IF p \in {} /\ St[p] = "stopped" THEN "running" ELSE St[p]]
  BY DEF St
<1> QED
  BY <1>2, <1>3 DEF Custodians!Leave, Custodians!Hands, St, Wd

\* Every step of a limiter on its own.
LEMMA StepIsCustody ==
    ASSUME TypeInv, ControlInv, NEW l \in Limiters, Step(l)
    PROVE  Custodians!Next \/ UNCHANGED <<St, Wd, lost>>
<1> USE PidsAssumption, LimitAssumption DEF TypeInv, TypeOK, TableOK, Slot, history
<1>0. Wd' = [Wd EXCEPT ![l] = Ward(l)'] /\ Wd[l] = Ward(l)
  BY OthersKeep DEF Wd
<1>a. LimiterInv(l)
  BY DEF ControlInv
\* The three kinds of step: silent, letting go, and signalling.
<1>b. ASSUME table' = table, lost' = lost, Ward(l)' = Ward(l)
      PROVE  UNCHANGED <<St, Wd, lost>>
  BY <1>0, <1>b DEF St, Wd
<1>c. ASSUME table' = table, lost' = lost, Ward(l)' = 0,
             Ward(l) \in Pids => ~IsStopped(Ward(l))
      PROVE  Custodians!Next
  <2>1. Custodians!Leave(l, {})
    BY <1>0, <1>c, LetsGo DEF St
  <2> QED
    BY <2>1 DEF Custodians!Next
<1>d. ASSUME NEW p \in Pids, table' = Stopped(p), lost' = lost, Ward(l) \in {0, p},
             Ward(l)' = p
      PROVE  Custodians!Next
  <2>1. St' = [St EXCEPT ![p] = IF St[p] = "running" THEN "stopped" ELSE St[p]]
    <3>1. \A q \in Pids : table'[q].st = IF q = p /\ table[q].st = "running"
                                          THEN "stopped" ELSE table[q].st
      BY <1>d DEF Stopped
    <3> QED
      BY <3>1 DEF St
  <2>2. Custodians!Stop(l, p)
    BY <1>0, <1>d, <2>1 DEF Custodians!Stop, Custodians!Hands, Custodians!Becomes, St, Wd
  <2> QED
    BY <2>2 DEF Custodians!Next
<1>e. ASSUME NEW p \in Pids, table' = Continued(p), Losing({}), Ward(l) = p,
             Ward(l)' \in {0, p}
      PROVE  Custodians!Next
  <2>1. St' = [St EXCEPT ![p] = IF St[p] = "stopped" THEN "running" ELSE St[p]]
    <3>1. \A q \in Pids : table'[q].st = IF q = p /\ table[q].st = "stopped"
                                          THEN "running" ELSE table[q].st
      BY <1>e DEF Continued
    <3> QED
      BY <3>1 DEF St
  <2>2. lost' = lost \ {p}
    BY <1>e DEF Losing, Continued, ControlInv, IsStopped
  <2>3. Custodians!Resume(l, p)
    BY <1>0, <1>e, <2>1, <2>2
       DEF Custodians!Resume, Custodians!Hands, Custodians!Becomes, St, Wd
  <2> QED
    BY <2>3 DEF Custodians!Next
<1>1. CASE OpenProc(l) \/ Scan(l) \/ ScanEnd(l) \/ Nap(l) \/ Work(l) \/ Rest(l)
  <2>1. Ward(l)' = Ward(l)
    BY <1>1, <1>a DEF OpenProc, Scan, ScanEnd, Nap, Work, Rest, Goto, Ward, Loop, CanOpen
  <2> QED
    BY <1>1, <1>b, <2>1 DEF OpenProc, Scan, ScanEnd, Nap, Work, Rest
<1>2. CASE OpenProcFails(l)
  <2>1. Ward(l) = 0 /\ Ward(l)' \in Pids \cup {0} /\ table' = table /\ lost' = lost
    BY <1>2 DEF OpenProcFails, Ward, Loop, Goto
  <2>2. CASE Ward(l)' = 0
    BY <1>b, <2>1, <2>2
  <2>3. CASE Ward(l)' \in Pids
    <3>1. Custodians!Take(l, Ward(l)')
      BY <1>0, <2>1, <2>3 DEF Custodians!Take, Custodians!Hands, St, Wd
    <3> QED
      BY <2>3, <3>1 DEF Custodians!Next
  <2> QED
    BY <2>1, <2>2, <2>3
<1>3. CASE ProbeStop(l)
  <2>1. CASE Signalable(Probed(l))
    <3>1. /\ Probed(l) \in Pids /\ table' = Stopped(Probed(l)) /\ lost' = lost
          /\ Ward(l) = 0
      BY <1>3, <2>1 DEF ProbeStop, Signalable, Exists, Ward, Loop
    <3>2. Ward(l)' = Probed(l)
      BY <1>3, <2>1 DEF ProbeStop, Ward, Goto, Probed
    <3> QED
      BY <1>d, <3>1, <3>2
  <2>2. CASE ~Signalable(Probed(l))
    <3>1. Ward(l)' = Ward(l) /\ table' = table /\ lost' = lost
      BY <1>3, <2>2 DEF ProbeStop, Ward, Loop, Goto
    <3> QED
      BY <1>b, <3>1
  <2> QED
    BY <2>1, <2>2
<1>4. CASE ProbeCont(l)
  <2>0. Ward(l) = Probed(l) /\ Probed(l) \in Pids
    BY <1>4, ProbedIsProcess DEF ProbeCont, Ward
  <2>1. CASE Signalable(Probed(l))
    <3>1. table' = Continued(Probed(l)) /\ Losing({})
      BY <1>4, <2>1 DEF ProbeCont
    <3>2. Ward(l)' \in {0, Probed(l)}
      <4>1. pid'[l] = Probed(l) /\ pc'[l] = "sample"
        BY <1>4, <2>1 DEF ProbeCont, Goto
      <4> QED
        BY <4>1 DEF Ward
    <3> QED
      BY <1>e, <2>0, <3>1, <3>2
  <2>2. CASE ~Signalable(Probed(l))
    <3>1. Ward(l)' = 0 /\ table' = table /\ lost' = lost
      BY <1>4, <2>2 DEF ProbeCont, Ward, Loop, Goto
    <3> QED
      BY <1>c, <2>0, <2>2, <3>1, UnsignalledRuns
  <2> QED
    BY <2>1, <2>2
\* The loop is left for a process that cannot be signalled.
<1>5. ASSUME pc[l] \in {"cont", "stop"}, Dead(l), ~Signalable(pid[l]),
             table' = table, lost' = lost, UNCHANGED <<args, pid, cand, fds>>
      PROVE  Custodians!Next
  <2>1. Ward(l)' = 0 /\ (Ward(l) \in Pids => Ward(l) = pid[l])
    BY <1>5 DEF Dead, Goto, Ward, Loop
  <2> QED
    BY <1>5, <1>c, <2>1, UnsignalledRuns
<1>6. CASE Sample(l)
  <2>1. CASE pc'[l] \in {"cont", "work"}
    <3>1. Ward(l)' = Ward(l)
      BY <1>6, <2>1 DEF Sample, Ward, Loop, Goto, CanOpen
    <3>2. table' = table /\ lost' = lost
      BY <1>6, <2>1 DEF Sample, Dead, Goto
    <3> QED
      BY <1>b, <3>1, <3>2
  <2>2. CASE pc'[l] \notin {"cont", "work"}
    <3>1. /\ Dead(l) /\ table' = table /\ pc[l] = "sample"
          /\ ~CanRead(l) \/ OpenMayFail
          /\ lost' = lost \cup {p \in Pids : OpenMayFail /\ IsStopped(p) /\ Ward(l) = p}
      BY <1>6, <2>2 DEF Sample, Goto
    <3>2. Ward(l)' = 0
      BY <3>1 DEF Dead, Goto, Ward, Loop
    <3>3. ASSUME NEW p \in Pids, Ward(l) = p, IsStopped(p) PROVE OpenMayFail
      BY <3>1, <3>3 DEF Ward, CanRead, Exists, IsStopped
    <3>4. lost' = {p \in lost \cup {Ward(l)} : p \in Pids /\ IsStopped(p)}
      BY <3>1, <3>3 DEF ControlInv
    <3>5. lost' = {p \in lost \cup {Wd[l]} : p \in Pids /\ St'[p] = "stopped"}
      BY <1>0, <3>1, <3>4 DEF St, IsStopped
    <3>6. St' = [p \in Pids |-> IF p \in {} /\ St[p] = "stopped" THEN "running" ELSE St[p]]
      BY <3>1 DEF St
    <3>7. Custodians!Leave(l, {})
      BY <1>0, <3>2, <3>5, <3>6 DEF Custodians!Leave, Custodians!Hands, St, Wd
    <3> QED
      BY <3>7 DEF Custodians!Next
  <2> QED
    BY <2>1, <2>2
<1>7. CASE Cont(l) \/ Stop(l)
  <2>1. CASE Signalable(pid[l])
    <3>1. Ward(l) = pid[l] /\ Ward(l)' = pid[l] /\ pid[l] \in Pids
      BY <1>7, <1>a, <2>1 DEF Cont, Stop, Ward, Loop, Goto, LimiterInv, Signalable, Exists, CanOpen
    <3>2. \/ table' = Continued(pid[l]) /\ Losing({})
          \/ table' = Stopped(pid[l]) /\ lost' = lost
      BY <1>7, <2>1 DEF Cont, Stop
    <3> QED
      BY <1>d, <1>e, <3>1, <3>2
  <2>2. CASE ~Signalable(pid[l])
    BY <1>5, <1>7, <2>2 DEF Cont, Stop
  <2> QED
    BY <2>1, <2>2
<1> QED
  BY <1>1, <1>2, <1>3, <1>4, <1>6, <1>7 DEF Step

LEMMA QuitIsCustody ==
    ASSUME TypeInv, ControlInv, NEW l \in Limiters, Quit(l)
    PROVE  Custodians!Next
<1> USE PidsAssumption DEF TypeInv, TypeOK, TableOK, Slot
<1> DEFINE S   == {p \in Pids : IsStopped(p) /\ table'[p].st # "stopped"}
           Cut == {p \in Pids : pc[l] = "probeCont" /\ args[l].mode = "exe" /\ cand[l] = p}
<1>0. Wd' = [Wd EXCEPT ![l] = 0] /\ Wd[l] = Ward(l)
  <2>1. Ward(l)' = 0
    BY DEF Quit, Goto, Ward, Loop
  <2> QED
    BY <2>1, OthersKeep DEF Wd
<1>1. table' = ContinuedBy(pid[l]) /\ Losing(Cut)
  BY DEF Quit
<1>2. \A p \in Pids : table'[p].st = IF p \in S THEN "running" ELSE table[p].st
  BY <1>1 DEF ContinuedBy, Continued, Signalable, Exists, IsStopped
<1>3. \A p \in Pids : p = pid[l] => table'[p].st # "stopped"
  <2> SUFFICES ASSUME NEW p \in Pids, p = pid[l], table'[p].st = "stopped" PROVE FALSE
    OBVIOUS
  <2>1. IsStopped(p)
    BY <1>2 DEF IsStopped
  <2>2. Signalable(p)
    BY <2>1 DEF ControlInv, Signalable, Exists, IsStopped
  <2>3. p # -1
    OBVIOUS
  <2> QED
    BY <1>1, <2>2, <2>3 DEF ContinuedBy, Continued
<1>4. ASSUME NEW p \in Pids, table'[p].st = "stopped" PROVE p = Ward(l) <=> p \in Cut
  <2>1. p # pid[l]
    BY <1>3, <1>4
  <2>2. p \in Cut => Ward(l) = p
    BY DEF Ward, Probed
  <2>3. Ward(l) = p => pc[l] = "probeCont" /\ args[l].mode # "pid" /\ cand[l] = p
    BY <2>1 DEF Ward, Probed
  <2>4. pc[l] = "probeCont" => args[l].mode \in {"pid", "exe"}
    BY LimitAssumption DEF ControlInv, LimiterInv, Args
  <2> QED
    BY <2>2, <2>3, <2>4
<1>5. lost' = {p \in lost \cup {Ward(l)} : p \in Pids /\ table'[p].st = "stopped"}
  BY <1>1, <1>4 DEF Losing
<1>6. lost' = {p \in lost \cup {Wd[l]} : p \in Pids /\ St'[p] = "stopped"}
  BY <1>0, <1>5 DEF St
<1>7. St' = [p \in Pids |-> IF p \in S /\ St[p] = "stopped" THEN "running" ELSE St[p]]
  BY <1>2 DEF St, IsStopped
<1> HIDE DEF S
<1>8. ASSUME NEW T \in SUBSET Pids, T = S PROVE Custodians!Leave(l, T)
  BY <1>0, <1>6, <1>7, <1>8 DEF Custodians!Leave, Custodians!Hands, St, Wd
<1>9. S \in SUBSET Pids
  BY DEF S
<1>10. \E T \in SUBSET Pids : Custodians!Leave(l, T)
  BY <1>8, <1>9, Zenon
<1> HIDE DEF Cut
<1> QED
  BY <1>10 DEF Custodians!Next

LEMMA NextIsCustody ==
    TypeInv /\ ControlInv /\ [Next]_vars => [Custodians!Next]_(Custodians!vars)
<1> SUFFICES ASSUME TypeInv, ControlInv, [Next]_vars
             PROVE  Custodians!Next \/ UNCHANGED <<St, Wd, lost>>
  BY DEF Custodians!vars, St, Wd
<1> USE DEF TypeInv, TypeOK, TableOK, Slot
<1>1. CASE UNCHANGED vars
  BY <1>1 DEF vars, St, Wd, Ward, Probed, CanOpen
<1>2. ASSUME NEW l \in Limiters, NEW a \in Args, Start(l, a)
      PROVE  UNCHANGED <<St, Wd, lost>>
  <2>1. Wd' = [Wd EXCEPT ![l] = Ward(l)'] /\ Wd[l] = Ward(l)
    BY <1>2, OthersKeep DEF Wd
  <2>2. Ward(l)' = 0 /\ Ward(l) = 0
    BY <1>2 DEF Start, Ward, Goto, Loop
  <2> QED
    BY <1>2, <2>1, <2>2 DEF St, Wd, Start, history
<1>3. ASSUME NEW l \in Limiters, Step(l) \/ Quit(l)
      PROVE  Custodians!Next \/ UNCHANGED <<St, Wd, lost>>
  BY <1>3, StepIsCustody, QuitIsCustody
\* The processes: what the limiters have in their hands does not change.
<1>4. ASSUME UNCHANGED limVars PROVE Wd' = Wd
  BY <1>4 DEF limVars, Wd, Ward, Probed, CanOpen
<1>5. ASSUME NEW p \in Pids, NEW e \in Exes, Spawn(p, e) PROVE Custodians!Next
  <2>1. /\ St' = [St EXCEPT ![p] = "running"] /\ St[p] = "absent"
        /\ lost' = lost /\ UNCHANGED limVars
    BY <1>5 DEF Spawn, SpawnAt, St
  <2>2. Custodians!Begin(p)
    BY <1>4, <2>1 DEF Custodians!Begin, Custodians!Becomes, St, Wd
  <2> QED
    BY <2>2 DEF Custodians!Next
<1>6. ASSUME NEW p \in Pids, Exit(p) PROVE Custodians!Next
  <2>1. /\ St' = [St EXCEPT ![p] = "zombie"] /\ St[p] \in {"running", "stopped"}
        /\ UNCHANGED limVars
    BY <1>6 DEF Exit, ExitOf, Alive, St
  <2>2. lost' = lost \ {p}
    BY <1>6 DEF Exit, ExitOf, Losing, ControlInv, IsStopped
  <2>3. Custodians!End(p)
    BY <1>4, <2>1, <2>2 DEF Custodians!End, Custodians!Becomes, St, Wd
  <2> QED
    BY <2>3 DEF Custodians!Next
<1>7. ASSUME NEW p \in Pids, Reap(p) PROVE Custodians!Next
  <2>1. /\ St' = [St EXCEPT ![p] = "absent"] /\ St[p] = "zombie"
        /\ lost' = lost /\ UNCHANGED limVars
    BY <1>7 DEF Reap, ReapOf, St
  <2>2. Custodians!Reaped(p)
    BY <1>4, <2>1 DEF Custodians!Reaped, Custodians!Becomes, St, Wd
  <2> QED
    BY <2>2 DEF Custodians!Next
<1> QED
  BY <1>1, <1>2, <1>3, <1>5, <1>6, <1>7 DEF Next, Environment

\* cpulimit implements Custody: whatever the limiters, the users and the processes
\* do, and whatever files cannot be opened, a limiter stops no process but the one
\* in its hands, and lets go of a stopped one in the two accidents only.
THEOREM ImplementsCustody == Spec => InCustody
<1>1. Init => Custodians!Init
  BY DEF Init, Custodians!Init, Ward, Loop
<1> QED
  BY <1>1, NextIsCustody, Invariance, PTL DEF Spec, InCustody, Custodians!Spec

\* In Custody itself a process that is not stopped without a keeper, and is not
\* lost, does not get so.
LEMMA CustodyKeeps ==
    ASSUME TypeInv, [Custodians!Next]_(Custodians!vars), NEW p0 \in Pids,
           St[p0] = "stopped" => p0 \in lost \/ \E k \in Limiters : Wd[k] = p0
    PROVE  (St[p0] = "stopped" => p0 \in lost \/ \E k \in Limiters : Wd[k] = p0)'
<1> DEFINE kept == St[p0] = "stopped" => p0 \in lost \/ \E k \in Limiters : Wd[k] = p0
<1>0. kept /\ St = [p \in Pids |-> St[p]] /\ Wd = [k \in Limiters |-> Wd[k]]
  BY DEF St, Wd
<1>1. SUFFICES kept'
  OBVIOUS
<1>2. CASE UNCHANGED Custodians!vars
  BY <1>0, <1>2 DEF Custodians!vars, St, Wd
<1>3. ASSUME NEW p \in Pids, Custodians!Begin(p) \/ Custodians!End(p) \/ Custodians!Reaped(p)
      PROVE  kept'
  <2>1. \A q \in Pids : St'[q] = "stopped" => St[q] = "stopped" /\ q # p
    BY <1>3 DEF Custodians!Begin, Custodians!End, Custodians!Reaped, Custodians!Becomes, St
  <2>2. Wd' = Wd /\ lost \ {p} \subseteq lost'
    BY <1>3 DEF Custodians!Begin, Custodians!End, Custodians!Reaped, Wd
  <2> QED
    BY <1>0, <2>1, <2>2
<1>4. ASSUME NEW k \in Limiters, NEW p \in Pids,
             Custodians!Take(k, p) \/ Custodians!Stop(k, p) \/ Custodians!Resume(k, p)
      PROVE  kept'
  <2>1. \/ Wd' = [Wd EXCEPT ![k] = p] /\ Wd[k] \in {0, p}
        \/ Wd' = [Wd EXCEPT ![k] = 0] /\ Wd[k] = p
    BY <1>4 DEF Custodians!Take, Custodians!Stop, Custodians!Resume, Custodians!Hands, Wd
  <2>2. lost \ {p} \subseteq lost'
    BY <1>4 DEF Custodians!Take, Custodians!Stop, Custodians!Resume
  <2>3. \A q \in Pids : q # p /\ St'[q] = "stopped" => St[q] = "stopped"
    BY <1>4 DEF Custodians!Take, Custodians!Stop, Custodians!Resume, Custodians!Becomes, St
  <2>4. Wd'[k] # p => St'[p] # "stopped"
    <3> SUFFICES ASSUME Wd'[k] # p PROVE St'[p] # "stopped"
      OBVIOUS
    <3>1. Custodians!Resume(k, p)
      BY <1>4 DEF Custodians!Take, Custodians!Stop, Custodians!Hands, Wd
    <3>2. St' = [St EXCEPT ![p] = IF St[p] = "stopped" THEN "running" ELSE St[p]]
      BY <3>1 DEF Custodians!Resume, Custodians!Becomes, St
    <3> QED
      BY <1>0, <3>2 DEF St
  <2> QED
    BY <1>0, <2>1, <2>2, <2>3, <2>4, PidsAssumption
<1>5. ASSUME NEW k \in Limiters, NEW S \in SUBSET Pids, Custodians!Leave(k, S)
      PROVE  kept'
  <2>1. Wd' = [Wd EXCEPT ![k] = 0]
    BY <1>5 DEF Custodians!Leave, Custodians!Hands, Wd
  <2>2. \A q \in Pids : St'[q] = "stopped" => St[q] = "stopped"
    BY <1>5 DEF Custodians!Leave, St
  <2>3. lost' = {q \in lost \cup {Wd[k]} : q \in Pids /\ St'[q] = "stopped"}
    BY <1>5 DEF Custodians!Leave, St, Wd
  <2> QED
    BY <1>0, <2>1, <2>2, <2>3
<1> QED
  BY <1>2, <1>3, <1>4, <1>5 DEF Custodians!Next

\* So it is of every step of the limiters and the processes.
Held(p) == p \in lost \/ \E l \in Limiters : Ward(l) = p

LEMMA HeldStep ==
    ASSUME TypeInv, ControlInv, [Next]_vars, NEW p \in Pids, IsStopped(p) => Held(p)
    PROVE  IsStopped(p)' => Held(p)'
<1>1. [Custodians!Next]_(Custodians!vars)
  BY NextIsCustody
<1>2. St[p] = "stopped" => p \in lost \/ \E k \in Limiters : Wd[k] = p
  BY DEF St, Wd, IsStopped, Held
<1>3. (St[p] = "stopped" => p \in lost \/ \E k \in Limiters : Wd[k] = p)'
  BY <1>1, <1>2, CustodyKeeps
<1> QED
  BY <1>3 DEF St, Wd, IsStopped, Held

\* No process is left stopped: for any number of limiters on any processes, with
\* pids reused or not, with any opendir and fopen failing, every stopped process
\* is in the hands of a limiter that runs, the two accidents apart.
THEOREM NoneLeftStopped == Spec => []StoppedIsHeld
<1>1. Init => StoppedIsHeld
  BY DEF Init, StoppedIsHeld, IsStopped
<1>2. TypeInv /\ ControlInv /\ StoppedIsHeld /\ [Next]_vars => StoppedIsHeld'
  BY HeldStep DEF StoppedIsHeld, Held
<1> QED
  BY <1>1, <1>2, Invariance, PTL DEF Spec

-----------------------------------------------------------------------------
\* The pid of a stopped process is that of a limiter which no signal has ended.
PidHeld ==
    \A p \in Pids : IsStopped(p) =>
        \E l \in Limiters : pid[l] = p /\ pc[l] \notin {"unborn", "exit0"}

\* When targets are named by pid only, SIGINT and SIGTERM end cpulimit with its
\* target running, at whatever system call they arrive and whatever files could
\* not be opened before: quit keeps its promise.
THEOREM PidQuitResumes == ASSUME Modes = {"pid"} PROVE Spec => []QuitResumes
<1>1. Init => PidHeld
  BY DEF Init, PidHeld, IsStopped
<1>2. TypeInv /\ ControlInv /\ PidHeld /\ [Next]_vars => PidHeld'
  <2> SUFFICES ASSUME TypeInv, ControlInv, PidHeld, [Next]_vars,
                      NEW q \in Pids, IsStopped(q)'
               PROVE  \E k \in Limiters : pid'[k] = q /\ pc'[k] \notin {"unborn", "exit0"}
    BY DEF PidHeld
  <2> USE PidsAssumption, LimitAssumption DEF TypeInv, TypeOK, TableOK, Slot, IsStopped
  <2>0. \A l \in Limiters : pc[l] # "unborn" => args[l].mode = "pid"
    BY Modes = {"pid"} DEF ControlInv, LimiterInv, Args
  <2>1. ASSUME IsStopped(q),
               \A k \in Limiters : pc[k] \notin {"unborn", "exit0"} /\ pid[k] = q =>
                   pid'[k] = q /\ pc'[k] \notin {"unborn", "exit0"}
        PROVE  \E k \in Limiters : pid'[k] = q /\ pc'[k] \notin {"unborn", "exit0"}
    BY <2>1 DEF PidHeld
  <2>2. CASE UNCHANGED vars
    BY <2>1, <2>2 DEF vars
  <2>3. ASSUME NEW l \in Limiters, NEW a \in Args, Start(l, a)
        PROVE  \E k \in Limiters : pid'[k] = q /\ pc'[k] \notin {"unborn", "exit0"}
    BY <2>1, <2>3 DEF Start, Goto
  <2>4. ASSUME NEW l \in Limiters, Step(l)
        PROVE  \E k \in Limiters : pid'[k] = q /\ pc'[k] \notin {"unborn", "exit0"}
    <3>0. args[l].mode = "pid"
      BY <2>0, <2>4 DEF Step, OpenProc, OpenProcFails, Scan, ScanEnd, ProbeStop, ProbeCont,
         Nap, Sample, Cont, Work, Stop, Rest
    <3>1. pid' = pid /\ pc'[l] \notin {"unborn", "exit0"}
      BY <2>4, <3>0 DEF Step, OpenProc, OpenProcFails, Scan, ScanEnd, ProbeStop, ProbeCont,
         Nap, Sample, Cont, Work, Stop, Rest, Dead, Goto, Probed
    <3>2. \A k \in Limiters \ {l} : pc'[k] = pc[k]
      BY <2>4 DEF Step, OpenProc, OpenProcFails, Scan, ScanEnd, ProbeStop, ProbeCont,
         Nap, Sample, Cont, Work, Stop, Rest, Dead, Goto
    <3>3. CASE pid[l] = q
      BY <3>1, <3>3
    <3>4. CASE pid[l] # q
      <4>1. IsStopped(q)
        BY <2>4, <3>0, <3>4 DEF Step, OpenProc, OpenProcFails, Scan, ScanEnd, ProbeStop,
           ProbeCont, Nap, Sample, Cont, Work, Stop, Rest, Stopped, Continued, Signalable,
           Exists, Probed
      <4> QED
        BY <2>1, <3>1, <3>2, <4>1
    <3> QED
      BY <3>3, <3>4
  <2>5. ASSUME NEW l \in Limiters, Quit(l)
        PROVE  \E k \in Limiters : pid'[k] = q /\ pc'[k] \notin {"unborn", "exit0"}
    <3>0. PICK x \in Pids \cup {-1, 0} : x = pid[l]
      OBVIOUS
    <3>1. table' = ContinuedBy(x)
      BY <2>5, <3>0 DEF Quit, ContinuedBy
    <3>2. /\ ContinuedBy(x)[q].st = "stopped" => table[q].st = "stopped"
          /\ x = q /\ table[q].exe # "foreign" => ContinuedBy(x)[q].st # "stopped"
      BY ContinuedByEffect
    <3>3. IsStopped(q) /\ pid[l] # q
      BY <3>0, <3>1, <3>2 DEF ControlInv
    <3> QED
      BY <2>1, <2>5, <3>3 DEF Quit, Goto
  <2>6. ASSUME NEW p \in Pids, (\E e \in Exes : Spawn(p, e)) \/ Exit(p) \/ Reap(p)
        PROVE  \E k \in Limiters : pid'[k] = q /\ pc'[k] \notin {"unborn", "exit0"}
    <3>1. IsStopped(q)
      BY <2>6 DEF Spawn, SpawnAt, Exit, ExitOf, Reap, ReapOf
    <3> QED
      BY <2>1, <2>6, <3>1 DEF Spawn, Exit, Reap, limVars
  <2> QED
    BY <2>2, <2>3, <2>4, <2>5, <2>6 DEF Next, Environment
<1>3. PidHeld => QuitResumes
  BY DEF PidHeld, QuitResumes
<1> QED
  BY <1>1, <1>2, <1>3, Invariance, PTL DEF Spec

-----------------------------------------------------------------------------
\* "Process %d dead!" is false only for want of descriptors, and not before a
\* limiter has found as many targets as it may have files open: nothing but a
\* successful search leaves a descriptor behind.
THEOREM NoFalseDeath == ASSUME ~OpenMayFail PROVE Spec => DeathIsReal
<1> DEFINE RealDeath == \A l \in Limiters :
             pc[l] \in Loop /\ pc'[l] \in {"open", "exit2"} /\ Signalable(pid[l])
               => found[l] >= MaxFds
<1>1. TypeInv /\ [Next]_vars => [RealDeath]_vars
  <2> SUFFICES ASSUME TypeInv, Next, NEW l \in Limiters, pc[l] \in Loop,
                      pc'[l] \in {"open", "exit2"}, Signalable(pid[l])
               PROVE  found[l] >= MaxFds
    OBVIOUS
  <2> USE DEF TypeInv, TypeOK
  <2>1. pc'[l] # pc[l]
    BY DEF Loop
  <2>2. ASSUME NEW k \in Limiters, Step(k) PROVE found[l] >= MaxFds
    <3>1. k = l
      BY <2>1, <2>2 DEF Step, OpenProc, OpenProcFails, Scan, ScanEnd, ProbeStop, ProbeCont,
           Nap, Sample, Cont, Work, Stop, Rest, Dead, Goto
    <3>2. CASE Sample(l)
      <4>1. fds[l] = found[l]
        BY DEF Accounted
      <4>2. ~CanOpen(l)
        BY <3>2, ~OpenMayFail DEF Sample, Goto, CanRead, Signalable
      <4> QED
        BY <4>1, <4>2, LimitAssumption DEF CanOpen
    <3>3. CASE Cont(l) \/ Stop(l) \/ Work(l) \/ Rest(l)
      BY <3>3 DEF Cont, Stop, Work, Rest, Goto
    <3>4. CASE \/ OpenProc(l) \/ OpenProcFails(l) \/ Scan(l) \/ ScanEnd(l)
               \/ ProbeStop(l) \/ ProbeCont(l) \/ Nap(l)
      BY <3>4 DEF OpenProc, OpenProcFails, Scan, ScanEnd, ProbeStop, ProbeCont, Nap, Loop
    <3> QED
      BY <2>2, <3>1, <3>2, <3>3, <3>4 DEF Step
  <2>3. ASSUME NEW k \in Limiters, (\E a \in Args : Start(k, a)) \/ Quit(k) PROVE FALSE
    BY <2>1, <2>3 DEF Start, Quit, Goto, Loop
  <2>4. CASE Environment
    BY <2>1, <2>4 DEF Environment, Spawn, Exit, Reap, limVars
  <2> QED
    BY <2>2, <2>3, <2>4 DEF Next
<1> QED
  BY <1>1, Invariance, PTL DEF Spec, DeathIsReal
=============================================================================
