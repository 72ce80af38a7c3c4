------------------------------ MODULE Tunning -------------------------------
(***************************************************************************)
(* start_tunning.sh and stop_tunning.sh, which load chosen cores with      *)
(* while1 processes held to a percentage by one cpulimit each, composed    *)
(* with the limiters of module CpuLimit.                                   *)
(*                                                                         *)
(* A core is named by the limiter that start_tunning.sh runs for it.       *)
(* SIGTERM is pending until the process is scheduled: a while1 that is     *)
(* stopped notices it when it is resumed, a cpulimit runs its handler some *)
(* time after killall has gone on.  SIGKILL ends a process at once, its    *)
(* handler run or not.                                                     *)
(***************************************************************************)
EXTENDS CpuLimit

VARIABLES
    job,        \* the background execute() of each core
    load,       \* WHILE1_PID of each core
    stage,      \* where stop_tunning.sh is
    round,      \* its loop counter
    limList,    \* cpulimit processes it has yet to signal
    loadList,   \* while1 processes it has yet to signal
    pending,    \* while1 processes with a SIGTERM to come
    termed,     \* cpulimit processes with a SIGTERM to come
    early,      \* was a core still to be set up when stop_tunning.sh began
    dropped     \* history: the while1 processes that the latest ps did not list

signals    == <<pending, termed>>
scriptVars == <<job, load, stage, round, limList, loadList, signals, early, dropped>>
tunVars    == <<vars, scriptVars>>

Loads    == {p \in Pids : Alive(p)}
LiveLims == {l \in Limiters : IsLive(l)}

(***************************************************************************)
(* start_tunning.sh: execute() runs in the background for each core.       *)
(***************************************************************************)
\* execute has been forked or will be, and starts its while1.  The kernel gives
\* pids in order until they wrap.
RunWhile1(l) ==
    /\ job[l] = "none"
    /\ \E p \in Pids :
         /\ PidReuse \/ \A q \in fresh : p <= q
         /\ Spawn(p, "matching")
         /\ load' = [load EXCEPT ![l] = p]
    /\ job' = [job EXCEPT ![l] = "cpulimit"]
    /\ UNCHANGED <<stage, round, limList, loadList, signals, early, dropped>>

RunCpulimit(l) ==
    /\ job[l] = "cpulimit"
    /\ \E a \in Args : a.target = load[l] /\ Start(l, a)
    /\ job' = [job EXCEPT ![l] = "done"]
    /\ UNCHANGED <<load, stage, round, limList, loadList, signals, early, dropped>>

(***************************************************************************)
(* stop_tunning.sh.  Each stage signals the processes it listed, one by    *)
(* one, and then makes the next list.                                      *)
(***************************************************************************)
KillallWhile1 ==
    /\ stage = "idle"
    /\ stage' = "killall while1"
    /\ loadList' = Loads
    /\ early' = (\E l \in Limiters : job[l] # "done")
    /\ UNCHANGED <<vars, job, load, round, limList, signals, dropped>>

TermWhile1(p) ==
    /\ stage = "killall while1" /\ p \in loadList
    /\ loadList' = loadList \ {p}
    /\ pending' = IF Alive(p) THEN pending \cup {p} ELSE pending
    /\ UNCHANGED <<vars, job, load, stage, round, limList, termed, early, dropped>>

\* Mutant: no killall cpulimit, its list is taken from ps alone.
KillallCpulimitLeft ==
    /\ stage = "killall while1" /\ loadList = {}
    /\ stage' = "killall cpulimit"
    /\ limList' = {}
    /\ UNCHANGED <<vars, job, load, round, loadList, signals, early, dropped>>

KillallCpulimit ==
    /\ stage = "killall while1" /\ loadList = {}
    /\ stage' = "killall cpulimit"
    /\ limList' = LiveLims
    /\ UNCHANGED <<vars, job, load, round, loadList, signals, early, dropped>>

TermCpulimit(l) ==
    /\ stage = "killall cpulimit" /\ l \in limList
    /\ limList' = limList \ {l}
    /\ termed' = IF IsLive(l) THEN termed \cup {l} ELSE termed
    /\ UNCHANGED <<vars, job, load, stage, round, loadList, pending, early, dropped>>

\* ps aux | grep ... | sed '$d': the last line is taken for the grep itself.  It is
\* another process when pids have wrapped or ps was faster than grep's exec.
Listed(S, T) == T = S \/ \E x \in S : T = S \ {x}

PsCpulimit ==
    /\ \/ stage = "killall cpulimit" /\ limList = {}
       \/ stage = "kill -9" /\ limList = {} /\ loadList = {} /\ round < 2
    /\ round' = round + 1
    /\ \E T \in SUBSET LiveLims : Listed(LiveLims, T) /\ limList' = T
    /\ stage' = "ps while1"
    /\ UNCHANGED <<vars, job, load, loadList, signals, early, dropped>>

PsWhile1 ==
    /\ stage = "ps while1"
    /\ \E T \in SUBSET Loads :
         Listed(Loads, T) /\ loadList' = T /\ dropped' = Loads \ T
    /\ stage' = "kill -9"
    /\ UNCHANGED <<vars, job, load, round, limList, signals, early>>

Kill9Cpulimit(l) ==
    /\ stage = "kill -9" /\ l \in limList
    /\ limList' = limList \ {l}
    /\ Goto(l, IF IsLive(l) THEN "killed" ELSE pc[l])
    /\ termed' = termed \ {l}
    /\ UNCHANGED <<table, args, pid, cand, cursor, fds, prio, fresh, history,
                   job, load, stage, round, loadList, pending, early, dropped>>

\* Mutant: plain kill, which a stopped process does not notice.
KillWhile1(p) ==
    /\ stage = "kill -9" /\ limList = {} /\ p \in loadList
    /\ loadList' = loadList \ {p}
    /\ pending' = IF Alive(p) THEN pending \cup {p} ELSE pending
    /\ UNCHANGED <<vars, job, load, stage, round, limList, termed, early, dropped>>

Kill9While1(p) ==
    /\ stage = "kill -9" /\ limList = {} /\ p \in loadList
    /\ loadList' = loadList \ {p}
    /\ pending' = pending \ {p}
    /\ \/ Exit(p)
       \/ ~Alive(p) /\ UNCHANGED vars
    /\ UNCHANGED <<job, load, stage, round, limList, termed, early, dropped>>

EndScript ==
    /\ stage = "kill -9" /\ limList = {} /\ loadList = {} /\ round = 2
    /\ stage' = "done"
    /\ UNCHANGED <<vars, job, load, round, limList, loadList, signals, early, dropped>>

(***************************************************************************)
(* The limiters and the kernel.                                            *)
(***************************************************************************)
\* With a signal to come a process makes no further system call before its handler
\* runs; the call it is in took effect before.
LimiterStep(l) == l \notin termed /\ Step(l) /\ UNCHANGED scriptVars

\* The handler of a cpulimit that was sent SIGTERM runs at last.
Handle(l) ==
    /\ l \in termed
    /\ Quit(l)
    /\ termed' = termed \ {l}
    /\ UNCHANGED <<job, load, stage, round, limList, loadList, pending, early, dropped>>

\* The default action of SIGTERM, once the process runs.
DeliverTerm(p) ==
    /\ p \in pending /\ ~IsStopped(p)
    /\ Exit(p)
    /\ pending' = pending \ {p}
    /\ UNCHANGED <<job, load, stage, round, limList, loadList, termed, early, dropped>>

ReapZombie(p) == Reap(p) /\ UNCHANGED scriptVars
-----------------------------------------------------------------------------
TunInit ==
    /\ Init
    /\ job = [l \in Limiters |-> "none"]
    /\ load = [l \in Limiters |-> 0]
    /\ stage = "idle"
    /\ round = 0
    /\ limList = {} /\ loadList = {}
    /\ pending = {} /\ termed = {}
    /\ early = FALSE
    /\ dropped = {}

StartScript(l) == RunWhile1(l) \/ RunCpulimit(l)

StopScript ==
    \/ KillallCpulimit \/ PsCpulimit \/ PsWhile1 \/ EndScript
    \/ \E p \in Pids : TermWhile1(p) \/ Kill9While1(p)
    \/ \E l \in Limiters : TermCpulimit(l) \/ Kill9Cpulimit(l)

TunNext ==
    \/ \E l \in Limiters : StartScript(l) \/ LimiterStep(l) \/ Handle(l)
    \/ KillallWhile1 \/ StopScript
    \/ \E p \in Pids : DeliverTerm(p) \/ ReapZombie(p)

TunSpec == TunInit /\ [][TunNext]_tunVars

\* stop_tunning.sh goes on once it is run, and signals that can be delivered are, of
\* which there are finitely many; nothing is asked of start_tunning.sh, of the
\* limiters or of who reaps.
TunFairness ==
    WF_tunVars(\/ StopScript
               \/ \E l \in Limiters : Handle(l)
               \/ \E p \in Pids : DeliverTerm(p))

TunFairSpec == TunSpec /\ TunFairness

-----------------------------------------------------------------------------
(***************************************************************************)
(* Properties.                                                             *)
(***************************************************************************)

\* "./stop_tunning.sh  # stop CPU usage set of all cores" (README.txt:27): once
\* the script has ended, the machine comes to have no cpulimit and no while1 that
\* runs, though a stopped while1 does not notice killall's SIGTERM, and kill -9
\* may overtake the handler that would resume it.  What can be left is a while1
\* that is stopped, because sed dropped its line.  A core that start_tunning.sh had
\* not set up when the script began escapes it: nobody waits for the background
\* execute.
StopEndsLoad ==
    (stage = "done" /\ ~early) ~>
        [](LiveLims = {} /\ \A p \in Loads : IsStopped(p) /\ p \in dropped)

\* kill -9 gives cpulimit no chance to resume its target, whether or not it was
\* sent SIGTERM before (stop_tunning.sh:7, 16).  Yet stop_tunning.sh leaves no
\* while1 stopped without a limiter, whenever it is run: those whose limiter it
\* listed it lists and kills after it, but for the line that sed dropped.
NoFrozenLoad ==
    stage = "done" =>
        \A p \in Pids : IsStopped(p) =>
            p \in dropped \/ \E l \in Limiters : Ward(l) = p
=============================================================================
