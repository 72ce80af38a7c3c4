------------------------------ MODULE Custody ------------------------------
(***************************************************************************)
(* What cpulimit promises to the processes of a machine, whatever it does  *)
(* to hold a limit.  A keeper has at most one process in its hands, its    *)
(* ward; it stops no other, and it lets go of the ward only when that is   *)
(* not stopped.  Where it has to let go of a stopped one, the process is   *)
(* lost until somebody resumes it.                                         *)
(***************************************************************************)
CONSTANTS
    Pids,       \* the processes, 0 is none of them
    Keepers     \* those who may stop them

VARIABLES
    state,      \* what each process does
    ward,       \* the process in the hands of each keeper, or 0
    lost        \* the processes that were let go of while they were stopped

vars == <<state, ward, lost>>

Init ==
    /\ state = [p \in Pids |-> "absent"]
    /\ ward  = [k \in Keepers |-> 0]
    /\ lost  = {}

Becomes(p, st) == state' = [state EXCEPT ![p] = st]
Hands(k, p)    == ward' = [ward EXCEPT ![k] = p]

\* A process starts, ends, is reaped.
Begin(p)  == state[p] = "absent" /\ Becomes(p, "running") /\ UNCHANGED <<ward, lost>>
End(p)    == /\ state[p] \in {"running", "stopped"} /\ Becomes(p, "zombie")
             /\ lost' = lost \ {p}
             /\ UNCHANGED ward
Reaped(p) == state[p] = "zombie" /\ Becomes(p, "absent") /\ UNCHANGED <<ward, lost>>

\* A keeper whose hands are free takes a process, without stopping it.
Take(k, p) == ward[k] = 0 /\ Hands(k, p) /\ UNCHANGED <<state, lost>>

\* It stops its ward, or takes a process by stopping it.
Stop(k, p) ==
    /\ ward[k] \in {0, p} /\ Hands(k, p)
    /\ Becomes(p, IF state[p] = "running" THEN "stopped" ELSE state[p])
    /\ UNCHANGED lost

\* It resumes its ward, and keeps it or lets go of it.
Resume(k, p) ==
    /\ ward[k] = p /\ (Hands(k, p) \/ Hands(k, 0))
    /\ Becomes(p, IF state[p] = "stopped" THEN "running" ELSE state[p])
    /\ lost' = lost \ {p}

\* It resumes whom it likes and lets go of its ward, which is lost if still stopped.
Leave(k, S) ==
    /\ Hands(k, 0)
    /\ state' = [p \in Pids |-> IF p \in S /\ state[p] = "stopped" THEN "running"
                                ELSE state[p]]
    /\ lost' = {p \in lost \cup {ward[k]} : p \in Pids /\ state'[p] = "stopped"}

Next ==
    \/ \E p \in Pids : Begin(p) \/ End(p) \/ Reaped(p)
    \/ \E k \in Keepers, p \in Pids : Take(k, p) \/ Stop(k, p) \/ Resume(k, p)
    \/ \E k \in Keepers, S \in SUBSET Pids : Leave(k, S)

Spec == Init /\ [][Next]_vars

\* So nobody is stopped whom no keeper has and who is not known to be lost.
Kept ==
    \A p \in Pids : state[p] = "stopped" =>
        p \in lost \/ \E k \in Keepers : ward[k] = p
=============================================================================
