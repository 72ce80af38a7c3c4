----------------------------- MODULE FioVerify -----------------------------
(***************************************************************************)
(* Asynchronous verification in the bundled fio 2.1.7 (option              *)
(* verify_async): a job hands the blocks it has read to verifier threads   *)
(* and takes the io_u's they return (verify.c, io_u.c, backend.c).  The    *)
(* job uses a synchronous engine, so it holds one io_u at a time.          *)
(*                                                                         *)
(* io_u_lock protects the lists.  A critical section is one step that      *)
(* needs the lock to be free, except where the other side does not take    *)
(* it: verify_thread_exit and its broadcast can fall between a verifier's  *)
(* test of the flag and its pthread_cond_wait, and the creation's          *)
(* nr_verify_threads++ between the load and the store of a decrement.      *)
(***************************************************************************)
EXTENDS Integers, Sequences, FiniteSets

CONSTANTS
    Depth,        \* iodepth: how many io_u's the job has
    NThreads,     \* verify_async: how many verifiers it asks for
    MaxIos        \* bound: how many blocks the job is to read

ASSUME VerifyAssumption ==
    /\ Depth \in Nat \ {0}
    /\ NThreads \in Nat \ {0}
    /\ MaxIos \in Nat

IoUs      == 1..Depth
Verifiers == 1..NThreads
Nobody    == 0

Options == [fatal : BOOLEAN, cont : BOOLEAN, mask : BOOLEAN, good : BOOLEAN,
            phase : {"io", "verify"}]

VARIABLES
    options,  \* verify_fatal, continue_on_error, is the cpu mask usable, are
              \* the blocks on the disk good; does the job read in do_io, or
              \* read what it wrote in do_verify
    job,      \* the job's thread: pc, the io_u it holds, blocks done with, did
              \* the last read fail, and what it loaded of nr_verify_threads
    thr,      \* the verifiers: pc, the list spliced off verify_list, ret, and
              \* what they loaded of nr_verify_threads
    td,       \* the thread_data they share: the lists, the io_u's with
              \* IO_U_F_FREE (free) and IO_U_F_FREE_DEF (deferred), the number
              \* of threads, exit (verify_thread_exit), terminate, error, and
              \* the verifier that has io_u_lock across more than one step
    lost,     \* history: "increment" and "decrement", the updates of
              \* nr_verify_threads that another one overwrote
    missed,   \* history: the verifiers that went to sleep after the last
              \* broadcast, with verify_thread_exit set
    fate      \* "ok", "assert" (abort) or "overrun" (undefined behaviour)

history == <<lost, missed>>
vars == <<options, job, thr, td, lost, missed, fate>>

Unlocked == td.lock = Nobody

\* The next statement of a thread.  After a failed assertion or an overrun
\* nothing is said of the program.
At(v, label) == fate = "ok" /\ thr[v].pc = label
JobAt(label) == fate = "ok" /\ job.pc = label

(***************************************************************************)
(* put_io_u without its notification.  io_u_qpush appends without a look   *)
(* at the capacity of the free list.                                       *)
(***************************************************************************)
Put(u) == [td EXCEPT !.freelist = Append(@, u),
                     !.free     = @ \cup {u},
                     !.deferred = @ \ {u}]
PutFate == IF Len(td.freelist) < Depth THEN fate ELSE "overrun"

\* pthread_cond_signal(&td->free_cond): only the job waits there, in
\* __get_io_u or in verify_async_exit, and it tests again.
Notified ==
    [job EXCEPT !.pc = CASE job.pc = "waitFree" -> "get"
                         [] job.pc = "waitExit" -> "exitTest"
                         [] OTHER -> @]

-----------------------------------------------------------------------------
(***************************************************************************)
(* The verifier threads: verify_async_thread.                              *)
(***************************************************************************)
VGoto(v, label) == thr' = [thr EXCEPT ![v].pc = label]

\* fio_setaffinity of the verify_cpumask, the same for every thread.
VStart(v) ==
    /\ At(v, "start")
    /\ VGoto(v, IF options.mask THEN "top" ELSE "leave")
    /\ UNCHANGED <<options, job, td, fate, history>>

\* The test of verify_thread_exit before the lock is taken.
VTop(v) ==
    /\ At(v, "top")
    /\ VGoto(v, IF td.exit THEN "leave" ELSE "lock")
    /\ UNCHANGED <<options, job, td, fate, history>>

\* Under the lock: wait while there is nothing to do ...
VIdle(v) ==
    /\ At(v, "lock") /\ Unlocked
    /\ td.verify_list = <<>> /\ ~td.exit
    /\ td' = [td EXCEPT !.lock = v]
    /\ VGoto(v, "sleepy")
    /\ UNCHANGED <<options, job, fate, history>>

\* pthread_cond_wait(&td->verify_cond) releases the lock.
VSleep(v) ==
    /\ At(v, "sleepy")
    /\ td' = [td EXCEPT !.lock = Nobody]
    /\ missed' = missed \cup IF td.exit THEN {v} ELSE {}
    /\ VGoto(v, "asleep")
    /\ UNCHANGED <<options, job, fate, lost>>

\* ... or take the whole list.
\* Mutant: the list is read and not emptied.
VTakeKeeps(v) ==
    /\ At(v, "lock") /\ Unlocked
    /\ td.verify_list # <<>> \/ td.exit
    /\ thr' = [thr EXCEPT ![v].list = td.verify_list,
                          ![v].pc = IF td.verify_list = <<>> THEN "top"
                                                             ELSE "verify"]
    /\ UNCHANGED <<options, job, td, fate, history>>

VTake(v) ==
    /\ At(v, "lock") /\ Unlocked
    /\ td.verify_list # <<>> \/ td.exit
    /\ thr' = [thr EXCEPT ![v].list = td.verify_list,
                          ![v].pc = IF td.verify_list = <<>> THEN "top"
                                                             ELSE "verify"]
    /\ td' = [td EXCEPT !.verify_list = <<>>]
    /\ UNCHANGED <<options, job, fate, history>>

\* verify_io_u: a bad checksum reaches "done:", where verify_fatal stops the
\* job; a bad header returns EILSEQ before it.
Outcomes == IF options.good THEN {"good"} ELSE {"good", "checksum", "header"}

VVerify(v) ==
    /\ At(v, "verify")
    /\ \E o \in Outcomes :
         /\ thr' = [thr EXCEPT ![v].ret = (o # "good"), ![v].pc = "put"]
         /\ td'  = [td EXCEPT !.terminate =
                                 @ \/ (o = "checksum" /\ options.fatal)]
    /\ UNCHANGED <<options, job, fate, history>>

\* put_io_u, then an error that continue_on_error covers is cleared.  The loop
\* over the list goes on after any error; ret is that of the last io_u.
VPut(v) ==
    /\ At(v, "put") /\ Unlocked
    /\ LET failed == thr[v].ret /\ ~options.cont
       IN  /\ td' = [Put(Head(thr[v].list)) EXCEPT
                       !.error = @ /\ (thr[v].ret => ~options.cont)]
           /\ thr' = [thr EXCEPT ![v].list = Tail(@),
                                 ![v].ret = failed,
                                 ![v].pc = IF Len(thr[v].list) > 1 THEN "verify"
                                           ELSE IF failed THEN "leave"
                                                          ELSE "top"]
    /\ fate' = PutFate
    /\ job' = Notified
    /\ UNCHANGED <<options, history>>

\* td_verror and verify_fatal if it ends by an error; one thread less: the load
\* of nr_verify_threads-- ...
VLeave(v) ==
    /\ At(v, "leave") /\ Unlocked
    /\ td' = [td EXCEPT !.error = @ \/ thr[v].ret,
                        !.terminate = @ \/ (thr[v].ret /\ options.fatal),
                        !.lock = v]
    /\ thr' = [thr EXCEPT ![v].pc = "leaving", ![v].loaded = td.nr_verify_threads]
    /\ UNCHANGED <<options, job, fate, history>>

\* ... and its store, over any increment in between; then the lock is given up and
\* the job told.
VGone(v) ==
    /\ At(v, "leaving")
    /\ td' = [td EXCEPT !.nr_verify_threads = thr[v].loaded - 1, !.lock = Nobody]
    /\ lost' = lost \cup IF td.nr_verify_threads # thr[v].loaded THEN {"increment"} ELSE {}
    /\ thr' = [thr EXCEPT ![v].pc = "gone", ![v].loaded = 0]
    /\ job' = Notified
    /\ UNCHANGED <<options, fate, missed>>

-----------------------------------------------------------------------------
(***************************************************************************)
(* The job.                                                                *)
(***************************************************************************)
Goto(label) == job' = [job EXCEPT !.pc = label]
Asleep == {v \in Verifiers : thr[v].pc = "asleep"}
Unborn == {v \in Verifiers : thr[v].pc = "unborn"}

\* Mutant: the flag is set and nobody woken.
TellNobody ==
    /\ td' = [td EXCEPT !.exit = TRUE]
    /\ missed' = {}
    /\ UNCHANGED thr

\* pthread_cond_broadcast(&td->verify_cond), after verify_thread_exit = 1.
TellToEnd ==
    /\ td' = [td EXCEPT !.exit = TRUE]
    /\ missed' = {}
    /\ thr' = [v \in Verifiers |->
                 IF v \in Asleep THEN [thr[v] EXCEPT !.pc = "lock"] ELSE thr[v]]

\* verify_async_init: create a thread (its pthread_detach does not fail) ...
Spawn ==
    /\ JobAt("spawn")
    /\ VGoto(NThreads + 1 - Cardinality(Unborn), "start")
    /\ Goto("load")
    /\ UNCHANGED <<options, td, fate, history>>

\* ... nr_verify_threads++ in two steps, not under the lock.
Load ==
    /\ JobAt("load")
    /\ job' = [job EXCEPT !.pc = "count", !.loaded = td.nr_verify_threads]
    /\ UNCHANGED <<options, thr, td, fate, history>>

\* Mutant: a thread is not counted.
CountNothing ==
    /\ JobAt("count")
    /\ Goto(IF Unborn = {} THEN "loop" ELSE "spawn")
    /\ UNCHANGED <<options, thr, td, fate, history>>

Count ==
    /\ JobAt("count")
    /\ td' = [td EXCEPT !.nr_verify_threads = job.loaded + 1]
    /\ Goto(IF Unborn = {} THEN "loop" ELSE "spawn")
    /\ lost' = lost \cup IF td.nr_verify_threads # job.loaded THEN {"decrement"} ELSE {}
    /\ UNCHANGED <<options, thr, fate, missed>>

\* pthread_create fails: the others are told to end, and thread_main goes to
\* "err:", where verify_async_exit waits for them.
SpawnFails ==
    /\ JobAt("spawn")
    /\ TellToEnd
    /\ Goto("exit")
    /\ UNCHANGED <<options, fate, lost>>

\* The top of the loop: terminate (also set here, when the runtime is exceeded,
\* or at any time by a signal, which nobody reads elsewhere) and, in do_io, the
\* bytes issued.  An error is not tested for.
Loop ==
    /\ JobAt("loop")
    /\ \E terminate \in {TRUE, td.terminate} :
         /\ td' = [td EXCEPT !.terminate = terminate]
         /\ Goto(IF terminate \/ (options.phase = "io" /\ job.issued = MaxIos)
                   THEN "exit" ELSE "get")
    /\ UNCHANGED <<options, thr, fate, history>>

\* break_on_this_error, at the end of a round.  do_verify reaches it only when
\* the engine was busy or a read returned nothing: else "continue".
Check ==
    /\ JobAt("check")
    /\ td' = [td EXCEPT !.error = @ /\ ~options.cont]
    /\ Goto(IF (td.error \/ job.failed) /\ ~options.cont THEN "exit" ELSE "loop")
    /\ UNCHANGED <<options, thr, fate, history>>

Completed == IF options.phase = "io" THEN "check" ELSE "loop"

\* __get_io_u: requeued io_u's first, then the free ones, last in first out.
Take(fail) ==
    /\ JobAt("get") /\ Unlocked
    /\ td.requeues # <<>> \/ td.freelist # <<>>
    /\ LET again == td.requeues # <<>>
           last  == Len(td.freelist)
           u     == IF again THEN Head(td.requeues) ELSE td.freelist[last]
       IN  /\ td' = [td EXCEPT
                !.requeues = IF again THEN Tail(@) ELSE @,
                !.freelist = IF again THEN @ ELSE SubSeq(@, 1, last - 1),
                !.free     = @ \ {u},
                !.deferred = @ \ {u}]
           /\ job'  = [job EXCEPT !.pc = "held", !.held = u]
           /\ fate' = IF u \in td.free THEN fate ELSE fail
    /\ UNCHANGED <<options, thr, history>>

\* Mutant: assert(io_u->flags & IO_U_F_FREE) is left out.
GetUnchecked == Take(fate)

Get == Take("assert")

\* "We ran out, wait for async verify threads to finish and return one".
GetWaits ==
    /\ JobAt("get") /\ Unlocked
    /\ td.requeues = <<>> /\ td.freelist = <<>>
    /\ Goto("waitFree")
    /\ UNCHANGED <<options, thr, td, fate, history>>

\* do_verify: get_next_verify has nothing left, which it finds out only when it
\* has got an io_u.
NothingLeft ==
    /\ JobAt("held") /\ Unlocked
    /\ job.issued = MaxIos
    /\ td' = Put(job.held)
    /\ fate' = PutFate
    /\ Goto("exit")
    /\ UNCHANGED <<options, thr, history>>

Reads == JobAt("held") /\ job.issued < MaxIos /\ Unlocked

\* A short read, or a busy engine: requeue_io_u.
Requeue ==
    /\ Reads
    /\ td' = [td EXCEPT !.free = @ \cup {job.held},
                        !.requeues = Append(@, job.held)]
    /\ \E label \in {"check", Completed} :
         job' = [job EXCEPT !.pc = label, !.failed = FALSE]
    /\ UNCHANGED <<options, thr, fate, history>>

\* The read fails: clear_io_u.  do_verify goes on without a look at the error.
ReadFails ==
    /\ Reads
    /\ td' = Put(job.held)
    /\ fate' = PutFate
    /\ job' = [job EXCEPT !.pc = Completed, !.issued = @ + 1, !.failed = TRUE]
    /\ UNCHANGED <<options, thr, history>>

\* The read returns nothing: td_verror, put_io_u.
ReadsNothing ==
    /\ Reads
    /\ td' = [Put(job.held) EXCEPT !.error = TRUE]
    /\ fate' = PutFate
    /\ job' = [job EXCEPT !.pc = "check", !.issued = @ + 1, !.failed = FALSE]
    /\ UNCHANGED <<options, thr, history>>

\* Mutant: verify_cond is not signalled.
CompleteNoSignal ==
    /\ Reads
    /\ td' = [td EXCEPT !.verify_list = Append(@, job.held),
                        !.deferred = @ \cup {job.held}]
    /\ job' = [job EXCEPT !.pc = "after", !.issued = @ + 1, !.failed = FALSE]
    /\ UNCHANGED <<options, thr, fate, history>>

\* The read completes: io_completed calls verify_io_u_async, which queues the
\* io_u and signals one waiting verifier, if there is one.
Complete ==
    /\ Reads
    /\ td' = [td EXCEPT !.verify_list = Append(@, job.held),
                        !.deferred = @ \cup {job.held}]
    /\ job' = [job EXCEPT !.pc = "after", !.issued = @ + 1, !.failed = FALSE]
    /\ IF Asleep = {} THEN UNCHANGED thr
                      ELSE \E v \in Asleep : VGoto(v, "lock")
    /\ UNCHANGED <<options, fate, history>>

\* io_u_sync_complete, back from io_completed: if (!(flags & IO_U_F_FREE_DEF))
\* put_io_u.  By now a verifier may have put the io_u and cleared the flag.
After ==
    /\ JobAt("after") /\ Unlocked
    /\ LET put == job.held \notin td.deferred
       IN  /\ td' = IF put THEN Put(job.held) ELSE td
           /\ fate' = IF put THEN PutFate ELSE fate
    /\ Goto(Completed)
    /\ UNCHANGED <<options, thr, history>>

\* The loop is over: verify_async_exit sets the flag and broadcasts ...
Exit ==
    /\ JobAt("exit")
    /\ TellToEnd
    /\ Goto("exitTest")
    /\ UNCHANGED <<options, fate, lost>>

\* ... and waits until no thread is counted.
ExitTest ==
    /\ JobAt("exitTest") /\ Unlocked
    /\ Goto(IF td.nr_verify_threads = 0 THEN "cleanup" ELSE "waitExit")
    /\ UNCHANGED <<options, thr, td, fate, history>>

\* cleanup_io_u frees the io_u's of the free list, and all the buffers.
Cleanup ==
    /\ JobAt("cleanup")
    /\ td' = [td EXCEPT !.freelist = <<>>, !.requeues = <<>>]
    /\ Goto("done")
    /\ UNCHANGED <<options, thr, fate, history>>

-----------------------------------------------------------------------------
Init ==
    /\ options \in Options
    /\ job = [pc |-> "spawn", held |-> Nobody, issued |-> 0, failed |-> FALSE,
              loaded |-> 0]
    /\ thr = [v \in Verifiers |->
                 [pc |-> "unborn", list |-> <<>>, ret |-> FALSE, loaded |-> 0]]
    /\ td  = [verify_list |-> <<>>, freelist |-> [u \in IoUs |-> u],
              requeues |-> <<>>, free |-> IoUs, deferred |-> {},
              nr_verify_threads |-> 0, exit |-> FALSE, terminate |-> FALSE,
              error |-> FALSE, lock |-> Nobody]
    /\ lost = {} /\ missed = {}
    /\ fate = "ok"

Verifier(v) ==
    VStart(v) \/ VTop(v) \/ VIdle(v) \/ VSleep(v) \/ VTake(v) \/ VVerify(v)
        \/ VPut(v) \/ VLeave(v) \/ VGone(v)

Job ==
    \/ Spawn \/ Load \/ Count \/ SpawnFails \/ Loop \/ Check \/ Get \/ GetWaits
    \/ NothingLeft \/ Requeue \/ ReadFails \/ ReadsNothing \/ Complete \/ After
    \/ Exit \/ ExitTest \/ Cleanup

Next == Job \/ \E v \in Verifiers : Verifier(v)

Spec == Init /\ [][Next]_vars

\* The kernel schedules the threads.
FairSpec == Spec /\ WF_vars(Job) /\ \A v \in Verifiers : WF_vars(Verifier(v))

-----------------------------------------------------------------------------
(***************************************************************************)
(* Properties.                                                             *)
(***************************************************************************)
SeqOf(S, n) == UNION {[1..k -> S] : k \in 0..n}

\* The shared and the local variables keep their types; the lists of io_u's
\* never outgrow iodepth as long as the free list did not.
TypeOK ==
    /\ options \in Options
    /\ job.pc \in {"spawn", "load", "count", "loop", "check", "get", "waitFree",
                   "held", "after", "exit", "exitTest", "waitExit", "cleanup", "done"}
    /\ job.held \in IoUs \cup {Nobody} /\ job.issued \in 0..MaxIos
    /\ job.failed \in BOOLEAN /\ lost \subseteq {"increment", "decrement"}
    /\ missed \subseteq Verifiers
    /\ \A v \in Verifiers :
         /\ thr[v].pc \in {"unborn", "start", "top", "lock", "sleepy", "asleep",
                           "verify", "put", "leave", "leaving", "gone"}
         /\ thr[v].list \in SeqOf(IoUs, Depth)
         /\ thr[v].ret \in BOOLEAN
    /\ td.verify_list \in SeqOf(IoUs, Depth)
    /\ td.requeues \in SeqOf(IoUs, Depth)
    /\ fate = "ok" => td.freelist \in SeqOf(IoUs, Depth)
    /\ td.free \subseteq IoUs /\ td.deferred \subseteq IoUs
    /\ td.nr_verify_threads \in -NThreads..NThreads
    /\ fate \in {"ok", "assert", "overrun"}

\* The io_u's that are being verified or wait to be, with repetitions.
Places(u) ==
    {<<Nobody, i>> : i \in {i \in DOMAIN td.verify_list : td.verify_list[i] = u}}
    \cup UNION {{<<v, i>> : i \in {i \in DOMAIN thr[v].list : thr[v].list[i] = u}}
                : v \in Verifiers}

\* A block is not overwritten by the next read while it is verified, and no two
\* verifiers have it: an io_u the job took from __get_io_u and has yet to read
\* into is with no verifier, and no io_u is listed twice (io_u.c:1298, 690,
\* verify.c:643, 1181), even when io_u_sync_complete put one twice.
OneOwner ==
    fate = "ok" =>
        \A u \in IoUs :
            /\ Cardinality(Places(u)) <= 1
            /\ job.pc = "held" /\ job.held = u => Places(u) = {}

\* verify_async_exit returns only after every thread has left its loop, so none
\* touches an io_u or its buffer after cleanup_io_u (verify.c:1267), unless a
\* decrement (verify.c:1211) overwrote the creation's unlocked nr_verify_threads++
\* (verify.c:1243).
NoneAfterCleanup ==
    "increment" \notin lost /\ job.pc \in {"cleanup", "done"} =>
        \A v \in Verifiers : thr[v].pc \in {"unborn", "gone"}

\* A job that ran out of io_u's is given one: if no block is bad and the
\* verifiers could set their cpu mask, a wait in __get_io_u ends (io_u.c:1332).
WaitEnds ==
    options.mask /\ options.good =>
        (job.pc = "waitFree" ~> job.pc # "waitFree" \/ fate # "ok")

\* verify_async_exit returns, unless nr_verify_threads lost an update (verify.c:1211,
\* 1243) or a verifier that had tested verify_thread_exit before it was set went to
\* sleep after the broadcast (verify.c:1175, 1263).
ExitEnds ==
    job.pc = "waitExit" ~>
        job.pc = "done" \/ fate # "ok" \/ lost # {} \/ missed # {}

\* assert(io_u->flags & IO_U_F_FREE) in __get_io_u (io_u.c:1317) never fails.
FreeIsFree == fate # "assert"
=============================================================================
