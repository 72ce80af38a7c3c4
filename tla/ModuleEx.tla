------------------------------ MODULE ModuleEx ------------------------------
(***************************************************************************)
(* The character device of module_ex.c: threads open, read and close it    *)
(* on any number of cpus while the module is loaded and unloaded.  The     *)
(* handlers take no lock and put_user may sleep, so one action is one      *)
(* access to a shared variable: device_open_count++ and msg_ptr++ are a    *)
(* load and a store.  An open file is named after the thread that opened   *)
(* it; threads, forked children and receivers of a descriptor share it.    *)
(***************************************************************************)
EXTENDS Integers, FiniteSets

CONSTANTS
    Procs,      \* the threads that use the device; each has at most one file of its
                \* own open, and opens one at most once after rmmod has begun
    MsgLen,     \* the length of EXAMPLE_MSG; its terminating 0 is at MsgLen
    ReadLens,   \* the lengths the threads ask for
    MaxCount    \* bound: how far from 0 device_open_count is followed

ASSUME ModuleAssumption ==
    /\ MsgLen \in Nat \ {0}
    /\ MaxCount \in Nat \ {0}
    /\ ReadLens \subseteq Nat

VARIABLES
    module,     \* the module's state: "gone", "live", or "going" (rmmod has begun)
    count,      \* device_open_count
    refs,       \* the module's usage count
    msg_ptr,    \* the offset of msg_ptr in msg_buffer
    pc,         \* where each thread is: "user", or a step of a handler
    file,       \* the open files
    on,         \* the file a thread reads or releases
    reg,        \* the counter or the pointer as a thread loaded it
    len,        \* what remains of the length a thread asked for
    unref,      \* history: the files whose try_module_get failed
    raced       \* history: which of "open" and "read" have been in a race

vars == <<module, count, refs, msg_ptr, pc, file, on, reg, len, unref, raced>>

At(labels) == {p \in Procs : pc[p] \in labels}
Reading == At({"readReset", "readTest", "readLoad", "readStore"})
Enters(p) == module # "gone" /\ pc[p] = "user"
Goto(p, label) == pc' = [pc EXCEPT ![p] = label]

(***************************************************************************)
(* device_open.                                                            *)
(***************************************************************************)
\* A second device_open passes the test before the first one has stored.
TestRaces == IF At({"openLoad", "openStore"}) # {} THEN {"open"} ELSE {}

\* Mutant: a device that is open is opened again.
OpenAlways(p) ==
    /\ Enters(p) /\ p \notin file \cup unref
    /\ Goto(p, "openLoad")
    /\ raced' = raced \cup TestRaces
    /\ UNCHANGED <<module, count, refs, msg_ptr, file, on, reg, len, unref>>

\* The test; -EBUSY, when the count is not 0, changes nothing.
OpenTest(p) ==
    /\ Enters(p) /\ p \notin file \cup unref
    /\ count = 0
    /\ Goto(p, "openLoad")
    /\ raced' = raced \cup TestRaces
    /\ UNCHANGED <<module, count, refs, msg_ptr, file, on, reg, len, unref>>

Load(p, value, from, to) ==
    /\ pc[p] = from
    /\ reg' = [reg EXCEPT ![p] = value]
    /\ Goto(p, to)
    /\ UNCHANGED <<module, count, refs, msg_ptr, file, on, len, unref, raced>>

OpenLoad(p) == Load(p, count, "openLoad", "openStore")

OpenStore(p) ==
    /\ pc[p] = "openStore"
    /\ reg[p] < MaxCount
    /\ count' = reg[p] + 1
    /\ reg' = [reg EXCEPT ![p] = 0]
    /\ Goto(p, "openGet")
    /\ UNCHANGED <<module, refs, msg_ptr, file, on, len, unref, raced>>

\* Mutant: the usage count is not raised.
OpenGetSkipped(p) ==
    /\ pc[p] = "openGet"
    /\ file' = file \cup {p}
    /\ Goto(p, "user")
    /\ UNCHANGED <<module, count, refs, msg_ptr, on, reg, len, unref, raced>>

\* try_module_get, which fails while the module is going; its result is ignored,
\* device_open returns 0 and the thread has the file.
OpenGet(p) ==
    /\ pc[p] = "openGet"
    /\ IF module = "live"
         THEN refs' = refs + 1 /\ UNCHANGED unref
         ELSE unref' = unref \cup {p} /\ UNCHANGED refs
    /\ file' = file \cup {p}
    /\ Goto(p, "user")
    /\ UNCHANGED <<module, count, msg_ptr, on, reg, len, raced>>

(***************************************************************************)
(* device_release.                                                         *)
(***************************************************************************)
\* The last one to give up a file releases it: nobody is still reading it.
Release(p, f) ==
    /\ Enters(p)
    /\ f \in file /\ \A q \in Reading : on[q] # f
    /\ file' = file \ {f}
    /\ on' = [on EXCEPT ![p] = f]
    /\ Goto(p, "closeLoad")
    /\ UNCHANGED <<module, count, refs, msg_ptr, reg, len, unref, raced>>

CloseLoad(p) == Load(p, count, "closeLoad", "closeStore")

\* Mutant: the counter is not decremented.
CloseStoreSkipped(p) ==
    /\ pc[p] = "closeStore"
    /\ reg' = [reg EXCEPT ![p] = 0]
    /\ Goto(p, "closePut")
    /\ UNCHANGED <<module, count, refs, msg_ptr, file, on, len, unref, raced>>

CloseStore(p) ==
    /\ pc[p] = "closeStore"
    /\ reg[p] > -MaxCount
    /\ count' = reg[p] - 1
    /\ reg' = [reg EXCEPT ![p] = 0]
    /\ Goto(p, "closePut")
    /\ UNCHANGED <<module, refs, msg_ptr, file, on, len, unref, raced>>

\* module_put.
ClosePut(p) ==
    /\ pc[p] = "closePut"
    /\ refs' = refs - 1
    /\ Goto(p, "closeReturn")
    /\ UNCHANGED <<module, count, msg_ptr, file, on, reg, len, unref, raced>>

\* return 0, still code of the module.
CloseReturn(p) ==
    /\ pc[p] = "closeReturn"
    /\ on' = [on EXCEPT ![p] = p]
    /\ Goto(p, "user")
    /\ UNCHANGED <<module, count, refs, msg_ptr, file, reg, len, unref, raced>>

(***************************************************************************)
(* device_read.  device_write changes nothing and returns -EINVAL.         *)
(***************************************************************************)
\* Whether *msg_ptr is 0; what lies behind the message is not known.
AtEnd == IF msg_ptr > MsgLen THEN BOOLEAN ELSE {msg_ptr = MsgLen}

\* If we're at the end, loop back to the beginning: the test ...
Read(p, f, n) ==
    /\ Enters(p) /\ f \in file
    /\ on' = [on EXCEPT ![p] = f]
    /\ len' = [len EXCEPT ![p] = n]
    /\ \E end \in AtEnd : Goto(p, IF end THEN "readReset" ELSE "readTest")
    /\ UNCHANGED <<module, count, refs, msg_ptr, file, reg, unref, raced>>

\* ... and the store.
ReadReset(p) ==
    /\ pc[p] = "readReset"
    /\ msg_ptr' = 0
    /\ Goto(p, "readTest")
    /\ UNCHANGED <<module, count, refs, file, on, reg, len, unref, raced>>

ReadEnds(p) ==
    /\ Goto(p, "user")
    /\ on' = [on EXCEPT ![p] = p]
    /\ len' = [len EXCEPT ![p] = 0]

\* Mutant: only the length ends the loop.
ReadTestLen(p) ==
    /\ pc[p] = "readTest"
    /\ IF len[p] > 0 THEN Goto(p, "readLoad") /\ UNCHANGED <<on, len>> ELSE ReadEnds(p)
    /\ UNCHANGED <<module, count, refs, msg_ptr, file, reg, unref, raced>>

\* while (len && *msg_ptr)
ReadTest(p) ==
    /\ pc[p] = "readTest"
    /\ \E end \in AtEnd :
         IF len[p] > 0 /\ ~end THEN Goto(p, "readLoad") /\ UNCHANGED <<on, len>>
                               ELSE ReadEnds(p)
    /\ UNCHANGED <<module, count, refs, msg_ptr, file, reg, unref, raced>>

\* put_user(*(msg_ptr++), buffer++): the load (followed to one past the message) ...
ReadLoad(p) ==
    /\ msg_ptr <= MsgLen
    /\ Load(p, msg_ptr, "readLoad", "readStore")

\* ... and the store, which races with a read that has made its test and not yet
\* loaded; len--.
ReadStore(p) ==
    /\ pc[p] = "readStore"
    /\ msg_ptr' = reg[p] + 1
    /\ raced' = raced \cup IF At({"readLoad"}) # {} THEN {"read"} ELSE {}
    /\ reg' = [reg EXCEPT ![p] = 0]
    /\ len' = [len EXCEPT ![p] = @ - 1]
    /\ Goto(p, "readTest")
    /\ UNCHANGED <<module, count, refs, file, on, unref>>

(***************************************************************************)
(* module_ex_init and module_ex_exit.                                      *)
(***************************************************************************)
\* The static variables start afresh; the message is copied.
Insmod ==
    /\ module = "gone"
    /\ file = {} /\ \A p \in Procs : pc[p] = "user"
    /\ module' = "live"
    /\ count' = 0 /\ refs' = 0 /\ msg_ptr' = 0
    /\ unref' = {} /\ raced' = {}
    /\ UNCHANGED <<pc, file, on, reg, len>>

\* rmmod is refused while the usage count is not zero.  file_ops has no owner, so
\* nothing but device_open raises the count.
Rmmod ==
    /\ module = "live"
    /\ refs = 0
    /\ module' = "going"
    /\ UNCHANGED <<count, refs, msg_ptr, pc, file, on, reg, len, unref, raced>>

\* unregister_chrdev, then the kernel frees the module whoever is using it.
Exit ==
    /\ module = "going"
    /\ module' = "gone"
    /\ UNCHANGED <<count, refs, msg_ptr, pc, file, on, reg, len, unref, raced>>

-----------------------------------------------------------------------------
Init ==
    /\ module = "gone"
    /\ count = 0 /\ refs = 0 /\ msg_ptr = 0
    /\ pc = [p \in Procs |-> "user"]
    /\ file = {}
    /\ on = [p \in Procs |-> p]
    /\ reg = [p \in Procs |-> 0]
    /\ len = [p \in Procs |-> 0]
    /\ unref = {} /\ raced = {}

\* A handler whose code was freed under it goes nowhere: the kernel oopses.
Step(p) ==
    /\ module # "gone"
    /\ \/ OpenTest(p) \/ OpenLoad(p) \/ OpenStore(p) \/ OpenGet(p)
       \/ \E f \in file : Release(p, f)
       \/ CloseLoad(p) \/ CloseStore(p) \/ ClosePut(p) \/ CloseReturn(p)
       \/ \E f \in file, n \in ReadLens : Read(p, f, n)
       \/ ReadReset(p) \/ ReadTest(p) \/ ReadLoad(p) \/ ReadStore(p)

Next == (\E p \in Procs : Step(p)) \/ Insmod \/ Rmmod \/ Exit

Spec == Init /\ [][Next]_vars

-----------------------------------------------------------------------------
(***************************************************************************)
(* Properties.                                                             *)
(***************************************************************************)

\* The static variables of the module keep their types, and the usage count does
\* not go below zero before rmmod: every module_put has its try_module_get.
TypeOK ==
    /\ module \in {"gone", "live", "going"}
    /\ count \in Int /\ refs \in Int
    /\ module = "live" => refs >= 0
    /\ msg_ptr \in 0..(MsgLen + 1)
    /\ pc \in [Procs -> {"user", "openLoad", "openStore", "openGet", "closeLoad",
                         "closeStore", "closePut", "closeReturn", "readReset",
                         "readTest", "readLoad", "readStore"}]
    /\ file \subseteq Procs /\ unref \subseteq Procs
    /\ on \in [Procs -> Procs]
    /\ reg \in [Procs -> Int]
    /\ len \in [Procs -> Nat]
    /\ raced \subseteq {"open", "read"}

\* "If device is open, return busy" (module_ex.c:58): one file is open, unless a
\* second device_open has made the test of line 59 between the test and the store
\* of another.  No other interleaving of opens and releases lets two in.
BusyWhenOpen == "open" \notin raced => Cardinality(file) <= 1

\* device_release "decrement[s] the open counter" (module_ex.c:69), so when nobody
\* has the device open, opens or releases it, it can be opened again; only the same
\* race of two device_opens loses an update of the counter.
ReopensAfterClose ==
    "open" \notin raced /\ file = {} /\
      At({"openLoad", "openStore", "openGet", "closeLoad", "closeStore"}) = {} => count = 0

\* msg_ptr points into the message or at its end: device_read "loop[s] back to the
\* beginning" (module_ex.c:32), with readers that share the file too, unless one of
\* them moves msg_ptr between another's test (line 37) and its msg_ptr++ (line 44).
ReadsStayInBuffer == "read" \notin raced => msg_ptr <= MsgLen

\* The usage count keeps the module until everybody is done with it
\* (module_ex.c:63-71).  When it is freed, a file is open only if its try_module_get
\* failed unnoticed, and a thread is in a handler only before try_module_get, after
\* module_put, or on behalf of such a file.
NotUnloadedInUse ==
    module = "gone" =>
      /\ file \subseteq unref
      /\ \A p \in Procs :
           pc[p] \in {"user", "openLoad", "openStore", "openGet", "closeReturn"}
             \/ on[p] \in unref
=============================================================================
