--------------------------- MODULE ModuleExProofs ---------------------------
(***************************************************************************)
(* What module ModuleEx promises for every set of threads, every message   *)
(* and every length, on any number of cpus and with files shared in any    *)
(* way.                                                                    *)
(***************************************************************************)
EXTENDS ModuleEx, FiniteSetTheorems, TLAPS

\* Threads between the call of device_release and module_put.
Closing == At({"closeLoad", "closeStore", "closePut"})

\* Before rmmod the usage count is the number of files that are open or being
\* released; afterwards all of these have no reference.
RefsRight ==
    IF module = "live"
      THEN /\ unref = {}
           /\ IsFiniteSet(file) /\ IsFiniteSet(Closing)
           /\ refs = Cardinality(file) + Cardinality(Closing)
      ELSE /\ file \subseteq unref
           /\ \A p \in Closing : on[p] \in unref

\* A thread in device_open has no file yet; one in device_read reads an open file,
\* and goes on only if something of the length is left.
Handlers ==
    \A p \in Procs :
      /\ pc[p] \in {"openLoad", "openStore", "openGet"} => p \notin file
      /\ pc[p] \in {"readReset", "readTest", "readLoad", "readStore"} => on[p] \in file
      /\ pc[p] \in {"readLoad", "readStore"} => len[p] > 0
      /\ pc[p] = "readStore" => reg[p] \in 0..MsgLen

RefsInv == TypeOK /\ RefsRight /\ Handlers

-----------------------------------------------------------------------------
\* An action that lets nobody get or put the module leaves its count right.
LEMMA RefsUnchanged ==
    ASSUME RefsRight, UNCHANGED <<module, refs, file, unref, Closing>>,
           \A p \in Closing : on'[p] = on[p]
    PROVE  RefsRight'
BY DEF RefsRight

\* The type invariant with the strengthening it needs.
LEMMA RefsInvariance == Spec => []RefsInv
<1>1. Init => RefsInv
  <2> SUFFICES ASSUME Init PROVE RefsInv
    OBVIOUS
  <2>1. TypeOK
    <3>1. count \in Int /\ refs \in Int /\ refs >= 0
      BY DEF Init
    <3>2. msg_ptr \in 0..(MsgLen + 1)
      BY ModuleAssumption DEF Init
    <3>3. reg \in [Procs -> Int] /\ len \in [Procs -> Nat] /\ on \in [Procs -> Procs]
      BY DEF Init
    <3> QED
      BY <3>1, <3>2, <3>3 DEF Init, TypeOK
  <2>2. RefsRight
    BY DEF Init, RefsRight, Closing, At
  <2>3. Handlers
    BY DEF Init, Handlers
  <2> QED
    BY <2>1, <2>2, <2>3 DEF RefsInv
<1>2. RefsInv /\ [Next]_vars => RefsInv'
  <2> SUFFICES ASSUME RefsInv, [Next]_vars PROVE RefsInv'
    OBVIOUS
  <2>0. TypeOK /\ RefsRight /\ Handlers
    BY DEF RefsInv
  <2>1. CASE UNCHANGED vars
    <3>1. TypeOK'
      BY <2>0, <2>1 DEF vars, TypeOK
    <3>2. UNCHANGED Closing
      BY <2>1 DEF vars, Closing, At
    <3>3. RefsRight'
      BY <2>0, <2>1, <3>2, RefsUnchanged DEF vars
    <3> QED
      BY <2>0, <2>1, <3>1, <3>3 DEF vars, RefsInv, Handlers
  <2>2. CASE Insmod
    <3>1. TypeOK'
      BY <2>0, <2>2, ModuleAssumption DEF TypeOK, Insmod
    <3>2. file' = {} /\ Closing' = {}
      BY <2>2 DEF Insmod, Closing, At
    <3>3. RefsRight'
      BY <2>2, <3>2, FS_EmptySet DEF RefsRight, Insmod
    <3> QED
      BY <2>0, <2>2, <3>1, <3>3 DEF RefsInv, Handlers, Insmod
  <2>3. CASE Rmmod
    <3>1. TypeOK'
      BY <2>0, <2>3 DEF TypeOK, Rmmod
    <3>2. file = {} /\ Closing = {}
      <4>1. Cardinality(file) \in Nat /\ Cardinality(Closing) \in Nat
        BY <2>0, <2>3, FS_CardinalityType DEF RefsRight, Rmmod
      <4>2. Cardinality(file) = 0 /\ Cardinality(Closing) = 0
        BY <2>0, <2>3, <4>1 DEF RefsRight, Rmmod
      <4> QED
        BY <2>0, <2>3, <4>2, FS_EmptySet DEF RefsRight, Rmmod
    <3>3. RefsRight'
      BY <2>3, <3>2 DEF RefsRight, Rmmod, Closing, At
    <3> QED
      BY <2>0, <2>3, <3>1, <3>3 DEF RefsInv, Handlers, Rmmod
  <2>4. CASE Exit
    <3>1. TypeOK'
      BY <2>0, <2>4 DEF TypeOK, Exit
    <3>2. RefsRight'
      BY <2>0, <2>4 DEF RefsRight, Exit, Closing, At
    <3> QED
      BY <2>0, <2>4, <3>1, <3>2 DEF RefsInv, Handlers, Exit
  <2>5. ASSUME NEW p \in Procs, Step(p) PROVE RefsInv'
    <3>1. CASE OpenTest(p)
      <4>1. TypeOK'
        BY <2>0, <3>1 DEF TypeOK, OpenTest, Goto, TestRaces
      <4>2. RefsRight'
        BY <2>0, <3>1, RefsUnchanged DEF TypeOK, OpenTest, Enters, Goto, Closing, At
      <4> QED
        BY <2>0, <3>1, <4>1, <4>2 DEF RefsInv, Handlers, TypeOK, OpenTest, Goto
    <3>2. CASE OpenLoad(p)
      <4>1. TypeOK'
        BY <2>0, <3>2 DEF TypeOK, OpenLoad, Load, Goto
      <4>2. RefsRight'
        BY <2>0, <3>2, RefsUnchanged DEF TypeOK, OpenLoad, Load, Goto, Closing, At
      <4> QED
        BY <2>0, <3>2, <4>1, <4>2 DEF RefsInv, Handlers, TypeOK, OpenLoad, Load, Goto
    <3>3. CASE OpenStore(p)
      <4>1. TypeOK'
        BY <2>0, <3>3 DEF TypeOK, OpenStore, Goto
      <4>2. RefsRight'
        BY <2>0, <3>3, RefsUnchanged DEF TypeOK, OpenStore, Goto, Closing, At
      <4> QED
        BY <2>0, <3>3, <4>1, <4>2 DEF RefsInv, Handlers, TypeOK, OpenStore, Goto
    <3>4. CASE OpenGet(p)
      <4>1. TypeOK'
        BY <2>0, <3>4 DEF TypeOK, OpenGet, Goto
      <4>2. p \notin file /\ Closing' = Closing
        BY <2>0, <3>4 DEF TypeOK, Handlers, OpenGet, Goto, Closing, At
      <4>3. CASE module = "live"
        <5>1. IsFiniteSet(file') /\ Cardinality(file') = Cardinality(file) + 1
          BY <2>0, <3>4, <4>2, <4>3, FS_AddElement DEF RefsRight, OpenGet
        <5>2. Cardinality(file) \in Nat /\ Cardinality(Closing) \in Nat
          BY <2>0, <4>3, FS_CardinalityType DEF RefsRight
        <5> QED
          BY <2>0, <3>4, <4>1, <4>2, <4>3, <5>1, <5>2
             DEF RefsInv, RefsRight, Handlers, TypeOK, OpenGet, Goto
      <4>4. CASE module # "live"
        BY <2>0, <3>4, <4>1, <4>2, <4>4
           DEF RefsInv, RefsRight, Handlers, TypeOK, OpenGet, Goto
      <4> QED
        BY <4>3, <4>4
    <3>5. ASSUME NEW f \in file, Release(p, f) PROVE RefsInv'
      <4>1. TypeOK'
        BY <2>0, <3>5 DEF TypeOK, Release, Goto
      <4>2. p \notin Closing /\ Closing' = Closing \cup {p}
        BY <2>0, <3>5 DEF TypeOK, Release, Enters, Goto, Closing, At
      <4>3. Handlers'
        BY <2>0, <3>5 DEF TypeOK, Handlers, Release, Enters, Goto, Reading, At
      <4>4. CASE module = "live"
        <5>1. /\ IsFiniteSet(file') /\ Cardinality(file') = Cardinality(file) - 1
              /\ IsFiniteSet(Closing') /\ Cardinality(Closing') = Cardinality(Closing) + 1
          BY <2>0, <3>5, <4>2, <4>4, FS_AddElement, FS_RemoveElement DEF RefsRight, Release
        <5>2. Cardinality(file) \in Nat /\ Cardinality(Closing) \in Nat
          BY <2>0, <4>4, FS_CardinalityType DEF RefsRight
        <5> QED
          BY <2>0, <3>5, <4>1, <4>3, <4>4, <5>1, <5>2 DEF RefsInv, RefsRight, Release
      <4>5. CASE module # "live"
        BY <2>0, <3>5, <4>1, <4>2, <4>3, <4>5
           DEF RefsInv, RefsRight, TypeOK, Release, Closing, At
      <4> QED
        BY <4>4, <4>5
    <3>6. CASE CloseLoad(p)
      <4>1. TypeOK'
        BY <2>0, <3>6 DEF TypeOK, CloseLoad, Load, Goto
      <4>2. RefsRight'
        BY <2>0, <3>6, RefsUnchanged DEF TypeOK, CloseLoad, Load, Goto, Closing, At
      <4> QED
        BY <2>0, <3>6, <4>1, <4>2 DEF RefsInv, Handlers, TypeOK, CloseLoad, Load, Goto
    <3>7. CASE CloseStore(p)
      <4>1. TypeOK'
        BY <2>0, <3>7 DEF TypeOK, CloseStore, Goto
      <4>2. RefsRight'
        BY <2>0, <3>7, RefsUnchanged DEF TypeOK, CloseStore, Goto, Closing, At
      <4> QED
        BY <2>0, <3>7, <4>1, <4>2 DEF RefsInv, Handlers, TypeOK, CloseStore, Goto
    <3>8. CASE ClosePut(p)
      <4>1. p \in Closing /\ Closing' = Closing \ {p}
        BY <2>0, <3>8 DEF TypeOK, ClosePut, Goto, Closing, At
      <4>2. Handlers'
        BY <2>0, <3>8 DEF TypeOK, Handlers, ClosePut, Goto
      <4>3. CASE module = "live"
        <5>1. IsFiniteSet(Closing') /\ Cardinality(Closing') = Cardinality(Closing) - 1
          BY <2>0, <4>1, <4>3, FS_RemoveElement DEF RefsRight
        <5>2. /\ Cardinality(file) \in Nat /\ Cardinality(Closing) \in Nat
              /\ Cardinality(Closing') \in Nat
          BY <2>0, <4>3, <5>1, FS_CardinalityType DEF RefsRight
        <5>3. RefsRight'
          BY <2>0, <3>8, <4>3, <5>1, <5>2 DEF RefsRight, ClosePut
        <5>4. refs' >= 0
          BY <2>0, <3>8, <4>3, <5>1, <5>2 DEF RefsRight, ClosePut
        <5>5. TypeOK'
          BY <2>0, <3>8, <5>4 DEF TypeOK, ClosePut, Goto
        <5> QED
          BY <4>2, <5>3, <5>5 DEF RefsInv
      <4>4. CASE module # "live"
        <5>1. TypeOK'
          BY <2>0, <3>8, <4>4 DEF TypeOK, ClosePut, Goto
        <5>2. RefsRight'
          BY <2>0, <3>8, <4>1, <4>4 DEF RefsRight, ClosePut
        <5> QED
          BY <4>2, <5>1, <5>2 DEF RefsInv
      <4> QED
        BY <4>3, <4>4
    <3>9. CASE CloseReturn(p)
      <4>1. TypeOK'
        BY <2>0, <3>9 DEF TypeOK, CloseReturn, Goto
      <4>2. RefsRight'
        BY <2>0, <3>9, RefsUnchanged DEF TypeOK, CloseReturn, Goto, Closing, At
      <4> QED
        BY <2>0, <3>9, <4>1, <4>2 DEF RefsInv, Handlers, TypeOK, CloseReturn, Goto
    <3>10. ASSUME NEW f \in file, NEW n \in ReadLens, Read(p, f, n) PROVE RefsInv'
      <4>1. PICK label \in {"readReset", "readTest"} : Goto(p, label)
        BY <3>10 DEF Read
      <4>2. TypeOK'
        BY <2>0, <3>10, <4>1, ModuleAssumption DEF TypeOK, Read, Goto
      <4>3. RefsRight'
        BY <2>0, <3>10, <4>1, RefsUnchanged DEF TypeOK, Read, Enters, Goto, Closing, At
      <4> QED
        BY <2>0, <3>10, <4>1, <4>2, <4>3 DEF RefsInv, Handlers, TypeOK, Read, Goto
    <3>11. CASE ReadReset(p)
      <4>1. TypeOK'
        BY <2>0, <3>11, ModuleAssumption DEF TypeOK, ReadReset, Goto
      <4>2. RefsRight'
        BY <2>0, <3>11, RefsUnchanged DEF TypeOK, ReadReset, Goto, Closing, At
      <4> QED
        BY <2>0, <3>11, <4>1, <4>2 DEF RefsInv, Handlers, TypeOK, ReadReset, Goto
    <3>12. CASE ReadTest(p)
      <4>1. \/ len[p] > 0 /\ Goto(p, "readLoad") /\ UNCHANGED <<on, len>>
            \/ ReadEnds(p)
        BY <3>12 DEF ReadTest
      <4>2. TypeOK'
        BY <2>0, <3>12, <4>1 DEF TypeOK, ReadTest, ReadEnds, Goto
      <4>3. RefsRight'
        BY <2>0, <3>12, <4>1, RefsUnchanged DEF TypeOK, ReadTest, ReadEnds, Goto, Closing, At
      <4> QED
        BY <2>0, <3>12, <4>1, <4>2, <4>3 DEF RefsInv, Handlers, TypeOK, ReadTest, ReadEnds, Goto
    <3>13. CASE ReadLoad(p)
      <4>1. TypeOK'
        BY <2>0, <3>13 DEF TypeOK, ReadLoad, Load, Goto
      <4>2. RefsRight'
        BY <2>0, <3>13, RefsUnchanged DEF TypeOK, ReadLoad, Load, Goto, Closing, At
      <4> QED
        BY <2>0, <3>13, <4>1, <4>2, ModuleAssumption
           DEF RefsInv, Handlers, TypeOK, ReadLoad, Load, Goto
    <3>14. CASE ReadStore(p)
      <4>1. len[p] > 0 /\ reg[p] \in 0..MsgLen
        BY <2>0, <3>14 DEF Handlers, ReadStore
      <4>2. TypeOK'
        BY <2>0, <3>14, <4>1, ModuleAssumption DEF TypeOK, ReadStore, Goto
      <4>3. RefsRight'
        BY <2>0, <3>14, RefsUnchanged DEF TypeOK, ReadStore, Goto, Closing, At
      <4> QED
        BY <2>0, <3>14, <4>2, <4>3 DEF RefsInv, Handlers, TypeOK, ReadStore, Goto
    <3> QED
      BY <2>5, <3>1, <3>2, <3>3, <3>4, <3>5, <3>6, <3>7, <3>8, <3>9, <3>10, <3>11,
         <3>12, <3>13, <3>14 DEF Step
  <2> QED
    BY <2>1, <2>2, <2>3, <2>4, <2>5 DEF Next
<1> QED
  BY <1>1, <1>2, PTL DEF Spec

-----------------------------------------------------------------------------
(***************************************************************************)
(* device_open_count, until two device_opens race.                         *)
(***************************************************************************)
\* Threads with a file in the making, or with one device_open_count still counts.
Busy == At({"openLoad", "openStore", "openGet", "closeLoad", "closeStore"})

Alone ==
    /\ \A p, q \in Busy : p = q
    /\ \A f, g \in file : f = g
    /\ Busy # {} => file = {}

\* device_open_count counts from OpenStore to CloseStore.
Counts ==
    count = IF file # {} \/ At({"openGet", "closeLoad", "closeStore"}) # {} THEN 1 ELSE 0

\* What was loaded is not stale when it is stored.
LoadsFresh == \A p \in At({"openStore", "closeStore"}) : reg[p] = count

OpenInv == "open" \notin raced => Alone /\ Counts /\ LoadsFresh

(***************************************************************************)
(* msg_ptr, until two device_reads race: it moves only when it is not at   *)
(* the end.                                                                *)
(***************************************************************************)
ReadInv ==
    "read" \notin raced =>
      /\ msg_ptr <= MsgLen
      /\ \A p \in Procs :
           /\ pc[p] = "readLoad" => msg_ptr < MsgLen
           /\ pc[p] = "readStore" => reg[p] < MsgLen

\* An action of device_read leaves what the counter rests on alone.
LEMMA OpenUnchanged ==
    ASSUME OpenInv, UNCHANGED <<count, file, Busy, At({"openLoad", "openStore"}),
                                At({"openGet", "closeLoad", "closeStore"}),
                                At({"openStore", "closeStore"})>>,
           \A p \in At({"openStore", "closeStore"}) : reg'[p] = reg[p],
           raced \subseteq raced'
    PROVE  OpenInv'
BY DEF OpenInv, Alone, Counts, LoadsFresh

LEMMA OpenInvariance == Spec => []OpenInv
<1>1. Init => OpenInv
  BY DEF Init, OpenInv, Alone, Counts, LoadsFresh, Busy, At
<1>2. RefsInv /\ OpenInv /\ [Next]_vars => OpenInv'
  <2> SUFFICES ASSUME RefsInv, OpenInv, [Next]_vars PROVE OpenInv'
    OBVIOUS
  <2>0. TypeOK
    BY DEF RefsInv
  <2>1. CASE UNCHANGED vars
    BY <2>1, OpenUnchanged DEF vars, Busy, At
  <2>2. CASE Insmod
    BY <2>2 DEF Insmod, OpenInv, Alone, Counts, LoadsFresh, Busy, At
  <2>3. CASE Rmmod \/ Exit
    BY <2>3, OpenUnchanged DEF Rmmod, Exit, Busy, At
  <2>4. ASSUME NEW p \in Procs, Step(p) PROVE OpenInv'
    <3>1. CASE OpenTest(p)
      <4> SUFFICES ASSUME "open" \notin raced' PROVE Alone' /\ Counts' /\ LoadsFresh'
        BY DEF OpenInv
      <4>1. At({"openLoad", "openStore"}) = {} /\ Alone /\ Counts /\ LoadsFresh
        BY <3>1 DEF OpenTest, TestRaces, OpenInv
      <4>2. file = {} /\ At({"openGet", "closeLoad", "closeStore"}) = {}
        BY <3>1, <4>1 DEF OpenTest, Counts
      <4>3. Busy = {}
        BY <4>1, <4>2 DEF Busy, At
      <4>4. Busy' = {p}
        BY <2>0, <3>1, <4>3 DEF TypeOK, OpenTest, Goto, Busy, At
      <4>5. At({"openGet", "closeLoad", "closeStore"})' = {}
        BY <2>0, <3>1, <4>2 DEF TypeOK, OpenTest, Goto, At
      <4>6. At({"openStore", "closeStore"})' = {}
        BY <2>0, <3>1, <4>3 DEF TypeOK, OpenTest, Goto, Busy, At
      <4> QED
        BY <3>1, <4>2, <4>4, <4>5, <4>6 DEF OpenTest, Alone, Counts, LoadsFresh
    <3>2. CASE OpenLoad(p)
      BY <2>0, <3>2 DEF TypeOK, OpenLoad, Load, Goto, OpenInv, Alone, Counts, LoadsFresh, Busy, At
    <3>3. CASE OpenStore(p)
      BY <2>0, <3>3 DEF TypeOK, OpenStore, Goto, OpenInv, Alone, Counts, LoadsFresh, Busy, At
    <3>4. CASE OpenGet(p)
      BY <2>0, <3>4 DEF TypeOK, OpenGet, Goto, OpenInv, Alone, Counts, LoadsFresh, Busy, At
    <3>5. ASSUME NEW f \in file, Release(p, f) PROVE OpenInv'
      BY <2>0, <3>5 DEF TypeOK, Release, Enters, Goto, OpenInv, Alone, Counts, LoadsFresh, Busy, At
    <3>6. CASE CloseLoad(p)
      BY <2>0, <3>6 DEF TypeOK, CloseLoad, Load, Goto, OpenInv, Alone, Counts, LoadsFresh, Busy, At
    <3>7. CASE CloseStore(p)
      BY <2>0, <3>7 DEF TypeOK, CloseStore, Goto, OpenInv, Alone, Counts, LoadsFresh, Busy, At
    <3>8. CASE ClosePut(p) \/ CloseReturn(p)
      BY <2>0, <3>8, OpenUnchanged DEF TypeOK, ClosePut, CloseReturn, Goto, Busy, At
    <3>9. ASSUME NEW f \in file, NEW n \in ReadLens, Read(p, f, n) PROVE OpenInv'
      <4>1. PICK label \in {"readReset", "readTest"} : Goto(p, label)
        BY <3>9 DEF Read
      <4> QED
        BY <2>0, <3>9, <4>1, OpenUnchanged DEF TypeOK, Read, Enters, Goto, Busy, At
    <3>10. CASE ReadReset(p)
      BY <2>0, <3>10, OpenUnchanged DEF TypeOK, ReadReset, Goto, Busy, At
    <3>11. CASE ReadTest(p)
      <4>1. PICK label \in {"readLoad", "user"} : Goto(p, label)
        BY <3>11 DEF ReadTest, ReadEnds
      <4> QED
        BY <2>0, <3>11, <4>1, OpenUnchanged DEF TypeOK, ReadTest, Goto, Busy, At
    <3>12. CASE ReadLoad(p)
      BY <2>0, <3>12, OpenUnchanged DEF TypeOK, ReadLoad, Load, Goto, Busy, At
    <3>13. CASE ReadStore(p)
      BY <2>0, <3>13, OpenUnchanged DEF TypeOK, ReadStore, Goto, Busy, At
    <3> QED
      BY <2>4, <3>1, <3>2, <3>3, <3>4, <3>5, <3>6, <3>7, <3>8, <3>9, <3>10, <3>11,
         <3>12, <3>13 DEF Step
  <2> QED
    BY <2>1, <2>2, <2>3, <2>4 DEF Next
<1> QED
  BY <1>1, <1>2, RefsInvariance, PTL DEF Spec

LEMMA ReadInvariance == Spec => []ReadInv
<1>1. Init => ReadInv
  BY ModuleAssumption DEF Init, ReadInv
<1>2. RefsInv /\ ReadInv /\ [Next]_vars => ReadInv'
  <2> SUFFICES ASSUME RefsInv, ReadInv, [Next]_vars PROVE ReadInv'
    OBVIOUS
  <2>0. TypeOK
    BY DEF RefsInv
  <2>1. CASE UNCHANGED vars
    BY <2>1 DEF vars, ReadInv
  <2>2. CASE Insmod
    BY <2>2, ModuleAssumption DEF Insmod, ReadInv
  <2>3. CASE Rmmod \/ Exit
    BY <2>3 DEF Rmmod, Exit, ReadInv
  <2>4. ASSUME NEW p \in Procs, Step(p) PROVE ReadInv'
    <3>1. CASE OpenTest(p)
      BY <2>0, <3>1 DEF TypeOK, OpenTest, Goto, ReadInv
    <3>2. CASE OpenLoad(p) \/ CloseLoad(p)
      BY <2>0, <3>2 DEF TypeOK, OpenLoad, CloseLoad, Load, Goto, ReadInv
    <3>3. CASE OpenStore(p) \/ CloseStore(p)
      BY <2>0, <3>3 DEF TypeOK, OpenStore, CloseStore, Goto, ReadInv
    <3>4. CASE OpenGet(p) \/ ClosePut(p) \/ CloseReturn(p)
      BY <2>0, <3>4 DEF TypeOK, OpenGet, ClosePut, CloseReturn, Goto, ReadInv
    <3>5. ASSUME NEW f \in file, Release(p, f) PROVE ReadInv'
      BY <2>0, <3>5 DEF TypeOK, Release, Goto, ReadInv
    <3>6. ASSUME NEW f \in file, NEW n \in ReadLens, Read(p, f, n) PROVE ReadInv'
      <4>1. PICK label \in {"readReset", "readTest"} : Goto(p, label)
        BY <3>6 DEF Read
      <4> QED
        BY <2>0, <3>6, <4>1 DEF TypeOK, Read, Goto, ReadInv
    <3>7. CASE ReadReset(p)
      BY <2>0, <3>7, ModuleAssumption DEF TypeOK, ReadReset, Goto, ReadInv
    <3>8. CASE ReadTest(p)
      <4> SUFFICES ASSUME "read" \notin raced' PROVE ReadInv'
        BY DEF ReadInv
      <4>1. msg_ptr <= MsgLen /\ ReadInv
        BY <3>8 DEF ReadTest, ReadInv
      <4>2. AtEnd = {msg_ptr = MsgLen}
        BY <2>0, <4>1, ModuleAssumption DEF TypeOK, AtEnd
      <4>3. CASE Goto(p, "readLoad") /\ msg_ptr # MsgLen
        <5>1. msg_ptr < MsgLen
          BY <2>0, <4>1, <4>3, ModuleAssumption DEF TypeOK
        <5> QED
          BY <2>0, <3>8, <4>3, <5>1 DEF TypeOK, ReadTest, Goto, ReadInv
      <4>4. CASE Goto(p, "user")
        BY <2>0, <3>8, <4>4 DEF TypeOK, ReadTest, Goto, ReadInv
      <4> QED
        BY <3>8, <4>2, <4>3, <4>4 DEF ReadTest, ReadEnds
    <3>9. CASE ReadLoad(p)
      BY <2>0, <3>9 DEF TypeOK, ReadLoad, Load, Goto, ReadInv
    <3>10. CASE ReadStore(p)
      <4> SUFFICES ASSUME "read" \notin raced' PROVE ReadInv'
        BY DEF ReadInv
      <4>1. At({"readLoad"}) = {} /\ "read" \notin raced
        BY <3>10 DEF ReadStore
      <4>2. \A q \in Procs : pc'[q] # "readLoad"
        BY <2>0, <3>10, <4>1 DEF TypeOK, ReadStore, Goto, At
      <4>3. reg[p] < MsgLen /\ reg[p] \in Int
        BY <2>0, <3>10, <4>1 DEF TypeOK, ReadStore, ReadInv
      <4>4. msg_ptr' <= MsgLen
        BY <3>10, <4>3, ModuleAssumption DEF ReadStore
      <4> QED
        BY <2>0, <3>10, <4>1, <4>2, <4>4 DEF TypeOK, ReadStore, Goto, ReadInv
    <3> QED
      BY <2>4, <3>1, <3>2, <3>3, <3>4, <3>5, <3>6, <3>7, <3>8, <3>9, <3>10 DEF Step
  <2> QED
    BY <2>1, <2>2, <2>3, <2>4 DEF Next
<1> QED
  BY <1>1, <1>2, RefsInvariance, PTL DEF Spec

-----------------------------------------------------------------------------
\* The static variables and the usage count keep their types on any number of
\* cpus: until rmmod begins, module_put never takes the usage count below zero.
THEOREM TypeCorrect == Spec => []TypeOK
<1>1. RefsInv => TypeOK
  BY DEF RefsInv
<1> QED
  BY <1>1, RefsInvariance, PTL

\* However the loads and stores of device_open_count fall, device_open lets one
\* file in at a time until two of its tests come before either's store.
THEOREM OneOpener == Spec => []BusyWhenOpen
<1>1. OpenInv => BusyWhenOpen
  <2> SUFFICES ASSUME Alone PROVE Cardinality(file) <= 1
    BY DEF OpenInv, BusyWhenOpen
  <2>1. CASE file = {}
    BY <2>1, FS_EmptySet
  <2>2. ASSUME NEW p \in file PROVE Cardinality(file) <= 1
    <3>1. file = {p}
      BY DEF Alone
    <3>2. Cardinality({p}) = 1
      BY FS_Singleton
    <3> QED
      BY <3>1, <3>2
  <2> QED
    BY <2>1, <2>2
<1> QED
  BY <1>1, OpenInvariance, PTL

\* When nobody has the device open or is about to, its counter is back at 0: only
\* the race of two device_opens loses an update of it.
THEOREM Reopens == Spec => []ReopensAfterClose
<1>1. OpenInv => ReopensAfterClose
  BY DEF OpenInv, Counts, ReopensAfterClose, At
<1> QED
  BY <1>1, OpenInvariance, PTL

\* device_read never moves msg_ptr past the end of the message, whatever lengths are
\* asked for and whoever shares the file, until one reader's msg_ptr++ falls between
\* another's test and its msg_ptr++.
THEOREM ReadsInBuffer == Spec => []ReadsStayInBuffer
<1>1. ReadInv => ReadsStayInBuffer
  BY DEF ReadInv, ReadsStayInBuffer
<1> QED
  BY <1>1, ReadInvariance, PTL

\* The module is never freed under a file it holds a reference for, nor under a
\* handler between try_module_get and module_put.
THEOREM StaysLoaded == Spec => []NotUnloadedInUse
<1>1. RefsInv => NotUnloadedInUse
  BY DEF RefsInv, TypeOK, RefsRight, Handlers, NotUnloadedInUse, Closing, At
<1> QED
  BY <1>1, RefsInvariance, PTL
=============================================================================
