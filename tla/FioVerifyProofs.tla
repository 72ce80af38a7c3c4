-------------------------- MODULE FioVerifyProofs ---------------------------
(***************************************************************************)
(* What module FioVerify promises for every iodepth, every number of       *)
(* verifiers and every number of blocks.                                   *)
(***************************************************************************)
EXTENDS FioVerify, FiniteSetTheorems, TLAPS

JobPcs == {"spawn", "load", "count", "loop", "check", "get", "waitFree", "held",
           "after", "exit", "exitTest", "waitExit", "cleanup", "done"}
ThrPcs == {"unborn", "start", "top", "lock", "sleepy", "asleep", "verify", "put",
           "leave", "leaving", "gone"}
Fates  == {"ok", "assert", "overrun"}

JobType == [pc : JobPcs, held : IoUs \cup {Nobody}, issued : 0..MaxIos, failed : BOOLEAN,
            loaded : Int]
ThrType == [Verifiers -> [pc : ThrPcs, list : Seq(IoUs), ret : BOOLEAN,
                          loaded : Int]]
TdType  == [verify_list : Seq(IoUs), freelist : Seq(IoUs), requeues : Seq(IoUs),
            free : SUBSET IoUs, deferred : SUBSET IoUs, nr_verify_threads : Int,
            exit : BOOLEAN, terminate : BOOLEAN, error : BOOLEAN,
            lock : Verifiers \cup {Nobody}]

\* The shape of the state; a list is not empty while its io_u's are verified, and
\* the job holds an io_u between __get_io_u and the end of its read.
Shape ==
    /\ options \in Options
    /\ job \in JobType /\ thr \in ThrType /\ td \in TdType
    /\ fate \in Fates /\ lost \subseteq {"increment", "decrement"} /\ missed \subseteq Verifiers
    /\ \A v \in Verifiers : thr[v].pc \in {"verify", "put"} => thr[v].list # <<>>
    /\ job.pc \in {"held", "after"} => job.held \in IoUs

-----------------------------------------------------------------------------
\* put_io_u keeps the shape of the lists and flags.
LEMMA PutType ==
    ASSUME td \in TdType, NEW u \in IoUs
    PROVE  Put(u) \in TdType
<1>1. Append(td.freelist, u) \in Seq(IoUs)
  BY DEF TdType
<1>2. td.free \cup {u} \in SUBSET IoUs /\ td.deferred \ {u} \in SUBSET IoUs
  BY DEF TdType
<1> QED
  BY <1>1, <1>2 DEF Put, TdType

\* Any of the updates of a verifier keeps the shape of the verifiers.
LEMMA ThrUpdate ==
    ASSUME thr \in ThrType, NEW v \in Verifiers, NEW label \in ThrPcs,
           NEW s \in Seq(IoUs), NEW b \in BOOLEAN
    PROVE  [thr EXCEPT ![v].list = s, ![v].ret = b, ![v].pc = label] \in ThrType
BY DEF ThrType

LEMMA ThrLoads ==
    ASSUME thr \in ThrType, NEW v \in Verifiers, NEW label \in ThrPcs, NEW n \in Int
    PROVE  [thr EXCEPT ![v].pc = label, ![v].loaded = n] \in ThrType
BY DEF ThrType

LEMMA ThrGoes ==
    ASSUME thr \in ThrType, NEW v, NEW label \in ThrPcs
    PROVE  /\ [thr EXCEPT ![v].pc = label] \in ThrType
           /\ label \notin {"verify", "put"} =>
                \A w \in Verifiers :
                   [thr EXCEPT ![v].pc = label][w].pc \in {"verify", "put"} =>
                     [thr EXCEPT ![v].pc = label][w] = thr[w]
BY DEF ThrType

\* pthread_cond_signal only moves the job out of a wait.
LEMMA NotifiedType ==
    ASSUME job \in JobType
    PROVE  /\ Notified \in JobType
           /\ Notified.pc \in {"held", "after"} => Notified.pc = job.pc
           /\ Notified.held = job.held
BY DEF Notified, JobType, JobPcs

\* The broadcast wakes the verifiers that sleep, and changes no list.
LEMMA TellToEndType ==
    ASSUME Shape, TellToEnd
    PROVE  /\ td' \in TdType /\ thr' \in ThrType /\ missed' = {}
           /\ \A v \in Verifiers :
                thr'[v].pc \in {"verify", "put"} => thr'[v].list # <<>>
<1>1. td' \in TdType
  BY DEF Shape, TellToEnd, TdType
<1>2. thr' \in ThrType
  BY DEF Shape, TellToEnd, ThrType, ThrPcs
<1> QED
  BY <1>1, <1>2 DEF Shape, TellToEnd, ThrType

\* Every step of the job and of the verifiers keeps the shape of the state.
LEMMA ShapeInvariance == Spec => []Shape
<1>1. Init => Shape
  BY VerifyAssumption DEF Init, Shape, JobType, JobPcs, ThrType, ThrPcs, TdType, Fates,
     IoUs, Verifiers, Nobody
<1>2. Shape /\ [Next]_vars => Shape'
  <2> SUFFICES ASSUME Shape, [Next]_vars PROVE Shape'
    OBVIOUS
  <2> USE DEF Shape
  <2>1. CASE UNCHANGED vars
    BY <2>1 DEF vars
  <2>2. ASSUME NEW v \in Verifiers, Verifier(v) PROVE Shape'
    <3> USE DEF ThrType, ThrPcs, VGoto, At, history
    <3>1. CASE VStart(v)
      BY <3>1 DEF VStart
    <3>2. CASE VTop(v)
      BY <3>2 DEF VTop
    <3>3. CASE VIdle(v)
      BY <3>3 DEF VIdle, TdType
    <3>4. CASE VSleep(v)
      BY <3>4 DEF VSleep, TdType
    <3>5. CASE VTake(v)
      <4>1. td.verify_list \in Seq(IoUs) /\ <<>> \in Seq(IoUs)
        BY DEF TdType
      <4>2. td' \in TdType
        BY <3>5, <4>1 DEF VTake, TdType
      <4>3. PICK label \in {"top", "verify"} :
              /\ thr' = [thr EXCEPT ![v].list = td.verify_list, ![v].pc = label]
              /\ label = "verify" => td.verify_list # <<>>
        BY <3>5 DEF VTake
      <4>4. thr' \in ThrType
        BY <4>1, <4>3
      <4>5. \A w \in Verifiers : thr'[w].pc \in {"verify", "put"} => thr'[w].list # <<>>
        BY <4>1, <4>3
      <4> QED
        BY <3>5, <4>2, <4>4, <4>5 DEF VTake
    <3>6. CASE VVerify(v)
      <4>1. PICK o \in Outcomes :
              /\ thr' = [thr EXCEPT ![v].ret = (o # "good"), ![v].pc = "put"]
              /\ td'  = [td EXCEPT !.terminate =
                                      @ \/ (o = "checksum" /\ options.fatal)]
        BY <3>6 DEF VVerify
      <4>2. (td.terminate \/ (o = "checksum" /\ options.fatal)) \in BOOLEAN
        BY Zenon
      <4>3. td' \in TdType
        BY <4>1, <4>2 DEF TdType
      <4>4. (o # "good") \in BOOLEAN
        BY Zenon
      <4>5. thr' \in ThrType
        <5> DEFINE bad == (o # "good")
        <5>1. bad \in BOOLEAN /\ thr' = [thr EXCEPT ![v].ret = bad, ![v].pc = "put"]
          BY <4>1, <4>4
        <5> HIDE DEF bad
        <5> QED
          BY <5>1
      <4>6. \A w \in Verifiers : thr'[w].pc \in {"verify", "put"} => thr'[w].list # <<>>
        BY <3>6, <4>1 DEF VVerify
      <4> QED
        BY <3>6, <4>3, <4>5, <4>6 DEF VVerify
    <3>7. CASE VPut(v)
      <4> DEFINE failed == thr[v].ret /\ ~options.cont
                 u == Head(thr[v].list)
      <4>1. u \in IoUs /\ Tail(thr[v].list) \in Seq(IoUs)
        BY <3>7 DEF VPut
      <4>2. failed \in BOOLEAN
        BY Zenon
      <4>3. td' \in TdType
        <5>1. Put(u) \in TdType
          BY <4>1, PutType
        <5>2. (Put(u).error /\ (thr[v].ret => ~options.cont)) \in BOOLEAN
          BY Zenon
        <5>3. td' = [Put(u) EXCEPT !.error = @ /\ (thr[v].ret => ~options.cont)]
          BY <3>7 DEF VPut
        <5> QED
          BY <5>1, <5>2, <5>3 DEF TdType
      <4>4. thr' = [thr EXCEPT ![v].list = Tail(@),
                               ![v].ret = failed,
                               ![v].pc = IF Len(thr[v].list) > 1 THEN "verify"
                                         ELSE IF failed THEN "leave"
                                                        ELSE "top"]
        BY <3>7 DEF VPut
      <4>5. Len(thr[v].list) > 1 => Tail(thr[v].list) # <<>>
        BY <3>7 DEF VPut
      <4>6. thr' \in ThrType
        <5>1. (IF Len(thr[v].list) > 1 THEN "verify" ELSE IF failed THEN "leave" ELSE "top")
                \in ThrPcs
          BY DEF ThrPcs
        <5> HIDE DEF failed, ThrType
        <5> QED
          BY <4>1, <4>2, <4>4, <5>1, ThrUpdate
      <4>7. \A w \in Verifiers : thr'[w].pc \in {"verify", "put"} => thr'[w].list # <<>>
        <5> HIDE DEF failed
        <5> QED
          BY <4>4, <4>5
      <4> QED
        BY <3>7, <4>3, <4>6, <4>7, NotifiedType DEF VPut, PutFate, Fates
    <3>8. CASE VLeave(v)
      <4>1. /\ (td.error \/ thr[v].ret) \in BOOLEAN
            /\ (td.terminate \/ (thr[v].ret /\ options.fatal)) \in BOOLEAN
        BY Zenon
      <4>2. td' \in TdType
        BY <3>8, <4>1 DEF VLeave, TdType
      <4>3. thr' \in ThrType
        <5>1. td.nr_verify_threads \in Int
          BY DEF TdType
        <5>2. thr \in ThrType
          OBVIOUS
        <5> QED
          BY <3>8, <5>1, <5>2, ThrLoads DEF VLeave
      <4> QED
        BY <3>8, <4>2, <4>3 DEF VLeave, history
    <3>9. CASE VGone(v)
      <4>1. thr[v].loaded - 1 \in Int
        OBVIOUS
      <4>2. td' \in TdType
        BY <3>9, <4>1 DEF VGone, TdType
      <4>3. thr' \in ThrType
        <5>1. thr \in ThrType
          OBVIOUS
        <5>2. thr' = [thr EXCEPT ![v].pc = "gone", ![v].loaded = 0]
          BY <3>9 DEF VGone
        <5>3. "gone" \in ThrPcs /\ 0 \in Int
          OBVIOUS
        <5> HIDE DEF ThrType, ThrPcs
        <5> QED
          BY <5>1, <5>2, <5>3, ThrLoads
      <4> QED
        BY <3>9, <4>2, <4>3, NotifiedType DEF VGone
    <3> QED
      BY <2>2, <3>1, <3>2, <3>3, <3>4, <3>5, <3>6, <3>7, <3>8, <3>9 DEF Verifier
  <2>3. CASE Job
    <3> USE DEF JobType, JobPcs, Goto, JobAt, history
    <3>1. CASE Spawn
      <4>1. "start" \in ThrPcs
        BY DEF ThrPcs
      <4>2. PICK v : thr' = [thr EXCEPT ![v].pc = "start"]
        BY <3>1 DEF Spawn, VGoto
      <4>3. thr' \in ThrType
        BY <4>1, <4>2, ThrGoes
      <4>4. \A w \in Verifiers : thr'[w].pc \in {"verify", "put"} => thr'[w] = thr[w]
        BY <4>1, <4>2, ThrGoes
      <4> QED
        BY <3>1, <4>3, <4>4 DEF Spawn
    <3>2. CASE Load
      BY <3>2 DEF Load, TdType
    <3>3. CASE Count
      <4>1. job.loaded + 1 \in Int
        OBVIOUS
      <4>2. td' \in TdType
        BY <3>3, <4>1 DEF Count, TdType
      <4> QED
        BY <3>3, <4>2 DEF Count
    <3>4. CASE SpawnFails
      BY <3>4, TellToEndType DEF SpawnFails
    <3>5. CASE Loop
      <4>1. PICK terminate \in BOOLEAN :
              /\ td' = [td EXCEPT !.terminate = terminate]
              /\ job' = [job EXCEPT !.pc = IF terminate \/ (options.phase = "io" /\ job.issued = MaxIos)
                                             THEN "exit" ELSE "get"]
        BY <3>5 DEF Loop, TdType
      <4>2. td' \in TdType
        BY <4>1 DEF TdType
      <4>3. job' \in JobType /\ job'.pc \notin {"held", "after"}
        BY <4>1
      <4> QED
        BY <3>5, <4>2, <4>3 DEF Loop
    <3>6. CASE Check
      BY <3>6 DEF Check, TdType
    <3>7. CASE Get
      <4> DEFINE again == td.requeues # <<>>
                 last  == Len(td.freelist)
                 u     == IF again THEN Head(td.requeues) ELSE td.freelist[last]
      <4>1. u \in IoUs
        BY <3>7 DEF Get, Take, TdType
      <4>2. /\ (IF again THEN Tail(td.requeues) ELSE td.requeues) \in Seq(IoUs)
            /\ (IF again THEN td.freelist ELSE SubSeq(td.freelist, 1, last - 1)) \in Seq(IoUs)
        BY <3>7 DEF Get, Take, TdType
      <4>3. td.free \ {u} \in SUBSET IoUs /\ td.deferred \ {u} \in SUBSET IoUs
        BY DEF TdType
      <4>4. td' \in TdType
        BY <3>7, <4>2, <4>3 DEF Get, Take, TdType
      <4>5. job' = [job EXCEPT !.pc = "held", !.held = u] /\ fate' \in Fates
        BY <3>7 DEF Get, Take, Fates
      <4> HIDE DEF u
      <4> QED
        BY <3>7, <4>1, <4>4, <4>5 DEF Get, Take
    <3>8. CASE GetWaits
      BY <3>8 DEF GetWaits
    <3>9. CASE NothingLeft
      BY <3>9, PutType DEF NothingLeft, PutFate, Fates
    <3>10. CASE Requeue
      <4>1. /\ td.free \cup {job.held} \in SUBSET IoUs
            /\ Append(td.requeues, job.held) \in Seq(IoUs)
        BY <3>10 DEF Requeue, Reads, TdType
      <4>2. td' \in TdType
        BY <3>10, <4>1 DEF Requeue, TdType
      <4> QED
        BY <3>10, <4>2 DEF Requeue, Completed
    <3>11. CASE ReadFails
      <4>1. job.issued + 1 \in 0..MaxIos
        BY <3>11, VerifyAssumption DEF ReadFails, Reads
      <4>2. td' \in TdType
        BY <3>11, PutType DEF ReadFails, Reads
      <4> QED
        BY <3>11, <4>1, <4>2 DEF ReadFails, Completed, PutFate, Fates
    <3>17. CASE ReadsNothing
      <4>1. job.issued + 1 \in 0..MaxIos
        BY <3>17, VerifyAssumption DEF ReadsNothing, Reads
      <4>2. td' \in TdType
        BY <3>17, PutType DEF ReadsNothing, Reads, TdType
      <4> QED
        BY <3>17, <4>1, <4>2 DEF ReadsNothing, PutFate, Fates
    <3>12. CASE Complete
      <4>1. /\ Append(td.verify_list, job.held) \in Seq(IoUs)
            /\ td.deferred \cup {job.held} \in SUBSET IoUs
        BY <3>12 DEF Complete, Reads, TdType
      <4>2. td' \in TdType
        BY <3>12, <4>1 DEF Complete, TdType
      <4>3. job.issued + 1 \in 0..MaxIos
        BY <3>12, VerifyAssumption DEF Complete, Reads
      <4>4. job' \in JobType /\ job'.held \in IoUs
        BY <3>12, <4>3 DEF Complete, Reads
      <4>5. /\ thr' \in ThrType
            /\ \A w \in Verifiers : thr'[w].pc \in {"verify", "put"} => thr'[w].list # <<>>
        <5>1. CASE Asleep = {}
          BY <3>12, <5>1 DEF Complete
        <5>2. ASSUME NEW w \in Verifiers, w \in Asleep, VGoto(w, "lock")
              PROVE  <4>5!1 /\ <4>5!2
          BY <5>2 DEF Asleep, VGoto, ThrType, ThrPcs
        <5> QED
          BY <3>12, <5>1, <5>2 DEF Complete, Asleep
      <4> QED
        BY <3>12, <4>2, <4>4, <4>5 DEF Complete
    <3>13. CASE After
      <4>1. td' \in TdType
        BY <3>13, PutType DEF After
      <4> QED
        BY <3>13, <4>1 DEF After, Completed, PutFate, Fates
    <3>14. CASE Exit
      BY <3>14, TellToEndType DEF Exit
    <3>15. CASE ExitTest
      BY <3>15 DEF ExitTest
    <3>16. CASE Cleanup
      <4>1. <<>> \in Seq(IoUs)
        OBVIOUS
      <4>2. td' \in TdType
        BY <3>16, <4>1 DEF Cleanup, TdType
      <4> QED
        BY <3>16, <4>2 DEF Cleanup
    <3> QED
      BY <2>3, <3>1, <3>2, <3>3, <3>4, <3>5, <3>6, <3>7, <3>8, <3>9, <3>10,
         <3>11, <3>12, <3>13, <3>14, <3>15, <3>16, <3>17 DEF Job
  <2> QED
    BY <2>1, <2>2, <2>3 DEF Next
<1> QED
  BY <1>1, <1>2, PTL DEF Spec

-----------------------------------------------------------------------------
(***************************************************************************)
(* Who has an io_u.  The lists of the verifiers and verify_list, which is  *)
(* nobody's, hold an io_u at most once between them.                       *)
(***************************************************************************)
Owners == Verifiers \cup {Nobody}
Lists  == [v \in Owners |-> IF v = Nobody THEN td.verify_list ELSE thr[v].list]

ListsOf == [Owners -> Seq(IoUs)]
In(L, u) == \E v \in Owners : \E i \in 1..Len(L[v]) : L[v][i] = u
Once(L) ==
    \A v, w \in Owners : \A i \in 1..Len(L[v]), j \in 1..Len(L[w]) :
        L[v][i] = L[w][j] => v = w /\ i = j

\* A verifier splices the whole of verify_list off.
LEMMA SpliceOnce ==
    ASSUME NEW L \in ListsOf, Once(L), NEW v \in Verifiers
    PROVE  LET M == [L EXCEPT ![v] = L[Nobody], ![Nobody] = <<>>]
           IN  Once(M) /\ \A u \in IoUs : In(M, u) => In(L, u)
<1> DEFINE M == [L EXCEPT ![v] = L[Nobody], ![Nobody] = <<>>]
<1>0. Nobody \in Owners /\ v \in Owners /\ v # Nobody
  BY DEF Owners, Verifiers, Nobody
<1>1. /\ M[Nobody] = <<>> /\ M[v] = L[Nobody]
      /\ \A w \in Owners \ {v, Nobody} : M[w] = L[w]
  BY <1>0 DEF ListsOf
<1>2. Len(M[Nobody]) = 0
  BY <1>1
<1> HIDE DEF M
<1>3. Once(M)
  BY <1>0, <1>1, <1>2 DEF Once
<1>4. ASSUME NEW u \in IoUs, In(M, u) PROVE In(L, u)
  BY <1>0, <1>1, <1>2, <1>4 DEF In
<1> QED
  BY <1>3, <1>4 DEF M

\* A verifier is done with the first io_u of its list: nobody else has that.
LEMMA TailOnce ==
    ASSUME NEW L \in ListsOf, Once(L), NEW v \in Owners, L[v] # <<>>
    PROVE  LET M == [L EXCEPT ![v] = Tail(L[v])]
           IN  /\ Once(M)
               /\ ~In(M, Head(L[v]))
               /\ \A u \in IoUs : In(M, u) => In(L, u)
<1> DEFINE M == [L EXCEPT ![v] = Tail(L[v])]
<1>0. L[v] \in Seq(IoUs) /\ Len(L[v]) \in Nat \ {0} /\ Head(L[v]) = L[v][1]
  BY DEF ListsOf
<1>1. /\ Len(M[v]) = Len(L[v]) - 1
      /\ \A i \in 1..Len(M[v]) : M[v][i] = L[v][i + 1]
      /\ \A w \in Owners \ {v} : M[w] = L[w]
  BY <1>0 DEF ListsOf
<1> HIDE DEF M
<1>2. Once(M)
  <2> SUFFICES ASSUME NEW a \in Owners, NEW b \in Owners,
                      NEW i \in 1..Len(M[a]), NEW j \in 1..Len(M[b]), M[a][i] = M[b][j]
               PROVE  a = b /\ i = j
    BY DEF Once
  <2>0. \A k \in 1..Len(M[v]) : k + 1 \in 1..Len(L[v]) /\ M[v][k] = L[v][k + 1]
    BY <1>0, <1>1
  <2>1. CASE a = v /\ b = v
    <3>1. L[v][i + 1] = L[v][j + 1] /\ i + 1 \in 1..Len(L[v]) /\ j + 1 \in 1..Len(L[v])
      BY <2>0, <2>1
    <3>2. i + 1 = j + 1
      BY <3>1 DEF Once
    <3> QED
      BY <1>0, <1>1, <2>1, <3>2
  <2>2. CASE a = v /\ b # v
    <3>1. L[v][i + 1] = L[b][j] /\ i + 1 \in 1..Len(L[v]) /\ j \in 1..Len(L[b])
      BY <1>1, <2>0, <2>2
    <3> QED
      BY <2>2, <3>1 DEF Once
  <2>3. CASE a # v /\ b = v
    <3>1. L[a][i] = L[v][j + 1] /\ i \in 1..Len(L[a]) /\ j + 1 \in 1..Len(L[v])
      BY <1>1, <2>0, <2>3
    <3> QED
      BY <2>3, <3>1 DEF Once
  <2>4. CASE a # v /\ b # v
    BY <1>1, <2>4 DEF Once
  <2> QED
    BY <2>1, <2>2, <2>3, <2>4
<1>3. ~In(M, Head(L[v]))
  <2> SUFFICES ASSUME NEW a \in Owners, NEW i \in 1..Len(M[a]), M[a][i] = L[v][1]
               PROVE  FALSE
    BY <1>0 DEF In
  <2>1. CASE a = v
    <3>1. i + 1 \in 1..Len(L[v]) /\ L[v][i + 1] = L[v][1] /\ 1 \in 1..Len(L[v])
      BY <1>0, <1>1, <2>1
    <3>2. i + 1 = 1
      BY <3>1 DEF Once
    <3> QED
      BY <1>0, <1>1, <2>1, <3>2
  <2>2. CASE a # v
    BY <1>0, <1>1, <2>2 DEF Once
  <2> QED
    BY <2>1, <2>2
<1>4. ASSUME NEW u \in IoUs, In(M, u) PROVE In(L, u)
  <2>1. PICK a \in Owners : \E i \in 1..Len(M[a]) : M[a][i] = u
    BY <1>4 DEF In
  <2>2. CASE a = v
    BY <1>0, <1>1, <2>1, <2>2 DEF In
  <2>3. CASE a # v
    BY <1>1, <2>1, <2>3 DEF In
  <2> QED
    BY <2>2, <2>3
<1> QED
  BY <1>2, <1>3, <1>4 DEF M

\* The job queues an io_u that nobody has.
LEMMA AppendOnce ==
    ASSUME NEW L \in ListsOf, Once(L), NEW u \in IoUs, ~In(L, u)
    PROVE  LET M == [L EXCEPT ![Nobody] = Append(L[Nobody], u)]
           IN  Once(M) /\ \A x \in IoUs : In(M, x) => In(L, x) \/ x = u
<1> DEFINE M == [L EXCEPT ![Nobody] = Append(L[Nobody], u)]
           n == Len(L[Nobody])
<1>0. Nobody \in Owners /\ L[Nobody] \in Seq(IoUs) /\ n \in Nat
  BY DEF Owners, ListsOf
<1>1. /\ Len(M[Nobody]) = n + 1
      /\ \A i \in 1..n : M[Nobody][i] = L[Nobody][i]
      /\ M[Nobody][n + 1] = u
      /\ \A w \in Owners \ {Nobody} : M[w] = L[w]
  BY <1>0 DEF ListsOf
<1> HIDE DEF M
<1>2. ASSUME NEW a \in Owners, NEW i \in 1..Len(M[a]), a # Nobody \/ i # n + 1
      PROVE  i \in 1..Len(L[a]) /\ M[a][i] = L[a][i]
  BY <1>0, <1>1, <1>2
<1>3. Once(M)
  <2> SUFFICES ASSUME NEW a \in Owners, NEW b \in Owners,
                      NEW i \in 1..Len(M[a]), NEW j \in 1..Len(M[b]), M[a][i] = M[b][j]
               PROVE  a = b /\ i = j
    BY DEF Once
  <2>1. CASE (a # Nobody \/ i # n + 1) /\ (b # Nobody \/ j # n + 1)
    BY <1>2, <2>1 DEF Once
  <2>2. CASE a = Nobody /\ i = n + 1 /\ (b # Nobody \/ j # n + 1)
    BY <1>1, <1>2, <2>2 DEF In
  <2>3. CASE (a # Nobody \/ i # n + 1) /\ b = Nobody /\ j = n + 1
    BY <1>1, <1>2, <2>3 DEF In
  <2> QED
    BY <2>1, <2>2, <2>3
<1>4. ASSUME NEW x \in IoUs, In(M, x) PROVE In(L, x) \/ x = u
  BY <1>1, <1>2, <1>4 DEF In
<1> QED
  BY <1>3, <1>4 DEF M

\* An io_u with a verifier, or on its way to one, has IO_U_F_FREE_DEF and not
\* IO_U_F_FREE; the one the job has taken and not yet read into has not
\* IO_U_F_FREE and is with nobody.
FlagsTell ==
    /\ \A u \in IoUs : In(Lists, u) => u \in td.deferred /\ u \notin td.free
    /\ job.pc = "held" => job.held \notin td.free /\ ~In(Lists, job.held)

OwnerInv == Once(Lists) /\ (fate = "ok" => FlagsTell)

\* The lists are lists of io_u's.
LEMMA ListsType == ASSUME Shape PROVE Lists \in ListsOf
BY DEF Shape, TdType, ThrType, Lists, ListsOf, Owners, Verifiers, Nobody

LEMMA ListsKept ==
    ASSUME td'.verify_list = td.verify_list, \A v \in Verifiers : thr'[v].list = thr[v].list
    PROVE  Lists' = Lists
BY DEF Lists, Owners

\* Nothing that leaves the lists and the flags alone takes an io_u away from
\* its owner.
LEMMA OwnersKept ==
    ASSUME OwnerInv, Lists' = Lists, fate' = fate,
           td'.deferred = td.deferred, td'.free = td.free,
           job'.pc = "held" => job.pc = "held" /\ job'.held = job.held
    PROVE  OwnerInv'
BY DEF OwnerInv, FlagsTell, Once, In

\* An io_u that is with nobody can be put on the free list.
LEMMA PutKeepsOwners ==
    ASSUME Shape, NEW u \in IoUs, NEW L, \A x \in IoUs : In(L, x) => In(Lists, x),
           ~In(L, u), \A x \in IoUs : In(Lists, x) => x \in td.deferred /\ x \notin td.free
    PROVE  \A x \in IoUs : In(L, x) => x \in Put(u).deferred /\ x \notin Put(u).free
BY DEF Put, Shape, TdType

\* The broadcast takes no io_u from anybody.
LEMMA TellKeepsOwners ==
    ASSUME Shape, TellToEnd
    PROVE  Lists' = Lists /\ td'.deferred = td.deferred /\ td'.free = td.free
<1>1. /\ td'.verify_list = td.verify_list
      /\ td'.deferred = td.deferred /\ td'.free = td.free
  BY DEF Shape, TellToEnd, TdType
<1>2. \A v \in Verifiers : thr'[v].list = thr[v].list
  BY DEF Shape, TellToEnd, ThrType
<1> QED
  BY <1>1, <1>2 DEF Lists, Owners

\* No step of the job or of a verifier gives an io_u a second owner.
LEMMA OwnerInvariance == Spec => []OwnerInv
<1>1. Init => OwnerInv
  <2> SUFFICES ASSUME Init PROVE OwnerInv
    OBVIOUS
  <2>1. \A v \in Owners : Lists[v] = <<>>
    BY DEF Init, Lists, Owners
  <2> QED
    BY <2>1 DEF OwnerInv, FlagsTell, Once, In, Init
<1>2. Shape /\ OwnerInv /\ [Next]_vars => OwnerInv'
  <2> SUFFICES ASSUME Shape, OwnerInv, [Next]_vars PROVE OwnerInv'
    OBVIOUS
  <2>0. /\ Lists \in ListsOf
        /\ \A u, v : u \in Verifiers /\ v = Nobody => u # v
    BY ListsType DEF Verifiers, Nobody
  <2> USE DEF Shape
  <2>1. CASE UNCHANGED vars
    BY <2>1, OwnersKept DEF vars, Lists
  <2>2. ASSUME NEW v \in Verifiers, Verifier(v) PROVE OwnerInv'
    <3> USE DEF At
    <3>1. CASE VStart(v)
      BY <3>1, OwnersKept DEF VStart, VGoto, ThrType, Lists
    <3>2. CASE VTop(v)
      BY <3>2, OwnersKept DEF VTop, VGoto, ThrType, Lists
    <3>3. CASE VIdle(v)
      BY <3>3, OwnersKept DEF VIdle, VGoto, ThrType, TdType, Lists
    <3>4. CASE VSleep(v)
      BY <3>4, OwnersKept DEF VSleep, VGoto, ThrType, TdType, Lists
    <3>5. CASE VTake(v)
      <4>1. Lists' = [Lists EXCEPT ![v] = Lists[Nobody], ![Nobody] = <<>>]
        <5>1. td'.verify_list = <<>>
          BY <3>5 DEF VTake, TdType
        <5>2. /\ thr'[v].list = td.verify_list
              /\ \A w \in Verifiers \ {v} : thr'[w].list = thr[w].list
          BY <3>5 DEF VTake, ThrType
        <5> QED
          BY <2>0, <5>1, <5>2 DEF Lists, Owners
      <4>2. Once(Lists') /\ \A u \in IoUs : In(Lists', u) => In(Lists, u)
        BY <2>0, <4>1, SpliceOnce DEF OwnerInv
      <4> QED
        BY <3>5, <4>2 DEF VTake, TdType, OwnerInv, FlagsTell
    <3>6. CASE VVerify(v)
      <4>1. \A w \in Verifiers : thr'[w].list = thr[w].list
        BY <3>6 DEF VVerify, ThrType
      <4>2. Lists' = Lists
        <5>1. td'.verify_list = td.verify_list
          BY <3>6 DEF VVerify, TdType
        <5> QED
          BY <4>1, <5>1, ListsKept
      <4> QED
        BY <3>6, <4>2, OwnersKept DEF VVerify, TdType
    <3>7. CASE VPut(v)
      <4> DEFINE u == Head(thr[v].list)
      <4>1. Lists[v] = thr[v].list /\ Lists[v] # <<>> /\ u \in IoUs
        BY <2>0, <3>7 DEF VPut, Lists, Owners, ThrType
      <4>2. Lists' = [Lists EXCEPT ![v] = Tail(Lists[v])]
        <5>1. td'.verify_list = td.verify_list
          BY <3>7 DEF VPut, Put, TdType
        <5>2. /\ thr'[v].list = Tail(thr[v].list)
              /\ \A w \in Verifiers \ {v} : thr'[w].list = thr[w].list
          BY <3>7 DEF VPut, ThrType
        <5> QED
          BY <2>0, <4>1, <5>1, <5>2 DEF Lists, Owners
      <4>3. Once(Lists') /\ ~In(Lists', u) /\ \A x \in IoUs : In(Lists', x) => In(Lists, x)
        BY <2>0, <4>1, <4>2, TailOnce DEF OwnerInv, Owners
      <4>4. td'.deferred = Put(u).deferred /\ td'.free = Put(u).free
        BY <3>7 DEF VPut, Put, TdType
      <4>5. fate' = "ok" => \A x \in IoUs : In(Lists', x) => x \in td'.deferred /\ x \notin td'.free
        BY <3>7, <4>1, <4>3, <4>4, PutKeepsOwners DEF VPut, OwnerInv, FlagsTell
      <4>6. job'.pc = "held" => job.pc = "held" /\ job'.held = job.held
        BY <3>7, NotifiedType DEF VPut
      <4>7. job.pc = "held" => u # job.held
        BY <3>7, <4>1 DEF VPut, OwnerInv, FlagsTell, In, Owners
      <4> QED
        BY <3>7, <4>3, <4>4, <4>5, <4>6, <4>7 DEF VPut, Put, TdType, OwnerInv, FlagsTell, JobType
    <3>8. CASE VLeave(v)
      <4>1. \A w \in Verifiers : thr'[w].list = thr[w].list
        BY <3>8 DEF VLeave, ThrType
      <4>2. Lists' = Lists
        <5>1. td'.verify_list = td.verify_list
          BY <3>8 DEF VLeave, TdType
        <5> QED
          BY <4>1, <5>1, ListsKept
      <4> QED
        BY <3>8, <4>2, OwnersKept DEF VLeave, TdType
    <3>9. CASE VGone(v)
      <4>1. \A w \in Verifiers : thr'[w].list = thr[w].list
        BY <3>9 DEF VGone, ThrType
      <4>2. Lists' = Lists
        <5>1. td'.verify_list = td.verify_list
          BY <3>9 DEF VGone, TdType
        <5> QED
          BY <4>1, <5>1, ListsKept
      <4> QED
        BY <3>9, <4>2, OwnersKept, NotifiedType DEF VGone, TdType
    <3> QED
      BY <2>2, <3>1, <3>2, <3>3, <3>4, <3>5, <3>6, <3>7, <3>8, <3>9 DEF Verifier
  <2>3. CASE Job
    <3> USE DEF JobAt, Goto
    <3>1. CASE Spawn
      BY <3>1, OwnersKept DEF Spawn, VGoto, ThrType, JobType, Lists
    <3>2. CASE Load
      BY <3>2, OwnersKept DEF Load, JobType, Lists
    <3>3. CASE Count
      BY <3>3, OwnersKept DEF Count, JobType, TdType, Lists
    <3>4. CASE SpawnFails
      BY <3>4, OwnersKept, TellKeepsOwners DEF SpawnFails, JobType
    <3>5. CASE Loop
      BY <3>5, OwnersKept DEF Loop, JobType, TdType, Lists
    <3>6. CASE Check
      BY <3>6, OwnersKept DEF Check, JobType, TdType, Lists
    <3>7. CASE Get
      BY <3>7 DEF Get, Take, JobType, TdType, Lists, OwnerInv, FlagsTell
    <3>8. CASE GetWaits
      BY <3>8, OwnersKept DEF GetWaits, JobType, Lists
    <3>9. CASE NothingLeft
      BY <3>9, PutKeepsOwners DEF NothingLeft, Put, JobType, TdType, Lists, OwnerInv, FlagsTell
    <3>10. CASE Requeue
      BY <3>10 DEF Requeue, Reads, JobType, TdType, Lists, OwnerInv, FlagsTell, Completed
    <3>11. CASE ReadFails
      <4>1. job.held \in IoUs /\ ~In(Lists, job.held) /\ fate = "ok"
        BY <3>11 DEF ReadFails, Reads, OwnerInv, FlagsTell
      <4>2. /\ td'.deferred = Put(job.held).deferred /\ td'.free = Put(job.held).free
            /\ Lists' = Lists
        BY <3>11 DEF ReadFails, Put, TdType, Lists
      <4>3. \A x \in IoUs : In(Lists, x) => x \in td'.deferred /\ x \notin td'.free
        BY <4>1, <4>2, PutKeepsOwners DEF OwnerInv, FlagsTell
      <4> QED
        BY <3>11, <4>2, <4>3 DEF ReadFails, Completed, JobType, OwnerInv, FlagsTell
    <3>17. CASE ReadsNothing
      <4>1. job.held \in IoUs /\ ~In(Lists, job.held) /\ fate = "ok"
        BY <3>17 DEF ReadsNothing, Reads, OwnerInv, FlagsTell
      <4>2. /\ td'.deferred = Put(job.held).deferred /\ td'.free = Put(job.held).free
            /\ Lists' = Lists
        BY <3>17 DEF ReadsNothing, Put, TdType, Lists
      <4>3. \A x \in IoUs : In(Lists, x) => x \in td'.deferred /\ x \notin td'.free
        BY <4>1, <4>2, PutKeepsOwners DEF OwnerInv, FlagsTell
      <4> QED
        BY <3>17, <4>2, <4>3 DEF ReadsNothing, JobType, OwnerInv, FlagsTell
    <3>12. CASE Complete
      <4>1. job.held \in IoUs /\ ~In(Lists, job.held) /\ job.held \notin td.free
        BY <3>12 DEF Complete, Reads, OwnerInv, FlagsTell
      <4>2. /\ td'.verify_list = Append(td.verify_list, job.held)
            /\ td'.deferred = td.deferred \cup {job.held} /\ td'.free = td.free
        BY <3>12 DEF Complete, TdType
      <4>3. \A w \in Verifiers : thr'[w].list = thr[w].list
        <5>1. ASSUME NEW w \in Asleep, VGoto(w, "lock")
              PROVE  \A x \in Verifiers : thr'[x].list = thr[x].list
          BY <5>1 DEF Asleep, VGoto, ThrType
        <5> QED
          BY <3>12, <5>1 DEF Complete
      <4>4. Lists' = [Lists EXCEPT ![Nobody] = Append(Lists[Nobody], job.held)]
        BY <2>0, <4>2, <4>3 DEF Lists, Owners
      <4>5. Once(Lists') /\ \A x \in IoUs : In(Lists', x) => In(Lists, x) \/ x = job.held
        BY <2>0, <4>1, <4>4, AppendOnce DEF OwnerInv
      <4>6. job'.pc # "held"
        BY <3>12 DEF Complete, JobType
      <4> QED
        BY <3>12, <4>1, <4>2, <4>5, <4>6 DEF Complete, Reads, OwnerInv, FlagsTell
    <3>13. CASE After
      <4>1. job'.pc # "held" /\ job.held \in IoUs /\ fate = "ok"
        BY <3>13 DEF After, JobType, Completed
      <4>2. CASE job.held \in td.deferred
        BY <3>13, <4>1, <4>2 DEF After, Lists, OwnerInv, FlagsTell, Once, In
      <4>3. CASE job.held \notin td.deferred
        <5>1. td' = Put(job.held) /\ ~In(Lists, job.held)
          BY <3>13, <4>1, <4>3 DEF After, OwnerInv, FlagsTell
        <5>2. Lists' = Lists
          BY <3>13, <5>1 DEF After, Put, TdType, Lists
        <5>3. \A x \in IoUs : In(Lists', x) => x \in td'.deferred /\ x \notin td'.free
          BY <4>1, <5>1, <5>2, PutKeepsOwners DEF OwnerInv, FlagsTell
        <5> QED
          BY <4>1, <5>2, <5>3 DEF OwnerInv, FlagsTell
      <4> QED
        BY <4>2, <4>3
    <3>14. CASE Exit
      BY <3>14, OwnersKept, TellKeepsOwners DEF Exit, JobType
    <3>15. CASE ExitTest
      BY <3>15, OwnersKept DEF ExitTest, JobType, Lists
    <3>16. CASE Cleanup
      BY <3>16, OwnersKept DEF Cleanup, JobType, TdType, Lists
    <3> QED
      BY <2>3, <3>1, <3>2, <3>3, <3>4, <3>5, <3>6, <3>7, <3>8, <3>9, <3>10,
         <3>11, <3>12, <3>13, <3>14, <3>15, <3>16, <3>17 DEF Job
  <2> QED
    BY <2>1, <2>2, <2>3 DEF Next
<1> QED
  BY <1>1, <1>2, ShapeInvariance, PTL DEF Spec

\* The places an io_u is listed at are positions of Lists.
LEMMA PlacesAreListed ==
    ASSUME Shape, NEW u \in IoUs, NEW x \in Places(u)
    PROVE  \E v \in Owners : \E i \in 1..Len(Lists[v]) : x = <<v, i>> /\ Lists[v][i] = u
<1>0. \A v \in Verifiers : v # Nobody
  BY DEF Verifiers, Nobody
<1>1. /\ DOMAIN td.verify_list = 1..Len(td.verify_list)
      /\ \A v \in Verifiers : DOMAIN thr[v].list = 1..Len(thr[v].list)
  BY DEF Shape, TdType, ThrType
<1>2. CASE \E i \in DOMAIN td.verify_list : x = <<Nobody, i>> /\ td.verify_list[i] = u
  BY <1>1, <1>2 DEF Lists, Owners
<1>3. CASE \E v \in Verifiers : \E i \in DOMAIN thr[v].list : x = <<v, i>> /\ thr[v].list[i] = u
  BY <1>0, <1>1, <1>3 DEF Lists, Owners
<1> QED
  BY <1>2, <1>3 DEF Places

\* No io_u is with two verifiers, or listed twice, or read into while it is
\* verified, though io_u_sync_complete may put one twice: whatever the iodepth
\* and the number of verifiers, up to a failed assertion or an overrun.
THEOREM SingleOwner == Spec => []OneOwner
<1>1. Shape /\ OwnerInv => OneOwner
  <2> SUFFICES ASSUME Shape, OwnerInv, fate = "ok", NEW u \in IoUs
               PROVE  /\ Cardinality(Places(u)) <= 1
                      /\ job.pc = "held" /\ job.held = u => Places(u) = {}
    BY DEF OneOwner
  <2>1. \A x, y \in Places(u) : x = y
    <3> SUFFICES ASSUME NEW x \in Places(u), NEW y \in Places(u) PROVE x = y
      OBVIOUS
    <3>1. PICK v \in Owners : \E i \in 1..Len(Lists[v]) : x = <<v, i>> /\ Lists[v][i] = u
      BY PlacesAreListed
    <3>2. PICK w \in Owners : \E j \in 1..Len(Lists[w]) : y = <<w, j>> /\ Lists[w][j] = u
      BY PlacesAreListed
    <3> QED
      BY <3>1, <3>2 DEF OwnerInv, Once
  <2>2. Places(u) # {} => In(Lists, u)
    BY PlacesAreListed DEF In
  <2>3. CASE Places(u) = {}
    BY <2>3, FS_EmptySet
  <2>4. ASSUME NEW x \in Places(u) PROVE Cardinality(Places(u)) <= 1
    <3>1. Places(u) = {x}
      BY <2>1
    <3> QED
      BY <3>1, FS_Singleton
  <2> QED
    BY <2>2, <2>3, <2>4 DEF OwnerInv, FlagsTell
<1> QED
  BY <1>1, ShapeInvariance, OwnerInvariance, PTL

-----------------------------------------------------------------------------
(***************************************************************************)
(* The number of verifiers.  nr_verify_threads++ is not under the lock, so *)
(* it can overwrite a decrement, and a decrement can overwrite it.  While  *)
(* no increment was lost, the counter is at least what it should be, and 0 *)
(* is reached only when every thread has left.                             *)
(***************************************************************************)
Gone == {v \in Verifiers : thr[v].pc = "gone"}
Within(n, c) ==
    /\ -Cardinality(Gone) <= n /\ n <= c
    /\ "increment" \notin lost => c - Cardinality(Gone) <= n

\* A verifier that waits to sleep, or counts itself out, has the lock.
LockInv == \A v \in Verifiers : thr[v].pc \in {"sleepy", "leaving"} => td.lock = v

\* The k threads created so far were counted, except the last one while the job
\* is about to count it.
Counted(k) == IF job.pc \in {"load", "count"} THEN k - 1 ELSE k
Leaving(c) ==
    \A v \in Verifiers :
        thr[v].pc = "leaving" => -Cardinality(Gone) <= thr[v].loaded /\ thr[v].loaded <= c
CountOf(k) ==
    /\ Unborn = (k + 1)..NThreads
    /\ job.pc \in {"load", "count"} => k > 0
    /\ job.pc = "spawn" => k < NThreads
    /\ Within(td.nr_verify_threads, Counted(k))
    /\ job.pc = "count" => Within(job.loaded, Counted(k))
    /\ Leaving(Counted(k))

CountInv == (\E k \in 0..NThreads : CountOf(k)) /\ NoneAfterCleanup

Starting == {"spawn", "load", "count"}
Closed   == {"cleanup", "done"}

\* There are NThreads verifiers, and as many can be gone.
LEMMA GoneFinite ==
    /\ IsFiniteSet(Verifiers) /\ Cardinality(Verifiers) = NThreads
    /\ IsFiniteSet(Gone) /\ Cardinality(Gone) \in 0..NThreads
<1>1. IsFiniteSet(1..NThreads) /\ Cardinality(1..NThreads) = NThreads
  BY VerifyAssumption, FS_Interval
<1>2. /\ IsFiniteSet(Gone) /\ Cardinality(Gone) <= Cardinality(Verifiers)
  BY <1>1, FS_Subset DEF Gone, Verifiers
<1> QED
  BY <1>1, <1>2, VerifyAssumption, FS_CardinalityType DEF Verifiers

\* A step that creates, counts and ends no thread keeps the counter right.
LEMMA CountKept ==
    ASSUME Shape, CountInv, thr' \in ThrType, Unborn' = Unborn, Gone' = Gone,
           td'.nr_verify_threads = td.nr_verify_threads, lost' = lost,
           \A v \in Verifiers :
             thr'[v].pc = "leaving" => thr[v].pc = "leaving" /\ thr'[v].loaded = thr[v].loaded,
           job'.loaded = job.loaded,
           job'.pc = job.pc \/ {job.pc, job'.pc} \cap Starting = {},
           job'.pc \in Closed => job.pc \in Closed
    PROVE  CountInv'
<1>1. PICK k \in 0..NThreads : CountOf(k)
  BY DEF CountInv
<1>2. CountOf(k)'
  <2>1. Within(td.nr_verify_threads, Counted(k)) => Within(td.nr_verify_threads, Counted(k))'
    BY Zenon DEF Counted, Within, Starting
  <2>2. job'.pc = "count" => Within(job.loaded, Counted(k))'
    BY <1>1, Zenon DEF CountOf, Counted, Within, Starting
  <2>3. Leaving(Counted(k))'
    BY <1>1, Zenon DEF CountOf, Counted, Leaving, Starting
  <2> QED
    BY <1>1, <2>1, <2>2, <2>3, Zenon DEF CountOf, Starting
<1>3. NoneAfterCleanup'
  BY DEF CountInv, NoneAfterCleanup, Closed, Gone, Unborn, Shape, ThrType
<1> QED
  BY <1>2, <1>3 DEF CountInv

\* The broadcast neither creates nor ends a verifier.
LEMMA TellKeepsCount ==
    ASSUME Shape, TellToEnd
    PROVE  /\ Unborn' = Unborn /\ Gone' = Gone
           /\ td'.nr_verify_threads = td.nr_verify_threads
           /\ \A v \in Verifiers :
                thr'[v].pc = "leaving" =>
                  thr[v].pc = "leaving" /\ thr'[v].loaded = thr[v].loaded
BY DEF Shape, TellToEnd, ThrType, TdType, Unborn, Gone, Asleep

\* put_io_u does not touch the counter, and its signal starts nothing.
LEMMA PutKeepsCount ==
    ASSUME Shape
    PROVE  /\ \A u : Put(u).nr_verify_threads = td.nr_verify_threads
           /\ Notified.loaded = job.loaded
           /\ Notified.pc = job.pc \/ {job.pc, Notified.pc} \cap (Starting \cup Closed) = {}
BY DEF Shape, Put, Notified, TdType, JobType, Starting, Closed

\* No step of another thread gives up the lock of a verifier.
LEMMA LockInvariance == Spec => []LockInv
<1>1. Init => LockInv
  BY DEF Init, LockInv
<1>2. Shape /\ LockInv /\ [Next]_vars => LockInv'
  <2> SUFFICES ASSUME Shape, LockInv, [Next]_vars PROVE LockInv'
    OBVIOUS
  <2>0. thr \in ThrType /\ td \in TdType /\ Nobody \notin Verifiers
    BY DEF Shape, Nobody, Verifiers
  <2>1. CASE UNCHANGED vars
    BY <2>1 DEF vars, LockInv
  <2>2. ASSUME NEW v \in Verifiers, Verifier(v) PROVE LockInv'
    <3> USE <2>0 DEF At, VGoto, Unlocked, LockInv
    <3>1. CASE VStart(v)
      BY <3>1 DEF VStart, ThrType
    <3>2. CASE VTop(v)
      BY <3>2 DEF VTop, ThrType
    <3>3. CASE VIdle(v)
      BY <3>3 DEF VIdle, ThrType, TdType
    <3>4. CASE VSleep(v)
      BY <3>4 DEF VSleep, ThrType, TdType
    <3>5. CASE VTake(v)
      BY <3>5 DEF VTake, ThrType, TdType
    <3>6. CASE VVerify(v)
      <4>1. /\ \A w \in Verifiers : thr'[w].pc = IF w = v THEN "put" ELSE thr[w].pc
            /\ td'.lock = td.lock
        BY <3>6 DEF VVerify, ThrType, TdType
      <4> QED
        BY <4>1
    <3>7. CASE VPut(v)
      <4>1. /\ \A w \in Verifiers \ {v} : thr'[w].pc = thr[w].pc
            /\ thr'[v].pc \in {"verify", "leave", "top"}
            /\ td'.lock = td.lock
        BY <3>7 DEF VPut, Put, ThrType, TdType
      <4> QED
        BY <4>1
    <3>8. CASE VLeave(v)
      BY <3>8 DEF VLeave, ThrType, TdType
    <3>9. CASE VGone(v)
      BY <3>9 DEF VGone, ThrType, TdType
    <3> QED
      BY <2>2, <3>1, <3>2, <3>3, <3>4, <3>5, <3>6, <3>7, <3>8, <3>9 DEF Verifier
  <2>3. CASE Job
    <3>1. td'.lock = td.lock
      <4> USE <2>0 DEF TdType
      <4>1. CASE Spawn \/ Load \/ Count \/ SpawnFails \/ Loop \/ Check \/ Exit \/ ExitTest \/ Cleanup
        BY <4>1 DEF Spawn, Load, Count, SpawnFails, TellToEnd, Loop, Check, Exit, ExitTest, Cleanup
      <4>2. CASE Get \/ GetWaits \/ NothingLeft \/ Requeue \/ ReadFails \/ ReadsNothing
        BY <4>2 DEF Get, Take, GetWaits, NothingLeft, Requeue, ReadFails, ReadsNothing, Put
      <4>3. CASE Complete \/ After
        BY <4>3 DEF Complete, After, Put
      <4> QED
        BY <2>3, <4>1, <4>2, <4>3 DEF Job
    <3>2. \A w \in Verifiers : thr'[w].pc \in {"sleepy", "leaving"} => thr'[w].pc = thr[w].pc
      <4> USE <2>0 DEF ThrType
      <4>1. CASE Spawn
        BY <4>1 DEF Spawn, VGoto
      <4>2. CASE SpawnFails \/ Exit
        BY <4>2 DEF SpawnFails, Exit, TellToEnd
      <4>3. CASE Complete
        BY <4>3 DEF Complete, VGoto, Asleep
      <4>4. CASE UNCHANGED thr
        BY <4>4
      <4> QED
        BY <2>3, <4>1, <4>2, <4>3, <4>4 DEF Job, Load, Count, Loop, Check, Get, Take, GetWaits,
           NothingLeft, Requeue, ReadFails, ReadsNothing, After, ExitTest, Cleanup
    <3> QED
      BY <3>1, <3>2 DEF LockInv
  <2> QED
    BY <2>1, <2>2, <2>3 DEF Next
<1> QED
  BY <1>1, <1>2, ShapeInvariance, PTL DEF Spec

\* Only a lost increment takes the counter below what it should be.
LEMMA CountInvariance == Spec => []CountInv
<1>1. Init => CountInv
  <2> SUFFICES ASSUME Init PROVE CountInv
    OBVIOUS
  <2>1. Gone = {} /\ Unborn = (0 + 1)..NThreads
    BY DEF Init, Gone, Unborn, Verifiers
  <2>2. Cardinality(Gone) = 0
    BY <2>1, FS_EmptySet
  <2>3. CountOf(0)
    BY <2>1, <2>2, VerifyAssumption DEF Init, CountOf, Counted, Within, Leaving
  <2> QED
    BY <2>3, VerifyAssumption DEF CountInv, NoneAfterCleanup, Init
<1>2. Shape /\ Shape' /\ LockInv /\ CountInv /\ [Next]_vars => CountInv'
  <2> SUFFICES ASSUME Shape, Shape', LockInv, CountInv, [Next]_vars PROVE CountInv'
    OBVIOUS
  <2>0. thr \in ThrType /\ thr' \in ThrType /\ td \in TdType /\ job \in JobType
    BY DEF Shape
  <2>1. CASE UNCHANGED vars
    BY <2>0, <2>1, CountKept DEF vars, Unborn, Gone
  <2>2. ASSUME NEW v \in Verifiers, Verifier(v) PROVE CountInv'
    <3> USE <2>0 DEF At, history
    <3>1. CASE VStart(v)
      BY <3>1, CountKept DEF VStart, VGoto, ThrType, Unborn, Gone
    <3>2. CASE VTop(v)
      BY <3>2, CountKept DEF VTop, VGoto, ThrType, Unborn, Gone
    <3>3. CASE VIdle(v)
      BY <3>3, CountKept DEF VIdle, VGoto, ThrType, TdType, Unborn, Gone
    <3>4. CASE VSleep(v)
      BY <3>4, CountKept DEF VSleep, VGoto, ThrType, TdType, Unborn, Gone
    <3>5. CASE VTake(v)
      BY <3>5, CountKept DEF VTake, ThrType, TdType, Unborn, Gone
    <3>6. CASE VVerify(v)
      BY <3>6, CountKept DEF VVerify, ThrType, TdType, Unborn, Gone
    <3>7. CASE VPut(v)
      <4>1. Unborn' = Unborn /\ Gone' = Gone
        BY <3>7 DEF VPut, ThrType, Unborn, Gone
      <4>2. td'.nr_verify_threads = td.nr_verify_threads
        BY <3>7 DEF VPut, Put, TdType
      <4> QED
        <5>1. \A w \in Verifiers :
                thr'[w].pc = "leaving" => thr[w].pc = "leaving" /\ thr'[w].loaded = thr[w].loaded
          BY <3>7 DEF VPut, ThrType
        <5> QED
          BY <3>7, <4>1, <4>2, <5>1, CountKept, PutKeepsCount DEF VPut
    <3>8. CASE VLeave(v)
      <4>1. Unborn' = Unborn /\ Gone' = Gone
        BY <3>8 DEF VLeave, ThrType, Unborn, Gone
      <4>2. td'.nr_verify_threads = td.nr_verify_threads
        BY <3>8 DEF VLeave, TdType
      <4>3. \A w \in Verifiers :
              thr'[w].pc = "leaving" =>
                \/ thr[w].pc = "leaving" /\ thr'[w].loaded = thr[w].loaded
                \/ thr'[w].loaded = td.nr_verify_threads
        BY <3>8 DEF VLeave, ThrType
      <4>4. PICK k \in 0..NThreads : CountOf(k)
        BY DEF CountInv
      <4>5. Leaving(Counted(k)) /\ Within(td.nr_verify_threads, Counted(k))
        BY <4>4 DEF CountOf
      <4>6. job' = job /\ lost' = lost
        BY <3>8 DEF VLeave, history
      <4>7. Leaving(Counted(k))'
        BY <4>1, <4>3, <4>5, <4>6, Zenon DEF Leaving, Within, Counted
      <4>8. CountOf(k)'
        BY <4>1, <4>2, <4>4, <4>6, <4>7, Zenon DEF CountOf, Counted, Within
      <4>9. NoneAfterCleanup'
        BY <3>8, <4>6 DEF VLeave, ThrType, CountInv, NoneAfterCleanup
      <4> QED
        BY <4>8, <4>9 DEF CountInv
    <3>9. CASE VGone(v)
      <4>1. Unborn' = Unborn /\ Gone' = Gone \cup {v} /\ v \notin Gone
        BY <3>9 DEF VGone, ThrType, Unborn, Gone
      <4>2. Cardinality(Gone') = Cardinality(Gone) + 1 /\ Cardinality(Gone) \in Nat
        <5>1. IsFiniteSet(Gone) /\ Cardinality(Gone) \in Nat
          BY GoneFinite
        <5>2. Cardinality(Gone \cup {v}) = Cardinality(Gone) + 1
          BY <4>1, <5>1, FS_AddElement
        <5> QED
          BY <4>1, <5>1, <5>2
      <4>3. /\ td'.nr_verify_threads = thr[v].loaded - 1
            /\ td.nr_verify_threads \in Int /\ thr[v].loaded \in Int
        BY <3>9 DEF VGone, TdType, ThrType
      <4>4. PICK k \in 0..NThreads : CountOf(k)
        BY DEF CountInv
      <4>5. /\ job'.loaded = job.loaded /\ job.loaded \in Int
            /\ job'.pc = job.pc \/ {job.pc, job'.pc} \cap (Starting \cup Closed) = {}
        BY <3>9, PutKeepsCount DEF VGone, JobType
      <4>6. Counted(k)' = Counted(k) /\ Counted(k) \in Int
        BY <4>5, VerifyAssumption DEF Counted, Starting
      <4>7. -Cardinality(Gone) <= thr[v].loaded /\ thr[v].loaded <= Counted(k)
        BY <3>9, <4>4 DEF VGone, CountOf, Leaving
      <4>8. "increment" \notin lost' => "increment" \notin lost /\ td.nr_verify_threads = thr[v].loaded
        BY <3>9 DEF VGone
      <4>9. \A w \in Verifiers : thr'[w].pc # "leaving"
        <5>1. \A w \in Verifiers : thr[w].pc = "leaving" => w = v
          BY <3>9 DEF VGone, LockInv
        <5> QED
          BY <3>9, <5>1 DEF VGone, ThrType
      <4>10. Within(td.nr_verify_threads, Counted(k))'
        <5>1. Within(td.nr_verify_threads, Counted(k))
          BY <4>4 DEF CountOf
        <5> QED
          BY <5>1, <4>2, <4>3, <4>6, <4>7, <4>8 DEF Within
      <4>11. Within(job.loaded, Counted(k)) => Within(job.loaded, Counted(k))'
        BY <4>2, <4>5, <4>6, <4>8 DEF Within
      <4>12. CountOf(k)'
        BY <4>1, <4>4, <4>5, <4>9, <4>10, <4>11 DEF CountOf, Leaving, Starting
      <4>13. NoneAfterCleanup'
        BY <3>9, <4>5, <4>8 DEF VGone, ThrType, CountInv, NoneAfterCleanup, Closed
      <4> QED
        BY <4>12, <4>13 DEF CountInv
    <3> QED
      BY <2>2, <3>1, <3>2, <3>3, <3>4, <3>5, <3>6, <3>7, <3>8, <3>9 DEF Verifier
  <2>3. CASE Job
    <3> USE <2>0 DEF JobAt, Goto, history
    <3>0. ASSUME UNCHANGED thr PROVE Unborn' = Unborn /\ Gone' = Gone
      BY <3>0 DEF Unborn, Gone
    <3>1. CASE Spawn
      <4>1. PICK k \in 0..NThreads : CountOf(k)
        BY DEF CountInv
      <4>2. k < NThreads /\ Cardinality(Unborn) = NThreads - k
        <5>1. k < NThreads /\ Unborn = (k + 1)..NThreads
          BY <3>1, <4>1 DEF Spawn, CountOf
        <5>2. Cardinality((k + 1)..NThreads) = NThreads - (k + 1) + 1
          BY <5>1, FS_Interval, VerifyAssumption
        <5> QED
          BY <5>1, <5>2, VerifyAssumption
      <4>3. thr' = [thr EXCEPT ![k + 1].pc = "start"] /\ k + 1 \in Unborn
        <5>1. NThreads + 1 - Cardinality(Unborn) = k + 1
          BY <4>2, VerifyAssumption
        <5>2. k + 1 \in Unborn
          BY <4>1, <4>2, VerifyAssumption DEF CountOf
        <5> QED
          BY <3>1, <5>1, <5>2 DEF Spawn, VGoto
      <4>4. Unborn' = ((k + 1) + 1)..NThreads /\ Gone' = Gone
        <5>1. Unborn' = Unborn \ {k + 1} /\ Gone' = Gone
          BY <4>3 DEF ThrType, Unborn, Gone
        <5> QED
          BY <4>1, <4>2, <5>1, VerifyAssumption DEF CountOf
      <4>5. CountOf(k + 1)'
        <5>1. job'.pc = "load" /\ job.pc = "spawn" /\ td' = td /\ lost' = lost
          BY <3>1 DEF Spawn, JobType
        <5>2. Counted(k + 1)' = Counted(k)
          BY <4>2, <5>1, VerifyAssumption DEF Counted
        <5>3. \A w \in Verifiers :
                thr'[w].pc = "leaving" => thr[w].pc = "leaving" /\ thr'[w].loaded = thr[w].loaded
          BY <4>3 DEF ThrType
        <5>4. Leaving(Counted(k + 1))'
          BY <4>1, <4>4, <5>2, <5>3 DEF CountOf, Leaving
        <5>5. Within(td.nr_verify_threads, Counted(k + 1))'
          BY <4>1, <4>4, <5>1, <5>2 DEF CountOf, Within
        <5> QED
          BY <4>2, <4>4, <5>1, <5>4, <5>5 DEF CountOf
      <4> QED
        BY <3>1, <4>2, <4>5, VerifyAssumption DEF Spawn, CountInv, NoneAfterCleanup, JobType
    <3>2. CASE Load
      <4>1. PICK k \in 0..NThreads : CountOf(k)
        BY DEF CountInv
      <4>2. /\ Unborn' = Unborn /\ Gone' = Gone /\ UNCHANGED <<thr, td, lost>>
            /\ job.pc = "load" /\ job'.pc = "count"
            /\ job'.loaded = td.nr_verify_threads
        BY <3>0, <3>2 DEF Load, JobType
      <4>3. CountOf(k)'
        BY <4>1, <4>2 DEF CountOf, Counted, Within, Leaving
      <4> QED
        BY <4>2, <4>3 DEF CountInv, NoneAfterCleanup
    <3>3. CASE Count
      <4>1. PICK k \in 0..NThreads : CountOf(k)
        BY DEF CountInv
      <4>2. /\ Unborn' = Unborn /\ Gone' = Gone
            /\ td'.nr_verify_threads = job.loaded + 1 /\ job.loaded \in Int
            /\ Cardinality(Gone) \in Nat
            /\ job'.pc = IF Unborn = {} THEN "loop" ELSE "spawn"
        BY <3>0, <3>3, GoneFinite DEF Count, TdType, JobType
      <4>3. Unborn # {} => k < NThreads
        BY <4>1, VerifyAssumption DEF CountOf
      <4>4. CountOf(k)'
        <5>1. job.pc = "count" /\ thr' = thr /\ ("increment" \notin lost' => "increment" \notin lost)
          BY <3>3 DEF Count
        <5>2. Counted(k)' = k /\ Counted(k) = k - 1
          BY <4>2, <5>1 DEF Counted
        <5>3. Within(td.nr_verify_threads, Counted(k))'
          BY <4>1, <4>2, <5>1, <5>2 DEF CountOf, Within
        <5>4. Leaving(Counted(k))'
          BY <4>1, <4>2, <5>1, <5>2 DEF CountOf, Leaving, ThrType
        <5> QED
          BY <4>1, <4>2, <4>3, <5>3, <5>4 DEF CountOf
      <4> QED
        BY <4>2, <4>4 DEF CountInv, NoneAfterCleanup
    <3>4. CASE SpawnFails
      <4>1. PICK k \in 0..NThreads : CountOf(k)
        BY DEF CountInv
      <4>2. CountOf(k)' /\ job'.pc = "exit"
        <5>1. job.pc = "spawn" /\ job'.pc = "exit" /\ lost' = lost
          BY <3>4 DEF SpawnFails, JobType
        <5>2. Counted(k)' = Counted(k)
          BY <5>1 DEF Counted
        <5>3. Leaving(Counted(k))'
          BY <3>4, <4>1, <5>2, TellKeepsCount DEF SpawnFails, CountOf, Leaving
        <5>4. Within(td.nr_verify_threads, Counted(k))'
          BY <3>4, <4>1, <5>1, <5>2, TellKeepsCount DEF SpawnFails, CountOf, Within
        <5> QED
          BY <3>4, <4>1, <5>1, <5>3, <5>4, TellKeepsCount DEF SpawnFails, CountOf
      <4> QED
        BY <4>2 DEF CountInv, NoneAfterCleanup
    <3> USE DEF Starting, Closed
    <3>5. CASE Loop
      BY <3>0, <3>5, CountKept DEF Loop, JobType, TdType
    <3>6. CASE Check
      BY <3>0, <3>6, CountKept DEF Check, JobType, TdType
    <3>7. CASE Get
      BY <3>0, <3>7, CountKept DEF Get, Take, JobType, TdType
    <3>8. CASE GetWaits
      BY <3>0, <3>8, CountKept DEF GetWaits, JobType
    <3>9. CASE NothingLeft
      BY <3>0, <3>9, CountKept, PutKeepsCount DEF NothingLeft, JobType
    <3>10. CASE Requeue
      BY <3>0, <3>10, CountKept DEF Requeue, Reads, Completed, JobType, TdType
    <3>11. CASE ReadFails
      <4>1. td'.nr_verify_threads = td.nr_verify_threads
        BY <3>11 DEF ReadFails, Put, TdType
      <4> QED
        BY <3>0, <3>11, <4>1, CountKept DEF ReadFails, Reads, Completed, JobType
    <3>17. CASE ReadsNothing
      <4>1. td'.nr_verify_threads = td.nr_verify_threads
        BY <3>17 DEF ReadsNothing, Put, TdType
      <4> QED
        BY <3>0, <3>17, <4>1, CountKept DEF ReadsNothing, Reads, JobType
    <3>12. CASE Complete
      <4>1. Unborn' = Unborn /\ Gone' = Gone
        <5>1. ASSUME NEW w \in Asleep, VGoto(w, "lock") PROVE Unborn' = Unborn /\ Gone' = Gone
          BY <5>1 DEF Asleep, VGoto, ThrType, Unborn, Gone
        <5> QED
          BY <3>0, <3>12, <5>1 DEF Complete
      <4> QED
        <5>1. \A w \in Verifiers :
                thr'[w].pc = "leaving" => thr[w].pc = "leaving" /\ thr'[w].loaded = thr[w].loaded
          BY <3>12 DEF Complete, VGoto, Asleep, ThrType
        <5> QED
          BY <3>12, <4>1, <5>1, CountKept DEF Complete, Reads, JobType, TdType
    <3>13. CASE After
      <4>1. td'.nr_verify_threads = td.nr_verify_threads
        BY <3>13, PutKeepsCount DEF After
      <4> QED
        BY <3>0, <3>13, <4>1, CountKept DEF After, Completed, JobType
    <3>14. CASE Exit
      BY <3>14, CountKept, TellKeepsCount DEF Exit, JobType
    <3>15. CASE ExitTest
      <4>1. CASE td.nr_verify_threads # 0
        BY <3>0, <3>15, <4>1, CountKept DEF ExitTest, JobType
      <4>2. CASE td.nr_verify_threads = 0
        <5>1. PICK k \in 0..NThreads : CountOf(k)
          BY DEF CountInv
        <5>2. job.pc = "exitTest" /\ job'.pc = "cleanup" /\ UNCHANGED <<thr, td, lost>>
          BY <3>15, <4>2 DEF ExitTest, JobType
        <5>3. CountOf(k)'
          <6>1. Counted(k)' = Counted(k) /\ Unborn' = Unborn /\ Gone' = Gone
            BY <3>0, <5>2 DEF Counted
          <6> QED
            BY <5>1, <5>2, <6>1, Zenon DEF CountOf, Within, Leaving
        <5>4. CASE "increment" \in lost
          BY <5>2, <5>3, <5>4 DEF CountInv, NoneAfterCleanup
        <5>5. CASE "increment" \notin lost
          <6>1. Unborn = (k + 1)..NThreads /\ k <= Cardinality(Gone)
            BY <4>2, <5>1, <5>2, <5>5, GoneFinite, VerifyAssumption DEF CountOf, Counted, Within
          <6>2. Gone \subseteq 1..k
            BY <6>1, VerifyAssumption DEF Gone, Unborn, Verifiers
          <6>3. IsFiniteSet(1..k) /\ Cardinality(1..k) = k
            BY FS_Interval
          <6>4. Gone = 1..k
            <7>1. Cardinality(Gone) <= Cardinality(1..k)
              BY <6>2, <6>3, FS_Subset
            <7>2. Cardinality(Gone) = Cardinality(1..k)
              BY <6>1, <6>3, <7>1, GoneFinite
            <7> QED
              BY <6>2, <6>3, <7>2, FS_Subset
          <6>5. NoneAfterCleanup'
            BY <5>2, <6>1, <6>4, VerifyAssumption DEF NoneAfterCleanup, Gone, Unborn, Verifiers
          <6> QED
            BY <5>3, <6>5 DEF CountInv
        <5> QED
          BY <5>4, <5>5
      <4> QED
        BY <4>1, <4>2
    <3>16. CASE Cleanup
      BY <3>0, <3>16, CountKept DEF Cleanup, JobType, TdType
    <3> QED
      BY <2>3, <3>1, <3>2, <3>3, <3>4, <3>5, <3>6, <3>7, <3>8, <3>9, <3>10,
         <3>11, <3>12, <3>13, <3>14, <3>15, <3>16, <3>17 DEF Job
  <2> QED
    BY <2>1, <2>2, <2>3 DEF Next
<1> QED
  BY <1>1, <1>2, ShapeInvariance, LockInvariance, PTL DEF Spec

\* verify_async_exit returns only when every verifier it created has left its
\* loop, however many there are: a lost decrement only makes it wait, and nothing
\* but a lost increment lets the job free the io_u's too early.
THEOREM CleanupIsLast == Spec => []NoneAfterCleanup
BY CountInvariance, PTL DEF CountInv

-----------------------------------------------------------------------------
(***************************************************************************)
(* How long the lists get.                                                 *)
(***************************************************************************)
\* An io_u is requeued only when the job took the last requeued one, and a put
\* that overruns the free list is the end.
QueueInv ==
    /\ Len(td.requeues) <= 1
    /\ job.pc = "held" => Len(td.requeues) = 0
    /\ fate = "ok" => Len(td.freelist) <= Depth

\* Nothing is left of a list of one io_u when that is taken.
LEMMA TailOfOne ==
    ASSUME NEW s \in Seq(IoUs), s # <<>>, Len(s) <= 1
    PROVE  Len(Tail(s)) = 0
<1> DEFINE n == Len(s)
<1>1. n \in Nat /\ n # 0 /\ n <= 1 /\ Len(Tail(s)) = n - 1
  OBVIOUS
<1> HIDE DEF n
<1> QED
  BY <1>1

\* A step that leaves the requeued and the free io_u's alone.
LEMMA QueuesKept ==
    ASSUME QueueInv, td'.requeues = td.requeues, td'.freelist = td.freelist,
           fate' = fate, job'.pc = "held" => job.pc = "held"
    PROVE  QueueInv'
BY DEF QueueInv

\* put_io_u on the free list, up to its capacity.
LEMMA PutQueues ==
    ASSUME Shape, QueueInv, fate = "ok", NEW u \in IoUs, td'.requeues = td.requeues,
           td'.freelist = Put(u).freelist, fate' = PutFate,
           job'.pc = "held" => job.pc = "held"
    PROVE  QueueInv'
<1>1. td.freelist \in Seq(IoUs) /\ td'.freelist = Append(td.freelist, u)
  BY DEF Shape, Put, TdType
<1>2. Len(td'.freelist) = Len(td.freelist) + 1 /\ Len(td.freelist) \in Nat
  BY <1>1
<1>3. fate' = "ok" => Len(td.freelist) < Depth
  BY DEF PutFate
<1>4. fate' = "ok" => Len(td'.freelist) <= Depth
  BY <1>2, <1>3, VerifyAssumption
<1> QED
  BY <1>4 DEF QueueInv

\* Every step keeps the requeued and the free io_u's within their bounds.
LEMMA QueueInvariance == Spec => []QueueInv
<1>1. Init => QueueInv
  <2> SUFFICES ASSUME Init PROVE QueueInv
    OBVIOUS
  <2>1. Len(td.freelist) = Depth
    <3>1. td.freelist = [u \in 1..Depth |-> u]
      BY DEF Init, IoUs
    <3> QED
      BY <3>1, VerifyAssumption
  <2> QED
    BY <2>1, VerifyAssumption DEF Init, QueueInv
<1>2. Shape /\ QueueInv /\ [Next]_vars => QueueInv'
  <2> SUFFICES ASSUME Shape, QueueInv, [Next]_vars PROVE QueueInv'
    OBVIOUS
  <2> USE DEF Shape
  <2>1. CASE UNCHANGED vars
    BY <2>1, QueuesKept DEF vars
  <2>2. ASSUME NEW v \in Verifiers, Verifier(v) PROVE QueueInv'
    <3>1. CASE VStart(v) \/ VTop(v)
      BY <3>1, QueuesKept DEF VStart, VTop
    <3>2. CASE VIdle(v)
      BY <3>2, QueuesKept DEF VIdle, TdType
    <3>3. CASE VSleep(v)
      BY <3>3, QueuesKept DEF VSleep, TdType
    <3>4. CASE VTake(v)
      BY <3>4, QueuesKept DEF VTake, TdType
    <3>5. CASE VVerify(v)
      BY <3>5, QueuesKept DEF VVerify, TdType
    <3>6. CASE VPut(v)
      <4>1. fate = "ok" /\ Head(thr[v].list) \in IoUs
        BY <3>6 DEF VPut, At, ThrType
      <4>2. td'.requeues = td.requeues /\ td'.freelist = Put(Head(thr[v].list)).freelist
        BY <3>6 DEF VPut, Put, TdType
      <4> QED
        BY <3>6, <4>1, <4>2, PutQueues, NotifiedType DEF VPut
    <3>7. CASE VLeave(v)
      BY <3>7, QueuesKept DEF VLeave, TdType
    <3>8. CASE VGone(v)
      BY <3>8, QueuesKept, NotifiedType DEF VGone, TdType
    <3> QED
      BY <2>2, <3>1, <3>2, <3>3, <3>4, <3>5, <3>6, <3>7, <3>8 DEF Verifier
  <2>3. CASE Job
    <3> USE DEF JobAt, Goto, JobType
    <3>1. CASE Spawn \/ Load \/ GetWaits \/ ExitTest
      BY <3>1, QueuesKept DEF Spawn, Load, GetWaits, ExitTest
    <3>2. CASE Count
      BY <3>2, QueuesKept DEF Count, TdType
    <3>3. CASE SpawnFails
      BY <3>3, QueuesKept DEF SpawnFails, TellToEnd, TdType
    <3>4. CASE Loop
      BY <3>4, QueuesKept DEF Loop, TdType
    <3>5. CASE Check
      BY <3>5, QueuesKept DEF Check, TdType
    <3>6. CASE Get
      <4>1. td.requeues \in Seq(IoUs) /\ td.freelist \in Seq(IoUs)
        BY DEF TdType
      <4>2. CASE td.requeues # <<>>
        <5>1. td'.requeues = Tail(td.requeues) /\ td'.freelist = td.freelist
          BY <3>6, <4>2 DEF Get, Take, TdType
        <5>2. Len(td.requeues) <= 1
          BY DEF QueueInv
        <5>3. Len(td'.requeues) = 0
          BY <4>1, <4>2, <5>1, <5>2, TailOfOne
        <5>4. fate' = "ok" => fate = "ok"
          BY <3>6 DEF Get, Take
        <5> QED
          BY <5>1, <5>3, <5>4 DEF QueueInv
      <4>3. CASE td.requeues = <<>>
        <5>1. /\ td'.requeues = <<>>
              /\ td'.freelist = SubSeq(td.freelist, 1, Len(td.freelist) - 1)
              /\ td.freelist # <<>>
          BY <3>6, <4>3 DEF Get, Take, TdType
        <5>2. Len(td'.freelist) = Len(td.freelist) - 1 /\ Len(td.freelist) \in Nat
          BY <4>1, <5>1
        <5>3. Len(td'.requeues) = 0
          BY <5>1
        <5> QED
          BY <3>6, <5>2, <5>3, VerifyAssumption DEF Get, Take, QueueInv
      <4> QED
        BY <4>2, <4>3
    <3>7. CASE NothingLeft
      BY <3>7, PutQueues DEF NothingLeft, Put, TdType
    <3>8. CASE Requeue
      <4>1. td.requeues \in Seq(IoUs) /\ job.held \in IoUs
        BY <3>8 DEF Requeue, Reads, TdType
      <4>2. td'.requeues = Append(td.requeues, job.held) /\ td'.freelist = td.freelist
        BY <3>8 DEF Requeue, TdType
      <4>3. Len(td'.requeues) = 1
        BY <3>8, <4>1, <4>2 DEF Requeue, Reads, QueueInv
      <4>4. job'.pc # "held"
        BY <3>8 DEF Requeue, Completed
      <4> QED
        BY <3>8, <4>2, <4>3, <4>4 DEF Requeue, QueueInv
    <3>9. CASE ReadFails
      <4>1. td'.requeues = td.requeues /\ td'.freelist = Put(job.held).freelist
        BY <3>9 DEF ReadFails, Put, TdType
      <4> QED
        BY <3>9, <4>1, PutQueues DEF ReadFails, Reads, Completed
    <3>14. CASE ReadsNothing
      <4>1. td'.requeues = td.requeues /\ td'.freelist = Put(job.held).freelist
        BY <3>14 DEF ReadsNothing, Put, TdType
      <4> QED
        BY <3>14, <4>1, PutQueues DEF ReadsNothing, Reads
    <3>10. CASE Complete
      BY <3>10, QueuesKept DEF Complete, TdType
    <3>11. CASE After
      <4>1. job'.pc # "held"
        BY <3>11 DEF After, Completed
      <4>2. CASE job.held \in td.deferred
        BY <3>11, <4>1, <4>2, QueuesKept DEF After
      <4>3. CASE job.held \notin td.deferred
        BY <3>11, <4>1, <4>3, PutQueues DEF After, Put, TdType
      <4> QED
        BY <4>2, <4>3
    <3>12. CASE Exit
      BY <3>12, QueuesKept DEF Exit, TellToEnd, TdType
    <3>13. CASE Cleanup
      <4>1. td'.requeues = <<>> /\ td'.freelist = <<>>
        BY <3>13 DEF Cleanup, TdType
      <4>2. Len(td'.requeues) = 0 /\ Len(td'.freelist) = 0
        BY <4>1
      <4> QED
        BY <4>2, VerifyAssumption DEF QueueInv
    <3> QED
      BY <2>3, <3>1, <3>2, <3>3, <3>4, <3>5, <3>6, <3>7, <3>8, <3>9, <3>10,
         <3>11, <3>12, <3>13, <3>14 DEF Job
  <2> QED
    BY <2>1, <2>2, <2>3 DEF Next
<1> QED
  BY <1>1, <1>2, ShapeInvariance, PTL DEF Spec

\* A sequence no longer than iodepth is one of SeqOf.
LEMMA ShortSeq ==
    ASSUME NEW s \in Seq(IoUs), Len(s) <= Depth
    PROVE  s \in SeqOf(IoUs, Depth)
<1>1. s \in [1..Len(s) -> IoUs] /\ Len(s) \in 0..Depth
  BY VerifyAssumption
<1> QED
  BY <1>1 DEF SeqOf

\* A list that holds no io_u twice is no longer than iodepth.
LEMMA OnceIsShort ==
    ASSUME Shape, Once(Lists), NEW v \in Owners
    PROVE  Lists[v] \in SeqOf(IoUs, Depth)
<1> DEFINE s == Lists[v]
<1>1. s \in Seq(IoUs) /\ Len(s) \in Nat
  BY ListsType DEF ListsOf
<1>2. /\ IsFiniteSet(IoUs) /\ Cardinality(IoUs) = Depth
      /\ IsFiniteSet(1..Len(s)) /\ Cardinality(1..Len(s)) = Len(s)
  <2>1. IsFiniteSet(1..Depth) /\ Cardinality(1..Depth) = Depth
    BY FS_Interval, VerifyAssumption
  <2>2. IsFiniteSet(1..Len(s)) /\ Cardinality(1..Len(s)) = Len(s)
    <3> HIDE DEF s
    <3> QED
      BY <1>1, FS_Interval
  <2> QED
    BY <2>1, <2>2 DEF IoUs
<1>3. s \in [1..Len(s) -> IoUs]
  BY <1>1
<1>4. \A i, j \in 1..Len(s) : s[i] = s[j] => i = j
  BY DEF Once
<1>5. ~(Cardinality(IoUs) < Cardinality(1..Len(s)))
  <2> HIDE DEF s
  <2> QED
    BY <1>2, <1>3, <1>4, FS_PigeonHole
<1> QED
  BY <1>1, <1>2, <1>5, ShortSeq, VerifyAssumption

\* The type invariant: no list outgrows iodepth while the free list did not, and
\* the race on nr_verify_threads keeps it within the number of threads.
THEOREM TypeCorrect == Spec => []TypeOK
<1>1. Shape /\ OwnerInv /\ CountInv /\ QueueInv => TypeOK
  <2> SUFFICES ASSUME Shape, OwnerInv, CountInv, QueueInv PROVE TypeOK
    OBVIOUS
  <2>1. td.verify_list \in SeqOf(IoUs, Depth)
    BY OnceIsShort DEF OwnerInv, Lists, Owners
  <2>2. \A v \in Verifiers : thr[v].list \in SeqOf(IoUs, Depth)
    BY OnceIsShort DEF OwnerInv, Lists, Owners, Verifiers, Nobody
  <2>3. td.requeues \in SeqOf(IoUs, Depth)
    BY ShortSeq, VerifyAssumption DEF Shape, TdType, QueueInv
  <2>4. fate = "ok" => td.freelist \in SeqOf(IoUs, Depth)
    BY ShortSeq DEF Shape, TdType, QueueInv
  <2>5. td.nr_verify_threads \in -NThreads..NThreads
    <3>1. PICK k \in 0..NThreads : CountOf(k)
      BY DEF CountInv
    <3>2. Counted(k) \in 0..NThreads /\ Within(td.nr_verify_threads, Counted(k))
      BY <3>1, VerifyAssumption DEF CountOf, Counted
    <3> QED
      BY <3>2, GoneFinite, VerifyAssumption DEF Within, Shape, TdType
  <2>6. \A v \in Verifiers : thr[v].pc \in ThrPcs /\ thr[v].ret \in BOOLEAN
    BY DEF Shape, ThrType
  <2>7. td.free \subseteq IoUs /\ td.deferred \subseteq IoUs
    BY DEF Shape, TdType
  <2>8. job.pc \in JobPcs /\ job.held \in IoUs \cup {Nobody} /\ job.issued \in 0..MaxIos
    BY DEF Shape, JobType
  <2>9. job.failed \in BOOLEAN
    BY DEF Shape, JobType
  <2> QED
    BY <2>9, <2>1, <2>2, <2>3, <2>4, <2>5, <2>6, <2>7, <2>8 DEF TypeOK, Shape, JobPcs, ThrPcs, Fates
<1> QED
  BY <1>1, ShapeInvariance, OwnerInvariance, CountInvariance, QueueInvariance, PTL
=============================================================================
