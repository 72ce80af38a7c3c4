--------------------------- MODULE KvmStatProofs ---------------------------
(***************************************************************************)
(* What module KvmStat promises for any number of cpus, any trace events   *)
(* and any debug files, listed in any order: what is shown under a label,  *)
(* and what is not.                                                        *)
(***************************************************************************)
EXTENDS KvmStat, FiniteSetTheorems, SequenceTheorems, WellFoundedInduction, TLAPS

-----------------------------------------------------------------------------
(***************************************************************************)
(* Sequences.                                                              *)
(***************************************************************************)
Distinct(s) == \A a, b \in 1..Len(s) : s[a] = s[b] => a = b

\* g holds at most n events, all of them among the first n of w.
Drawn(w, g, n) ==
    Len(g) <= n /\ \A h \in 1..Len(g) : \E k \in 1..n : g[h] = w[k]

\* As long as no event of w is missing in g, each is at its own place.
Agrees(w, g) ==
    \A k \in 1..Len(w) :
        (\A h \in 1..k : w[h] \in ToSet(g)) => k <= Len(g) /\ g[k] = w[k]

LEMMA InSet ==
    ASSUME NEW S, NEW s \in Seq(S), NEW e
    PROVE  e \in ToSet(s) <=> \E h \in 1..Len(s) : s[h] = e
BY DEF ToSet

LEMMA Orders ==
    ASSUME NEW S, IsFiniteSet(S), NEW s \in SetToSeqs(S)
    PROVE  s \in Seq(S) /\ Distinct(s) /\ Len(s) = Cardinality(S)
<1> DEFINE n == Cardinality(S)
<1>1. n \in Nat
  BY FS_CardinalityType
<1>2. s \in [1..n -> S] /\ \A a, b \in 1..n : a # b => s[a] # s[b]
  BY DEF SetToSeqs
<1> HIDE DEF n
<1>3. s \in Seq(S) /\ Len(s) = n
  BY <1>1, <1>2
<1> QED
  BY <1>2, <1>3 DEF Distinct, n

LEMMA SomeOrder ==
    ASSUME NEW S, IsFiniteSet(S), NEW s \in SetToAllKPermutations(S)
    PROVE  s \in Seq(S) /\ Distinct(s)
<1>1. PICK T \in SUBSET S : s \in SetToSeqs(T)
  BY DEF SetToAllKPermutations
<1>2. IsFiniteSet(T)
  BY FS_Subset
<1>3. s \in Seq(T) /\ Distinct(s)
  BY <1>1, <1>2, Orders
<1> QED
  BY <1>3

LEMMA EmptyGroup ==
    ASSUME NEW S, NEW w \in Seq(S), NEW n \in Nat
    PROVE  Drawn(w, <<>>, n) /\ Agrees(w, <<>>)
<1>1. Drawn(w, <<>>, n)
  BY DEF Drawn
<1>2. ASSUME NEW k \in 1..Len(w), \A h \in 1..k : w[h] \in ToSet(<<>>)
      PROVE  FALSE
  <2>1. w[1] \in ToSet(<<>>)
    BY <1>2
  <2> QED
    BY <2>1 DEF ToSet
<1> QED
  BY <1>1, <1>2 DEF Agrees

\* What opening the next event does to a group.
LEMMA NextInGroup ==
    ASSUME NEW S, NEW w \in Seq(S), NEW g \in Seq(S), Distinct(w),
           NEW n \in 1..Len(w), Drawn(w, g, n - 1), Agrees(w, g)
    PROVE  Drawn(w, Append(g, w[n]), n) /\ Agrees(w, Append(g, w[n]))
<1> DEFINE e == w[n]
           f == Append(g, e)
           m == Len(g)
<1>0. e \in S /\ Len(w) \in Nat /\ m \in Nat /\ m <= n - 1
  BY DEF Drawn
<1>1. /\ f \in Seq(S) /\ Len(f) = m + 1 /\ f[m + 1] = e
      /\ \A h \in 1..m : f[h] = g[h]
  BY <1>0
<1> HIDE DEF f, e, m
<1>2. Drawn(w, f, n)
  <2>1. Len(f) <= n
    BY <1>0, <1>1
  <2>2. ASSUME NEW h \in 1..Len(f) PROVE \E k \in 1..n : f[h] = w[k]
    <3>1. CASE h = m + 1
      BY <1>0, <1>1, <3>1 DEF e
    <3>2. CASE h # m + 1
      <4>1. h \in 1..m /\ f[h] = g[h]
        BY <1>0, <1>1, <3>2
      <4>2. PICK k \in 1..(n - 1) : g[h] = w[k]
        BY <4>1 DEF Drawn, m
      <4> QED
        BY <4>1, <4>2
    <3> QED
      BY <3>1, <3>2
  <2> QED
    BY <2>1, <2>2 DEF Drawn
<1>3. ASSUME NEW h \in 1..Len(w), w[h] \in ToSet(f), h # n
      PROVE  w[h] \in ToSet(g) /\ h <= n - 1
  <2>1. PICK a \in 1..Len(f) : f[a] = w[h]
    BY <1>1, <1>3, InSet
  <2>2. a # m + 1
    BY <1>0, <1>1, <1>3, <2>1 DEF Distinct, e
  <2>3. a \in 1..m /\ g[a] = w[h]
    BY <1>0, <1>1, <2>1, <2>2
  <2>4. PICK k \in 1..(n - 1) : g[a] = w[k]
    BY <2>3 DEF Drawn, m
  <2>5. k \in 1..Len(w) /\ w[k] = w[h]
    BY <1>0, <2>3, <2>4
  <2>6. k = h
    BY <2>5 DEF Distinct
  <2> QED
    BY <2>3, <2>4, <2>6, InSet DEF m
<1>4. ASSUME NEW k \in 1..Len(w), \A h \in 1..k : w[h] \in ToSet(f)
      PROVE  k <= Len(f) /\ f[k] = w[k]
  <2>1. k <= n
    <3>1. w[k] \in ToSet(f)
      BY <1>4
    <3> QED
      BY <1>0, <1>3, <3>1
  <2>2. ASSUME NEW h \in 1..k, h # n PROVE w[h] \in ToSet(g)
    BY <1>0, <1>3, <1>4, <2>2
  <2>3. CASE k = n
    <3>1. m >= n - 1
      <4>1. CASE n = 1
        BY <1>0, <4>1
      <4>2. CASE n # 1
        <5>1. n - 1 \in 1..Len(w) /\ \A h \in 1..(n - 1) : w[h] \in ToSet(g)
          BY <1>0, <2>2, <2>3, <4>2
        <5> QED
          BY <5>1 DEF Agrees, m
      <4> QED
        BY <4>1, <4>2
    <3>2. m + 1 = n
      BY <1>0, <3>1
    <3> QED
      BY <1>1, <2>3, <3>2 DEF e
  <2>4. CASE k # n
    <3>1. \A h \in 1..k : w[h] \in ToSet(g)
      BY <1>0, <2>1, <2>2, <2>4
    <3>2. k <= m /\ g[k] = w[k]
      BY <3>1 DEF Agrees, m
    <3> QED
      BY <1>0, <1>1, <3>2
  <2> QED
    BY <2>3, <2>4
<1> QED
  BY <1>2, <1>4 DEF Agrees, f, e

-----------------------------------------------------------------------------
(***************************************************************************)
(* What is opened.                                                         *)
(***************************************************************************)
ConfInv ==
    /\ conf.nametab \in Seq(Events) /\ Distinct(conf.nametab)
    /\ conf.dir \in Seq(Events) /\ Distinct(conf.dir)
    /\ conf.eventfirst => conf.dir # <<>>
    /\ conf.debugdir \in Seq(Files) /\ Len(conf.debugdir) <= Len(Chain)

LEMMA FilesFinite == IsFiniteSet(Files) /\ Cardinality(Files) <= Len(Chain)
<1>1. Chain \in Seq(STRING) /\ Len(Chain) \in Nat
  BY KvmAssumption
<1>2. Files = {Chain[k] : k \in 1..Len(Chain)}
  BY <1>1 DEF Files, ToSet
<1> DEFINE D == 1..Len(Chain)
           f == [k \in D |-> Chain[k]]
<1>3. f \in Surjection(D, Files)
  BY <1>2 DEF Surjection
<1>4. IsFiniteSet(D) /\ Cardinality(D) = Len(Chain)
  BY <1>1, FS_Interval
<1> HIDE DEF D, f
<1> QED
  BY <1>3, <1>4, FS_Surjection

LEMMA ConfAtInit == Init => ConfInv
<1> SUFFICES ASSUME Init PROVE ConfInv
  OBVIOUS
<1>1. /\ conf.nametab \in SetToAllKPermutations(Events)
      /\ conf.dir \in SetToAllKPermutations(Events)
      /\ conf.debugdir \in SetToSeqs(Files)
      /\ conf.eventfirst => conf.dir # <<>>
  BY DEF Init
<1>2. /\ conf.nametab \in Seq(Events) /\ Distinct(conf.nametab)
      /\ conf.dir \in Seq(Events) /\ Distinct(conf.dir)
  BY <1>1, SomeOrder, KvmAssumption
<1>3. conf.debugdir \in Seq(Files) /\ Len(conf.debugdir) = Cardinality(Files)
  BY <1>1, Orders, FilesFinite
<1> QED
  BY <1>1, <1>2, <1>3, FilesFinite DEF ConfInv

\* On a cpu either the labels are wanted, or all but the first of them.
LEMMA WantedIs ==
    ASSUME ConfInv, NEW c \in CpuSet
    PROVE  /\ Wanted(c) \in Seq(Events) /\ Distinct(Wanted(c))
           /\ Len(Wanted(c)) <= ntrace /\ ntrace \in Nat
           /\ \/ Wanted(c) = Labels
              \/ /\ ntrace >= 1
                 /\ \A h \in 1..Len(Wanted(c)) : Wanted(c)[h] # Labels[1]
<1>1. CASE conf.prog = "kvmstat"
  BY <1>1 DEF ConfInv, Wanted, Labels, ntrace
<1>2. CASE conf.prog # "kvmstat"
  <2> DEFINE d == conf.dir
             t == Tail(d)
  <2>1. 1 \in CpuSet
    BY KvmAssumption DEF CpuSet
  <2>2. Labels = d /\ ntrace = Len(d)
    BY <1>2 DEF Labels, Wanted, ntrace, Scan, FirstScan
  <2>3. d \in Seq(Events) /\ Distinct(d) /\ Len(d) \in Nat
    BY DEF ConfInv
  <2>4. CASE Wanted(c) = d
    BY <2>2, <2>3, <2>4
  <2>5. CASE Wanted(c) # d
    <3>1. Wanted(c) = t /\ d # <<>>
      BY <1>2, <2>5 DEF Wanted, Scan, ConfInv
    <3> HIDE DEF d
    <3>2. /\ t \in Seq(Events) /\ Len(t) = Len(d) - 1 /\ Len(d) >= 1
          /\ \A h \in 1..Len(t) : t[h] = d[h + 1]
      BY <2>3, <3>1
    <3> HIDE DEF t
    <3>3. Distinct(t)
      <4> SUFFICES ASSUME NEW a \in 1..Len(t), NEW b \in 1..Len(t), t[a] = t[b]
                   PROVE  a = b
        BY DEF Distinct
      <4>1. a + 1 \in 1..Len(d) /\ b + 1 \in 1..Len(d) /\ d[a + 1] = d[b + 1]
        BY <2>3, <3>2
      <4>2. a + 1 = b + 1
        BY <2>3, <4>1 DEF Distinct
      <4> QED
        BY <2>3, <3>2, <4>2
    <3>4. ASSUME NEW h \in 1..Len(t) PROVE t[h] # d[1]
      <4>1. h + 1 \in 1..Len(d) /\ 1 \in 1..Len(d) /\ h + 1 # 1 /\ t[h] = d[h + 1]
        BY <2>3, <3>2
      <4> QED
        BY <2>3, <4>1 DEF Distinct
    <3> QED
      BY <2>2, <2>3, <3>1, <3>2, <3>3, <3>4
  <2> QED
    BY <2>4, <2>5
<1> QED
  BY <1>1, <1>2

-----------------------------------------------------------------------------
(***************************************************************************)
(* The inductive invariant.                                                *)
(***************************************************************************)
Counts == [CpuSet -> [Events -> 0..MaxCount]]
Levels == [Files -> 0..MaxCount]

Shape ==
    /\ ConfInv
    /\ pc \in {"open", "serve", "debug", "trace", "crashed"}
    /\ cpu \in CpuSet /\ i \in Nat \ {0}
    /\ flag \in BOOLEAN /\ leader \in [CpuSet -> BOOLEAN]
    /\ group \in [CpuSet -> Seq(Events)]
    /\ count \in Counts /\ file \in Levels
    /\ seen \in [count : Counts, file : Levels]

\* How far the opening has come.
PlaceInv ==
    /\ pc \in {"open", "crashed"} => i <= Len(Wanted(cpu)) + 1
    /\ pc \in {"serve", "trace"} => i = 1
    /\ pc = "debug" => i <= Len(conf.debugdir) + 1

GroupInv ==
    /\ \A c \in CpuSet :
         /\ Drawn(Wanted(c), group[c], Len(Wanted(c)))
         /\ Agrees(Wanted(c), group[c])
         /\ ~leader[c] => group[c] = <<>>
    /\ pc = "open" =>
         /\ Drawn(Wanted(cpu), group[cpu], i - 1)
         /\ ~flag => group[cpu] = <<>>
         /\ \A c \in CpuSet : c > cpu => group[c] = <<>>

ValueInv ==
    /\ tmp = Zeros
    /\ value \in [CpuSet -> [1..ntrace -> 0..MaxCount]]
    /\ OwnCounter
    /\ pc \in {"open", "crashed"} =>
         \A c \in CpuSet : /\ \A k \in 1..ntrace : value[c][k] = 0
                           /\ \A e \in Events : seen.count[c][e] = 0

DebugInv == debug \in Levels

-----------------------------------------------------------------------------
\* The options and the directories are read, never written.
LEMMA ConfStays == [Next]_vars => conf' = conf
BY DEF Next, vars, Crash, NotFound, NextCpu, OpenEvent, Fetch, DebugFile,
       DebugEnd, ReadCpu, Fires, GoesUp

LEMMA WantedStays ==
    ASSUME conf' = conf
    PROVE  /\ \A c : Wanted(c)' = Wanted(c)
           /\ Labels' = Labels /\ ntrace' = ntrace /\ Zeros' = Zeros
           /\ ConfInv' = ConfInv
BY DEF Wanted, Scan, FirstScan, Labels, ntrace, Zeros, ConfInv

LEMMA ShapeInvariance == Spec => []Shape
<1> USE KvmAssumption
<1>1. Init => Shape
  <2> SUFFICES ASSUME Init PROVE Shape
    OBVIOUS
  <2>1. 1 \in CpuSet /\ 0 \in 0..MaxCount
    BY DEF CpuSet
  <2>2. /\ pc = "open" /\ cpu = 1 /\ i = 1 /\ flag = FALSE
        /\ leader = [c \in CpuSet |-> FALSE] /\ group = [c \in CpuSet |-> <<>>]
        /\ count = [c \in CpuSet |-> [e \in Events |-> 0]]
        /\ file = [f \in Files |-> 0]
        /\ seen = [count |-> count, file |-> file]
    BY DEF Init
  <2>3. count \in Counts /\ file \in Levels
    BY <2>1, <2>2 DEF Counts, Levels
  <2>4. leader \in [CpuSet -> BOOLEAN] /\ flag \in BOOLEAN
    BY <2>2, Zenon
  <2>5. group \in [CpuSet -> Seq(Events)]
    BY <2>2
  <2> QED
    BY <2>1, <2>2, <2>3, <2>4, <2>5, ConfAtInit DEF Shape
<1>2. Shape /\ [Next]_vars => Shape'
  <2> SUFFICES ASSUME Shape, [Next]_vars PROVE Shape'
    OBVIOUS
  <2>0. ConfInv'
    BY ConfStays, WantedStays DEF Shape
  <2>1. CASE UNCHANGED vars
    BY <2>0, <2>1 DEF vars, Shape
  <2>2. CASE Crash \/ NotFound
    BY <2>0, <2>2 DEF Crash, NotFound, perf, Shape
  <2>3. CASE NextCpu
    <3>1. /\ cpu' \in CpuSet /\ i' = 1 /\ pc' \in {"open", "serve"}
          /\ UNCHANGED <<leader, group, count, file, seen>>
      BY <2>3 DEF NextCpu, Shape, CpuSet
    <3>2. flag' \in BOOLEAN
      BY <2>3, Zenon DEF NextCpu
    <3> QED
      BY <2>0, <3>1, <3>2 DEF Shape
  <2>4. ASSUME NEW ok \in BOOLEAN, OpenEvent(ok) PROVE Shape'
    <3>1. Wanted(cpu) \in Seq(Events) /\ i \in 1..Len(Wanted(cpu))
      BY <2>4, WantedIs DEF Shape, OpenEvent, Opening
    <3>2. Wanted(cpu)[i] \in Events
      BY <3>1
    <3>3. PICK b \in BOOLEAN : leader' = [leader EXCEPT ![cpu] = b]
      BY <2>4, Zenon DEF OpenEvent, Shape
    <3>4. leader' \in [CpuSet -> BOOLEAN]
      BY <3>3 DEF Shape
    <3>5. PICK g \in Seq(Events) : group' = [group EXCEPT ![cpu] = g]
      <4>1. group[cpu] \in Seq(Events) /\ Append(group[cpu], Wanted(cpu)[i]) \in Seq(Events)
        BY <3>2 DEF Shape
      <4> QED
        BY <2>4, <4>1, Zenon DEF OpenEvent, Shape
    <3>6. group' \in [CpuSet -> Seq(Events)]
      BY <3>5 DEF Shape
    <3> QED
      BY <2>0, <2>4, <3>4, <3>6 DEF OpenEvent, Shape
  <2>5. ASSUME NEW need_debug \in BOOLEAN, Fetch(need_debug) PROVE Shape'
    BY <2>0, <2>5 DEF Fetch, perf, Shape
  <2>6. CASE DebugFile
    <3>1. seen' = [seen EXCEPT !.file[conf.debugdir[i]] = file[conf.debugdir[i]]]
      BY <2>6 DEF DebugFile
    <3>2. conf.debugdir[i] \in Files
      BY <2>6 DEF DebugFile, Shape, ConfInv
    <3>3. seen' \in [count : Counts, file : Levels]
      BY <3>1, <3>2 DEF Shape, Levels
    <3> QED
      BY <2>0, <2>6, <3>3 DEF DebugFile, perf, Shape
  <2>7. CASE DebugEnd
    BY <2>0, <2>7 DEF DebugEnd, perf, Shape
  <2>8. CASE ReadCpu
    <3>1. seen' \in [count : Counts, file : Levels]
      BY <2>8 DEF ReadCpu, Shape, Counts
    <3> QED
      BY <2>0, <2>8, <3>1 DEF ReadCpu, perf, Shape, CpuSet
  <2>9. ASSUME NEW c \in CpuSet, NEW e \in Events, Fires(c, e) PROVE Shape'
    <3>1. count' \in Counts
      BY <2>9 DEF Fires, Shape, Counts
    <3> QED
      BY <2>0, <2>9, <3>1 DEF Fires, perf, Shape
  <2>10. ASSUME NEW f \in Files, GoesUp(f) PROVE Shape'
    <3>1. file' \in Levels
      BY <2>10 DEF GoesUp, Shape, Levels
    <3> QED
      BY <2>0, <2>10, <3>1 DEF GoesUp, perf, Shape
  <2> QED
    BY <2>1, <2>2, <2>3, <2>4, <2>5, <2>6, <2>7, <2>8, <2>9, <2>10 DEF Next
<1> QED
  BY <1>1, <1>2, PTL DEF Spec

\* The loops stay in their tables.
LEMMA PlaceInvariance == Spec => []PlaceInv
<1> USE KvmAssumption
<1>1. Init => PlaceInv
  <2> SUFFICES ASSUME Init PROVE PlaceInv
    OBVIOUS
  <2>1. pc = "open" /\ i = 1 /\ cpu = 1 /\ 1 \in CpuSet
    BY DEF Init, CpuSet
  <2>2. Len(Wanted(1)) \in Nat
    BY <2>1, ConfAtInit, WantedIs
  <2> QED
    BY <2>1, <2>2 DEF PlaceInv
<1>2. Shape /\ Shape' /\ PlaceInv /\ [Next]_vars => PlaceInv'
  <2> SUFFICES ASSUME Shape, Shape', PlaceInv, [Next]_vars PROVE PlaceInv'
    OBVIOUS
  <2>0. conf' = conf /\ \A c : Wanted(c)' = Wanted(c)
    BY ConfStays, WantedStays
  <2>w. \A c \in CpuSet : Len(Wanted(c)) \in Nat
    BY WantedIs DEF Shape
  <2>n. Len(Wanted(cpu))' = Len(Wanted(cpu')) /\ cpu' \in CpuSet /\ cpu \in CpuSet
    BY <2>0 DEF Shape
  <2>d. Len(conf.debugdir) \in Nat /\ i \in Nat
    BY DEF Shape, ConfInv
  <2>1. CASE UNCHANGED vars
    BY <2>0, <2>1 DEF vars, PlaceInv
  <2>2. CASE Crash \/ NotFound
    BY <2>0, <2>2, <2>d, <2>w, <2>n DEF Crash, NotFound, Opening, perf, PlaceInv
  <2>3. CASE NextCpu
    BY <2>0, <2>3, <2>w, <2>n DEF NextCpu, PlaceInv
  <2>4. ASSUME NEW ok \in BOOLEAN, OpenEvent(ok) PROVE PlaceInv'
    BY <2>0, <2>4, <2>d, <2>w, <2>n DEF OpenEvent, Opening, PlaceInv
  <2>5. ASSUME NEW need_debug \in BOOLEAN, Fetch(need_debug) PROVE PlaceInv'
    BY <2>0, <2>5, <2>d DEF Fetch, PlaceInv
  <2>6. CASE DebugFile
    BY <2>0, <2>6, <2>d DEF DebugFile, PlaceInv
  <2>7. CASE DebugEnd
    BY <2>7 DEF DebugEnd, PlaceInv
  <2>8. CASE ReadCpu
    BY <2>8 DEF ReadCpu, PlaceInv
  <2>9. ASSUME NEW c \in CpuSet, NEW e \in Events, Fires(c, e) PROVE PlaceInv'
    BY <2>0, <2>9 DEF Fires, PlaceInv
  <2>10. ASSUME NEW f \in Files, GoesUp(f) PROVE PlaceInv'
    BY <2>0, <2>10 DEF GoesUp, PlaceInv
  <2> QED
    BY <2>1, <2>2, <2>3, <2>4, <2>5, <2>6, <2>7, <2>8, <2>9, <2>10 DEF Next
<1> QED
  BY <1>1, <1>2, ShapeInvariance, PTL DEF Spec
-----------------------------------------------------------------------------
LEMMA GroupInvariance == Spec => []GroupInv
<1> USE KvmAssumption
<1>1. Init => GroupInv
  <2> SUFFICES ASSUME Init PROVE GroupInv
    OBVIOUS
  <2>1. /\ cpu \in CpuSet /\ i - 1 = 0
        /\ \A c \in CpuSet : group[c] = <<>>
    BY DEF Init, CpuSet
  <2>2. \A c \in CpuSet : Wanted(c) \in Seq(Events) /\ Len(Wanted(c)) \in Nat
    BY ConfAtInit, WantedIs
  <2>3. \A c \in CpuSet : /\ Drawn(Wanted(c), <<>>, Len(Wanted(c)))
                          /\ Drawn(Wanted(c), <<>>, 0)
                          /\ Agrees(Wanted(c), <<>>)
    BY <2>2, EmptyGroup
  <2> QED
    BY <2>1, <2>3 DEF GroupInv
<1>2. Shape /\ Shape' /\ PlaceInv /\ GroupInv /\ [Next]_vars => GroupInv'
  <2> SUFFICES ASSUME Shape, Shape', PlaceInv, GroupInv, [Next]_vars PROVE GroupInv'
    OBVIOUS
  <2>0. \A c : Wanted(c)' = Wanted(c)
    BY ConfStays, WantedStays
  <2>w. \A c \in CpuSet : /\ Wanted(c) \in Seq(Events) /\ Distinct(Wanted(c))
                          /\ Len(Wanted(c)) \in Nat
    BY WantedIs DEF Shape
  <2>s. cpu \in CpuSet /\ cpu' \in CpuSet /\ i \in Nat \ {0}
    BY DEF Shape
  \* Nothing is opened: the groups and the leaders stay.
  <2>g. ASSUME UNCHANGED <<group, leader>>
        PROVE  \A c \in CpuSet : /\ Drawn(Wanted(c), group[c], Len(Wanted(c)))'
                                 /\ Agrees(Wanted(c), group[c])'
                                 /\ (~leader[c] => group[c] = <<>>)'
    BY <2>0, <2>g DEF GroupInv, Drawn, Agrees
  <2>1. CASE UNCHANGED vars
    <3>1. UNCHANGED <<group, leader, pc, cpu, i, flag>>
      BY <2>1 DEF vars
    <3>2. Wanted(cpu)' = Wanted(cpu)
      BY <2>0, <3>1
    <3> QED
      BY <2>g, <3>1, <3>2 DEF GroupInv, Drawn
  <2>2. CASE pc' # "open" /\ UNCHANGED <<group, leader>>
    BY <2>g, <2>2 DEF GroupInv
  <2>3. CASE NotFound
    <3>1. /\ pc = "open" /\ i' = i + 1 /\ i' - 1 = i
          /\ UNCHANGED <<group, leader, pc, cpu, flag>>
      BY <2>3, <2>s DEF NotFound, Opening, perf
    <3>2. Wanted(cpu)' = Wanted(cpu)
      BY <2>0, <3>1
    <3>3. Drawn(Wanted(cpu), group[cpu], i)
      BY <2>s, <3>1 DEF GroupInv, Drawn, Shape
    <3> QED
      BY <2>g, <3>1, <3>2, <3>3 DEF GroupInv, Drawn
  <2>4. CASE NextCpu /\ pc' = "open"
    <3>1. /\ pc = "open" /\ i' - 1 = 0 /\ flag' = FALSE /\ cpu' = cpu + 1
          /\ UNCHANGED <<group, leader>>
      BY <2>4 DEF NextCpu
    <3>2. \A c \in CpuSet : c > cpu => group[c] = <<>>
      BY <3>1 DEF GroupInv
    <3>3. group'[cpu'] = <<>> /\ \A c \in CpuSet : c > cpu' => group'[c] = <<>>
      BY <2>s, <3>1, <3>2 DEF CpuSet
    <3>4. Drawn(Wanted(cpu'), <<>>, 0)
      BY <2>s, <2>w, EmptyGroup
    <3>5. Wanted(cpu)' = Wanted(cpu')
      BY <2>0
    <3>6. Drawn(Wanted(cpu), group[cpu], i - 1)'
      BY <3>1, <3>3, <3>4, <3>5 DEF Drawn
    <3> QED
      BY <2>g, <3>1, <3>3, <3>6 DEF GroupInv
  <2>5. ASSUME NEW ok \in BOOLEAN, OpenEvent(ok) PROVE GroupInv'
    <3> DEFINE w == Wanted(cpu)
               g == group[cpu]
               x == Append(g, w[i])
    <3>1. /\ pc = "open" /\ pc' = "open" /\ cpu' = cpu /\ i' - 1 = i
          /\ flag' = TRUE /\ i \in 1..Len(w)
          /\ leader' = [leader EXCEPT ![cpu] = IF flag THEN @ ELSE ok]
          /\ group' = [group EXCEPT ![cpu] =
                         IF ok /\ leader'[cpu] THEN Append(@, Wanted(cpu)[i]) ELSE @]
      BY <2>5, <2>s DEF OpenEvent, Opening
    <3>2. /\ g \in Seq(Events) /\ w \in Seq(Events) /\ Distinct(w) /\ Len(w) \in Nat
          /\ Drawn(w, g, i - 1) /\ Agrees(w, g)
          /\ ~flag => g = <<>>
          /\ ~leader[cpu] => g = <<>>
      BY <2>s, <2>w, <3>1 DEF GroupInv, Shape
    <3>3. Drawn(w, x, i) /\ Agrees(w, x)
      BY <3>1, <3>2, NextInGroup
    <3>4. \/ group'[cpu] = x /\ leader'[cpu]
          \/ group'[cpu] = g /\ (~leader'[cpu] => g = <<>>)
      BY <2>s, <3>1, <3>2 DEF Shape
    <3>5. Drawn(w, g, i)
      BY <3>1, <3>2 DEF Drawn
    <3>6. /\ Drawn(w, group'[cpu], i) /\ Agrees(w, group'[cpu])
          /\ ~leader'[cpu] => group'[cpu] = <<>>
      <4> HIDE DEF w, g, x
      <4> QED
        BY <3>2, <3>3, <3>4, <3>5
    <3>7. Drawn(w, group'[cpu], Len(w))
      <4> HIDE DEF w
      <4>1. Len(group'[cpu]) \in Nat
        BY <2>s DEF Shape
      <4> QED
        BY <3>1, <3>2, <3>6, <4>1 DEF Drawn
    <3>8. \A c \in CpuSet : c # cpu => group'[c] = group[c] /\ leader'[c] = leader[c]
      BY <3>1 DEF Shape
    <3>9. \A c \in CpuSet : /\ Drawn(Wanted(c), group'[c], Len(Wanted(c)))
                            /\ Agrees(Wanted(c), group'[c])
                            /\ ~leader'[c] => group'[c] = <<>>
      BY <3>6, <3>7, <3>8 DEF GroupInv
    <3>10. \A c \in CpuSet : c > cpu => group'[c] = <<>>
      <4>1. \A c \in CpuSet : c > cpu => c # cpu
        BY <2>s DEF CpuSet
      <4> QED
        BY <3>1, <3>8, <4>1 DEF GroupInv
    <3>11. \A c \in CpuSet : /\ Drawn(Wanted(c), group[c], Len(Wanted(c)))'
                             /\ Agrees(Wanted(c), group[c])'
                             /\ (~leader[c] => group[c] = <<>>)'
      BY <2>0, <3>9 DEF Drawn, Agrees
    <3>12. Drawn(Wanted(cpu), group[cpu], i - 1)'
      <4>1. Wanted(cpu)' = w
        BY <2>0, <3>1
      <4> QED
        BY <3>1, <3>6, <4>1 DEF Drawn
    <3> QED
      BY <3>1, <3>10, <3>11, <3>12 DEF GroupInv
  <2>6. ASSUME NEW need_debug \in BOOLEAN, Fetch(need_debug) PROVE GroupInv'
    BY <2>2, <2>6 DEF Fetch, perf
  <2>7. CASE Crash \/ DebugFile \/ DebugEnd \/ ReadCpu \/ (NextCpu /\ pc' # "open")
    BY <2>2, <2>7 DEF Crash, DebugFile, DebugEnd, ReadCpu, NextCpu, perf
  <2>8. CASE \/ \E c \in CpuSet, e \in Events : Fires(c, e)
             \/ \E f \in Files : GoesUp(f)
    <3>1. UNCHANGED <<group, leader, pc, cpu, i, flag>>
      BY <2>8 DEF Fires, GoesUp, perf
    <3>2. Wanted(cpu)' = Wanted(cpu)
      BY <2>0, <3>1
    <3> QED
      BY <2>g, <3>1, <3>2 DEF GroupInv, Drawn
  <2> QED
    BY <2>1, <2>3, <2>4, <2>5, <2>6, <2>7, <2>8 DEF Next
<1> QED
  BY <1>1, <1>2, ShapeInvariance, PlaceInvariance, PTL DEF Spec
-----------------------------------------------------------------------------
\* Where all labels up to the k-th are in the group, the k-th value of the group
\* is the count of the k-th label.
LEMMA ReadIs ==
    ASSUME Shape, GroupInv, tmp = Zeros
    PROVE  /\ Read \in [1..ntrace -> 0..MaxCount]
           /\ \A k \in 1..ntrace :
                (\A h \in 1..k : Labels[h] \in ToSet(group[cpu])) =>
                    Read[k] = count[cpu][Labels[k]]
<1> USE KvmAssumption
<1> DEFINE w == Wanted(cpu)
           g == group[cpu]
<1>1. /\ cpu \in CpuSet /\ g \in Seq(Events) /\ Len(g) \in Nat
      /\ count[cpu] \in [Events -> 0..MaxCount]
      /\ \A k \in 1..Len(g) : g[k] \in Events
  BY DEF Shape, Counts
<1>2. /\ w \in Seq(Events) /\ ntrace \in Nat
      /\ \/ w = Labels
         \/ ntrace >= 1 /\ \A h \in 1..Len(w) : w[h] # Labels[1]
  BY <1>1, WantedIs DEF Shape
<1>3. Drawn(w, g, Len(w)) /\ Agrees(w, g) /\ (~leader[cpu] => g = <<>>)
  BY <1>1 DEF GroupInv
<1> HIDE DEF w, g
<1>4. ASSUME NEW k \in 1..ntrace
      PROVE  Read[k] = IF leader[cpu] /\ k <= Len(g) THEN count[cpu][g[k]] ELSE 0
  BY DEF Read, Zeros, g
<1>5. ASSUME NEW k \in 1..ntrace PROVE Read[k] \in 0..MaxCount
  <2>1. k <= Len(g) => count[cpu][g[k]] \in 0..MaxCount
    BY <1>1, <1>2
  <2> QED
    BY <1>4, <2>1
<1>6. ASSUME NEW k \in 1..ntrace, \A h \in 1..k : Labels[h] \in ToSet(g)
      PROVE  Read[k] = count[cpu][Labels[k]]
  <2>1. w = Labels
    <3>0. 1 \in 1..k
      BY <1>2
    <3>1. PICK a \in 1..Len(g) : g[a] = Labels[1]
      BY <1>1, <1>6, <3>0, InSet
    <3>2. \E h \in 1..Len(w) : w[h] = Labels[1]
      BY <1>3, <3>1 DEF Drawn
    <3> QED
      BY <1>2, <3>2
  <2>2. k <= Len(g) /\ g[k] = Labels[k]
    BY <1>3, <1>6, <2>1 DEF Agrees, ntrace
  <2>3. leader[cpu]
    BY <1>2, <1>3, <2>2
  <2> QED
    BY <1>4, <2>2, <2>3
<1>7. Read \in [1..ntrace -> 0..MaxCount]
  <2>1. Read = [k \in 1..ntrace |-> Read[k]]
    BY DEF Read
  <2> QED
    BY <1>5, <2>1
<1> QED
  BY <1>6, <1>7 DEF g

LEMMA ValueInvariance == Spec => []ValueInv
<1> USE KvmAssumption
<1>1. Init => ValueInv
  <2> SUFFICES ASSUME Init PROVE ValueInv
    OBVIOUS
  <2>1. /\ tmp = Zeros /\ value = [c \in CpuSet |-> Zeros] /\ pc = "open"
        /\ seen.count = [c \in CpuSet |-> [e \in Events |-> 0]]
    BY DEF Init
  <2>2. value \in [CpuSet -> [1..ntrace -> 0..MaxCount]]
    BY <2>1 DEF Zeros
  <2>3. \A c \in CpuSet : /\ \A k \in 1..ntrace : value[c][k] = 0
                          /\ \A e \in Events : seen.count[c][e] = 0
    BY <2>1 DEF Zeros
  <2>4. ntrace \in Nat /\ \A k \in 1..ntrace : Labels[k] \in Events
    BY ConfAtInit, WantedIs DEF CpuSet, Labels, ntrace
  <2> QED
    BY <2>1, <2>2, <2>3, <2>4 DEF ValueInv, OwnCounter
<1>2. Shape /\ PlaceInv /\ GroupInv /\ ValueInv /\ [Next]_vars => ValueInv'
  <2> SUFFICES ASSUME Shape, PlaceInv, GroupInv, ValueInv, [Next]_vars PROVE ValueInv'
    OBVIOUS
  <2>0. Labels' = Labels /\ ntrace' = ntrace /\ Zeros' = Zeros
    BY ConfStays, WantedStays
  <2>l. ntrace \in Nat /\ \A k \in 1..ntrace : Labels[k] \in Events
    BY WantedIs DEF CpuSet, Labels, ntrace, Shape
  \* While nothing has been read, values and counts are 0.
  <2>1. CASE /\ pc = "open" /\ pc' \in {"open", "crashed", "serve"}
             /\ UNCHANGED <<tmp, value, seen>>
    <3>1. \A c \in CpuSet : /\ \A k \in 1..ntrace : value'[c][k] = 0
                            /\ \A e \in Events : seen'.count[c][e] = 0
      BY <2>1 DEF ValueInv
    <3>2. OwnCounter'
      BY <2>0, <2>l, <3>1 DEF OwnCounter
    <3> QED
      BY <2>0, <2>1, <3>1, <3>2 DEF ValueInv
  \* The groups and what was read of them stay.
  <2>2. CASE /\ UNCHANGED <<group, tmp, value>> /\ seen'.count = seen.count
             /\ pc' \in {"open", "crashed"} => pc \in {"open", "crashed"}
    BY <2>0, <2>2 DEF ValueInv, OwnCounter
  <2>3. CASE Crash \/ NotFound \/ NextCpu \/ \E ok \in BOOLEAN : OpenEvent(ok)
    BY <2>1, <2>3 DEF Crash, NotFound, NextCpu, OpenEvent, Opening
  <2>4. ASSUME NEW need_debug \in BOOLEAN, Fetch(need_debug) PROVE ValueInv'
    BY <2>2, <2>4 DEF Fetch, perf
  <2>5. CASE DebugFile
    <3>1. seen'.count = seen.count
      BY <2>5 DEF DebugFile, Shape
    <3> QED
      BY <2>2, <2>5, <3>1 DEF DebugFile, perf
  <2>6. CASE DebugEnd
    BY <2>2, <2>6 DEF DebugEnd, perf
  <2>7. CASE ReadCpu
    <3>1. /\ value' = [value EXCEPT ![cpu] = Read] /\ tmp' = Zeros /\ group' = group
          /\ pc' \in {"trace", "serve"} /\ cpu \in CpuSet
          /\ seen' = [seen EXCEPT !.count[cpu] = count[cpu]]
      BY <2>7 DEF ReadCpu, perf, Shape
    <3>2. /\ Read \in [1..ntrace -> 0..MaxCount]
          /\ \A k \in 1..ntrace :
               (\A h \in 1..k : Labels[h] \in ToSet(group[cpu])) =>
                   Read[k] = count[cpu][Labels[k]]
      BY ReadIs DEF ValueInv
    <3>3. value' \in [CpuSet -> [1..ntrace -> 0..MaxCount]]
      BY <3>1, <3>2 DEF ValueInv
    <3>4. \A c \in CpuSet : /\ value'[c] = IF c = cpu THEN Read ELSE value[c]
                            /\ seen'.count[c] = IF c = cpu THEN count[cpu]
                                                            ELSE seen.count[c]
      BY <3>1 DEF ValueInv, Shape, Counts
    <3>5. OwnCounter'
      <4> SUFFICES ASSUME NEW c \in CpuSet, NEW k \in 1..ntrace,
                          \A h \in 1..k : Labels[h] \in ToSet(group[c])
                   PROVE  value'[c][k] = seen'.count[c][Labels[k]]
        BY <2>0, <3>1 DEF OwnCounter
      <4>1. CASE c = cpu
        BY <3>2, <3>4, <4>1
      <4>2. CASE c # cpu
        BY <3>4, <4>2 DEF ValueInv, OwnCounter
      <4> QED
        BY <4>1, <4>2
    <3> QED
      BY <2>0, <3>1, <3>3, <3>5 DEF ValueInv
  <2>8. CASE \/ \E c \in CpuSet, e \in Events : Fires(c, e)
             \/ \E f \in Files : GoesUp(f)
             \/ UNCHANGED vars
    BY <2>2, <2>8 DEF Fires, GoesUp, perf, vars
  <2> QED
    BY <2>3, <2>4, <2>5, <2>6, <2>7, <2>8 DEF Next
<1> QED
  BY <1>1, <1>2, ShapeInvariance, PlaceInvariance, GroupInvariance, PTL DEF Spec
-----------------------------------------------------------------------------
\* A group has no event twice, and what is shown of it is what was read.
ShownInv ==
    \A c \in CpuSet :
        /\ Distinct(group[c])
        /\ \A k \in 1..ntrace :
             value[c][k] = IF k <= Len(group[c]) THEN seen.count[c][group[c][k]] ELSE 0

\* The next event is not in the group yet.
LEMMA StaysDistinct ==
    ASSUME NEW S, NEW w \in Seq(S), NEW g \in Seq(S), Distinct(w), Distinct(g),
           NEW n \in 1..Len(w), Drawn(w, g, n - 1)
    PROVE  Distinct(Append(g, w[n]))
<1> DEFINE e == w[n]
           f == Append(g, e)
           m == Len(g)
<1>1. /\ e \in S /\ m \in Nat /\ Len(w) \in Nat /\ Len(f) = m + 1 /\ f[m + 1] = e
      /\ \A h \in 1..m : f[h] = g[h]
  OBVIOUS
<1>2. ASSUME NEW h \in 1..m PROVE g[h] # e
  <2>1. PICK k \in 1..(n - 1) : g[h] = w[k]
    BY DEF Drawn
  <2>2. k \in 1..Len(w) /\ k # n
    BY <1>1
  <2> QED
    BY <2>1, <2>2 DEF Distinct
<1> HIDE DEF f, e, m
<1>3. ASSUME NEW a \in 1..(m + 1), NEW b \in 1..(m + 1), f[a] = f[b] PROVE a = b
  <2>1. CASE a \in 1..m /\ b \in 1..m
    BY <1>1, <1>3, <2>1 DEF Distinct, m
  <2>2. CASE a = m + 1 \/ b = m + 1
    BY <1>1, <1>2, <1>3, <2>2
  <2> QED
    BY <1>1, <2>1, <2>2
<1> QED
  BY <1>1, <1>3 DEF Distinct, f, e

LEMMA ShownInvariance == Spec => []ShownInv
<1> USE KvmAssumption
<1>1. Init => ShownInv
  <2> SUFFICES ASSUME Init PROVE ShownInv
    OBVIOUS
  <2>1. \A c \in CpuSet : group[c] = <<>> /\ value[c] = Zeros
    BY DEF Init
  <2>2. Len(<<>>) = 0 /\ Distinct(<<>>)
    BY DEF Distinct
  <2>3. ntrace \in Nat
    BY ConfAtInit, WantedIs DEF CpuSet
  <2>4. \A c \in CpuSet : \A k \in 1..ntrace : value[c][k] = 0 /\ ~(k <= Len(group[c]))
    BY <2>1, <2>2, <2>3 DEF Zeros
  <2> QED
    BY <2>1, <2>2, <2>4 DEF ShownInv
<1>2. Shape /\ Shape' /\ PlaceInv /\ GroupInv /\ ValueInv /\ ValueInv' /\ ShownInv /\ [Next]_vars
      => ShownInv'
  <2> SUFFICES ASSUME Shape, Shape', PlaceInv, GroupInv, ValueInv, ValueInv', ShownInv, [Next]_vars
               PROVE  ShownInv'
    OBVIOUS
  <2>0. Labels' = Labels /\ ntrace' = ntrace /\ Zeros' = Zeros
    BY ConfStays, WantedStays
  <2>1. CASE UNCHANGED <<group, value>> /\ seen'.count = seen.count
    BY <2>0, <2>1 DEF ShownInv, Distinct
  <2>2. ASSUME NEW ok \in BOOLEAN, OpenEvent(ok) PROVE ShownInv'
    <3>1. /\ pc = "open" /\ pc' = "open" /\ cpu \in CpuSet /\ i \in 1..Len(Wanted(cpu))
          /\ group' = [group EXCEPT ![cpu] =
                         IF ok /\ leader'[cpu] THEN Append(@, Wanted(cpu)[i]) ELSE @]
      BY <2>2 DEF OpenEvent, Opening, Shape
    <3>2. Distinct(Append(group[cpu], Wanted(cpu)[i]))
      <4>1. Wanted(cpu) \in Seq(Events) /\ Distinct(Wanted(cpu))
        BY <3>1, WantedIs DEF Shape
      <4>2. group[cpu] \in Seq(Events) /\ Distinct(group[cpu]) /\ Drawn(Wanted(cpu), group[cpu], i - 1)
        BY <3>1 DEF Shape, GroupInv, ShownInv
      <4> QED
        BY <3>1, <4>1, <4>2, StaysDistinct
    <3>3. \A c \in CpuSet : Distinct(group'[c])
      BY <3>1, <3>2 DEF Shape, ShownInv
    \* While nothing has been read, values and counts are 0.
    <3>4. \A c \in CpuSet : /\ \A k \in 1..ntrace : value'[c][k] = 0
                            /\ \A e \in Events : seen'.count[c][e] = 0
      BY <2>0, <3>1 DEF ValueInv
    <3>5. \A c \in CpuSet : \A k \in 1..ntrace : k <= Len(group'[c]) => group'[c][k] \in Events
      <4> SUFFICES ASSUME NEW c \in CpuSet, NEW k \in 1..ntrace, k <= Len(group'[c])
                   PROVE  group'[c][k] \in Events
        OBVIOUS
      <4>1. group'[c] \in Seq(Events)
        BY DEF Shape
      <4>2. k \in 1..Len(group'[c])
        BY <4>1
      <4> QED
        BY <4>1, <4>2
    <3>6. \A c \in CpuSet : \A k \in 1..ntrace :
            value'[c][k] = IF k <= Len(group'[c]) THEN seen'.count[c][group'[c][k]] ELSE 0
      BY <3>4, <3>5
    <3> QED
      BY <2>0, <3>3, <3>6 DEF ShownInv, Distinct
  <2>3. CASE ReadCpu
    <3>1. /\ value' = [value EXCEPT ![cpu] = Read] /\ group' = group /\ cpu \in CpuSet
          /\ seen' = [seen EXCEPT !.count[cpu] = count[cpu]] /\ tmp = Zeros
          /\ (~leader[cpu] => group[cpu] = <<>>)
      BY <2>3 DEF ReadCpu, perf, Shape, ValueInv, GroupInv
    <3>2. \A c \in CpuSet : /\ value'[c] = IF c = cpu THEN Read ELSE value[c]
                            /\ seen'.count[c] = IF c = cpu THEN count[cpu]
                                                            ELSE seen.count[c]
      BY <3>1 DEF ValueInv, Shape, Counts
    <3>3. ASSUME NEW k \in 1..ntrace
          PROVE  Read[k] = IF k <= Len(group[cpu]) THEN count[cpu][group[cpu][k]] ELSE 0
      <4>1. Len(<<>>) = 0
        OBVIOUS
      <4> QED
        BY <3>1, <4>1 DEF Read, Zeros
    <3>4. \A c \in CpuSet : \A k \in 1..ntrace :
            value'[c][k] = IF k <= Len(group[c]) THEN seen'.count[c][group[c][k]] ELSE 0
      <4> SUFFICES ASSUME NEW c \in CpuSet, NEW k \in 1..ntrace
                   PROVE  value'[c][k] = IF k <= Len(group[c]) THEN seen'.count[c][group[c][k]] ELSE 0
        OBVIOUS
      <4>1. CASE c = cpu
        BY <3>2, <3>3, <4>1
      <4>2. CASE c # cpu
        BY <3>2, <4>2 DEF ShownInv
      <4> QED
        BY <4>1, <4>2
    <3> QED
      BY <2>0, <3>1, <3>4 DEF ShownInv, Distinct
  <2>4. CASE DebugFile
    <3>1. seen'.count = seen.count
      BY <2>4 DEF DebugFile, Shape
    <3> QED
      BY <2>1, <2>4, <3>1 DEF DebugFile, perf
  <2>5. CASE \/ Crash \/ NotFound \/ NextCpu \/ DebugEnd \/ UNCHANGED vars
             \/ \E need_debug \in BOOLEAN : Fetch(need_debug)
             \/ \E c \in CpuSet, e \in Events : Fires(c, e)
             \/ \E g \in Files : GoesUp(g)
    BY <2>1, <2>5 DEF Crash, NotFound, NextCpu, DebugEnd, vars, Fetch, Fires, GoesUp, perf
  <2> QED
    BY <2>2, <2>3, <2>4, <2>5 DEF Next
<1> QED
  BY <1>1, <1>2, ShapeInvariance, PlaceInvariance, GroupInvariance, ValueInvariance, PTL DEF Spec
-----------------------------------------------------------------------------
(***************************************************************************)
(* The debug files.                                                        *)
(***************************************************************************)
LEMMA Least ==
    ASSUME NEW S \in SUBSET Nat, S # {}
    PROVE  \E n \in S : \A m \in S : n <= m
<1> DEFINE R == {p \in Nat \X Nat : p[1] < p[2]}
<1>1. IsWellFoundedOn(R, Nat)
  BY NatLessThanWellFounded DEF OpToRel
<1>2. PICK n \in S : \A m \in S : <<m, n>> \notin R
  <2> HIDE DEF R
  <2> QED
    BY <1>1, WFMin
<1>3. \A m \in S : ~(m < n)
  <2> SUFFICES ASSUME NEW m \in S, m < n PROVE FALSE
    OBVIOUS
  <2>1. <<m, n>> \in R
    OBVIOUS
  <2> QED
    BY <1>2, <2>1
<1> QED
  BY <1>3

\* The chain has a branch for every file, and takes one that matches it.
LEMMA SlotIs ==
    ASSUME NEW f \in Files
    PROVE  Slot(f) \in Files /\ Matches(Slot(f), f)
<1> DEFINE S == {k \in 1..Len(Chain) : Matches(Chain[k], f)}
           P(k) == Matches(Chain[k], f) /\ \A h \in 1..(k - 1) : ~Matches(Chain[h], f)
<1>1. Chain \in Seq(STRING) /\ Len(Chain) \in Nat
  BY KvmAssumption
<1>2. PICK a \in 1..Len(Chain) : Chain[a] = f
  BY <1>1, InSet DEF Files
<1>3. a \in S /\ S \in SUBSET Nat
  BY <1>2 DEF Matches
<1>4. PICK n \in S : \A m \in S : n <= m
  <2> HIDE DEF S
  <2> QED
    BY <1>3, Least
<1>5. n \in 1..Len(Chain) /\ P(n)
  <2>1. ASSUME NEW h \in 1..(n - 1), Matches(Chain[h], f) PROVE FALSE
    <3>1. h \in 1..Len(Chain) /\ ~(n <= h)
      BY <1>1, <1>4
    <3> QED
      BY <1>4, <2>1, <3>1
  <2> QED
    BY <1>4, <2>1
<1> DEFINE q == CHOOSE k \in 1..Len(Chain) : P(k)
<1>6. q \in 1..Len(Chain) /\ P(q)
  <2> HIDE DEF P
  <2> QED
    BY <1>5
<1>7. Slot(f) = Chain[q]
  BY DEF Slot
<1> HIDE DEF q
<1>8. Chain[q] \in Files
  BY <1>1, <1>6, InSet DEF Files
<1> QED
  BY <1>6, <1>7, <1>8

LEMMA DebugInvariance == Spec => []DebugInv
<1> USE KvmAssumption
<1>1. Init => DebugInv
  BY DEF Init, DebugInv, Levels
<1>2. Shape /\ DebugInv /\ [Next]_vars => DebugInv'
  <2> SUFFICES ASSUME Shape, DebugInv, [Next]_vars PROVE DebugInv'
    OBVIOUS
  <2>1. CASE debug' = debug
    BY <2>1 DEF DebugInv
  <2>2. CASE DebugFile
    <3> DEFINE f == conf.debugdir[i]
    <3>1. f \in Files /\ debug' = [debug EXCEPT ![Slot(f)] = file[f]]
      BY <2>2 DEF DebugFile, Shape, ConfInv
    <3> HIDE DEF f
    <3>2. file[f] \in 0..MaxCount /\ Slot(f) \in Files
      BY <3>1, SlotIs DEF Shape, Levels
    <3> QED
      BY <3>1, <3>2 DEF DebugInv, Levels
  <2>3. CASE \/ Crash \/ NotFound \/ NextCpu \/ DebugEnd \/ ReadCpu \/ UNCHANGED vars
             \/ \E ok \in BOOLEAN : OpenEvent(ok)
             \/ \E need_debug \in BOOLEAN : Fetch(need_debug)
             \/ \E c \in CpuSet, e \in Events : Fires(c, e)
             \/ \E g \in Files : GoesUp(g)
    BY <2>1, <2>3 DEF Crash, NotFound, NextCpu, DebugEnd, ReadCpu, vars, OpenEvent,
                      Fetch, Fires, GoesUp
  <2> QED
    BY <2>2, <2>3 DEF Next
<1> QED
  BY <1>1, <1>2, ShapeInvariance, PTL DEF Spec

-----------------------------------------------------------------------------
\* For any number of cpus and any events: a label shows the counter of the event
\* it names, as last read, if that event and all before it could be opened on the
\* cpu, whatever the order of the directory and whichever opens and reads fail
\* (kvmstat.c:62-94, 131-168).
THEOREM LabelsOwnTheirValues == Spec => []OwnCounter
<1>1. ValueInv => OwnCounter
  BY DEF ValueInv
<1> QED
  BY <1>1, ValueInvariance, PTL

\* For any number of cpus and any events: every value shown is a count of its own
\* cpu, each count is shown at most once, and the rest is 0, whichever events
\* are missing, refused or without a leader (kvmstat.c:62-94).
THEOREM ValuesAreCounts == Spec => []NothingInvented
<1>1. Shape /\ ShownInv => NothingInvented
  <2> SUFFICES ASSUME Shape, ShownInv, NEW c \in CpuSet
               PROVE  \E origin \in [{k \in 1..ntrace : value[c][k] # 0} -> Events] :
                         /\ \A k \in DOMAIN origin : value[c][k] = seen.count[c][origin[k]]
                         /\ IsInjective(origin)
    BY DEF NothingInvented
  <2> DEFINE D == {k \in 1..ntrace : value[c][k] # 0}
             g == group[c]
             origin == [k \in D |-> g[k]]
  <2>1. g \in Seq(Events) /\ Distinct(g)
    BY DEF Shape, ShownInv
  <2>2. \A k \in D : k <= Len(g) /\ value[c][k] = seen.count[c][g[k]]
    BY DEF ShownInv
  <2>3. \A k \in D : k \in 1..Len(g)
    BY <2>2, <2>1
  <2> HIDE DEF D, g
  <2>4. origin \in [D -> Events]
    BY <2>1, <2>3
  <2>5. \A k \in DOMAIN origin : value[c][k] = seen.count[c][origin[k]]
    BY <2>2
  <2>6. IsInjective(origin)
    BY <2>1, <2>3 DEF IsInjective, Distinct
  <2> QED
    BY <2>4, <2>5, <2>6 DEF D
<1> QED
  BY <1>1, ShapeInvariance, ShownInvariance, PTL

\* The variables keep their types for any number of cpus: no index leaves its
\* table, no group is longer than the row of values, and what has no leader has
\* no members (kvmstat.c:62-94).
THEOREM TypeCorrect == Spec => []TypeOK
<1>1. Shape /\ PlaceInv /\ GroupInv /\ ValueInv /\ DebugInv => TypeOK
  <2> SUFFICES ASSUME Shape, PlaceInv, GroupInv, ValueInv, DebugInv PROVE TypeOK
    OBVIOUS
  <2>1. /\ pc \in {"open", "serve", "debug", "trace", "crashed"} /\ cpu \in CpuSet
        /\ flag \in BOOLEAN /\ leader \in [CpuSet -> BOOLEAN]
    BY DEF Shape
  <2>2. \A c \in CpuSet : Len(Wanted(c)) \in Nat /\ Len(Wanted(c)) <= ntrace
    BY WantedIs DEF Shape
  <2>3. ntrace \in Nat /\ Len(Chain) \in Nat /\ Len(conf.debugdir) \in Nat
        /\ Len(conf.debugdir) <= Len(Chain) /\ i \in Nat \ {0}
    BY <2>1, WantedIs, KvmAssumption DEF Shape, ConfInv
  <2>4. i \in 1..(Len(Chain) + ntrace + 1)
    BY <2>1, <2>2, <2>3 DEF PlaceInv
  <2>5. \A c \in CpuSet :
          /\ group[c] \in Seq(Events) /\ Len(group[c]) <= ntrace
          /\ ~leader[c] => group[c] = <<>>
    BY <2>2, <2>3 DEF GroupInv, Drawn, Shape
  <2>6. \A c \in CpuSet : value[c] \in [1..ntrace -> 0..MaxCount]
    BY DEF ValueInv
  <2>7. debug \in [Files -> 0..MaxCount]
    BY DEF DebugInv, Levels
  <2> QED
    BY <2>1, <2>4, <2>5, <2>6, <2>7 DEF TypeOK
<1> QED
  BY <1>1, ShapeInvariance, PlaceInvariance, GroupInvariance, ValueInvariance,
     DebugInvariance, PTL
=============================================================================
