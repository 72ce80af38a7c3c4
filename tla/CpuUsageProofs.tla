--------------------------- MODULE CpuUsageProofs ---------------------------
(***************************************************************************)
(* What module CpuUsage promises for every size of the buffer, period,     *)
(* jiffy and limit, for any number of processors and any delays.           *)
(*                                                                         *)
(* The loop over the buffer is a recursive function.  What it computes is  *)
(* proved by least counterexample: a non-empty set of natural numbers has  *)
(* a least element.                                                        *)
(***************************************************************************)
EXTENDS CpuUsage, WellFoundedInduction, TLAPS

-----------------------------------------------------------------------------
LEMMA Least ==
    ASSUME NEW S \in SUBSET Nat, S # {}
    PROVE  \E n \in S : \A m \in S : n <= m
<1> DEFINE R == {ss \in Nat \X Nat : ss[1] < ss[2]}
<1>1. IsWellFoundedOn(R, Nat)
  BY NatLessThanWellFounded DEF OpToRel
<1>2. PICK n \in S : \A m \in S : <<m, n>> \notin R
  <2> HIDE DEF R
  <2> QED
    BY <1>1, WFMin
<1>3. \A m \in S : ~(m < n)
  <2> SUFFICES ASSUME NEW m \in S, m < n PROVE FALSE
    OBVIOUS
  <2>1. <<m, n>> \in R
    OBVIOUS
  <2> QED
    BY <1>2, <2>1
<1> QED
  BY <1>3

\* What Sums(a) is.
AreSums(g, a) ==
    /\ g \in [0..Len(a) -> Int]
    /\ g[0] = 0
    /\ \A k \in 1..Len(a) : g[k] = g[k - 1] + a[k]

\* The recursive function exists and is what its definition says.
LEMMA SumsAre ==
    ASSUME NEW a \in Seq(Int)
    PROVE  AreSums(Sums(a), a)
<1> DEFINE n == Len(a)
           Eqn(s) == s = [k \in 0..n |-> IF k = 0 THEN 0 ELSE s[k - 1] + a[k]]
           Upto(m) == \E g \in [0..m -> Int] :
                        g[0] = 0 /\ \A k \in 1..m : g[k] = g[k - 1] + a[k]
<1>0. n \in Nat /\ \A k \in 1..n : a[k] \in Int
  OBVIOUS
<1> HIDE DEF n
<1>1. \A m \in 0..n : Upto(m)
  <2> DEFINE Bad == {m \in 0..n : ~Upto(m)}
  <2> SUFFICES ASSUME Bad # {} PROVE FALSE
    OBVIOUS
  <2>1. PICK m \in Bad : \A k \in Bad : m <= k
    <3>1. Bad \in SUBSET Nat
      BY <1>0
    <3> HIDE DEF Bad
    <3> QED
      BY <3>1, Least
  <2>2. m \in 0..n /\ ~Upto(m)
    OBVIOUS
  <2>3. m # 0
    <3>1. [k \in 0..0 |-> 0] \in [0..0 -> Int]
      OBVIOUS
    <3>2. [k \in 0..0 |-> 0][0] = 0 /\ \A k \in 1..0 : FALSE
      OBVIOUS
    <3>3. Upto(0)
      BY <3>1, <3>2
    <3> QED
      BY <2>2, <3>3
  <2>4. m - 1 \in 0..n /\ Upto(m - 1)
    <3>1. m - 1 \in 0..n /\ ~(m <= m - 1)
      BY <1>0, <2>2, <2>3
    <3>2. m - 1 \notin Bad
      BY <2>1, <3>1
    <3> HIDE DEF Upto
    <3> QED
      BY <3>1, <3>2
  <2>5. PICK g \in [0..(m - 1) -> Int] :
          g[0] = 0 /\ \A k \in 1..(m - 1) : g[k] = g[k - 1] + a[k]
    BY <2>4
  <2> DEFINE h == [k \in 0..m |-> IF k = m THEN g[m - 1] + a[m] ELSE g[k]]
  <2>6. h \in [0..m -> Int]
    BY <1>0, <2>2, <2>3, <2>5
  <2>7. h[0] = 0 /\ \A k \in 1..m : h[k] = h[k - 1] + a[k]
    <3>1. h[0] = 0
      BY <1>0, <2>2, <2>3, <2>5
    <3>2. ASSUME NEW k \in 1..m PROVE h[k] = h[k - 1] + a[k]
      <4>1. k - 1 \in 0..(m - 1) /\ h[k - 1] = g[k - 1]
        BY <1>0, <2>2
      <4>2. CASE k = m
        BY <4>1, <4>2
      <4>3. CASE k # m
        <5>1. k \in 1..(m - 1) /\ h[k] = g[k]
          BY <1>0, <2>2, <4>3
        <5> QED
          BY <2>5, <4>1, <5>1
      <4> QED
        BY <4>2, <4>3
    <3> QED
      BY <3>1, <3>2
  <2> QED
    BY <2>2, <2>6, <2>7
<1>2. PICK g \in [0..n -> Int] :
        g[0] = 0 /\ \A k \in 1..n : g[k] = g[k - 1] + a[k]
  <2>1. n \in 0..n
    BY <1>0
  <2>2. Upto(n)
    <3> HIDE DEF Upto
    <3> QED
      BY <1>1, <2>1
  <2> QED
    BY <2>2
<1>3. Eqn(g)
  BY <1>0, <1>2
<1>4. Sums(a) = CHOOSE s : Eqn(s)
  BY DEF Sums, n
<1>5. Eqn(Sums(a))
  BY <1>3, <1>4, Zenon
<1>6. \A k \in 0..n : Sums(a)[k] = g[k]
  <2> DEFINE p == Sums(a)
             Bad == {k \in 0..n : p[k] # g[k]}
  <2>0. p = [k \in 0..n |-> IF k = 0 THEN 0 ELSE p[k - 1] + a[k]]
    BY <1>5
  <2> HIDE DEF p
  <2> SUFFICES ASSUME Bad # {} PROVE FALSE
    BY DEF p
  <2>1. PICK m \in Bad : \A k \in Bad : m <= k
    <3>1. Bad \in SUBSET Nat
      BY <1>0
    <3> HIDE DEF Bad
    <3> QED
      BY <3>1, Least
  <2>2. m \in 0..n /\ p[m] # g[m]
    OBVIOUS
  <2>3. m # 0
    BY <1>0, <1>2, <2>0, <2>2
  <2>4. m - 1 \in 0..n /\ p[m - 1] = g[m - 1]
    BY <1>0, <2>1, <2>2, <2>3
  <2>5. p[m] = p[m - 1] + a[m]
    BY <2>0, <2>2, <2>3
  <2> QED
    BY <1>2, <2>2, <2>3, <2>4, <2>5
<1>7. Sums(a) = g
  <2>1. Sums(a) = [k \in 0..n |-> Sums(a)[k]]
    BY <1>5
  <2> QED
    BY <1>2, <1>6, <2>1
<1> QED
  BY <1>2, <1>7 DEF AreSums, n

\* If each number is between 0 and the step that b takes there, the sum is between
\* 0 and what b goes up by.
LEMMA TotalBounded ==
    ASSUME NEW a \in Seq(Int), NEW b \in [0..Len(a) -> Int],
           \A k \in 1..Len(a) : 0 <= a[k] /\ a[k] <= b[k] - b[k - 1]
    PROVE  Total(a) \in 0..(b[Len(a)] - b[0])
<1> DEFINE n == Len(a)
           g == Sums(a)
           Bad == {m \in 0..n : ~(0 <= g[m] /\ g[m] <= b[m] - b[0])}
<1>0. n \in Nat /\ \A k \in 1..n : a[k] \in Int
  OBVIOUS
<1>1. g \in [0..n -> Int] /\ g[0] = 0 /\ \A k \in 1..n : g[k] = g[k - 1] + a[k]
  BY SumsAre DEF AreSums
<1>2. \A k \in 1..n : 0 <= a[k] /\ a[k] <= b[k] - b[k - 1]
  OBVIOUS
<1>3. b \in [0..n -> Int]
  OBVIOUS
<1> HIDE DEF n, g
<1>4. Bad = {}
  <2> SUFFICES ASSUME Bad # {} PROVE FALSE
    OBVIOUS
  <2>1. PICK m \in Bad : \A k \in Bad : m <= k
    <3>1. Bad \in SUBSET Nat
      BY <1>0
    <3> HIDE DEF Bad
    <3> QED
      BY <3>1, Least
  <2>2. m \in 0..n /\ ~(0 <= g[m] /\ g[m] <= b[m] - b[0])
    OBVIOUS
  <2>3. m # 0
    BY <1>0, <1>1, <1>3, <2>2
  <2>4. m - 1 \in 0..n /\ ~(m <= m - 1) /\ m \in 1..n
    BY <1>0, <2>2, <2>3
  <2>5. 0 <= g[m - 1] /\ g[m - 1] <= b[m - 1] - b[0]
    BY <2>1, <2>4
  <2>6. g[m] = g[m - 1] + a[m] /\ 0 <= a[m] /\ a[m] <= b[m] - b[m - 1]
    BY <1>1, <1>2, <2>4
  <2>7. /\ g[m] \in Int /\ g[m - 1] \in Int /\ a[m] \in Int
        /\ b[m] \in Int /\ b[m - 1] \in Int /\ b[0] \in Int
    <3>1. 0 \in 0..n
      BY <1>0
    <3> QED
      BY <1>0, <1>1, <1>3, <2>2, <2>4, <3>1
  <2> DEFINE gm == g[m]  gl == g[m - 1]  am == a[m]  bm == b[m]  bl == b[m - 1]  bo == b[0]
  <2>8. /\ ~(0 <= gm /\ gm <= bm - bo) /\ 0 <= gl /\ gl <= bl - bo
        /\ gm = gl + am /\ 0 <= am /\ am <= bm - bl
        /\ gm \in Int /\ gl \in Int /\ am \in Int /\ bm \in Int /\ bl \in Int /\ bo \in Int
    BY <2>2, <2>5, <2>6, <2>7
  <2> HIDE DEF gm, gl, am, bm, bl, bo
  <2> QED
    BY <2>8
<1>5. n \in 0..n /\ 0 \in 0..n
  BY <1>0
<1>6. 0 <= g[n] /\ g[n] <= b[n] - b[0]
  BY <1>4, <1>5
<1>7. g[n] \in Int /\ b[n] \in Int /\ b[0] \in Int
  BY <1>1, <1>3, <1>5
<1>8. g[n] \in 0..(b[n] - b[0])
  BY <1>6, <1>7
<1> QED
  BY <1>8 DEF n, g, Total

\* If each number is the step that b takes there, the sum is what b goes up by.
LEMMA TotalTelescopes ==
    ASSUME NEW a \in Seq(Int), NEW b \in [0..Len(a) -> Int],
           \A k \in 1..Len(a) : a[k] = b[k] - b[k - 1]
    PROVE  Total(a) = b[Len(a)] - b[0]
<1> DEFINE n == Len(a)
           g == Sums(a)
           Bad == {m \in 0..n : g[m] # b[m] - b[0]}
<1>0. n \in Nat /\ \A k \in 1..n : a[k] \in Int
  OBVIOUS
<1>1. g \in [0..n -> Int] /\ g[0] = 0 /\ \A k \in 1..n : g[k] = g[k - 1] + a[k]
  BY SumsAre DEF AreSums
<1>2. b \in [0..n -> Int] /\ \A k \in 1..n : a[k] = b[k] - b[k - 1]
  OBVIOUS
<1> HIDE DEF n, g
<1>3. Bad = {}
  <2> SUFFICES ASSUME Bad # {} PROVE FALSE
    OBVIOUS
  <2>1. PICK m \in Bad : \A k \in Bad : m <= k
    <3>1. Bad \in SUBSET Nat
      BY <1>0
    <3> HIDE DEF Bad
    <3> QED
      BY <3>1, Least
  <2>2. m \in 0..n /\ g[m] # b[m] - b[0]
    OBVIOUS
  <2>3. m # 0
    BY <1>0, <1>1, <1>2, <2>2
  <2>4. m - 1 \in 0..n /\ ~(m <= m - 1) /\ m \in 1..n
    BY <1>0, <2>2, <2>3
  <2>5. g[m - 1] = b[m - 1] - b[0]
    BY <2>1, <2>4
  <2>6. g[m] = g[m - 1] + a[m] /\ a[m] = b[m] - b[m - 1]
    BY <1>1, <1>2, <2>4
  <2>7. b[m] \in Int /\ b[m - 1] \in Int /\ b[0] \in Int
    <3>1. 0 \in 0..n
      BY <1>0
    <3> QED
      BY <1>2, <2>2, <2>4, <3>1
  <2> QED
    BY <2>2, <2>5, <2>6, <2>7
<1>4. n \in 0..n
  BY <1>0
<1> QED
  BY <1>3, <1>4 DEF n, g, Total

LEMMA TotalType ==
    ASSUME NEW a \in Seq(Int)
    PROVE  Total(a) \in Int
<1>1. Len(a) \in 0..Len(a)
  OBVIOUS
<1> QED
  BY <1>1, SumsAre DEF AreSums, Total

-----------------------------------------------------------------------------
\* The index of the circular buffer, for what is less than twice its size.
LEMMA Wrap ==
    ASSUME NEW x \in 0..(2 * MEM_ORDER - 1)
    PROVE  x % MEM_ORDER = IF x < MEM_ORDER THEN x ELSE x - MEM_ORDER
<1> USE UsageAssumption
<1>1. CASE x < MEM_ORDER
  BY <1>1
<1>2. CASE x >= MEM_ORDER
  <2>1. x - MEM_ORDER \in 0..(MEM_ORDER - 1)
    BY <1>2
  <2>2. x = 1 * MEM_ORDER + (x - MEM_ORDER)
    BY <1>2
  <2> QED
    BY <1>2, <2>1, <2>2
<1> QED
  BY <1>1, <1>2
-----------------------------------------------------------------------------
Shot    == [when : Int, jiffies : Int, cputime : Int]
EstType == [first : BOOLEAN, used : Int, dtwork : Int, dt : Int]

LEMMA SizeIs ==
    ASSUME NEW f \in Slots, NEW t \in Slots
    PROVE  /\ Size(f, t) = IF f < t THEN f - t + MEM_ORDER + 1 ELSE f - t + 1
           /\ Size(f, t) \in 1..MEM_ORDER
<1> USE UsageAssumption DEF Slots
<1>1. f - t + MEM_ORDER \in 0..(2 * MEM_ORDER - 1)
  OBVIOUS
<1>2. (f - t + MEM_ORDER) % MEM_ORDER = IF f < t THEN f - t + MEM_ORDER ELSE f - t
  BY <1>1, Wrap
<1> QED
  BY <1>2 DEF Size

\* The slot that is k after t.
LEMMA SlotAfter ==
    ASSUME NEW t \in Slots, NEW k \in 0..MEM_ORDER
    PROVE  /\ (t + k) % MEM_ORDER \in Slots
           /\ (t + k) % MEM_ORDER = IF t + k < MEM_ORDER THEN t + k ELSE t + k - MEM_ORDER
<1> USE UsageAssumption DEF Slots
<1> DEFINE x == t + k
           y == x % MEM_ORDER
<1>1. x \in 0..(2 * MEM_ORDER - 1)
  OBVIOUS
<1>2. y = IF x < MEM_ORDER THEN x ELSE x - MEM_ORDER
  BY <1>1, Wrap
<1> HIDE DEF x, y
<1>3. y \in Slots
  BY <1>1, <1>2
<1> QED
  BY <1>2, <1>3 DEF x, y

LEMMA AdvanceIs ==
    ASSUME NEW f \in {-1} \cup Slots
    PROVE  Advance(f) \in Slots /\ Advance(f) = IF f = MEM_ORDER - 1 THEN 0 ELSE f + 1
<1> USE UsageAssumption DEF Slots
<1>1. f + 1 \in 0..(2 * MEM_ORDER - 1)
  OBVIOUS
<1> QED
  BY <1>1, Wrap DEF Advance

LEMMA EstimateType ==
    ASSUME NEW buf \in [Slots -> Shot], NEW f \in Slots, NEW t \in Slots
    PROVE  Estimate(buf, f, t) \in EstType
<1> USE UsageAssumption
<1>1. CASE Size(f, t) = 1
  <2>1. PICK b \in BOOLEAN : NoEstimate = [first |-> b, used |-> 0, dtwork |-> 0, dt |-> 0]
    BY Zenon DEF NoEstimate
  <2> QED
    BY <1>1, <2>1 DEF Estimate, EstType
<1>2. CASE Size(f, t) # 1
  <2>1. \A k \in 1..(Size(f, t) - 1) : buf[(t + k) % MEM_ORDER].cputime \in Int
    <3> SUFFICES ASSUME NEW k \in 1..(Size(f, t) - 1)
                 PROVE  buf[(t + k) % MEM_ORDER].cputime \in Int
      OBVIOUS
    <3>1. k \in 0..MEM_ORDER
      BY SizeIs
    <3>2. (t + k) % MEM_ORDER \in Slots
      BY <3>1, SlotAfter
    <3> QED
      BY <3>2 DEF Shot
  <2>2. [k \in 1..(Size(f, t) - 1) |-> buf[(t + k) % MEM_ORDER].cputime] \in Seq(Int)
    <3>1. Size(f, t) - 1 \in Nat
      BY SizeIs
    <3> QED
      BY <2>1, <3>1
  <2>3. Dtwork(buf, f, t) \in Int
    BY <2>2, TotalType DEF Dtwork
  <2>4. /\ buf[f].jiffies - buf[t].jiffies \in Int
        /\ TimeDiff(buf[f].when, buf[t].when) \in Int
    BY DEF Shot, TimeDiff
  <2>5. PICK b \in BOOLEAN :
          Estimate(buf, f, t) =
            [first  |-> b, used |-> buf[f].jiffies - buf[t].jiffies,
             dtwork |-> Dtwork(buf, f, t), dt |-> TimeDiff(buf[f].when, buf[t].when)]
    BY <1>2, Zenon DEF Estimate
  <2> QED
    BY <2>3, <2>4, <2>5 DEF EstType
<1> QED
  BY <1>1, <1>2

-----------------------------------------------------------------------------
LEMMA TruncIs ==
    ASSUME NEW n \in Int, NEW d \in Int, d # 0
    PROVE  /\ Trunc(n, d) \in Int
           /\ n >= 0 /\ d > 0 => Trunc(n, d) >= 0
<1> DEFINE a == IF d < 0 THEN -n ELSE n
           b == IF d < 0 THEN -d ELSE d
<1>1. a \in Int /\ b \in Nat /\ b > 0
  OBVIOUS
<1>2. Trunc(n, d) = IF a < 0 THEN -((-a) \div b) ELSE a \div b
  BY DEF Trunc
<1>3. n >= 0 /\ d > 0 => a >= 0
  OBVIOUS
<1> HIDE DEF a, b
<1>4. a \div b \in Int /\ (-a) \div b \in Int
  BY <1>1
<1>5. a >= 0 => a \div b >= 0
  BY <1>1
<1> QED
  BY <1>1, <1>2, <1>3, <1>4, <1>5

\* A product of natural numbers.
LEMMA Products ==
    /\ \A x, y \in Int : x * y \in Int
    /\ \A x, y \in Nat : x * y \in Nat
    /\ \A x, y \in Int : x # 0 /\ y # 0 => x * y # 0
    /\ \A x, y \in Nat : x > 0 /\ y > 0 => x * y > 0
OBVIOUS

LEMMA ShareType == percent \in Percents => Share \in Nat
<1> SUFFICES ASSUME percent \in Percents PROVE Share \in Nat
  OBVIOUS
<1>1. Period * percent \in Nat
  BY UsageAssumption, Products
<1> DEFINE x == Period * percent
<1> HIDE DEF x
<1>2. x \in Nat => x \div 100 \in Nat
  OBVIOUS
<1> QED
  BY <1>1, <1>2 DEF Share, x

LEMMA QuotientIs ==
    ASSUME percent \in Percents, NEW e \in EstType, e.used # 0
    PROVE  /\ Quotient(e) \in Int
           /\ e.used > 0 /\ e.dtwork >= 0 => Quotient(e) >= 0
<1> USE UsageAssumption
<1> DEFINE n == Period * percent * e.dtwork
           d == 100 * e.used * Jiffy
<1>1. e.used \in Int /\ e.dtwork \in Int
  BY DEF EstType
<1>2. Period * percent \in Nat
  BY Products
<1>3. n \in Int /\ (e.dtwork >= 0 => n >= 0)
  <2> DEFINE x == Period * percent  y == e.dtwork
  <2> HIDE DEF x, y
  <2>1. x \in Nat /\ y \in Int
    BY <1>1, <1>2 DEF x, y
  <2>2. x * y \in Int /\ (y >= 0 => x * y >= 0)
    BY <2>1, Products
  <2> QED
    BY <2>2 DEF x, y
<1>4. d \in Int /\ d # 0 /\ (e.used > 0 => d > 0)
  <2> DEFINE u == e.used  x == 100 * u
  <2>1. x \in Int /\ x # 0 /\ (u > 0 => x > 0)
    BY <1>1
  <2> HIDE DEF x
  <2>2. x * Jiffy \in Int /\ x * Jiffy # 0 /\ (x > 0 => x * Jiffy > 0)
    BY <2>1, Products
  <2> QED
    BY <2>1, <2>2 DEF x
<1> HIDE DEF n, d
<1>5. Quotient(e) = Trunc(n, d)
  BY DEF Quotient, n, d
<1> QED
  BY <1>1, <1>3, <1>4, <1>5, TruncIs

LEMMA WorkSliceType ==
    ASSUME percent \in Percents, twork \in Int, NEW e \in EstType
    PROVE  /\ WorkSlice(e) \in Int
           /\ twork \in 0..Period /\ 0 <= e.dtwork /\ 0 <= e.dt =>
                WorkSlice(e) \in 0..Period
<1> USE UsageAssumption
<1>1. Share \in Nat /\ AtMostPeriod(Share) \in 0..Period
  BY ShareType DEF AtMostPeriod
<1>2. e.first \in BOOLEAN /\ e.used \in Int /\ e.dtwork \in Int /\ e.dt \in Int
  BY DEF EstType
<1>3. CASE e.first
  <2>1. WorkSlice(e) = AtMostPeriod(Share)
    BY <1>3 DEF WorkSlice
  <2> QED
    BY <1>1, <2>1
<1>4. CASE ~e.first /\ IsNaN(e)
  <2>1. WorkSlice(e) = twork
    BY <1>4 DEF WorkSlice
  <2> QED
    BY <2>1
<1>5. CASE ~e.first /\ ~IsNaN(e) /\ IsPositive(e)
  <2>0. e.used # 0 /\ (0 <= e.dt => e.used > 0)
    BY <1>2, <1>5 DEF IsPositive
  <2>1. WorkSlice(e) = IF e.dt = 0 THEN Period ELSE AtMostPeriod(Quotient(e))
    <3>1. ~IsNegative(e)
      BY <1>5 DEF IsNegative
    <3> QED
      BY <1>5, <2>0, <3>1 DEF WorkSlice
  <2>2. AtMostPeriod(Quotient(e)) \in Int
    BY <2>0, QuotientIs DEF AtMostPeriod
  <2>3. 0 <= e.dtwork /\ 0 <= e.dt => AtMostPeriod(Quotient(e)) \in 0..Period
    BY <1>2, <2>0, QuotientIs DEF AtMostPeriod
  <2> QED
    BY <2>1, <2>2, <2>3
<1>6. CASE ~e.first /\ ~IsNaN(e) /\ e.used = 0
  <2>1. ~IsPositive(e) /\ ~IsNegative(e)
    BY <1>6 DEF IsPositive, IsNegative
  <2>2. WorkSlice(e) = Period
    BY <1>6, <2>1 DEF WorkSlice
  <2> QED
    BY <2>2
<1>7. CASE ~e.first /\ ~IsNaN(e) /\ IsNegative(e)
  <2>1. ~IsPositive(e) /\ e.used # 0
    BY <1>7 DEF IsNegative
  <2>2. WorkSlice(e) = IF IsMinusOne(e) THEN AtMostPeriod(Share) ELSE twork
    BY <1>7, <2>1 DEF WorkSlice
  <2> QED
    BY <1>1, <2>2
<1> QED
  BY <1>2, <1>3, <1>4, <1>5, <1>6, <1>7 DEF IsNegative
-----------------------------------------------------------------------------
TypeInv == TypeOK /\ history \in Seq(Shot)

LEMMA TypeInvariance == Spec => []TypeInv
<1> USE UsageAssumption
<1>1. Init => TypeInv
  <2> SUFFICES ASSUME Init PROVE TypeInv
    OBVIOUS
  <2>1. ps \in [Slots -> Shot] /\ 0 \in Slots
    BY DEF Init, NoShot, Shot, Slots
  <2>2. estimate \in EstType
    <3>1. PICK b \in BOOLEAN : NoEstimate = [first |-> b, used |-> 0, dtwork |-> 0, dt |-> 0]
      BY Zenon DEF NoEstimate
    <3> QED
      BY <3>1 DEF Init, EstType
  <2>3. stopped \in BOOLEAN /\ history \in Seq(Shot)
    <3>1. stopped \in BOOLEAN
      BY Zenon DEF Init
    <3>2. history = <<>>
      BY DEF Init
    <3> QED
      BY <3>1, <3>2
  <2> QED
    BY <2>1, <2>2, <2>3 DEF Init, TypeInv, TypeOK, Shot, EstType
<1>2. TypeInv /\ [Next]_vars => TypeInv'
  <2> SUFFICES ASSUME TypeInv, [Next]_vars PROVE TypeInv'
    OBVIOUS
  <2>0. /\ percent \in Percents /\ greedy \in Greeds
        /\ ps \in [Slots -> Shot]
        /\ front \in {-1} \cup Slots /\ tail \in Slots
        /\ workingtime \in Int /\ twork \in Int /\ tsleep \in Int
        /\ clock \in Int /\ cpu \in Int
        /\ estimate \in EstType /\ stopped \in BOOLEAN /\ rounds \in 0..MaxRounds
        /\ history \in Seq(Shot) /\ pc \in {"search", "sample", "work", "rest"}
        /\ former \in Nat /\ Len(history) \in Nat
    BY DEF TypeInv, TypeOK, Shot, EstType
  <2>1. CASE UNCHANGED vars
    BY <2>1 DEF vars, TypeInv, TypeOK
  <2>2. ASSUME NEW c \in {0, Jiffy}, Found(c) PROVE TypeInv'
    <3>1. stopped' \in BOOLEAN /\ history' \in Seq(Shot) /\ cpu' \in Int
      <4>1. stopped' \in BOOLEAN
        BY <2>2, Zenon DEF Found
      <4>2. history' = <<>> /\ cpu' = c
        BY <2>2 DEF Found
      <4> QED
        BY <4>1, <4>2
    <3>2. front' \in {-1} \cup Slots /\ tail' \in Slots
      BY <2>2 DEF Found, Slots
    <3> QED
      BY <2>0, <2>2, <3>1, <3>2 DEF Found, TypeInv, TypeOK, Shot, EstType
  <2>3. CASE Sample
    <3> DEFINE f   == Advance(front)
               buf == [ps EXCEPT ![f] = Screenshot]
               e   == Estimate(buf, f, tail)
    <3>1. Screenshot \in Shot
      <4>1. Jiffies(cpu) \in Int
        BY <2>0 DEF Jiffies
      <4> QED
        BY <2>0, <4>1 DEF Screenshot, Shot
    <3>2. f \in Slots /\ Advance(tail) \in Slots
      BY <2>0, AdvanceIs
    <3>3. buf \in [Slots -> Shot]
      BY <2>0, <3>1, <3>2
    <3>4. e \in EstType
      BY <2>0, <3>2, <3>3, EstimateType
    <3>5. WorkSlice(e) \in Int
      BY <2>0, <3>4, WorkSliceType
    <3>6. /\ front' = f /\ ps' = buf /\ tail' = NextTail(f, tail) /\ estimate' = e
          /\ twork' = WorkSlice(e)
      BY <2>3 DEF Sample
    <3>7. /\ tsleep' = Period - twork' /\ history' = Append(history, Screenshot)
          /\ pc' = "work" /\ rounds' = rounds + 1 /\ rounds < MaxRounds
          /\ UNCHANGED <<percent, greedy, workingtime, clock, cpu, former>>
      BY <2>3 DEF Sample
    <3>8. stopped' \in BOOLEAN
      BY <2>3, Zenon DEF Sample
    <3>9. tail' \in Slots
      BY <2>0, <3>2, <3>6 DEF NextTail
    <3>10. history' \in Seq(Shot)
      BY <2>0, <3>1, <3>7
    <3> HIDE DEF f, buf, e
    <3>11. twork' \in Int /\ tsleep' \in Int
      BY <3>5, <3>6, <3>7
    <3>12. rounds' \in 0..MaxRounds
      BY <2>0, <3>7
    <3>13. /\ ps' \in [Slots -> Shot] /\ estimate' \in EstType
           /\ front' \in {-1} \cup Slots
      BY <3>2, <3>3, <3>4, <3>6
    <3> QED
      BY <2>0, <3>7, <3>8, <3>9, <3>10, <3>11, <3>12, <3>13
         DEF TypeInv, TypeOK, Shot, EstType
  <2>4. CASE SampleFails
    <3>1. front' \in Slots
      BY <2>0, <2>4, AdvanceIs DEF SampleFails
    <3> QED
      BY <2>0, <2>4, <3>1 DEF SampleFails, TypeInv, TypeOK, Shot, EstType
  <2>u. \A d \in Int : \A u \in Uses(d) : u \in Int
    BY Products DEF Uses
  <2>t. \A x \in Int, d \in Delays : SleepTime(x, d) \in Int
    BY DEF SleepTime
  <2>5. ASSUME NEW d \in Delays, NEW st \in ClockSteps, Work(d, st) PROVE TypeInv'
    <3> DEFINE t == SleepTime(twork, d)
    <3>0. t \in Int /\ st \in Int
      BY <2>0, <2>t
    <3>w. clock' = clock + t + st /\ workingtime' = clock' - clock /\ \E u \in Uses(t) : cpu' = cpu + u
      BY <2>5 DEF Work, TimeDiff
    <3> HIDE DEF t
    <3>1. clock' \in Int /\ cpu' \in Int /\ workingtime' \in Int
      BY <2>0, <2>u, <3>0, <3>w
    <3>2. stopped' \in BOOLEAN /\ pc' \in {"rest", "sample"}
      BY <2>5 DEF Work
    <3> QED
      BY <2>0, <2>5, <3>1, <3>2 DEF Work, TypeInv, TypeOK, Shot, EstType
  <2>6. ASSUME NEW d \in Delays, NEW st \in ClockSteps, Rest(d, st) PROVE TypeInv'
    <3> DEFINE t == SleepTime(tsleep, d)
    <3>0. t \in Int /\ st \in Int
      BY <2>0, <2>t
    <3>w. clock' = clock + t + st /\ \E u \in Uses(t) : cpu' = cpu + u
      BY <2>6 DEF Rest
    <3> HIDE DEF t
    <3>1. clock' \in Int /\ cpu' \in Int
      BY <2>0, <2>u, <3>0, <3>w
    <3> QED
      BY <2>0, <2>6, <3>1 DEF Rest, TypeInv, TypeOK, Shot, EstType
  <2>7. CASE Replaced
    <3>1. stopped' \in BOOLEAN
      BY <2>7, Zenon DEF Replaced
    <3> QED
      BY <2>0, <2>7, <3>1 DEF Replaced, TypeInv, TypeOK, Shot, EstType
  <2>8. CASE KillFails
    BY <2>0, <2>8 DEF KillFails, TypeInv, TypeOK, Shot, EstType
  <2> QED
    BY <2>1, <2>2, <2>3, <2>4, <2>5, <2>6, <2>7, <2>8 DEF Next
<1> QED
  BY <1>1, <1>2, PTL DEF Spec

\* Whatever the constants, the variables of the estimator and of main keep their
\* types: no index leaves the buffer, and the slices are numbers whatever was
\* divided by zero (cpulimit.c:277-327, 476-500).
THEOREM TypeCorrect == Spec => []TypeOK
<1>1. TypeInv => TypeOK
  BY DEF TypeInv
<1> QED
  BY <1>1, TypeInvariance, PTL
-----------------------------------------------------------------------------
\* Between two samples the buffer holds the last screenshots but for one slot,
\* which the next takes.
Held(h) == IF Len(h) < MEM_ORDER THEN Len(h) ELSE MEM_ORDER - 1
Holds(buf, t, h, w) ==
    \A k \in 0..(w - 1) : buf[(t + k) % MEM_ORDER] = h[Len(h) - w + 1 + k]

BufferInv ==
    /\ pc # "search" =>
         /\ Advance(front) = (tail + Held(history)) % MEM_ORDER
         /\ Holds(ps, tail, history, Held(history))
    /\ pc = "work" => estimate = WindowOf(history)

\* The screenshot that compute_cpu_usage adds: the window is one larger.
LEMMA WindowGrows ==
    ASSUME NEW buf \in [Slots -> Shot], NEW t \in Slots, NEW h \in Seq(Shot), NEW x \in Shot,
           Holds(buf, t, h, Held(h))
    PROVE  LET f == (t + Held(h)) % MEM_ORDER
           IN  /\ f \in Slots /\ Size(f, t) = Held(h) + 1
               /\ Holds([buf EXCEPT ![f] = x], t, Append(h, x), Held(h) + 1)
<1> USE UsageAssumption
<1> DEFINE w == Held(h)  n == Len(h)
           f == (t + w) % MEM_ORDER
           b == [buf EXCEPT ![f] = x]
           g == Append(h, x)
<1>1. n \in Nat /\ Len(g) = n + 1 /\ g[n + 1] = x /\ \A k \in 1..n : g[k] = h[k]
  OBVIOUS
<1>2. w \in 0..(MEM_ORDER - 1) /\ w <= n
  BY <1>1 DEF Held
<1>3. f \in Slots /\ f = IF t + w < MEM_ORDER THEN t + w ELSE t + w - MEM_ORDER
  <2>1. w \in 0..MEM_ORDER
    BY <1>2
  <2> HIDE DEF w
  <2> QED
    BY <2>1, SlotAfter
<1>4. Size(f, t) = w + 1
  <2> HIDE DEF w, f
  <2>1. Size(f, t) = IF f < t THEN f - t + MEM_ORDER + 1 ELSE f - t + 1
    BY <1>3, SizeIs
  <2>2. t \in Int /\ 0 <= t /\ t < MEM_ORDER /\ w \in Int /\ 0 <= w /\ w < MEM_ORDER
    BY <1>2 DEF Slots
  <2>3. CASE t + w < MEM_ORDER
    BY <1>3, <2>1, <2>2, <2>3
  <2>4. CASE ~(t + w < MEM_ORDER)
    BY <1>3, <2>1, <2>2, <2>4
  <2> QED
    BY <2>3, <2>4
<1>5. \A k \in 0..w : b[(t + k) % MEM_ORDER] = g[(n + 1) - (w + 1) + 1 + k]
  <2> SUFFICES ASSUME NEW k \in 0..w
               PROVE  b[(t + k) % MEM_ORDER] = g[(n + 1) - (w + 1) + 1 + k]
    OBVIOUS
  <2> HIDE DEF w, n
  <2>0. k \in 0..MEM_ORDER /\ (n + 1) - (w + 1) + 1 + k = n - w + 1 + k
    BY <1>1, <1>2
  <2> DEFINE q == (t + k) % MEM_ORDER
  <2>1. q \in Slots /\ q = IF t + k < MEM_ORDER THEN t + k ELSE t + k - MEM_ORDER
    BY <2>0, SlotAfter
  <2> HIDE DEF q, f
  <2>2. CASE k = w
    <3>1. q = f
      BY <1>3, <2>1, <2>2
    <3>2. n - w + 1 + k = n + 1
      BY <1>1, <1>2, <2>2
    <3>3. b[q] = x
      BY <1>3, <3>1
    <3> QED
      BY <1>1, <2>0, <3>2, <3>3 DEF q
  <2>3. CASE k # w
    <3>1. q # f
      BY <1>2, <1>3, <2>1, <2>3 DEF Slots
    <3>2. k \in 0..(w - 1) /\ n - w + 1 + k \in 1..n
      BY <1>1, <1>2, <2>3
    <3>3. buf[q] = h[n - w + 1 + k]
      BY <3>2 DEF Holds, q, w, n
    <3>4. b[q] = buf[q]
      BY <2>1, <3>1
    <3>5. g[n - w + 1 + k] = h[n - w + 1 + k]
      BY <1>1, <3>2
    <3> QED
      BY <2>0, <3>3, <3>4, <3>5 DEF q
  <2> QED
    BY <2>2, <2>3
<1>6. Holds(b, t, g, w + 1)
  <2>1. 0..((w + 1) - 1) = 0..w
    BY <1>2
  <2> QED
    BY <1>1, <1>5, <2>1 DEF Holds
<1> QED
  BY <1>3, <1>4, <1>6

\* The estimate over a window that holds the end of the history is the one the
\* history gives.
Window(buf, f, t, g, w) ==
    /\ w = IF Len(g) < MEM_ORDER THEN Len(g) ELSE MEM_ORDER
    /\ Size(f, t) = w
    /\ Holds(buf, t, g, w)

LEMMA EstimateIsWindow ==
    ASSUME NEW buf \in [Slots -> Shot], NEW t \in Slots, NEW f \in Slots, NEW g \in Seq(Shot),
           NEW w \in 1..MEM_ORDER, Window(buf, f, t, g, w)
    PROVE  Estimate(buf, f, t) = WindowOf(g)
<1> USE UsageAssumption
<1> DEFINE n == Len(g)
           o == n - w + 1
<1>0. n \in Nat /\ w <= n
  BY DEF Window
<1> HIDE DEF n
<1>1. CASE w = 1
  <2>1. n = 1
    BY <1>0, <1>1 DEF Window, n
  <2>2. Estimate(buf, f, t) = NoEstimate
    BY <1>1 DEF Estimate, Window
  <2>3. WindowOf(g) = NoEstimate
    BY <2>1 DEF WindowOf, n
  <2> QED
    BY <2>2, <2>3
<1>2. CASE w # 1
  <2>0. w \in Int /\ w >= 2 /\ w <= n /\ n \in Int
    BY <1>0, <1>2
  <2>1. n >= 2 /\ o + (w - 1) = n /\ n - o = w - 1 /\ o \in 1..n
    BY <2>0
  <2>2. \A k \in 0..(w - 1) : buf[(t + k) % MEM_ORDER] = g[o + k]
    BY DEF Window, Holds, n
  <2>3. buf[t] = g[o]
    <3>1. (t + 0) % MEM_ORDER = t /\ 0 \in 0..(w - 1) /\ o + 0 = o
      <4>1. 0 \in 0..MEM_ORDER
        OBVIOUS
      <4>2. (t + 0) % MEM_ORDER = IF t + 0 < MEM_ORDER THEN t + 0 ELSE t + 0 - MEM_ORDER
        BY <4>1, SlotAfter
      <4> QED
        BY <2>1, <4>2 DEF Slots
    <3>2. buf[(t + 0) % MEM_ORDER] = g[o + 0]
      BY <2>2, <3>1
    <3> QED
      BY <3>1, <3>2
  <2>4. buf[f] = g[n]
    <3>1. f = (t + (w - 1)) % MEM_ORDER
      <4>1. w - 1 \in 0..MEM_ORDER
        OBVIOUS
      <4>2. (t + (w - 1)) % MEM_ORDER =
              IF t + (w - 1) < MEM_ORDER THEN t + (w - 1) ELSE t + (w - 1) - MEM_ORDER
        BY <4>1, SlotAfter
      <4>3. w = IF f < t THEN f - t + MEM_ORDER + 1 ELSE f - t + 1
        BY SizeIs DEF Window
      <4>4. f \in Int /\ t \in Int /\ 0 <= t /\ t < MEM_ORDER /\ 0 <= f /\ f < MEM_ORDER
        BY DEF Slots
      <4>5. CASE f < t
        BY <2>0, <4>2, <4>3, <4>4, <4>5
      <4>6. CASE ~(f < t)
        BY <2>0, <4>2, <4>3, <4>4, <4>6
      <4> QED
        BY <4>5, <4>6
    <3>2. w - 1 \in 0..(w - 1)
      OBVIOUS
    <3> QED
      BY <2>1, <2>2, <3>1, <3>2
  <2>5. [k \in 1..(w - 1) |-> buf[(t + k) % MEM_ORDER].cputime]
          = [k \in 1..(n - o) |-> g[o + k].cputime]
    <3>1. 1..(w - 1) = 1..(n - o)
      BY <2>1
    <3>2. \A k \in 1..(w - 1) : buf[(t + k) % MEM_ORDER].cputime = g[o + k].cputime
      BY <2>2
    <3> HIDE DEF o
    <3> QED
      BY <3>1, <3>2
  <2>6. Dtwork(buf, f, t) = Total([k \in 1..(n - o) |-> g[o + k].cputime])
    BY <2>5 DEF Dtwork, Window
  <2>7. Estimate(buf, f, t) =
          [first |-> FALSE, used |-> g[n].jiffies - g[o].jiffies,
           dtwork |-> Total([k \in 1..(n - o) |-> g[o + k].cputime]),
           dt |-> g[n].when - g[o].when]
    BY <1>2, <2>3, <2>4, <2>6 DEF Estimate, TimeDiff, Window
  <2>8. WindowOf(g) =
          [first |-> FALSE, used |-> g[n].jiffies - g[o].jiffies,
           dtwork |-> Total([k \in 1..(n - o) |-> g[o + k].cputime]),
           dt |-> g[n].when - g[o].when]
    <3>1. ~(n < 2)
      BY <2>0
    <3>2. w = IF n < MEM_ORDER THEN n ELSE MEM_ORDER
      BY DEF n, Window
    <3> QED
      BY <3>1, <3>2 DEF WindowOf, n
  <2> QED
    BY <2>7, <2>8
<1> QED
  BY <1>1, <1>2
\* When the buffer is full the oldest screenshot leaves the window.
LEMMA OldestLeaves ==
    ASSUME NEW buf \in [Slots -> Shot], NEW t \in Slots, NEW g \in Seq(Shot),
           Len(g) >= MEM_ORDER, Holds(buf, t, g, MEM_ORDER)
    PROVE  Holds(buf, Advance(t), g, MEM_ORDER - 1)
<1> USE UsageAssumption
<1> SUFFICES ASSUME NEW k \in 0..(MEM_ORDER - 1 - 1)
             PROVE  buf[(Advance(t) + k) % MEM_ORDER]
                      = g[Len(g) - (MEM_ORDER - 1) + 1 + k]
  BY DEF Holds
<1>1. k + 1 \in 0..(MEM_ORDER - 1) /\ k + 1 \in 0..MEM_ORDER /\ k \in 0..MEM_ORDER
  OBVIOUS
<1>2. buf[(t + (k + 1)) % MEM_ORDER] = g[Len(g) - MEM_ORDER + 1 + (k + 1)]
  BY <1>1 DEF Holds
<1>3. Len(g) - MEM_ORDER + 1 + (k + 1) = Len(g) - (MEM_ORDER - 1) + 1 + k
  <2>1. Len(g) \in Nat
    OBVIOUS
  <2> QED
    BY <1>1, <2>1
<1>4. (t + (k + 1)) % MEM_ORDER = (Advance(t) + k) % MEM_ORDER
  <2> DEFINE q == Advance(t)
  <2>1. t \in Int /\ 0 <= t /\ t < MEM_ORDER /\ k \in Int /\ 0 <= k /\ k < MEM_ORDER - 1
    BY DEF Slots
  <2>2. q \in Slots /\ q = IF t = MEM_ORDER - 1 THEN 0 ELSE t + 1
    BY AdvanceIs
  <2> HIDE DEF q
  <2>3. (t + (k + 1)) % MEM_ORDER =
          IF t + (k + 1) < MEM_ORDER THEN t + (k + 1) ELSE t + (k + 1) - MEM_ORDER
    BY <1>1, SlotAfter
  <2>4. (q + k) % MEM_ORDER = IF q + k < MEM_ORDER THEN q + k ELSE q + k - MEM_ORDER
    BY <1>1, <2>2, SlotAfter
  <2> DEFINE a == (t + (k + 1)) % MEM_ORDER
             b == (q + k) % MEM_ORDER
  <2>5. a = b
    <3>1. a = IF t + (k + 1) < MEM_ORDER THEN t + (k + 1) ELSE t + (k + 1) - MEM_ORDER
      BY <2>3
    <3>2. b = IF q + k < MEM_ORDER THEN q + k ELSE q + k - MEM_ORDER
      BY <2>4
    <3> HIDE DEF a, b
    <3> QED
      BY <2>1, <2>2, <3>1, <3>2
  <2> QED
    BY <2>5 DEF q
<1> QED
  BY <1>2, <1>3, <1>4

LEMMA BufferInvariance == Spec => []BufferInv
<1> USE UsageAssumption
<1>1. Init => BufferInv
  BY DEF Init, BufferInv
<1>2. TypeInv /\ BufferInv /\ [Next]_vars => BufferInv'
  <2> SUFFICES ASSUME TypeInv, BufferInv, [Next]_vars PROVE BufferInv'
    OBVIOUS
  <2>0. /\ ps \in [Slots -> Shot] /\ front \in {-1} \cup Slots /\ tail \in Slots
        /\ clock \in Int /\ cpu \in Int /\ workingtime \in Int /\ history \in Seq(Shot)
    BY DEF TypeInv, TypeOK, Shot
  \* Nothing but samples and searches touches the estimator.
  <2>k. ASSUME UNCHANGED <<ps, front, tail, history, estimate>>, pc # "search",
               pc' = "work" => pc = "work"
        PROVE  BufferInv'
    BY <2>k DEF BufferInv
  <2>1. CASE UNCHANGED vars
    BY <2>1 DEF vars, BufferInv
  <2>2. ASSUME NEW c \in {0, Jiffy}, Found(c) PROVE BufferInv'
    <3>1. front' = -1 /\ tail' = 0 /\ history' = <<>> /\ pc' = "sample"
      BY <2>2 DEF Found
    <3>2. Len(<<>>) = 0 /\ Held(<<>>) = 0
      BY DEF Held
    <3>3. Advance(-1) = 0 /\ (0 + 0) % MEM_ORDER = 0
      BY DEF Advance
    <3>4. Holds(ps', 0, <<>>, 0)
      BY DEF Holds
    <3> QED
      BY <3>1, <3>2, <3>3, <3>4 DEF BufferInv
  <2>3. CASE Sample
    <3> DEFINE w   == Held(history)
               n   == Len(history)
               x   == Screenshot
               g   == Append(history, x)
               f   == Advance(front)
               buf == [ps EXCEPT ![f] = x]
    <3>1. x \in Shot
      <4>1. Jiffies(cpu) \in Int
        BY <2>0 DEF Jiffies
      <4> QED
        BY <2>0, <4>1 DEF Screenshot, Shot
    <3>2. f = (tail + w) % MEM_ORDER /\ Holds(ps, tail, history, w)
      BY <2>3 DEF Sample, BufferInv
    <3>3. f \in Slots /\ Size(f, tail) = w + 1 /\ Holds(buf, tail, g, w + 1)
      BY <2>0, <3>1, <3>2, WindowGrows
    <3>4. buf \in [Slots -> Shot] /\ g \in Seq(Shot) /\ Len(g) = n + 1 /\ n \in Nat
      BY <2>0, <3>1, <3>3
    <3>5. /\ ps' = buf /\ history' = g /\ front' = f /\ pc' = "work"
          /\ tail' = NextTail(f, tail) /\ estimate' = Estimate(buf, f, tail)
      BY <2>3 DEF Sample
    <3>6. /\ w = IF n < MEM_ORDER THEN n ELSE MEM_ORDER - 1
          /\ Held(g) = IF n + 1 < MEM_ORDER THEN n + 1 ELSE MEM_ORDER - 1
      BY <3>4 DEF Held
    <3> HIDE DEF w, n, x, g, f, buf
    <3>7. estimate' = WindowOf(g)
      <4>1. w + 1 \in 1..MEM_ORDER
        BY <3>4, <3>6
      <4>2. w + 1 = IF Len(g) < MEM_ORDER THEN Len(g) ELSE MEM_ORDER
        BY <3>4, <3>6
      <4>3. Window(buf, f, tail, g, w + 1)
        BY <3>3, <4>2 DEF Window
      <4> QED
        BY <2>0, <3>3, <3>4, <3>5, <4>1, <4>3, EstimateIsWindow
    <3>8. Advance(f) = (tail' + Held(g)) % MEM_ORDER /\ Holds(buf, tail', g, Held(g))
      <4>0. /\ tail \in Int /\ 0 <= tail /\ tail < MEM_ORDER
            /\ f \in Int /\ 0 <= f /\ f < MEM_ORDER
        BY <2>0, <3>3 DEF Slots
      <4>1. f = IF tail + w < MEM_ORDER THEN tail + w ELSE tail + w - MEM_ORDER
        <5>1. w \in 0..MEM_ORDER
          BY <3>4, <3>6
        <5> QED
          BY <2>0, <3>2, <5>1, SlotAfter
      <4>2. Advance(f) = IF f = MEM_ORDER - 1 THEN 0 ELSE f + 1
        BY <3>3, AdvanceIs
      <4>3. CASE w + 1 = MEM_ORDER
        <5>1. tail' = Advance(tail)
          BY <3>3, <3>5, <4>3 DEF NextTail
        <5>2. Held(g) = MEM_ORDER - 1 /\ Len(g) >= MEM_ORDER
          BY <3>4, <3>6, <4>3
        <5>3. Holds(buf, tail', g, Held(g))
          BY <2>0, <3>3, <3>4, <4>3, <5>1, <5>2, OldestLeaves
        <5>4. tail' \in Slots /\ tail' = IF tail = MEM_ORDER - 1 THEN 0 ELSE tail + 1
          BY <2>0, <5>1, AdvanceIs
        <5>5. (tail' + (MEM_ORDER - 1)) % MEM_ORDER =
                IF tail' + (MEM_ORDER - 1) < MEM_ORDER THEN tail' + (MEM_ORDER - 1)
                                                       ELSE tail' + (MEM_ORDER - 1) - MEM_ORDER
          <6>1. MEM_ORDER - 1 \in 0..MEM_ORDER
            OBVIOUS
          <6> QED
            BY <5>4, <6>1, SlotAfter
        <5> DEFINE u == tail'
                   a == Advance(f)
                   b == (u + (MEM_ORDER - 1)) % MEM_ORDER
        <5>6. a = b
          <6>1. b = IF u + (MEM_ORDER - 1) < MEM_ORDER THEN u + (MEM_ORDER - 1)
                                                       ELSE u + (MEM_ORDER - 1) - MEM_ORDER
            BY <5>5
          <6>2. a = IF f = MEM_ORDER - 1 THEN 0 ELSE f + 1
            BY <4>2
          <6>3. u = IF tail = MEM_ORDER - 1 THEN 0 ELSE tail + 1
            BY <5>4
          <6>4. w \in Int /\ w = MEM_ORDER - 1
            BY <3>4, <3>6, <4>3
          <6> HIDE DEF a, b, u
          <6> QED
            BY <4>0, <4>1, <6>1, <6>2, <6>3, <6>4
        <5> QED
          BY <5>2, <5>3, <5>6
      <4>4. CASE w + 1 # MEM_ORDER
        <5>1. tail' = tail
          BY <3>3, <3>5, <4>4 DEF NextTail
        <5>2. Held(g) = w + 1 /\ w + 1 < MEM_ORDER /\ w \in Nat
          BY <3>4, <3>6, <4>4
        <5>3. (tail + (w + 1)) % MEM_ORDER =
                IF tail + (w + 1) < MEM_ORDER THEN tail + (w + 1) ELSE tail + (w + 1) - MEM_ORDER
          <6>1. w + 1 \in 0..MEM_ORDER
            BY <5>2
          <6> QED
            BY <2>0, <6>1, SlotAfter
        <5>4. Advance(f) = (tail + (w + 1)) % MEM_ORDER
          BY <4>0, <4>1, <4>2, <5>2, <5>3
        <5> QED
          BY <3>3, <5>1, <5>2, <5>4
      <4> QED
        BY <4>3, <4>4
    <3> QED
      BY <3>5, <3>7, <3>8 DEF BufferInv
  <2>4. CASE SampleFails \/ KillFails
    BY <2>4 DEF SampleFails, KillFails, BufferInv
  <2>5. ASSUME NEW d \in Delays, NEW st \in ClockSteps, Work(d, st) \/ Rest(d, st)
        PROVE  BufferInv'
    <3>1. pc # "search" /\ pc' # "work" /\ UNCHANGED <<ps, front, tail, history, estimate>>
      BY <2>5 DEF Work, Rest
    <3> QED
      BY <2>k, <3>1
  <2>7. CASE Replaced
    <3>1. pc # "search" /\ pc' = pc /\ UNCHANGED <<ps, front, tail, history, estimate>>
      BY <2>7 DEF Replaced
    <3> QED
      BY <2>k, <3>1
  <2> QED
    BY <2>1, <2>2, <2>3, <2>4, <2>5, <2>7 DEF Next
<1> QED
  BY <1>1, <1>2, TypeInvariance, PTL DEF Spec

\* For every size of the buffer, whatever the clock and the process do and however
\* often the process is lost and found: compute_cpu_usage estimates over the last
\* MEM_ORDER screenshots since its reset (cpulimit.c:277-327).
THEOREM EstimatesRecentPast == Spec => []EstimateIsOfRecentPast
<1>1. BufferInv => EstimateIsOfRecentPast
  BY DEF BufferInv, EstimateIsOfRecentPast
<1> QED
  BY <1>1, BufferInvariance, PTL
-----------------------------------------------------------------------------
\* While nobody sets the clock: the working quantum of a screenshot lies between
\* it and the one before.
Paced(h) ==
    \A i \in 1..(Len(h) - 1) : /\ 0 <= h[i + 1].cputime
                               /\ h[i + 1].cputime <= h[i + 1].when - h[i].when

TimeInv ==
    /\ Paced(history)
    /\ history # <<>> =>
         /\ history[Len(history)].when <= clock
         /\ pc \in {"rest", "sample"} =>
              /\ 0 <= workingtime
              /\ workingtime <= clock - history[Len(history)].when
    /\ 0 <= estimate.dtwork /\ estimate.dtwork <= estimate.dt

LEMMA WindowRate ==
    ASSUME NEW g \in Seq(Shot), Paced(g)
    PROVE  0 <= WindowOf(g).dtwork /\ WindowOf(g).dtwork <= WindowOf(g).dt
<1> USE UsageAssumption
<1> DEFINE n == Len(g)
           w == IF n < MEM_ORDER THEN n ELSE MEM_ORDER
           o == n - w + 1
           a == [i \in 1..(n - o) |-> g[o + i].cputime]
           b == [i \in 0..(n - o) |-> g[o + i].when]
<1>1. CASE n < 2
  BY <1>1 DEF WindowOf, NoEstimate
<1>2. CASE ~(n < 2)
  <2>1. n \in Nat /\ n >= 2 /\ o \in 1..n /\ n - o \in Nat /\ o + (n - o) = n /\ o + 0 = o
    BY <1>2
  <2>2. WindowOf(g).dtwork = Total(a) /\ WindowOf(g).dt = g[n].when - g[o].when
    BY <1>2 DEF WindowOf
  <2> HIDE DEF w, o
  <2>3. \A i \in 0..(n - o) : o + i \in 1..n
    BY <2>1
  <2> HIDE DEF n
  <2>4. \A i \in 1..n : g[i] \in Shot
    BY DEF n
  <2>5. a \in Seq(Int) /\ Len(a) = n - o
    <3>1. \A i \in 1..(n - o) : g[o + i].cputime \in Int
      BY <2>1, <2>3, <2>4 DEF Shot
    <3> QED
      BY <2>1, <3>1
  <2>6. b \in [0..Len(a) -> Int]
    <3>1. \A i \in 0..(n - o) : g[o + i].when \in Int
      BY <2>3, <2>4 DEF Shot
    <3> QED
      BY <2>5, <3>1
  <2>7. ASSUME NEW i \in 1..Len(a)
        PROVE  0 <= a[i] /\ a[i] <= b[i] - b[i - 1]
    <3>1. i \in 1..(n - o) /\ i \in 0..(n - o) /\ i - 1 \in 0..(n - o)
      BY <2>1, <2>5
    <3>2. a[i] = g[o + i].cputime /\ b[i] = g[o + i].when /\ b[i - 1] = g[o + (i - 1)].when
      BY <3>1
    <3>3. o + (i - 1) \in 1..(n - 1) /\ (o + (i - 1)) + 1 = o + i
      BY <2>1, <3>1
    <3>4. /\ 0 <= g[o + i].cputime
          /\ g[o + i].cputime <= g[o + i].when - g[o + (i - 1)].when
      BY <3>3 DEF Paced, n
    <3> QED
      BY <3>2, <3>4
  <2>8. Total(a) \in 0..(b[Len(a)] - b[0])
    <3> HIDE DEF a, b
    <3> QED
      BY <2>5, <2>6, <2>7, TotalBounded
  <2>9. b[Len(a)] = g[n].when /\ b[0] = g[o].when
    <3>1. n - o \in 0..(n - o) /\ 0 \in 0..(n - o)
      BY <2>1
    <3>2. b[n - o] = g[o + (n - o)].when /\ b[0] = g[o + 0].when
      BY <3>1
    <3> QED
      BY <2>1, <2>5, <3>2
  <2> HIDE DEF a, b
  <2>10. g[n].when \in Int /\ g[o].when \in Int
    BY <2>1, <2>4 DEF Shot
  <2> QED
    BY <2>2, <2>8, <2>9, <2>10
<1> QED
  BY <1>1, <1>2

LEMMA TimeInvariance ==
    ASSUME ClockSteps \subseteq {0}
    PROVE  Spec => []TimeInv
<1> USE UsageAssumption
<1>1. Init => TimeInv
  BY DEF Init, TimeInv, Paced, NoEstimate
<1>2. TypeInv /\ BufferInv' /\ TimeInv /\ [Next]_vars => TimeInv'
  <2> SUFFICES ASSUME TypeInv, BufferInv', TimeInv, [Next]_vars PROVE TimeInv'
    OBVIOUS
  <2>0. /\ clock \in Int /\ cpu \in Int /\ workingtime \in Int /\ history \in Seq(Shot)
        /\ twork \in Int /\ tsleep \in Int
    BY DEF TypeInv, TypeOK
  <2>h. history # <<>> => history[Len(history)].when \in Int
    <3>1. history # <<>> => history[Len(history)] \in Shot
      BY <2>0
    <3> QED
      BY <3>1 DEF Shot
  <2>t. \A x \in Int, d \in Delays : SleepTime(x, d) \in Nat
    BY DEF SleepTime
  <2>1. CASE UNCHANGED vars
    BY <2>1 DEF vars, TimeInv, Paced
  <2>2. ASSUME NEW c \in {0, Jiffy}, Found(c) PROVE TimeInv'
    <3>1. history' = <<>> /\ estimate' = estimate
      BY <2>2 DEF Found
    <3>2. Paced(<<>>)
      BY DEF Paced
    <3> QED
      BY <3>1, <3>2 DEF TimeInv
  <2>3. CASE Sample
    <3> DEFINE x == Screenshot
               g == Append(history, x)
               n == Len(history)
    <3>1. x \in Shot /\ x.when = clock /\ x.cputime = workingtime
      <4>1. Jiffies(cpu) \in Int
        BY <2>0 DEF Jiffies
      <4> QED
        BY <2>0, <4>1 DEF Screenshot, Shot
    <3>2. history' = g /\ pc' = "work" /\ pc = "sample" /\ clock' = clock
      BY <2>3 DEF Sample
    <3>3. estimate' = WindowOf(history')
      BY <3>2 DEF BufferInv
    <3>4. /\ n \in Nat /\ Len(g) = n + 1 /\ g[n + 1] = x /\ g \in Seq(Shot) /\ g # <<>>
          /\ \A i \in 1..n : g[i] = history[i]
      <4> HIDE DEF x
      <4> QED
        BY <2>0, <3>1
    <3> HIDE DEF x, g
    <3>5. Paced(g)
      <4> SUFFICES ASSUME NEW i \in 1..n
                   PROVE  0 <= g[i + 1].cputime /\ g[i + 1].cputime <= g[i + 1].when - g[i].when
        BY <3>4 DEF Paced
      <4>1. CASE i = n
        <5>1. history # <<>>
          BY <2>0, <3>4, <4>1
        <5> QED
          BY <3>1, <3>2, <3>4, <4>1, <5>1 DEF TimeInv
      <4>2. CASE i # n
        <5>1. i \in 1..(n - 1) /\ i + 1 \in 1..n
          BY <3>4, <4>2
        <5>2. g[i + 1] = history[i + 1] /\ g[i] = history[i]
          BY <3>4, <5>1
        <5> QED
          BY <5>1, <5>2 DEF TimeInv, Paced
      <4> QED
        BY <4>1, <4>2
    <3>6. 0 <= estimate'.dtwork /\ estimate'.dtwork <= estimate'.dt
      BY <3>2, <3>3, <3>4, <3>5, WindowRate
    <3>7. g[Len(g)].when <= clock'
      BY <2>0, <3>1, <3>2, <3>4
    <3> QED
      BY <3>2, <3>5, <3>6, <3>7 DEF TimeInv
  <2>4. CASE SampleFails \/ KillFails
    BY <2>4 DEF SampleFails, KillFails, TimeInv
  <2>5. ASSUME NEW d \in Delays, NEW st \in ClockSteps, Work(d, st) PROVE TimeInv'
    <3> DEFINE t == SleepTime(twork, d)
    <3>1. t \in Nat /\ st = 0
      <4>1. twork \in Int
        BY <2>0
      <4>2. SleepTime(twork, d) \in Nat
        BY <4>1, <2>t
      <4> QED
        BY <4>2
    <3>2. /\ clock' = clock + t + st /\ workingtime' = clock' - clock
          /\ history' = history /\ estimate' = estimate
      BY <2>5 DEF Work, TimeDiff
    <3> HIDE DEF t
    <3>3. clock' = clock + t /\ workingtime' = t
      BY <2>0, <3>1, <3>2
    <3>4. history # <<>> => /\ history[Len(history)].when <= clock'
                            /\ 0 <= workingtime'
                            /\ workingtime' <= clock' - history[Len(history)].when
      BY <2>0, <2>h, <3>1, <3>3 DEF TimeInv
    <3> QED
      BY <3>2, <3>4 DEF TimeInv
  <2>6. ASSUME NEW d \in Delays, NEW st \in ClockSteps, Rest(d, st) PROVE TimeInv'
    <3> DEFINE t == SleepTime(tsleep, d)
    <3>1. t \in Nat /\ st = 0
      <4>1. tsleep \in Int
        BY <2>0
      <4>2. SleepTime(tsleep, d) \in Nat
        BY <4>1, <2>t
      <4> QED
        BY <4>2
    <3>2. /\ clock' = clock + t + st /\ workingtime' = workingtime /\ pc = "rest"
          /\ history' = history /\ estimate' = estimate
      BY <2>6 DEF Rest
    <3> HIDE DEF t
    <3>3. clock' = clock + t
      BY <2>0, <3>1, <3>2
    <3>4. history # <<>> => /\ history[Len(history)].when <= clock'
                            /\ 0 <= workingtime'
                            /\ workingtime' <= clock' - history[Len(history)].when
      BY <2>0, <2>h, <3>1, <3>2, <3>3 DEF TimeInv
    <3> QED
      BY <3>2, <3>4 DEF TimeInv
  <2>7. CASE Replaced
    BY <2>7 DEF Replaced, TimeInv
  <2> QED
    BY <2>1, <2>2, <2>3, <2>4, <2>5, <2>6, <2>7 DEF Next
<1> QED
  BY <1>1, <1>2, TypeInvariance, BufferInvariance, PTL DEF Spec

\* While nobody sets the clock, and for every size of the buffer: the time for
\* which the process was let run, summed over the window, is no more than the
\* window lasts (cpulimit.c:309-322).
THEOREM ActiveRate ==
    ASSUME ClockSteps \subseteq {0}
    PROVE  Spec => []ActiveRateInRange
<1>1. TimeInv => ActiveRateInRange
  BY DEF TimeInv, ActiveRateInRange
<1> QED
  BY <1>1, TimeInvariance, PTL
-----------------------------------------------------------------------------
\* The working slice never leaves the period, and the sleeping slice is the rest.
SliceInv ==
    /\ twork \in 0..Period
    /\ pc \in {"work", "rest"} => tsleep = Period - twork

LEMMA SliceInvariance ==
    ASSUME ClockSteps \subseteq {0}
    PROVE  Spec => []SliceInv
<1> USE UsageAssumption
<1>1. Init => SliceInv
  BY DEF Init, SliceInv
<1>2. TypeInv /\ TypeInv' /\ TimeInv' /\ SliceInv /\ [Next]_vars => SliceInv'
  <2> SUFFICES ASSUME TypeInv, TypeInv', TimeInv', SliceInv, [Next]_vars PROVE SliceInv'
    OBVIOUS
  <2>1. CASE Sample
    <3>1. twork' = WorkSlice(estimate') /\ tsleep' = Period - twork'
      BY <2>1 DEF Sample
    <3>2. percent \in Percents /\ twork \in 0..Period /\ twork \in Int
      BY DEF TypeInv, TypeOK, SliceInv
    <3>3. estimate' \in EstType
      BY DEF TypeInv, TypeOK, EstType
    <3>4. 0 <= estimate'.dtwork /\ 0 <= estimate'.dt
      <4>1. estimate'.dtwork \in Int /\ estimate'.dt \in Int
        BY <3>3 DEF EstType
      <4> QED
        BY <4>1 DEF TimeInv
    <3> DEFINE e == estimate'
    <3> HIDE DEF e
    <3>5. e \in EstType /\ 0 <= e.dtwork /\ 0 <= e.dt
      BY <3>3, <3>4 DEF e
    <3>6. WorkSlice(e) \in 0..Period
      BY <3>2, <3>5, WorkSliceType
    <3> QED
      BY <3>1, <3>6 DEF SliceInv, e
  <2>2. CASE UNCHANGED <<twork, tsleep>> /\ (pc' \in {"work", "rest"} => pc \in {"work", "rest"})
    BY <2>2 DEF SliceInv
  <2>3. CASE UNCHANGED vars
    BY <2>2, <2>3 DEF vars
  <2>4. ASSUME NEW c \in {0, Jiffy}, Found(c) PROVE SliceInv'
    BY <2>2, <2>4 DEF Found
  <2>5. CASE SampleFails \/ KillFails \/ Replaced
    BY <2>2, <2>5 DEF SampleFails, KillFails, Replaced
  <2>6. ASSUME NEW d \in Delays, NEW st \in ClockSteps, Work(d, st) \/ Rest(d, st)
        PROVE  SliceInv'
    BY <2>2, <2>6 DEF Work, Rest
  <2> QED
    BY <2>1, <2>3, <2>4, <2>5, <2>6 DEF Next
<1> QED
  BY <1>1, <1>2, TypeInvariance, TimeInvariance, PTL DEF Spec

\* While nobody sets the clock: whatever estimates the samples give, also those
\* that divide by zero, each period is split into two slices of which neither is
\* negative (cpulimit.c:499-507).
THEOREM SlicesSplit ==
    ASSUME ClockSteps \subseteq {0}
    PROVE  Spec => []SlicesSplitPeriod
<1>1. SliceInv => SlicesSplitPeriod
  BY UsageAssumption DEF SliceInv, SlicesSplitPeriod
<1> QED
  BY <1>1, SliceInvariance, PTL

-----------------------------------------------------------------------------
\* Since a screenshot was taken the process has used no more than the processors
\* had to give, but for the jiffy that the screenshot rounded off.
Cap(s, c)    == Jiffy * s.jiffies + Jiffy + Threads * (c - s.when)
UsedSince(s) == cpu < Cap(s, clock)

\* It does not give back what it used when it was last read.
ReadBefore(s) == Jiffy * s.jiffies <= cpu

UsageInv ==
    /\ \A i \in 1..Len(history) : UsedSince(history[i])
    /\ \A i \in 1..Len(history) : i > former => ReadBefore(history[i])
    /\ pc \in {"work", "rest"} => history # <<>>
    /\ UsageInRange

LEMMA Rounds ==
    ASSUME NEW c \in Int
    PROVE  LET q == c \div Jiffy IN q \in Int /\ Jiffy * q <= c /\ c < Jiffy * q + Jiffy
BY UsageAssumption

LEMMA Distributes ==
    ASSUME NEW k \in Int, NEW a \in Int, NEW b \in Int
    PROVE  k * (a + b) = k * a + k * b
OBVIOUS

\* What the process uses of t units keeps the bound.
LEMMA UsesKeep ==
    ASSUME NEW s \in Shot, NEW t \in Nat, NEW u \in Uses(t), clock \in Int, cpu \in Int,
           UsedSince(s)
    PROVE  cpu + u < Cap(s, clock + t)
<1> USE UsageAssumption
<1>1. s.jiffies \in Int /\ s.when \in Int
  BY DEF Shot
<1> DEFINE J == Jiffy * s.jiffies
           a == clock - s.when
           A == Threads * a
           T == Threads * t
<1>2. J \in Int /\ a \in Int /\ A \in Int /\ T \in Nat
  BY <1>1, Products
<1>3. u \in Int /\ u <= T
  <2>1. t <= Threads * t
    <3>1. Threads - 1 \in Nat /\ (Threads - 1) * t \in Nat
      BY Products
    <3>2. (Threads - 1) * t = Threads * t - t
      OBVIOUS
    <3> QED
      BY <3>1, <3>2, <1>2
  <2>2. u \in {0} \cup {t} \cup 0..T
    BY DEF Uses
  <2> QED
    BY <1>2, <2>1, <2>2
<1>4. Threads * ((clock + t) - s.when) = A + T
  <2>1. (clock + t) - s.when = a + t
    BY <1>1
  <2>2. Threads * (a + t) = Threads * a + Threads * t
    <3> HIDE DEF a
    <3> QED
      BY <1>2, Distributes
  <2> QED
    BY <2>1, <2>2
<1>5. cpu < J + Jiffy + A
  BY DEF UsedSince, Cap
<1>6. Cap(s, clock + t) = J + Jiffy + Threads * ((clock + t) - s.when)
  BY DEF Cap
<1>7. Cap(s, clock + t) = J + Jiffy + (A + T)
  <2> HIDE DEF J, A, T
  <2> QED
    BY <1>4, <1>6, Zenon
<1> HIDE DEF J, A, T
<1>8. cpu + u < J + Jiffy + (A + T)
  BY <1>2, <1>3, <1>5
<1> QED
  BY <1>7, <1>8

LEMMA UsageInvariance ==
    ASSUME ClockSteps \subseteq {0}
    PROVE  Spec => []UsageInv
<1> USE UsageAssumption
<1>1. Init => UsageInv
  <2> SUFFICES ASSUME Init PROVE UsageInv
    OBVIOUS
  <2>1. history = <<>> /\ estimate.used = 0 /\ estimate.dt = 0 /\ pc = "search"
    BY DEF Init, NoEstimate
  <2>2. 0 * Jiffy = 0 /\ Threads * 0 = 0
    OBVIOUS
  <2> QED
    BY <2>1, <2>2 DEF UsageInv, UsageInRange
<1>2. TypeInv /\ BufferInv' /\ UsageInv /\ [Next]_vars => UsageInv'
  <2> SUFFICES ASSUME TypeInv, BufferInv', UsageInv, [Next]_vars PROVE UsageInv'
    OBVIOUS
  <2>0. /\ clock \in Int /\ cpu \in Int /\ workingtime \in Int /\ history \in Seq(Shot)
        /\ twork \in Int /\ tsleep \in Int /\ former \in Nat
        /\ \A i \in 1..Len(history) : history[i] \in Shot
    <3>1. history \in Seq(Shot)
      BY DEF TypeInv
    <3>2. /\ clock \in Int /\ cpu \in Int /\ workingtime \in Int
          /\ twork \in Int /\ tsleep \in Int /\ former \in Nat
      BY DEF TypeInv, TypeOK
    <3>3. \A i \in 1..Len(history) : history[i] \in Shot
      BY <3>1
    <3> QED
      BY <3>1, <3>2, <3>3
  <2>t. \A x \in Int, d \in Delays : SleepTime(x, d) \in Nat
    BY DEF SleepTime
  <2>1. CASE UNCHANGED vars
    BY <2>1 DEF vars, UsageInv, UsageInRange, UsedSince, ReadBefore
  <2>2. ASSUME NEW c \in {0, Jiffy}, Found(c) PROVE UsageInv'
    BY <2>2 DEF Found, UsageInv, UsageInRange
  <2>3. CASE Sample
    <3> DEFINE x == Screenshot
               g == Append(history, x)
               n == Len(history)
               q == cpu \div Jiffy
    <3>1. x \in Shot /\ x.when = clock /\ x.jiffies = q
      <4>1. Jiffies(cpu) \in Int /\ Jiffies(cpu) = q
        BY <2>0 DEF Jiffies
      <4> HIDE DEF q
      <4> QED
        BY <2>0, <4>1 DEF Screenshot, Shot
    <3>2. q \in Int /\ Jiffy * q <= cpu /\ cpu < Jiffy * q + Jiffy
      BY <2>0, Rounds
    <3>3. /\ history' = g /\ pc' = "work" /\ clock' = clock /\ cpu' = cpu
          /\ former' = former
      BY <2>3 DEF Sample
    <3>4. /\ n \in Nat /\ Len(g) = n + 1 /\ g[n + 1] = x /\ g \in Seq(Shot)
          /\ \A i \in 1..n : g[i] = history[i]
      <4> HIDE DEF x
      <4> QED
        BY <2>0, <3>1
    <3> HIDE DEF x, g, q
    <3>5. UsedSince(x)
      <4>1. clock - x.when = 0 /\ Threads * 0 = 0 /\ Jiffy * q \in Int
        BY <2>0, <3>1, <3>2, Products
      <4> QED
        BY <2>0, <3>1, <3>2, <4>1 DEF UsedSince, Cap
    <3>6. \A i \in 1..(n + 1) : UsedSince(g[i])
      <4> SUFFICES ASSUME NEW i \in 1..(n + 1) PROVE UsedSince(g[i])
        OBVIOUS
      <4>1. CASE i = n + 1
        BY <3>4, <3>5, <4>1
      <4>2. CASE i # n + 1
        <5>1. i \in 1..n
          BY <3>4, <4>2
        <5> QED
          BY <3>4, <5>1 DEF UsageInv
      <4> QED
        BY <4>1, <4>2
    <3>r. \A i \in 1..(n + 1) : i > former => ReadBefore(g[i])
      <4> SUFFICES ASSUME NEW i \in 1..(n + 1), i > former PROVE ReadBefore(g[i])
        OBVIOUS
      <4>1. CASE i = n + 1
        BY <3>1, <3>2, <3>4, <4>1 DEF ReadBefore
      <4>2. CASE i # n + 1
        <5>1. i \in 1..n
          BY <3>4, <4>2
        <5> QED
          BY <3>4, <5>1 DEF UsageInv
      <4> QED
        BY <4>1, <4>2
    <3>7. UsageInRange'
      <4> DEFINE w == IF n + 1 < MEM_ORDER THEN n + 1 ELSE MEM_ORDER
                 o == n + 1 - w + 1
                 e == WindowOf(g)
      <4>1. estimate' = e
        BY <3>3 DEF BufferInv
      <4>2. CASE n = 0
        <5>1. e = NoEstimate
          BY <3>4, <4>2 DEF WindowOf
        <5>2. e.used = 0 /\ e.dt = 0 /\ 0 * Jiffy = 0 /\ Threads * 0 = 0
          BY <5>1 DEF NoEstimate
        <5> HIDE DEF e
        <5> QED
          BY <4>1, <5>2 DEF UsageInRange
      <4>3. CASE n # 0
        <5>1. o \in 1..(n + 1) /\ ~(n + 1 < 2)
          <6> HIDE DEF n
          <6>1. n \in Nat /\ n # 0 /\ MEM_ORDER \in Nat \ {0}
            BY <3>4, <4>3
          <6>2. w \in 1..(n + 1)
            BY <6>1
          <6> HIDE DEF w
          <6> QED
            BY <6>1, <6>2
        <5>2. e.used = g[n + 1].jiffies - g[o].jiffies /\ e.dt = g[n + 1].when - g[o].when
          BY <3>4, <5>1 DEF WindowOf
        <5>o. former = 0 \/ former + MEM_ORDER <= n + 1 => o > former
          <6> HIDE DEF n
          <6>1. n \in Nat /\ MEM_ORDER \in Nat \ {0} /\ former \in Nat
            BY <2>0, <3>4
          <6> QED
            BY <5>1, <6>1
        <5> HIDE DEF o, e, w
        <5>3. g[o] \in Shot /\ UsedSince(g[o]) /\ (o > former => ReadBefore(g[o]))
          BY <3>4, <3>6, <3>r, <5>1
        <5> DEFINE s == g[o]  j == s.jiffies  a == clock - s.when
        <5>4. j \in Int /\ a \in Int /\ e.used = q - j /\ e.dt = a
          <6>1. g[n + 1] = x
            BY <3>4
          <6>2. s \in Shot /\ e.used = x.jiffies - s.jiffies /\ e.dt = x.when - s.when
            BY <5>2, <5>3, <6>1
          <6> HIDE DEF s
          <6>3. s.jiffies \in Int /\ s.when \in Int
            BY <6>2 DEF Shot
          <6> QED
            BY <2>0, <3>1, <6>2, <6>3
        <5>5. /\ cpu < Jiffy * j + Jiffy + Threads * a
              /\ o > former => Jiffy * j <= cpu
          BY <5>3 DEF UsedSince, Cap, ReadBefore
        <5> HIDE DEF j, a
        <5> DEFINE P == Jiffy * j  Q == Jiffy * q  R == Threads * a
        <5>6. P \in Int /\ Q \in Int /\ R \in Int
          BY <3>2, <5>4, Products
        <5>7. (q - j) * Jiffy = Q - P
          BY <3>2, <5>4
        <5>8. Q <= cpu /\ cpu < P + Jiffy + R
          BY <3>2, <5>5
        <5> HIDE DEF P, Q, R
        <5>9. Q - P < R + Jiffy
          BY <2>0, <5>6, <5>8
        <5>10. e.used * Jiffy < Threads * e.dt + Jiffy
          BY <5>4, <5>7, <5>9 DEF R
        <5>11. o > former => 0 <= e.used
          <6> SUFFICES ASSUME o > former, q < j PROVE FALSE
            BY <3>2, <5>4
          <6>1. Jiffy * (j - (q + 1)) \in Nat
            BY <3>2, <5>4, Products
          <6>2. Jiffy * (j - (q + 1)) = Jiffy * j - (Jiffy * q + Jiffy)
            BY <3>2, <5>4
          <6>3. P - (Q + Jiffy) \in Nat /\ cpu < Q + Jiffy /\ P <= cpu
            BY <3>2, <5>5, <6>1, <6>2 DEF P, Q
          <6> QED
            BY <2>0, <5>6, <6>3
        <5>12. Len(history)' = n + 1
          BY <3>3, <3>4
        <5> QED
          BY <3>3, <4>1, <5>o, <5>10, <5>11, <5>12 DEF UsageInRange
      <4> QED
        BY <4>2, <4>3
    <3> QED
      BY <3>3, <3>4, <3>6, <3>7, <3>r DEF UsageInv, UsedSince, ReadBefore
  <2>4. CASE SampleFails \/ KillFails
    BY <2>4 DEF SampleFails, KillFails, UsageInv, UsageInRange, UsedSince, ReadBefore
  \* The process runs, or is stopped, for t units.
  <2>r. ASSUME NEW t \in Nat, NEW u \in Uses(t), clock' = clock + t, cpu' = cpu + u,
               UNCHANGED <<history, estimate, former>>,
               pc' \in {"work", "rest"} => pc \in {"work", "rest"}
        PROVE  UsageInv'
    <3>1. \A i \in 1..Len(history) : cpu' < Cap(history[i], clock')
      <4> TAKE i \in 1..Len(history)
      <4>1. history[i] \in Shot /\ UsedSince(history[i])
        BY <2>0 DEF UsageInv
      <4>2. cpu + u < Cap(history[i], clock + t)
        BY <2>0, <4>1, UsesKeep
      <4> QED
        BY <2>r, <4>2
    <3>2. u \in Nat
      BY Products DEF Uses
    <3>3. ASSUME NEW i \in 1..Len(history), i > former PROVE Jiffy * history[i].jiffies <= cpu'
      <4>1. history[i].jiffies \in Int /\ ReadBefore(history[i])
        BY <2>0, <3>3 DEF UsageInv, Shot
      <4> DEFINE J == Jiffy * history[i].jiffies
      <4>2. J \in Int /\ J <= cpu
        BY <4>1, Products DEF ReadBefore
      <4> HIDE DEF J
      <4>3. J <= cpu'
        BY <2>0, <2>r, <3>2, <4>2
      <4> QED
        BY <4>3 DEF J
    <3> QED
      BY <2>r, <3>1, <3>3 DEF UsageInv, UsageInRange, UsedSince, ReadBefore
  <2>5. ASSUME NEW d \in Delays, NEW st \in ClockSteps, Work(d, st) \/ Rest(d, st)
        PROVE  UsageInv'
    <3>1. PICK t \in Nat : /\ clock' = clock + t + st
                           /\ \E u \in Uses(t) : cpu' = cpu + u
      BY <2>0, <2>5, <2>t DEF Work, Rest
    <3>2. clock' = clock + t
      BY <2>0, <3>1
    <3>3. /\ UNCHANGED <<history, estimate, former>>
          /\ pc' \in {"work", "rest"} => pc \in {"work", "rest"}
      BY <2>5 DEF Work, Rest
    <3> QED
      BY <2>r, <3>1, <3>2, <3>3
  <2>7. CASE Replaced
    <3>1. cpu' = 0 /\ cpu > 0 /\ former' = Len(history) /\ UNCHANGED <<clock, history, estimate, pc>>
      BY <2>7 DEF Replaced
    <3>2. ASSUME NEW i \in 1..Len(history)
          PROVE  0 < Cap(history[i], clock)
      <4>1. history[i].jiffies \in Int /\ history[i].when \in Int
        BY <2>0 DEF Shot
      <4>2. UsedSince(history[i])
        BY DEF UsageInv
      <4> DEFINE y == Cap(history[i], clock)
      <4>3. y \in Int /\ cpu < y
        <5>1. cpu < y
          BY <4>2 DEF UsedSince
        <5> DEFINE j == history[i].jiffies  a == clock - history[i].when
        <5>2. j \in Int /\ a \in Int
          BY <2>0, <4>1
        <5>3. y = Jiffy * j + Jiffy + Threads * a
          BY DEF Cap
        <5> HIDE DEF j, a, y
        <5>4. Jiffy * j \in Int /\ Threads * a \in Int
          BY <5>2, Products
        <5> QED
          BY <5>1, <5>3, <5>4
      <4> HIDE DEF y
      <4>4. 0 < y
        BY <2>0, <3>1, <4>3
      <4> QED
        BY <4>4 DEF y
    <3>3. former' \in Nat /\ \A i \in 1..Len(history) : ~(i > former')
      BY <2>0, <3>1
    <3>4. ~(former' = 0 \/ former' + MEM_ORDER <= Len(history))
      <4>1. Len(history) \in Nat /\ history # <<>> => Len(history) > 0
        BY <2>0
      <4>2. history # <<>>
        BY <2>7 DEF Replaced, UsageInv
      <4> QED
        BY <2>0, <3>1, <4>1, <4>2
    <3> QED
      BY <3>1, <3>2, <3>3, <3>4 DEF UsageInv, UsageInRange, UsedSince, ReadBefore
  <2> QED
    BY <2>1, <2>2, <2>3, <2>4, <2>5, <2>7 DEF Next
<1> QED
  BY <1>1, <1>2, TypeInvariance, BufferInvariance, PTL DEF Spec

\* While nobody sets the clock, for every number of processors and every jiffy:
\* no estimate counts more than the processors can have given the process in the
\* window and one jiffy, though other processes take its pid (cpulimit.c:298-322).
THEOREM UsageBounded ==
    ASSUME ClockSteps \subseteq {0}
    PROVE  Spec => []UsageInRange
<1>1. UsageInv => UsageInRange
  BY DEF UsageInv
<1> QED
  BY <1>1, UsageInvariance, PTL

-----------------------------------------------------------------------------
(***************************************************************************)
(* A process that uses all it is given.  Its screenshots hold whole        *)
(* jiffies; x is what it had used, to the last unit, when each was taken.  *)
(***************************************************************************)
\* The working quantum of a screenshot is what was used since the one before.
Reads(x, h) ==
    /\ \A i \in 1..Len(h) : Jiffy * h[i].jiffies <= x[i] /\ x[i] < Jiffy * h[i].jiffies + Jiffy
    /\ \A i \in 1..(Len(h) - 1) : h[i + 1].cputime = x[i + 1] - x[i]

\* The process has used all that w units gave it since the last screenshot.
Measured(h, w) ==
    h # <<>> => \E x \in [1..Len(h) -> Int] : Reads(x, h) /\ x[Len(h)] = cpu - w

ShareBounds(e, t) ==
    /\ e.first => t = Share
    /\ t = Period \/ Period * percent * e.dtwork < 100 * (e.dtwork + Jiffy) * (t + 1)
    /\ 100 * (e.dtwork - Jiffy) * t <= Period * percent * e.dtwork

GreedyInv ==
    greedy /\ percent > 0 =>
        /\ percent = 100 => ~stopped
        /\ pc = "work" => ~stopped /\ Measured(history, 0)
        /\ pc = "rest" => stopped
        /\ pc \in {"rest", "sample"} => Measured(history, workingtime)
        /\ pc \in {"work", "rest"} => ShareBounds(estimate, twork)

LEMMA ShareInPeriod ==
    ASSUME percent \in Percents
    PROVE  Share \in 0..Period /\ AtMostPeriod(Share) = Share
<1> USE UsageAssumption
<1>1. percent \in 0..100 /\ Period \in Nat
  OBVIOUS
<1> DEFINE x == Period * percent
           y == Period * (100 - percent)
<1>2. x \in Nat /\ y \in Nat
  BY <1>1, Products
<1>3. x + y = 100 * Period
  BY <1>1
<1> HIDE DEF x, y
<1>4. x \div 100 \in 0..Period
  BY <1>1, <1>2, <1>3
<1>5. Share \in 0..Period
  BY <1>4 DEF Share, x
<1> QED
  BY <1>1, <1>5 DEF AtMostPeriod

LEMMA Monotone ==
    ASSUME NEW a \in Int, NEW b \in Int, a <= b, NEW c \in Nat
    PROVE  a * c \in Int /\ b * c \in Int /\ a * c <= b * c
<1>1. (b - a) * c \in Nat /\ a * c \in Int /\ b * c \in Int
  BY Products
<1>2. (b - a) * c = b * c - a * c
  OBVIOUS
<1> QED
  BY <1>1, <1>2

\* The slice that follows from an estimate of full use, a jiffy more or less.
LEMMA FullUse ==
    ASSUME percent \in Percents, twork \in 0..Period, NEW e \in EstType, ~e.first,
           e.dtwork - Jiffy < e.used * Jiffy, e.used * Jiffy < e.dtwork + Jiffy,
           0 <= e.dtwork, e.dtwork <= e.dt
    PROVE  ShareBounds(e, WorkSlice(e))
<1> USE UsageAssumption
<1> DEFINE d == e.dtwork
           t == WorkSlice(e)
           v == e.used * Jiffy
           P == Period * percent
           A == P * d
<1>1. d \in Nat /\ e.used \in Int /\ e.dt \in Int /\ d <= e.dt
  BY DEF EstType
<1>2. P \in Nat /\ A \in Nat /\ v \in Int
  BY <1>1, Products
<1>3. t \in 0..Period
  BY <1>1, WorkSliceType
<1>4. d - Jiffy < v /\ v < d + Jiffy
  OBVIOUS
<1>g. SUFFICES /\ t = Period \/ A < 100 * (d + Jiffy) * (t + 1)
               /\ 100 * (d - Jiffy) * t <= A
  BY DEF ShareBounds
<1>5. ASSUME d - Jiffy <= 0 PROVE 100 * (d - Jiffy) * t <= A
  <2> HIDE DEF d, t, v, P, A
  <2>1. (100 * (d - Jiffy)) * t <= 0 * t
    BY <1>1, <1>3, <1>5, Monotone
  <2> QED
    BY <1>1, <1>2, <1>3, <2>1, Products
<1>6. CASE d = 0
  <2>1. A = 0
    BY <1>2, <1>6
  <2>2. 100 * (d + Jiffy) * (t + 1) > 0
    <3> HIDE DEF d, t
    <3>1. 100 * (d + Jiffy) \in Nat /\ 100 * (d + Jiffy) > 0 /\ t + 1 \in Nat /\ t + 1 > 0
      BY <1>1, <1>3
    <3> QED
      BY <3>1, Products
  <2> HIDE DEF d, t, v, A
  <2> QED
    BY <1>1, <1>5, <1>6, <2>1, <2>2
<1>7. CASE d # 0 /\ e.used = 0
  <2>1. ~IsNaN(e) /\ ~IsPositive(e) /\ ~IsNegative(e)
    BY <1>1, <1>7 DEF IsNaN, IsPositive, IsNegative
  <2>2. t = Period
    BY <1>7, <2>1 DEF WorkSlice
  <2>3. v = 0
    BY <1>7
  <2> HIDE DEF d, t, v, A
  <2>4. d - Jiffy <= 0
    BY <1>1, <1>4, <2>3
  <2> QED
    BY <1>5, <2>2, <2>4
<1>8. CASE d # 0 /\ e.used # 0
  <2>1. e.used > 0
    <3> SUFFICES ASSUME e.used <= -1 PROVE FALSE
      BY <1>1, <1>8
    <3>1. v <= (-1) * Jiffy
      BY <1>1, Monotone
    <3> HIDE DEF v, d
    <3> QED
      BY <1>1, <1>2, <1>4, <1>8, <3>1
  <2>2. ~IsNaN(e) /\ IsPositive(e) /\ ~IsNegative(e) /\ e.dt # 0
    BY <1>1, <1>8, <2>1 DEF IsNaN, IsPositive, IsNegative
  <2>3. t = AtMostPeriod(Quotient(e))
    BY <1>8, <2>2 DEF WorkSlice
  <2> DEFINE m == 100 * v
             q == A \div m
  <2>4. v \in Nat /\ v > 0
    BY <1>1, <2>1, Products
  <2>5. 100 * e.used * Jiffy = m
    BY <1>1
  <2>6. Quotient(e) = Trunc(A, m)
    BY <2>5 DEF Quotient
  <2> HIDE DEF d, t, v, A, P
  <2>7. m \in Nat /\ m > 0 /\ A \in Nat
    BY <1>2, <2>4
  <2> HIDE DEF m
  <2>8. Quotient(e) = q
    BY <2>6, <2>7 DEF Trunc
  <2>9. q \in Nat /\ q * m <= A /\ A < q * m + m
    BY <2>7
  <2> HIDE DEF q
  <2>10. t = IF q < Period THEN q ELSE Period
    BY <2>3, <2>8 DEF AtMostPeriod
  <2>11. t <= q /\ t \in Nat
    BY <1>3, <2>9, <2>10
  <2>12. ASSUME t # Period PROVE A < 100 * (d + Jiffy) * (t + 1)
    <3>1. t = q
      BY <2>10, <2>12
    <3>2. m <= 100 * (d + Jiffy)
      BY <1>1, <1>4, <2>4 DEF m
    <3> DEFINE M == 100 * (d + Jiffy)
    <3>3. M \in Int /\ m <= M
      BY <1>1, <3>2
    <3> HIDE DEF M
    <3>4. m * (q + 1) <= M * (q + 1) /\ m * (q + 1) \in Int /\ M * (q + 1) \in Int
      BY <2>7, <2>9, <3>3, Monotone
    <3>5. m * (q + 1) = q * m + m
      BY <2>7, <2>9
    <3>6. q * m \in Int
      BY <2>7, <2>9, Products
    <3>7. A < M * (q + 1)
      BY <2>7, <2>9, <3>4, <3>5, <3>6
    <3> QED
      BY <3>1, <3>7 DEF M
  <2>13. 100 * (d - Jiffy) * t <= A
    <3> DEFINE K == 100 * (d - Jiffy)
    <3>1. K \in Int /\ K <= m
      BY <1>1, <1>4, <2>4 DEF m
    <3> HIDE DEF K
    <3>2. K * t <= m * t /\ K * t \in Int /\ m * t \in Int
      BY <2>7, <2>11, <3>1, Monotone
    <3>3. t * m <= q * m /\ t * m \in Int /\ q * m \in Int
      BY <2>7, <2>9, <2>11, Monotone
    <3>4. t * m = m * t
      BY <2>7, <2>11
    <3>5. K * t <= A
      BY <2>7, <2>9, <3>2, <3>3, <3>4
    <3> QED
      BY <3>5 DEF K
  <2> QED
    BY <2>12, <2>13
<1> QED
  BY <1>6, <1>7, <1>8

\* Numbers that are read less than u too low differ by their readings, to within u.
LEMMA Apart ==
    ASSUME NEW p \in Int, NEW q \in Int, NEW r \in Int, NEW s \in Int, NEW u \in Int,
           r <= p, p < r + u, s <= q, q < s + u
    PROVE  (p - q) - u < r - s /\ r - s < (p - q) + u
OBVIOUS

\* In a window of such screenshots usage is 1, but for a jiffy.
LEMMA WindowFull ==
    ASSUME NEW g \in Seq(Shot), NEW x \in [1..Len(g) -> Int], Reads(x, g), Len(g) >= 2
    PROVE  /\ ~WindowOf(g).first
           /\ WindowOf(g).dtwork - Jiffy < WindowOf(g).used * Jiffy
           /\ WindowOf(g).used * Jiffy < WindowOf(g).dtwork + Jiffy
<1> USE UsageAssumption
<1> DEFINE n == Len(g)
           w == IF n < MEM_ORDER THEN n ELSE MEM_ORDER
           o == n - w + 1
           a == [i \in 1..(n - o) |-> g[o + i].cputime]
           b == [i \in 0..(n - o) |-> x[o + i]]
<1>1. n \in Nat /\ n >= 2 /\ o \in 1..n /\ n - o \in Nat /\ o + (n - o) = n /\ o + 0 = o
  OBVIOUS
<1>2. /\ WindowOf(g).dtwork = Total(a) /\ ~WindowOf(g).first
      /\ WindowOf(g).used = g[n].jiffies - g[o].jiffies
  <2>1. ~(n < 2)
    OBVIOUS
  <2>2. WindowOf(g).dtwork = Total(a) /\ WindowOf(g).used = g[n].jiffies - g[o].jiffies
    BY <2>1 DEF WindowOf
  <2>3. ~WindowOf(g).first
    BY <2>1 DEF WindowOf
  <2> QED
    BY <2>2, <2>3
<1> HIDE DEF w, o
<1>3. \A i \in 0..(n - o) : o + i \in 1..n
  BY <1>1
<1> HIDE DEF n
<1>4. \A i \in 1..n : g[i] \in Shot
  BY DEF n
<1>5. a \in Seq(Int) /\ Len(a) = n - o
  <2>1. \A i \in 1..(n - o) : g[o + i].cputime \in Int
    BY <1>1, <1>3, <1>4 DEF Shot
  <2> QED
    BY <1>1, <2>1
<1>6. b \in [0..Len(a) -> Int]
  <2>1. \A i \in 0..(n - o) : x[o + i] \in Int
    BY <1>3 DEF n
  <2> QED
    BY <1>5, <2>1
<1>7. ASSUME NEW i \in 1..Len(a)
      PROVE  a[i] = b[i] - b[i - 1]
  <2>1. i \in 1..(n - o) /\ i \in 0..(n - o) /\ i - 1 \in 0..(n - o)
    BY <1>1, <1>5
  <2>2. a[i] = g[o + i].cputime /\ b[i] = x[o + i] /\ b[i - 1] = x[o + (i - 1)]
    BY <2>1
  <2>3. o + (i - 1) \in 1..(n - 1) /\ (o + (i - 1)) + 1 = o + i
    BY <1>1, <2>1
  <2>4. g[o + i].cputime = x[o + i] - x[o + (i - 1)]
    BY <2>3 DEF Reads, n
  <2> QED
    BY <2>2, <2>4
<1>8. Total(a) = b[Len(a)] - b[0]
  <2> HIDE DEF a, b
  <2> QED
    BY <1>5, <1>6, <1>7, TotalTelescopes
<1>9. b[Len(a)] = x[n] /\ b[0] = x[o]
  <2>1. n - o \in 0..(n - o) /\ 0 \in 0..(n - o)
    BY <1>1
  <2>2. b[n - o] = x[o + (n - o)] /\ b[0] = x[o + 0]
    BY <2>1
  <2> QED
    BY <1>1, <1>5, <2>2
<1> HIDE DEF a, b
<1> DEFINE j == g[n].jiffies
           k == g[o].jiffies
<1>10. /\ x[n] \in Int /\ x[o] \in Int /\ j \in Int /\ k \in Int
       /\ Jiffy * j <= x[n] /\ x[n] < Jiffy * j + Jiffy
       /\ Jiffy * k <= x[o] /\ x[o] < Jiffy * k + Jiffy
  <2>1. n \in 1..n /\ g[n] \in Shot /\ g[o] \in Shot
    BY <1>1, <1>4
  <2> QED
    BY <1>1, <2>1 DEF Reads, Shot, n
<1>11. WindowOf(g).dtwork = x[n] - x[o] /\ WindowOf(g).used = j - k
  BY <1>2, <1>8, <1>9
<1> HIDE DEF j, k
<1> DEFINE y == Jiffy * j
           z == Jiffy * k
<1>12. (j - k) * Jiffy = y - z /\ y \in Int /\ z \in Int
  BY <1>10, Products
<1>13. /\ y <= x[n] /\ x[n] < y + Jiffy
       /\ z <= x[o] /\ x[o] < z + Jiffy
  BY <1>10
<1> HIDE DEF y, z
<1>14. (x[n] - x[o]) - Jiffy < y - z /\ y - z < (x[n] - x[o]) + Jiffy
  <2>1. x[n] \in Int /\ x[o] \in Int
    BY <1>10
  <2>2. y \in Int /\ z \in Int
    BY <1>12
  <2>3. Jiffy \in Int
    BY UsageAssumption
  <2> QED
    BY <1>13, <2>1, <2>2, <2>3, Apart
<1> QED
  BY <1>2, <1>11, <1>12, <1>14

LEMMA GreedyInvariance ==
    ASSUME ClockSteps \subseteq {0}
    PROVE  Spec => []GreedyInv
<1> USE UsageAssumption
<1>1. Init => GreedyInv
  BY DEF Init, GreedyInv, Measured
<1>2. TypeInv /\ TypeInv' /\ BufferInv' /\ TimeInv' /\ SliceInv /\ GreedyInv /\ [Next]_vars
        => GreedyInv'
  <2> SUFFICES ASSUME TypeInv, TypeInv', BufferInv', TimeInv', SliceInv, GreedyInv, [Next]_vars,
                      greedy', percent' > 0
               PROVE  GreedyInv'
    BY DEF GreedyInv
  <2>0. /\ clock \in Int /\ cpu \in Int /\ workingtime \in Int /\ history \in Seq(Shot)
        /\ twork \in 0..Period /\ percent \in Percents /\ percent \in 0..100
        /\ stopped \in BOOLEAN
    BY DEF TypeInv, TypeOK, SliceInv
  <2>g. greedy' = greedy /\ percent' = percent /\ Share' = Share
    <3>1. UNCHANGED <<greedy, percent>>
      BY DEF Next, vars, Found, Sample, SampleFails, KillFails, Work, Rest, Replaced
    <3> QED
      BY <3>1 DEF Share
  <2>i. /\ percent = 100 => ~stopped
        /\ pc = "work" => ~stopped /\ Measured(history, 0)
        /\ pc = "rest" => stopped
        /\ pc \in {"rest", "sample"} => Measured(history, workingtime)
        /\ pc \in {"work", "rest"} => ShareBounds(estimate, twork)
    BY <2>g DEF GreedyInv
  <2>b. UNCHANGED <<estimate, twork>> => (ShareBounds(estimate, twork) => ShareBounds(estimate, twork)')
    BY <2>g DEF ShareBounds
  <2>t. \A y \in Int, d \in Delays : SleepTime(y, d) \in Nat
    BY DEF SleepTime
  <2>1. CASE UNCHANGED vars
    BY <2>1, <2>g, <2>i, <2>b DEF vars, GreedyInv, Measured, Reads
  <2>2. ASSUME NEW c \in {0, Jiffy}, Found(c) PROVE GreedyInv'
    BY <2>2 DEF Found, GreedyInv, Measured
  <2>3. CASE Sample
    <3> DEFINE s == Screenshot
               g == Append(history, s)
               n == Len(history)
               e == estimate'
    <3>1. s \in Shot /\ s.cputime = workingtime /\ Jiffy * s.jiffies <= cpu /\ cpu < Jiffy * s.jiffies + Jiffy
      <4> DEFINE q == cpu \div Jiffy
      <4>1. q \in Int /\ Jiffy * q <= cpu /\ cpu < Jiffy * q + Jiffy
        BY <2>0, Rounds
      <4>2. s = [when |-> clock, jiffies |-> q, cputime |-> workingtime]
        BY DEF Screenshot, Jiffies
      <4> HIDE DEF q, s
      <4> QED
        BY <2>0, <4>1, <4>2 DEF Shot
    <3>2. /\ history' = g /\ pc' = "work" /\ pc = "sample" /\ cpu' = cpu
          /\ twork' = WorkSlice(e) /\ stopped' = (stopped /\ percent \notin 1..99)
      BY <2>3 DEF Sample
    <3>3. e = WindowOf(g) /\ 0 <= e.dtwork /\ e.dtwork <= e.dt
      BY <3>2 DEF BufferInv, TimeInv
    <3>4. /\ n \in Nat /\ Len(g) = n + 1 /\ g[n + 1] = s /\ g \in Seq(Shot)
          /\ \A i \in 1..n : g[i] = history[i]
      <4> HIDE DEF s
      <4> QED
        BY <2>0, <3>1
    <3>e. e \in EstType
      BY DEF TypeInv, TypeOK, EstType
    <3> HIDE DEF s, g, e
    <3>5. PICK z \in [1..(n + 1) -> Int] : Reads(z, g) /\ z[n + 1] = cpu
      <4>1. CASE n = 0
        <5> DEFINE z == [i \in 1..(n + 1) |-> cpu]
        <5>1. z \in [1..(n + 1) -> Int] /\ z[n + 1] = cpu /\ \A i \in 1..(n + 1) : i = n + 1
          BY <2>0, <4>1
        <5>2. Reads(z, g)
          BY <3>1, <3>4, <4>1, <5>1 DEF Reads
        <5> QED
          BY <5>1, <5>2
      <4>2. CASE n # 0
        <5>1. history # <<>>
          BY <4>2
        <5>2. PICK x \in [1..n -> Int] : Reads(x, history) /\ x[n] = cpu - workingtime
          BY <2>i, <3>2, <5>1 DEF Measured
        <5> DEFINE z == [i \in 1..(n + 1) |-> IF i = n + 1 THEN cpu ELSE x[i]]
        <5> HIDE DEF n
        <5>3. /\ z \in [1..(n + 1) -> Int] /\ z[n + 1] = cpu
              /\ \A i \in 1..n : z[i] = x[i]
          BY <2>0, <3>4, <5>2
        <5> HIDE DEF z
        <5>4. ASSUME NEW i \in 1..(n + 1)
              PROVE  Jiffy * g[i].jiffies <= z[i] /\ z[i] < Jiffy * g[i].jiffies + Jiffy
          <6>1. CASE i = n + 1
            BY <3>1, <3>4, <5>3, <6>1
          <6>2. CASE i # n + 1
            <7>1. i \in 1..n
              BY <3>4, <6>2
            <7> QED
              BY <3>4, <5>2, <5>3, <7>1 DEF Reads, n
          <6> QED
            BY <6>1, <6>2
        <5>5. ASSUME NEW i \in 1..n PROVE g[i + 1].cputime = z[i + 1] - z[i]
          <6>1. CASE i = n
            <7>1. g[i + 1] = s /\ z[i + 1] = cpu /\ z[i] = cpu - workingtime
              BY <3>4, <5>2, <5>3, <6>1
            <7> QED
              BY <2>0, <3>1, <7>1
          <6>2. CASE i # n
            <7>1. i \in 1..(n - 1) /\ i + 1 \in 1..n
              BY <3>4, <6>2
            <7>2. g[i + 1] = history[i + 1] /\ z[i + 1] = x[i + 1] /\ z[i] = x[i]
              BY <3>4, <5>3, <7>1
            <7> QED
              BY <5>2, <7>1, <7>2 DEF Reads, n
          <6> QED
            BY <6>1, <6>2
        <5>6. Reads(z, g)
          BY <3>4, <5>4, <5>5 DEF Reads
        <5> QED
          BY <5>3, <5>6
      <4> QED
        BY <4>1, <4>2
    <3>6. ShareBounds(e, WorkSlice(e))
      <4>1. CASE n = 0
        <5>1. e.first /\ e.dtwork = 0
          BY <3>3, <3>4, <4>1 DEF WindowOf, NoEstimate
        <5>2. WorkSlice(e) = Share /\ Share \in 0..Period
          BY <2>0, <5>1, ShareInPeriod DEF WorkSlice
        <5> DEFINE t == WorkSlice(e)
        <5>3. t \in Nat /\ t = Share
          BY <5>2
        <5> HIDE DEF t
        <5>4. Period * percent * 0 = 0
          BY <2>0, Products
        <5>5. 100 * (0 + Jiffy) * (t + 1) > 0
          <6>1. 100 * (0 + Jiffy) \in Nat /\ 100 * (0 + Jiffy) > 0 /\ t + 1 \in Nat /\ t + 1 > 0
            BY <5>3
          <6> QED
            BY <6>1, Products
        <5>6. 100 * (0 - Jiffy) * t <= 0
          <6>1. (100 * (0 - Jiffy)) * t <= 0 * t
            BY <5>3, Monotone
          <6> QED
            BY <5>3, <6>1
        <5>7. ShareBounds(e, t)
          BY <5>1, <5>3, <5>4, <5>5, <5>6 DEF ShareBounds
        <5> QED
          BY <5>7 DEF t
      <4>2. CASE n # 0
        <5>1. Len(g) >= 2 /\ Len(g) = n + 1
          BY <3>4, <4>2
        <5>2. /\ ~e.first
              /\ e.dtwork - Jiffy < e.used * Jiffy
              /\ e.used * Jiffy < e.dtwork + Jiffy
          BY <3>3, <3>4, <3>5, <5>1, WindowFull
        <5> QED
          BY <2>0, <3>3, <3>e, <5>2, FullUse
      <4> QED
        BY <4>1, <4>2
    <3>7. ~stopped'
      <4>1. percent \in 1..99 \/ percent = 100
        BY <2>0, <2>g
      <4> QED
        BY <2>i, <3>2, <4>1
    <3>8. Measured(history, 0)'
      BY <2>0, <3>2, <3>4, <3>5 DEF Measured
    <3>9. ShareBounds(estimate, twork)'
      BY <2>g, <3>2, <3>6 DEF ShareBounds, e
    <3> QED
      BY <3>2, <3>7, <3>8, <3>9 DEF GreedyInv
  <2>4. CASE SampleFails \/ KillFails
    <3>1. /\ pc' = "search" /\ stopped' = stopped
          /\ greedy' = greedy /\ percent' = percent
      BY <2>4 DEF SampleFails, KillFails
    <3> QED
      BY <2>g, <2>i, <3>1 DEF GreedyInv
  <2>5. ASSUME NEW d \in Delays, NEW st \in ClockSteps, Work(d, st) PROVE GreedyInv'
    <3> DEFINE t == SleepTime(twork, d)
    <3>1. t \in Nat /\ st = 0
      <4>1. twork \in Int
        BY <2>0
      <4>2. SleepTime(twork, d) \in Nat
        BY <4>1, <2>t
      <4> QED
        BY <4>2
    <3>2. /\ clock' = clock + t + st /\ workingtime' = clock' - clock
          /\ history' = history /\ twork' = twork /\ estimate' = estimate /\ pc = "work"
          /\ stopped' = (percent < 100) /\ pc' = IF percent < 100 THEN "rest" ELSE "sample"
      BY <2>5 DEF Work, TimeDiff
    <3>3. cpu' = cpu + t
      BY <2>5, <2>g, <2>i DEF Work, Uses
    <3> HIDE DEF t
    <3>4. workingtime' = t /\ cpu' - workingtime' = cpu - 0
      BY <2>0, <3>1, <3>2, <3>3
    <3>5. Measured(history, workingtime)'
      <4> SUFFICES ASSUME history # <<>>
                   PROVE  \E x \in [1..Len(history) -> Int] :
                            Reads(x, history) /\ x[Len(history)] = cpu' - workingtime'
        BY <3>2 DEF Measured, Reads
      <4> QED
        BY <2>i, <3>2, <3>4 DEF Measured
    <3>6. pc' # "work" /\ ShareBounds(estimate, twork)'
      BY <2>b, <2>i, <3>2
    <3>8. (percent' = 100 => ~stopped') /\ (pc' = "rest" => stopped')
      <4>1. percent < 100 <=> percent # 100
        BY <2>0
      <4>2. stopped' <=> percent < 100
        BY <3>2, Zenon
      <4>3. pc' = "rest" => percent < 100
        BY <3>2
      <4> QED
        BY <2>g, <4>1, <4>2, <4>3
    <3> QED
      BY <3>5, <3>6, <3>8 DEF GreedyInv
  <2>6. ASSUME NEW d \in Delays, NEW st \in ClockSteps, Rest(d, st) PROVE GreedyInv'
    <3>1. /\ workingtime' = workingtime /\ pc = "rest" /\ pc' = "sample"
          /\ history' = history /\ stopped' = stopped
      BY <2>6 DEF Rest
    <3>2. cpu' = cpu
      <4>1. \E u \in {0} : cpu' = cpu + u
        BY <2>6, <2>i DEF Rest, Uses
      <4> QED
        BY <2>0, <4>1
    <3>3. Measured(history, workingtime)'
      BY <2>i, <3>1, <3>2 DEF Measured, Reads
    <3> QED
      BY <2>g, <2>i, <3>1, <3>3 DEF GreedyInv
  <2>7. CASE Replaced
    BY <2>7, <2>g DEF Replaced
  <2> QED
    BY <2>1, <2>2, <2>3, <2>4, <2>5, <2>6, <2>7 DEF Next
<1> QED
  BY <1>1, <1>2, TypeInvariance, BufferInvariance, TimeInvariance, SliceInvariance, PTL DEF Spec

\* While nobody sets the clock: for every period, limit, jiffy and size of the
\* buffer, and however late its sleeps end, main gives a process that uses all it
\* is given its share of each period, up to the jiffy that two readings of
\* /proc/<pid>/stat can be off by in the window (cpulimit.c:298-322, 476-500).
THEOREM GreedyServed ==
    ASSUME ClockSteps \subseteq {0}
    PROVE  Spec => []GreedyGetsItsShare
<1>1. GreedyInv => GreedyGetsItsShare
  BY DEF GreedyInv, GreedyGetsItsShare, ShareBounds
<1> QED
  BY <1>1, GreedyInvariance, PTL
=============================================================================
