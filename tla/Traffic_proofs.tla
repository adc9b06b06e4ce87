---------------------------- MODULE Traffic_proofs ----------------------------
(***************************************************************************)
(* What the functions of Metrics promise for every input, shares and rates *)
(* that Report.Validate accepts and a chart that fits; and that the total  *)
(* of a page is what was moved, or not more, for any number of interfaces  *)
(* and samples, any width of the counters and any window.                  *)
(***************************************************************************)
EXTENDS Traffic, SequenceTheorems, WellFoundedInduction, TLAPS

(* CPUPercent is a share between 0 and 1, that is 0 to 100 percent, and    *)
(* never a division by zero, whatever the kernel's counters do (CPUPercent *)
(* of metrics.go): the collector does not reject its own report for it.    *)
THEOREM BusyShareIsAShare ==
    ASSUME NEW before \in CPUStats, NEW after \in CPUStats
    PROVE  /\ CPUPercent(before, after) \in Fraction
           /\ CPUPercent(before, after).part <= CPUPercent(before, after).whole
<1> DEFINE ticks == Total(after) - Total(before)
           idle == IdleTicks(after) - IdleTicks(before)
<1>1. CASE WentBack(before, after) \/ ticks = 0 \/ idle > ticks
  BY <1>1 DEF CPUPercent, Zero, Fraction
<1>2. CASE ~(WentBack(before, after) \/ ticks = 0 \/ idle > ticks)
  <2>1. ticks \in Nat \ {0} /\ idle \in Nat /\ idle <= ticks
    BY <1>2 DEF CPUStats, WentBack, Total, IdleTicks
  <2>2. CPUPercent(before, after) = [part |-> ticks - idle, whole |-> ticks]
    BY <1>2 DEF CPUPercent
  <2> QED
    BY <2>1, <2>2 DEF Fraction
<1> QED
  BY <1>1, <1>2

(* Counters that went back and intervals that are zero or negative give    *)
(* the rate 0: a rate is never negative or infinite (CounterRate).         *)
THEOREM RateIsFinite ==
    ASSUME NEW before \in Nat, NEW after \in Nat, NEW elapsed \in Int
    PROVE  CounterRate(before, after, elapsed) \in Fraction
BY DEF CounterRate, Zero, Fraction

-----------------------------------------------------------------------------
(* Division of naturals, by its remainder. *)
LEMMA Division ==
    ASSUME NEW n \in Nat, NEW d \in Nat \ {0}
    PROVE  /\ n \div d \in Nat
           /\ (n \div d) * d <= n
           /\ n < (n \div d) * d + d
OBVIOUS

(* A multiple that is not larger has a factor that is not larger. *)
LEMMA Cancel ==
    ASSUME NEW a \in Nat, NEW b \in Nat, NEW d \in Nat \ {0}, a * d <= b * d
    PROVE  a <= b
<1>1. SUFFICES ASSUME a >= b + 1 PROVE FALSE
  OBVIOUS
<1>2. PICK k \in Nat : a = b + 1 + k
  <2>1. a - b - 1 \in Nat /\ a = b + 1 + (a - b - 1)
    BY <1>1
  <2> QED BY <2>1
<1>3. a * d = b * d + d + k * d
  BY <1>2
<1>4. k * d >= 0 /\ k * d \in Int /\ b * d \in Int
  OBVIOUS
<1> QED
  BY <1>3, <1>4

(* The stride leaves at least one and at most MaximumPoints samples, and   *)
(* if it leaves so many, the newest is one of them.                        *)
LEMMA StrideFits ==
    ASSUME NEW n \in Nat \ {0}
    PROVE  /\ Stride(n) \in 1 .. n
           /\ n \div Stride(n) \in 1 .. MaximumPoints
           /\ (n \div Stride(n)) * Stride(n) \in 1 .. n
           /\ n \div Stride(n) = MaximumPoints => (n \div Stride(n)) * Stride(n) = n
<1> DEFINE m == MaximumPoints
           d == Stride(n)
           q == n \div d
<1>1. m \in Nat \ {0}
  BY MetricsAssumption
<1>2. d \in Nat /\ d * m <= n + m - 1 /\ n + m - 1 < d * m + m
  <2>1. n + m - 1 \in Nat
    BY <1>1
  <2> QED
    BY <2>1, <1>1, Division DEF Stride
<1> HIDE DEF d, m
<1>3. d * m >= n /\ d * m \in Int
  BY <1>1, <1>2
<1>4. d >= 1
  <2>1. SUFFICES ASSUME d = 0 PROVE FALSE
    BY <1>2
  <2>2. d * m = 0
    BY <2>1, <1>1
  <2> QED
    BY <2>2, <1>3
<1>5. d <= n
  <2>1. SUFFICES ASSUME d >= n + 1 PROVE FALSE
    BY <1>2
  <2>2. PICK k \in Nat : d = n + 1 + k
    <3>1. d - n - 1 \in Nat /\ d = n + 1 + (d - n - 1)
      BY <2>1, <1>2
    <3> QED BY <3>1
  <2>3. d * m = n * m + m + k * m
    BY <2>2, <1>1
  <2>4. n * m >= n /\ k * m >= 0
    BY <1>1
  <2> QED
    BY <2>3, <2>4, <1>1, <1>2
<1>6. q \in Nat /\ q * d <= n /\ n < q * d + d
  BY <1>2, <1>4, Division
<1> HIDE DEF q
<1>7. q >= 1
  <2>1. SUFFICES ASSUME q = 0 PROVE FALSE
    BY <1>6
  <2> QED
    BY <2>1, <1>6, <1>5, <1>2
<1>8. q * d <= m * d
  BY <1>6, <1>3, <1>2, <1>1
<1>9. q <= m
  BY <1>8, <1>6, <1>1, <1>2, <1>4, Cancel
<1>10. q * d >= 1 /\ q * d \in Nat
  BY <1>7, <1>6, <1>4, <1>2
<1>11. ASSUME q = m PROVE q * d = n
  BY <1>11, <1>3, <1>6, <1>2, <1>1
<1> QED
  BY <1>1, <1>2, <1>4, <1>5, <1>6, <1>7, <1>9, <1>10, <1>11 DEF d, q, m

(* The chart of a node with samples is never empty, so that its last point *)
(* may be read, has at most MaximumPoints points, all of them samples, and *)
(* ends with the newest (trendJSON of web.go).                             *)
THEOREM ChartOfAnyLength ==
    ASSUME NEW S, NEW s \in Seq(S), s # << >>
    PROVE  /\ Points(s) \in Seq(S)
           /\ Len(Points(s)) \in 1 .. MaximumPoints
           /\ Points(s)[Len(Points(s))].at = s[Len(s)].at
<1> DEFINE n == Len(s)
           d == Stride(n)
           q == n \div d
           p == Picked(s)
<1>1. n \in Nat \ {0}
  OBVIOUS
<1>2. /\ d \in 1 .. n /\ q \in 1 .. MaximumPoints /\ q * d \in 1 .. n
      /\ q = MaximumPoints => q * d = n
  BY <1>1, StrideFits
<1>3. ASSUME NEW k \in 1 .. q PROVE k * d \in 1 .. n
  <2>1. k * d <= q * d /\ k * d >= 1 /\ k * d \in Int
    BY <1>2, <1>1, MetricsAssumption
  <2> QED
    BY <2>1, <1>2
<1>4. p \in Seq(S) /\ Len(p) = q /\ p[q] = s[q * d]
  <2>1. p = [k \in 1 .. q |-> s[k * d]]
    BY DEF Picked
  <2>2. q \in Nat /\ q \in 1 .. q
    BY <1>2, MetricsAssumption
  <2>3. p \in [1 .. q -> S]
    BY <2>1, <1>3
  <2> QED
    BY <2>1, <2>2, <2>3
<1> HIDE DEF p, q, d
<1>5. CASE p[q].at = s[n].at
  <2>1. Points(s) = p
    BY <1>4, <1>5 DEF Points, p
  <2> QED
    BY <2>1, <1>2, <1>4, <1>5
<1>6. CASE p[q].at # s[n].at
  <2>1. Points(s) = Append(p, s[n])
    BY <1>4, <1>6 DEF Points, p
  <2>2. q # MaximumPoints
    BY <1>2, <1>4, <1>6
  <2>3. q + 1 \in 1 .. MaximumPoints
    BY <2>2, <1>2, MetricsAssumption
  <2>4. s[n] \in S
    BY <1>1
  <2>5. Points(s) \in Seq(S) /\ Len(Points(s)) = q + 1 /\ Points(s)[q + 1] = s[n]
    BY <2>1, <2>4, <1>4
  <2> QED
    BY <2>3, <2>5
<1> QED
  BY <1>5, <1>6

-----------------------------------------------------------------------------
(* A set of naturals that is not empty has a smallest member, and Min is it. *)
LEMMA Smallest ==
    ASSUME NEW S \in SUBSET Nat, S # {}
    PROVE  Min(S) \in S /\ \A x \in S : Min(S) <= x
<1>1. PICK m \in S : \A x \in S : ~ (<<x, m>> \in OpToRel(<, Nat))
  BY NatLessThanWellFounded, WFMin
<1>2. \A x \in S : m <= x
  <2> TAKE x \in S
  <2>1. ~ (<<x, m>> \in {ss \in Nat \X Nat : ss[1] < ss[2]})
    BY <1>1 DEF OpToRel
  <2> QED
    BY <2>1
<1> QED
  BY <1>2 DEF Min

(* A running total of amounts. *)
RunningTotal(sums, f, n) ==
    /\ sums \in [0 .. n -> Int]
    /\ sums[0] = 0
    /\ \A k \in 1 .. n : sums[k] = sums[k - 1] + f[k]

(* Every sequence of amounts has one.                                      *)
LEMMA RunningTotalExists ==
    ASSUME NEW f \in Seq(Int), NEW n \in 0 .. Len(f)
    PROVE  \E t : RunningTotal(t, f, n)
<1> DEFINE bad == {m \in 0 .. Len(f) : ~ \E t : RunningTotal(t, f, m)}
<1> SUFFICES ASSUME bad # {} PROVE FALSE
  OBVIOUS
<1>0. Len(f) \in Nat
  OBVIOUS
<1>1. PICK m \in bad : \A x \in bad : m <= x
  <2>1. bad \in SUBSET Nat
    BY <1>0
  <2> HIDE DEF bad
  <2> QED
    BY <2>1, Smallest
<1>2. m # 0
  <2>1. RunningTotal([k \in 0 .. 0 |-> 0], f, 0)
    BY DEF RunningTotal
  <2> QED
    BY <2>1, <1>1
<1>3. m - 1 \in 0 .. Len(f) /\ m \in 1 .. Len(f)
  BY <1>0, <1>1, <1>2
<1>4. m - 1 \notin bad
  <2>1. ~ (m <= m - 1)
    BY <1>3
  <2> HIDE DEF bad
  <2> QED
    BY <1>1, <2>1
<1>5. PICK t : RunningTotal(t, f, m - 1)
  BY <1>3, <1>4
<1> DEFINE u == [k \in 0 .. m |-> IF k = m THEN t[m - 1] + f[m] ELSE t[k]]
<1>6. RunningTotal(u, f, m)
  <2>1. f[m] \in Int /\ \A k \in 0 .. m - 1 : t[k] \in Int
    BY <1>3, <1>5 DEF RunningTotal
  <2>2. u \in [0 .. m -> Int]
    BY <2>1, <1>3
  <2>3. u[0] = 0
    BY <1>3, <1>5 DEF RunningTotal
  <2>4. ASSUME NEW k \in 1 .. m PROVE u[k] = u[k - 1] + f[k]
    <3>1. k \in 0 .. m /\ k - 1 \in 0 .. m /\ k - 1 # m /\ u[k - 1] = t[k - 1]
      BY <1>3
    <3>2. CASE k = m
      BY <3>1, <3>2
    <3>3. CASE k # m
      <4>1. k \in 1 .. m - 1 /\ u[k] = t[k]
        BY <1>3, <3>1, <3>3
      <4>2. t[k] = t[k - 1] + f[k]
        BY <1>5, <4>1 DEF RunningTotal
      <4> QED
        BY <3>1, <4>1, <4>2
    <3> QED
      BY <3>2, <3>3
  <2> QED
    BY <2>2, <2>3, <2>4 DEF RunningTotal
<1> QED
  BY <1>1, <1>6

(* The loop adds up what it is given: its result is the end of the running *)
(* total.                                                                  *)
LEMMA SumRuns ==
    ASSUME NEW f \in Seq(Int), NEW t, RunningTotal(t, f, Len(f))
    PROVE  Sum(f) = t[Len(f)]
<1> DEFINE n == Len(f)
           loop == CHOOSE upTo : upTo = [k \in 0 .. n |-> IF k = 0 THEN 0 ELSE upTo[k - 1] + f[k]]
<1>1. Sum(f) = loop[n]
  BY DEF Sum
<1>2. t = [k \in 0 .. n |-> IF k = 0 THEN 0 ELSE t[k - 1] + f[k]]
  BY DEF RunningTotal
<1>3. loop = [k \in 0 .. n |-> IF k = 0 THEN 0 ELSE loop[k - 1] + f[k]]
  BY <1>2
<1> HIDE DEF loop
<1> DEFINE bad == {m \in 0 .. n : loop[m] # t[m]}
<1>4. ASSUME bad # {} PROVE FALSE
  <2>0. n \in Nat
    OBVIOUS
  <2>1. PICK m \in bad : \A x \in bad : m <= x
    <3>1. bad \in SUBSET Nat
      BY <2>0
    <3> HIDE DEF bad
    <3> QED
      BY <3>1, <1>4, Smallest
  <2>2. m # 0
    BY <1>3, <2>0, <2>1 DEF RunningTotal
  <2>3. m - 1 \in 0 .. n /\ m \in 1 .. n
    BY <2>0, <2>1, <2>2
  <2>4. loop[m - 1] = t[m - 1]
    BY <2>1, <2>3
  <2>5. loop[m] = loop[m - 1] + f[m]
    BY <1>3, <2>3, <2>2
  <2> QED
    BY <2>1, <2>3, <2>4, <2>5 DEF RunningTotal
<1>5. n \in 0 .. n
  OBVIOUS
<1> QED
  BY <1>1, <1>4, <1>5

(* Changing one amount changes the sum by as much. *)
LEMMA SumOfChanged ==
    ASSUME NEW f \in Seq(Int), NEW i \in 1 .. Len(f), NEW v \in Int
    PROVE  Sum(f) \in Int /\ Sum([f EXCEPT ![i] = v]) = Sum(f) - f[i] + v
<1> DEFINE n == Len(f)
           g == [f EXCEPT ![i] = v]
<1>0. n \in Nat /\ n \in 0 .. n /\ f[i] \in Int /\ i - 1 \in 0 .. n
  OBVIOUS
<1>1. PICK t : RunningTotal(t, f, n)
  BY <1>0, RunningTotalExists
<1>2. g \in Seq(Int) /\ Len(g) = n /\ g[i] = v /\ \A k \in 1 .. n : k # i => g[k] = f[k]
  BY <1>0
<1> DEFINE u == [k \in 0 .. n |-> IF k < i THEN t[k] ELSE t[k] - f[i] + v]
<1>3. RunningTotal(u, g, n)
  <2>1. \A k \in 0 .. n : t[k] \in Int
    BY <1>1 DEF RunningTotal
  <2>2. u \in [0 .. n -> Int]
    BY <1>0, <2>1
  <2>3. u[0] = 0
    BY <1>0, <1>1 DEF RunningTotal
  <2>4. ASSUME NEW k \in 1 .. n PROVE u[k] = u[k - 1] + g[k]
    <3>1. /\ k \in 0 .. n /\ k - 1 \in 0 .. n
          /\ t[k] \in Int /\ t[k - 1] \in Int /\ t[k] = t[k - 1] + f[k]
      BY <1>0, <1>1, <2>1 DEF RunningTotal
    <3>2. CASE k < i
      <4>1. k # i /\ k - 1 < i
        BY <3>2
      <4>2. g[k] = f[k]
        BY <1>2, <4>1
      <4>3. u[k] = t[k] /\ u[k - 1] = t[k - 1]
        BY <3>1, <3>2, <4>1
      <4> QED
        BY <3>1, <4>2, <4>3
    <3>3. CASE k = i
      BY <1>0, <1>2, <3>1, <3>3
    <3>4. CASE k > i
      <4>1. f[k] \in Int /\ k # i /\ k - 1 >= i
        BY <3>4
      <4>2. g[k] = f[k]
        BY <1>2, <4>1
      <4>3. u[k] = t[k] - f[i] + v /\ u[k - 1] = t[k - 1] - f[i] + v
        BY <3>1, <3>4, <4>1
      <4>4. PICK x \in Int, y \in Int, z \in Int, w \in Int :
                x = t[k] /\ y = t[k - 1] /\ z = f[k] /\ w = f[i]
        BY <1>0, <3>1, <4>1
      <4>5. x = y + z
        BY <3>1, <4>4
      <4>6. x - w + v = (y - w + v) + z
        BY <4>5
      <4> QED
        BY <4>2, <4>3, <4>4, <4>6
    <3> QED
      BY <3>2, <3>3, <3>4
  <2> QED
    BY <2>2, <2>3, <2>4 DEF RunningTotal
<1>4. Sum(f) = t[n] /\ t[n] \in Int
  BY <1>0, <1>1, SumRuns DEF RunningTotal
<1>5. Sum(g) = u[n]
  <2> HIDE DEF u, g
  <2>1. RunningTotal(u, g, Len(g))
    BY <1>2, <1>3
  <2> QED
    BY <1>2, <2>1, SumRuns
<1>6. u[n] = t[n] - f[i] + v
  BY <1>0
<1> QED
  BY <1>4, <1>5, <1>6

(* Amounts that are not larger than the steps of some levels do not sum up *)
(* to more than the way between the first and the last level.              *)
LEMMA SumAtMost ==
    ASSUME NEW f \in Seq(Int), NEW level \in [0 .. Len(f) -> Int],
           \A k \in 1 .. Len(f) : f[k] <= level[k] - level[k - 1]
    PROVE  Sum(f) \in Int /\ Sum(f) <= level[Len(f)] - level[0]
<1> DEFINE n == Len(f)
<1>0. n \in Nat /\ n \in 0 .. n /\ 0 \in 0 .. n
  OBVIOUS
<1>1. PICK t : RunningTotal(t, f, n)
  BY <1>0, RunningTotalExists
<1>2. \A k \in 0 .. n : t[k] \in Int /\ level[k] \in Int
  BY <1>1 DEF RunningTotal
<1> DEFINE bad == {m \in 0 .. n : ~ (t[m] <= level[m] - level[0])}
<1>3. ASSUME bad # {} PROVE FALSE
  <2>1. PICK m \in bad : \A x \in bad : m <= x
    <3>1. bad \in SUBSET Nat
      BY <1>0
    <3> HIDE DEF bad
    <3> QED
      BY <3>1, <1>3, Smallest
  <2>2. m # 0
    BY <1>0, <1>1, <1>2, <2>1 DEF RunningTotal
  <2>3. m - 1 \in 0 .. n /\ m \in 1 .. n /\ 0 \in 0 .. n
    BY <1>0, <2>1, <2>2
  <2>4. t[m - 1] <= level[m - 1] - level[0]
    BY <2>1, <2>3
  <2>5. t[m] = t[m - 1] + f[m] /\ f[m] \in Int /\ f[m] <= level[m] - level[m - 1]
    BY <1>1, <2>3 DEF RunningTotal
  <2>6. /\ t[m] \in Int /\ t[m - 1] \in Int
        /\ level[m] \in Int /\ level[m - 1] \in Int /\ level[0] \in Int
    BY <1>2, <2>3
  <2>7. t[m] <= level[m] - level[0]
    <3>1. PICK x \in Int, y \in Int, z \in Int :
              x = level[m] /\ y = level[m - 1] /\ z = level[0]
      BY <2>6
    <3>2. PICK before \in Int, amount \in Int : before = t[m - 1] /\ amount = f[m]
      BY <2>5, <2>6
    <3>3. before <= y - z /\ amount <= x - y
      BY <2>4, <2>5, <3>1, <3>2
    <3>4. before + amount <= x - z
      BY <3>3
    <3> QED
      BY <2>5, <3>1, <3>2, <3>4
  <2> QED
    BY <2>1, <2>7
<1>4. Sum(f) = t[n]
  BY <1>1, SumRuns
<1> QED
  BY <1>0, <1>2, <1>3, <1>4

(* Amounts that are the steps of some levels sum up to the way.            *)
LEMMA SumIs ==
    ASSUME NEW f \in Seq(Int), NEW level \in [0 .. Len(f) -> Int],
           \A k \in 1 .. Len(f) : f[k] = level[k] - level[k - 1]
    PROVE  Sum(f) = level[Len(f)] - level[0]
<1> DEFINE n == Len(f)
           t == [k \in 0 .. n |-> level[k] - level[0]]
<1>0. n \in Nat /\ n \in 0 .. n /\ 0 \in 0 .. n
  OBVIOUS
<1>1. \A k \in 0 .. n : level[k] \in Int
  OBVIOUS
<1>2. RunningTotal(t, f, n)
  <2>1. t \in [0 .. n -> Int] /\ t[0] = 0
    BY <1>0, <1>1
  <2>2. ASSUME NEW k \in 1 .. n PROVE t[k] = t[k - 1] + f[k]
    <3>1. k \in 0 .. n /\ k - 1 \in 0 .. n
      BY <1>0
    <3>2. t[k] = level[k] - level[0] /\ t[k - 1] = level[k - 1] - level[0]
      BY <3>1
    <3>3. f[k] = level[k] - level[k - 1]
      OBVIOUS
    <3>4. level[k] \in Int /\ level[k - 1] \in Int /\ level[0] \in Int
      BY <1>0, <1>1, <3>1
    <3> QED
      BY <3>2, <3>3, <3>4
  <2> QED
    BY <2>1, <2>2 DEF RunningTotal
<1>3. Sum(f) = t[n]
  <2> HIDE DEF t
  <2> QED
    BY <1>2, SumRuns
<1> QED
  BY <1>0, <1>3

(* Amounts that are not negative have a sum that is not.                   *)
LEMMA SumIsNat ==
    ASSUME NEW f \in Seq(Nat)
    PROVE  Sum(f) \in Nat
<1> DEFINE n == Len(f)
<1>0. n \in Nat /\ n \in 0 .. n /\ f \in Seq(Int) /\ \A k \in 1 .. n : f[k] \in Nat
  OBVIOUS
<1>1. PICK t : RunningTotal(t, f, n)
  BY <1>0, RunningTotalExists
<1> DEFINE bad == {m \in 0 .. n : t[m] \notin Nat}
<1>3. ASSUME bad # {} PROVE FALSE
  <2>1. PICK m \in bad : \A x \in bad : m <= x
    <3>1. bad \in SUBSET Nat
      BY <1>0
    <3> HIDE DEF bad
    <3> QED
      BY <3>1, <1>3, Smallest
  <2>2. m # 0
    BY <1>0, <1>1, <2>1 DEF RunningTotal
  <2>3. m - 1 \in 0 .. n /\ m \in 1 .. n
    BY <1>0, <2>1, <2>2
  <2>4. t[m - 1] \in Nat
    BY <2>1, <2>3
  <2>5. t[m] = t[m - 1] + f[m] /\ f[m] \in Nat
    BY <1>0, <1>1, <2>3 DEF RunningTotal
  <2> QED
    BY <2>1, <2>4, <2>5
<1>4. Sum(f) = t[n]
  BY <1>0, <1>1, SumRuns
<1> QED
  BY <1>0, <1>3, <1>4

-----------------------------------------------------------------------------
Sample == [at : Nat, moved : Nat, rate : Fraction]
Previous == [is : {"sample"}, taken : Nat, at : Int, net : Nat]
Report == [is : {"report"}, taken : Nat, moved : Nat, rate : Fraction]

(* The assumptions on the constants, one by one.                           *)
LEMMA ConstantsAre ==
    /\ Interfaces \in Nat \ {0} /\ Width \in Nat \ {0} /\ Unit \in Nat \ {0}
    /\ Window \in Nat /\ MaxTime \in Nat
    /\ \A t \in 1 .. MaxTime : Unit % t = 0
    /\ Skews \subseteq Int
BY TrafficAssumption DEF TrafficAssumption

(* The counters of the interfaces are amounts, so that their sum is one.   *)
LEMMA CountersAreAmounts ==
    ASSUME NEW c \in [1 .. Interfaces -> 0 .. Width - 1]
    PROVE  c \in Seq(Nat) /\ c \in Seq(Int) /\ Len(c) = Interfaces /\ Sum(c) \in Nat
<1>1. 0 .. Width - 1 \subseteq Nat
  BY ConstantsAre
<1>2. c \in Seq(Nat) /\ Len(c) = Interfaces
  BY <1>1, ConstantsAre
<1> QED
  BY <1>2, SumIsNat

(* What TypeOK says of the records, and of the elements of the sequence.   *)
LEMMA RecordsTyped ==
    ASSUME TypeOK
    PROVE  /\ previous # None => previous \in Previous
           /\ report # None => report \in Report
           /\ ReceiveBytes \in Nat
           /\ Len(samples) \in Nat
           /\ \A k \in 1 .. Len(samples) :
                /\ samples[k] \in Sample /\ samples[k].at \in 0 .. now
                /\ samples[k].moved \in Nat /\ samples[k].rate \in Fraction
<1>1. counters \in [1 .. Interfaces -> 0 .. Width - 1]
  BY DEF TypeOK
<1>2. \A k \in 1 .. Len(samples) :
         samples[k] \in [at : 0 .. now, moved : Nat, rate : Fraction]
  <2> DEFINE Rows == [at : 0 .. now, moved : Nat, rate : Fraction]
  <2>1. samples \in Seq(Rows)
    BY DEF TypeOK
  <2> HIDE DEF Rows
  <2>2. \A k \in 1 .. Len(samples) : samples[k] \in Rows
    BY <2>1, ElementOfSeq
  <2> QED
    BY <2>2 DEF Rows
<1>3. now \in Nat
  BY DEF TypeOK
<1> QED
  BY <1>1, <1>2, <1>3, CountersAreAmounts DEF TypeOK, Previous, Report, Sample, ReceiveBytes

(* A sequence of elements of a set is one of elements of a larger set.     *)
LEMMA SeqOfMore ==
    ASSUME NEW A, NEW B, A \subseteq B, NEW s \in Seq(A)
    PROVE  s \in Seq(B)
OBVIOUS

(* The rate of a counter that went back is a rate.                         *)
LEMMA ZeroIsFraction == Zero \in Fraction
BY DEF Zero, Fraction

(* Every step keeps the types.                                             *)
LEMMA TypeStep == TypeOK /\ [Next]_vars => TypeOK'
<1> SUFFICES ASSUME TypeOK, Next PROVE TypeOK'
  BY DEF TypeOK, vars
<1>0. /\ now \in Nat /\ skew \in Int /\ moved \in Nat
      /\ counters \in [1 .. Interfaces -> 0 .. Width - 1]
      /\ samples \in Seq([at : 0 .. now, moved : Nat, rate : Fraction])
      /\ total \in {"exact", "low", "wrong"}
  BY DEF TypeOK
<1>1. ASSUME NEW i \in 1 .. Interfaces, Move(i) PROVE TypeOK'
  <2>1. (counters[i] + 1) % Width \in 0 .. Width - 1
    BY <1>0, ConstantsAre
  <2>2. counters' \in [1 .. Interfaces -> 0 .. Width - 1] /\ moved' \in Nat
    BY <1>0, <1>1, <2>1 DEF Move
  <2>3. total' \in {"exact", "low", "wrong"}
    BY <1>0, <1>1 DEF Move, Spoil
  <2> QED
    BY <1>1, <2>2, <2>3 DEF Move, TypeOK
<1>2. ASSUME NEW i \in 1 .. Interfaces, ResetCounter(i) PROVE TypeOK'
  <2>1. counters' \in [1 .. Interfaces -> 0 .. Width - 1]
    BY <1>0, <1>2, ConstantsAre DEF ResetCounter
  <2> QED
    BY <1>2, <2>1 DEF ResetCounter, TypeOK, Spoil
<1>3. CASE AdjustClock
  BY <1>3, ConstantsAre DEF AdjustClock, TypeOK, Spoil
<1>4. CASE SampleAt
  <2>1. previous # None => previous \in Previous
    BY RecordsTyped
  <2>2. ReceiveBytes \in Nat
    BY RecordsTyped
  <2> DEFINE rate == IF previous = None THEN Zero
                     ELSE CounterRate(previous.net, ReceiveBytes, now + skew - previous.at)
  <2>3. rate \in Fraction
    BY <1>0, <2>1, <2>2, ZeroIsFraction, RateIsFinite DEF Previous
  <2>4. report' = [is |-> "report", taken |-> now, moved |-> moved, rate |-> rate]
    BY <1>4 DEF SampleAt
  <2> HIDE DEF rate
  <2>5. report' \in Report
    BY <1>0, <2>3, <2>4 DEF Report
  <2>6. previous' \in Previous
    BY <1>0, <1>4, <2>2 DEF SampleAt, Previous
  <2>7. UNCHANGED <<now, skew, counters, moved, samples, total>>
    BY <1>4 DEF SampleAt
  <2> QED
    BY <1>0, <2>5, <2>6, <2>7 DEF TypeOK, Report, Previous
<1>5. ASSUME NEW answered \in BOOLEAN, Store(answered) PROVE TypeOK'
  <2>1. report \in Report
    BY <1>5, RecordsTyped DEF Store
  <2>2. [at |-> now, rate |-> report.rate, moved |-> report.moved]
           \in [at : 0 .. now, moved : Nat, rate : Fraction]
    BY <1>0, <2>1 DEF Report
  <2>3. samples' \in Seq([at : 0 .. now, moved : Nat, rate : Fraction]) /\ now' = now
    BY <1>0, <1>5, <2>2 DEF Store
  <2>4. report' \in {None} \cup Report
    BY <1>5, <2>1 DEF Store
  <2>5. total' \in {"exact", "low", "wrong"}
    BY <1>0, <1>5 DEF Store, Spoil
  <2>6. UNCHANGED <<now, skew, counters, moved, previous>>
    BY <1>5 DEF Store
  <2> QED
    BY <2>3, <2>4, <2>5, <2>6 DEF TypeOK, Report
<1>6. CASE GiveUp
  BY <1>6 DEF GiveUp, TypeOK, Spoil
<1>7. CASE RestartAgent
  BY <1>7 DEF RestartAgent, TypeOK, Spoil
<1>8. CASE Tick
  <2>1. now' \in Nat /\ 0 .. now \subseteq 0 .. now'
    BY <1>0, <1>8 DEF Tick
  <2> DEFINE Rows(t) == [at : 0 .. t, moved : Nat, rate : Fraction]
  <2>2. Rows(now) \subseteq Rows(now') /\ samples \in Seq(Rows(now))
    BY <1>0, <2>1
  <2> HIDE DEF Rows
  <2>3. samples \in Seq(Rows(now'))
    BY <2>2, SeqOfMore
  <2> QED
    BY <1>8, <2>1, <2>3 DEF Tick, TypeOK, Rows
<1> QED
  BY <1>1, <1>2, <1>3, <1>4, <1>5, <1>6, <1>7, <1>8 DEF Next

(* Every reachable state is well typed: no rate is infinite or negative,   *)
(* whatever the counters and the agent's clock do (CounterRate).           *)
THEOREM TypeCorrect == Spec => []TypeOK
<1>1. Init => TypeOK
  <2> SUFFICES ASSUME Init PROVE TypeOK
    OBVIOUS
  <2>1. counters \in [1 .. Interfaces -> 0 .. Width - 1]
    BY ConstantsAre DEF Init
  <2> QED
    BY <2>1 DEF Init, TypeOK
<1> QED
  BY <1>1, TypeStep, PTL DEF Spec

-----------------------------------------------------------------------------
LastSample == samples[Len(samples)]

(* Samples are stored in the order of their receipt, of bytes moved so far. *)
InOrder ==
    /\ \A k \in 1 .. Len(samples) : samples[k].moved <= moved
    /\ \A k \in 2 .. Len(samples) : samples[k - 1].at <= samples[k].at
    /\ report # None => report.moved <= moved

(* An amount of Unit-ths measures bytes: never too high, and exactly as    *)
(* long as the total may be exact.                                         *)
Measures(amount, bytes) ==
    /\ amount <= Unit * bytes
    /\ total = "exact" => amount = Unit * bytes

Amount(rate, gap) == (Unit \div rate.whole) * rate.part * gap

SamplesFit ==
    \A k \in 2 .. Len(samples) :
        Measures(Bytes(samples, k), samples[k].moved - samples[k - 1].moved)

(* The report on its way measures what was moved since the last sample.    *)
ReportFits ==
    report # None =>
        /\ previous # None /\ previous.taken = report.taken
        /\ samples # << >> =>
             /\ LastSample.at <= report.taken
             /\ Measures(Amount(report.rate, report.taken - LastSample.at),
                         report.moved - LastSample.moved)

(* The collector's previous counters are those of the last report or, once *)
(* it is stored, of the last sample; the clocks are apart as they were.    *)
Reported == IF report = None THEN LastSample.moved ELSE report.moved
PreviousFits ==
    previous # None =>
        /\ previous.taken <= now /\ previous.at = previous.taken + skew
        /\ report = None => samples # << >> /\ LastSample.at = previous.taken
        /\ ReceiveBytes - previous.net <= moved - Reported
        /\ total = "exact" => ReceiveBytes - previous.net = moved - Reported

(* As long as the total is exact the collector has not started again.      *)
NothingLost == total = "exact" /\ previous = None => samples = << >> /\ report = None

Fits == total # "wrong" => SamplesFit /\ ReportFits /\ PreviousFits /\ NothingLost

(* The inductive invariant: each sample, and the report on its way,        *)
(* measures the bytes moved since the sample before it.                    *)
TrafficInvariant == TypeOK /\ InOrder /\ now <= MaxTime /\ Fits

(* A rate over the very gap it was measured in gives back the bytes.       *)
LEMMA RateTimesGap ==
    ASSUME NEW part \in Nat, NEW gap \in 1 .. MaxTime
    PROVE  Amount([part |-> part, whole |-> gap], gap) = Unit * part
<1>1. gap \in Nat \ {0} /\ Unit \in Nat /\ Unit % gap = 0
  BY ConstantsAre
<1>2. Unit \div gap \in Nat /\ Unit = gap * (Unit \div gap)
  BY <1>1
<1> DEFINE q == Unit \div gap
<1>3. Amount([part |-> part, whole |-> gap], gap) = q * part * gap
  BY DEF Amount
<1> HIDE DEF q
<1>4. q * part * gap = (gap * q) * part
  BY <1>1, <1>2 DEF q
<1> QED
  BY <1>2, <1>3, <1>4 DEF q

(* A sample stored again at once adds nothing, and a rate of zero neither. *)
LEMMA NothingInNoTime ==
    ASSUME NEW rate \in Fraction
    PROVE  Amount(rate, 0) = 0 /\ \A gap \in Nat : Amount(Zero, gap) = 0
<1>1. Unit \div rate.whole \in Nat /\ rate.part \in Nat
  BY ConstantsAre DEF Fraction
<1>2. Unit \div 1 \in Nat
  BY ConstantsAre
<1> QED
  BY <1>1, <1>2 DEF Amount, Zero

(* InOrder is kept by every step.                                          *)
LEMMA OrderStep == TypeOK /\ InOrder /\ [Next]_vars => InOrder'
<1> SUFFICES ASSUME TypeOK, InOrder, [Next]_vars PROVE InOrder'
  OBVIOUS
<1>0. /\ now \in Nat /\ moved \in Nat /\ Len(samples) \in Nat
      /\ \A k \in 1 .. Len(samples) :
           samples[k] \in Sample /\ samples[k].at <= now /\ samples[k].at \in Nat
  BY RecordsTyped DEF TypeOK, Sample
<1>1. CASE UNCHANGED <<samples, moved, report>>
  BY <1>1 DEF InOrder
<1>2. CASE UNCHANGED <<samples, moved>> /\ report' = None
  BY <1>2 DEF InOrder
<1>3. ASSUME NEW i \in 1 .. Interfaces, Move(i) PROVE InOrder'
  <2>1. UNCHANGED <<samples, report>> /\ moved' = moved + 1
    BY <1>3 DEF Move
  <2>2. \A k \in 1 .. Len(samples) : samples[k].moved \in Nat
    BY <1>0 DEF Sample
  <2>3. report # None => report.moved \in Nat
    BY RecordsTyped DEF Report
  <2> QED
    BY <1>0, <2>1, <2>2, <2>3 DEF InOrder
<1>4. CASE SampleAt
  BY <1>0, <1>4 DEF SampleAt, InOrder
<1>5. ASSUME NEW answered \in BOOLEAN, Store(answered) PROVE InOrder'
  <2> DEFINE new == [at |-> now, rate |-> report.rate, moved |-> report.moved]
             n == Len(samples)
  <2>1. /\ samples' = Append(samples, new) /\ UNCHANGED moved
        /\ report # None /\ report' \in {report, None}
    BY <1>5 DEF Store
  <2>2. samples \in Seq(Sample)
    <3>1. \A k \in 1 .. Len(samples) : samples[k] \in Sample
      BY <1>0
    <3>2. samples = [k \in 1 .. Len(samples) |-> samples[k]]
      BY DEF TypeOK
    <3> QED
      BY <1>0, <3>1, <3>2
  <2>3. /\ Len(samples') = n + 1 /\ samples'[n + 1] = new
        /\ \A k \in 1 .. n : samples'[k] = samples[k]
    <3> HIDE DEF new
    <3> QED
      BY <2>1, <2>2
  <2>4. new.moved <= moved /\ new.at = now
    BY <2>1 DEF InOrder
  <2>5. \A k \in 1 .. n + 1 : samples'[k].moved <= moved
    <3> HIDE DEF new
    <3> QED
      BY <1>0, <2>3, <2>4 DEF InOrder
  <2>6. ASSUME NEW k \in 2 .. n + 1 PROVE samples'[k - 1].at <= samples'[k].at
    <3>1. CASE k = n + 1
      <4>1. k - 1 = n /\ n \in 1 .. n
        BY <1>0, <3>1
      <4>2. samples'[k - 1].at = samples[n].at /\ samples'[k].at = now
        BY <2>3, <2>4, <3>1, <4>1
      <4> QED
        BY <1>0, <4>1, <4>2
    <3>2. CASE k # n + 1
      <4>1. k \in 2 .. n /\ k \in 1 .. n /\ k - 1 \in 1 .. n
        BY <1>0, <3>2
      <4> QED
        BY <2>3, <4>1 DEF InOrder
    <3> QED
      BY <3>1, <3>2
  <2> HIDE DEF new
  <2> QED
    BY <2>1, <2>3, <2>5, <2>6 DEF InOrder
<1> QED
  BY <1>1, <1>2, <1>3, <1>4, <1>5
     DEF Next, vars, ResetCounter, AdjustClock, GiveUp, RestartAgent, Tick

(* A step that only moves the counters: they grow by at most the bytes it  *)
(* moves, and by exactly so many unless the total is spoilt.               *)
LEMMA CountersStep ==
    ASSUME TypeOK, Fits, UNCHANGED <<skew, previous, report, samples>>,
           now' \in Nat, now' >= now, moved' \in Nat, ReceiveBytes' \in Nat,
           total' # "wrong" => total # "wrong", total' = "exact" => total = "exact",
           total' # "wrong" => ReceiveBytes' - ReceiveBytes <= moved' - moved,
           total' = "exact" => ReceiveBytes' - ReceiveBytes = moved' - moved
    PROVE  Fits'
<1> SUFFICES ASSUME total' # "wrong"
             PROVE  SamplesFit' /\ ReportFits' /\ PreviousFits' /\ NothingLost'
  BY DEF Fits
<1>1. SamplesFit /\ ReportFits /\ PreviousFits /\ NothingLost
  BY DEF Fits
<1>2. SamplesFit'
  BY <1>1 DEF SamplesFit, Measures, Bytes
<1>3. ReportFits'
  BY <1>1 DEF ReportFits, Measures, Amount, LastSample
<1>4. PreviousFits'
  <2>1. Reported' = Reported
    BY DEF Reported, LastSample
  <2>2. previous # None => Reported \in Nat
    <3>1. CASE report # None
      BY <3>1, RecordsTyped DEF Reported, Report
    <3>2. CASE report = None /\ previous # None
      <4>1. samples # << >>
        BY <1>1, <3>2 DEF PreviousFits
      <4>2. Len(samples) \in 1 .. Len(samples)
        BY <4>1 DEF TypeOK
      <4> QED
        BY <3>2, <4>2, RecordsTyped DEF Reported, LastSample, Sample
    <3> QED
      BY <3>1, <3>2
  <2>3. previous # None => previous \in Previous
    BY RecordsTyped
  <2>4. now \in Nat /\ moved \in Nat /\ ReceiveBytes \in Nat
    BY RecordsTyped DEF TypeOK
  <2>5. SUFFICES ASSUME previous # None
                 PROVE  /\ previous.taken <= now' /\ previous.at = previous.taken + skew
                        /\ report = None => samples # << >> /\ LastSample.at = previous.taken
                        /\ ReceiveBytes' - previous.net <= moved' - Reported
                        /\ total' = "exact" => ReceiveBytes' - previous.net = moved' - Reported
    BY <2>1 DEF PreviousFits, LastSample
  <2>6. /\ previous.taken <= now /\ previous.at = previous.taken + skew
        /\ report = None => samples # << >> /\ LastSample.at = previous.taken
        /\ ReceiveBytes - previous.net <= moved - Reported
        /\ total = "exact" => ReceiveBytes - previous.net = moved - Reported
    BY <1>1, <2>5 DEF PreviousFits
  <2>7. previous.net \in Nat /\ previous.taken \in Nat /\ Reported \in Nat
    BY <2>2, <2>3, <2>5 DEF Previous
  <2>8. previous.taken <= now'
    BY <2>4, <2>6, <2>7
  <2>11. /\ ReceiveBytes' \in Nat /\ moved' \in Nat
         /\ ReceiveBytes' - ReceiveBytes <= moved' - moved
         /\ total' = "exact" => total = "exact" /\ ReceiveBytes' - ReceiveBytes = moved' - moved
    OBVIOUS
  <2>12. PICK net \in Nat, base \in Nat : net = previous.net /\ base = Reported
    BY <2>7
  <2>13. PICK r \in Nat, m \in Nat : r = ReceiveBytes /\ m = moved
    BY <2>4
  <2>14. r - net <= m - base /\ (total = "exact" => r - net = m - base)
    BY <2>6, <2>12, <2>13
  <2>15. /\ ReceiveBytes' - r <= moved' - m
         /\ total' = "exact" => total = "exact" /\ ReceiveBytes' - r = moved' - m
    BY <2>11, <2>13
  <2>9. ReceiveBytes' - net <= moved' - base
    <3>1. PICK rr \in Nat, mm \in Nat : rr = ReceiveBytes' /\ mm = moved'
      BY <2>11
    <3>2. rr - r <= mm - m /\ r - net <= m - base
      BY <2>14, <2>15, <3>1
    <3>3. rr - net <= mm - base
      BY <3>2
    <3> QED
      BY <3>1, <3>3
  <2>10. total' = "exact" => ReceiveBytes' - net = moved' - base
    BY <2>11, <2>14, <2>15
  <2> QED
    BY <2>6, <2>8, <2>9, <2>10, <2>12
<1>5. NothingLost'
  BY <1>1 DEF NothingLost
<1> QED
  BY <1>2, <1>3, <1>4, <1>5

(* A report is taken.                                                      *)
LEMMA SampleKeepsFits == TypeOK /\ InOrder /\ Fits /\ SampleAt /\ now <= MaxTime => Fits'
<1> SUFFICES ASSUME TypeOK, InOrder, Fits, SampleAt, now <= MaxTime, total # "wrong"
             PROVE  SamplesFit' /\ ReportFits' /\ PreviousFits' /\ NothingLost'
  BY DEF Fits, SampleAt
<1>1. SamplesFit /\ ReportFits /\ PreviousFits /\ NothingLost
  BY DEF Fits
<1>2. /\ UNCHANGED <<now, skew, counters, moved, samples, total>>
      /\ report = None
      /\ previous # None => now > previous.taken
      /\ report' = [is |-> "report", taken |-> now, moved |-> moved,
                    rate |-> IF previous = None THEN Zero
                             ELSE CounterRate(previous.net, ReceiveBytes,
                                              now + skew - previous.at)]
      /\ previous' = [is |-> "sample", taken |-> now, at |-> now + skew, net |-> ReceiveBytes]
  BY DEF SampleAt
<1>3. /\ report' # None /\ previous' # None
      /\ report'.taken = now /\ report'.moved = moved
      /\ previous'.taken = now /\ previous'.at = now + skew /\ previous'.net = ReceiveBytes
  BY <1>2 DEF None
<1>4. /\ now \in Nat /\ skew \in Int /\ moved \in Nat /\ ReceiveBytes \in Nat
      /\ ReceiveBytes' = ReceiveBytes
  BY <1>2, RecordsTyped DEF TypeOK, ReceiveBytes
<1>5. SamplesFit'
  BY <1>1, <1>2 DEF SamplesFit, Measures, Bytes
<1>6. ReportFits'
  <2> SUFFICES ASSUME samples # << >>
               PROVE  /\ LastSample.at <= now
                      /\ Measures(Amount(report'.rate, now - LastSample.at),
                                  moved - LastSample.moved)
    BY <1>2, <1>3 DEF ReportFits, LastSample, Measures
  <2>1. Len(samples) \in 1 .. Len(samples)
    BY DEF TypeOK
  <2>2. /\ LastSample.at \in Nat /\ LastSample.at <= now
        /\ LastSample.moved \in Nat /\ LastSample.moved <= moved
    BY <2>1, <1>4, RecordsTyped DEF LastSample, InOrder
  <2> DEFINE gap == now - LastSample.at
             bytes == moved - LastSample.moved
  <2>3. gap \in Nat /\ bytes \in Nat
    BY <1>4, <2>2
  <2>4. CASE report'.rate = Zero /\ (total = "exact" => bytes = 0)
    <3>1. Amount(report'.rate, gap) = 0
      <4> HIDE DEF gap
      <4> QED
        BY <2>3, <2>4, NothingInNoTime, ZeroIsFraction
    <3>2. Unit * bytes \in Nat /\ (bytes = 0 => Unit * bytes = 0)
      BY <2>3, ConstantsAre
    <3> QED
      BY <2>2, <2>4, <3>1, <3>2 DEF Measures
  <2>5. CASE previous = None
    <3>1. total # "exact"
      BY <1>1, <2>5 DEF NothingLost
    <3> QED
      BY <1>2, <2>4, <2>5, <3>1
  <2>6. CASE previous # None
    <3>1. /\ previous.at = previous.taken + skew /\ LastSample.at = previous.taken
          /\ ReceiveBytes - previous.net <= bytes
          /\ total = "exact" => ReceiveBytes - previous.net = bytes
      BY <1>1, <1>2, <2>6 DEF PreviousFits, Reported
    <3>2. previous.net \in Nat /\ previous.taken \in Nat
      BY <2>6, RecordsTyped DEF Previous
    <3>3. now + skew - previous.at = gap /\ gap \in 1 .. MaxTime
      BY <1>2, <1>4, <2>6, <3>1, <3>2, ConstantsAre
    <3>4. report'.rate = CounterRate(previous.net, ReceiveBytes, gap)
      BY <1>2, <2>6, <3>3
    <3>5. CASE ReceiveBytes < previous.net
      <4>1. report'.rate = Zero
        BY <3>4, <3>5 DEF CounterRate
      <4>2. total # "exact"
        BY <1>4, <2>3, <3>1, <3>2, <3>5
      <4> QED
        BY <2>4, <4>1, <4>2
    <3>6. CASE ~ (ReceiveBytes < previous.net)
      <4> DEFINE part == ReceiveBytes - previous.net
      <4>1. part \in Nat /\ part <= bytes
        BY <1>4, <3>1, <3>2, <3>6
      <4>2. report'.rate = [part |-> part, whole |-> gap]
        BY <3>3, <3>4, <3>6 DEF CounterRate
      <4>3. Amount(report'.rate, gap) = Unit * part
        <5> HIDE DEF part, gap
        <5> QED
          BY <3>3, <4>1, <4>2, RateTimesGap
      <4>4. Unit * part <= Unit * bytes
        <5> HIDE DEF part, bytes
        <5> QED
          BY <2>3, <4>1, ConstantsAre
      <4>5. total = "exact" => part = bytes
        BY <3>1
      <4> QED
        BY <2>2, <4>3, <4>4, <4>5 DEF Measures
    <3> QED
      BY <3>5, <3>6
  <2> QED
    BY <2>5, <2>6
<1>7. PreviousFits'
  BY <1>3, <1>2, <1>4 DEF PreviousFits, Reported
<1>8. NothingLost'
  BY <1>3 DEF NothingLost
<1> QED
  BY <1>5, <1>6, <1>7, <1>8

(* A report is stored, for the first time or again.                        *)
LEMMA StoreKeepsFits ==
    ASSUME TypeOK, InOrder, Fits, NEW answered \in BOOLEAN, Store(answered)
    PROVE  Fits'
<1> SUFFICES ASSUME total' # "wrong"
             PROVE  SamplesFit' /\ ReportFits' /\ PreviousFits' /\ NothingLost'
  BY DEF Fits
<1> DEFINE n == Len(samples)
           new == [at |-> now, rate |-> report.rate, moved |-> report.moved]
<1>1. /\ report # None /\ report.taken = now
      /\ samples' = Append(samples, new)
      /\ report' = IF answered THEN None ELSE report
      /\ UNCHANGED <<now, skew, counters, moved, previous, total>>
  BY DEF Store, Spoil
<1>2. SamplesFit /\ ReportFits /\ PreviousFits /\ NothingLost
  BY <1>1 DEF Fits
<1>3. /\ report \in Report /\ n \in Nat /\ now \in Nat
      /\ \A k \in 1 .. n : samples[k] \in Sample
  BY <1>1, RecordsTyped DEF TypeOK
<1>4. /\ Len(samples') = n + 1 /\ samples'[n + 1] = new
      /\ \A k \in 1 .. n : samples'[k] = samples[k]
      /\ samples' # << >>
  <2>1. samples \in Seq(Sample)
    <3>1. samples = [k \in 1 .. n |-> samples[k]]
      BY DEF TypeOK
    <3> QED
      BY <1>3, <3>1
  <2> HIDE DEF new
  <2> QED
    BY <1>1, <2>1
<1>5. /\ new.at = now /\ new.rate = report.rate /\ new.moved = report.moved
      /\ report.rate \in Fraction /\ report.moved \in Nat
  BY <1>3 DEF Report
<1>6. LastSample' = new
  BY <1>3, <1>4 DEF LastSample
<1> HIDE DEF new
<1>7. SamplesFit'
  <2> SUFFICES ASSUME NEW k \in 2 .. n + 1
               PROVE  Measures(Bytes(samples', k), samples'[k].moved - samples'[k - 1].moved)
    BY <1>1, <1>4 DEF SamplesFit, Measures
  <2>1. CASE k = n + 1
    <3>1. k - 1 = n /\ n \in 1 .. n /\ samples # << >>
      BY <1>3, <2>1
    <3>2. samples'[k] = new /\ samples'[k - 1] = LastSample
      BY <1>4, <2>1, <3>1 DEF LastSample
    <3>3. Bytes(samples', k) = Amount(report.rate, report.taken - LastSample.at)
      BY <1>1, <1>5, <3>2 DEF Bytes, Amount
    <3> QED
      BY <1>1, <1>2, <1>5, <3>1, <3>2, <3>3 DEF ReportFits
  <2>2. CASE k # n + 1
    <3>1. k \in 2 .. n /\ k \in 1 .. n /\ k - 1 \in 1 .. n
      BY <1>3, <2>2
    <3>2. samples'[k] = samples[k] /\ samples'[k - 1] = samples[k - 1]
      BY <1>4, <3>1
    <3>3. Bytes(samples', k) = Bytes(samples, k)
      BY <3>2 DEF Bytes
    <3> QED
      BY <1>2, <3>1, <3>2, <3>3 DEF SamplesFit
  <2> QED
    BY <2>1, <2>2
<1>8. ReportFits'
  <2> SUFFICES ASSUME report' # None
               PROVE  /\ previous # None /\ previous.taken = report'.taken
                      /\ LastSample'.at <= report'.taken
                      /\ Measures(Amount(report'.rate, report'.taken - LastSample'.at),
                                  report'.moved - LastSample'.moved)
    BY <1>1 DEF ReportFits, Measures
  <2>1. report' = report
    BY <1>1
  <2>2. report'.taken - LastSample'.at = 0 /\ report'.moved - LastSample'.moved = 0
    BY <1>1, <1>3, <1>5, <1>6, <2>1
  <2>3. Amount(report'.rate, report'.taken - LastSample'.at) = 0
    BY <1>5, <2>1, <2>2, NothingInNoTime
  <2>4. Unit * 0 = 0
    BY ConstantsAre
  <2>5. Measures(Amount(report'.rate, report'.taken - LastSample'.at),
                 report'.moved - LastSample'.moved)
    BY <2>2, <2>3, <2>4 DEF Measures
  <2>6. LastSample'.at <= report'.taken
    BY <1>1, <1>3, <1>5, <1>6, <2>1
  <2> QED
    BY <1>1, <1>2, <2>1, <2>5, <2>6 DEF ReportFits
<1>9. PreviousFits'
  <2>1. Reported' = Reported
    BY <1>1, <1>5, <1>6 DEF Reported
  <2>2. ReceiveBytes' = ReceiveBytes
    BY <1>1 DEF ReceiveBytes
  <2>3. previous # None /\ previous.taken = report.taken
    BY <1>1, <1>2 DEF ReportFits
  <2> QED
    BY <1>1, <1>2, <1>4, <1>5, <1>6, <2>1, <2>2, <2>3 DEF PreviousFits
<1>10. NothingLost'
  BY <1>1, <1>2 DEF NothingLost
<1> QED
  BY <1>7, <1>8, <1>9, <1>10

(* The kernel's counters never grow by more than what is moved.            *)
LEMMA MoveKeepsFits ==
    ASSUME TypeOK, Fits, NEW i \in 1 .. Interfaces, Move(i)
    PROVE  Fits'
<1> DEFINE value == (counters[i] + 1) % Width
<1>0. /\ now \in Nat /\ moved \in Nat
      /\ counters \in [1 .. Interfaces -> 0 .. Width - 1]
  BY DEF TypeOK
<1>1. /\ counters' = [counters EXCEPT ![i] = value]
      /\ moved' = moved + 1 /\ UNCHANGED <<now, skew, previous, report, samples>>
      /\ IF counters'[i] = 0 THEN Spoil("low") ELSE UNCHANGED total
  BY DEF Move
<1>2. /\ counters[i] \in Nat /\ counters[i] + 1 <= Width
      /\ value \in 0 .. Width - 1 /\ counters'[i] = value
      /\ value = IF counters[i] + 1 = Width THEN 0 ELSE counters[i] + 1
  <2>1. counters[i] \in 0 .. Width - 1 /\ Width \in Nat \ {0}
    BY <1>0, ConstantsAre
  <2>2. \A c \in 0 .. Width - 1 :
           /\ (c + 1) % Width \in 0 .. Width - 1
           /\ (c + 1) % Width = IF c + 1 = Width THEN 0 ELSE c + 1
    BY <2>1
  <2> QED
    BY <1>0, <1>1, <2>1, <2>2
<1> HIDE DEF value
<1>3. /\ Sum(counters) \in Int
      /\ Sum([counters EXCEPT ![i] = value]) = Sum(counters) - counters[i] + value
  <2>1. counters \in Seq(Int) /\ Len(counters) = Interfaces /\ value \in Int
    BY <1>0, <1>2, CountersAreAmounts
  <2> QED
    BY <2>1, SumOfChanged
<1>4. ReceiveBytes' = ReceiveBytes - counters[i] + value /\ ReceiveBytes \in Nat
  BY <1>1, <1>3, RecordsTyped DEF ReceiveBytes
<1>5. ReceiveBytes' - ReceiveBytes <= 1 /\ ReceiveBytes' \in Nat
  <2>1. value - counters[i] <= 1
    BY <1>2
  <2>2. counters' \in [1 .. Interfaces -> 0 .. Width - 1]
    BY <1>0, <1>1, <1>2
  <2>3. ReceiveBytes' \in Nat
    BY <2>2, CountersAreAmounts DEF ReceiveBytes
  <2> QED
    BY <1>2, <1>4, <2>1, <2>3
<1>6. /\ total' # "wrong" => total # "wrong"
      /\ total' = "exact" => total = "exact" /\ value # 0
  BY <1>1, <1>2 DEF Spoil
<1>7. total' = "exact" => ReceiveBytes' - ReceiveBytes = 1
  BY <1>2, <1>4, <1>6
<1>8. moved' \in Nat /\ moved' - moved = 1 /\ now' \in Nat /\ now' >= now
  BY <1>0, <1>1
<1> QED
  BY <1>1, <1>5, <1>6, <1>7, <1>8, CountersStep

(* An interface that starts again only takes from their sum.               *)
LEMMA ResetKeepsFits ==
    ASSUME TypeOK, Fits, NEW i \in 1 .. Interfaces, ResetCounter(i)
    PROVE  Fits'
<1>0. /\ now \in Nat /\ moved \in Nat
      /\ counters \in [1 .. Interfaces -> 0 .. Width - 1]
  BY DEF TypeOK
<1>1. /\ counters' = [counters EXCEPT ![i] = 0] /\ Spoil("low")
      /\ UNCHANGED <<now, skew, moved, previous, report, samples>>
  BY DEF ResetCounter
<1>2. Sum([counters EXCEPT ![i] = 0]) = Sum(counters) - counters[i] + 0
  <2>1. counters \in Seq(Int) /\ Len(counters) = Interfaces /\ 0 \in Int
    BY <1>0, CountersAreAmounts
  <2> QED
    BY <2>1, SumOfChanged
<1>3. /\ ReceiveBytes' = ReceiveBytes - counters[i]
      /\ ReceiveBytes \in Nat /\ ReceiveBytes' \in Nat /\ counters[i] \in Nat
  <2>1. 0 \in 0 .. Width - 1 /\ counters[i] \in Nat
    BY <1>0, ConstantsAre
  <2>2. counters' \in [1 .. Interfaces -> 0 .. Width - 1]
    BY <1>0, <1>1, <2>1
  <2>3. ReceiveBytes' \in Nat /\ ReceiveBytes \in Nat
    BY <2>2, CountersAreAmounts, RecordsTyped DEF ReceiveBytes
  <2> QED
    BY <1>1, <1>2, <2>1, <2>3 DEF ReceiveBytes
<1>4. (total' # "wrong" => total # "wrong") /\ total' # "exact"
  BY <1>1 DEF Spoil
<1>5. /\ moved' \in Nat /\ now' \in Nat /\ now' >= now
      /\ ReceiveBytes' - ReceiveBytes <= moved' - moved
  BY <1>0, <1>1, <1>3
<1> QED
  BY <1>1, <1>3, <1>4, <1>5, CountersStep

(* An agent that starts again knows no previous counters.                  *)
LEMMA RestartKeepsFits == TypeOK /\ Fits /\ RestartAgent => Fits'
<1> SUFFICES ASSUME Fits, RestartAgent, total' # "wrong"
             PROVE  SamplesFit' /\ ReportFits' /\ PreviousFits' /\ NothingLost'
  BY DEF Fits
<1>1. /\ UNCHANGED samples /\ report' = None /\ previous' = None
      /\ total # "wrong" /\ total' # "exact"
  BY DEF RestartAgent, Spoil
<1>2. SamplesFit
  BY <1>1 DEF Fits
<1>3. SamplesFit'
  BY <1>1, <1>2 DEF SamplesFit, Measures, Bytes
<1> QED
  BY <1>1, <1>3 DEF ReportFits, PreviousFits, NothingLost

(* Each sample measures the bytes since the one before in every reachable  *)
(* state, as long as nothing went wrong (Report, trafficUsage).            *)
THEOREM TrafficInvariantHolds == Spec => []TrafficInvariant
<1>1. Init => TrafficInvariant
  <2> SUFFICES ASSUME Init PROVE TrafficInvariant
    OBVIOUS
  <2>1. TypeOK /\ now <= MaxTime
    <3>1. counters \in [1 .. Interfaces -> 0 .. Width - 1] /\ MaxTime \in Nat
      BY ConstantsAre DEF Init
    <3> QED
      BY <3>1 DEF Init, TypeOK
  <2>2. InOrder /\ Fits
    BY DEF Init, InOrder, Fits, SamplesFit, ReportFits, PreviousFits, NothingLost
  <2> QED
    BY <2>1, <2>2 DEF TrafficInvariant
<1>2. TrafficInvariant /\ [Next]_vars => TrafficInvariant'
  <2> SUFFICES ASSUME TrafficInvariant, [Next]_vars PROVE TrafficInvariant'
    OBVIOUS
  <2>0. TypeOK /\ InOrder /\ now <= MaxTime /\ Fits
    BY DEF TrafficInvariant
  <2>1. TypeOK' /\ InOrder'
    BY <2>0, TypeStep, OrderStep
  <2>2. now' <= MaxTime
    <3>1. now \in Nat /\ MaxTime \in Nat
      BY <2>0, ConstantsAre DEF TypeOK
    <3>2. CASE Tick
      BY <3>1, <3>2 DEF Tick
    <3>3. CASE ~ Tick
      BY <2>0, <3>3 DEF Next, vars, Move, ResetCounter, AdjustClock, SampleAt, Store,
                        GiveUp, RestartAgent
    <3> QED
      BY <3>2, <3>3
  <2>3. Fits'
    <3>1. CASE UNCHANGED vars \/ Tick
      <4>1. /\ UNCHANGED <<skew, counters, moved, previous, report, samples, total>>
            /\ now' \in Nat /\ now' >= now /\ moved' \in Nat
        BY <2>0, <3>1 DEF vars, Tick, TypeOK
      <4>2. ReceiveBytes' = ReceiveBytes /\ ReceiveBytes \in Nat /\ moved \in Nat
        BY <2>0, <4>1, RecordsTyped DEF ReceiveBytes, TypeOK
      <4>3. ReceiveBytes' - ReceiveBytes = 0 /\ moved' - moved = 0
        BY <4>1, <4>2
      <4> QED
        BY <2>0, <4>1, <4>2, <4>3, CountersStep
    <3>2. ASSUME NEW i \in 1 .. Interfaces, Move(i) PROVE Fits'
      BY <2>0, <3>2, MoveKeepsFits
    <3>3. ASSUME NEW i \in 1 .. Interfaces, ResetCounter(i) PROVE Fits'
      BY <2>0, <3>3, ResetKeepsFits
    <3>4. CASE AdjustClock \/ GiveUp
      BY <3>4 DEF AdjustClock, GiveUp, Spoil, Fits
    <3>5. CASE SampleAt
      BY <2>0, <3>5, SampleKeepsFits
    <3>6. ASSUME NEW answered \in BOOLEAN, Store(answered) PROVE Fits'
      BY <2>0, <3>6, StoreKeepsFits
    <3>7. CASE RestartAgent
      BY <2>0, <3>7, RestartKeepsFits
    <3> QED
      BY <3>1, <3>2, <3>3, <3>4, <3>5, <3>6, <3>7 DEF Next
  <2> QED
    BY <2>1, <2>2, <2>3 DEF TrafficInvariant
<1> QED
  BY <1>1, <1>2, PTL DEF Spec

-----------------------------------------------------------------------------
(* The samples of the last 24 hours are none, or an end of the sequence.   *)
LEMMA SinceIsAnEnd ==
    ASSUME TypeOK
    PROVE  \/ SamplesSince = << >>
           \/ \E m \in 1 .. Len(samples) : SamplesSince = SubSeq(samples, m, Len(samples))
<1> DEFINE recent == {k \in DOMAIN samples : samples[k].at >= now - Window}
<1>1. recent \subseteq 1 .. Len(samples) /\ recent \in SUBSET Nat
  BY DEF TypeOK
<1>2. SamplesSince = IF recent = {} THEN << >> ELSE SubSeq(samples, Min(recent), Len(samples))
  BY DEF SamplesSince
<1> HIDE DEF recent
<1>3. recent # {} => Min(recent) \in recent
  BY <1>1, Smallest
<1> QED
  BY <1>1, <1>2, <1>3

(* Whatever its samples: the chart of a page fits, and ends with the       *)
(* newest (trendJSON).                                                     *)
THEOREM ChartAlwaysFits == Spec => []ChartFits
<1>1. TypeOK => ChartFits
  <2> SUFFICES ASSUME TypeOK PROVE ChartFits
    OBVIOUS
  <2> DEFINE s == SamplesSince
             p == Points(s)
  <2>1. CASE s = << >>
    <3>1. p = << >>
      BY <2>1 DEF Points
    <3> QED
      BY <2>1, <3>1, MetricsAssumption DEF ChartFits
  <2>2. CASE s # << >>
    <3> DEFINE Rows == [at : 0 .. now, moved : Nat, rate : Fraction]
    <3>1. PICK m \in 1 .. Len(samples) : s = SubSeq(samples, m, Len(samples))
      BY <2>2, SinceIsAnEnd
    <3>2. samples \in Seq(Rows)
      BY DEF TypeOK
    <3> HIDE DEF Rows, s
    <3>3. s \in Seq(Rows)
      BY <3>1, <3>2
    <3>4. Len(p) \in 1 .. MaximumPoints /\ p \in Seq(Rows) /\ p[Len(p)].at = s[Len(s)].at
      BY <2>2, <3>3, ChartOfAnyLength
    <3>5. Len(p) <= MaximumPoints /\ p # << >>
      BY <3>4, MetricsAssumption
    <3> QED
      BY <3>4, <3>5 DEF ChartFits, s
  <2> QED
    BY <2>1, <2>2
<1> QED
  BY <1>1, TypeCorrect, PTL

(* What is at most a multiple of Unit has a quotient that is at most the   *)
(* factor, and what is the multiple has the factor as its quotient.        *)
LEMMA Quotient ==
    ASSUME NEW amount \in Nat, NEW bytes \in Int, amount <= Unit * bytes
    PROVE  /\ amount \div Unit <= bytes
           /\ amount = Unit * bytes => amount \div Unit = bytes
<1>1. Unit \in Nat \ {0}
  BY ConstantsAre
<1>2. bytes \in Nat
  <2>1. SUFFICES ASSUME bytes <= -1 PROVE FALSE
    OBVIOUS
  <2>2. Unit * bytes <= Unit * (-1)
    BY <1>1, <2>1
  <2> QED
    BY <1>1, <2>2
<1> DEFINE q == amount \div Unit
<1>3. q \in Nat /\ q * Unit <= amount /\ amount < q * Unit + Unit
  BY <1>1, Division
<1> HIDE DEF q
<1>4. q <= bytes
  <2>1. q * Unit <= bytes * Unit
    BY <1>1, <1>2, <1>3
  <2> QED
    BY <1>1, <1>2, <1>3, <2>1, Cancel
<1>5. ASSUME amount = Unit * bytes PROVE bytes <= q
  <2>1. SUFFICES ASSUME q + 1 <= bytes PROVE FALSE
    BY <1>2, <1>3
  <2>2. (q + 1) * Unit <= bytes * Unit
    BY <1>1, <1>2, <1>3, <2>1
  <2>3. (q + 1) * Unit = q * Unit + Unit
    BY <1>1, <1>3
  <2>4. bytes * Unit = amount
    BY <1>1, <1>2, <1>5
  <2> QED
    BY <1>1, <1>3, <2>2, <2>3, <2>4
<1> QED
  BY <1>2, <1>3, <1>4, <1>5 DEF q

(* The elements of an end of a sequence.                                   *)
LEMMA EndOfSequence ==
    ASSUME NEW S, NEW s \in Seq(S), NEW m \in 1 .. Len(s)
    PROVE  LET r == SubSeq(s, m, Len(s))
           IN  /\ r # << >> /\ Len(r) = Len(s) - m + 1
               /\ \A k \in 1 .. Len(r) : r[k] = s[m + k - 1]
<1> DEFINE r == SubSeq(s, m, Len(s))
<1>1. m \in Int /\ Len(s) \in Int /\ m <= Len(s) /\ \A k \in m .. Len(s) : s[k] \in S
  BY LenProperties, ElementOfSeq
<1>2. /\ r \in Seq(S)
      /\ Len(r) = IF m <= Len(s) THEN Len(s) - m + 1 ELSE 0
      /\ \A k \in 1 .. Len(s) - m + 1 : r[k] = s[m + k - 1]
  BY <1>1, SubSeqProperties
<1> HIDE DEF r
<1>3. Len(r) = Len(s) - m + 1 /\ Len(r) >= 1
  BY <1>1, <1>2
<1>4. r # << >>
  BY <1>3
<1> QED
  BY <1>2, <1>3, <1>4 DEF r

(* An end of the samples, if each measures the bytes since the one before. *)
LEMMA UsageOfAnEnd ==
    ASSUME TypeOK, InOrder, SamplesFit, NEW m \in 1 .. Len(samples)
    PROVE  LET s == SubSeq(samples, m, Len(samples))
               bytes == s[Len(s)].moved - s[1].moved
           IN  /\ s # << >>
               /\ TrafficUsage(s) <= bytes
               /\ total = "exact" => TrafficUsage(s) = bytes
<1> DEFINE s == SubSeq(samples, m, Len(samples))
           n == Len(s)
           bytes == s[n].moved - s[1].moved
           f == [k \in 1 .. n |-> IF k = 1 THEN 0 ELSE Bytes(s, k)]
           level == [k \in 0 .. n |-> IF k = 0 THEN 0 ELSE Unit * (s[k].moved - s[1].moved)]
<1>1. /\ Len(samples) \in Nat /\ Unit \in Nat \ {0}
      /\ \A k \in 1 .. Len(samples) : samples[k] \in Sample
  BY RecordsTyped, ConstantsAre
<1>2. /\ n = Len(samples) - m + 1 /\ n \in Nat \ {0} /\ s # << >>
      /\ \A k \in 1 .. n : s[k] = samples[m + k - 1] /\ m + k - 1 \in 1 .. Len(samples)
  <2>1. samples \in Seq(Sample)
    <3>1. samples = [k \in 1 .. Len(samples) |-> samples[k]]
      BY DEF TypeOK
    <3> QED
      BY <1>1, <3>1
  <2>2. /\ s # << >> /\ n = Len(samples) - m + 1
        /\ \A k \in 1 .. n : s[k] = samples[m + k - 1]
    BY <2>1, EndOfSequence
  <2> HIDE DEF s, n
  <2> QED
    BY <1>1, <2>2
<1> HIDE DEF s, n
<1>3. \A k \in 1 .. n : s[k] \in Sample /\ s[k].moved \in Nat
  BY <1>1, <1>2 DEF Sample
<1>4. ASSUME NEW k \in 2 .. n
      PROVE  /\ Bytes(s, k) \in Nat
             /\ Measures(Bytes(s, k), s[k].moved - s[k - 1].moved)
  <2> DEFINE j == m + k - 1
  <2>1. /\ s[k] = samples[j] /\ s[k - 1] = samples[j - 1]
        /\ j \in 2 .. Len(samples) /\ j \in 1 .. Len(samples) /\ j - 1 \in 1 .. Len(samples)
    <3>1. k \in 1 .. n /\ k - 1 \in 1 .. n /\ m + (k - 1) - 1 = j - 1
      BY <1>2
    <3> QED
      BY <1>1, <1>2, <3>1
  <2> HIDE DEF j
  <2>2. Bytes(s, k) = Bytes(samples, j)
    BY <2>1 DEF Bytes
  <2>3. Measures(Bytes(s, k), s[k].moved - s[k - 1].moved)
    BY <2>1, <2>2 DEF SamplesFit
  <2>4. /\ samples[j].rate.part \in Nat /\ Unit \div samples[j].rate.whole \in Nat
        /\ samples[j].at - samples[j - 1].at \in Nat
    <3>1. samples[j].rate \in Fraction /\ samples[j].at \in Nat /\ samples[j - 1].at \in Nat
      BY <1>1, <2>1 DEF Sample
    <3>2. samples[j - 1].at <= samples[j].at
      BY <2>1 DEF InOrder
    <3> QED
      <4>1. samples[j].rate.part \in Nat /\ samples[j].rate.whole \in Nat \ {0}
        BY <3>1 DEF Fraction
      <4>2. Unit \div samples[j].rate.whole \in Nat
        BY <1>1, <4>1, Division
      <4>3. samples[j].at - samples[j - 1].at \in Nat
        BY <3>1, <3>2
      <4> QED
        BY <4>1, <4>2, <4>3
  <2>5. \A a, b, c \in Nat : a * b * c \in Nat
    OBVIOUS
  <2>6. Bytes(samples, j) \in Nat
    BY <2>4, <2>5 DEF Bytes
  <2> QED
    BY <2>2, <2>3, <2>6
<1>5. f \in Seq(Nat) /\ f \in Seq(Int) /\ Len(f) = n
  BY <1>2, <1>4
<1>6. \A k \in 1 .. n : level[k] = Unit * (s[k].moved - s[1].moved)
  BY <1>2
<1>7. level[0] = 0 /\ level[n] = Unit * bytes /\ bytes \in Int
  BY <1>2, <1>3
<1>8. level \in [0 .. n -> Int]
  <2>1. \A k \in 1 .. n : Unit * (s[k].moved - s[1].moved) \in Int
    BY <1>1, <1>2, <1>3
  <2> QED
    BY <1>2, <2>1
<1>9. ASSUME NEW k \in 1 .. n
      PROVE  /\ f[k] <= level[k] - level[k - 1]
             /\ total = "exact" => f[k] = level[k] - level[k - 1]
  <2>1. CASE k = 1
    <3>1. f[k] = 0 /\ level[k - 1] = 0
      <4>1. f[1] = 0
        BY <1>2
      <4>2. k - 1 = 0
        BY <2>1
      <4> HIDE DEF f, level
      <4> QED
        BY <1>7, <2>1, <4>1, <4>2
    <3>2. level[k] = 0
      BY <1>1, <1>2, <1>3, <1>6, <2>1
    <3> QED
      BY <3>1, <3>2
  <2>2. CASE k # 1
    <3>1. k \in 2 .. n /\ k - 1 \in 1 .. n /\ 1 \in 1 .. n
      BY <1>2, <2>2
    <3>2. f[k] = Bytes(s, k)
      BY <2>2
    <3>3. \A a, b, c \in Nat : Unit * (a - c) - Unit * (b - c) = Unit * (a - b)
      BY <1>1
    <3>4. level[k] - level[k - 1] = Unit * (s[k].moved - s[k - 1].moved)
      <4> HIDE DEF level
      <4>1. PICK a \in Nat, b \in Nat, c \in Nat :
                a = s[k].moved /\ b = s[k - 1].moved /\ c = s[1].moved
        BY <1>3, <3>1
      <4>2. level[k] = Unit * (a - c) /\ level[k - 1] = Unit * (b - c)
        BY <1>6, <3>1, <4>1
      <4>3. Unit * (a - c) - Unit * (b - c) = Unit * (a - b)
        BY <3>3
      <4>4. s[k].moved - s[k - 1].moved = a - b
        BY <4>1
      <4> QED
        BY <4>2, <4>3, <4>4
    <3> QED
      BY <1>4, <3>1, <3>2, <3>4 DEF Measures
  <2> QED
    BY <2>1, <2>2
<1>10. TrafficUsage(s) = Sum(f) \div Unit
  BY DEF TrafficUsage, n
<1> HIDE DEF f, level, bytes
<1>11. Sum(f) \in Nat /\ Sum(f) <= Unit * bytes
  <2>1. Sum(f) <= level[n] - level[0]
    BY <1>5, <1>8, <1>9, SumAtMost
  <2>2. Sum(f) \in Nat /\ Unit * bytes \in Int
    BY <1>1, <1>5, <1>7, SumIsNat
  <2> QED
    BY <1>7, <2>1, <2>2
<1>12. total = "exact" => Sum(f) = Unit * bytes
  <2> SUFFICES ASSUME total = "exact" PROVE Sum(f) = Unit * bytes
    OBVIOUS
  <2>1. Sum(f) = level[n] - level[0]
    BY <1>5, <1>8, <1>9, SumIs
  <2>2. Unit * bytes \in Int
    BY <1>1, <1>7
  <2> QED
    BY <1>7, <2>1, <2>2
<1>13. /\ TrafficUsage(s) <= bytes
       /\ total = "exact" => TrafficUsage(s) = bytes
  BY <1>7, <1>10, <1>11, <1>12, Quotient
<1> QED
  BY <1>2, <1>13 DEF bytes, n, s

(* A page without samples shows no bytes.                                  *)
LEMMA UsageOfNothing == TrafficUsage(<< >>) = 0
<1> DEFINE f == [k \in 1 .. 0 |-> IF k = 1 THEN 0 ELSE Bytes(<< >>, k)]
           level == [k \in 0 .. 0 |-> 0]
<1>1. f \in Seq(Int) /\ Len(f) = 0 /\ level \in [0 .. Len(f) -> Int]
  OBVIOUS
<1>2. Sum(f) = level[0] - level[0]
  <2>1. \A k \in 1 .. Len(f) : f[k] = level[k] - level[k - 1]
    BY <1>1
  <2> HIDE DEF f, level
  <2> QED
    BY <1>1, <2>1, SumIs
<1>3. TrafficUsage(<< >>) = Sum(f) \div Unit
  BY DEF TrafficUsage
<1>4. Sum(f) = 0
  BY <1>2
<1> HIDE DEF f
<1> QED
  BY <1>3, <1>4, ConstantsAre

(* What a page shows, by the invariant. *)
LEMMA ShownMeasures ==
    ASSUME TrafficInvariant, total # "wrong"
    PROVE  Shown <= Moved /\ (total = "exact" => Shown = Moved)
<1>1. TypeOK /\ InOrder /\ SamplesFit
  BY DEF TrafficInvariant, Fits
<1>2. CASE SamplesSince = << >>
  <2>1. Shown = 0 /\ Moved = 0
    BY <1>2, UsageOfNothing DEF Shown, Moved
  <2> QED
    BY <2>1
<1>3. CASE SamplesSince # << >>
  <2>1. PICK m \in 1 .. Len(samples) : SamplesSince = SubSeq(samples, m, Len(samples))
    BY <1>1, <1>3, SinceIsAnEnd
  <2> QED
    BY <1>1, <1>3, <2>1, UsageOfAnEnd DEF Shown, Moved
<1> QED
  BY <1>2, <1>3

(* As long as nothing went wrong, what a page says was moved is what was   *)
(* moved between its first and its last sample (trafficUsage).             *)
THEOREM TotalsAreExact == Spec => []TotalIsExact
<1>1. TrafficInvariant => TotalIsExact
  BY ShownMeasures DEF TotalIsExact
<1> QED
  BY <1>1, TrafficInvariantHolds, PTL

(* Counters that wrap or start again and agents that restart only make     *)
(* that total smaller.                                                     *)
THEOREM TotalsNeverExceed == Spec => []TotalNeverExceeds
<1>1. TrafficInvariant => TotalNeverExceeds
  BY ShownMeasures DEF TotalNeverExceeds
<1> QED
  BY <1>1, TrafficInvariantHolds, PTL
=============================================================================
