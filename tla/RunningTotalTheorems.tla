------------------------ MODULE RunningTotalTheorems ------------------------
(***************************************************************************)
(* What the accumulation loop of RunningTotals computes, for every table   *)
(* length and every content.  Each induction over the rows is carried out  *)
(* with a least counterexample: the set of row numbers where the claim     *)
(* fails has a smallest member (LeastNatural), which cannot exist.          *)
(***************************************************************************)
EXTENDS RunningTotals, WellFoundedInduction, TLAPS

\* a holds the successive values of an accumulator that starts at 0 and adds
\* the rows v[1] .. v[n] in order.
Accumulates(a, v, n) == a[0] = 0 /\ \A i \in 1 .. n : a[i] = a[i - 1] + v[i]

\* A nonempty set of natural numbers has a smallest member.
LEMMA LeastNatural ==
  ASSUME NEW T, T \subseteq Nat, T # {}
  PROVE  \E x \in T : \A y \in T : x <= y
<1>1. PICK x \in T : \A y \in T : ~ (<<y, x>> \in OpToRel(<, Nat))
  BY NatLessThanWellFounded, WFMin DEF OpToRel
<1>2. \A y \in T : ~ (y < x)
  BY <1>1 DEF OpToRel
<1>3. QED
  BY <1>2

\* The loop can be run to its end: some function has its successive values.
LEMMA PartialTotal ==
  ASSUME NEW n \in Nat, NEW v \in [1 .. n -> Int]
  PROVE  \E g \in [0 .. n -> Int] : Accumulates(g, v, n)
<1> DEFINE T == {m \in 0 .. n : ~ \E g \in [0 .. m -> Int] : Accumulates(g, v, m)}
<1>1. ASSUME T # {} PROVE FALSE
  <2> HIDE DEF T
  <2>0. T \subseteq 0 .. n
    BY DEF T
  <2>1. PICK m \in T : \A y \in T : m <= y
    BY <1>1, <2>0, LeastNatural, T \subseteq Nat
  <2>2. m \in 0 .. n
    BY <2>0
  <2>3. ~ \E g \in [0 .. m -> Int] : Accumulates(g, v, m)
    BY DEF T
  <2>4. CASE m = 0
    <3>1. [i \in 0 .. 0 |-> 0] \in [0 .. 0 -> Int]
      OBVIOUS
    <3>2. Accumulates([i \in 0 .. 0 |-> 0], v, 0)
      BY DEF Accumulates
    <3> QED BY <2>3, <2>4, <3>1, <3>2
  <2>5. CASE m # 0
    <3>1. m - 1 \in 0 .. n
      BY <2>2, <2>5
    <3>2. m - 1 \notin T
      BY <2>1, <2>2, ~ (m <= m - 1)
    <3>3. PICK g \in [0 .. m - 1 -> Int] : Accumulates(g, v, m - 1)
      BY <3>1, <3>2 DEF T
    <3> DEFINE h == [i \in 0 .. m |-> IF i = m THEN g[m - 1] + v[m] ELSE g[i]]
    <3>4. h \in [0 .. m -> Int]
      BY <2>2, <2>5
    <3>5. h[0] = 0
      BY <3>3, <2>2, <2>5 DEF Accumulates
    <3>6. ASSUME NEW i \in 1 .. m PROVE h[i] = h[i - 1] + v[i]
      <4>1. CASE i = m
        BY <4>1, <2>2, <2>5
      <4>2. CASE i # m
        <5>1. i \in 1 .. m - 1 /\ h[i] = g[i] /\ h[i - 1] = g[i - 1]
          BY <4>2, <2>2
        <5> QED BY <5>1, <3>3 DEF Accumulates
      <4> QED BY <4>1, <4>2
    <3>7. Accumulates(h, v, m)
      BY <3>5, <3>6 DEF Accumulates
    <3> HIDE DEF h
    <3> QED BY <2>3, <3>4, <3>7
  <2> QED BY <2>4, <2>5
<1>2. n \notin T
  BY <1>1
<1> QED BY <1>2

\* Two runs of the loop over the same rows agree at every row.
LEMMA SameTotals ==
  ASSUME NEW n \in Nat, NEW v, NEW g, NEW h,
         Accumulates(g, v, n), Accumulates(h, v, n)
  PROVE  \A i \in 0 .. n : g[i] = h[i]
<1> DEFINE T == {i \in 0 .. n : g[i] # h[i]}
<1> SUFFICES ASSUME T # {} PROVE FALSE
  OBVIOUS
<1> HIDE DEF T
<1>1. T \subseteq 0 .. n
  BY DEF T
<1>2. PICK m \in T : \A y \in T : m <= y
  BY <1>1, LeastNatural, T \subseteq Nat
<1>3. m \in 1 .. n
  BY <1>1 DEF T, Accumulates
<1>4. m - 1 \in 0 .. n /\ m - 1 \notin T
  BY <1>2, <1>3, ~ (m <= m - 1)
<1>5. g[m - 1] = h[m - 1]
  BY <1>4 DEF T
<1> QED BY <1>3, <1>5 DEF T, Accumulates

\* The recursive function is total, and obeys the loop's one-row step.
LEMMA RunningTotalStep ==
  ASSUME NEW n \in Nat, NEW v \in [1 .. n -> Int]
  PROVE  /\ RunningTotal(v, n) \in [0 .. n -> Int]
         /\ Accumulates(RunningTotal(v, n), v, n)
<1> DEFINE Body(g) == [i \in 0 .. n |-> IF i = 0 THEN 0 ELSE g[i - 1] + v[i]]
<1>1. PICK g \in [0 .. n -> Int] : Accumulates(g, v, n)
  BY PartialTotal
<1>2. g = Body(g)
  BY <1>1 DEF Accumulates
<1> DEFINE s == CHOOSE f : f = Body(f)
<1>3. RunningTotal(v, n) = s
  BY DEF RunningTotal
<1>4. s = Body(s)
  BY <1>2
<1> HIDE DEF s
<1>5. Accumulates(s, v, n)
  BY <1>4 DEF Accumulates
<1>6. \A i \in 0 .. n : s[i] = g[i]
  BY <1>1, <1>5, SameTotals
<1>7. s = [i \in 0 .. n |-> s[i]]
  BY <1>4
<1>8. s \in [0 .. n -> Int]
  BY <1>1, <1>6, <1>7
<1> QED BY <1>3, <1>5, <1>8

\* The loop over integer amounts ends with an integer.
LEMMA TotalType ==
  ASSUME NEW n \in Nat, NEW v \in [1 .. n -> Int]
  PROVE  Total(v, n) \in Int
BY RunningTotalStep DEF Total

\* Changing one row changes the total by the difference of that row.
LEMMA TotalReplace ==
  ASSUME NEW n \in Nat, NEW v \in [1 .. n -> Int], NEW w \in [1 .. n -> Int],
         NEW k \in 1 .. n, \A i \in 1 .. n : i # k => w[i] = v[i]
  PROVE  Total(w, n) = Total(v, n) - v[k] + w[k]
<1> DEFINE d == w[k] - v[k]
           a == RunningTotal(v, n)
           b == RunningTotal(w, n)
           h == [i \in 0 .. n |-> IF i < k THEN a[i] ELSE a[i] + d]
<1>1. a \in [0 .. n -> Int] /\ Accumulates(a, v, n)
  BY RunningTotalStep
<1>2. Accumulates(b, w, n)
  BY RunningTotalStep
<1> HIDE DEF a, b
<1>3. h[0] = 0
  BY <1>1 DEF Accumulates
<1>4. ASSUME NEW i \in 1 .. n PROVE h[i] = h[i - 1] + w[i]
  <2>1. i - 1 \in 0 .. n /\ a[i] = a[i - 1] + v[i] /\ a[i - 1] \in Int
    BY <1>1 DEF Accumulates
  <2>2. CASE i < k
    BY <2>1, <2>2
  <2>3. CASE i = k
    BY <2>1, <2>3
  <2>4. CASE i > k
    BY <2>1, <2>4
  <2> QED BY <2>2, <2>3, <2>4
<1>5. \A i \in 0 .. n : h[i] = b[i]
  <2>1. Accumulates(h, w, n)
    BY <1>3, <1>4 DEF Accumulates
  <2> HIDE DEF h
  <2> QED BY <1>2, <2>1, SameTotals
<1>6. h[n] = a[n] + d
  OBVIOUS
<1> HIDE DEF h
<1>7. b[n] = a[n] + d /\ a[n] \in Int
  BY <1>1, <1>5, <1>6
<1> QED BY <1>7 DEF Total, a, b

\* Rows between 0 and m keep a table of n rows between 0 and n * m.
LEMMA TotalBounds ==
  ASSUME NEW n \in Nat, NEW m \in Nat, NEW v \in [1 .. n -> 0 .. m]
  PROVE  Total(v, n) \in 0 .. n * m
<1> DEFINE a == RunningTotal(v, n)
           T == {i \in 0 .. n : ~ (0 <= a[i] /\ a[i] <= i * m)}
<1>1. a \in [0 .. n -> Int] /\ Accumulates(a, v, n)
  BY RunningTotalStep, v \in [1 .. n -> Int]
<1> HIDE DEF a
<1>2. ASSUME T # {} PROVE FALSE
  <2> HIDE DEF T
  <2>1. T \subseteq 0 .. n
    BY DEF T
  <2>2. PICK i \in T : \A j \in T : i <= j
    BY <1>2, <2>1, LeastNatural, T \subseteq Nat
  <2>3. i \in 1 .. n
    BY <1>1, <2>1, 0 * m = 0 DEF T, Accumulates
  <2>4. i - 1 \in 0 .. n /\ i - 1 \notin T
    BY <2>2, <2>3, ~ (i <= i - 1)
  <2>5. 0 <= a[i - 1] /\ a[i - 1] <= (i - 1) * m
    BY <2>4 DEF T
  <2>6. a[i] = a[i - 1] + v[i] /\ v[i] \in 0 .. m /\ a[i - 1] \in Int
    BY <1>1, <2>3 DEF Accumulates
  <2>7. (i - 1) * m + m = i * m
    BY <2>3
  <2>8. (i - 1) * m \in Int /\ i * m \in Int
    BY <2>3
  <2>9. 0 <= a[i] /\ a[i] <= i * m
    BY <2>5, <2>6, <2>7, <2>8
  <2> QED BY <2>2, <2>9 DEF T
<1>3. n \notin T
  BY <1>2
<1>4. 0 <= a[n] /\ a[n] <= n * m /\ a[n] \in Int
  BY <1>1, <1>3
<1> QED BY <1>4 DEF Total, a

=============================================================================
