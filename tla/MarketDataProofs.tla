-------------------------- MODULE MarketDataProofs ---------------------------
(***************************************************************************)
(* What the provider serves is sound and final (MarketData), for every     *)
(* broker, every number of tasks and every length of the grace.  First     *)
(* what the operators compute: the order of slots, the history as a fold   *)
(* over it, the bars that are kept, candles and the timeframes built from  *)
(* them.  Then the invariant: whatever waits in a cache or in a task is a  *)
(* history as the broker had it at one instant, and an answer is the end   *)
(* of one that is younger than the grace.                                  *)
(***************************************************************************)
EXTENDS MarketData, FiniteSetTheorems, SequenceTheorems, WellFoundedInduction, TLAPS

\* Induction up to a number, over the set of the numbers for which something holds.
LEMMA UpTo ==
    ASSUME NEW n \in Nat, NEW P, 0 \in P, \A i \in 1 .. n : i - 1 \in P => i \in P
    PROVE  \A i \in 0 .. n : i \in P
<1> DEFINE rest == (0 .. n) \ P
<1>1. SUFFICES ASSUME rest # {} PROVE FALSE
  OBVIOUS
<1>2. rest \subseteq Nat
  OBVIOUS
<1> HIDE DEF rest
<1>3. \E m \in rest : \A k \in rest : ~(<<k, m>> \in OpToRel(<, Nat))
  BY <1>1, <1>2, NatLessThanWellFounded, WFMin
<1>4. PICK m \in rest : \A k \in rest : ~(k < m)
  BY <1>2, <1>3 DEF OpToRel
<1>5. m \in 0 .. n /\ m \notin P
  BY DEF rest
<1>6. m # 0 /\ m \in 1 .. n
  BY <1>5
<1>7. m - 1 \in 0 .. n /\ m - 1 < m
  BY <1>6
<1>8. m - 1 \in P
  BY <1>4, <1>7 DEF rest
<1> QED BY <1>5, <1>6, <1>8

\* A set of numbers up to n has its largest.
LEMMA MaxIsLast ==
    ASSUME NEW n \in Nat, NEW s \in SUBSET (1 .. n), s # {}
    PROVE  Max(s) \in s /\ \A i \in s : i <= Max(s)
<1> DEFINE gaps == {n - i : i \in s}
<1>1. gaps \subseteq Nat /\ gaps # {}
  <2>1. \A i \in s : n - i \in Nat
    OBVIOUS
  <2> QED BY <2>1
<1> HIDE DEF gaps
<1>2. \E g \in gaps : \A h \in gaps : ~(<<h, g>> \in OpToRel(<, Nat))
  BY <1>1, NatLessThanWellFounded, WFMin
<1>3. PICK g \in gaps : \A h \in gaps : ~(h < g)
  BY <1>1, <1>2 DEF OpToRel
<1>4. PICK m \in s : g = n - m
  BY DEF gaps
<1>5. \A i \in s : i <= m
  <2> SUFFICES ASSUME NEW i \in s PROVE i <= m
    OBVIOUS
  <2>1. n - i \in gaps
    BY DEF gaps
  <2>2. ~(n - i < n - m)
    BY <2>1, <1>3, <1>4
  <2> QED BY <2>2
<1>6. \A i \in s : m >= i
  BY <1>5
<1>7. Max(s) \in s /\ \A i \in s : Max(s) >= i
  BY <1>6, Zenon DEF Max
<1> QED BY <1>7

\* f takes one step for each number of a set, the largest last.
TakesSteps(f, n, base, step) ==
    \A s \in SUBSET (1 .. n) : f[s] = IF s = {} THEN base ELSE step[<<Max(s), f[s \ {Max(s)}]>>]

\* What is defined from a set of numbers without its largest is defined for
\* every set of numbers up to n.
LEMMA FoldExists ==
    ASSUME NEW n \in Nat, NEW V, NEW base \in V, NEW step,
           \A i \in 1 .. n : \A v \in V : step[<<i, v>>] \in V
    PROVE  \E f \in [SUBSET (1 .. n) -> V] : TakesSteps(f, n, base, step)
<1> DEFINE Fold(k, f) == \A s \in SUBSET (1 .. k) :
                           f[s] = IF s = {} THEN base ELSE step[<<Max(s), f[s \ {Max(s)}]>>]
           P == {k \in 0 .. n : \E f \in [SUBSET (1 .. k) -> V] : Fold(k, f)}
<1>1. 0 \in P
  <2>1. [s \in SUBSET (1 .. 0) |-> base] \in [SUBSET (1 .. 0) -> V]
    OBVIOUS
  <2>2. \A s \in SUBSET (1 .. 0) : s = {}
    OBVIOUS
  <2>3. Fold(0, [s \in SUBSET (1 .. 0) |-> base])
    BY <2>2
  <2> HIDE DEF Fold
  <2>4. \E f \in [SUBSET (1 .. 0) -> V] : Fold(0, f)
    BY <2>1, <2>3
  <2>5. 0 \in 0 .. n
    OBVIOUS
  <2> QED BY <2>4, <2>5, Zenon
<1>2. ASSUME NEW k \in 1 .. n, k - 1 \in P PROVE k \in P
  <2>1. PICK f \in [SUBSET (1 .. (k - 1)) -> V] : Fold(k - 1, f)
    BY <1>2
  <2> DEFINE g == [s \in SUBSET (1 .. k) |-> IF k \in s THEN step[<<k, f[s \ {k}]>>] ELSE f[s]]
  <2>0. \A i \in 1 .. k : i # k => i \in 1 .. (k - 1)
    OBVIOUS
  <2>2. \A s \in SUBSET (1 .. k) : s \ {k} \in SUBSET (1 .. (k - 1))
    BY <2>0
  <2>3. \A s \in SUBSET (1 .. k) : k \notin s => s \in SUBSET (1 .. (k - 1))
    BY <2>0
  <2>4. g \in [SUBSET (1 .. k) -> V]
    BY <2>2, <2>3
  <2>5. ASSUME NEW s \in SUBSET (1 .. k)
        PROVE  g[s] = IF s = {} THEN base ELSE step[<<Max(s), g[s \ {Max(s)}]>>]
    <3>1. CASE s = {}
      <4>1. f[s] = base
        BY <2>1, <3>1
      <4> QED BY <3>1, <4>1
    <3>2. CASE k \in s
      <4>1. Max(s) = k
        <5>1. s \in SUBSET (1 .. n) /\ s # {}
          BY <3>2
        <5>2. Max(s) \in s /\ \A i \in s : i <= Max(s)
          BY <5>1, MaxIsLast
        <5>3. Max(s) \in 1 .. k /\ k <= Max(s)
          BY <3>2, <5>2
        <5> QED BY <5>3
      <4>2. g[s] = step[<<k, f[s \ {k}]>>]
        BY <3>2
      <4>3. g[s \ {k}] = f[s \ {k}]
        OBVIOUS
      <4> HIDE DEF g
      <4> QED BY <3>2, <4>1, <4>2, <4>3
    <3>3. CASE s # {} /\ k \notin s
      <4>1. s \in SUBSET (1 .. (k - 1)) /\ k - 1 \in Nat
        BY <2>3, <3>3
      <4>2. Max(s) \in s
        BY <3>3, <4>1, MaxIsLast
      <4>3. f[s] = step[<<Max(s), f[s \ {Max(s)}]>>]
        BY <2>1, <3>3, <4>1
      <4>4. g[s] = f[s]
        BY <3>3
      <4>5. g[s \ {Max(s)}] = f[s \ {Max(s)}]
        BY <3>3
      <4> HIDE DEF g
      <4> QED BY <3>3, <4>3, <4>4, <4>5
    <3> QED BY <3>1, <3>2, <3>3
  <2> HIDE DEF g
  <2>6. Fold(k, g)
    BY <2>5
  <2> HIDE DEF Fold
  <2>7. \E f2 \in [SUBSET (1 .. k) -> V] : Fold(k, f2)
    BY <2>4, <2>6
  <2> QED BY <2>7
<1> HIDE DEF P
<1>3. \A i \in 0 .. n : i \in P
  <2> \A i \in 1 .. n : i - 1 \in P => i \in P
    BY <1>2
  <2> QED BY <1>1, UpTo
<1>4. n \in P
  BY <1>3
<1> QED BY <1>4 DEF P, TakesSteps

-----------------------------------------------------------------------------
(* Slots in order.                                                         *)

Rank(S, s) == Cardinality(Before(S, s))

\* A later slot has more before it.
LEMMA RanksGrow ==
    ASSUME NEW S, IsFiniteSet(S), S \subseteq Int, NEW s \in S, NEW t \in S
    PROVE  /\ Rank(S, s) \in Nat /\ Rank(S, s) < Cardinality(S)
           /\ s < t => Rank(S, s) < Rank(S, t)
           /\ Rank(S, s) < Rank(S, t) => s < t
<1>1. \A x \in S : IsFiniteSet(Before(S, x)) /\ Rank(S, x) \in Nat
  <2> SUFFICES ASSUME NEW x \in S PROVE IsFiniteSet(Before(S, x)) /\ Rank(S, x) \in Nat
    OBVIOUS
  <2>1. Before(S, x) \in SUBSET S
    BY DEF Before
  <2>2. IsFiniteSet(Before(S, x))
    BY <2>1, FS_Subset
  <2> QED BY <2>2, FS_CardinalityType DEF Rank
<1>2. ASSUME NEW A, IsFiniteSet(A), NEW B \in SUBSET A, B # A PROVE Cardinality(B) < Cardinality(A)
  <2>1. Cardinality(B) <= Cardinality(A) /\ Cardinality(B) # Cardinality(A) /\ IsFiniteSet(B)
    BY <1>2, FS_Subset
  <2>2. Cardinality(B) \in Nat /\ Cardinality(A) \in Nat
    BY <1>2, <2>1, FS_CardinalityType
  <2> QED BY <2>1, <2>2
<1>3. Rank(S, s) < Cardinality(S) /\ Cardinality(S) \in Nat
  <2>1. Before(S, s) \in SUBSET S /\ Before(S, s) # S
    BY DEF Before
  <2> QED BY <1>2, <2>1, FS_CardinalityType DEF Rank
<1>4. ASSUME NEW x \in S, NEW y \in S, x < y PROVE Rank(S, x) < Rank(S, y)
  <2>1. x \in Int /\ y \in Int
    OBVIOUS
  <2>2. ASSUME NEW z \in Before(S, x) PROVE z \in Before(S, y)
    <3>1. z \in S /\ z \in Int /\ z < x
      BY DEF Before
    <3>2. z < y
      BY <1>4, <2>1, <3>1
    <3> QED BY <3>1, <3>2 DEF Before
  <2>3. x \in Before(S, y)
    BY <1>4 DEF Before
  <2>4. x \notin Before(S, x)
    BY <2>1 DEF Before
  <2>5. Before(S, x) \in SUBSET Before(S, y) /\ Before(S, x) # Before(S, y)
    BY <2>2, <2>3, <2>4
  <2> QED BY <1>1, <1>2, <2>5 DEF Rank
<1>5. Rank(S, s) < Rank(S, t) => s < t
  <2>1. CASE s = t
    BY <1>1, <2>1
  <2>2. CASE t < s
    <3>1. Rank(S, t) < Rank(S, s)
      BY <1>4, <2>2
    <3> QED BY <1>1, <3>1
  <2> QED BY <2>1, <2>2
<1> QED BY <1>1, <1>3, <1>4, <1>5

\* Slots in order are all of them, each once and the smaller first.
LEMMA InOrderIs ==
    ASSUME NEW S, IsFiniteSet(S), S \subseteq Int
    PROVE  /\ InOrder(S) \in Seq(S) /\ Len(InOrder(S)) = Cardinality(S) /\ Cardinality(S) \in Nat
           /\ \A i, j \in 1 .. Len(InOrder(S)) : i < j => InOrder(S)[i] < InOrder(S)[j]
           /\ \A s \in S : \E i \in 1 .. Len(InOrder(S)) : InOrder(S)[i] = s
<1> DEFINE n == Cardinality(S)
           ranks == 0 .. (n - 1)
           f == [s \in S |-> Rank(S, s)]
<1>1. n \in Nat
  BY FS_CardinalityType
<1>2. IsFiniteSet(ranks) /\ Cardinality(ranks) = n
  <2>1. IsFiniteSet(ranks) /\ Cardinality(ranks) = IF 0 > n - 1 THEN 0 ELSE n - 1 - 0 + 1
    BY <1>1, FS_Interval
  <2> QED BY <1>1, <2>1
<1>3. f \in Injection(S, ranks)
  <2>1. f \in [S -> ranks]
    <3> SUFFICES ASSUME NEW s \in S PROVE Rank(S, s) \in ranks
      OBVIOUS
    <3>1. Rank(S, s) \in Nat /\ Rank(S, s) < n
      BY RanksGrow
    <3> QED BY <1>1, <3>1
  <2>2. \A s, t \in S : f[s] = f[t] => s = t
    <3> SUFFICES ASSUME NEW s \in S, NEW t \in S, s # t PROVE f[s] # f[t]
      OBVIOUS
    <3>1. s < t \/ t < s
      OBVIOUS
    <3>2. Rank(S, s) < Rank(S, t) \/ Rank(S, t) < Rank(S, s)
      BY <3>1, RanksGrow
    <3>3. Rank(S, s) \in Nat /\ Rank(S, t) \in Nat
      <4>1. Rank(S, s) \in Nat
        BY RanksGrow
      <4>2. Rank(S, t) \in Nat
        BY RanksGrow
      <4> QED BY <4>1, <4>2
    <3> QED BY <3>2, <3>3
  <2> HIDE DEF f
  <2> QED BY <2>1, <2>2 DEF Injection, IsInjective
<1>4. f \in Surjection(S, ranks)
  <2> HIDE DEF f, n, ranks
  <2>1. Cardinality(S) = Cardinality(ranks)
    BY <1>2 DEF n
  <2> QED BY <1>2, <1>3, <2>1, FS_Injection
<1>5. \A r \in ranks : \E s \in S : Rank(S, s) = r
  <2>1. \A r \in ranks : \E s \in S : f[s] = r
    <3> HIDE DEF f
    <3> QED BY <1>4 DEF Surjection
  <2> QED BY <2>1
<1> DEFINE at(i) == CHOOSE s \in S : Rank(S, s) = i - 1
<1>6. InOrder(S) = [i \in 1 .. n |-> at(i)]
  BY DEF InOrder, Rank
<1>7. \A i \in 1 .. n : at(i) \in S /\ Rank(S, at(i)) = i - 1
  <2> SUFFICES ASSUME NEW i \in 1 .. n PROVE at(i) \in S /\ Rank(S, at(i)) = i - 1
    OBVIOUS
  <2>1. i - 1 \in ranks
    BY <1>1
  <2>2. \E s \in S : Rank(S, s) = i - 1
    BY <1>5, <2>1
  <2> QED BY <2>2
<1> HIDE DEF at, f
<1>8. InOrder(S) \in Seq(S) /\ Len(InOrder(S)) = n
  BY <1>1, <1>6, <1>7
<1>9. ASSUME NEW i \in 1 .. n, NEW j \in 1 .. n, i < j PROVE InOrder(S)[i] < InOrder(S)[j]
  <2>1. InOrder(S)[i] = at(i) /\ InOrder(S)[j] = at(j)
    BY <1>6
  <2>2. Rank(S, at(i)) < Rank(S, at(j))
    BY <1>7, <1>9
  <2>3. at(i) \in S /\ at(j) \in S
    BY <1>7
  <2>4. at(i) < at(j)
    BY <2>2, <2>3, RanksGrow
  <2> QED BY <2>1, <2>4
<1>10. ASSUME NEW s \in S PROVE \E i \in 1 .. n : InOrder(S)[i] = s
  <2> DEFINE r == Rank(S, s)
  <2>1. r \in 0 .. (n - 1) /\ r + 1 \in 1 .. n
    <3>1. r \in Nat /\ r < n
      BY RanksGrow
    <3> QED BY <1>1, <3>1
  <2>2. Rank(S, at(r + 1)) = r /\ at(r + 1) \in S
    BY <1>7, <2>1
  <2>3. at(r + 1) = s
    <3> DEFINE t == at(r + 1)
    <3>1. t \in S /\ Rank(S, t) = r /\ r \in Int
      BY <2>1, <2>2
    <3> HIDE DEF t
    <3>2. s < t => Rank(S, s) < Rank(S, t)
      BY <3>1, RanksGrow
    <3>3. t < s => Rank(S, t) < Rank(S, s)
      BY <3>1, RanksGrow
    <3>4. t \in Int /\ s \in Int /\ ~(t < s) /\ ~(s < t)
      BY <3>1, <3>2, <3>3 DEF r
    <3>5. t = s
      BY <3>4
    <3> QED BY <3>5 DEF t
  <2> HIDE DEF r
  <2> QED BY <1>6, <2>1, <2>3
<1> QED BY <1>1, <1>8, <1>9, <1>10

\* What n goes into.
LEMMA Division ==
    ASSUME NEW x \in Int, NEW n \in Nat \ {0}
    PROVE  x \div n \in Int /\ (x \div n) * n <= x /\ x < (x \div n) * n + n
OBVIOUS

\* The product with a length keeps the order.
LEMMA Product ==
    ASSUME NEW a \in Int, NEW b \in Int, NEW n \in Nat, a <= b
    PROVE  a * n \in Int /\ b * n \in Int /\ a * n <= b * n
OBVIOUS

\* A slot is not after the one of an instant exactly when it has begun by then.
LEMMA SlotBegins ==
    ASSUME NEW at \in Int, NEW n \in Nat \ {0}, NEW s \in Int
    PROVE  s <= at \div n <=> s * n <= at
<1> DEFINE q == at \div n
<1>1. q \in Int /\ q * n \in Int /\ q * n <= at /\ at < q * n + n
  BY Division
<1>2. CASE s <= q
  <2>1. s * n \in Int /\ s * n <= q * n
    BY <1>1, <1>2, Product
  <2> HIDE DEF q
  <2> QED BY <1>1, <1>2, <2>1
<1>3. CASE ~(s <= q)
  <2>1. q + 1 \in Int /\ q + 1 <= s
    BY <1>1, <1>3
  <2>2. (q + 1) * n \in Int /\ s * n \in Int /\ (q + 1) * n <= s * n
    BY <2>1, Product
  <2> HIDE DEF q
  <2>3. (q + 1) * n = q * n + n
    BY <1>1
  <2> QED BY <1>1, <1>3, <2>2, <2>3
<1> QED BY <1>2, <1>3

Least(x, y) == IF x <= y THEN x ELSE y

\* The smaller of two.
LEMMA LeastOfTwo ==
    ASSUME NEW x \in Int, NEW y \in Int
    PROVE  Min({x, y}) = Least(x, y)
<1>1. Min({x, y}) \in {x, y} /\ \A z \in {x, y} : Min({x, y}) <= z
  <2>1. \E m \in {x, y} : \A z \in {x, y} : m <= z
    OBVIOUS
  <2> QED BY <2>1, Zenon DEF Min
<1> QED BY <1>1 DEF Least

-----------------------------------------------------------------------------
(* What the broker answers.                                                *)

\* The bars it may have at an instant; two copies of a slot may differ.
BarsRead(doubled, at) ==
    {b \in [slot : Nat, seen : Int, fault : BOOLEAN] :
       b.slot * Bar <= at /\ (b.slot \notin doubled => b.seen = Least(at - b.slot * Bar, Bar))}

InSlots(raw) == \A i, j \in 1 .. Len(raw) : i <= j => raw[i].slot <= raw[j].slot

\* Bars that contradict each other come together.
Contradicts(raw, i) ==
    \E j, k \in 1 .. Len(raw) : /\ raw[j].slot = raw[i].slot /\ raw[k].slot = raw[i].slot
                               /\ raw[j].fault = raw[i].fault /\ raw[k].fault = raw[i].fault
                               /\ raw[j].seen # raw[k].seen
Twice(raw, doubled) == \A i \in 1 .. Len(raw) : raw[i].slot \in doubled => Contradicts(raw, i)

\* What the broker says of a slot are bars of that slot as they were at the instant.
LEMMA BarsAreRead ==
    ASSUME NEW at \in Int, NEW s \in Nat, s * Bar <= at
    PROVE  /\ BarsOf(s, at) \in Seq(BarsRead(scene.doubled, at))
           /\ \A i \in 1 .. Len(BarsOf(s, at)) : BarsOf(s, at)[i].slot = s
           /\ Twice(BarsOf(s, at), scene.doubled)
<1> DEFINE seen == Min({at - s * Bar, Bar})
           bar == [slot |-> s, seen |-> seen, fault |-> s \in scene.faulty]
           other == [bar EXCEPT !.seen = seen - 1]
           B == BarsRead(scene.doubled, at)
<1>1. Bar \in Nat /\ Bar \in Int /\ at - s * Bar \in Int
  BY SeriesAssumption
<1>2. seen = Least(at - s * Bar, Bar) /\ seen \in Int
  BY <1>1, LeastOfTwo DEF Least
<1> HIDE DEF seen
<1>3. bar \in B /\ bar.slot = s
  BY <1>2 DEF BarsRead
<1>4. s \in scene.doubled => other \in B
  <2>1. other = [slot |-> s, seen |-> seen - 1, fault |-> s \in scene.faulty] /\ seen - 1 \in Int
    BY <1>2
  <2> HIDE DEF other
  <2>2. other \in [slot : Nat, seen : Int, fault : BOOLEAN] /\ other.slot = s
    BY <2>1
  <2> QED BY <2>2 DEF BarsRead
<1>5. other.slot = s /\ other.fault = bar.fault /\ other.seen # bar.seen
  BY <1>2
<1>6. \/ BarsOf(s, at) = <<>>
      \/ s \notin scene.doubled /\ BarsOf(s, at) \in {<<bar, bar>>, <<bar>>}
      \/ s \in scene.doubled /\ BarsOf(s, at) = <<bar, other>>
  <2>1. BarsOf(s, at) = IF s \in scene.missing \cup NoMarket THEN <<>>
                       ELSE IF s \in scene.doubled THEN <<bar, other>>
                       ELSE IF s \in scene.repeated THEN <<bar, bar>>
                       ELSE <<bar>>
    BY Zenon DEF BarsOf, seen
  <2> HIDE DEF bar, other
  <2> QED BY <2>1
<1> DEFINE v == BarsOf(s, at)
<1> HIDE DEF v
<1>7. CASE v = <<>>
  <2>1. v \in Seq(B) /\ \A i \in 1 .. Len(v) : FALSE
    BY <1>7
  <2> QED BY <2>1 DEF Twice, v, B
<1>8. CASE s \notin scene.doubled /\ v \in {<<bar, bar>>, <<bar>>}
  <2>1. v \in Seq(B) /\ \A i \in 1 .. Len(v) : v[i] = bar
    <3>1. CASE v = <<bar>>
      BY <1>3, <3>1
    <3>2. CASE v = <<bar, bar>>
      <4>1. v \in Seq(B) /\ Len(v) = 2 /\ v[1] = bar /\ v[2] = bar
        BY <1>3, <3>2
      <4> QED BY <4>1
    <3> QED BY <1>8, <3>1, <3>2
  <2>2. \A i \in 1 .. Len(v) : v[i].slot = s
    BY <1>3, <2>1
  <2>3. Twice(v, scene.doubled)
    BY <1>8, <2>2 DEF Twice
  <2> QED BY <2>1, <2>2, <2>3 DEF v, B
<1>9. CASE s \in scene.doubled /\ v = <<bar, other>>
  <2>1. v \in Seq(B) /\ Len(v) = 2 /\ v[1] = bar /\ v[2] = other
    BY <1>3, <1>4, <1>9
  <2>2. \A i \in 1 .. Len(v) : v[i] = bar \/ v[i] = other
    BY <2>1
  <2>3. \A i \in 1 .. Len(v) : v[i].slot = s /\ v[i].fault = bar.fault
    BY <1>3, <1>5, <2>2
  <2>4. 1 \in 1 .. Len(v) /\ 2 \in 1 .. Len(v) /\ v[1].seen # v[2].seen
    BY <1>5, <2>1
  <2>5. \A i \in 1 .. Len(v) : Contradicts(v, i)
    BY <2>3, <2>4 DEF Contradicts
  <2>6. Twice(v, scene.doubled)
    BY <2>5 DEF Twice
  <2> QED BY <2>1, <2>3, <2>6 DEF v, B
<1> QED BY <1>6, <1>7, <1>8, <1>9 DEF v

\* Bars in order that are followed by later ones are in order.
LEMMA JoinInSlots ==
    ASSUME NEW B, \A b \in B : b.slot \in Int,
           NEW v \in Seq(B), NEW w \in Seq(B), InSlots(v), InSlots(w),
           \A i \in 1 .. Len(v), j \in 1 .. Len(w) : v[i].slot <= w[j].slot
    PROVE  v \o w \in Seq(B) /\ Len(v \o w) = Len(v) + Len(w) /\ InSlots(v \o w)
           /\ \A i \in 1 .. Len(v \o w) : (\E j \in 1 .. Len(v) : (v \o w)[i] = v[j])
                                          \/ (\E j \in 1 .. Len(w) : (v \o w)[i] = w[j])
<1> DEFINE x == v \o w
           a == Len(v)
           c == Len(w)
<1>1. x \in Seq(B) /\ a \in Nat /\ c \in Nat /\ Len(x) = a + c
      /\ \A i \in 1 .. (a + c) : x[i] = IF i <= a THEN v[i] ELSE w[i - a]
  BY ConcatProperties
<1>2. (\A i \in 1 .. a : v[i] \in B) /\ (\A i \in 1 .. c : w[i] \in B)
  OBVIOUS
<1> HIDE DEF x, a, c
<1>3. \A i \in 1 .. (a + c) : ~(i <= a) => i - a \in 1 .. c
  BY <1>1
<1>4. ASSUME NEW i \in 1 .. (a + c), NEW j \in 1 .. (a + c), i <= j PROVE x[i].slot <= x[j].slot
  <2>1. CASE j <= a
    <3>1. i \in 1 .. a /\ j \in 1 .. a /\ i <= a
      BY <1>1, <1>4, <2>1
    <3>2. x[i] = v[i] /\ x[j] = v[j]
      BY <1>1, <3>1
    <3> QED BY <1>4, <3>1, <3>2 DEF InSlots, a
  <2>2. CASE ~(i <= a)
    <3>1. ~(j <= a) /\ i - a \in 1 .. c /\ j - a \in 1 .. c /\ i - a <= j - a
      BY <1>1, <1>3, <1>4, <2>2
    <3> QED BY <1>1, <2>2, <3>1 DEF InSlots, c
  <2>3. CASE i <= a /\ ~(j <= a)
    <3>1. i \in 1 .. a /\ j - a \in 1 .. c
      BY <1>1, <1>3, <2>3
    <3> QED BY <1>1, <2>3, <3>1 DEF a, c
  <2> QED BY <1>1, <1>4, <2>1, <2>2, <2>3
<1>5. InSlots(x)
  BY <1>1, <1>4 DEF InSlots
<1>6. \A i \in 1 .. (a + c) : (\E j \in 1 .. a : x[i] = v[j]) \/ (\E j \in 1 .. c : x[i] = w[j])
  <2> SUFFICES ASSUME NEW i \in 1 .. (a + c)
               PROVE  (\E j \in 1 .. a : x[i] = v[j]) \/ (\E j \in 1 .. c : x[i] = w[j])
    OBVIOUS
  <2>1. CASE i <= a
    <3>1. i \in 1 .. a /\ x[i] = v[i]
      BY <1>1, <2>1
    <3> QED BY <3>1
  <2>2. CASE ~(i <= a)
    <3>1. i - a \in 1 .. c /\ x[i] = w[i - a]
      BY <1>1, <1>3, <2>2
    <3> QED BY <3>1
  <2> QED BY <2>1, <2>2
<1> QED BY <1>1, <1>5, <1>6 DEF x, a, c

\* What comes together stays together.
LEMMA JoinTwice ==
    ASSUME NEW B, NEW doubled, NEW v \in Seq(B), NEW w \in Seq(B), Twice(v, doubled), Twice(w, doubled)
    PROVE  Twice(v \o w, doubled)
<1> DEFINE x == v \o w
           a == Len(v)
           c == Len(w)
<1>1. a \in Nat /\ c \in Nat /\ Len(x) = a + c
      /\ \A i \in 1 .. (a + c) : x[i] = IF i <= a THEN v[i] ELSE w[i - a]
  BY ConcatProperties
<1> HIDE DEF x, a, c
<1>2. \A i \in 1 .. a : i \in 1 .. (a + c) /\ x[i] = v[i]
  BY <1>1
<1>3. \A i \in 1 .. c : i + a \in 1 .. (a + c) /\ x[i + a] = w[i]
  <2> SUFFICES ASSUME NEW i \in 1 .. c PROVE i + a \in 1 .. (a + c) /\ x[i + a] = w[i]
    OBVIOUS
  <2>1. i + a \in 1 .. (a + c) /\ ~(i + a <= a) /\ (i + a) - a = i
    BY <1>1
  <2> QED BY <1>1, <2>1
<1>4. ASSUME NEW i \in 1 .. (a + c), x[i].slot \in doubled PROVE Contradicts(x, i)
  <2>1. CASE i <= a
    <3>1. i \in 1 .. a /\ x[i] = v[i]
      BY <1>1, <2>1
    <3>2. Contradicts(v, i)
      BY <1>4, <3>1 DEF Twice, a
    <3>3. PICK j \in 1 .. a, k \in 1 .. a :
            /\ v[j].slot = v[i].slot /\ v[k].slot = v[i].slot
            /\ v[j].fault = v[i].fault /\ v[k].fault = v[i].fault /\ v[j].seen # v[k].seen
      BY <3>2 DEF Contradicts, a
    <3>4. x[j] = v[j] /\ x[k] = v[k] /\ j \in 1 .. Len(x) /\ k \in 1 .. Len(x)
      BY <1>1, <1>2
    <3> QED BY <3>1, <3>3, <3>4 DEF Contradicts
  <2>2. CASE ~(i <= a)
    <3> DEFINE h == i - a
    <3>1. h \in 1 .. c /\ x[i] = w[h]
      BY <1>1, <2>2
    <3> HIDE DEF h
    <3>2. Contradicts(w, h)
      BY <1>4, <3>1 DEF Twice, c
    <3>3. PICK j \in 1 .. c, k \in 1 .. c :
            /\ w[j].slot = w[h].slot /\ w[k].slot = w[h].slot
            /\ w[j].fault = w[h].fault /\ w[k].fault = w[h].fault /\ w[j].seen # w[k].seen
      BY <3>2 DEF Contradicts, c
    <3>4. x[j + a] = w[j] /\ x[k + a] = w[k] /\ j + a \in 1 .. Len(x) /\ k + a \in 1 .. Len(x)
      BY <1>1, <1>3
    <3> QED BY <3>1, <3>3, <3>4 DEF Contradicts
  <2> QED BY <2>1, <2>2
<1> QED BY <1>1, <1>4 DEF Twice, x

\* The slots that /history answers for.
Asked(from, end, at) == {s \in 0 .. (at \div Bar) : s * Bar >= from /\ s * Bar < end}

\* They are finite in number and have all begun.
LEMMA AskedIs ==
    ASSUME NEW from \in Int, NEW end \in Int, NEW at \in Int
    PROVE  /\ IsFiniteSet(Asked(from, end, at)) /\ Asked(from, end, at) \subseteq Nat
           /\ \A s \in Asked(from, end, at) : s * Bar <= at
<1> DEFINE q == at \div Bar
           S == {s \in 0 .. q : s * Bar >= from /\ s * Bar < end}
<1>0. S = Asked(from, end, at)
  BY DEF Asked
<1>1. Bar \in Nat \ {0}
  BY SeriesAssumption
<1>2. q \in Int
  BY <1>1
<1>3. S \in SUBSET (0 .. q)
  OBVIOUS
<1>4. IsFiniteSet(0 .. q)
  <2> HIDE DEF q
  <2> QED BY <1>2, FS_Interval
<1>5. IsFiniteSet(S)
  BY <1>3, <1>4, FS_Subset
<1>6. S \subseteq Nat
  OBVIOUS
<1>7. ASSUME NEW s \in S PROVE s * Bar <= at
  <2>1. s \in Int /\ s <= q
    BY <1>2
  <2> QED BY <1>1, <2>1, SlotBegins
<1> HIDE DEF S
<1> QED BY <1>0, <1>5, <1>6, <1>7

\* What the broker answers are bars as they were at the instant, the older slot first.
LEMMA HistoryIs ==
    ASSUME NEW from \in Int, NEW end \in Int, NEW at \in Int
    PROVE  /\ History(from, end, at) \in Seq(BarsRead(scene.doubled, at)) /\ InSlots(History(from, end, at))
           /\ Twice(History(from, end, at), scene.doubled)
<1> DEFINE S == Asked(from, end, at)
           order == InOrder(S)
           n == Cardinality(S)
           B == BarsRead(scene.doubled, at)
           V == Seq(B)
           Joined(v, s) == v \o BarsOf(s, at)
           It(f) == f = [s \in SUBSET (DOMAIN order) |->
                       IF s = {} THEN <<>> ELSE Joined(f[s \ {Max(s)}], order[Max(s)])]
           g == CHOOSE f : It(f)
<1>1. History(from, end, at) = g[DOMAIN order]
  BY Zenon DEF History, Asked, FoldLeft, MapThenFoldSet
<1>2. IsFiniteSet(S) /\ S \subseteq Nat /\ S \subseteq Int /\ \A s \in S : s * Bar <= at
  BY AskedIs
<1>3. /\ n \in Nat /\ order \in Seq(S) /\ Len(order) = n
      /\ \A i, j \in 1 .. n : i < j => order[i] < order[j]
  <2> HIDE DEF S
  <2> QED BY <1>2, InOrderIs
<1>4. DOMAIN order = 1 .. n /\ \A i \in 1 .. n : order[i] \in S
  <2> HIDE DEF S, order
  <2> QED BY <1>3
<1> HIDE DEF S, order, n
<1> DEFINE Fine(w, s) == w \in V /\ Twice(w, scene.doubled) /\ \A k \in 1 .. Len(w) : w[k].slot = s
<1>5. \A i \in 1 .. n : Fine(BarsOf(order[i], at), order[i])
  <2> SUFFICES ASSUME NEW i \in 1 .. n PROVE Fine(BarsOf(order[i], at), order[i])
    OBVIOUS
  <2> DEFINE s == order[i]
  <2>1. s \in Nat /\ s * Bar <= at
    BY <1>2, <1>4
  <2> HIDE DEF s
  <2>2. Fine(BarsOf(s, at), s)
    BY <2>1, BarsAreRead
  <2> QED BY <2>2 DEF s
<1>6. <<>> \in V
  OBVIOUS
<1>7. \A i \in 1 .. n : \A v \in V : Joined(v, order[i]) \in V
  <2> HIDE DEF B
  <2> QED BY <1>5, ConcatProperties
<1> HIDE DEF V, Joined
<1>8. \E f : It(f)
  <2> DEFINE step == [q \in (1 .. n) \X V |-> Joined(q[2], order[q[1]])]
  <2>2. \A i \in 1 .. n : \A v \in V : step[<<i, v>>] = Joined(v, order[i])
    OBVIOUS
  <2> HIDE DEF step
  <2>4. PICK f \in [SUBSET (1 .. n) -> V] : TakesSteps(f, n, <<>>, step)
    <3>1. \A i \in 1 .. n : \A v \in V : step[<<i, v>>] \in V
      BY <1>7, <2>2
    <3> QED BY <1>3, <1>6, <3>1, FoldExists, Zenon
  <2>5. ASSUME NEW s \in SUBSET (1 .. n), s # {}
        PROVE  f[s] = Joined(f[s \ {Max(s)}], order[Max(s)])
    <3>1. Max(s) \in 1 .. n
      BY <1>3, <2>5, MaxIsLast
    <3>2. f[s \ {Max(s)}] \in V
      OBVIOUS
    <3> QED BY <2>2, <2>4, <2>5, <3>1, <3>2 DEF TakesSteps
  <2>6. \A s \in SUBSET (1 .. n) :
          f[s] = IF s = {} THEN <<>> ELSE Joined(f[s \ {Max(s)}], order[Max(s)])
    BY <2>4, <2>5 DEF TakesSteps
  <2>7. f = [s \in SUBSET (1 .. n) |-> IF s = {} THEN <<>> ELSE Joined(f[s \ {Max(s)}], order[Max(s)])]
    BY <2>6
  <2>8. It(f)
    BY <1>4, <2>7
  <2> HIDE DEF It
  <2> QED BY <2>8
<1>9. It(g)
  <2> HIDE DEF It
  <2> QED BY <1>8
<1> HIDE DEF g
<1>10. \A s \in SUBSET (1 .. n) : g[s] = IF s = {} THEN <<>> ELSE Joined(g[s \ {Max(s)}], order[Max(s)])
  BY <1>4, <1>9
<1> HIDE DEF It
<1> DEFINE Done(k) == /\ g[1 .. k] \in V /\ InSlots(g[1 .. k]) /\ Twice(g[1 .. k], scene.doubled)
                      /\ \A m \in 1 .. n : m > k => \A i \in 1 .. Len(g[1 .. k]) : g[1 .. k][i].slot <= order[m]
           P == {k \in 0 .. n : Done(k)}
<1>11. 0 \in P
  <2>1. g[1 .. 0] = <<>>
    <3>1. 1 .. 0 = {} /\ {} \in SUBSET (1 .. n)
      OBVIOUS
    <3> QED BY <1>10, <3>1
  <2>2. InSlots(<<>>) /\ Twice(<<>>, scene.doubled) /\ \A i \in 1 .. Len(<<>>) : FALSE
    BY DEF InSlots, Twice
  <2>3. Done(0)
    BY <1>6, <2>1, <2>2
  <2> QED BY <1>3, <2>3
<1>12. ASSUME NEW k \in 1 .. n, k - 1 \in P PROVE k \in P
  <2>1. 1 .. k \in SUBSET (1 .. n) /\ 1 .. k # {} /\ k - 1 \in 0 .. n
    BY <1>3
  <2>2. Max(1 .. k) = k
    <3>1. Max(1 .. k) \in 1 .. k /\ \A i \in 1 .. k : i <= Max(1 .. k)
      BY <1>3, <2>1, MaxIsLast
    <3> QED BY <1>3, <3>1
  <2>3. (1 .. k) \ {k} = 1 .. (k - 1)
    BY <1>3
  <2> DEFINE v == g[1 .. (k - 1)]
             w == BarsOf(order[k], at)
  <2>4. g[1 .. k] = v \o w
    <3>1. g[1 .. k] = Joined(v, order[k])
      BY <1>10, <2>1, <2>2, <2>3
    <3> QED BY <3>1 DEF Joined
  <2>5. /\ v \in V /\ InSlots(v) /\ Twice(v, scene.doubled)
        /\ \A m \in 1 .. n : m > k - 1 => \A i \in 1 .. Len(v) : v[i].slot <= order[m]
    BY <1>12
  <2>6. w \in V /\ Twice(w, scene.doubled) /\ \A i \in 1 .. Len(w) : w[i].slot = order[k]
    BY <1>5
  <2>7. order[k] \in Int /\ \A m \in 1 .. n : m > k => order[k] <= order[m]
    <3>1. \A m \in 1 .. n : order[m] \in Int
      BY <1>2, <1>4
    <3> QED BY <1>3, <3>1
  <2> HIDE DEF v, w
  <2>8. InSlots(w)
    BY <2>6, <2>7 DEF InSlots
  <2>9. \A b \in B : b.slot \in Int
    BY DEF BarsRead
  <2>10. \A i \in 1 .. Len(v), j \in 1 .. Len(w) : v[i].slot <= w[j].slot
    <3>1. k > k - 1
      BY <1>3
    <3> QED BY <2>5, <2>6, <3>1
  <2>11. v \o w \in Seq(B) /\ InSlots(v \o w)
           /\ \A i \in 1 .. Len(v \o w) : (\E j \in 1 .. Len(v) : (v \o w)[i] = v[j])
                                          \/ (\E j \in 1 .. Len(w) : (v \o w)[i] = w[j])
    <3> HIDE DEF B
    <3>1. v \in Seq(B) /\ w \in Seq(B)
      BY <2>5, <2>6 DEF V
    <3>2. InSlots(v)
      BY <2>5
    <3> QED BY <2>8, <2>9, <2>10, <3>1, <3>2, JoinInSlots
  <2> DEFINE x == v \o w
  <2>12. x \in V /\ InSlots(x) /\ Twice(x, scene.doubled)
    <3> HIDE DEF B
    <3>1. v \in Seq(B) /\ w \in Seq(B)
      BY <2>5, <2>6 DEF V
    <3>2. Twice(x, scene.doubled)
      BY <2>5, <2>6, <3>1, JoinTwice
    <3> QED BY <2>11, <3>2 DEF V
  <2>13. ASSUME NEW m \in 1 .. n, m > k, NEW i \in 1 .. Len(x) PROVE x[i].slot <= order[m]
    <3>1. m > k - 1
      BY <1>3, <2>13
    <3>2. CASE \E j \in 1 .. Len(v) : x[i] = v[j]
      BY <2>5, <3>1, <3>2
    <3>3. CASE \E j \in 1 .. Len(w) : x[i] = w[j]
      BY <2>6, <2>7, <2>13, <3>3
    <3> QED BY <2>11, <3>2, <3>3
  <2> HIDE DEF x
  <2>14. g[1 .. k] = x
    BY <2>4 DEF x
  <2>15. Done(k)
    BY <2>12, <2>13, <2>14
  <2>16. k \in 0 .. n
    BY <1>3
  <2> QED BY <2>15, <2>16
<1> HIDE DEF P
<1>13. \A i \in 0 .. n : i \in P
  BY <1>3, <1>11, <1>12, UpTo
<1>14. n \in P
  BY <1>3, <1>13
<1> QED BY <1>1, <1>4, <1>14 DEF P, V

-----------------------------------------------------------------------------
(* Sequences and the end of them.                                          *)

\* What is listed from 1 to n is a sequence.
LEMMA Listed ==
    ASSUME NEW n \in Nat, NEW f, f = [i \in 1 .. n |-> f[i]], NEW S, \A i \in 1 .. n : f[i] \in S
    PROVE  f \in Seq(S) /\ Len(f) = n /\ DOMAIN f = 1 .. n
<1>1. f \in [1 .. n -> S]
  OBVIOUS
<1> QED BY <1>1

\* What a sequence holds is a finite set.
LEMMA FiniteImage ==
    ASSUME NEW n \in Nat, NEW f
    PROVE  IsFiniteSet({f[i] : i \in 1 .. n})
<1> DEFINE T == {f[i] : i \in 1 .. n}
           g == [i \in 1 .. n |-> f[i]]
<1>1. g \in Surjection(1 .. n, T)
  <2>1. g \in [1 .. n -> T] /\ \A t \in T : \E i \in 1 .. n : g[i] = t
    OBVIOUS
  <2> QED BY <2>1 DEF Surjection
<1>2. IsFiniteSet(1 .. n)
  BY FS_Interval
<1> HIDE DEF T, g
<1>3. IsFiniteSet(T)
  BY <1>1, <1>2, FS_Surjection
<1> QED BY <1>3 DEF T

\* cut is what is left of all when the first k are left out.
Ends(cut, all, k) ==
    /\ k \in 0 .. Len(all) /\ Len(cut) = Len(all) - k
    /\ \A i \in 1 .. Len(cut) : cut[i] = all[i + k]

\* LastOf leaves the end.
LEMMA LastOfIs ==
    ASSUME NEW S, NEW all \in Seq(S), NEW limit \in Nat
    PROVE  LastOf(all, limit) \in Seq(S) /\ \E k \in Nat : Ends(LastOf(all, limit), all, k)
<1>1. CASE Len(all) <= limit
  <2>1. LastOf(all, limit) = all
    BY <1>1 DEF LastOf
  <2>2. Ends(all, all, 0)
    BY DEF Ends
  <2> QED BY <2>1, <2>2
<1>2. CASE ~(Len(all) <= limit)
  <2> DEFINE n == Len(all)
             k == n - limit
             cut == SubSeq(all, k + 1, n)
  <2>1. n \in Nat /\ k \in Nat /\ k \in 0 .. n /\ k + 1 \in 1 .. n + 1 /\ k + 1 = n - limit + 1
    BY <1>2
  <2>2. LastOf(all, limit) = cut
    BY <1>2, <2>1 DEF LastOf
  <2> HIDE DEF k
  <2>3. /\ cut \in Seq(S) /\ Len(cut) = n - k
        /\ \A i \in 1 .. (n - k) : cut[i] = all[i + k]
    BY <2>1
  <2>4. Ends(cut, all, k)
    BY <2>1, <2>3 DEF Ends
  <2> HIDE DEF cut
  <2> QED BY <2>1, <2>2, <2>3, <2>4
<1> QED BY <1>1, <1>2

\* So does Tail.
LEMMA TailIs ==
    ASSUME NEW S, NEW all \in Seq(S), Len(all) > 1
    PROVE  Tail(all) \in Seq(S) /\ Ends(Tail(all), all, 1)
<1>1. all # <<>> /\ Len(all) \in Nat
  OBVIOUS
<1>2. Tail(all) \in Seq(S) /\ Len(Tail(all)) = Len(all) - 1
      /\ \A i \in 1 .. Len(Tail(all)) : Tail(all)[i] = all[i + 1]
  BY <1>1, HeadTailProperties
<1> QED BY <1>1, <1>2 DEF Ends

-----------------------------------------------------------------------------
(* The bars that are kept.                                                 *)

RawBars == [slot : Nat, seen : Int, fault : BOOLEAN]
Good(raw, i, s) == raw[i].slot = s /\ ~raw[i].fault

\* Of a slot that is kept there is a bar without a fault, and all of them are one.
LEMMA KeptIs ==
    ASSUME NEW raw \in Seq(RawBars)
    PROVE  /\ Kept(raw) = [s \in DOMAIN Kept(raw) |-> Kept(raw)[s]]
           /\ IsFiniteSet(DOMAIN Kept(raw)) /\ DOMAIN Kept(raw) \subseteq Nat
           /\ \A s \in DOMAIN Kept(raw) :
                /\ \E i \in 1 .. Len(raw) : Good(raw, i, s) /\ Kept(raw)[s] = raw[i].seen
                /\ \A i, j \in 1 .. Len(raw) : Good(raw, i, s) /\ Good(raw, j, s) => raw[i] = raw[j]
<1> DEFINE n == Len(raw)
           all == {raw[i] : i \in 1 .. n}
           slotOf == [i \in 1 .. n |-> raw[i].slot]
           K == {x \in {raw[i].slot : i \in DOMAIN raw} : Agree(Copies(raw, x))}
<1>1. n \in Nat /\ DOMAIN raw = 1 .. n /\ \A i \in 1 .. n : raw[i] \in RawBars
  OBVIOUS
<1>2. IsFiniteSet(all)
  BY <1>1, FiniteImage
<1>3. IsFiniteSet({slotOf[i] : i \in 1 .. n})
  <2> HIDE DEF slotOf, n
  <2> QED BY <1>1, FiniteImage
<1>4. K \in SUBSET {slotOf[i] : i \in 1 .. n}
  BY <1>1
<1>5. IsFiniteSet(K)
  <2> HIDE DEF K, slotOf
  <2> QED BY <1>3, <1>4, FS_Subset
<1>6. K \subseteq Nat
  BY <1>1 DEF RawBars
<1>7. Kept(raw) = [s \in K |-> (CHOOSE b \in Copies(raw, s) : TRUE).seen] /\ DOMAIN Kept(raw) = K
  BY DEF Kept
<1>8. ASSUME NEW s \in K
      PROVE  /\ \E i \in 1 .. n : Good(raw, i, s) /\ Kept(raw)[s] = raw[i].seen
             /\ \A i, j \in 1 .. n : Good(raw, i, s) /\ Good(raw, j, s) => raw[i] = raw[j]
  <2> DEFINE C == Copies(raw, s)
  <2>1. C \in SUBSET all /\ C = {raw[i] : i \in {j \in 1 .. n : Good(raw, j, s)}}
    BY <1>1 DEF Copies, Good
  <2>2. IsFiniteSet(C) /\ Cardinality(C) = 1
    <3>1. Cardinality(C) = 1
      BY DEF Agree
    <3>2. IsFiniteSet(C)
      <4> HIDE DEF C, all
      <4> QED BY <1>2, <2>1, FS_Subset
    <3> QED BY <3>1, <3>2
  <2>3. \E b : C = {b}
    <3> HIDE DEF C
    <3> QED BY <2>2, FS_Singleton
  <2>4. PICK b : C = {b}
    BY <2>3
  <2>5. (CHOOSE d \in C : TRUE) = b
    BY <2>4
  <2>6. Kept(raw)[s] = b.seen
    BY <1>7, <2>5
  <2>7. \A i \in 1 .. n : Good(raw, i, s) => raw[i] = b
    BY <2>1, <2>4
  <2>8. \E i \in 1 .. n : Good(raw, i, s) /\ raw[i] = b
    BY <2>1, <2>4
  <2> QED BY <2>6, <2>7, <2>8
<1> HIDE DEF K
<1> QED BY <1>5, <1>6, <1>7, <1>8

-----------------------------------------------------------------------------
(* Slots within slots.                                                     *)

\* A slot of r slots of a bars each is r times a bars long, and has every bar in one of them.
LEMMA SlotInSlot ==
    ASSUME NEW a \in Nat \ {0}, NEW r \in Nat \ {0}, NEW k \in Nat, NEW x \in Int,
           k * (r * a) <= x, x <= (k + 1) * (r * a) - 1
    PROVE  /\ x \div a \in (k * r) .. ((k + 1) * r - 1)
           /\ x \in ((x \div a) * a) .. ((x \div a + 1) * a - 1)
<1> DEFINE q == x \div a
           b == r * a
           u == (k + 1) * r
<1>1. q \in Int /\ q * a \in Int /\ q * a <= x /\ x < q * a + a
  BY Division
<1>2. b \in Int /\ k * r \in Int /\ u \in Int /\ k * b = (k * r) * a /\ (k + 1) * b = u * a
  OBVIOUS
<1>3. k * r <= q
  <2>1. (k * r) * a <= x
    BY <1>2
  <2> QED BY <1>2, <2>1, SlotBegins
<1>4. q < u
  <2>1. CASE u <= q
    <3>1. u * a \in Int /\ u * a <= q * a
      BY <1>1, <1>2, <2>1, Product
    <3>2. u * a <= x
      BY <1>1, <3>1
    <3>3. x <= u * a - 1
      BY <1>2
    <3> QED BY <3>1, <3>2, <3>3
  <2> HIDE DEF u, q
  <2> QED BY <1>1, <1>2, <2>1
<1>5. (q + 1) * a = q * a + a
  <2> HIDE DEF q
  <2> QED BY <1>1
<1>6. k * r <= q /\ q <= u - 1 /\ k * r \in Int /\ u - 1 \in Int
  <2> HIDE DEF u, q
  <2> QED BY <1>1, <1>2, <1>3, <1>4
<1>7. q \in (k * r) .. (u - 1)
  <2> HIDE DEF u, q
  <2> QED BY <1>1, <1>6
<1>8. x \in (q * a) .. ((q + 1) * a - 1)
  <2> HIDE DEF q
  <2> QED BY <1>1, <1>5
<1> QED BY <1>7, <1>8

\* Division undoes multiplication.
LEMMA Quotient ==
    ASSUME NEW a \in Nat \ {0}, NEW b \in Nat
    PROVE  (a * b) \div a = b
<1> DEFINE p == a * b
           q == p \div a
<1>1. p \in Int /\ b * a = p
  OBVIOUS
<1>2. q \in Int /\ q * a \in Int /\ q * a <= p /\ p < q * a + a
  BY Division
<1>3. b <= q
  BY <1>1, SlotBegins
<1>4. CASE b < q
  <2>1. b + 1 <= q /\ b + 1 \in Int
    BY <1>2, <1>4
  <2>2. (b + 1) * a \in Int /\ (b + 1) * a <= q * a
    BY <1>2, <2>1, Product
  <2>3. (b + 1) * a = p + a
    OBVIOUS
  <2> HIDE DEF p, q
  <2>4. p + a <= q * a
    BY <2>2, <2>3
  <2> QED BY <1>1, <1>2, <2>4
<1> HIDE DEF q
<1> QED BY <1>2, <1>3, <1>4 DEF q

\* The timeframes, and what a derived one is built from.
LEMMA RatiosAre ==
    /\ Ratio("H1") = 1 /\ Ratio("D1") \in Nat \ {0} /\ Ratio("W1") \in Nat \ {0} /\ Bar \in Nat \ {0}
    /\ Ratio("D1") \div Ratio("H1") = DaySlots /\ Ratio("D1") = DaySlots * Ratio("H1") /\ DaySlots \in Nat \ {0}
    /\ Ratio("W1") \div Ratio("D1") = WeekDays /\ Ratio("W1") = WeekDays * Ratio("D1") /\ WeekDays \in Nat \ {0}
<1>1. Bar \in Nat \ {0} /\ DaySlots \in Nat \ {0} /\ WeekDays \in Nat \ {0}
  BY SeriesAssumption
<1>2. Ratio("H1") = 1 /\ Ratio("D1") = DaySlots /\ Ratio("W1") = DaySlots * WeekDays
  BY DEF Ratio
<1>3. DaySlots * WeekDays \in Nat \ {0} /\ DaySlots * WeekDays = WeekDays * DaySlots
  <2>1. ASSUME NEW x \in Nat \ {0}, NEW y \in Nat \ {0} PROVE x * y \in Nat \ {0} /\ x * y = y * x
    OBVIOUS
  <2> QED BY <1>1, <2>1
<1>4. (DaySlots * WeekDays) \div DaySlots = WeekDays
  BY <1>1, Quotient
<1>5. DaySlots \div 1 = DaySlots /\ DaySlots * 1 = DaySlots
  BY <1>1
<1> QED BY <1>1, <1>2, <1>3, <1>4, <1>5

Timeframes == {"H1", "D1", "W1"}

\* Every timeframe is a number of bars long.
LEMMA DurationIs ==
    ASSUME NEW tf \in Timeframes
    PROVE  /\ Ratio(tf) \in Nat \ {0} /\ Duration(tf) \in Nat \ {0} /\ Duration(tf) = Ratio(tf) * Bar
           /\ Duration("H1") = Bar
<1>1. Ratio(tf) \in Nat \ {0} /\ Bar \in Nat \ {0} /\ Ratio("H1") = 1
  BY RatiosAre DEF Timeframes
<1>2. ASSUME NEW x \in Nat \ {0}, NEW y \in Nat \ {0} PROVE x * y \in Nat \ {0} /\ 1 * y = y
  OBVIOUS
<1> QED BY <1>1, <1>2 DEF Duration

-----------------------------------------------------------------------------
(* Candles, as of an instant.                                              *)

IsList(cs) == Len(cs) \in Nat /\ cs = [i \in 1 .. Len(cs) |-> cs[i]]

\* What holds of a candle of a timeframe: it was built from bars of its slot,
\* and when it is closed its slot is over and none of its bars is missing.
CandleOf(c, tf, kept, now) ==
    /\ {"slot", "closed", "parts"} \subseteq DOMAIN c
    /\ c.slot \in Nat /\ c.closed \in BOOLEAN
    /\ \A s \in DOMAIN c.parts : s \in DOMAIN kept /\ c.parts[s] = kept[s]
    /\ \E s \in DOMAIN kept : c.slot * Ratio(tf) <= s
    /\ c.closed => (c.slot + 1) * Duration(tf) <= now
    /\ c.closed => \A s \in InSlot(tf, c.slot) : MarketOpen(s) => s \in DOMAIN c.parts

Ordered(cs) == \A i, j \in 1 .. Len(cs) : i < j => cs[i].slot < cs[j].slot
CandlesOf(cs, tf, kept, now) ==
    IsList(cs) /\ Ordered(cs) /\ \A i \in 1 .. Len(cs) : CandleOf(cs[i], tf, kept, now)

\* The end of a sequence of candles is one as well.
LEMMA EndsAreCandles ==
    ASSUME NEW cs, NEW cut, NEW k \in Nat, NEW tf, NEW kept, NEW now,
           CandlesOf(cs, tf, kept, now), IsList(cut), Ends(cut, cs, k)
    PROVE  CandlesOf(cut, tf, kept, now)
<1>1. /\ Len(cs) \in Nat /\ Len(cut) \in Nat
      /\ \A i \in 1 .. Len(cut) : i + k \in 1 .. Len(cs) /\ cut[i] = cs[i + k]
  BY DEF CandlesOf, IsList, Ends
<1>2. \A i \in 1 .. Len(cut) : CandleOf(cut[i], tf, kept, now)
  BY <1>1 DEF CandlesOf
<1>3. Ordered(cut)
  <2> SUFFICES ASSUME NEW i \in 1 .. Len(cut), NEW j \in 1 .. Len(cut), i < j
               PROVE  cut[i].slot < cut[j].slot
    BY DEF Ordered
  <2>1. i + k < j + k /\ i + k \in 1 .. Len(cs) /\ j + k \in 1 .. Len(cs)
    BY <1>1
  <2> QED BY <1>1, <2>1 DEF CandlesOf, Ordered
<1> QED BY <1>2, <1>3 DEF CandlesOf

\* Lists are sequences of what they hold, and sequences are lists.
LEMMA ListsAreSequences ==
    ASSUME NEW cs, IsList(cs)
    PROVE  cs \in Seq({cs[i] : i \in 1 .. Len(cs)}) /\ DOMAIN cs = 1 .. Len(cs)
<1>1. \A i \in 1 .. Len(cs) : cs[i] \in {cs[j] : j \in 1 .. Len(cs)}
  OBVIOUS
<1> QED BY <1>1, Listed DEF IsList

\* Sequences are lists.
LEMMA SequencesAreLists ==
    ASSUME NEW S, NEW cs \in Seq(S)
    PROVE  IsList(cs)
<1>1. Len(cs) \in Nat /\ cs \in [1 .. Len(cs) -> S]
  OBVIOUS
<1> QED BY <1>1 DEF IsList

\* The candles that are shown are the last of those that were built.
LEMMA LastAreCandles ==
    ASSUME NEW cs, NEW limit \in Nat, NEW tf, NEW kept, NEW now, CandlesOf(cs, tf, kept, now)
    PROVE  CandlesOf(LastOf(cs, limit), tf, kept, now) /\ \E k \in Nat : Ends(LastOf(cs, limit), cs, k)
<1> DEFINE S == {cs[i] : i \in 1 .. Len(cs)}
           cut == LastOf(cs, limit)
<1>1. cs \in Seq(S)
  BY ListsAreSequences DEF CandlesOf
<1> HIDE DEF S
<1>2. cut \in Seq(S) /\ \E k \in Nat : Ends(cut, cs, k)
  BY <1>1, LastOfIs
<1>3. IsList(cut)
  BY <1>2, SequencesAreLists
<1> HIDE DEF cut
<1>4. CandlesOf(cut, tf, kept, now)
  BY <1>2, <1>3, EndsAreCandles
<1> QED BY <1>2, <1>4 DEF cut

-----------------------------------------------------------------------------
(* The series that is built from the bars.                                 *)

Over(kept, now) == {s \in DOMAIN kept : IsOver(s, now)}

\* Every bar that is kept is a candle; a usable series has none from the future.
LEMMA BuiltIs ==
    ASSUME NEW raw \in Seq(RawBars), NEW now \in Int
    PROVE  /\ CandlesOf(BuildSeries(raw, now).candles, "H1", Kept(raw), now)
           /\ \A i \in 1 .. Len(BuildSeries(raw, now).candles) :
                /\ BuildSeries(raw, now).candles[i].slot \in DOMAIN Kept(raw)
                /\ BuildSeries(raw, now).candles[i].closed = IsOver(BuildSeries(raw, now).candles[i].slot, now)
           /\ \A s \in DOMAIN Kept(raw) :
                \E i \in 1 .. Len(BuildSeries(raw, now).candles) : BuildSeries(raw, now).candles[i].slot = s
           /\ BuildSeries(raw, now).quality \notin Withheld => \A s \in DOMAIN Kept(raw) : s * Bar <= now
           /\ BuildSeries(raw, now).quality = "CURRENT" =>
                Cardinality(ExpectedSlots("H1", Max(Over(Kept(raw), now)), now - LagGrace)) <= CurrentMax
           /\ BuildSeries(raw, now) = [candles |-> BuildSeries(raw, now).candles, issues |-> BuildSeries(raw, now).issues,
                                       quality |-> BuildSeries(raw, now).quality]
<1> DEFINE kept == Kept(raw)
           K == DOMAIN kept
           order == InOrder(K)
           n == Len(order)
           problems == Screened(raw) \cup MissingBars(K) \cup Future(K, now) \cup Empty(K, Screened(raw))
           errors == \E i \in problems : i.error
           quality == Classify(Over(kept, now), errors, now)
           cs == [i \in DOMAIN order |-> Candle(kept, order[i], quality, now)]
<1>1. IsFiniteSet(K) /\ K \subseteq Nat /\ K \subseteq Int
  BY KeptIs
<1>2. /\ order \in Seq(K) /\ n \in Nat
      /\ \A i, j \in 1 .. n : i < j => order[i] < order[j]
      /\ \A s \in K : \E i \in 1 .. n : order[i] = s
  <2> HIDE DEF K
  <2> QED BY <1>1, InOrderIs
<1>3. BuildSeries(raw, now) = [candles |-> cs, issues |-> problems, quality |-> quality]
  BY Zenon DEF BuildSeries, Checked, Judged, Labelled, Over
<1>4. DOMAIN order = 1 .. n /\ \A i \in 1 .. n : order[i] \in K
  <2> HIDE DEF order, K
  <2> QED BY <1>2
<1> HIDE DEF order, n, problems, quality
<1>5. cs = [i \in 1 .. n |-> cs[i]] /\ \A i \in 1 .. n : cs[i] = Candle(kept, order[i], quality, now)
  BY <1>4
<1>6. Len(cs) = n /\ IsList(cs)
  <2> HIDE DEF cs
  <2>1. \A i \in 1 .. n : cs[i] \in {cs[j] : j \in 1 .. n}
    OBVIOUS
  <2>2. Len(cs) = n
    BY <1>2, <1>5, <2>1, Listed
  <2> QED BY <1>2, <1>5, <2>2 DEF IsList
<1> HIDE DEF cs, K, kept
<1>7. ASSUME NEW i \in 1 .. n
      PROVE  /\ CandleOf(cs[i], "H1", kept, now)
             /\ cs[i].slot = order[i] /\ cs[i].closed = IsOver(order[i], now)
  <2> DEFINE s == order[i]
             c == cs[i]
  <2>0. {"slot", "closed", "parts"} \subseteq DOMAIN c
    <3>1. c = Candle(kept, s, quality, now)
      BY <1>5
    <3> HIDE DEF c, s
    <3>2. DOMAIN Candle(kept, s, quality, now) = {"slot", "closed", "quality", "parts"}
      BY DEF Candle
    <3> QED BY <3>1, <3>2
  <2>1. s \in K /\ s \in Nat /\ s \in DOMAIN kept
    BY <1>1, <1>4 DEF K
  <2>2. /\ c.slot = s /\ c.closed = IsOver(s, now) /\ DOMAIN c.parts = {s} /\ c.parts[s] = kept[s]
    <3>1. c = Candle(kept, s, quality, now)
      BY <1>5
    <3> HIDE DEF c, s
    <3>2. c.slot = s /\ c.closed = IsOver(s, now) /\ c.parts = [p \in {s} |-> kept[p]]
      BY <3>1, Zenon DEF Candle
    <3> QED BY <3>2
  <2> HIDE DEF s, c
  <2>3. Ratio("H1") = 1 /\ Duration("H1") = Bar /\ Bar \in Nat
    BY RatiosAre, DurationIs DEF Timeframes
  <2>4. c.closed \in BOOLEAN
    BY <2>2 DEF IsOver
  <2>5. s * Ratio("H1") <= s
    BY <2>1, <2>3
  <2>6. c.closed => (c.slot + 1) * Duration("H1") <= now
    BY <2>2, <2>3 DEF IsOver
  <2>7. \A x \in InSlot("H1", s) : x \in DOMAIN c.parts
    <3>1. InSlot("H1", s) = (s * 1) .. ((s + 1) * 1 - 1)
      BY <2>3 DEF InSlot
    <3>2. \A x \in (s * 1) .. ((s + 1) * 1 - 1) : x = s
      BY <2>1
    <3> QED BY <2>2, <3>1, <3>2
  <2>8. CandleOf(c, "H1", kept, now)
    BY <2>0, <2>1, <2>2, <2>4, <2>5, <2>6, <2>7 DEF CandleOf
  <2> QED BY <2>2, <2>8 DEF c, s
<1>8. CandlesOf(cs, "H1", kept, now)
  <2>1. Ordered(cs)
    BY <1>2, <1>6, <1>7 DEF Ordered
  <2> QED BY <1>6, <1>7, <2>1 DEF CandlesOf
<1>9. quality \notin Withheld => \A s \in K : s * Bar <= now
  <2> SUFFICES ASSUME quality \notin Withheld, NEW s \in K, ~(s * Bar <= now) PROVE FALSE
    OBVIOUS
  <2>1. s * Bar \in Int /\ s * Bar > now
    <3>1. s \in Nat /\ Bar \in Nat
      BY <1>1, SeriesAssumption
    <3>2. s * Bar \in Int
      BY <3>1
    <3> QED BY <3>2
  <2>2. Issue("NON_UTC_TIMESTAMP", TRUE, s) \in Future(K, now)
    BY <2>1 DEF Future
  <2>3. Issue("NON_UTC_TIMESTAMP", TRUE, s) \in problems /\ Issue("NON_UTC_TIMESTAMP", TRUE, s).error
    BY <2>2 DEF problems, Issue
  <2>4. errors
    BY <2>3
  <2>5. quality = "INVALID"
    BY <2>4 DEF quality, Classify
  <2> QED BY <2>5 DEF Withheld
<1>10. quality = "CURRENT" => Cardinality(ExpectedSlots("H1", Max(Over(kept, now)), now - LagGrace)) <= CurrentMax
  <2> SUFFICES ASSUME quality = "CURRENT"
               PROVE  Cardinality(ExpectedSlots("H1", Max(Over(kept, now)), now - LagGrace)) <= CurrentMax
    OBVIOUS
  <2> DEFINE missing == Cardinality(ExpectedSlots("H1", Max(Over(kept, now)), now - LagGrace))
  <2>1. Lag(missing) = "CURRENT"
    BY Zenon DEF quality, Classify
  <2> HIDE DEF missing
  <2>2. missing <= CurrentMax
    BY <2>1 DEF Lag
  <2> QED BY <2>2 DEF missing
<1>11. DOMAIN kept = K
  BY DEF K
<1> HIDE DEF errors
<1>12. /\ BuildSeries(raw, now).candles = cs
       /\ BuildSeries(raw, now).quality = quality
       /\ BuildSeries(raw, now).issues = problems
  BY <1>3
<1>13. \A i \in 1 .. n : cs[i].slot \in K /\ cs[i].closed = IsOver(cs[i].slot, now)
  BY <1>4, <1>7
<1>14. \A s \in K : \E i \in 1 .. n : cs[i].slot = s
  BY <1>2, <1>7
<1> QED BY <1>3, <1>6, <1>8, <1>9, <1>10, <1>11, <1>12, <1>13, <1>14 DEF kept

-----------------------------------------------------------------------------
(* The timeframes that are derived.                                        *)

Steps(from, to) == <<from, to>> \in {<<"H1", "D1">>, <<"D1", "W1">>}

\* A step up is by a whole number of slots.
LEMMA StepsAre ==
    ASSUME NEW from, NEW to, Steps(from, to)
    PROVE  /\ from \in Timeframes /\ to \in Timeframes
           /\ Ratio(from) \in Nat \ {0} /\ Ratio(to) \in Nat \ {0}
           /\ Ratio(to) \div Ratio(from) \in Nat \ {0}
           /\ Ratio(to) = (Ratio(to) \div Ratio(from)) * Ratio(from)
<1>1. (from = "H1" /\ to = "D1") \/ (from = "D1" /\ to = "W1")
  BY DEF Steps
<1> QED BY <1>1, RatiosAre DEF Timeframes

\* What is known of the candles that go into one.
Members(members, from, kept, now) == \A c \in members : CandleOf(c, from, kept, now)

\* A bucket that is filled with candles of its slot is a candle of the higher timeframe.
LEMMA BucketIs ==
    ASSUME NEW from, NEW to, Steps(from, to), NEW kept, DOMAIN kept \subseteq Nat, NEW now \in Int, NEW k \in Nat,
           NEW members, members # {}, Members(members, from, kept, now),
           \A c \in members : k * (Ratio(to) \div Ratio(from)) <= c.slot
    PROVE  CandleOf(Bucket(k, members, Expected(from, Ratio(to) \div Ratio(from), k), (k + 1) * Duration(to) <= now),
                    to, kept, now)
<1> DEFINE a == Ratio(from)
           r == Ratio(to) \div Ratio(from)
           expected == Expected(from, r, k)
           over == (k + 1) * Duration(to) <= now
           b == Bucket(k, members, expected, over)
           P == UNION {DOMAIN c.parts : c \in members}
<1>1. a \in Nat \ {0} /\ r \in Nat \ {0} /\ Ratio(to) = r * a
  BY StepsAre
<1>2. /\ b.slot = k
      /\ b.closed = (Complete(members, expected) /\ (\A c \in members : c.closed) /\ over)
      /\ b.parts = [p \in P |-> (CHOOSE c \in members : p \in DOMAIN c.parts).parts[p]]
  BY Zenon DEF Bucket
<1>3. b.closed \in BOOLEAN /\ {"slot", "closed", "parts"} \subseteq DOMAIN b
  <2>1. DOMAIN b = {"slot", "closed", "whole", "quality", "parts"}
    BY DEF Bucket
  <2> HIDE DEF b
  <2> QED BY <1>2, <2>1
<1>4. \A s \in DOMAIN b.parts : s \in DOMAIN kept /\ b.parts[s] = kept[s]
  <2> SUFFICES ASSUME NEW s \in P PROVE s \in DOMAIN kept /\ b.parts[s] = kept[s]
    BY <1>2
  <2> DEFINE m == CHOOSE c \in members : s \in DOMAIN c.parts
  <2>1. m \in members /\ s \in DOMAIN m.parts
    BY Zenon
  <2>2. b.parts[s] = m.parts[s]
    BY <1>2
  <2> HIDE DEF m, b, P
  <2>3. CandleOf(m, from, kept, now)
    BY <2>1 DEF Members
  <2> QED BY <2>1, <2>2, <2>3 DEF CandleOf
<1>5. \E s \in DOMAIN kept : k * Ratio(to) <= s
  <2>1. PICK m \in members : TRUE
    OBVIOUS
  <2>2. CandleOf(m, from, kept, now) /\ k * r <= m.slot
    BY DEF Members
  <2>3. PICK s \in DOMAIN kept : m.slot * a <= s
    BY <2>2 DEF CandleOf
  <2>4. m.slot \in Nat /\ s \in Nat
    BY <2>2 DEF CandleOf
  <2> DEFINE x == m.slot
  <2> HIDE DEF a, r, x
  <2>5. k * r \in Int /\ x \in Int
    BY <1>1, <2>4 DEF x
  <2>6. (k * r) * a <= x * a /\ (k * r) * a = k * (r * a) /\ x * a \in Int /\ k * (r * a) \in Int
    <3>1. (k * r) * a \in Int /\ x * a \in Int /\ (k * r) * a <= x * a
      BY <1>1, <2>2, <2>5, Product DEF x
    <3>2. (k * r) * a = k * (r * a)
      BY <1>1
    <3> QED BY <3>1, <3>2
  <2>7. x * a <= s
    BY <2>3 DEF x, a
  <2>8. k * (r * a) <= s
    BY <2>4, <2>6, <2>7
  <2> QED BY <1>1, <2>8
<1>6. b.closed => (b.slot + 1) * Duration(to) <= now
  BY <1>2
<1>7. ASSUME b.closed, NEW x \in InSlot(to, k), MarketOpen(x) PROVE x \in DOMAIN b.parts
  <2> DEFINE q == x \div a
  <2>1. x \in Int /\ k * (r * a) <= x /\ x <= (k + 1) * (r * a) - 1
    <3>1. x \in (k * Ratio(to)) .. ((k + 1) * Ratio(to) - 1)
      BY <1>7 DEF InSlot
    <3>2. k * (r * a) \in Int /\ (k + 1) * (r * a) - 1 \in Int
      <4> HIDE DEF r, a
      <4> QED BY <1>1
    <3> HIDE DEF r, a
    <3> QED BY <1>1, <3>1, <3>2
  <2>2. q \in (k * r) .. ((k + 1) * r - 1) /\ x \in (q * a) .. ((q + 1) * a - 1)
    <3> HIDE DEF r, a
    <3> QED BY <1>1, <2>1, SlotInSlot
  <2>3. x \in InSlot(from, q)
    BY <2>2 DEF InSlot
  <2>4. HasOpenMarket(from, q)
    BY <1>7, <2>3 DEF HasOpenMarket
  <2>5. q \in expected
    BY <2>2, <2>4 DEF Expected
  <2> HIDE DEF q, expected
  <2>6. Complete(members, expected) /\ \A c \in members : c.closed
    BY <1>2, <1>7
  <2>7. PICK m \in members : m.slot = q
    BY <2>5, <2>6 DEF Complete
  <2>8. CandleOf(m, from, kept, now) /\ m.closed
    BY <2>6 DEF Members
  <2>9. x \in DOMAIN m.parts
    BY <1>7, <2>3, <2>7, <2>8 DEF CandleOf
  <2>10. x \in P
    BY <2>9
  <2> HIDE DEF b, P
  <2> QED BY <1>2, <2>10
<1> HIDE DEF b
<1>8. \A x \in InSlot(to, b.slot) : b.closed /\ MarketOpen(x) => x \in DOMAIN b.parts
  BY <1>2, <1>7
<1>9. CandleOf(b, to, kept, now)
  BY <1>2, <1>3, <1>4, <1>5, <1>6, <1>8 DEF CandleOf
<1> QED BY <1>9 DEF b

\* Aggregation turns candles into candles.
LEMMA AggregateIs ==
    ASSUME NEW from, NEW to, Steps(from, to), NEW kept, DOMAIN kept \subseteq Nat, NEW now \in Int,
           NEW cs, CandlesOf(cs, from, kept, now)
    PROVE  CandlesOf(Aggregate(cs, from, to, now), to, kept, now)
<1> DEFINE r == Ratio(to) \div Ratio(from)
           n == Len(cs)
           slotOf == [i \in 1 .. n |-> cs[i].slot \div r]
           S == {cs[i].slot \div r : i \in DOMAIN cs}
           order == InOrder(S)
           m == Len(order)
           Of(i) == {cs[j] : j \in {h \in DOMAIN cs : cs[h].slot \div r = order[i]}}
           It(i) == Bucket(order[i], Of(i), Expected(from, r, order[i]), (order[i] + 1) * Duration(to) <= now)
           bs == Aggregate(cs, from, to, now)
<1>1. r \in Nat \ {0}
  BY StepsAre
<1>2. n \in Nat /\ DOMAIN cs = 1 .. n /\ \A i \in 1 .. n : CandleOf(cs[i], from, kept, now)
  BY ListsAreSequences DEF CandlesOf, IsList
<1>3. \A i \in 1 .. n : cs[i].slot \in Nat
  BY <1>2 DEF CandleOf
<1>4. bs = [i \in DOMAIN order |-> It(i)]
  BY Zenon DEF Aggregate, Grouped
<1> HIDE DEF r, n
<1>5. \A i \in 1 .. n : /\ cs[i].slot \div r \in Nat
                        /\ (cs[i].slot \div r) * r <= cs[i].slot
  <2> SUFFICES ASSUME NEW i \in 1 .. n
               PROVE  cs[i].slot \div r \in Nat /\ (cs[i].slot \div r) * r <= cs[i].slot
    OBVIOUS
  <2> DEFINE x == cs[i].slot
  <2>1. x \in Nat
    BY <1>3
  <2> HIDE DEF x
  <2>2. x \div r \in Int /\ (x \div r) * r <= x
    BY <1>1, <2>1, Division
  <2>3. 0 <= x \div r
    BY <1>1, <2>1
  <2>4. x \div r \in Nat
    <3> DEFINE q == x \div r
    <3> HIDE DEF q
    <3>1. q \in Int /\ 0 <= q
      BY <2>2, <2>3 DEF q
    <3>2. q \in Nat
      BY <3>1
    <3> QED BY <3>2 DEF q
  <2> QED BY <2>2, <2>4 DEF x
<1>6. IsFiniteSet(S) /\ S \subseteq Nat /\ S \subseteq Int
  <2>1. S = {slotOf[i] : i \in 1 .. n}
    BY <1>2
  <2>2. IsFiniteSet({slotOf[i] : i \in 1 .. n})
    <3> HIDE DEF slotOf
    <3> QED BY <1>2, FiniteImage
  <2>3. S \subseteq Nat
    BY <1>2, <1>5
  <2> HIDE DEF S, slotOf
  <2> QED BY <2>1, <2>2, <2>3
<1>7. /\ order \in Seq(S) /\ m \in Nat
      /\ \A i, j \in 1 .. m : i < j => order[i] < order[j]
  <2> HIDE DEF S
  <2> QED BY <1>6, InOrderIs
<1>8. DOMAIN order = 1 .. m /\ \A i \in 1 .. m : order[i] \in S
  <2> HIDE DEF order, S
  <2> QED BY <1>7
<1> HIDE DEF order, m
<1>9. ASSUME NEW i \in 1 .. m PROVE CandleOf(It(i), to, kept, now) /\ It(i).slot = order[i]
  <2>1. PICK j \in 1 .. n : cs[j].slot \div r = order[i]
    BY <1>2, <1>8
  <2>2. cs[j] \in Of(i)
    BY <1>2, <2>1
  <2>3. order[i] \in Nat
    BY <1>6, <1>8
  <2> DEFINE M == Of(i)
             k == order[i]
  <2>4. Members(M, from, kept, now)
    BY <1>2 DEF Members
  <2>5. \A c \in M : k * r <= c.slot
    BY <1>2, <1>5
  <2>6. M # {}
    BY <2>2
  <2>7. It(i) = Bucket(k, M, Expected(from, r, k), (k + 1) * Duration(to) <= now)
    BY Zenon
  <2> HIDE DEF M, k, It, Of
  <2>8. k \in Nat
    BY <2>3 DEF k
  <2>9. CandleOf(Bucket(k, M, Expected(from, r, k), (k + 1) * Duration(to) <= now), to, kept, now)
    BY <2>4, <2>5, <2>6, <2>8, BucketIs DEF r
  <2>10. Bucket(k, M, Expected(from, r, k), (k + 1) * Duration(to) <= now).slot = k
    BY Zenon DEF Bucket
  <2> QED BY <2>7, <2>9, <2>10 DEF k
<1> HIDE DEF It
<1>10. bs = [i \in 1 .. m |-> It(i)]
  BY <1>4, <1>8
<1> HIDE DEF bs
<1>11. bs = [i \in 1 .. m |-> bs[i]] /\ \A i \in 1 .. m : bs[i] = It(i)
  BY <1>10
<1>12. Len(bs) = m /\ IsList(bs)
  <2>1. \A i \in 1 .. m : bs[i] \in {bs[j] : j \in 1 .. m}
    OBVIOUS
  <2>2. Len(bs) = m
    BY <1>7, <1>11, <2>1, Listed
  <2> QED BY <1>7, <1>11, <2>2 DEF IsList
<1>13. Ordered(bs)
  BY <1>7, <1>9, <1>11, <1>12 DEF Ordered
<1>14. CandlesOf(bs, to, kept, now)
  BY <1>9, <1>11, <1>12, <1>13 DEF CandlesOf
<1> QED BY <1>14 DEF bs

\* No candles are candles of anything.
LEMMA NoCandles ==
    ASSUME NEW tf, NEW kept, NEW now
    PROVE  CandlesOf(<<>>, tf, kept, now)
<1>1. Len(<<>>) = 0 /\ <<>> = [i \in 1 .. Len(<<>>) |-> <<>>[i]] /\ 1 .. 0 = {}
  OBVIOUS
<1> QED BY <1>1 DEF CandlesOf, IsList, Ordered

\* The first bucket may go.
LEMMA WithoutEdgeIs ==
    ASSUME NEW cs, NEW issues, NEW tf, NEW to, NEW kept, NEW now, CandlesOf(cs, tf, kept, now)
    PROVE  CandlesOf(WithoutEdge(cs, issues, to).candles, tf, kept, now)
<1>1. CASE Len(cs) <= 1
  <2>1. WithoutEdge(cs, issues, to).candles = cs
    BY <1>1 DEF WithoutEdge
  <2> QED BY <2>1
<1>2. CASE ~(Len(cs) <= 1)
  <2> DEFINE S == {cs[i] : i \in 1 .. Len(cs)}
             cut == Tail(cs)
  <2>1. WithoutEdge(cs, issues, to).candles = cut
    BY <1>2, Zenon DEF WithoutEdge
  <2>2. cs \in Seq(S) /\ Len(cs) \in Nat
    BY ListsAreSequences DEF CandlesOf, IsList
  <2> HIDE DEF S
  <2>3. cut \in Seq(S) /\ Ends(cut, cs, 1)
    BY <1>2, <2>2, TailIs
  <2>4. IsList(cut)
    BY <2>3, SequencesAreLists
  <2> HIDE DEF cut
  <2>5. CandlesOf(cut, tf, kept, now)
    BY <2>3, <2>4, EndsAreCandles
  <2> QED BY <2>1, <2>5
<1> QED BY <1>1, <1>2

\* A candle stays one when its quality is that of the series.
LEMMA RelabelledIs ==
    ASSUME NEW cs, NEW q, NEW tf, NEW kept, NEW now, CandlesOf(cs, tf, kept, now)
    PROVE  CandlesOf([i \in DOMAIN cs |-> [cs[i] EXCEPT !.quality = q]], tf, kept, now)
<1> DEFINE n == Len(cs)
           new == [i \in DOMAIN cs |-> [cs[i] EXCEPT !.quality = q]]
<1>1. n \in Nat /\ DOMAIN cs = 1 .. n /\ \A i \in 1 .. n : CandleOf(cs[i], tf, kept, now)
  BY ListsAreSequences DEF CandlesOf, IsList
<1>2. ASSUME NEW c, CandleOf(c, tf, kept, now) PROVE CandleOf([c EXCEPT !.quality = q], tf, kept, now) /\ [c EXCEPT !.quality = q].slot = c.slot
  <2> DEFINE d == [c EXCEPT !.quality = q]
  <2>1. {"slot", "closed", "parts"} \subseteq DOMAIN c
    BY <1>2 DEF CandleOf
  <2>2. DOMAIN d = DOMAIN c /\ d.slot = c.slot /\ d.closed = c.closed /\ d.parts = c.parts
    BY <2>1
  <2> HIDE DEF d
  <2>3. CandleOf(d, tf, kept, now)
    BY <1>2, <2>2 DEF CandleOf
  <2> QED BY <2>2, <2>3 DEF d
<1>3. \A i \in 1 .. n : new[i] = [cs[i] EXCEPT !.quality = q]
  BY <1>1
<1>4. new = [i \in 1 .. n |-> new[i]]
  BY <1>1
<1> HIDE DEF new, n
<1>5. Len(new) = n /\ IsList(new)
  <2>1. \A i \in 1 .. n : new[i] \in {new[j] : j \in 1 .. n}
    OBVIOUS
  <2>2. Len(new) = n
    BY <1>1, <1>4, <2>1, Listed
  <2> QED BY <1>1, <1>4, <2>2 DEF IsList
<1>6. \A i \in 1 .. n : CandleOf(new[i], tf, kept, now) /\ new[i].slot = cs[i].slot
  <2> SUFFICES ASSUME NEW i \in 1 .. n PROVE CandleOf(new[i], tf, kept, now) /\ new[i].slot = cs[i].slot
    OBVIOUS
  <2>1. CandleOf(cs[i], tf, kept, now)
    BY <1>1
  <2>2. CandleOf([cs[i] EXCEPT !.quality = q], tf, kept, now) /\ [cs[i] EXCEPT !.quality = q].slot = cs[i].slot
    BY <1>2, <2>1
  <2> QED BY <1>3, <2>2
<1>7. Ordered(new)
  BY <1>5, <1>6 DEF Ordered, CandlesOf, n
<1>8. CandlesOf(new, tf, kept, now)
  BY <1>5, <1>6, <1>7 DEF CandlesOf
<1> QED BY <1>8 DEF new

IsSeries(series) ==
    series = [candles |-> series.candles, issues |-> series.issues, quality |-> series.quality]

\* What was derived takes the place of what it was derived from.
LEMMA OntoIs ==
    ASSUME NEW series, IsSeries(series), NEW edged, NEW tf, NEW kept, NEW now,
           CandlesOf(edged.candles, tf, kept, now)
    PROVE  /\ IsSeries(Onto(series, edged)) /\ Onto(series, edged).quality = series.quality
           /\ CandlesOf(Onto(series, edged).candles, tf, kept, now)
<1> DEFINE new == [i \in DOMAIN edged.candles |-> [edged.candles[i] EXCEPT !.quality = series.quality]]
           both == series.issues \cup edged.issues
           with == Onto(series, edged)
<1>1. CandlesOf(new, tf, kept, now)
  BY RelabelledIs
<1>2. DOMAIN series = {"candles", "issues", "quality"}
  BY DEF IsSeries
<1>3. with = [series EXCEPT !.candles = new, !.issues = both]
  BY Zenon DEF Onto
<1> HIDE DEF new, both, with
<1>4. with = [candles |-> new, issues |-> both, quality |-> series.quality]
  BY <1>2, <1>3
<1>5. with.candles = new /\ with.issues = both /\ with.quality = series.quality
  BY <1>4
<1> QED BY <1>1, <1>4, <1>5 DEF with, IsSeries

\* Days and weeks are built of candles of their slots.
LEMMA DeriveIs ==
    ASSUME NEW series, IsSeries(series), NEW kept, DOMAIN kept \subseteq Nat, NEW now \in Int, NEW tf \in {"D1", "W1"},
           CandlesOf(series.candles, "H1", kept, now)
    PROVE  /\ IsSeries(Derive(series, tf, now)) /\ Derive(series, tf, now).quality = series.quality
           /\ CandlesOf(Derive(series, tf, now).candles, tf, kept, now)
<1> DEFINE days == Aggregate(series.candles, "H1", "D1", now)
           weeks == Aggregate(days, "D1", "W1", now)
<1>1. CandlesOf(days, "D1", kept, now)
  BY AggregateIs DEF Steps
<1>2. CandlesOf(weeks, "W1", kept, now)
  <2> HIDE DEF days
  <2> QED BY <1>1, AggregateIs DEF Steps
<1> HIDE DEF weeks, days
<1>3. CASE tf = "D1"
  <2> DEFINE edged == WithoutEdge(days, Incomplete(days, "D1", now), "D1")
  <2>1. CandlesOf(edged.candles, "D1", kept, now)
    BY <1>1, WithoutEdgeIs
  <2>2. Derive(series, tf, now) = Onto(series, edged)
    BY <1>3, Zenon DEF Derive, FromDays, days
  <2> HIDE DEF edged
  <2> QED BY <1>3, <2>1, <2>2, OntoIs
<1>4. CASE tf = "W1"
  <2> DEFINE edged == Weekly(days, weeks, now)
  <2>1. CandlesOf(edged.candles, "W1", kept, now)
    BY <1>2, WithoutEdgeIs DEF Weekly
  <2>2. Derive(series, tf, now) = Onto(series, edged)
    <3>1. tf # "D1"
      BY <1>4
    <3> QED BY <3>1, Zenon DEF Derive, FromDays, days, weeks
  <2> HIDE DEF edged
  <2> QED BY <1>4, <2>1, <2>2, OntoIs
<1> QED BY <1>3, <1>4

-----------------------------------------------------------------------------
(* What a load shows.                                                      *)

Loads == [tf : Timeframes, limit : Nat, needed : Nat, end : Nat]

\* A load shows candles of its timeframe, and none when the series is withheld.
LEMMA LoadedIs ==
    ASSUME NEW series, IsSeries(series), NEW kept, DOMAIN kept \subseteq Nat, NEW now \in Int, NEW load \in Loads,
           CandlesOf(series.candles, "H1", kept, now)
    PROVE  /\ Loaded(series, load, now).quality = series.quality
           /\ CandlesOf(Loaded(series, load, now).candles, load.tf, kept, now)
           /\ series.quality \in Withheld => Loaded(series, load, now).candles = <<>>
           /\ series.quality \notin Withheld /\ load.tf = "H1" =>
                Loaded(series, load, now).candles = LastOf(series.candles, load.limit)
<1> DEFINE of == IF load.tf = "H1" \/ series.quality \in Withheld THEN series ELSE Derive(series, load.tf, now)
           reply == Loaded(series, load, now)
<1>1. load.tf \in Timeframes /\ load.limit \in Nat
  BY DEF Loads
<1>2. reply = Shown(of, load.limit)
  BY Zenon DEF Loaded
<1>3. IsSeries(of) /\ of.quality = series.quality /\ (series.quality \notin Withheld => CandlesOf(of.candles, load.tf, kept, now))
  <2>1. CASE load.tf = "H1" \/ series.quality \in Withheld
    BY <2>1
  <2>2. CASE ~(load.tf = "H1" \/ series.quality \in Withheld)
    <3>1. of = Derive(series, load.tf, now) /\ load.tf \in {"D1", "W1"}
      BY <1>1, <2>2 DEF Timeframes
    <3> HIDE DEF of
    <3> QED BY <3>1, DeriveIs
  <2> QED BY <2>1, <2>2
<1>4. load.tf = "H1" => of = series
  OBVIOUS
<1> HIDE DEF of, reply
<1>5. CASE series.quality \in Withheld
  <2>1. reply = [of EXCEPT !.candles = <<>>]
    BY <1>2, <1>3, <1>5 DEF Shown
  <2>2. reply.candles = <<>> /\ reply.quality = of.quality
    BY <1>3, <2>1 DEF IsSeries
  <2> QED BY <1>3, <1>5, <2>2, NoCandles DEF reply
<1>6. CASE series.quality \notin Withheld
  <2> DEFINE cut == LastOf(of.candles, load.limit)
  <2>1. reply = [of EXCEPT !.candles = cut]
    BY <1>2, <1>3, <1>6 DEF Shown
  <2>2. CandlesOf(cut, load.tf, kept, now)
    BY <1>1, <1>3, <1>6, LastAreCandles
  <2> HIDE DEF cut
  <2>3. reply.candles = cut /\ reply.quality = of.quality
    BY <1>3, <2>1 DEF IsSeries
  <2> QED BY <1>3, <1>4, <1>6, <2>2, <2>3 DEF reply, cut
<1> QED BY <1>5, <1>6

-----------------------------------------------------------------------------
(* What a task is answered with.                                           *)

\* A history as the broker had it at an instant.
HistoryRead(doubled, raw, at) ==
    raw \in Seq(BarsRead(doubled, at)) /\ InSlots(raw) /\ Twice(raw, doubled)

\* An answer is the end of a history that is younger than the grace.
Answered(doubled, answer, now) ==
    answer # Nothing => \E at \in Int, limit \in Nat : \E raw :
                          now - StaleGrace < at /\ HistoryRead(doubled, raw, at) /\ answer = LastOf(raw, limit)

\* Bars that were read are bars.
LEMMA BarsReadAre ==
    ASSUME NEW doubled, NEW at \in Int, NEW raw \in Seq(BarsRead(doubled, at))
    PROVE  raw \in Seq(RawBars) /\ \A i \in 1 .. Len(raw) : raw[i] \in BarsRead(doubled, at) /\ raw[i].slot \in Nat
<1>1. BarsRead(doubled, at) \subseteq RawBars
  BY DEF BarsRead, RawBars
<1>2. \A i \in 1 .. Len(raw) : raw[i] \in BarsRead(doubled, at)
  OBVIOUS
<1>3. \A b \in RawBars : b.slot \in Nat
  BY DEF RawBars
<1> QED BY <1>1, <1>2, <1>3

\* The cut leaves bars as they were, and takes one of two only of its first slot.
LEMMA AnswerIs ==
    ASSUME NEW at \in Int, NEW limit \in Nat, NEW raw, HistoryRead(scene.doubled, raw, at)
    PROVE  /\ LastOf(raw, limit) \in Seq(BarsRead(scene.doubled, at))
           /\ \A i \in 1 .. Len(LastOf(raw, limit)) :
                LastOf(raw, limit)[i].slot \in scene.doubled
                  => LastOf(raw, limit)[i].slot = LastOf(raw, limit)[1].slot \/ Contradicts(LastOf(raw, limit), i)
<1> DEFINE B == BarsRead(scene.doubled, at)
           cut == LastOf(raw, limit)
           n == Len(cut)
<1>1. raw \in Seq(B) /\ InSlots(raw) /\ Twice(raw, scene.doubled)
  BY DEF HistoryRead
<1>2. \A i \in 1 .. Len(raw) : raw[i].slot \in Nat
  BY <1>1, BarsReadAre
<1> HIDE DEF B
<1>3. cut \in Seq(B) /\ \E k \in Nat : Ends(cut, raw, k)
  BY <1>1, LastOfIs
<1>4. PICK k \in Nat : Ends(cut, raw, k)
  BY <1>3
<1> HIDE DEF cut
<1>5. /\ n \in Nat /\ Len(raw) \in Nat /\ Len(raw) = n + k
      /\ \A i \in 1 .. n : i + k \in 1 .. Len(raw) /\ cut[i] = raw[i + k]
  <2>1. n \in Nat /\ Len(raw) \in Nat
    BY <1>1, <1>3
  <2>2. k \in 0 .. Len(raw) /\ n = Len(raw) - k /\ \A i \in 1 .. n : cut[i] = raw[i + k]
    BY <1>4 DEF Ends
  <2> HIDE DEF n
  <2> QED BY <2>1, <2>2
<1> HIDE DEF n
<1>6. ASSUME NEW i \in 1 .. n, cut[i].slot \in scene.doubled, cut[i].slot # cut[1].slot
      PROVE  Contradicts(cut, i)
  <2>1. i + k \in 1 .. Len(raw) /\ cut[i] = raw[i + k] /\ 1 \in 1 .. n /\ 1 + k \in 1 .. Len(raw) /\ cut[1] = raw[1 + k]
    <3>1. 1 \in 1 .. n
      BY <1>5
    <3> QED BY <1>5, <3>1
  <2>2. Contradicts(raw, i + k)
    BY <1>1, <1>6, <2>1 DEF Twice
  <2>3. ASSUME NEW j \in 1 .. Len(raw), raw[j].slot = cut[i].slot PROVE j - k \in 1 .. n /\ cut[j - k] = raw[j]
    <3>1. ~(j <= 1 + k)
      <4> SUFFICES ASSUME j <= 1 + k PROVE FALSE
        OBVIOUS
      <4>1. raw[j].slot <= raw[1 + k].slot /\ raw[1 + k].slot <= raw[i + k].slot
        <5>1. 1 + k <= i + k
          BY <1>5
        <5> QED BY <1>1, <2>1, <5>1 DEF InSlots
      <4>2. raw[j].slot \in Nat /\ raw[1 + k].slot \in Nat
        BY <1>2, <2>1
      <4>3. raw[1 + k].slot = raw[j].slot
        BY <2>1, <2>3, <4>1, <4>2
      <4> QED BY <1>6, <2>1, <2>3, <4>3
    <3>2. j - k \in 1 .. n /\ (j - k) + k = j
      BY <1>5, <3>1
    <3> QED BY <1>5, <3>2
  <2>4. PICK j \in 1 .. Len(raw), h \in 1 .. Len(raw) :
          /\ raw[j].slot = raw[i + k].slot /\ raw[h].slot = raw[i + k].slot
          /\ raw[j].fault = raw[i + k].fault /\ raw[h].fault = raw[i + k].fault /\ raw[j].seen # raw[h].seen
    BY <2>2 DEF Contradicts
  <2>5. j - k \in 1 .. n /\ cut[j - k] = raw[j] /\ h - k \in 1 .. n /\ cut[h - k] = raw[h]
    BY <2>1, <2>3, <2>4
  <2> QED BY <2>1, <2>4, <2>5 DEF Contradicts, n
<1>7. \A i \in 1 .. n : cut[i].slot \in scene.doubled => cut[i].slot = cut[1].slot \/ Contradicts(cut, i)
  BY <1>6
<1> QED BY <1>3, <1>7 DEF B, cut, n

\* What is kept of an answer is final once it is older than the grace.
LEMMA KeptIsFinal ==
    ASSUME NEW now \in Int, NEW answer, Answered(scene.doubled, answer, now), answer # Nothing,
           NEW s \in DOMAIN Kept(answer), (s + 1) * Bar <= now - StaleGrace, ~Torn(answer, s)
    PROVE  Kept(answer)[s] = Bar
<1>0. PICK at \in Int, limit \in Nat : \E raw : now - StaleGrace < at /\ HistoryRead(scene.doubled, raw, at) /\ answer = LastOf(raw, limit)
  BY DEF Answered
<1>1. PICK raw : now - StaleGrace < at /\ HistoryRead(scene.doubled, raw, at) /\ answer = LastOf(raw, limit)
  BY <1>0
<1>2. /\ answer \in Seq(BarsRead(scene.doubled, at))
      /\ \A i \in 1 .. Len(answer) :
           answer[i].slot \in scene.doubled => answer[i].slot = answer[1].slot \/ Contradicts(answer, i)
  BY <1>1, AnswerIs
<1>3. answer \in Seq(RawBars) /\ \A i \in 1 .. Len(answer) : answer[i] \in BarsRead(scene.doubled, at)
  BY <1>2, BarsReadAre
<1>4. /\ s \in Nat
      /\ \E i \in 1 .. Len(answer) : Good(answer, i, s) /\ Kept(answer)[s] = answer[i].seen
      /\ \A i, j \in 1 .. Len(answer) : Good(answer, i, s) /\ Good(answer, j, s) => answer[i] = answer[j]
  BY <1>3, KeptIs
<1>5. PICK i \in 1 .. Len(answer) : Good(answer, i, s) /\ Kept(answer)[s] = answer[i].seen
  BY <1>4
<1>6. answer[i].slot = s /\ ~answer[i].fault
  BY <1>5 DEF Good
<1>7. s \notin scene.doubled
  <2> SUFFICES ASSUME s \in scene.doubled PROVE FALSE
    OBVIOUS
  <2>1. s # answer[1].slot
    BY DEF Torn
  <2>2. Contradicts(answer, i)
    BY <1>2, <1>6, <2>1
  <2>3. PICK j \in 1 .. Len(answer), k \in 1 .. Len(answer) :
          /\ answer[j].slot = answer[i].slot /\ answer[k].slot = answer[i].slot
          /\ answer[j].fault = answer[i].fault /\ answer[k].fault = answer[i].fault
          /\ answer[j].seen # answer[k].seen
    BY <2>2 DEF Contradicts
  <2>4. Good(answer, j, s) /\ Good(answer, k, s)
    BY <1>6, <2>3 DEF Good
  <2>5. answer[j] = answer[k]
    BY <1>4, <2>4
  <2> QED BY <2>3, <2>5
<1>8. answer[i].seen = Least(at - s * Bar, Bar)
  BY <1>3, <1>6, <1>7 DEF BarsRead
<1>9. Bar \in Nat /\ StaleGrace \in Nat
  BY SeriesAssumption, ProviderAssumption
<1>10. Bar <= at - s * Bar
  <2>1. s * Bar \in Int /\ (s + 1) * Bar = s * Bar + Bar
    BY <1>4, <1>9
  <2> DEFINE x == s * Bar
  <2>2. x \in Int /\ x + Bar <= now - StaleGrace
    BY <2>1
  <2> HIDE DEF x
  <2>3. Bar <= at - x
    BY <1>1, <1>9, <2>2
  <2> QED BY <2>3 DEF x
<1>11. Least(at - s * Bar, Bar) = Bar
  <2> DEFINE x == at - s * Bar
  <2>1. x \in Int /\ Bar <= x
    BY <1>4, <1>9, <1>10
  <2> HIDE DEF x
  <2>2. Least(x, Bar) = Bar
    BY <1>9, <2>1 DEF Least
  <2> QED BY <2>2 DEF x
<1> QED BY <1>5, <1>8, <1>11

\* A finite set of slots has its latest.
LEMMA LatestIs ==
    ASSUME NEW S, IsFiniteSet(S), S \subseteq Int, S # {}
    PROVE  Max(S) \in S /\ \A s \in S : s <= Max(S)
<1> DEFINE order == InOrder(S)
           n == Len(order)
<1>1. /\ order \in Seq(S) /\ n \in Nat
      /\ \A i, j \in 1 .. n : i < j => order[i] < order[j]
      /\ \A s \in S : \E i \in 1 .. n : order[i] = s
  BY InOrderIs
<1>2. \A i \in 1 .. n : order[i] \in S /\ order[i] \in Int
  <2>1. order \in [1 .. n -> S]
    <3> HIDE DEF order
    <3> QED BY <1>1
  <2> HIDE DEF order, n
  <2> QED BY <2>1
<1> HIDE DEF order, n
<1>3. n \in 1 .. n
  <2>1. PICK s \in S : TRUE
    OBVIOUS
  <2>2. PICK i \in 1 .. n : order[i] = s
    BY <1>1
  <2> QED BY <1>1, <2>2
<1>4. \A i \in 1 .. n : order[i] <= order[n]
  <2> SUFFICES ASSUME NEW i \in 1 .. n PROVE order[i] <= order[n]
    OBVIOUS
  <2>1. CASE i = n
    BY <1>2, <2>1
  <2>2. CASE i < n
    BY <1>1, <1>2, <1>3, <2>2
  <2> QED BY <1>1, <2>1, <2>2
<1>5. \E m \in S : \A s \in S : m >= s
  <2>1. \A s \in S : order[n] >= s
    BY <1>1, <1>2, <1>3, <1>4
  <2> QED BY <1>2, <1>3, <2>1
<1>6. Max(S) \in S /\ \A s \in S : Max(S) >= s
  BY <1>5, Zenon DEF Max
<1> QED BY <1>6

\* The latest of some is the latest of all when none is later.
LEMMA SameLatest ==
    ASSUME NEW T, IsFiniteSet(T), T \subseteq Int, NEW S \in SUBSET T, S # {}, \A t \in T : \E s \in S : t <= s
    PROVE  Max(S) = Max(T)
<1>1. IsFiniteSet(S)
  BY FS_Subset
<1>2. Max(S) \in S /\ \A s \in S : s <= Max(S)
  BY <1>1, LatestIs
<1>3. Max(T) \in T /\ \A t \in T : t <= Max(T)
  BY LatestIs
<1>4. PICK s \in S : Max(T) <= s
  BY <1>3
<1>5. s <= Max(S) /\ Max(S) <= Max(T)
  BY <1>2, <1>3
<1>6. Max(S) \in Int /\ Max(T) \in Int /\ s \in Int
  BY <1>2, <1>3
<1> QED BY <1>4, <1>5, <1>6

Closed(c) == {c[i].slot : i \in {j \in DOMAIN c : c[j].closed}}

\* The latest closed candle that is shown is the latest there is.
LEMMA ShownLatest ==
    ASSUME NEW raw \in Seq(RawBars), NEW now \in Int, NEW limit \in Nat, NEW c,
           c = LastOf(BuildSeries(raw, now).candles, limit), Closed(c) # {}
    PROVE  Max(Closed(c)) = Max(Over(Kept(raw), now))
<1> DEFINE all == BuildSeries(raw, now).candles
           kept == Kept(raw)
           n == Len(all)
           T == Over(kept, now)
           S == Closed(c)
<1>1. /\ CandlesOf(all, "H1", kept, now)
      /\ \A i \in 1 .. n : all[i].slot \in DOMAIN kept /\ all[i].closed = IsOver(all[i].slot, now)
      /\ \A s \in DOMAIN kept : \E i \in 1 .. n : all[i].slot = s
  BY BuiltIs
<1>2. IsFiniteSet(DOMAIN kept) /\ DOMAIN kept \subseteq Nat
  BY KeptIs
<1> HIDE DEF all, kept, n
<1>3. CandlesOf(c, "H1", kept, now) /\ \E k \in Nat : Ends(c, all, k)
  BY <1>1, LastAreCandles DEF all
<1>4. PICK k \in Nat : Ends(c, all, k)
  BY <1>3
<1>5. DOMAIN c = 1 .. Len(c) /\ Len(c) \in Nat
  BY <1>3, ListsAreSequences DEF CandlesOf, IsList
<1>6. n \in Nat /\ n = Len(c) + k /\ \A i \in 1 .. Len(c) : i + k \in 1 .. n /\ c[i] = all[i + k]
  <2>1. n \in Nat
    BY <1>1 DEF CandlesOf, IsList, n
  <2> QED BY <1>4, <1>5, <2>1 DEF Ends, n
<1>7. \A i \in 1 .. n : all[i].slot \in T <=> all[i].closed
  BY <1>1 DEF Over
<1>8. T \subseteq DOMAIN kept
  BY DEF Over
<1>9. IsFiniteSet(T) /\ T \subseteq Int
  <2> HIDE DEF T
  <2> QED BY <1>2, <1>8, FS_Subset
<1>10. S \in SUBSET T
  <2> SUFFICES ASSUME NEW s \in S PROVE s \in T
    OBVIOUS
  <2>1. PICK i \in 1 .. Len(c) : c[i].closed /\ c[i].slot = s
    BY <1>5 DEF Closed
  <2>2. i + k \in 1 .. n /\ all[i + k].closed /\ all[i + k].slot = s
    BY <1>6, <2>1
  <2> HIDE DEF S, T
  <2> QED BY <1>7, <2>2
<1>11. PICK i0 \in 1 .. Len(c) : c[i0].closed
  BY <1>5 DEF Closed
<1>12. ASSUME NEW t \in T PROVE \E s \in S : t <= s
  <2>1. PICK i \in 1 .. n : all[i].slot = t
    BY <1>1, <1>8
  <2>2. t \in Int
    BY <1>9
  <2>3. CASE i <= k
    <3>1. i < i0 + k /\ i0 + k \in 1 .. n /\ c[i0] = all[i0 + k]
      BY <1>6, <2>3
    <3>2. all[i].slot < all[i0 + k].slot
      BY <1>1, <3>1 DEF CandlesOf, Ordered, n
    <3>3. c[i0].slot \in S /\ c[i0].slot \in Int
      <4>1. c[i0].slot \in S
        BY <1>5, <1>11 DEF Closed
      <4> QED BY <1>9, <1>10, <4>1
    <3>4. t <= c[i0].slot
      BY <2>1, <2>2, <3>1, <3>2, <3>3
    <3> QED BY <3>3, <3>4
  <2>4. CASE ~(i <= k)
    <3>1. i - k \in 1 .. Len(c) /\ (i - k) + k = i
      BY <1>5, <1>6, <2>4
    <3>2. c[i - k] = all[i]
      BY <1>6, <3>1
    <3>3. all[i].closed
      BY <1>7, <2>1
    <3>4. c[i - k].closed /\ c[i - k].slot = t
      BY <2>1, <3>2, <3>3
    <3>5. t \in S
      BY <1>5, <3>1, <3>4 DEF Closed
    <3> QED BY <2>2, <3>5
  <2> QED BY <2>3, <2>4
<1> HIDE DEF S, T
<1>13. S # {}
  BY DEF S
<1>14. Max(S) = Max(T)
  BY <1>9, <1>10, <1>12, <1>13, SameLatest
<1> QED BY <1>14 DEF S, T, kept

\* A load and what came of it.
Asks(job) == job.load \in Loads /\ job.now \in Int /\ Answered(scene.doubled, job.answer, job.now)

FinalReply(job) ==
  \A candles \in {Reply(job).candles} : \A i \in DOMAIN candles :
    candles[i].closed => \A s \in DOMAIN candles[i].parts :
      (s + 1) * Bar <= job.now - StaleGrace /\ ~Torn(job.answer, s) => candles[i].parts[s] = Bar

SoundReply(job) ==
  \A reply \in {Reply(job)} : \A c \in {reply.candles} :
    LET tf == job.load.tf
        closed == {c[i].slot : i \in {j \in DOMAIN c : c[j].closed}}
    IN  /\ reply.quality \in Withheld => c = <<>>
        /\ \A i, j \in DOMAIN c : i < j => c[i].slot < c[j].slot
        /\ \A i \in DOMAIN c : c[i].slot * Duration(tf) <= job.now
        /\ \A s \in closed : (s + 1) * Duration(tf) <= job.now
        /\ reply.quality = "CURRENT" /\ tf = "H1" /\ closed # {}
             => Cardinality(ExpectedSlots(tf, Max(closed), job.now - LagGrace)) <= CurrentMax
        /\ \A i \in DOMAIN c :
             c[i].closed => \A s \in InSlot(tf, c[i].slot) : MarketOpen(s) => s \in DOMAIN c[i].parts

\* What is replied is built of the bars that were kept of the answer.
LEMMA ReplyIs ==
    ASSUME NEW job, Asks(job), job.answer # Nothing
    PROVE  LET built == BuildSeries(job.answer, job.now)
               reply == Reply(job)
           IN  /\ job.answer \in Seq(RawBars)
               /\ reply.quality = built.quality
               /\ CandlesOf(reply.candles, job.load.tf, Kept(job.answer), job.now)
               /\ built.quality \in Withheld => reply.candles = <<>>
               /\ built.quality \notin Withheld /\ job.load.tf = "H1"
                    => reply.candles = LastOf(built.candles, job.load.limit)
<1> DEFINE answer == job.answer
           now == job.now
           load == job.load
           built == BuildSeries(answer, now)
           kept == Kept(answer)
<1>1. load \in Loads /\ now \in Int /\ Answered(scene.doubled, answer, now)
  BY DEF Asks
<1>2. answer \in Seq(RawBars)
  <2>1. PICK at \in Int, limit \in Nat : \E raw : now - StaleGrace < at /\ HistoryRead(scene.doubled, raw, at) /\ answer = LastOf(raw, limit)
    BY <1>1 DEF Answered
  <2>2. PICK raw : now - StaleGrace < at /\ HistoryRead(scene.doubled, raw, at) /\ answer = LastOf(raw, limit)
    BY <2>1
  <2>3. answer \in Seq(BarsRead(scene.doubled, at))
    BY <2>2, AnswerIs
  <2> QED BY <2>3, BarsReadAre
<1>3. Reply(job) = Loaded(built, load, now)
  BY Zenon DEF Reply
<1> HIDE DEF answer, now, load
<1>4. CandlesOf(built.candles, "H1", kept, now) /\ IsSeries(built)
  BY <1>1, <1>2, BuiltIs DEF IsSeries
<1>5. DOMAIN kept \subseteq Nat
  BY <1>2, KeptIs
<1> HIDE DEF built, kept
<1>6. /\ Loaded(built, load, now).quality = built.quality
      /\ CandlesOf(Loaded(built, load, now).candles, load.tf, kept, now)
      /\ built.quality \in Withheld => Loaded(built, load, now).candles = <<>>
      /\ built.quality \notin Withheld /\ load.tf = "H1" =>
           Loaded(built, load, now).candles = LastOf(built.candles, load.limit)
  BY <1>1, <1>4, <1>5, LoadedIs
<1> QED BY <1>2, <1>3, <1>6 DEF answer, now, load, built, kept

\* Without an answer nothing is shown.
LEMMA NoReply ==
    ASSUME NEW job, job.answer = Nothing
    PROVE  Reply(job).candles = <<>> /\ Reply(job).quality = "DISCONNECTED"
BY DEF Reply

\* Closed candles that are replied are final once they are older than the grace.
LEMMA RepliesAreFinal ==
    ASSUME NEW job, Asks(job)
    PROVE  FinalReply(job)
<1>1. CASE job.answer = Nothing
  <2>1. DOMAIN Reply(job).candles = {}
    BY <1>1, NoReply
  <2> QED BY <2>1, Zenon DEF FinalReply
<1>2. CASE job.answer # Nothing
  <2> DEFINE c == Reply(job).candles
  <2>1. CandlesOf(c, job.load.tf, Kept(job.answer), job.now)
    BY <1>2, ReplyIs
  <2> HIDE DEF c
  <2>2. DOMAIN c = 1 .. Len(c)
    BY <2>1, ListsAreSequences DEF CandlesOf
  <2>3. ASSUME NEW i \in DOMAIN c, NEW s \in DOMAIN c[i].parts,
               (s + 1) * Bar <= job.now - StaleGrace, ~Torn(job.answer, s)
        PROVE  c[i].parts[s] = Bar
    <3>1. CandleOf(c[i], job.load.tf, Kept(job.answer), job.now)
      BY <2>1, <2>2 DEF CandlesOf
    <3>2. s \in DOMAIN Kept(job.answer) /\ c[i].parts[s] = Kept(job.answer)[s]
      BY <3>1 DEF CandleOf
    <3> DEFINE now == job.now
               answer == job.answer
    <3>3. now \in Int /\ Answered(scene.doubled, answer, now)
      BY DEF Asks
    <3> HIDE DEF now, answer
    <3>4. answer # Nothing /\ s \in DOMAIN Kept(answer) /\ (s + 1) * Bar <= now - StaleGrace /\ ~Torn(answer, s)
      BY <1>2, <2>3, <3>2 DEF now, answer
    <3>5. Kept(answer)[s] = Bar
      BY <3>3, <3>4, KeptIsFinal
    <3> QED BY <3>2, <3>5 DEF answer
  <2> QED BY <2>3 DEF FinalReply, c
<1> QED BY <1>1, <1>2

\* What is replied is sound.
LEMMA RepliesAreSound ==
    ASSUME NEW job, Asks(job)
    PROVE  SoundReply(job)
<1> DEFINE c == Reply(job).candles
           quality == Reply(job).quality
           tf == job.load.tf
           now == job.now
           kept == Kept(job.answer)
           Due == quality = "CURRENT" /\ tf = "H1" /\ Closed(c) # {}
                    => Cardinality(ExpectedSlots(tf, Max(Closed(c)), now - LagGrace)) <= CurrentMax
           AllBars == \A i \in DOMAIN c : c[i].closed => \A s \in InSlot(tf, c[i].slot) : MarketOpen(s) => s \in DOMAIN c[i].parts
<1>1. SUFFICES /\ quality \in Withheld => c = <<>>
               /\ \A i, j \in DOMAIN c : i < j => c[i].slot < c[j].slot
               /\ \A i \in DOMAIN c : c[i].slot * Duration(tf) <= now
               /\ \A s \in Closed(c) : (s + 1) * Duration(tf) <= now
               /\ Due /\ AllBars
  BY Zenon DEF SoundReply, Closed
<1>2. CASE job.answer = Nothing
  <2>1. c = <<>> /\ DOMAIN c = {} /\ quality = "DISCONNECTED"
    BY <1>2, NoReply
  <2>2. Closed(c) = {}
    <3> HIDE DEF c
    <3> QED BY <2>1 DEF Closed
  <2> HIDE DEF c, quality
  <2> QED BY <2>1, <2>2
<1>3. CASE job.answer # Nothing
  <2> DEFINE built == BuildSeries(job.answer, now)
  <2>1. /\ job.answer \in Seq(RawBars)
        /\ quality = built.quality
        /\ CandlesOf(c, tf, kept, now)
        /\ built.quality \in Withheld => c = <<>>
        /\ built.quality \notin Withheld /\ tf = "H1" => c = LastOf(built.candles, job.load.limit)
    BY <1>3, ReplyIs
  <2>2. now \in Int /\ tf \in Timeframes /\ job.load.limit \in Nat
    BY DEF Asks, Loads
  <2>3. /\ built.quality \notin Withheld => \A s \in DOMAIN kept : s * Bar <= now
        /\ built.quality = "CURRENT" => Cardinality(ExpectedSlots("H1", Max(Over(kept, now)), now - LagGrace)) <= CurrentMax
    BY <2>1, <2>2, BuiltIs
  <2>4. DOMAIN kept \subseteq Nat
    BY <2>1, KeptIs
  <2> HIDE DEF c, quality, tf, now, kept, built
  <2>5. DOMAIN c = 1 .. Len(c) /\ \A i \in DOMAIN c : CandleOf(c[i], tf, kept, now)
    BY <2>1, ListsAreSequences DEF CandlesOf
  <2>6. quality \in Withheld => c = <<>>
    BY <2>1
  <2>7. \A i, j \in DOMAIN c : i < j => c[i].slot < c[j].slot
    BY <2>1, <2>5 DEF CandlesOf, Ordered
  <2>8. ASSUME NEW i \in DOMAIN c PROVE c[i].slot * Duration(tf) <= now
    <3>1. c # <<>>
      <4>1. DOMAIN <<>> = {}
        OBVIOUS
      <4> QED BY <4>1
    <3>2. \A s \in DOMAIN kept : s * Bar <= now
      BY <2>1, <2>3, <3>1
    <3>3. CandleOf(c[i], tf, kept, now)
      BY <2>5
    <3> DEFINE k == c[i].slot
               r == Ratio(tf)
    <3>4. PICK s \in DOMAIN kept : k * r <= s
      BY <3>3 DEF CandleOf
    <3>5. k \in Nat /\ s \in Nat /\ r \in Nat \ {0} /\ Bar \in Nat \ {0} /\ Duration(tf) = r * Bar
      BY <2>2, <2>4, <3>3, DurationIs, RatiosAre DEF CandleOf
    <3> HIDE DEF k, r
    <3>6. k * r \in Int /\ s \in Int
      BY <3>5
    <3>7. (k * r) * Bar \in Int /\ s * Bar \in Int /\ (k * r) * Bar <= s * Bar
      BY <3>4, <3>5, <3>6, Product
    <3>8. (k * r) * Bar = k * (r * Bar)
      BY <3>5
    <3>9. (k * r) * Bar <= now
      <4> DEFINE x == (k * r) * Bar
                 y == s * Bar
      <4>1. x \in Int /\ y \in Int /\ x <= y /\ y <= now
        BY <3>2, <3>7
      <4> HIDE DEF x, y
      <4>2. x <= now
        BY <2>2, <4>1
      <4> QED BY <4>2 DEF x
    <3> QED BY <3>5, <3>8, <3>9 DEF k
  <2>9. \A s \in Closed(c) : (s + 1) * Duration(tf) <= now
    BY <2>5 DEF Closed, CandleOf
  <2>10. Due
    <3> SUFFICES ASSUME quality = "CURRENT", tf = "H1", Closed(c) # {}
                 PROVE  Cardinality(ExpectedSlots(tf, Max(Closed(c)), now - LagGrace)) <= CurrentMax
      OBVIOUS
    <3>1. built.quality = "CURRENT" /\ built.quality \notin Withheld
      BY <2>1 DEF Withheld
    <3>2. c = LastOf(built.candles, job.load.limit)
      BY <2>1, <3>1
    <3>3. Max(Closed(c)) = Max(Over(kept, now))
      BY <2>1, <2>2, <3>2, ShownLatest DEF built, kept
    <3> QED BY <2>3, <3>1, <3>3
  <2>11. AllBars
    BY <2>5 DEF CandleOf
  <2> HIDE DEF Due, AllBars
  <2> QED BY <2>6, <2>7, <2>8, <2>9, <2>10, <2>11
<1> QED BY <1>2, <1>3

-----------------------------------------------------------------------------
(* The invariant.                                                          *)

Loaders == Tasks \cup {Warmer}
LockStages == {"LOGIN", "ACCOUNT", "RENEW"}

JobOK(j, doubled, time) ==
    /\ j = [stage |-> j.stage, for |-> j.for, load |-> j.load, now |-> j.now,
            cached |-> j.cached, from |-> j.from, tries |-> j.tries, answer |-> j.answer]
    /\ j.load \in Loads /\ j.now \in Nat /\ j.now <= time /\ j.from \in Int
    /\ Answered(doubled, j.answer, j.now)

AskedLoads(start) == {l \in Load : l.past = Nothing \/ l.past \in 0 .. start}

WorldInv ==
    /\ scene \in Scenes /\ clock \in Nat /\ scene.start <= clock /\ clock <= scene.until
    /\ left \in Seq(AskedLoads(scene.start))
LoginInv ==
    /\ account \in BOOLEAN /\ route \in BOOLEAN /\ (route => account)
    /\ token = Nothing \/ token \in Token
CacheInv == bars # Nothing => bars.at \in Int /\ HistoryRead(scene.doubled, bars.raw, bars.at)

\* Who holds the lock or the gate is waiting for what it holds it for.
Holds(t) == (lock = t <=> jobs[t].stage \in LockStages) /\ (gate = t <=> jobs[t].stage = "CALL")
JobInv(t) ==
    /\ jobs[t] = Idle \/ JobOK(jobs[t], scene.doubled, clock)
    /\ jobs[t].stage = "RENEW" => token # Nothing
    /\ jobs[t].stage = "INSTRUMENTS" => account
JobsInv ==
    /\ jobs = [t \in Loaders |-> jobs[t]] /\ \A t \in Loaders : JobInv(t) /\ Holds(t)
    /\ running \in Loaders \cup {Nothing} /\ (running # Nothing => ~Waits(jobs[running].stage))

Inv == WorldInv /\ faults \in Nat /\ LoginInv /\ CacheInv /\ JobsInv

\* Nothing is no task.
LEMMA TasksAre == Nothing \notin Loaders
BY ProviderAssumption DEF Loaders

\* What is assumed of a scene.
LEMMA SceneIs ==
    ASSUME NEW s \in Scenes
    PROVE  /\ s.start \in Nat /\ s.until \in Nat /\ s.faults \in Nat /\ s.start <= s.until
           /\ s.read = Nothing \/ s.read \in Nat
           /\ s.loads \in Seq(AskedLoads(s.start))
           /\ s.token = Nothing \/ s.token \in Token
           /\ s.renewable \in BOOLEAN
<1>1. /\ {s.start, s.until, s.faults} \subseteq Nat /\ s.start <= s.until
      /\ s.read = Nothing \/ s.read \in 0 .. s.start
      /\ s.loads \in Seq(Load) /\ \A i \in DOMAIN s.loads : s.loads[i].past = Nothing \/ s.loads[i].past \in 0 .. s.start
      /\ s.token = Nothing \/ s.token \in Token
      /\ s.renewable \in BOOLEAN
  BY SceneAssumption
<1>2. s.loads \in Seq(AskedLoads(s.start))
  <2> DEFINE l == s.loads
             n == Len(l)
             A == AskedLoads(s.start)
  <2>1. n \in Nat /\ DOMAIN l = 1 .. n /\ l = [i \in 1 .. n |-> l[i]] /\ \A i \in 1 .. n : l[i] \in Load
    <3> HIDE DEF l
    <3>1. l \in Seq(Load)
      BY <1>1 DEF l
    <3> QED BY <3>1
  <2>2. \A i \in 1 .. n : l[i] \in A
    BY <1>1, <2>1 DEF AskedLoads
  <2> HIDE DEF l, n, A
  <2>3. l \in Seq(A)
    BY <2>1, <2>2, Listed
  <2> QED BY <2>3 DEF l, A
<1> QED BY <1>1, <1>2

\* A job stays one at another stage,
LEMMA StageIs ==
    ASSUME NEW j, NEW doubled, NEW time, JobOK(j, doubled, time), NEW stage
    PROVE  JobOK([j EXCEPT !.stage = stage], doubled, time) /\ [j EXCEPT !.stage = stage].stage = stage
<1> DEFINE k == [j EXCEPT !.stage = stage]
<1>1. DOMAIN j = {"stage", "for", "load", "now", "cached", "from", "tries", "answer"}
  BY DEF JobOK
<1>2. /\ k = [stage |-> k.stage, for |-> k.for, load |-> k.load, now |-> k.now,
              cached |-> k.cached, from |-> k.from, tries |-> k.tries, answer |-> k.answer]
      /\ k.stage = stage /\ k.load = j.load /\ k.now = j.now /\ k.from = j.from /\ k.answer = j.answer
  BY <1>1
<1> HIDE DEF k
<1>3. JobOK(k, doubled, time)
  BY <1>2 DEF JobOK
<1> QED BY <1>2, <1>3 DEF k

\* One task goes on.
LEMMA JobsGo ==
    ASSUME NEW t \in Loaders, NEW job, JobsInv, Goes(t, job), scene' = scene, clock' = clock,
           job = Idle \/ JobOK(job, scene.doubled, clock),
           job.stage = "RENEW" => token' # Nothing, job.stage = "INSTRUMENTS" => account',
           token # Nothing => token' # Nothing, account => account',
           lock' = t <=> job.stage \in LockStages, \A u \in Loaders \ {t} : lock' = u <=> lock = u,
           gate' = t <=> job.stage = "CALL", \A u \in Loaders \ {t} : gate' = u <=> gate = u
    PROVE  JobsInv'
<1>1. jobs = [u \in Loaders |-> jobs[u]] /\ \A u \in Loaders : JobInv(u) /\ Holds(u)
  BY DEF JobsInv
<1>2. jobs' = [jobs EXCEPT ![t] = job]
  BY DEF Goes
<1>3. jobs' = [u \in Loaders |-> jobs'[u]] /\ jobs'[t] = job /\ \A u \in Loaders \ {t} : jobs'[u] = jobs[u]
  BY <1>1, <1>2
<1>4. ASSUME NEW u \in Loaders PROVE JobInv(u)' /\ Holds(u)'
  <2>1. CASE u = t
    <3>1. JobInv(t)'
      BY <1>3 DEF JobInv
    <3>2. Holds(t)'
      BY <1>3 DEF Holds
    <3> QED BY <2>1, <3>1, <3>2
  <2>2. CASE u # t
    <3>1. u \in Loaders \ {t} /\ jobs'[u] = jobs[u] /\ JobInv(u) /\ Holds(u)
      BY <1>1, <1>3, <2>2
    <3>2. JobInv(u)'
      BY <3>1 DEF JobInv
    <3>3. Holds(u)'
      BY <3>1 DEF Holds
    <3> QED BY <3>2, <3>3
  <2> QED BY <2>1, <2>2
<1>5. running' \in {t, Nothing} /\ (running' = t => ~Waits(job.stage))
  BY <1>3, TasksAre DEF Goes
<1>6. running' \in Loaders \cup {Nothing} /\ (running' # Nothing => ~Waits(jobs'[running'].stage))
  BY <1>3, <1>5
<1> QED BY <1>3, <1>4, <1>6 DEF JobsInv

\* One task goes on to another stage.
LEMMA ToStage ==
    ASSUME NEW t \in Loaders, NEW stage, JobsInv, jobs[t].stage # "IDLE", To(t, stage), scene' = scene, clock' = clock,
           stage = "RENEW" => token' # Nothing, stage = "INSTRUMENTS" => account',
           token # Nothing => token' # Nothing, account => account',
           lock' = t <=> stage \in LockStages, \A u \in Loaders \ {t} : lock' = u <=> lock = u,
           gate' = t <=> stage = "CALL", \A u \in Loaders \ {t} : gate' = u <=> gate = u
    PROVE  JobsInv'
<1> DEFINE job == [jobs[t] EXCEPT !.stage = stage]
<1>1. JobOK(jobs[t], scene.doubled, clock)
  <2>1. JobInv(t)
    BY DEF JobsInv
  <2> QED BY <2>1 DEF JobInv, Idle
<1>2. JobOK(job, scene.doubled, clock) /\ job.stage = stage
  BY <1>1, StageIs
<1>3. Goes(t, job)
  BY DEF To
<1> HIDE DEF job
<1> QED BY <1>2, <1>3, JobsGo

\* What the invariant says of one task.
LEMMA Held ==
    ASSUME NEW t \in Loaders, JobsInv
    PROVE  /\ \A u \in Loaders : (lock = u <=> jobs[u].stage \in LockStages) /\ (gate = u <=> jobs[u].stage = "CALL")
           /\ JobInv(t)
           /\ jobs[t].stage # "IDLE" => JobOK(jobs[t], scene.doubled, clock)
           /\ \A u \in Loaders \ {t} : u # t /\ u # Nothing
           /\ t # Nothing
<1>1. \A u \in Loaders : JobInv(u) /\ Holds(u)
  BY DEF JobsInv
<1>2. jobs[t].stage # "IDLE" => JobOK(jobs[t], scene.doubled, clock)
  BY <1>1 DEF JobInv, Idle
<1> QED BY <1>1, <1>2, TasksAre DEF Holds

\* Faults are used up.
LEMMA FaultsFall ==
    ASSUME faults \in Nat, (UNCHANGED faults) \/ Works \/ Fault \/ Accepted \/ Refused
    PROVE  faults' \in Nat
<1>1. Works \/ Fault
  BY Zenon DEF Works, Accepted, Refused
<1>2. CASE Works
  BY <1>2 DEF Works
<1>3. CASE Fault
  BY <1>3 DEF Fault
<1> QED BY <1>1, <1>2, <1>3

\* _ensure_token takes the lock when it is free and gives it back, or keeps it.
LEMMA EnsureTokenStays ==
    ASSUME NEW t \in Loaders, JobsInv, EnsureToken(t)
    PROVE  JobsInv'
<1>1. /\ jobs[t].stage = "TOKEN" /\ lock = Nothing
      /\ UNCHANGED <<World, faults, Login, gate, Caches>>
      /\ \/ Valid /\ HasToken(t)
         \/ ~Valid /\ lock' = t /\ To(t, IF token = Nothing \/ ~token.renewable THEN "LOGIN" ELSE "RENEW")
  BY Zenon DEF EnsureToken, At
<1>2. scene' = scene /\ clock' = clock /\ token' = token /\ account' = account /\ gate' = gate
  BY <1>1 DEF World, Login
<1>3. CASE HasToken(t)
  <2>1. \E stage \in {"QUOTE", "ROUTE"} : lock' = Nothing /\ To(t, stage)
    BY <1>3 DEF HasToken
  <2>2. PICK stage \in {"QUOTE", "ROUTE"} : lock' = Nothing /\ To(t, stage)
    BY <2>1
  <2>3. stage \notin LockStages /\ stage # "CALL" /\ stage # "RENEW" /\ stage # "INSTRUMENTS"
    BY DEF LockStages
  <2> QED BY <1>1, <1>2, <2>2, <2>3, Held, ToStage
<1>4. CASE lock' = t /\ To(t, IF token = Nothing \/ ~token.renewable THEN "LOGIN" ELSE "RENEW")
  <2>1. \E stage \in LockStages : To(t, stage) /\ (stage = "RENEW" => token # Nothing)
    <3>1. CASE token = Nothing \/ ~token.renewable
      BY <1>4, <3>1 DEF LockStages
    <3>2. CASE ~(token = Nothing \/ ~token.renewable)
      BY <1>4, <3>2 DEF LockStages
    <3> QED BY <3>1, <3>2
  <2>2. PICK stage \in LockStages : To(t, stage) /\ (stage = "RENEW" => token # Nothing)
    BY <2>1
  <2>3. stage # "CALL" /\ stage # "INSTRUMENTS"
    BY DEF LockStages
  <2> QED BY <1>1, <1>2, <1>4, <2>2, <2>3, Held, ToStage
<1> QED BY <1>1, <1>3, <1>4

\* A login leaves a token and keeps the lock for the account.
LEMMA AuthenticateStays ==
    ASSUME NEW t \in Loaders, JobsInv, WorldInv, Authenticate(t)
    PROVE  JobsInv'
<1>1. /\ jobs[t].stage = "LOGIN"
      /\ UNCHANGED <<World, account, route, gate, Caches>>
      /\ \/ token' = [expires |-> clock + TokenLife, renewable |-> scene.renewable] /\ lock' = lock /\ To(t, "ACCOUNT")
         \/ token' = token /\ lock' = Nothing /\ To(t, "FAILED")
  BY Zenon DEF Authenticate, Answers, Raise
<1>2. scene' = scene /\ clock' = clock /\ account' = account /\ gate' = gate
  BY <1>1 DEF World
<1>3. lock = t
  BY <1>1, Held DEF LockStages
<1>4. CASE token' = [expires |-> clock + TokenLife, renewable |-> scene.renewable] /\ lock' = lock /\ To(t, "ACCOUNT")
  <2>1. token' # Nothing
    <3>1. clock \in Nat /\ TokenLife \in Nat /\ scene.renewable \in BOOLEAN
      BY SceneIs, ProviderAssumption DEF WorldInv
    <3>2. token' \in Token
      BY <1>4, <3>1 DEF Token
    <3> QED BY <3>2, NothingAssumption
  <2> QED BY <1>1, <1>2, <1>3, <1>4, <2>1, Held, ToStage DEF LockStages
<1>5. CASE token' = token /\ lock' = Nothing /\ To(t, "FAILED")
  BY <1>1, <1>2, <1>3, <1>5, Held, ToStage DEF LockStages
<1> QED BY <1>1, <1>4, <1>5

\* Once the account is known or refused the lock is given back.
LEMMA ResolveAccountStays ==
    ASSUME NEW t \in Loaders, JobsInv, ResolveAccount(t)
    PROVE  JobsInv'
<1>1. /\ jobs[t].stage = "ACCOUNT"
      /\ UNCHANGED <<World, token, gate, Caches>>
      /\ lock' = Nothing
      /\ \/ account' = TRUE /\ HasToken(t)
         \/ UNCHANGED <<account, route>> /\ To(t, "FAILED")
  BY Zenon DEF ResolveAccount, Answers, Raise, HasToken
<1>2. scene' = scene /\ clock' = clock /\ token' = token /\ gate' = gate
  BY <1>1 DEF World
<1>3. lock = t
  BY <1>1, Held DEF LockStages
<1>4. \E stage \in {"QUOTE", "ROUTE", "FAILED"} : To(t, stage) /\ (account => account')
  BY <1>1 DEF HasToken
<1>5. PICK stage \in {"QUOTE", "ROUTE", "FAILED"} : To(t, stage) /\ (account => account')
  BY <1>4
<1>6. stage \notin LockStages /\ stage # "CALL" /\ stage # "RENEW" /\ stage # "INSTRUMENTS"
  BY DEF LockStages
<1> QED BY <1>1, <1>2, <1>3, <1>5, <1>6, Held, ToStage

\* A renewal leaves a token, whatever becomes of the lock.
LEMMA RefreshStays ==
    ASSUME NEW t \in Loaders, JobsInv, WorldInv, LoginInv, Refresh(t)
    PROVE  JobsInv' /\ token' \in Token
<1>1. /\ jobs[t].stage = "RENEW"
      /\ UNCHANGED <<World, account, route, gate, Caches>>
      /\ \/ token' = [token EXCEPT !.expires = clock + TokenLife] /\ HasToken(t)
         \/ token' = token /\ lock' = lock /\ To(t, "LOGIN")
         \/ token' = token /\ lock' = Nothing /\ To(t, "FAILED")
  BY Zenon DEF Refresh, Answers, Raise
<1>2. scene' = scene /\ clock' = clock /\ account' = account /\ gate' = gate
  BY <1>1 DEF World
<1>3. lock = t
  BY <1>1, Held DEF LockStages
<1>4. token \in Token
  <2>1. JobInv(t)
    BY Held
  <2> QED BY <1>1, <2>1 DEF JobInv, LoginInv
<1>5. token' \in Token /\ token' # Nothing
  <2>1. clock + TokenLife \in Nat
    BY ProviderAssumption DEF WorldInv
  <2>2. [token EXCEPT !.expires = clock + TokenLife] \in Token
    BY <1>4, <2>1 DEF Token
  <2>3. token' \in Token
    BY <1>1, <1>4, <2>2
  <2> QED BY <2>3, NothingAssumption
<1>6. CASE HasToken(t)
  <2>1. \E stage \in {"QUOTE", "ROUTE"} : lock' = Nothing /\ To(t, stage)
    BY <1>6 DEF HasToken
  <2>2. PICK stage \in {"QUOTE", "ROUTE"} : lock' = Nothing /\ To(t, stage)
    BY <2>1
  <2>3. stage \notin LockStages /\ stage # "CALL" /\ stage # "RENEW" /\ stage # "INSTRUMENTS"
    BY DEF LockStages
  <2>4. JobsInv'
    BY <1>1, <1>2, <1>3, <1>5, <2>2, <2>3, Held, ToStage
  <2> QED BY <1>5, <2>4
<1>7. CASE lock' = lock /\ To(t, "LOGIN")
  <2>1. JobsInv'
    BY <1>1, <1>2, <1>3, <1>5, <1>7, Held, ToStage DEF LockStages
  <2> QED BY <1>5, <2>1
<1>8. CASE lock' = Nothing /\ To(t, "FAILED")
  <2>1. JobsInv'
    BY <1>1, <1>2, <1>3, <1>5, <1>8, Held, ToStage DEF LockStages
  <2> QED BY <1>5, <2>1
<1> QED BY <1>1, <1>6, <1>7, <1>8

\* Only a task that knows the account asks for its instruments,
LEMMA RouteStays ==
    ASSUME NEW t \in Loaders, JobsInv, LoginInv, Route(t)
    PROVE  JobsInv'
<1>1. /\ jobs[t].stage = "ROUTE"
      /\ UNCHANGED <<World, faults, Login, lock, gate, Caches>>
      /\ To(t, IF route THEN "GATE" ELSE IF account THEN "INSTRUMENTS" ELSE "FAILED")
  BY Zenon DEF Route, Runs
<1>2. scene' = scene /\ clock' = clock /\ account' = account /\ token' = token /\ gate' = gate /\ lock' = lock
  BY <1>1 DEF World, Login
<1>3. \E stage \in {"GATE", "INSTRUMENTS", "FAILED"} : To(t, stage) /\ (stage = "INSTRUMENTS" => account)
  <2>1. CASE route
    BY <1>1, <2>1
  <2>2. CASE ~route /\ account
    BY <1>1, <2>2
  <2>3. CASE ~route /\ ~account
    BY <1>1, <2>3
  <2> QED BY <2>1, <2>2, <2>3
<1>4. PICK stage \in {"GATE", "INSTRUMENTS", "FAILED"} : To(t, stage) /\ (stage = "INSTRUMENTS" => account)
  BY <1>3
<1>5. stage \notin LockStages /\ stage # "CALL" /\ stage # "RENEW"
  BY DEF LockStages
<1>6. lock # t /\ gate # t
  BY <1>1, Held DEF LockStages
<1> QED BY <1>1, <1>2, <1>4, <1>5, <1>6, Held, ToStage

\* and still knows it when they come.
LEMMA InstrumentsStays ==
    ASSUME NEW t \in Loaders, JobsInv, Instruments(t)
    PROVE  JobsInv' /\ account
<1>1. /\ jobs[t].stage = "INSTRUMENTS"
      /\ UNCHANGED <<World, token, account, lock, gate, Caches>>
      /\ \/ To(t, "GATE")
         \/ To(t, "FAILED")
  BY Zenon DEF Instruments, Answers, Raise
<1>2. scene' = scene /\ clock' = clock /\ account' = account /\ token' = token /\ gate' = gate /\ lock' = lock
  BY <1>1 DEF World
<1>3. \E stage \in {"GATE", "FAILED"} : To(t, stage)
  BY <1>1
<1>4. PICK stage \in {"GATE", "FAILED"} : To(t, stage)
  BY <1>3
<1>5. stage \notin LockStages /\ stage # "CALL" /\ stage # "RENEW" /\ stage # "INSTRUMENTS"
  BY DEF LockStages
<1>6. lock # t /\ gate # t
  BY <1>1, Held DEF LockStages
<1>7. account
  <2>1. JobInv(t)
    BY Held
  <2> QED BY <1>1, <2>1 DEF JobInv
<1>8. JobsInv'
  BY <1>1, <1>2, <1>4, <1>5, <1>6, Held, ToStage
<1> QED BY <1>7, <1>8

\* with another attempt,
LEMMA TriedIs ==
    ASSUME NEW j, NEW doubled, NEW time, JobOK(j, doubled, time), NEW n
    PROVE  /\ JobOK([j EXCEPT !.stage = "CALL", !.tries = n], doubled, time)
           /\ [j EXCEPT !.stage = "CALL", !.tries = n].stage = "CALL"
<1> DEFINE k == [j EXCEPT !.stage = "CALL", !.tries = n]
<1>1. DOMAIN j = {"stage", "for", "load", "now", "cached", "from", "tries", "answer"}
  BY DEF JobOK
<1>2. /\ k = [stage |-> k.stage, for |-> k.for, load |-> k.load, now |-> k.now,
              cached |-> k.cached, from |-> k.from, tries |-> k.tries, answer |-> k.answer]
      /\ k.stage = "CALL" /\ k.load = j.load /\ k.now = j.now /\ k.from = j.from /\ k.answer = j.answer
  <2>1. DOMAIN k = DOMAIN j
    OBVIOUS
  <2>2. k.stage = "CALL" /\ k.load = j.load /\ k.now = j.now /\ k.from = j.from /\ k.answer = j.answer
    BY <1>1
  <2>3. k = [f \in DOMAIN j |-> k[f]]
    OBVIOUS
  <2> HIDE DEF k
  <2>4. k = [stage |-> k.stage, for |-> k.for, load |-> k.load, now |-> k.now,
             cached |-> k.cached, from |-> k.from, tries |-> k.tries, answer |-> k.answer]
    BY <1>1, <2>1, <2>3
  <2> QED BY <2>2, <2>4
<1> HIDE DEF k
<1>3. JobOK(k, doubled, time)
  BY <1>2 DEF JobOK
<1> QED BY <1>2, <1>3 DEF k

\* A task that enters the gate holds it.
LEMMA EnterStays ==
    ASSUME NEW t \in Loaders, JobsInv, Enter(t)
    PROVE  JobsInv'
<1> DEFINE n == jobs[t].tries + 1
           job == [jobs[t] EXCEPT !.stage = "CALL", !.tries = n]
<1>1. /\ jobs[t].stage = "GATE" /\ gate = Nothing /\ gate' = t
      /\ UNCHANGED <<World, faults, Login, lock, Caches>>
      /\ Goes(t, job)
  BY Zenon DEF Enter, At
<1>2. scene' = scene /\ clock' = clock /\ account' = account /\ token' = token /\ lock' = lock
  BY <1>1 DEF World, Login
<1>3. JobOK(jobs[t], scene.doubled, clock)
  BY <1>1, Held
<1> HIDE DEF n
<1>4. JobOK(job, scene.doubled, clock) /\ job.stage = "CALL"
  BY <1>3, TriedIs
<1> HIDE DEF job
<1>5. lock # t
  BY <1>1, Held DEF LockStages
<1>6. job.stage \notin LockStages
  BY <1>4 DEF LockStages
<1> QED BY <1>1, <1>2, <1>4, <1>5, <1>6, Held, JobsGo

\* in general when its load, its instant and its answer stay what they should be:
LEMMA OtherJob ==
    ASSUME NEW j, NEW doubled, NEW time, JobOK(j, doubled, time), NEW k,
           DOMAIN k = DOMAIN j, k = [f \in DOMAIN j |-> k[f]],
           k.load = j.load, k.now = j.now, k.from \in Int, Answered(doubled, k.answer, j.now)
    PROVE  JobOK(k, doubled, time)
<1>1. DOMAIN j = {"stage", "for", "load", "now", "cached", "from", "tries", "answer"}
  BY DEF JobOK
<1>2. k = [stage |-> k.stage, for |-> k.for, load |-> k.load, now |-> k.now,
           cached |-> k.cached, from |-> k.from, tries |-> k.tries, answer |-> k.answer]
  BY <1>1
<1> QED BY <1>2 DEF JobOK

\* with an answer,
LEMMA RepliedIs ==
    ASSUME NEW j, NEW doubled, NEW time, JobOK(j, doubled, time), NEW a, Answered(doubled, a, j.now)
    PROVE  /\ JobOK([j EXCEPT !.stage = "REPLIED", !.answer = a], doubled, time)
           /\ [j EXCEPT !.stage = "REPLIED", !.answer = a].stage = "REPLIED"
<1> DEFINE k == [j EXCEPT !.stage = "REPLIED", !.answer = a]
<1>1. DOMAIN j = {"stage", "for", "load", "now", "cached", "from", "tries", "answer"}
  BY DEF JobOK
<1>2. DOMAIN k = DOMAIN j /\ k = [f \in DOMAIN j |-> k[f]]
  OBVIOUS
<1>3. k.stage = "REPLIED" /\ k.load = j.load /\ k.now = j.now /\ k.from = j.from /\ k.answer = a
  BY <1>1
<1>4. k.from \in Int
  BY <1>3 DEF JobOK
<1> HIDE DEF k
<1>5. JobOK(k, doubled, time)
  BY <1>2, <1>3, <1>4, OtherJob
<1> QED BY <1>3, <1>5 DEF k

\* on its way to a quote,
LEMMA QuoteJobIs ==
    ASSUME NEW j, NEW doubled, NEW time, JobOK(j, doubled, time), NEW q
    PROVE  /\ JobOK([j EXCEPT !.stage = "TOKEN", !.for = "QUOTE", !.cached = q, !.tries = 0], doubled, time)
           /\ [j EXCEPT !.stage = "TOKEN", !.for = "QUOTE", !.cached = q, !.tries = 0].stage = "TOKEN"
<1> DEFINE k == [j EXCEPT !.stage = "TOKEN", !.for = "QUOTE", !.cached = q, !.tries = 0]
<1>1. DOMAIN j = {"stage", "for", "load", "now", "cached", "from", "tries", "answer"}
  BY DEF JobOK
<1>2. DOMAIN k = DOMAIN j /\ k = [f \in DOMAIN j |-> k[f]]
  OBVIOUS
<1>3. k.stage = "TOKEN" /\ k.load = j.load /\ k.now = j.now /\ k.from = j.from /\ k.answer = j.answer
  BY <1>1
<1>4. k.from \in Int /\ Answered(doubled, k.answer, j.now)
  BY <1>3 DEF JobOK
<1> HIDE DEF k
<1>5. JobOK(k, doubled, time)
  BY <1>2, <1>3, <1>4, OtherJob
<1> QED BY <1>3, <1>5 DEF k

\* on its way to bars.
LEMMA BarsJobIs ==
    ASSUME NEW j, NEW doubled, NEW time, JobOK(j, doubled, time), NEW f \in Int
    PROVE  /\ JobOK([j EXCEPT !.stage = "TOKEN", !.for = "BARS", !.cached = Nothing, !.tries = 0, !.from = f], doubled, time)
           /\ [j EXCEPT !.stage = "TOKEN", !.for = "BARS", !.cached = Nothing, !.tries = 0, !.from = f].stage = "TOKEN"
<1> DEFINE k == [j EXCEPT !.stage = "TOKEN", !.for = "BARS", !.cached = Nothing, !.tries = 0, !.from = f]
<1>1. DOMAIN j = {"stage", "for", "load", "now", "cached", "from", "tries", "answer"}
  BY DEF JobOK
<1>2. DOMAIN k = DOMAIN j /\ k = [x \in DOMAIN j |-> k[x]]
  OBVIOUS
<1>3. k.stage = "TOKEN" /\ k.load = j.load /\ k.now = j.now /\ k.from = f /\ k.answer = j.answer
  BY <1>1
<1>4. k.from \in Int /\ Answered(doubled, k.answer, j.now)
  BY <1>3 DEF JobOK
<1> HIDE DEF k
<1>5. JobOK(k, doubled, time)
  BY <1>2, <1>3, <1>4, OtherJob
<1> QED BY <1>3, <1>5 DEF k

\* A task ends with an answer, or with none.
LEMMA EndsWell ==
    ASSUME NEW t \in Loaders, JobsInv, jobs[t].stage # "IDLE", NEW a, Answered(scene.doubled, a, jobs[t].now),
           Goes(t, Idle) \/ Replies(t, a), scene' = scene, clock' = clock, token' = token, account' = account,
           lock' # t, \A u \in Loaders \ {t} : lock' = u <=> lock = u,
           gate' # t, \A u \in Loaders \ {t} : gate' = u <=> gate = u
    PROVE  JobsInv'
<1>1. JobOK(jobs[t], scene.doubled, clock)
  BY Held
<1>2. CASE Goes(t, Idle)
  <2>1. Idle.stage = "IDLE" /\ Idle.stage \notin LockStages
    BY DEF Idle, LockStages
  <2> DEFINE job == Idle
  <2>2. job = Idle
    OBVIOUS
  <2> HIDE DEF job
  <2> QED BY <1>2, <2>1, <2>2, JobsGo
<1>3. CASE Replies(t, a)
  <2> DEFINE job == [jobs[t] EXCEPT !.stage = "REPLIED", !.answer = a]
  <2>1. JobOK(job, scene.doubled, clock) /\ job.stage = "REPLIED"
    BY <1>1, RepliedIs
  <2>2. Goes(t, job)
    BY <1>3, Zenon DEF Replies
  <2> HIDE DEF job
  <2>3. job.stage \notin LockStages
    BY <2>1 DEF LockStages
  <2> QED BY <2>1, <2>2, <2>3, JobsGo
<1> QED BY <1>2, <1>3

\* What a cache that is younger than the grace holds may be answered with.
LEMMA CutIsAnswered ==
    ASSUME NEW j, NEW doubled, NEW time, JobOK(j, doubled, time), NEW at \in Int, NEW raw, HistoryRead(doubled, raw, at),
           j.now - StaleGrace < at
    PROVE  Answered(doubled, LastOf(raw, j.load.needed), j.now)
<1>1. j.load.needed \in Nat
  BY DEF JobOK, Loads
<1> DEFINE limit == j.load.needed
           now == j.now
<1> HIDE DEF limit, now
<1>2. limit \in Nat /\ now - StaleGrace < at
  BY <1>1 DEF limit, now
<1>3. Answered(doubled, LastOf(raw, limit), now)
  BY <1>2 DEF Answered
<1> QED BY <1>3 DEF limit, now

\* A recent quote is passed by, another one is asked for.
LEMMA LookForQuoteStays ==
    ASSUME NEW t \in Loaders, JobsInv, LookForQuote(t)
    PROVE  JobsInv'
<1> DEFINE q == quote
           job == [jobs[t] EXCEPT !.stage = "TOKEN", !.for = "QUOTE", !.cached = q, !.tries = 0]
<1>1. /\ jobs[t].stage = "QUOTE"
      /\ UNCHANGED <<World, faults, Login, lock, gate, Caches>>
      /\ To(t, "BARS") \/ Goes(t, job)
  BY Zenon DEF LookForQuote, Runs
<1>2. scene' = scene /\ clock' = clock /\ account' = account /\ token' = token /\ gate' = gate /\ lock' = lock
  BY <1>1 DEF World, Login
<1>3. lock # t /\ gate # t /\ JobOK(jobs[t], scene.doubled, clock)
  BY <1>1, Held DEF LockStages
<1>4. CASE To(t, "BARS")
  BY <1>1, <1>2, <1>3, <1>4, Held, ToStage DEF LockStages
<1>5. CASE Goes(t, job)
  <2> HIDE DEF q
  <2>1. JobOK(job, scene.doubled, clock) /\ job.stage = "TOKEN"
    BY <1>3, QuoteJobIs
  <2> HIDE DEF job
  <2>2. job.stage \notin LockStages
    BY <2>1 DEF LockStages
  <2> QED BY <1>1, <1>2, <1>3, <1>5, <2>1, <2>2, Held, JobsGo
<1> QED BY <1>1, <1>4, <1>5

\* Fresh bars are younger than the grace as well.
LEMMA LookForBarsStays ==
    ASSUME NEW t \in Loaders, JobsInv, WorldInv, CacheInv, LookForBars(t)
    PROVE  JobsInv'
<1> DEFINE needed == jobs[t].load.needed
           f == clock - 3 * Bar * needed
           job == [jobs[t] EXCEPT !.stage = "TOKEN", !.for = "BARS", !.cached = Nothing, !.tries = 0, !.from = f]
           a == LastOf(bars.raw, needed)
<1>1. /\ jobs[t].stage = "BARS"
      /\ UNCHANGED <<World, faults, Login, lock, gate, Caches>>
      /\ IF Fresh(needed) THEN HasBars(t, bars.raw) ELSE Goes(t, job)
  BY Zenon DEF LookForBars, Runs
<1>2. scene' = scene /\ clock' = clock /\ account' = account /\ token' = token /\ gate' = gate /\ lock' = lock
  BY <1>1 DEF World, Login
<1>3. lock # t /\ gate # t /\ JobOK(jobs[t], scene.doubled, clock)
  BY <1>1, Held DEF LockStages
<1>4. needed \in Nat /\ clock \in Nat /\ jobs[t].now \in Nat /\ jobs[t].now <= clock
  BY <1>3 DEF JobOK, Loads, WorldInv
<1>5. CASE Fresh(needed)
  <2>1. bars # Nothing /\ clock - bars.at < Ttl /\ HasBars(t, bars.raw)
    BY <1>1, <1>5 DEF Fresh, Recent
  <2>2. bars.at \in Int /\ HistoryRead(scene.doubled, bars.raw, bars.at)
    BY <2>1 DEF CacheInv
  <2>3. jobs[t].now - StaleGrace < bars.at
    <3>1. Ttl \in Nat /\ StaleGrace \in Nat /\ Ttl <= StaleGrace
      BY ProviderAssumption
    <3> QED BY <1>4, <2>1, <2>2, <3>1
  <2>4. Answered(scene.doubled, a, jobs[t].now)
    BY <1>3, <2>2, <2>3, CutIsAnswered
  <2>5. Goes(t, Idle) \/ Replies(t, a)
    BY <2>1, Zenon DEF HasBars
  <2> HIDE DEF a
  <2> QED BY <1>1, <1>2, <1>3, <2>4, <2>5, Held, EndsWell
<1>6. CASE ~Fresh(needed)
  <2>1. f \in Int
    <3>1. Bar \in Nat
      BY SeriesAssumption
    <3>2. ASSUME NEW b \in Nat, NEW n \in Nat, NEW c \in Nat PROVE c - 3 * b * n \in Int
      <4>1. 3 * b \in Nat
        OBVIOUS
      <4>2. (3 * b) * n \in Int
        BY <4>1
      <4> QED BY <4>2
    <3> HIDE DEF needed
    <3> QED BY <1>4, <3>1, <3>2
  <2>2. Goes(t, job)
    BY <1>1, <1>6
  <2> HIDE DEF f
  <2>3. JobOK(job, scene.doubled, clock) /\ job.stage = "TOKEN"
    BY <1>3, <2>1, BarsJobIs
  <2> HIDE DEF job
  <2>4. job.stage \notin LockStages
    BY <2>3 DEF LockStages
  <2> QED BY <1>1, <1>2, <1>3, <2>2, <2>3, <2>4, Held, JobsGo
<1> QED BY <1>5, <1>6

\* After a failure bars are served within the grace, or nothing is.
LEMMA FailedStays ==
    ASSUME NEW t \in Loaders, JobsInv, WorldInv, CacheInv, Failed(t)
    PROVE  JobsInv'
<1> DEFINE needed == jobs[t].load.needed
           a == LastOf(bars.raw, needed)
<1>1. /\ jobs[t].stage = "FAILED"
      /\ UNCHANGED <<World, faults, Login, lock, gate, Caches>>
      /\ CASE jobs[t].for = "BARS" /\ Recent(bars, StaleGrace) -> HasBars(t, bars.raw)
           [] jobs[t].for = "BARS" /\ ~Recent(bars, StaleGrace) -> IF t = Warmer THEN Goes(t, Idle) ELSE Replies(t, Nothing)
           [] jobs[t].for = "QUOTE" /\ (t = Warmer \/ Recent(jobs[t].cached, StaleGrace)) -> To(t, "BARS")
           [] OTHER -> Replies(t, Nothing)
  BY Zenon DEF Failed, Runs
<1>2. scene' = scene /\ clock' = clock /\ account' = account /\ token' = token /\ gate' = gate /\ lock' = lock
  BY <1>1 DEF World, Login
<1>3. lock # t /\ gate # t /\ JobOK(jobs[t], scene.doubled, clock)
  BY <1>1, Held DEF LockStages
<1>4. clock \in Nat /\ jobs[t].now \in Nat /\ jobs[t].now <= clock
  BY <1>3 DEF JobOK, WorldInv
<1>5. \/ Recent(bars, StaleGrace) /\ HasBars(t, bars.raw)
      \/ Goes(t, Idle) \/ Replies(t, Nothing)
      \/ To(t, "BARS")
  BY <1>1
<1>6. CASE Recent(bars, StaleGrace) /\ HasBars(t, bars.raw)
  <2>1. bars # Nothing /\ clock - bars.at < StaleGrace
    BY <1>6 DEF Recent
  <2>2. bars.at \in Int /\ HistoryRead(scene.doubled, bars.raw, bars.at)
    BY <2>1 DEF CacheInv
  <2>3. jobs[t].now - StaleGrace < bars.at
    <3>1. StaleGrace \in Nat
      BY ProviderAssumption
    <3> QED BY <1>4, <2>1, <2>2, <3>1
  <2>4. Answered(scene.doubled, a, jobs[t].now)
    BY <1>3, <2>2, <2>3, CutIsAnswered
  <2>5. Goes(t, Idle) \/ Replies(t, a)
    BY <1>6, Zenon DEF HasBars
  <2> HIDE DEF a
  <2> QED BY <1>1, <1>2, <1>3, <2>4, <2>5, Held, EndsWell
<1>7. CASE Goes(t, Idle) \/ Replies(t, Nothing)
  <2>1. Answered(scene.doubled, Nothing, jobs[t].now)
    BY DEF Answered
  <2> QED BY <1>1, <1>2, <1>3, <1>7, <2>1, Held, EndsWell
<1>8. CASE To(t, "BARS")
  BY <1>1, <1>2, <1>3, <1>8, Held, ToStage DEF LockStages
<1> QED BY <1>5, <1>6, <1>7, <1>8

\* What is cached and answered is the history of the instant the answer came.
LEMMA AnswerStays ==
    ASSUME NEW t \in Loaders, JobsInv, WorldInv, CacheInv, Answer(t)
    PROVE  JobsInv' /\ CacheInv'
<1> DEFINE from == jobs[t].from
           end == jobs[t].load.end
           needed == jobs[t].load.needed
           raw == History(from, end, clock)
           a == LastOf(raw, needed)
<1>1. /\ jobs[t].stage = "CALL" /\ gate' = Nothing
      /\ UNCHANGED <<World, Login, lock>>
      /\ \/ bars' = bars /\ To(t, "BARS")
         \/ bars' = [at |-> clock, raw |-> raw] /\ HasBars(t, raw)
         \/ bars' = bars /\ To(t, "GATE")
         \/ bars' = bars /\ To(t, "FAILED")
  <2>1. /\ jobs[t].stage = "CALL" /\ gate' = Nothing
        /\ UNCHANGED <<World, Login, lock>>
        /\ \/ IF jobs[t].for = "QUOTE"
              THEN bars' = bars /\ To(t, "BARS")
              ELSE bars' = [at |-> clock, raw |-> raw] /\ HasBars(t, raw)
           \/ /\ UNCHANGED Caches
              /\ \/ Goes(t, [jobs[t] EXCEPT !.stage = "GATE"])
                 \/ Raise(t)
    BY Zenon DEF Answer, Answers
  <2> HIDE DEF raw
  <2> QED BY <2>1, Zenon DEF Raise, To, Caches
<1>2. scene' = scene /\ clock' = clock /\ account' = account /\ token' = token /\ lock' = lock
  BY <1>1 DEF World, Login
<1>3. lock # t /\ gate = t /\ JobOK(jobs[t], scene.doubled, clock)
  BY <1>1, Held DEF LockStages
<1>4. /\ gate' # t /\ \A u \in Loaders \ {t} : (lock' = u <=> lock = u) /\ (gate' = u <=> gate = u)
      /\ lock' # t
  BY <1>1, <1>2, <1>3, Held
<1>5. CASE bars' = bars /\ \E stage \in {"BARS", "GATE", "FAILED"} : To(t, stage)
  <2>1. PICK stage \in {"BARS", "GATE", "FAILED"} : To(t, stage)
    BY <1>5
  <2>2. stage \notin LockStages /\ stage # "CALL" /\ stage # "RENEW" /\ stage # "INSTRUMENTS"
    BY DEF LockStages
  <2>3. JobsInv'
    BY <1>1, <1>2, <1>4, <2>1, <2>2, ToStage
  <2>4. CacheInv'
    BY <1>2, <1>5 DEF CacheInv
  <2> QED BY <2>3, <2>4
<1>6. CASE bars' = [at |-> clock, raw |-> raw] /\ HasBars(t, raw)
  <2>1. /\ from \in Int /\ end \in Int /\ clock \in Nat /\ jobs[t].now \in Nat /\ jobs[t].now <= clock
    BY <1>3 DEF JobOK, Loads, WorldInv
  <2> HIDE DEF from, end
  <2>2. HistoryRead(scene.doubled, raw, clock)
    <3> DEFINE at == clock
               h == History(from, end, at)
    <3>1. at \in Int
      BY <2>1
    <3> HIDE DEF at
    <3>2. h \in Seq(BarsRead(scene.doubled, at)) /\ InSlots(h) /\ Twice(h, scene.doubled)
      BY <2>1, <3>1, HistoryIs
    <3> HIDE DEF h
    <3>3. HistoryRead(scene.doubled, h, at)
      BY <3>2 DEF HistoryRead
    <3> QED BY <3>3 DEF h, at
  <2> HIDE DEF raw
  <2>3. CacheInv'
    <3>1. bars'.at = clock /\ bars'.raw = raw
      BY <1>6
    <3> QED BY <1>2, <2>1, <2>2, <3>1 DEF CacheInv
  <2>4. jobs[t].now - StaleGrace < clock
    <3>1. StaleGrace \in Nat \ {0}
      BY ProviderAssumption
    <3> QED BY <2>1, <3>1
  <2>5. Answered(scene.doubled, a, jobs[t].now)
    BY <1>3, <2>1, <2>2, <2>4, CutIsAnswered
  <2>6. Goes(t, Idle) \/ Replies(t, a)
    BY <1>6, Zenon DEF HasBars
  <2> HIDE DEF a
  <2>7. JobsInv'
    BY <1>1, <1>2, <1>4, <2>5, <2>6, EndsWell
  <2> QED BY <2>3, <2>7
<1> QED BY <1>1, <1>5, <1>6

\* A job begins without an answer.
LEMMA NewJobIs ==
    ASSUME NEW load \in Loads, NEW now \in Nat, NEW time \in Nat, now <= time, NEW doubled, NEW stage, NEW for
    PROVE  JobOK(Job(load, now, stage, for), doubled, time) /\ Job(load, now, stage, for).stage = stage
<1> DEFINE j == Job(load, now, stage, for)
<1>1. j = [stage |-> stage, for |-> for, load |-> load, now |-> now, cached |-> Nothing, from |-> 0, tries |-> 0, answer |-> Nothing]
  BY Zenon DEF Job
<1> HIDE DEF j
<1>2. JobOK(j, doubled, time)
  BY <1>1 DEF JobOK, Answered
<1> QED BY <1>1, <1>2 DEF j

\* A number of bars is asked for.
LEMMA NeededIs ==
    ASSUME NEW tf \in Timeframes, NEW limit \in Nat
    PROVE  Needed(tf, limit) \in Nat
<1>1. Ratio(tf) \in Nat \ {0} /\ WarmupBars \in Nat
  BY DurationIs, ProviderAssumption
<1>2. ASSUME NEW r \in Nat PROVE (limit + 1) * r \in Nat
  <2>1. limit + 1 \in Nat
    OBVIOUS
  <2>2. ASSUME NEW x \in Nat PROVE x * r \in Nat
    OBVIOUS
  <2> QED BY <2>1, <2>2
<1>3. (limit + 1) * Ratio(tf) \in Nat
  BY <1>1, <1>2
<1> QED BY <1>1, <1>3 DEF Needed

\* A load is for the instant it begins at, or for one before the start.
LEMMA BeginStays ==
    ASSUME NEW t \in Tasks, JobsInv, WorldInv, Begin(t)
    PROVE  JobsInv' /\ left' \in Seq(AskedLoads(scene.start))
<1> DEFINE asked == Head(left)
           now == IF asked.past = Nothing THEN clock ELSE asked.past
           load == [tf |-> asked.tf, limit |-> asked.limit, needed |-> Needed(asked.tf, asked.limit), end |-> now]
           job == Job(load, now, "TOKEN", "HEALTH")
<1>0. t \in Loaders
  BY DEF Loaders
<1>1. /\ jobs[t].stage \in {"IDLE", "REPLIED"} /\ left # <<>> /\ left' = Tail(left)
      /\ UNCHANGED <<scene, clock, faults, Login, lock, gate, Caches>>
      /\ Goes(t, job)
  BY Zenon DEF Begin
<1>2. scene' = scene /\ clock' = clock /\ account' = account /\ token' = token /\ lock' = lock /\ gate' = gate
  BY <1>1 DEF Login
<1>3. lock # t /\ gate # t
  BY <1>0, <1>1, Held DEF LockStages
<1>4. asked \in AskedLoads(scene.start) /\ left' \in Seq(AskedLoads(scene.start))
  BY <1>1 DEF WorldInv
<1>5. clock \in Nat /\ scene.start \in Nat /\ scene.start <= clock
  BY SceneIs DEF WorldInv
<1> HIDE DEF asked
<1>6. now \in Nat /\ now <= clock
  <2>1. CASE asked.past = Nothing
    BY <1>5, <2>1
  <2>2. CASE asked.past # Nothing
    <3>1. asked.past \in 0 .. scene.start
      BY <1>4, <2>2 DEF AskedLoads
    <3> QED BY <1>5, <2>2, <3>1
  <2> QED BY <2>1, <2>2
<1> HIDE DEF now
<1>7. load \in Loads
  <2>1. asked.tf \in Timeframes /\ asked.limit \in Nat
    BY <1>4 DEF AskedLoads, Load, Timeframes
  <2>2. Needed(asked.tf, asked.limit) \in Nat
    BY <2>1, NeededIs
  <2> QED BY <1>6, <2>1, <2>2 DEF Loads
<1> HIDE DEF load
<1>8. JobOK(job, scene.doubled, clock) /\ job.stage = "TOKEN"
  BY <1>5, <1>6, <1>7, NewJobIs
<1> HIDE DEF job
<1>9. job.stage \notin LockStages
  BY <1>8 DEF LockStages
<1>10. JobsInv'
  BY <1>0, <1>1, <1>2, <1>3, <1>8, <1>9, JobsGo
<1> QED BY <1>4, <1>10

\* The warmer is a task like the others.
LEMMA WarmStays ==
    ASSUME JobsInv, WorldInv, Warm
    PROVE  JobsInv'
<1> DEFINE load == [tf |-> "H1", limit |-> WarmLimit, needed |-> WarmLimit, end |-> clock]
           job == Job(load, clock, "QUOTE", "QUOTE")
<1>0. Warmer \in Loaders
  BY DEF Loaders
<1>1. /\ jobs[Warmer] = Idle
      /\ UNCHANGED <<World, faults, Login, lock, gate, Caches>>
      /\ Goes(Warmer, job)
  BY Zenon DEF Warm
<1>2. scene' = scene /\ clock' = clock /\ account' = account /\ token' = token /\ lock' = lock /\ gate' = gate
  BY <1>1 DEF Login, World
<1>3. lock # Warmer /\ gate # Warmer
  BY <1>0, <1>1, Held DEF LockStages, Idle
<1>4. clock \in Nat
  BY DEF WorldInv
<1>5. load \in Loads
  <2>1. WarmLimit \in Nat
    BY ProviderAssumption
  <2> QED BY <1>4, <2>1 DEF Loads, Timeframes
<1> HIDE DEF load
<1>6. JobOK(job, scene.doubled, clock) /\ job.stage = "QUOTE"
  BY <1>4, <1>5, NewJobIs
<1> HIDE DEF job
<1>7. job.stage \notin LockStages
  BY <1>6 DEF LockStages
<1> QED BY <1>0, <1>1, <1>2, <1>3, <1>6, <1>7, JobsGo

\* Time passes and nothing else.
LEMMA TickStays ==
    ASSUME JobsInv, WorldInv, Tick
    PROVE  JobsInv' /\ WorldInv'
<1>1. /\ clock < scene.until /\ clock' = clock + 1
      /\ UNCHANGED <<scene, left, faults, Login, lock, gate, running, Caches, jobs>>
  BY Zenon DEF Tick
<1>2. clock \in Nat /\ scene \in Scenes /\ scene.start \in Nat /\ scene.until \in Nat /\ scene.start <= clock
  BY SceneIs DEF WorldInv
<1>3. WorldInv'
  BY <1>1, <1>2 DEF WorldInv
<1>4. token' = token /\ account' = account /\ lock' = lock /\ gate' = gate /\ running' = running /\ jobs' = jobs /\ scene' = scene
  BY <1>1 DEF Login
<1>5. ASSUME NEW u \in Loaders PROVE JobInv(u)' /\ Holds(u)'
  <2>1. JobInv(u) /\ Holds(u)
    BY DEF JobsInv
  <2>2. ASSUME JobOK(jobs[u], scene.doubled, clock) PROVE JobOK(jobs[u], scene.doubled, clock')
    BY <1>1, <1>2, <2>2 DEF JobOK
  <2>3. JobInv(u)'
    BY <1>4, <2>1, <2>2 DEF JobInv
  <2>4. Holds(u)'
    BY <1>4, <2>1 DEF Holds
  <2> QED BY <2>3, <2>4
<1>6. JobsInv'
  BY <1>4, <1>5 DEF JobsInv
<1> QED BY <1>3, <1>6

\* The invariant holds when the service starts,
LEMMA InitIs == Init => Inv
<1> SUFFICES ASSUME Init PROVE Inv
  OBVIOUS
<1>1. /\ scene \in Scenes /\ clock = scene.start /\ left = scene.loads /\ faults = scene.faults
      /\ token = scene.token /\ account = (scene.token # Nothing) /\ route = (scene.token # Nothing)
      /\ lock = Nothing /\ gate = Nothing /\ running = Nothing
      /\ jobs = [t \in Loaders |-> Idle]
  BY Zenon DEF Init, Loaders
<1>2. bars = IF scene.read = Nothing THEN Nothing ELSE [at |-> scene.read, raw |-> History(0, scene.read, scene.read)]
  BY Zenon DEF Init
<1>3. /\ scene.start \in Nat /\ scene.until \in Nat /\ scene.faults \in Nat /\ scene.start <= scene.until
      /\ scene.read = Nothing \/ scene.read \in Nat
      /\ scene.loads \in Seq(AskedLoads(scene.start))
      /\ scene.token = Nothing \/ scene.token \in Token
  BY <1>1, SceneIs
<1>4. WorldInv
  BY <1>1, <1>3 DEF WorldInv
<1>5. LoginInv
  BY <1>1, <1>3 DEF LoginInv
<1>6. CacheInv
  <2> SUFFICES ASSUME bars # Nothing PROVE bars.at \in Int /\ HistoryRead(scene.doubled, bars.raw, bars.at)
    BY DEF CacheInv
  <2> DEFINE at == scene.read
             raw == History(0, at, at)
  <2>1. scene.read # Nothing /\ at \in Int
    BY <1>2, <1>3
  <2>2. bars.at = at /\ bars.raw = raw
    BY <1>2, <2>1
  <2> HIDE DEF at
  <2>3. raw \in Seq(BarsRead(scene.doubled, at)) /\ InSlots(raw) /\ Twice(raw, scene.doubled)
    BY <2>1, HistoryIs
  <2> HIDE DEF raw
  <2> QED BY <2>1, <2>2, <2>3 DEF HistoryRead
<1>7. JobsInv
  <2>1. \A t \in Loaders : jobs[t] = Idle /\ jobs[t].stage = "IDLE"
    BY <1>1 DEF Idle
  <2>2. \A t \in Loaders : JobInv(t) /\ Holds(t)
    BY <1>1, <2>1, TasksAre DEF JobInv, Holds, LockStages
  <2> QED BY <1>1, <2>2 DEF JobsInv
<1>8. faults \in Nat
  BY <1>1, <1>3
<1> QED BY <1>4, <1>5, <1>6, <1>7, <1>8 DEF Inv

\* is kept where nothing of it changes,
LEMMA WorldStays ==
    ASSUME WorldInv, UNCHANGED World
    PROVE  WorldInv' /\ scene' = scene /\ clock' = clock
BY DEF World, WorldInv

\* for the login as well
LEMMA LoginStays ==
    ASSUME LoginInv, UNCHANGED Login
    PROVE  LoginInv'
<1>1. token' = token /\ account' = account /\ route' = route
  BY DEF Login
<1> QED BY <1>1 DEF LoginInv

\* and for the caches;
LEMMA CacheStays ==
    ASSUME CacheInv, scene' = scene, UNCHANGED Caches
    PROVE  CacheInv'
<1>1. bars' = bars
  BY DEF Caches
<1> QED BY <1>1 DEF CacheInv

\* What a step leaves alone beside the jobs.
LEMMA StepKeeps ==
    ASSUME NEW t \in Loaders, Step(t)
    PROVE  UNCHANGED World
<1> USE DEF EnsureToken, Authenticate, ResolveAccount, Refresh, Route, Instruments, Enter, Answer, LookForQuote, LookForBars, Failed
<1> QED BY Zenon DEF Step

\* it may use up a fault,
LEMMA StepFaults ==
    ASSUME NEW t \in Loaders, Step(t), faults \in Nat
    PROVE  faults' \in Nat
<1>1. CASE EnsureToken(t) \/ Route(t) \/ Enter(t) \/ LookForQuote(t) \/ LookForBars(t) \/ Failed(t)
  <2>1. UNCHANGED faults
    BY <1>1, Zenon DEF EnsureToken, Route, Enter, LookForQuote, LookForBars, Failed
  <2> QED BY <2>1
<1>2. CASE Authenticate(t) \/ ResolveAccount(t) \/ Refresh(t) \/ Instruments(t) \/ Answer(t)
  <2>1. Works \/ Fault \/ Accepted \/ Refused
    BY <1>2, Zenon DEF Authenticate, ResolveAccount, Refresh, Instruments, Answer
  <2> QED BY <2>1, FaultsFall
<1> QED BY <1>1, <1>2 DEF Step

\* it leaves jobs that are in order,
LEMMA StepJobs ==
    ASSUME NEW t \in Loaders, Step(t), Inv
    PROVE  JobsInv'
<1> USE DEF Inv
<1>1. CASE EnsureToken(t)
  BY <1>1, EnsureTokenStays
<1>2. CASE Authenticate(t)
  BY <1>2, AuthenticateStays
<1>3. CASE ResolveAccount(t)
  BY <1>3, ResolveAccountStays
<1>4. CASE Refresh(t)
  BY <1>4, RefreshStays
<1>5. CASE Route(t)
  BY <1>5, RouteStays
<1>6. CASE Instruments(t)
  BY <1>6, InstrumentsStays
<1>7. CASE Enter(t)
  BY <1>7, EnterStays
<1>8. CASE Answer(t)
  BY <1>8, AnswerStays
<1>9. CASE LookForQuote(t)
  BY <1>9, LookForQuoteStays
<1>10. CASE LookForBars(t)
  BY <1>10, LookForBarsStays
<1>11. CASE Failed(t)
  BY <1>11, FailedStays
<1> QED BY <1>1, <1>2, <1>3, <1>4, <1>5, <1>6, <1>7, <1>8, <1>9, <1>10, <1>11 DEF Step

\* a login that is,
LEMMA StepLogin ==
    ASSUME NEW t \in Loaders, Step(t), Inv
    PROVE  LoginInv'
<1> USE DEF Inv
<1>1. CASE EnsureToken(t) \/ Route(t) \/ Enter(t) \/ LookForQuote(t) \/ LookForBars(t) \/ Failed(t) \/ Answer(t)
  <2>1. UNCHANGED Login
    BY <1>1, Zenon DEF EnsureToken, Route, Enter, LookForQuote, LookForBars, Failed, Answer
  <2> QED BY <2>1, LoginStays
<1>2. CASE Authenticate(t)
  <2>1. account' = account /\ route' = route
        /\ (token' = [expires |-> clock + TokenLife, renewable |-> scene.renewable] \/ token' = token)
    BY <1>2, Zenon DEF Authenticate
  <2>2. [expires |-> clock + TokenLife, renewable |-> scene.renewable] \in Token
    <3>1. clock \in Nat /\ TokenLife \in Nat /\ scene.renewable \in BOOLEAN
      BY SceneIs, ProviderAssumption DEF WorldInv
    <3> QED BY <3>1 DEF Token
  <2>3. token' = Nothing \/ token' \in Token
    BY <2>1, <2>2 DEF LoginInv
  <2> QED BY <2>1, <2>3 DEF LoginInv
<1>3. CASE ResolveAccount(t)
  <2>1. token' = token /\ ((account' = TRUE /\ route' = FALSE) \/ (account' = account /\ route' = route))
    BY <1>3, Zenon DEF ResolveAccount
  <2>2. account' \in BOOLEAN /\ route' \in BOOLEAN /\ (route' => account')
    <3>1. CASE account' = TRUE /\ route' = FALSE
      BY <3>1
    <3>2. CASE account' = account /\ route' = route
      BY <3>2 DEF LoginInv
    <3> QED BY <2>1, <3>1, <3>2
  <2> QED BY <2>1, <2>2 DEF LoginInv
<1>4. CASE Refresh(t)
  <2>1. account' = account /\ route' = route
    BY <1>4, Zenon DEF Refresh
  <2>2. token' \in Token
    BY <1>4, RefreshStays
  <2> QED BY <2>1, <2>2 DEF LoginInv
<1>5. CASE Instruments(t)
  <2>1. token' = token /\ account' = account /\ (route' = TRUE \/ route' = route)
    BY <1>5, Zenon DEF Instruments
  <2>2. account
    BY <1>5, InstrumentsStays
  <2> QED BY <2>1, <2>2 DEF LoginInv
<1> QED BY <1>1, <1>2, <1>3, <1>4, <1>5 DEF Step

\* and caches that are.
LEMMA StepCaches ==
    ASSUME NEW t \in Loaders, Step(t), Inv
    PROVE  CacheInv'
<1>1. scene' = scene
  BY StepKeeps DEF World
<1>2. CASE Answer(t)
  BY <1>2, AnswerStays DEF Inv
<1>3. CASE ~Answer(t)
  <2>1. UNCHANGED Caches
    BY <1>3, Zenon DEF Step, EnsureToken, Authenticate, ResolveAccount, Refresh, Route, Instruments, Enter, LookForQuote, LookForBars, Failed
  <2> QED BY <1>1, <2>1, CacheStays DEF Inv
<1> QED BY <1>2, <1>3

\* Every step keeps the invariant.
LEMMA NextStays == Inv /\ [Next]_vars => Inv'
<1> SUFFICES ASSUME Inv, [Next]_vars PROVE Inv'
  OBVIOUS
<1>1. CASE Tick
  <2>1. JobsInv' /\ WorldInv'
    BY <1>1, TickStays DEF Inv
  <2>2. UNCHANGED <<scene, faults, Login, Caches>>
    BY <1>1, Zenon DEF Tick
  <2> QED BY <2>1, <2>2, LoginStays, CacheStays DEF Inv
<1>2. CASE Warm
  <2>1. UNCHANGED <<World, faults, Login, Caches>>
    BY <1>2, Zenon DEF Warm
  <2>2. JobsInv'
    BY <1>2, WarmStays DEF Inv
  <2> QED BY <2>1, <2>2, WorldStays, LoginStays, CacheStays DEF Inv
<1>3. CASE \E t \in Tasks : Begin(t)
  <2>1. PICK t \in Tasks : Begin(t)
    BY <1>3
  <2>2. UNCHANGED <<scene, clock, faults, Login, Caches>>
    BY <2>1, Zenon DEF Begin
  <2>3. JobsInv' /\ left' \in Seq(AskedLoads(scene.start))
    BY <2>1, BeginStays DEF Inv
  <2>4. WorldInv'
    BY <2>2, <2>3 DEF Inv, WorldInv
  <2> QED BY <2>2, <2>3, <2>4, LoginStays, CacheStays DEF Inv
<1>4. CASE \E t \in Loaders : Step(t)
  <2>1. PICK t \in Loaders : Step(t)
    BY <1>4
  <2>2. WorldInv'
    BY <2>1, StepKeeps, WorldStays DEF Inv
  <2> QED BY <2>1, <2>2, StepFaults, StepJobs, StepLogin, StepCaches DEF Inv
<1>5. CASE UNCHANGED vars
  <2>1. /\ UNCHANGED <<scene, clock, left, faults, token, account, route, lock, gate, running, bars, quote, jobs>>
    BY <1>5, Zenon DEF vars
  <2>2. WorldInv' /\ faults' \in Nat /\ LoginInv'
    BY <2>1 DEF Inv, WorldInv, LoginInv
  <2>3. CacheInv'
    BY <2>1 DEF Inv, CacheInv
  <2>4. \A t \in Loaders : JobInv(t)' /\ Holds(t)'
    BY <2>1 DEF Inv, JobsInv, JobInv, Holds
  <2>5. JobsInv'
    BY <2>1, <2>4 DEF Inv, JobsInv
  <2> QED BY <2>2, <2>3, <2>5 DEF Inv
<1> QED BY <1>1, <1>2, <1>3, <1>4, <1>5, Zenon DEF Next, Loaders

(***************************************************************************)
(* Every cache and every task holds a history as the broker had it at one  *)
(* instant, and who holds the token lock or the rate gate is waiting for   *)
(* the answer it holds it for (tradelocker.py: _ensure_token, _get, the    *)
(* two caches), however the tasks take turns and whatever fails.           *)
(***************************************************************************)
THEOREM Inductive == Spec => []Inv
BY InitIs, NextStays, PTL DEF Spec

\* Whoever was replied to asked for something and was answered out of a history.
LEMMA RepliedAsks ==
    ASSUME Inv, NEW job \in Replied
    PROVE  Asks(job)
<1>1. PICK t \in Tasks : jobs[t].stage = "REPLIED" /\ job = jobs[t]
  BY DEF Replied
<1>2. t \in Loaders
  BY DEF Loaders
<1>3. JobOK(jobs[t], scene.doubled, clock)
  BY <1>1, <1>2, Held DEF Inv
<1>4. job.load \in Loads /\ job.now \in Nat /\ Answered(scene.doubled, job.answer, job.now)
  BY <1>1, <1>3 DEF JobOK
<1>5. job.now \in Int
  BY <1>4
<1> QED BY <1>4, <1>5 DEF Asks

\* The invariant has the types in it.
LEMMA TypesAre == Inv => TypeOK
<1> SUFFICES ASSUME Inv PROVE TypeOK
  OBVIOUS
<1>1. clock \in 0 .. scene.until
  BY SceneIs DEF Inv, WorldInv
<1>2. account \in BOOLEAN /\ (route => account) /\ (token # Nothing => token.expires \in Nat)
  BY DEF Inv, LoginInv, Token
<1>3. running # Nothing => ~Waits(jobs[running].stage)
  BY DEF Inv, JobsInv
<1>4. \A t \in Loaders : (lock = t <=> jobs[t].stage \in LockStages) /\ (gate = t <=> jobs[t].stage = "CALL")
  BY DEF Inv, JobsInv, Holds
<1>5. bars # Nothing => \A i \in 1 .. Len(bars.raw) - 1 : bars.raw[i].slot <= bars.raw[i + 1].slot
  <2> SUFFICES ASSUME bars # Nothing, NEW i \in 1 .. Len(bars.raw) - 1 PROVE bars.raw[i].slot <= bars.raw[i + 1].slot
    OBVIOUS
  <2>1. InSlots(bars.raw) /\ bars.raw \in Seq(BarsRead(scene.doubled, bars.at))
    BY DEF Inv, CacheInv, HistoryRead
  <2>2. Len(bars.raw) \in Nat
    BY <2>1
  <2>3. i \in 1 .. Len(bars.raw) /\ i + 1 \in 1 .. Len(bars.raw) /\ i <= i + 1
    BY <2>2
  <2> QED BY <2>1, <2>3 DEF InSlots
<1>6. faults \in Nat
  BY DEF Inv
<1> QED BY <1>1, <1>2, <1>3, <1>4, <1>5, <1>6, Zenon DEF TypeOK, Loaders, LockStages

(***************************************************************************)
(* A closed candle that is older than the grace is shown with its final    *)
(* prices, whichever cache it came from (tradelocker.py:65-73).            *)
(***************************************************************************)
THEOREM OldIsFinal == Spec => []OldCandlesAreFinal
<1>1. Inv => OldCandlesAreFinal
  <2>1. Inv => \A job \in Replied : FinalReply(job)
    BY RepliedAsks, RepliesAreFinal
  <2> QED BY <2>1, Zenon DEF OldCandlesAreFinal, FinalReply
<1> QED BY <1>1, Inductive, PTL

(***************************************************************************)
(* Whatever a load shows (candles/service.py:168-203) is in order, closed  *)
(* only when it is over and whole, not from the future, and nothing when   *)
(* the series is withheld; CURRENT means that the latest candle is there.  *)
(***************************************************************************)
THEOREM SeriesAreSound == Spec => []SeriesIsSound
<1>1. Inv => SeriesIsSound
  <2>1. Inv => \A job \in Replied : SoundReply(job)
    BY RepliedAsks, RepliesAreSound
  <2> QED BY <2>1, TypesAre, Zenon DEF SeriesIsSound, SoundReply
<1> QED BY <1>1, Inductive, PTL
=============================================================================
