------------------------- MODULE BundleMoneyProofs -------------------------
(***************************************************************************)
(* Theorems about the money of bundle orders, in three parts.              *)
(*                                                                         *)
(* 1. Allocation, for any amount and any weights.                          *)
(* 2. BundleRefund, for any price, any number of operations, requests and  *)
(*    sweeps.  What a request computed from its first read is still good   *)
(*    when its transaction runs, because refunds only grow; a success      *)
(*    somebody goes by stays one, though the money may come back; and      *)
(*    every step that moves money in the order moves one operation with    *)
(*    that amount.                                                         *)
(* 3. BundleSettlement, for any number of components at any prices.  Every *)
(*    component is sound by itself; part 1 makes their sum the order's     *)
(*    total, and what is left of the prices cover what is set aside.       *)
(*                                                                         *)
(* Part 3 is about an instance, because both models have an Init, a Next   *)
(* and so on.  The instance defines again what its module extends, in the  *)
(* same words.                                                             *)
(***************************************************************************)
EXTENDS BundleRefund, BundleComponents, FiniteSetTheorems, WellFoundedInduction, TLAPS

Settlement == INSTANCE BundleSettlement

(* The totals of the order in part 2 and in part 3.                        *)
Processed == INSTANCE RefundContract
               WITH refunded <- order.refunded, pending <- order.pending
Settled == INSTANCE RefundContract
               WITH Total <- Price, refunded <- order.refunded, pending <- order.pending


-----------------------------------------------------------------------------
(* 1. Allocation.                                                          *)

(* The units of natural numbers on a finite set are finitely many.         *)
LEMMA SumFinite ==
  ASSUME NEW I, IsFiniteSet(I), NEW f \in [I -> Nat]
  PROVE  IsFiniteSet(Minors(f)) /\ SumOf(f) \in Nat
<1> DEFINE g == [i \in I |-> {i} \X (1..f[i])]
           G == {g[i] : i \in I}
<1>1. g \in Surjection(I, G)
  BY DEF Surjection
<1>2. IsFiniteSet(G)
  <2> HIDE DEF G
  <2> QED BY <1>1, FS_Surjection
<1>3. ASSUME NEW T \in G
      PROVE  IsFiniteSet(T)
  <2>1. PICK i \in I : T = {i} \X (1..f[i])
    OBVIOUS
  <2>2. IsFiniteSet({i}) /\ IsFiniteSet(1..f[i])
    <3>1. f[i] \in Int
      OBVIOUS
    <3>2. IsFiniteSet(1..f[i])
      BY <3>1, FS_Interval
    <3> QED BY <3>2, FS_Singleton
  <2> QED BY ONLY <2>1, <2>2, FS_Product
<1>4. Minors(f) = UNION G
  BY DEF Minors
<1> QED
  <2> HIDE DEF G
  <2>1. IsFiniteSet(UNION G)
    BY ONLY <1>2, <1>3, FS_UNION
  <2> QED BY <2>1, <1>4, FS_CardinalityType DEF SumOf

(* A unit of f is a position and a number up to f's value there.           *)
LEMMA UnitOf ==
  ASSUME NEW I, NEW f \in [I -> Nat], NEW i, NEW n
  PROVE  <<i, n>> \in Minors(f) <=> i \in I /\ n \in 1..f[i]
BY DEF Minors

(* A smaller function has a smaller sum, and the same sum only if it is    *)
(* the same function.                                                      *)
LEMMA SumMono ==
  ASSUME NEW I, IsFiniteSet(I), NEW f \in [I -> Nat], NEW g \in [I -> Nat],
         \A i \in I : f[i] <= g[i]
  PROVE  /\ SumOf(f) <= SumOf(g)
         /\ SumOf(f) = SumOf(g) => f = g
<1>1. IsFiniteSet(Minors(g))
  BY SumFinite
<1>2. Minors(f) \in SUBSET Minors(g)
  BY DEF Minors
<1>3. SumOf(f) <= SumOf(g) /\ (SumOf(f) = SumOf(g) => Minors(f) = Minors(g))
  BY <1>1, <1>2, FS_Subset DEF SumOf
<1>4. ASSUME Minors(f) = Minors(g), NEW i \in I
      PROVE  f[i] = g[i]
  <2>1. g[i] > 0 => <<i, g[i]>> \in Minors(g)
    BY UnitOf
  <2>2. g[i] > 0 => g[i] <= f[i]
    BY <2>1, <1>4, UnitOf
  <2> QED BY <2>2
<1> QED BY <1>3, <1>4

(* Only zeros add up to zero.                                              *)
LEMMA SumZero ==
  ASSUME NEW I, IsFiniteSet(I), NEW f \in [I -> Nat]
  PROVE  SumOf(f) = 0 <=> \A i \in I : f[i] = 0
<1>1. SumOf(f) = 0 <=> Minors(f) = {}
  BY SumFinite, FS_EmptySet DEF SumOf
<1>2. Minors(f) = {} <=> \A i \in I : f[i] = 0
  <2>1. ASSUME NEW i \in I, f[i] # 0
        PROVE  <<i, 1>> \in Minors(f)
    BY <2>1, UnitOf
  <2>2. ASSUME \A i \in I : f[i] = 0
        PROVE  Minors(f) = {}
    BY <2>2 DEF Minors
  <2> QED BY <2>1, <2>2
<1> QED BY <1>1, <1>2

(* A pointwise sum adds up to the sum of the sums: the units of g are      *)
(* moved above those of f.                                                 *)
LEMMA SumAdd ==
  ASSUME NEW I, IsFiniteSet(I), NEW f \in [I -> Nat], NEW g \in [I -> Nat],
         NEW h \in [I -> Nat], \A i \in I : h[i] = f[i] + g[i]
  PROVE  SumOf(h) = SumOf(f) + SumOf(g)
<1> DEFINE S == Minors(h) \ Minors(f)
           shift == [u \in Minors(g) |-> <<u[1], f[u[1]] + u[2]>>]
<1>1. /\ IsFiniteSet(Minors(f)) /\ IsFiniteSet(Minors(g)) /\ IsFiniteSet(Minors(h))
      /\ SumOf(f) \in Nat /\ SumOf(g) \in Nat /\ SumOf(h) \in Nat
  BY SumFinite
<1>2. Minors(f) \subseteq Minors(h)
  BY DEF Minors
<1>3. ASSUME NEW u \in Minors(g)
      PROVE  u = <<u[1], u[2]>> /\ u[1] \in I /\ u[2] \in 1..g[u[1]]
  BY DEF Minors
<1>4. \A u \in Minors(g) : shift[u] \in S
  <2> TAKE u \in Minors(g)
  <2>1. u[1] \in I /\ f[u[1]] + u[2] \in 1..h[u[1]] /\ f[u[1]] + u[2] \notin 1..f[u[1]]
    BY <1>3
  <2> QED BY <2>1, UnitOf
<1>5. \A s \in S : \E u \in Minors(g) : shift[u] = s
  <2> TAKE s \in S
  <2>1. s = <<s[1], s[2]>> /\ s[1] \in I /\ s[2] \in 1..h[s[1]]
    BY DEF Minors
  <2>2. s[2] \notin 1..f[s[1]]
    BY <2>1, UnitOf
  <2>3. s[2] - f[s[1]] \in 1..g[s[1]]
    BY <2>1, <2>2
  <2>4. <<s[1], s[2] - f[s[1]]>> \in Minors(g)
    BY <2>1, <2>3, UnitOf
  <2>5. shift[<<s[1], s[2] - f[s[1]]>>] = s
    BY <2>1, <2>4
  <2> QED BY <2>4, <2>5
<1>6. \A u, v \in Minors(g) : shift[u] = shift[v] => u = v
  <2> TAKE u, v \in Minors(g)
  <2> HAVE shift[u] = shift[v]
  <2>1. /\ u = <<u[1], u[2]>> /\ u[1] \in I /\ u[2] \in Int
        /\ v = <<v[1], v[2]>> /\ v[1] \in I /\ v[2] \in Int
    BY <1>3
  <2>2. <<u[1], f[u[1]] + u[2]>> = <<v[1], f[v[1]] + v[2]>>
    OBVIOUS
  <2>3. u[1] = v[1] /\ u[2] = v[2]
    BY <2>1, <2>2
  <2> QED BY <2>1, <2>3
<1>7. DOMAIN shift = Minors(g) /\ shift \in [Minors(g) -> S]
  BY <1>4
<1>8. Cardinality(S) = SumOf(g)
  <2> HIDE DEF S, shift
  <2>1. shift \in Bijection(Minors(g), S)
    BY <1>5, <1>6, <1>7 DEF Bijection, Injection, IsInjective, Surjection
  <2> QED BY <2>1, <1>1, FS_Bijection DEF ExistsBijection, SumOf
<1>9. Cardinality(S) = SumOf(h) - SumOf(f)
  <2>1. Minors(h) \cap Minors(f) = Minors(f)
    BY <1>2
  <2>2. Cardinality(S) = Cardinality(Minors(h)) - Cardinality(Minors(h) \cap Minors(f))
    BY <1>1, FS_Difference
  <2> QED BY <2>1, <2>2 DEF SumOf
<1> QED BY <1>1, <1>8, <1>9

(* A multiple adds up to the multiple of the sum.                          *)
LEMMA SumScale ==
  ASSUME NEW I, IsFiniteSet(I), NEW f \in [I -> Nat], NEW k \in Nat
  PROVE  SumOf([i \in I |-> k * f[i]]) = k * SumOf(f)
<1> DEFINE Times(n) == [i \in I |-> n * f[i]]
           Bad == {n \in Nat : SumOf(Times(n)) # n * SumOf(f)}
<1>1. SumOf(f) \in Nat
  BY SumFinite
<1>2. \A n \in Nat : Times(n) \in [I -> Nat]
  OBVIOUS
<1>3. 0 \notin Bad
  BY <1>1, <1>2, SumZero
<1>4. ASSUME NEW n \in Nat, n \notin Bad
      PROVE  n + 1 \notin Bad
  <2>1. \A i \in I : Times(n + 1)[i] = Times(n)[i] + f[i]
    OBVIOUS
  <2>2. SumOf(Times(n + 1)) = SumOf(Times(n)) + SumOf(f)
    <3> HIDE DEF Times
    <3>1. Times(n) \in [I -> Nat] /\ Times(n + 1) \in [I -> Nat]
      BY <1>2
    <3> QED BY <3>1, <2>1, SumAdd
  <2>3. SumOf(Times(n)) = n * SumOf(f)
    BY <1>4
  <2> HIDE DEF Times
  <2>4. (n + 1) * SumOf(f) = n * SumOf(f) + SumOf(f)
    BY <1>1
  <2> QED BY <2>2, <2>3, <2>4
<1>5. ASSUME Bad # {}
      PROVE  FALSE
  <2>1. \E m \in Bad : \A n \in Bad : ~(<<n, m>> \in OpToRel(<, Nat))
    <3> HIDE DEF Bad
    <3>1. Bad \subseteq Nat
      BY DEF Bad
    <3> QED BY ONLY <3>1, <1>5, WFMin, NatLessThanWellFounded
  <2>2. PICK m \in Bad : \A n \in Bad : ~(n < m)
    BY <2>1 DEF OpToRel
  <2>3. m \in Nat /\ m # 0
    BY <1>3
  <2>4. m - 1 \in Nat /\ m - 1 \notin Bad
    BY <2>2, <2>3
  <2> HIDE DEF Bad
  <2> QED BY <2>3, <2>4, <1>4
<1> QED BY <1>5

(* The ones of a set's indicator add up to its size.                       *)
LEMMA SumOnes ==
  ASSUME NEW I, IsFiniteSet(I), NEW S \in SUBSET I
  PROVE  SumOf([i \in I |-> IF i \in S THEN 1 ELSE 0]) = Cardinality(S)
<1> DEFINE f == [i \in I |-> IF i \in S THEN 1 ELSE 0]
           unit == [i \in S |-> <<i, 1>>]
<1>1. f \in [I -> Nat]
  OBVIOUS
<1>2. \A i \in S : unit[i] \in Minors(f)
  BY DEF Minors
<1>3. \A u \in Minors(f) : \E i \in S : unit[i] = u
  <2> TAKE u \in Minors(f)
  <2>1. u = <<u[1], u[2]>> /\ u[1] \in I /\ u[2] \in 1..f[u[1]]
    BY DEF Minors
  <2>2. u[1] \in S /\ u[2] = 1
    BY <2>1
  <2> QED BY <2>1, <2>2
<1>4. \A i, j \in S : unit[i] = unit[j] => i = j
  OBVIOUS
<1>5. DOMAIN unit = S /\ unit \in [S -> Minors(f)]
  BY <1>2
<1>6. IsFiniteSet(S)
  BY FS_Subset
<1> HIDE DEF f, unit
<1>7. unit \in Bijection(S, Minors(f))
  BY <1>3, <1>4, <1>5 DEF Bijection, Injection, IsInjective, Surjection
<1>8. Cardinality(Minors(f)) = Cardinality(S)
  BY <1>6, <1>7, FS_Bijection DEF ExistsBijection
<1> QED BY <1>8 DEF SumOf, f

(* Integer division in terms of products, for the provers.                 *)
LEMMA Floor ==
  ASSUME NEW a \in Nat, NEW b \in Nat \ {0}
  PROVE  /\ a \div b \in Nat
         /\ b * (a \div b) <= a
         /\ a < b * (a \div b) + b
OBVIOUS

(* A positive factor keeps and reflects the order.                         *)
LEMMA Product ==
  ASSUME NEW a \in Int, NEW b \in Int, NEW k \in Nat \ {0}
  PROVE  /\ k * a \in Int /\ k * b \in Int
         /\ k * a <= k * b <=> a <= b
         /\ k * a < k * b <=> a < b
OBVIOUS

(* A floor of a smaller amount's portion is below its weight.              *)
LEMMA BelowWeight ==
  ASSUME NEW a \in Nat, NEW T \in Nat \ {0}, NEW v \in Nat \ {0}, NEW q \in Nat,
         a < T, T * q <= a * v
  PROVE  q < v
<1>1. v * a < v * T /\ v * a \in Int /\ v * T \in Int
  BY Product
<1>2. a * v = v * a /\ T * v = v * T /\ T * q \in Int
  OBVIOUS
<1>3. T * q < T * v
  BY <1>1, <1>2
<1> QED BY <1>3, Product

(* A floor of a larger amount's portion is its weight at least.            *)
LEMMA AboveWeight ==
  ASSUME NEW a \in Nat, NEW T \in Nat \ {0}, NEW v \in Nat, NEW q \in Nat,
         T <= a, a * v < T * q + T
  PROVE  v <= q
<1>1. T * v <= a * v /\ T * v \in Int /\ a * v \in Int /\ T * q \in Int
  <2>1. CASE v = 0
    BY <2>1
  <2>2. CASE v # 0
    <3>1. v * T <= v * a
      BY <2>2, Product
    <3> QED BY <3>1
  <2> QED BY <2>1, <2>2
<1>2. T * (q + 1) = T * q + T /\ q + 1 \in Int
  OBVIOUS
<1>3. T * v < T * (q + 1)
  BY <1>1, <1>2
<1>4. v < q + 1
  BY <1>2, <1>3, Product
<1> QED BY <1>4

(* An exact portion lies between its floor and one unit more.              *)
LEMMA Sandwich ==
  ASSUME NEW a \in Nat, NEW T \in Nat \ {0}, NEW v \in Nat, NEW q \in Nat, NEW u \in {0, 1},
         T * q <= a * v, a * v < T * q + T, v = 0 => q = 0, u = 0 => v = 0
  PROVE  a * v <= T * (q + u)
<1>1. T * q \in Int /\ a * v \in Int /\ T * (q + 1) = T * q + T /\ T * (q + 0) = T * q
  OBVIOUS
<1>2. v = 0 => a * v = 0
  OBVIOUS
<1>3. CASE u = 1
  BY <1>1, <1>3
<1>4. CASE u = 0
  BY <1>1, <1>2, <1>4
<1> QED BY <1>3, <1>4

(* The positions are served one after another: for every k up to their     *)
(* number exactly k of them have fewer than k before them.                 *)
LEMMA Ranks ==
  ASSUME NEW n \in Nat, NEW w \in [1..n -> Nat], NEW k \in 0..n
  PROVE  /\ \A i \in 1..n : Cardinality(Before(w, i)) \in Nat
         /\ Cardinality({i \in 1..n : Cardinality(Before(w, i)) < k}) = k
<1> DEFINE I == 1..n
           rank == [i \in I |-> Cardinality(Before(w, i))]
           S == {i \in I : rank[i] < k}
           low == [i \in S |-> rank[i]]
<1>1. IsFiniteSet(I) /\ Cardinality(I) = n
  BY FS_Interval
<1>2. ASSUME NEW i \in I
      PROVE  /\ Before(w, i) \in SUBSET I /\ i \notin Before(w, i)
             /\ IsFiniteSet(Before(w, i)) /\ rank[i] \in Nat
  <2>1. Before(w, i) \in SUBSET I /\ i \notin Before(w, i)
    BY DEF Before
  <2>2. IsFiniteSet(Before(w, i))
    BY ONLY <2>1, <1>1, FS_Subset
  <2> QED BY <2>1, <2>2, FS_CardinalityType
<1>3. ASSUME NEW i \in I
      PROVE  rank[i] \in 0..(n - 1)
  <2>1. Before(w, i) \cup {i} \in SUBSET I
    BY <1>2
  <2>2. Cardinality(Before(w, i) \cup {i}) <= n
    BY <2>1, <1>1, FS_Subset
  <2>3. Cardinality(Before(w, i) \cup {i}) = rank[i] + 1
    BY <1>2, FS_AddElement
  <2> QED BY <2>2, <2>3, <1>2
<1>4. ASSUME NEW i \in I, NEW j \in I, i \in Before(w, j)
      PROVE  rank[i] < rank[j]
  <2>1. Before(w, i) \cup {i} \in SUBSET Before(w, j)
    BY <1>4 DEF Before
  <2>2. Cardinality(Before(w, i) \cup {i}) <= Cardinality(Before(w, j))
    BY <2>1, <1>2, FS_Subset
  <2>3. Cardinality(Before(w, i) \cup {i}) = rank[i] + 1
    BY <1>2, FS_AddElement
  <2> QED BY <2>2, <2>3, <1>2
<1>5. ASSUME NEW i \in I, NEW j \in I, i # j
      PROVE  i \in Before(w, j) \/ j \in Before(w, i)
  BY <1>5 DEF Before
<1>6. \A i, j \in I : rank[i] = rank[j] => i = j
  <2> TAKE i, j \in I
  <2> HAVE rank[i] = rank[j]
  <2>1. rank[i] \in Nat /\ rank[j] \in Nat
    BY <1>2
  <2> QED BY <2>1, <1>4, <1>5
<1>7. rank \in Injection(I, 0..(n - 1))
  <2>1. DOMAIN rank = I /\ rank \in [I -> 0..(n - 1)]
    BY <1>3
  <2> HIDE DEF rank, I
  <2> QED BY <2>1, <1>6 DEF Injection, IsInjective
<1>8. rank \in Surjection(I, 0..(n - 1))
  <2>1. IsFiniteSet(0..(n - 1)) /\ Cardinality(0..(n - 1)) = n
    <3>1. IsFiniteSet(0..(n - 1))
      BY FS_Interval
    <3>2. Cardinality(0..(n - 1)) = n
      BY FS_Interval
    <3> QED BY <3>1, <3>2
  <2> HIDE DEF rank, I
  <2> QED BY <2>1, <1>1, <1>7, FS_Injection
<1>9. \A m \in 0..(k - 1) : \E i \in S : low[i] = m
  <2> TAKE m \in 0..(k - 1)
  <2>1. m \in 0..(n - 1)
    OBVIOUS
  <2>2. PICK i \in I : rank[i] = m
    <3> HIDE DEF rank, I
    <3> QED BY <2>1, <1>8 DEF Surjection
  <2>3. i \in S
    BY <2>2
  <2> QED BY <2>2, <2>3
<1>10. \A i \in S : low[i] \in 0..(k - 1)
  BY <1>3
<1>11. low \in Bijection(S, 0..(k - 1))
  <2>1. DOMAIN low = S /\ low \in [S -> 0..(k - 1)]
    BY <1>10
  <2>2. \A i, j \in S : low[i] = low[j] => i = j
    BY <1>6
  <2> HIDE DEF low, S
  <2> QED BY <2>1, <2>2, <1>9 DEF Bijection, Injection, IsInjective, Surjection
<1>12. IsFiniteSet(S)
  BY <1>1, FS_Subset
<1>13. Cardinality(S) = k
  <2>1. Cardinality(0..(k - 1)) = k
    BY FS_Interval
  <2> HIDE DEF low, S
  <2> QED BY <2>1, <1>11, <1>12, FS_Bijection DEF ExistsBijection
<1> QED BY <1>2, <1>13

(* The floors leave over less than one unit for each position of some      *)
(* weight, and no floor exceeds its weight if the amount does not exceed   *)
(* the weights' sum.                                                       *)
LEMMA FloorsLeave ==
  ASSUME NEW n \in Nat, NEW w \in [1..n -> Nat], NEW total \in Nat, SumOf(w) > 0
  PROVE  /\ Floors(total, w) \in [1..n -> Nat]
         /\ total - SumOf(Floors(total, w)) \in 0..Cardinality({i \in 1..n : w[i] > 0})
         /\ total < SumOf(w) => \A i \in 1..n : w[i] > 0 => Floors(total, w)[i] < w[i]
         /\ total = SumOf(w) => Floors(total, w) = w
         /\ total >= SumOf(w) => \A i \in 1..n : w[i] <= Floors(total, w)[i]
         /\ \A i \in 1..n : w[i] = 0 => Floors(total, w)[i] = 0
<1> DEFINE I == 1..n
           F == Floors(total, w)
           T == SumOf(w)
           P == {i \in I : w[i] > 0}
           one == [i \in I |-> IF i \in P THEN 1 ELSE 0]
           up == [i \in I |-> F[i] + one[i]]
           exact == [i \in I |-> total * w[i]]
           low == [i \in I |-> T * F[i]]
           high == [i \in I |-> T * up[i]]
<1>1. IsFiniteSet(I) /\ IsFiniteSet(P) /\ Cardinality(P) \in Nat
  <2>1. IsFiniteSet(I)
    BY FS_Interval
  <2>2. P \in SUBSET I
    OBVIOUS
  <2> HIDE DEF I, P
  <2> QED BY <2>1, <2>2, FS_Subset, FS_CardinalityType
<1>2. T \in Nat \ {0}
  BY <1>1, SumFinite
<1>3. ASSUME NEW i \in I
      PROVE  /\ F[i] = (total * w[i]) \div T /\ F[i] \in Nat
             /\ T * F[i] <= total * w[i] /\ total * w[i] < T * F[i] + T
             /\ w[i] = 0 => F[i] = 0
             /\ w[i] \in Nat
  <2>1. F[i] = (total * w[i]) \div T
    BY DEF Floors
  <2>2. total * w[i] \in Nat /\ w[i] \in Nat
    OBVIOUS
  <2>3. w[i] = 0 => total * w[i] = 0
    OBVIOUS
  <2>4. 0 \div T = 0
    BY <1>2
  <2> HIDE DEF T, F
  <2> QED BY <2>1, <2>2, <2>3, <2>4, <1>2, Floor
<1>4. F \in [I -> Nat]
  BY <1>3 DEF Floors
<1>5. ASSUME total < T, NEW i \in I, w[i] > 0
      PROVE  F[i] < w[i]
  <2>1. w[i] \in Nat \ {0} /\ F[i] \in Nat /\ T * F[i] <= total * w[i]
    BY <1>3, <1>5
  <2> HIDE DEF T, F
  <2> QED BY ONLY total \in Nat, <2>1, <1>2, <1>5, BelowWeight
<1>6. ASSUME total = T
      PROVE  F = w
  <2>1. ASSUME NEW i \in I
        PROVE  F[i] = w[i]
    <3>1. T * F[i] <= T * w[i] /\ T * w[i] < T * (F[i] + 1)
      BY <1>6, <1>3, <1>2
    <3>2. F[i] \in Int /\ w[i] \in Int /\ F[i] + 1 \in Int
      BY <1>3
    <3> HIDE DEF T, F
    <3>3. F[i] <= w[i]
      BY ONLY <3>1, <3>2, <1>2, Product
    <3>4. w[i] < F[i] + 1
      BY ONLY <3>1, <3>2, <1>2, Product
    <3> QED BY <3>2, <3>3, <3>4
  <2> HIDE DEF F
  <2> QED BY <2>1, <1>4
<1>14. ASSUME total >= T, NEW i \in I
       PROVE  w[i] <= F[i]
  <2>1. /\ w[i] \in Nat /\ F[i] \in Nat /\ F[i] + 1 \in Int
        /\ total * w[i] < T * F[i] + T
    BY <1>3
  <2> HIDE DEF T, F
  <2> QED BY ONLY total \in Nat, <1>2, <1>14, <2>1, AboveWeight
<1>7. /\ one \in [I -> Nat] /\ up \in [I -> Nat]
      /\ exact \in [I -> Nat] /\ low \in [I -> Nat] /\ high \in [I -> Nat]
  <2> HIDE DEF F, T, P
  <2> QED BY <1>2, <1>4
<1>8. \A i \in I : low[i] <= exact[i] /\ exact[i] <= high[i]
  <2> TAKE i \in I
  <2>1. /\ F[i] \in Nat /\ w[i] \in Nat /\ one[i] \in {0, 1}
        /\ w[i] = 0 => F[i] = 0
        /\ one[i] = 0 => w[i] = 0
        /\ T * F[i] <= total * w[i] /\ total * w[i] < T * F[i] + T
    BY <1>3
  <2>2. low[i] = T * F[i] /\ exact[i] = total * w[i] /\ high[i] = T * (F[i] + one[i])
    OBVIOUS
  <2> HIDE DEF F, T, one, low, exact, high
  <2>3. total * w[i] <= T * (F[i] + one[i])
    BY ONLY total \in Nat, <2>1, <1>2, Sandwich
  <2> QED BY <2>1, <2>2, <2>3
<1>9. SumOf(low) <= SumOf(exact) /\ SumOf(exact) <= SumOf(high)
  <2> HIDE DEF low, exact, high
  <2> QED BY <1>1, <1>7, <1>8, SumMono
<1>10. /\ SumOf(exact) = total * T
       /\ SumOf(low) = T * SumOf(F)
       /\ SumOf(high) = T * SumOf(up)
  <2>1. SumOf(exact) = total * T
    BY <1>1, SumScale
  <2> HIDE DEF F, T, I
  <2>2. SumOf(low) = T * SumOf(F)
    BY <1>1, <1>2, <1>4, SumScale
  <2>3. SumOf(high) = T * SumOf(up)
    <3> HIDE DEF up
    <3> QED BY <1>1, <1>2, <1>7, SumScale
  <2> QED BY <2>1, <2>2, <2>3
<1>11. SumOf(up) = SumOf(F) + Cardinality(P)
  <2>1. SumOf(one) = Cardinality(P)
    <3>1. P \in SUBSET I
      OBVIOUS
    <3> HIDE DEF P, I
    <3> QED BY <3>1, <1>1, SumOnes
  <2>2. \A i \in I : up[i] = F[i] + one[i]
    OBVIOUS
  <2>3. SumOf(up) = SumOf(F) + SumOf(one)
    <3> HIDE DEF up, one, F, I
    <3>1. up \in [I -> Nat] /\ F \in [I -> Nat] /\ one \in [I -> Nat] /\ IsFiniteSet(I)
      BY <1>1, <1>4, <1>7
    <3>2. \A f, g, h \in [I -> Nat] :
            (\A i \in I : h[i] = f[i] + g[i]) => SumOf(h) = SumOf(f) + SumOf(g)
      BY ONLY <3>1, SumAdd
    <3> QED BY ONLY <3>1, <3>2, <2>2
  <2> QED BY <2>1, <2>3
<1>12. SumOf(F) \in Nat /\ SumOf(F) <= total /\ total <= SumOf(F) + Cardinality(P)
  <2> HIDE DEF F, T, P, up, low, high, exact, I
  <2>1. SumOf(F) \in Nat
    BY <1>1, <1>4, SumFinite
  <2>2. T * SumOf(F) <= T * total /\ T * total <= T * (SumOf(F) + Cardinality(P))
    BY <1>9, <1>10, <1>11, <1>1, <1>2, <2>1
  <2>3. SumOf(F) \in Int /\ total \in Int /\ SumOf(F) + Cardinality(P) \in Int
    BY <2>1, <1>1
  <2>4. SumOf(F) <= total /\ total <= SumOf(F) + Cardinality(P)
    BY ONLY <2>2, <2>3, <1>2, Product
  <2> QED BY <2>1, <2>4
<1>13. total - SumOf(F) \in 0..Cardinality(P)
  <2> HIDE DEF F, P
  <2> QED BY <1>12, <1>1
<1> QED BY <1>2, <1>3, <1>4, <1>5, <1>6, <1>14, <1>13

(* allocateProportionally hands out the whole amount in whole minor units, *)
(* and nothing to a position of no weight.  Where the weights are what the *)
(* components have left, as in refundBundleOrder, none gets more than it   *)
(* has left; where they are the suppliers' nets and the price covers them, *)
(* as in createBundleQuote, each component's price covers its net.         *)
THEOREM Proportional ==
  ASSUME NEW n \in Nat, NEW w \in [1..n -> Nat], NEW total \in Nat, SumOf(w) > 0
  PROVE  /\ AllocateProportionally(total, w) \in [1..n -> Nat]
         /\ SumOf(AllocateProportionally(total, w)) = total
         /\ \A i \in 1..n : w[i] = 0 => AllocateProportionally(total, w)[i] = 0
         /\ total <= SumOf(w) => \A i \in 1..n : AllocateProportionally(total, w)[i] <= w[i]
         /\ total >= SumOf(w) => \A i \in 1..n : AllocateProportionally(total, w)[i] >= w[i]
<1> DEFINE I == 1..n
           F == Floors(total, w)
           A == AllocateProportionally(total, w)
           P == {i \in I : w[i] > 0}
           over == total - SumOf(F)
           S == {i \in I : Cardinality(Before(w, i)) < over}
           one == [i \in I |-> IF i \in S THEN 1 ELSE 0]
<1>1. IsFiniteSet(I) /\ Cardinality(I) = n /\ IsFiniteSet(P) /\ Cardinality(P) \in 0..n
  <2>1. IsFiniteSet(I) /\ Cardinality(I) = n
    BY FS_Interval
  <2>2. P \in SUBSET I
    OBVIOUS
  <2> HIDE DEF I, P
  <2> QED BY <2>1, <2>2, FS_Subset, FS_CardinalityType
<1>2. over \in 0..Cardinality(P) /\ F \in [I -> Nat]
  BY FloorsLeave
<1>3. SumOf(F) \in Nat
  <2> HIDE DEF F, I
  <2> QED BY <1>1, <1>2, SumFinite
<1>4. over \in 0..n
  <2> HIDE DEF over, P
  <2> QED BY <1>1, <1>2
<1>5. Cardinality(S) = over /\ \A i \in I : Cardinality(Before(w, i)) \in Nat
  <2> HIDE DEF over
  <2> QED BY <1>4, Ranks
<1>6. SumOf(one) = over
  <2>1. S \in SUBSET I
    OBVIOUS
  <2> HIDE DEF S, I
  <2> QED BY <2>1, <1>1, <1>5, SumOnes
<1>7. A = [i \in I |-> F[i] + one[i]]
  BY DEF AllocateProportionally
<1>8. A \in [I -> Nat] /\ one \in [I -> Nat]
  <2> HIDE DEF A, F, S
  <2> QED BY <1>2, <1>7
<1>9. SumOf(A) = total
  <2>1. \A i \in I : A[i] = F[i] + one[i]
    BY <1>7
  <2>2. SumOf(A) = SumOf(F) + SumOf(one)
    <3> HIDE DEF A, F, one, I
    <3>1. A \in [I -> Nat] /\ F \in [I -> Nat] /\ one \in [I -> Nat] /\ IsFiniteSet(I)
      BY <1>1, <1>2, <1>8
    <3>2. \A f, g, h \in [I -> Nat] :
            (\A i \in I : h[i] = f[i] + g[i]) => SumOf(h) = SumOf(f) + SumOf(g)
      BY ONLY <3>1, SumAdd
    <3> QED BY ONLY <3>1, <3>2, <2>1
  <2>3. SumOf(F) + over = total
    BY <1>3
  <2> QED BY <2>2, <2>3, <1>6
<1>10. ASSUME NEW i \in I
       PROVE  A[i] = F[i] + one[i] /\ one[i] \in {0, 1} /\ F[i] \in Nat /\ w[i] \in Nat
  BY <1>7, <1>2
<1>11. ASSUME NEW i \in I, w[i] = 0
       PROVE  A[i] = 0
  <2>1. P \in SUBSET Before(w, i)
    BY <1>11 DEF Before
  <2>2. IsFiniteSet(Before(w, i))
    <3>1. Before(w, i) \in SUBSET I
      BY DEF Before
    <3> QED BY <3>1, <1>1, FS_Subset
  <2>3. Cardinality(P) <= Cardinality(Before(w, i))
    <3> HIDE DEF P
    <3> QED BY <2>1, <2>2, FS_Subset
  <2>4. i \notin S
    <3> HIDE DEF over, P
    <3> QED BY <2>3, <1>1, <1>2, <1>5
  <2>5. one[i] = 0
    BY <2>4
  <2>6. F[i] = 0
    <3>1. \A j \in 1..n : w[j] = 0 => F[j] = 0
      BY FloorsLeave
    <3> QED BY <3>1, <1>11
  <2> HIDE DEF A, F, one
  <2> QED BY <2>5, <2>6, <1>10
<1>12. ASSUME total <= SumOf(w), NEW i \in I
       PROVE  A[i] <= w[i]
  <2>1. SumOf(w) \in Nat
    BY <1>1, SumFinite
  <2>2. CASE w[i] = 0
    BY <2>2, <1>11
  <2>3. CASE w[i] > 0 /\ total < SumOf(w)
    <3>1. F[i] < w[i]
      BY <2>3, FloorsLeave
    <3> QED BY <3>1, <1>10
  <2>4. CASE total = SumOf(w)
    <3>1. F = w
      BY <2>4, FloorsLeave
    <3>2. over = 0
      BY <3>1, <2>4, <2>1
    <3>3. i \notin S
      BY <3>2, <1>5
    <3> HIDE DEF F, S, A
    <3> QED BY <3>1, <3>3, <1>10
  <2> QED BY <1>10, <1>12, <2>1, <2>2, <2>3, <2>4
<1>13. ASSUME total >= SumOf(w), NEW i \in I
       PROVE  A[i] >= w[i]
  <2>1. w[i] <= F[i]
    BY <1>13, FloorsLeave
  <2> HIDE DEF A, F, one
  <2> QED BY <2>1, <1>10
<1> QED BY <1>8, <1>9, <1>11, <1>12, <1>13

-----------------------------------------------------------------------------
(* 2. BundleRefund.                                                        *)

(* Each process past its read has an operation in hand, which is in the    *)
(* order once the process is past its reservation.                         *)
InHand ==
  \A p \in Process :
    /\ proc[p].pc \notin {"idle", "review"} => proc[p].op \in Operation
    /\ proc[p].pc \notin {"idle", "review", "reserve"} => op[proc[p].op].status # "none"

(* Stripe has paid the refund, whether or not it has come back since.      *)
Made == {"succeeded", "reversed"}

(* What a process knows between two awaits: its operation and that it is   *)
(* in the order, that the amount which was all that remained is still at   *)
(* least that, and that an answer of success is Stripe's.                  *)
Knows(p) ==
  /\ proc[p].pc \notin {"idle", "review"} => proc[p].op \in Operation
  /\ proc[p].pc \notin {"idle", "review", "reserve"} => op[proc[p].op].status # "none"
  /\ proc[p].rest => proc[p].pc = "reserve" /\ op[proc[p].op].amount + order.refunded >= Total
  /\ \/ proc[p].pc = "account"
     \/ proc[p].pc = "record" /\ proc[p].answer = "succeeded"
     => stripe[proc[p].op] \in Made

(* Stripe's stored answer of success is the refund's own outcome, and      *)
(* without an answer there is no refund.                                   *)
FirstIsFinal ==
  \A o \in Operation :
    /\ first[o] = "none" => stripe[o] = "none"
    /\ first[o] = "succeeded" => stripe[o] \in Made

(* An operation succeeds in the books with its refund's id.                *)
SuccessIsKnown == \A o \in Operation : op[o].status = "succeeded" => op[o].known

(* The order's totals are the sums of its operations' amounts.             *)
Succeeded == {o \in Operation : op[o].status = "succeeded"}
Outstanding == {o \in Operation : IsOpen(o)}
Revived == {o \in Operation : op[o].revived}
Sums ==
  /\ order.refunded = Amounts(Succeeded)
  /\ order.pending + Amounts(Revived) = Amounts(Outstanding)
  /\ Revived \subseteq Succeeded

IInv ==
  /\ TypeOK
  /\ Sums
  /\ WithinPrice
  /\ SucceededAtStripe
  /\ FirstIsFinal
  /\ SuccessIsKnown
  /\ \A p \in Process : Knows(p)
-----------------------------------------------------------------------------
(* Sums of amounts: of no operation, and of one operation more.            *)
LEMMA Counting ==
  ASSUME op \in [Operation -> OperationDoc], NEW S \in SUBSET Operation
  PROVE  /\ IsFiniteSet(Units(S)) /\ Amounts(S) \in Nat
         /\ S = {} => Amounts(S) = 0
<1>1. IsFiniteSet(S) /\ IsFiniteSet(1..Total)
  BY OperationAssumption, TotalAssumption, FS_Subset, FS_Interval
<1>2. IsFiniteSet(S \X (1..Total)) /\ Units(S) \in SUBSET (S \X (1..Total))
  BY <1>1, FS_Product DEF Units
<1>3. S = {} => Units(S) = {}
  BY DEF Units
<1> QED BY <1>2, <1>3, FS_Subset, FS_CardinalityType, FS_EmptySet DEF Amounts

(* An operation more adds its amount.                                      *)
LEMMA OneMore ==
  ASSUME op \in [Operation -> OperationDoc], NEW S \in SUBSET Operation,
         NEW o \in Operation \ S
  PROVE  Amounts(S \cup {o}) = Amounts(S) + op[o].amount
<1> DEFINE a == op[o].amount
           unit == [n \in 1..a |-> <<o, n>>]
<1>1. a \in 1..Total /\ Total \in Nat
  BY TotalAssumption DEF OperationDoc
<1>2. IsFiniteSet(1..a) /\ Cardinality(1..a) = a
  BY <1>1, FS_Interval
<1>3. Units({o}) = {<<o, n>> : n \in 1..a}
  BY <1>1 DEF Units
<1>4. unit \in Bijection(1..a, Units({o}))
  <2>1. unit \in [1..a -> Units({o})]
    BY <1>3
  <2>2. \A m, n \in 1..a : unit[m] = unit[n] => m = n
    OBVIOUS
  <2>3. \A u \in Units({o}) : \E n \in 1..a : unit[n] = u
    BY <1>3
  <2> HIDE DEF unit
  <2>4. unit \in Injection(1..a, Units({o})) /\ unit \in Surjection(1..a, Units({o}))
    BY <2>1, <2>2, <2>3 DEF Injection, IsInjective, Surjection
  <2> QED BY <2>4 DEF Bijection
<1>5. IsFiniteSet(Units({o})) /\ Cardinality(Units({o})) = a
  BY <1>2, <1>4, FS_Bijection DEF ExistsBijection
<1>6. Units(S \cup {o}) = Units(S) \cup Units({o}) /\ Units(S) \cap Units({o}) = {}
  BY DEF Units
<1>7. Cardinality(Units(S \cup {o})) = Cardinality(Units(S)) + a - 0
  <2>1. IsFiniteSet(Units(S))
    BY Counting
  <2>2. Cardinality(Units(S) \cup Units({o})) =
          Cardinality(Units(S)) + Cardinality(Units({o})) - Cardinality(Units(S) \cap Units({o}))
    BY <1>5, <2>1, FS_Union
  <2>3. Cardinality(Units(S) \cap Units({o})) = 0
    BY <1>6, FS_EmptySet
  <2> QED BY <1>5, <1>6, <2>2, <2>3
<1> QED BY <1>1, <1>7, Counting DEF Amounts

(* A captured order without refunds satisfies the invariant.               *)
LEMMA InitIInv == Init => IInv
<1> SUFFICES ASSUME Init PROVE IInv
  OBVIOUS
<1>1. order \in OrderDoc
  BY TotalAssumption DEF Init, OrderDoc, Paid
<1>2. op \in [Operation -> OperationDoc]
  BY AmountAssumption DEF Init, OperationDoc, Open
<1>3. proc \in [Process -> ProcessState]
  BY DEF Init, Idle, ProcessState
<1>4. TypeOK
  BY <1>1, <1>2, <1>3 DEF Init, TypeOK, Refund
<1>5. SucceededAtStripe /\ FirstIsFinal /\ SuccessIsKnown /\ \A p \in Process : Knows(p)
  BY DEF Init, SucceededAtStripe, FirstIsFinal, SuccessIsKnown, Knows, Idle
<1>6. WithinPrice
  BY TotalAssumption DEF Init, WithinPrice
<1>7. Sums
  <2>1. Succeeded = {} /\ Outstanding = {} /\ Revived = {}
    BY DEF Init, Succeeded, Outstanding, Revived, IsOpen, Open
  <2> QED BY <1>2, <2>1, Counting DEF Init, Sums
<1> QED
  BY <1>4, <1>5, <1>6, <1>7 DEF IInv

(* The writes to an operation, and what they do not touch.                 *)
LEMMA OperationUpdates ==
  ASSUME op \in [Operation -> OperationDoc], NEW o \in Operation, NEW b \in BOOLEAN,
         NEW c \in BOOLEAN
  PROVE  /\ [op EXCEPT ![o].status = "requested"] \in [Operation -> OperationDoc]
         /\ [op EXCEPT ![o].status = "failed", ![o].leased = FALSE,
                       ![o].known = @ \/ b] \in [Operation -> OperationDoc]
         /\ [op EXCEPT ![o].attempted = TRUE, ![o].leased = TRUE] \in [Operation -> OperationDoc]
         /\ [op EXCEPT ![o].status = "succeeded", ![o].known = TRUE, ![o].leased = FALSE,
                       ![o].revived = c]
              \in [Operation -> OperationDoc]
         /\ [op EXCEPT ![o].leased = FALSE] \in [Operation -> OperationDoc]
         /\ op[o].leased \in BOOLEAN /\ op[o].attempted \in BOOLEAN /\ op[o].known \in BOOLEAN
         /\ op[o].amount \in 1..Total
<1>1. op[o] \in OperationDoc /\ (op[o].known \/ b) \in BOOLEAN
  OBVIOUS
<1>2. /\ [op[o] EXCEPT !.status = "requested"] \in OperationDoc
      /\ [op[o] EXCEPT !.status = "failed", !.leased = FALSE, !.known = op[o].known \/ b]
           \in OperationDoc
      /\ [op[o] EXCEPT !.attempted = TRUE, !.leased = TRUE] \in OperationDoc
      /\ [op[o] EXCEPT !.status = "succeeded", !.known = TRUE, !.leased = FALSE,
                       !.revived = c] \in OperationDoc
      /\ [op[o] EXCEPT !.leased = FALSE] \in OperationDoc
  BY <1>1 DEF OperationDoc, Open
<1>3. /\ op[o].leased \in BOOLEAN /\ op[o].attempted \in BOOLEAN /\ op[o].known \in BOOLEAN
      /\ op[o].amount \in 1..Total
  BY <1>1 DEF OperationDoc
<1> QED
  BY <1>2, <1>3

(* scheduleRefundRecovery touches one open operation, and leaves it open.  *)
LEMMA ScheduleUpdates ==
  ASSUME op \in [Operation -> OperationDoc], NEW o \in Operation,
         NEW known \in BOOLEAN, NEW leased \in BOOLEAN, Schedule(o, known, leased)
  PROVE  /\ op' \in [Operation -> OperationDoc]
         /\ \A i \in Operation : op'[i].amount = op[i].amount
         /\ \A i \in Operation : op'[i].status = "succeeded" => op[i].status = "succeeded"
         /\ \A i \in Operation : op[i].status = "none" <=> op'[i].status = "none"
         /\ \A i \in Operation : op[i].known => op'[i].known
BY DEF Schedule, IsOpen, OperationDoc, Open

(* releaseRefundReservation gives up one open operation and its money.     *)
LEMMA ReleaseUpdates ==
  ASSUME TypeOK, WithinPrice, NEW o \in Operation, NEW known \in BOOLEAN,
         ReleaseReservation(o, known)
  PROVE  /\ order' \in OrderDoc
         /\ order'.refunded = order.refunded
         /\ WithinPrice'
         /\ op' \in [Operation -> OperationDoc]
         /\ \A i \in Operation : op'[i].amount = op[i].amount
         /\ \A i \in Operation : op'[i].status = "succeeded" => op[i].status = "succeeded"
         /\ \A i \in Operation : op[i].status = "none" <=> op'[i].status = "none"
         /\ \A i \in Operation : op[i].known => op'[i].known
<1>1. /\ op \in [Operation -> OperationDoc]
      /\ order \in OrderDoc
      /\ op[o].amount \in 1..Total
  BY OperationUpdates DEF TypeOK
<1>2. CASE IsOpen(o) /\ order.pending >= op[o].amount
  <2>1. /\ order' = [order EXCEPT !.pending = @ - op[o].amount]
        /\ op' = [op EXCEPT ![o].status = "failed", ![o].leased = FALSE, ![o].known = @ \/ known]
    BY <1>2 DEF ReleaseReservation
  <2>2. order' \in OrderDoc /\ order'.refunded = order.refunded /\ WithinPrice'
    BY <1>1, <1>2, <2>1, TotalAssumption DEF OrderDoc, WithinPrice
  <2>3. op' \in [Operation -> OperationDoc]
    BY <1>1, <2>1, OperationUpdates
  <2>4. \A i \in Operation : op'[i].amount = op[i].amount
    BY <1>1, <2>1 DEF OperationDoc
  <2>5. \A i \in Operation : i # o => op'[i] = op[i]
    BY <1>1, <2>1
  <2>6. op'[o].status = "failed" /\ op[o].status # "none" /\ (op[o].known => op'[o].known)
    BY <1>1, <1>2, <2>1 DEF IsOpen, Open, OperationDoc
  <2> QED
    BY <2>2, <2>3, <2>4, <2>5, <2>6
<1>3. CASE ~(IsOpen(o) /\ order.pending >= op[o].amount)
  BY <1>1, <1>3 DEF ReleaseReservation, WithinPrice
<1> QED
  BY <1>2, <1>3

(* Repaid and set-aside money stay within the price, and what is repaid    *)
(* stays repaid.                                                           *)
LEMMA OrderStep ==
  ASSUME TypeOK, InHand, WithinPrice, [Next]_vars
  PROVE  order' \in OrderDoc /\ WithinPrice' /\ order'.refunded >= order.refunded
<1> DEFINE Good == order' \in OrderDoc /\ WithinPrice' /\ order'.refunded >= order.refunded
<1>1. order \in OrderDoc /\ order.refunded \in 0..Total /\ order.pending \in 0..Total
  BY DEF TypeOK, OrderDoc
<1>2. ASSUME UNCHANGED order PROVE Good
  BY <1>1, <1>2, TotalAssumption DEF WithinPrice
<1>3. ASSUME order' \in OrderDoc, order'.refunded = order.refunded, order'.pending = order.pending
      PROVE  Good
  BY <1>1, <1>3, TotalAssumption DEF WithinPrice
<1>4. ASSUME NEW o \in Operation, NEW known \in BOOLEAN, ReleaseReservation(o, known) PROVE Good
  BY <1>1, <1>4, ReleaseUpdates, TotalAssumption
<1>5. ASSUME Persist PROVE Good
  BY <1>1, <1>3, <1>5 DEF Persist, OrderDoc, Paid
<1>6. ASSUME LateDecline PROVE Good
  BY <1>1, <1>3, <1>6 DEF LateDecline, Decline, OrderDoc
<1>7. ASSUME RequestPaidCancellation PROVE Good
  BY <1>1, <1>3, <1>7 DEF RequestPaidCancellation, OrderDoc
<1>8. ASSUME NEW p \in Process, Reserve(p) PROVE Good
  <2>1. CASE UNCHANGED order
    BY <1>2, <2>1
  <2>2. CASE Reservable(p) /\ order' = [order EXCEPT !.pending = @ + op[proc[p].op].amount]
    <3>1. op[proc[p].op].amount \in 1..Total
      BY <1>8, OperationUpdates DEF Reserve, At, InHand, TypeOK
    <3>2. order.refunded + order.pending + op[proc[p].op].amount <= Total
      BY <2>2 DEF Reservable
    <3> QED
      BY <1>1, <2>2, <3>1, <3>2, TotalAssumption DEF OrderDoc, WithinPrice
  <2> QED
    BY <1>8, <2>1, <2>2 DEF Reserve
<1>9. ASSUME NEW p \in Process, Record(p) PROVE Good
  <2>1. proc[p].op \in Operation
    BY <1>9 DEF Record, At, InHand
  <2>2. UNCHANGED order \/ ReleaseReservation(proc[p].op, TRUE)
    BY <1>9 DEF Record, TypeOK, ProcessState
  <2> QED
    BY <1>2, <1>4, <2>1, <2>2
<1>10. ASSUME NEW p \in Process, ConfigMissing(p) PROVE Good
  <2>1. proc[p].op \in Operation
    BY <1>10 DEF ConfigMissing, At, InHand
  <2>2. UNCHANGED order \/ ReleaseReservation(proc[p].op, FALSE)
    BY <1>10 DEF ConfigMissing
  <2> QED
    BY <1>2, <1>4, <2>1, <2>2
<1>11. ASSUME NEW p \in Process, Account(p) PROVE Good
  <2>1. op[proc[p].op].amount \in 1..Total
    BY <1>11, OperationUpdates DEF Account, At, InHand, TypeOK
  <2>2. CASE UNCHANGED order
    BY <1>2, <2>2
  <2>3. CASE ~UNCHANGED order
    <3>1. order.pending >= op[proc[p].op].amount
      BY <1>11, <2>3 DEF Account, Applies
    <3>2. /\ order'.refunded = order.refunded + op[proc[p].op].amount
          /\ order'.pending = order.pending - op[proc[p].op].amount
      BY <1>11, <2>3 DEF Account
    <3>3. /\ order.refunded + op[proc[p].op].amount \in 0..Total
          /\ order.pending - op[proc[p].op].amount \in 0..Total
      BY <1>1, <2>1, <3>1, TotalAssumption DEF WithinPrice
    <3>4. order' \in OrderDoc
      BY <1>11, <2>3, <3>3 DEF Account, OrderDoc, Paid
    <3> QED
      BY <1>1, <2>1, <3>2, <3>4, TotalAssumption DEF WithinPrice
  <2> QED
    BY <2>2, <2>3
<1>12. ASSUME NEW p \in Process, Review(p) PROVE Good
  BY <1>1, <1>3, <1>12 DEF Review, OrderDoc, Paid
<1> QED
  BY <1>2, <1>5, <1>6, <1>7, <1>8, <1>9, <1>10, <1>11, <1>12
  DEF Next, Regular, Fault, Refunds, SweepRead, Process, vars, StripeSettles, LeaseExpires,
      StripeReverses, OrphanFails, KeyForgotten, Claim, Create, RetrieveRefund, ReviewRead,
      RefundRead, Dies, AnswerLost, AccountFails

(* An operation keeps its amount, and succeeds in the books only when the  *)
(* transaction runs on an answer of success.                               *)
LEMMA OperationStep ==
  ASSUME TypeOK, InHand, WithinPrice, [Next]_vars
  PROVE  /\ op' \in [Operation -> OperationDoc]
         /\ \A o \in Operation : op'[o].amount = op[o].amount
         /\ \A o \in Operation : op'[o].status = "succeeded" =>
              \/ op[o].status = "succeeded"
              \/ \E p \in Process : proc[p].pc = "account" /\ proc[p].op = o
         /\ \A o \in Operation : op'[o].status = "succeeded" =>
              op[o].status = "succeeded" \/ op'[o].known
         /\ \A o \in Operation : op[o].known => op'[o].known
         /\ \A o \in Operation : op[o].status # "none" => op'[o].status # "none"
         /\ \A o \in Operation : op[o].status = "none" /\ op'[o].status # "none" =>
              \E p \in Process : Reserve(p) /\ Reservable(p) /\ proc[p].op = o
<1> DEFINE Good ==
      /\ op' \in [Operation -> OperationDoc]
      /\ \A o \in Operation : op'[o].amount = op[o].amount
      /\ \A o \in Operation : op'[o].status = "succeeded" =>
           \/ op[o].status = "succeeded"
           \/ \E p \in Process : proc[p].pc = "account" /\ proc[p].op = o
      /\ \A o \in Operation : op'[o].status = "succeeded" =>
           op[o].status = "succeeded" \/ op'[o].known
      /\ \A o \in Operation : op[o].known => op'[o].known
      /\ \A o \in Operation : op[o].status # "none" => op'[o].status # "none"
      /\ \A o \in Operation : op[o].status = "none" /\ op'[o].status # "none" =>
           \E p \in Process : Reserve(p) /\ Reservable(p) /\ proc[p].op = o
<1>1. op \in [Operation -> OperationDoc]
  BY DEF TypeOK
<1>2. ASSUME UNCHANGED op PROVE Good
  BY <1>1, <1>2
<1>3. ASSUME NEW o \in Operation, NEW known \in BOOLEAN, NEW leased \in BOOLEAN,
             Schedule(o, known, leased)
      PROVE  Good
  BY <1>1, <1>3, ScheduleUpdates
<1>4. ASSUME NEW o \in Operation, NEW known \in BOOLEAN, ReleaseReservation(o, known) PROVE Good
  BY <1>4, ReleaseUpdates
<1>5. ASSUME NEW o \in Operation, LeaseExpires(o) PROVE Good
  <2>1. op' \in [Operation -> OperationDoc]
    BY <1>1, <1>5, OperationUpdates DEF LeaseExpires
  <2>2. \A i \in Operation : /\ op'[i].amount = op[i].amount /\ op'[i].status = op[i].status
                             /\ op'[i].known = op[i].known
    BY <1>1, <1>5 DEF LeaseExpires, OperationDoc
  <2> QED
    BY <2>1, <2>2
<1>6. ASSUME NEW p \in Process, Reserve(p) PROVE Good
  <2>1. proc[p].op \in Operation
    BY <1>6 DEF Reserve, At, InHand
  <2>2. CASE UNCHANGED op
    BY <1>2, <2>2
  <2>3. CASE Reservable(p) /\ op' = [op EXCEPT ![proc[p].op].status = "requested"]
    <3>1. op' \in [Operation -> OperationDoc]
      BY <1>1, <2>1, <2>3, OperationUpdates
    <3>2. \A i \in Operation : op'[i].amount = op[i].amount /\ op'[i].known = op[i].known
      BY <1>1, <2>3 DEF OperationDoc
    <3>3. \A i \in Operation : i # proc[p].op => op'[i] = op[i]
      BY <1>1, <2>3
    <3>4. op'[proc[p].op].status = "requested"
      BY <1>1, <2>1, <2>3 DEF OperationDoc
    <3> QED
      BY <1>6, <2>3, <3>1, <3>2, <3>3, <3>4
  <2> QED
    BY <1>6, <2>2, <2>3 DEF Reserve
<1>7. ASSUME NEW p \in Process, Claim(p) PROVE Good
  <2>1. proc[p].op \in Operation
    BY <1>7 DEF Claim, At, InHand
  <2>2. CASE UNCHANGED op
    BY <1>2, <2>2
  <2>3. CASE op' = [op EXCEPT ![proc[p].op].attempted = TRUE, ![proc[p].op].leased = TRUE]
    <3>1. op' \in [Operation -> OperationDoc]
      BY <1>1, <2>1, <2>3, OperationUpdates
    <3>2. \A i \in Operation : /\ op'[i].amount = op[i].amount /\ op'[i].status = op[i].status
                               /\ op'[i].known = op[i].known
      BY <1>1, <2>3 DEF OperationDoc
    <3> QED
      BY <3>1, <3>2
  <2> QED
    BY <1>7, <2>2, <2>3 DEF Claim
<1>8. ASSUME NEW p \in Process, Record(p) PROVE Good
  <2>1. proc[p].op \in Operation /\ proc[p].known \in BOOLEAN /\ op[proc[p].op].leased \in BOOLEAN
    BY <1>1, <1>8, OperationUpdates DEF Record, At, InHand, TypeOK, ProcessState
  <2>2. \/ ReleaseReservation(proc[p].op, TRUE)
        \/ Schedule(proc[p].op, FALSE, FALSE)
        \/ Schedule(proc[p].op, TRUE, FALSE)
        \/ Schedule(proc[p].op, TRUE, op[proc[p].op].leased)
    BY <1>8 DEF Record
  <2> QED
    BY <1>2, <1>3, <1>4, <2>1, <2>2
<1>9. ASSUME NEW p \in Process, ConfigMissing(p) PROVE Good
  <2>1. proc[p].op \in Operation /\ proc[p].known \in BOOLEAN
    BY <1>9 DEF ConfigMissing, At, InHand, TypeOK, ProcessState
  <2>2. \/ ReleaseReservation(proc[p].op, FALSE)
        \/ Schedule(proc[p].op, proc[p].known, FALSE)
    BY <1>9 DEF ConfigMissing
  <2> QED
    BY <1>3, <1>4, <2>1, <2>2
<1>10. ASSUME NEW p \in Process, AccountFails(p) PROVE Good
  <2>1. proc[p].op \in Operation
    BY <1>10 DEF AccountFails, At, InHand
  <2> QED
    BY <1>3, <1>10, <2>1 DEF AccountFails
<1>11. ASSUME NEW p \in Process, Account(p) PROVE Good
  <2>1. proc[p].op \in Operation /\ proc[p].pc = "account" /\ op[proc[p].op].status # "none"
    BY <1>11 DEF Account, At, InHand
  <2>2. CASE UNCHANGED op
    BY <1>2, <2>2
  <2>3. CASE /\ op' = [op EXCEPT ![proc[p].op].status = "succeeded", ![proc[p].op].known = TRUE,
                                 ![proc[p].op].leased = FALSE,
                                 ![proc[p].op].revived = op[proc[p].op].status = "failed"]
             /\ Applies(proc[p].op)
    <3>1. op' \in [Operation -> OperationDoc]
      BY <1>1, <2>1, <2>3, OperationUpdates
    <3>2. \A i \in Operation : op'[i].amount = op[i].amount
      BY <1>1, <2>3 DEF OperationDoc
    <3>3. \A i \in Operation : i # proc[p].op => op'[i] = op[i]
      BY <1>1, <2>3
    <3>4. op'[proc[p].op].status = "succeeded" /\ op'[proc[p].op].known
      BY <1>1, <2>1, <2>3 DEF OperationDoc
    <3> QED
      BY <2>1, <3>1, <3>2, <3>3, <3>4
  <2> QED
    BY <1>11, <2>2, <2>3 DEF Account
<1> QED
  BY <1>2, <1>5, <1>6, <1>7, <1>8, <1>9, <1>10, <1>11
  DEF Next, Regular, Fault, Refunds, SweepRead, Process, vars, Persist, LateDecline, Decline,
      RequestPaidCancellation, StripeSettles, StripeReverses, OrphanFails, KeyForgotten,
      Create, RetrieveRefund, ReviewRead,
      Review, RefundRead, Dies, AnswerLost

(* Stripe keeps its answers for those who go by them, and what it has paid *)
(* for them stays paid or comes back.                                      *)
LEMMA StripeStep ==
  ASSUME TypeOK, InHand, FirstIsFinal, [Next]_vars
  PROVE  /\ stripe' \in [Operation -> Refund]
         /\ first' \in [Operation -> {"none", "pending", "succeeded", "failed"}]
         /\ orphans' \in SUBSET Operation
         /\ declined' \in BOOLEAN
         /\ \A o \in Operation : stripe[o] \in Made /\ Held(o) => stripe'[o] \in Made
         /\ FirstIsFinal'
<1> DEFINE Good ==
      /\ stripe' \in [Operation -> Refund]
      /\ first' \in [Operation -> {"none", "pending", "succeeded", "failed"}]
      /\ orphans' \in SUBSET Operation
      /\ \A o \in Operation : stripe[o] \in Made /\ Held(o) => stripe'[o] \in Made
      /\ FirstIsFinal'
<1>0. /\ stripe \in [Operation -> Refund]
      /\ first \in [Operation -> {"none", "pending", "succeeded", "failed"}]
      /\ orphans \in SUBSET Operation
  BY DEF TypeOK
<1>1. ASSUME UNCHANGED <<stripe, first, orphans>> PROVE Good
  BY <1>0, <1>1 DEF FirstIsFinal
<1>2. ASSUME NEW o \in Operation, StripeSettles(o) PROVE Good
  BY <1>0, <1>2 DEF StripeSettles, FirstIsFinal, Refund, Made
<1>3. ASSUME NEW o \in Operation, StripeReverses(o) PROVE Good
  BY <1>0, <1>3 DEF StripeReverses, FirstIsFinal, Refund, Made
<1>4. ASSUME NEW o \in Operation, OrphanFails(o) PROVE Good
  BY <1>0, <1>4 DEF OrphanFails, FirstIsFinal
<1>5. ASSUME NEW o \in Operation, KeyForgotten(o) PROVE Good
  <2>1. /\ ~Held(o)
        /\ stripe' = [stripe EXCEPT ![o] = "none"] /\ first' = [first EXCEPT ![o] = "none"]
        /\ orphans' \in SUBSET Operation
    BY <1>0, <1>5 DEF KeyForgotten
  <2>2. stripe' \in [Operation -> Refund]
    BY <1>0, <2>1 DEF Refund
  <2> QED
    BY <1>0, <2>1, <2>2 DEF FirstIsFinal
<1>6. ASSUME NEW p \in Process, Create(p) PROVE Good
  <2>1. proc[p].op \in Operation
    BY <1>6 DEF Create, At, InHand
  <2>2. CASE UNCHANGED <<stripe, first, orphans>>
    BY <1>1, <2>2
  <2>3. CASE \E a \in {"pending", "succeeded", "failed"} :
               /\ first[proc[p].op] = "none"
               /\ stripe' = [stripe EXCEPT ![proc[p].op] = a]
               /\ first' = [first EXCEPT ![proc[p].op] = a]
               /\ UNCHANGED orphans
    BY <1>0, <2>1, <2>3 DEF FirstIsFinal, Refund, Made
  <2> QED
    BY <1>6, <2>2, <2>3 DEF Create
<1>7. declined' \in BOOLEAN
  BY DEF TypeOK, Next, Regular, Fault, Refunds, SweepRead, provider, vars, Persist, LateDecline, Decline,
      RequestPaidCancellation, StripeSettles, StripeReverses, OrphanFails, KeyForgotten, LeaseExpires,
      Reserve, Claim, Create, RetrieveRefund, Record, Account, ReviewRead, Review, RefundRead, Dies,
      ConfigMissing, AnswerLost, AccountFails
<1> QED
  BY <1>1, <1>2, <1>3, <1>4, <1>5, <1>6, <1>7
  DEF Next, Regular, Fault, Refunds, SweepRead, Process, provider, vars, Persist, LateDecline, Decline,
      RequestPaidCancellation, LeaseExpires, Reserve, Claim,
      RetrieveRefund, Record, Account, ReviewRead, Review, RefundRead, Dies, ConfigMissing,
      AnswerLost, AccountFails

(* A process moves to the next await with a typed record.                  *)
LEMMA ProcessStep ==
  ASSUME TypeOK, InHand, [Next]_vars
  PROVE  proc' \in [Process -> ProcessState]
<1>1. /\ proc \in [Process -> ProcessState]
      /\ op \in [Operation -> OperationDoc]
      /\ stripe \in [Operation -> Refund]
      /\ first \in [Operation -> {"none", "pending", "succeeded", "failed"}]
  BY DEF TypeOK
<1>2. ASSUME UNCHANGED proc PROVE proc' \in [Process -> ProcessState]
  BY <1>1, <1>2
<1>3. ASSUME NEW p \in Process, NEW r \in ProcessState, proc' = [proc EXCEPT ![p] = r]
      PROVE  proc' \in [Process -> ProcessState]
  BY <1>1, <1>3
<1>4. ASSUME NEW p \in Process, Reserve(p) PROVE proc' \in [Process -> ProcessState]
  BY <1>1, <1>3, <1>4 DEF Reserve, At, InHand, ProcessState, Idle, OperationDoc
<1>6. ASSUME NEW p \in Process, Claim(p) PROVE proc' \in [Process -> ProcessState]
  BY <1>1, <1>3, <1>6 DEF Claim, GoTo, At, InHand, ProcessState, Idle, OperationDoc
<1>7. ASSUME NEW p \in Process, Create(p) PROVE proc' \in [Process -> ProcessState]
  BY <1>1, <1>3, <1>7 DEF Create, Answers, At, InHand, ProcessState, Idle, OperationDoc
<1>8. ASSUME NEW p \in Process, RetrieveRefund(p) PROVE proc' \in [Process -> ProcessState]
  BY <1>1, <1>3, <1>8 DEF RetrieveRefund, Answers, At, InHand, ProcessState, Idle, OperationDoc, Refund
<1>9. ASSUME NEW p \in Process, Record(p) PROVE proc' \in [Process -> ProcessState]
  BY <1>1, <1>3, <1>9 DEF Record, ToAccount, GoTo, At, InHand, ProcessState, Idle, OperationDoc
<1>10. ASSUME NEW p \in Process, Account(p) PROVE proc' \in [Process -> ProcessState]
  BY <1>1, <1>3, <1>10 DEF Account, GoTo, At, InHand, ProcessState, Idle, OperationDoc
<1>11. ASSUME NEW p \in Process, ReviewRead(p) PROVE proc' \in [Process -> ProcessState]
  BY <1>1, <1>3, <1>11 DEF ReviewRead, At, InHand, ProcessState, Idle, OperationDoc
<1>12. ASSUME NEW p \in Process, Review(p) PROVE proc' \in [Process -> ProcessState]
  BY <1>1, <1>3, <1>12 DEF Review, GoTo, At, InHand, ProcessState, Idle, OperationDoc
<1>13. ASSUME NEW p \in Process, NEW o \in Operation, RefundRead(p, o) PROVE proc' \in [Process -> ProcessState]
  BY <1>1, <1>3, <1>13 DEF RefundRead, At, InHand, ProcessState, Idle, OperationDoc
<1>14. ASSUME NEW p \in Process, Dies(p) PROVE proc' \in [Process -> ProcessState]
  BY <1>1, <1>3, <1>14 DEF Dies, GoTo, At, InHand, ProcessState, Idle, OperationDoc
<1>15. ASSUME NEW p \in Process, ConfigMissing(p) PROVE proc' \in [Process -> ProcessState]
  BY <1>1, <1>3, <1>15 DEF ConfigMissing, GoTo, At, InHand, ProcessState, Idle, OperationDoc
<1>16. ASSUME NEW p \in Process, AnswerLost(p) PROVE proc' \in [Process -> ProcessState]
  BY <1>1, <1>3, <1>16 DEF AnswerLost, Answers, At, InHand, ProcessState, Idle, OperationDoc
<1>17. ASSUME NEW p \in Process, AccountFails(p) PROVE proc' \in [Process -> ProcessState]
  BY <1>1, <1>3, <1>17 DEF AccountFails, GoTo, At, InHand, ProcessState, Idle, OperationDoc
<1> QED
  BY <1>2, <1>4, <1>6, <1>7, <1>8, <1>9, <1>10, <1>11, <1>12, <1>13, <1>14, <1>15, <1>16, <1>17
  DEF Next, Regular, Fault, Refunds, SweepRead, Process, vars, Persist, LateDecline, Decline,
      RequestPaidCancellation, StripeSettles, StripeReverses, OrphanFails, KeyForgotten, LeaseExpires

(* What no step takes back: repaid money, an operation and its amount, a   *)
(* success at Stripe that somebody goes by.                                *)
Lasting ==
  /\ order.refunded \in Nat /\ order'.refunded \in Nat /\ order'.refunded >= order.refunded
  /\ \A o \in Operation : op[o].amount \in Nat /\ op'[o].amount = op[o].amount
  /\ \A o \in Operation : op[o].status # "none" => op'[o].status # "none"
  /\ \A o \in Operation : stripe[o] \in Made /\ Held(o) => stripe'[o] \in Made
  /\ \A o \in Operation : first'[o] = "succeeded" => stripe'[o] \in Made

(* What a process knows stays true while others work.                      *)
LEMMA OthersKnow ==
  ASSUME Lasting, NEW q \in Process, Knows(q), proc'[q] = proc[q]
  PROVE  Knows(q)'
BY TotalAssumption DEF Lasting, Knows, Held, Made

(* What processes know survives every step that is lasting.                *)
LEMMA KnowledgeStep ==
  ASSUME TypeOK, Lasting, \A q \in Process : Knows(q), [Next]_vars
  PROVE  \A q \in Process : Knows(q)'
<1> DEFINE Known == \A q \in Process : Knows(q)'
<1>1. proc \in [Process -> ProcessState]
  BY DEF TypeOK
<1>2. ASSUME UNCHANGED proc PROVE Known
  BY <1>2, OthersKnow
<1>3. ASSUME NEW p \in Process, Knows(p)', \A q \in Process : q # p => proc'[q] = proc[q]
      PROVE  Known
  BY <1>3, OthersKnow
<1>4. ASSUME NEW p \in Process, Reserve(p) PROVE Known
  <2>1. \A q \in Process : q # p => proc'[q] = proc[q]
    BY <1>1, <1>4 DEF Reserve, At, ProcessState, Idle
  <2>2. Knows(p)'
    <3>1. proc[p].op \in Operation /\ proc[p].pc = "reserve"
      BY <1>4 DEF Reserve, At, Knows
    <3>2. CASE proc' = [proc EXCEPT ![p] = Idle]
      BY <1>1, <3>2 DEF Idle, Knows
    <3>3. CASE Reservable(p)
      <4>1. op'[proc[p].op].status = "requested"
        BY <1>4, <3>1, <3>3 DEF Reserve, TypeOK, OperationDoc
      <4>2. proc'[p] = [Idle EXCEPT !.pc = "config", !.op = proc[p].op]
        BY <1>1, <1>4, <3>3 DEF Reserve
      <4> QED
        BY <3>1, <4>1, <4>2 DEF Knows, Idle
    <3>4. CASE ~Reservable(p) /\ op[proc[p].op].status # "none"
      <4>1. op'[proc[p].op].status # "none"
        BY <3>1, <3>4 DEF Lasting
      <4>2. proc'[p] = [Idle EXCEPT !.pc = "config", !.op = proc[p].op,
                          !.tried = op[proc[p].op].attempted, !.known = op[proc[p].op].known]
        BY <1>1, <1>4, <3>4 DEF Reserve
      <4> QED
        BY <3>1, <4>1, <4>2 DEF Knows, Idle
    <3> QED
      BY <1>4, <3>2, <3>3, <3>4 DEF Reserve
  <2> QED
    BY <1>3, <2>1, <2>2
<1>6. ASSUME NEW p \in Process, Claim(p) PROVE Known
  <2>1. \A q \in Process : q # p => proc'[q] = proc[q]
    BY <1>1, <1>6 DEF Claim, GoTo, At, ProcessState, Idle
  <2>2. Knows(p)'
    <3>1. /\ proc[p].op \in Operation /\ op'[proc[p].op].status # "none" /\ ~proc[p].rest
      BY <1>6 DEF Claim, At, Knows, Lasting
    <3>2. CASE GoTo(p, "idle")
      BY <1>1, <3>2 DEF GoTo, Knows, Idle
    <3>3. CASE proc' = [proc EXCEPT ![p] = [@ EXCEPT !.pc = "provider", !.tried = FALSE]]
      BY <1>1, <3>1, <3>3 DEF Knows, ProcessState
    <3> QED
      BY <1>6, <3>2, <3>3 DEF Claim
  <2> QED
    BY <1>3, <2>1, <2>2
<1>7. ASSUME NEW p \in Process, Create(p) PROVE Known
  <2>1. \A q \in Process : q # p => proc'[q] = proc[q]
    BY <1>1, <1>7 DEF Create, Answers, At, ProcessState, Idle
  <2>2. Knows(p)'
    <3>1. /\ proc[p].op \in Operation /\ op[proc[p].op].status # "none" /\ ~proc[p].rest
      BY <1>7 DEF Create, At, Knows
    <3>2. PICK a \in {"error", "pending", "succeeded", "failed"} :
            /\ Answers(p, a)
            /\ a = "succeeded" => first'[proc[p].op] = "succeeded"
      BY <1>7, <3>1 DEF Create, TypeOK
    <3>3. proc'[p] = [Idle EXCEPT !.pc = "record", !.op = proc[p].op, !.answer = a]
      BY <1>1, <3>2 DEF Answers
    <3>4. a = "succeeded" => stripe'[proc[p].op] \in Made
      BY <3>1, <3>2 DEF Lasting
    <3>5. proc[p] \in ProcessState
      BY <1>1
    <3> QED
      BY <3>1, <3>3, <3>4, <3>5 DEF Knows, Lasting, ProcessState, Idle
  <2> QED
    BY <1>3, <2>1, <2>2
<1>8. ASSUME NEW p \in Process, RetrieveRefund(p) PROVE Known
  <2>1. \A q \in Process : q # p => proc'[q] = proc[q]
    BY <1>1, <1>8 DEF RetrieveRefund, Answers, At, ProcessState, Idle
  <2>2. Knows(p)'
    <3>1. /\ proc[p].op \in Operation /\ op'[proc[p].op].status # "none"
          /\ stripe' = stripe
      BY <1>8 DEF RetrieveRefund, At, Knows, Lasting, provider
    <3>2. PICK a : /\ Answers(p, a)
                   /\ a = "succeeded" => stripe[proc[p].op] = "succeeded"
      BY <1>8 DEF RetrieveRefund
    <3>3. proc'[p] = [Idle EXCEPT !.pc = "record", !.op = proc[p].op, !.answer = a]
      BY <1>1, <3>2 DEF Answers
    <3> QED
      BY <3>1, <3>2, <3>3 DEF Knows, Idle, Made
  <2> QED
    BY <1>3, <2>1, <2>2
<1>9. ASSUME NEW p \in Process, Record(p) PROVE Known
  <2>1. \A q \in Process : q # p => proc'[q] = proc[q]
    BY <1>1, <1>9 DEF Record, ToAccount, GoTo, At, ProcessState, Idle
  <2>2. Knows(p)'
    <3>1. /\ proc[p].op \in Operation /\ op'[proc[p].op].status # "none"
          /\ proc[p].answer = "succeeded" => stripe'[proc[p].op] \in Made
      BY <1>9 DEF Record, At, Knows, Lasting, provider
    <3>2. CASE proc' = [proc EXCEPT ![p] = Idle]
      BY <1>1, <3>2 DEF Idle, Knows
    <3>3. CASE proc[p].answer = "succeeded" /\ ToAccount(p)
      <4>1. proc'[p] = [Idle EXCEPT !.pc = "account", !.op = proc[p].op]
        BY <1>1, <3>3 DEF ToAccount
      <4> QED
        BY <3>1, <3>3, <4>1 DEF Knows, Idle
    <3> QED
      BY <1>9, <3>2, <3>3 DEF Record, GoTo
  <2> QED
    BY <1>3, <2>1, <2>2
<1>10. ASSUME NEW p \in Process, Account(p) PROVE Known
  <2>1. \A q \in Process : q # p => proc'[q] = proc[q]
    BY <1>1, <1>10 DEF Account, GoTo, At, ProcessState, Idle
  <2>2. Knows(p)'
    BY <1>1, <1>10 DEF Account, GoTo, At, ProcessState, Idle, Knows, Lasting
  <2> QED
    BY <1>3, <2>1, <2>2
<1>11. ASSUME NEW p \in Process, ReviewRead(p) PROVE Known
  <2>1. \A q \in Process : q # p => proc'[q] = proc[q]
    BY <1>1, <1>11 DEF ReviewRead, At, ProcessState, Idle
  <2>2. Knows(p)'
    BY <1>1, <1>11 DEF ReviewRead, At, ProcessState, Idle, Knows, Lasting
  <2> QED
    BY <1>3, <2>1, <2>2
<1>12. ASSUME NEW p \in Process, Review(p) PROVE Known
  <2>1. \A q \in Process : q # p => proc'[q] = proc[q]
    BY <1>1, <1>12 DEF Review, GoTo, At, ProcessState, Idle
  <2>2. Knows(p)'
    BY <1>1, <1>12 DEF Review, GoTo, At, ProcessState, Idle, Knows, Lasting
  <2> QED
    BY <1>3, <2>1, <2>2
<1>13. ASSUME NEW p \in Process, NEW o \in Operation, RefundRead(p, o) PROVE Known
  <2>1. \A q \in Process : q # p => proc'[q] = proc[q]
    BY <1>1, <1>13 DEF RefundRead, At, ProcessState, Idle
  <2>2. Knows(p)'
    <3>1. PICK rest \in BOOLEAN, pc \in {"reserve", "config"},
               tried \in BOOLEAN, known \in BOOLEAN :
            /\ proc'[p] = [Idle EXCEPT !.pc = pc, !.op = o, !.rest = rest,
                                       !.tried = tried, !.known = known]
            /\ rest => pc = "reserve" /\ op[o].amount = Total - order.refunded
            /\ pc = "config" => op[o].status # "none"
      <4> DEFINE known == op[o].known
                 tried == op[o].attempted
                 rest == op[o].amount = Total - order.refunded /\ op[o].status = "none"
                 pc == IF op[o].status = "none" THEN "reserve" ELSE "config"
      <4>1. known \in BOOLEAN /\ tried \in BOOLEAN /\ rest \in BOOLEAN
        BY OperationUpdates DEF TypeOK
      <4>2. proc'[p] = [Idle EXCEPT !.pc = pc, !.op = o, !.rest = rest,
                                    !.tried = tried, !.known = known]
        BY <1>1, <1>13 DEF RefundRead
      <4> QED
        BY <4>1, <4>2
    <3>2. op'[o].amount + order'.refunded >= Total \/ ~rest
      BY <3>1, TotalAssumption DEF Lasting
    <3>3. pc = "config" => op'[o].status # "none"
      BY <3>1 DEF Lasting
    <3> QED
      BY <3>1, <3>2, <3>3 DEF Knows, Idle
  <2> QED
    BY <1>3, <2>1, <2>2
<1>14. ASSUME NEW p \in Process, Dies(p) PROVE Known
  <2>1. \A q \in Process : q # p => proc'[q] = proc[q]
    BY <1>1, <1>14 DEF Dies, GoTo, At, ProcessState, Idle
  <2>2. Knows(p)'
    BY <1>1, <1>14 DEF Dies, GoTo, At, ProcessState, Idle, Knows, Lasting
  <2> QED
    BY <1>3, <2>1, <2>2
<1>15. ASSUME NEW p \in Process, ConfigMissing(p) PROVE Known
  <2>1. \A q \in Process : q # p => proc'[q] = proc[q]
    BY <1>1, <1>15 DEF ConfigMissing, GoTo, At, ProcessState, Idle
  <2>2. Knows(p)'
    BY <1>1, <1>15 DEF ConfigMissing, GoTo, At, ProcessState, Idle, Knows, Lasting
  <2> QED
    BY <1>3, <2>1, <2>2
<1>16. ASSUME NEW p \in Process, AnswerLost(p) PROVE Known
  <2>1. \A q \in Process : q # p => proc'[q] = proc[q]
    BY <1>1, <1>16 DEF AnswerLost, Answers, At, ProcessState, Idle
  <2>2. Knows(p)'
    BY <1>1, <1>16 DEF AnswerLost, Answers, At, ProcessState, Idle, Knows, Lasting
  <2> QED
    BY <1>3, <2>1, <2>2
<1>17. ASSUME NEW p \in Process, AccountFails(p) PROVE Known
  <2>1. \A q \in Process : q # p => proc'[q] = proc[q]
    BY <1>1, <1>17 DEF AccountFails, GoTo, At, ProcessState, Idle
  <2>2. Knows(p)'
    BY <1>1, <1>17 DEF AccountFails, GoTo, At, ProcessState, Idle, Knows, Lasting
  <2> QED
    BY <1>3, <2>1, <2>2
<1> QED
  BY <1>2, <1>4, <1>6, <1>7, <1>8, <1>9, <1>10, <1>11, <1>12, <1>13, <1>14, <1>15, <1>16, <1>17
  DEF Next, Regular, Fault, Refunds, SweepRead, Process, vars, Persist, LateDecline, Decline,
      RequestPaidCancellation, StripeSettles, StripeReverses, OrphanFails, KeyForgotten, LeaseExpires

-----------------------------------------------------------------------------
(* Of the steps, three move money in the order, each with one operation.   *)
Rests ==
  /\ order'.refunded = order.refunded /\ order'.pending = order.pending
  /\ Succeeded' = Succeeded /\ Outstanding' = Outstanding /\ Revived' = Revived

SetsAside(o) ==
  /\ order'.refunded = order.refunded /\ order'.pending = order.pending + op[o].amount
  /\ o \notin Outstanding
  /\ Succeeded' = Succeeded /\ Outstanding' = Outstanding \cup {o} /\ Revived' = Revived

SetsFree(o) ==
  /\ order'.refunded = order.refunded /\ order'.pending = order.pending - op[o].amount
  /\ o \in Outstanding
  /\ Succeeded' = Succeeded /\ Outstanding' = Outstanding \ {o} /\ Revived' = Revived

Repays(o) ==
  /\ order'.refunded = order.refunded + op[o].amount
  /\ order'.pending = order.pending - op[o].amount
  /\ o \notin Succeeded
  /\ Succeeded' = Succeeded \cup {o} /\ Outstanding' = Outstanding \ {o}
  /\ Revived' = IF o \in Outstanding THEN Revived ELSE Revived \cup {o}

(* Every step leaves the totals alone or moves one operation's amount.     *)
LEMMA MoneyStep ==
  ASSUME TypeOK, InHand, Revived \subseteq Succeeded, [Next]_vars
  PROVE  Rests \/ \E o \in Operation : SetsAside(o) \/ SetsFree(o) \/ Repays(o)
<1> DEFINE Moves == Rests \/ \E o \in Operation : SetsAside(o) \/ SetsFree(o) \/ Repays(o)
<1>1. op \in [Operation -> OperationDoc] /\ order \in OrderDoc
  BY DEF TypeOK
<1>2. ASSUME order'.refunded = order.refunded, order'.pending = order.pending,
             \A i \in Operation : \/ op'[i].status = op[i].status
                                  \/ op[i].status \in Open /\ op'[i].status \in Open,
             \A i \in Operation : op'[i].revived = op[i].revived
      PROVE  Moves
  BY <1>2 DEF Rests, Succeeded, Outstanding, Revived, IsOpen, Open
<1>3. ASSUME NEW o \in Operation, NEW known, NEW leased, Schedule(o, known, leased),
             UNCHANGED order
      PROVE  Moves
  <2>1. \A i \in Operation : /\ \/ op'[i].status = op[i].status
                                \/ op[i].status \in Open /\ op'[i].status \in Open
                             /\ op'[i].revived = op[i].revived
    BY <1>1, <1>3 DEF Schedule, IsOpen, OperationDoc, Open
  <2> QED BY <1>2, <1>3, <2>1
<1>4. ASSUME NEW o \in Operation, NEW known, ReleaseReservation(o, known) PROVE Moves
  <2>1. CASE UNCHANGED <<order, op>>
    BY <1>2, <2>1
  <2>2. CASE IsOpen(o) /\ order.pending >= op[o].amount
    <3>1. order' = [order EXCEPT !.pending = @ - op[o].amount]
      BY <1>4, <2>2 DEF ReleaseReservation
    <3>2. \A i \in Operation : /\ op'[i].status = IF i = o THEN "failed" ELSE op[i].status
                               /\ op'[i].revived = op[i].revived
      BY <1>1, <1>4, <2>2 DEF ReleaseReservation, OperationDoc
    <3>3. SetsFree(o)
      BY <1>1, <2>2, <3>1, <3>2
         DEF SetsFree, Succeeded, Outstanding, Revived, IsOpen, Open, OrderDoc
    <3> QED BY <3>3
  <2> QED BY <1>4, <2>1, <2>2 DEF ReleaseReservation
<1>5. ASSUME Persist \/ LateDecline \/ RequestPaidCancellation PROVE Moves
  BY <1>1, <1>2, <1>5 DEF Persist, LateDecline, Decline, RequestPaidCancellation, OrderDoc
<1>6. ASSUME NEW o \in Operation, LeaseExpires(o) PROVE Moves
  BY <1>1, <1>2, <1>6 DEF LeaseExpires, OperationDoc
<1>7. ASSUME NEW p \in Process, Reserve(p) PROVE Moves
  <2> DEFINE o == proc[p].op
  <2>1. o \in Operation
    BY <1>7 DEF Reserve, At, InHand
  <2>2. CASE UNCHANGED <<order, op>>
    BY <1>2, <2>2
  <2>3. CASE Reservable(p)
    <3>1. order' = [order EXCEPT !.pending = @ + op[o].amount]
      BY <1>7, <2>3 DEF Reserve
    <3>2. op[o].status = "none" /\ op' = [op EXCEPT ![o].status = "requested"]
      BY <1>7, <2>3 DEF Reserve, Reservable
    <3>3. \A i \in Operation : /\ op'[i].status = IF i = o THEN "requested" ELSE op[i].status
                               /\ op'[i].revived = op[i].revived
      BY <1>1, <3>2 DEF OperationDoc
    <3> HIDE DEF o
    <3>4. SetsAside(o)
      BY <1>1, <2>1, <3>1, <3>2, <3>3
         DEF SetsAside, Succeeded, Outstanding, Revived, IsOpen, Open, OrderDoc
    <3> QED BY <2>1, <3>4
  <2> QED BY <1>7, <2>2, <2>3 DEF Reserve
<1>8. ASSUME NEW p \in Process, Claim(p) PROVE Moves
  <2>1. \A i \in Operation : op'[i].status = op[i].status /\ op'[i].revived = op[i].revived
    BY <1>1, <1>8 DEF Claim, OperationDoc
  <2> QED BY <1>2, <1>8, <2>1 DEF Claim
<1>9. ASSUME NEW p \in Process, Record(p) \/ ConfigMissing(p) \/ AccountFails(p) PROVE Moves
  <2>1. proc[p].op \in Operation
    BY <1>9 DEF Record, ConfigMissing, AccountFails, At, InHand
  <2>2. \/ \E known : ReleaseReservation(proc[p].op, known)
        \/ UNCHANGED order /\ \E known, leased : Schedule(proc[p].op, known, leased)
    BY <1>9 DEF Record, ConfigMissing, AccountFails
  <2> QED BY <1>3, <1>4, <2>1, <2>2
<1>10. ASSUME NEW p \in Process, Account(p) PROVE Moves
  <2> DEFINE o == proc[p].op
  <2>1. o \in Operation
    BY <1>10 DEF Account, At, InHand
  <2>2. CASE UNCHANGED <<order, op>>
    BY <1>2, <2>2
  <2>3. CASE Applies(o)
    <3>1. /\ order'.refunded = order.refunded + op[o].amount
          /\ order'.pending = order.pending - op[o].amount
      BY <1>10, <2>3 DEF Account
    <3>2. /\ op[o].status # "succeeded"
          /\ op' = [op EXCEPT ![o].status = "succeeded", ![o].known = TRUE, ![o].leased = FALSE,
                              ![o].revived = op[o].status = "failed"]
      BY <1>10, <2>3 DEF Account, Applies
    <3>3. \A i \in Operation :
            /\ op'[i].status = IF i = o THEN "succeeded" ELSE op[i].status
            /\ op'[i].revived = IF i = o THEN op[o].status = "failed" ELSE op[i].revived
      BY <1>1, <3>2 DEF OperationDoc
    <3>5. op[o].status = "failed" <=> o \notin Outstanding
      BY <1>1, <1>10, <2>1, <3>2 DEF Account, At, InHand, Outstanding, IsOpen, Open, OperationDoc
    <3> HIDE DEF o
    <3>4. Repays(o)
      <4>1. Succeeded' = Succeeded \cup {o} /\ o \notin Succeeded
        BY <2>1, <3>2, <3>3 DEF Succeeded
      <4>2. Outstanding' = Outstanding \ {o}
        BY <3>3 DEF Outstanding, IsOpen, Open
      <4>3. o \notin Revived
        BY <4>1
      <4>4. Revived' = IF o \in Outstanding THEN Revived ELSE Revived \cup {o}
        BY <2>1, <3>3, <3>5, <4>3 DEF Revived
      <4> QED BY <3>1, <4>1, <4>2, <4>4 DEF Repays
    <3> QED BY <2>1, <3>4
  <2> QED BY <1>10, <2>2, <2>3 DEF Account
<1>11. ASSUME NEW p \in Process, Review(p) PROVE Moves
  BY <1>1, <1>2, <1>11 DEF Review, OrderDoc
<1>12. CASE UNCHANGED <<order, op>>
  BY <1>2, <1>12
<1> QED
  BY <1>5, <1>6, <1>7, <1>8, <1>9, <1>10, <1>11, <1>12
  DEF Next, Regular, Fault, Refunds, SweepRead, Process, vars, StripeSettles, StripeReverses,
      OrphanFails, KeyForgotten, Create, RetrieveRefund, ReviewRead, RefundRead, Dies, AnswerLost

(* So the totals remain the sums.                                          *)
LEMMA SumsStep ==
  ASSUME TypeOK, InHand, WithinPrice, Sums, [Next]_vars
  PROVE  Sums'
<1>1. /\ op \in [Operation -> OperationDoc] /\ op' \in [Operation -> OperationDoc]
      /\ \A o \in Operation : op'[o].amount = op[o].amount
      /\ \A o \in Operation : op[o].amount \in Nat
      /\ order.refunded \in Nat /\ order.pending \in Nat
  BY OperationStep, TotalAssumption DEF TypeOK, OperationDoc, OrderDoc
<1> DEFINE Balance(R, P, V) ==
      order'.refunded = Amounts(R) /\ order'.pending + Amounts(V) = Amounts(P) /\ V \subseteq R
<1> SUFFICES ASSUME NEW R, NEW P, NEW V, R = Succeeded', P = Outstanding', V = Revived'
             PROVE  Balance(R, P, V)
  <2>1. \A S \in SUBSET Operation :
          {u \in S \X (1..Total) : u[2] <= op'[u[1]].amount} = Units(S)
    BY <1>1 DEF Units
  <2>2. /\ Succeeded' \in SUBSET Operation /\ Outstanding' \in SUBSET Operation
        /\ Revived' \in SUBSET Operation
    BY DEF Succeeded, Outstanding, Revived
  <2>3. Balance(Succeeded', Outstanding', Revived')
    OBVIOUS
  <2> QED BY <2>1, <2>2, <2>3 DEF Sums, Amounts, Units
<1>2. /\ Succeeded \in SUBSET Operation /\ Outstanding \in SUBSET Operation
      /\ Revived \in SUBSET Operation
      /\ Amounts(Outstanding) \in Nat /\ Amounts(Succeeded) \in Nat /\ Amounts(Revived) \in Nat
  BY <1>1, Counting DEF Succeeded, Outstanding, Revived
<1>3. /\ order.refunded = Amounts(Succeeded) /\ order.pending + Amounts(Revived) = Amounts(Outstanding)
      /\ Revived \subseteq Succeeded
  BY DEF Sums
<1>4. CASE Rests
  BY <1>3, <1>4 DEF Rests
<1>5. ASSUME NEW o \in Operation, o \in Outstanding
      PROVE  Amounts(Outstanding) = Amounts(Outstanding \ {o}) + op[o].amount
             /\ Amounts(Outstanding \ {o}) \in Nat
  <2>1. Outstanding \ {o} \in SUBSET Operation /\ o \in Operation \ (Outstanding \ {o})
    BY <1>2
  <2>2. (Outstanding \ {o}) \cup {o} = Outstanding
    BY <1>5
  <2> QED BY <1>1, <2>1, <2>2, OneMore, Counting
<1>6. ASSUME NEW o \in Operation, SetsAside(o)
      PROVE  Balance(R, P, V)
  <2>1. Amounts(Outstanding \cup {o}) = Amounts(Outstanding) + op[o].amount
    BY <1>1, <1>2, <1>6, OneMore DEF SetsAside
  <2> QED BY <1>1, <1>2, <1>3, <1>6, <2>1 DEF SetsAside
<1>7. ASSUME NEW o \in Operation, SetsFree(o)
      PROVE  Balance(R, P, V)
  BY <1>1, <1>2, <1>3, <1>5, <1>7 DEF SetsFree
<1>8. ASSUME NEW o \in Operation, Repays(o)
      PROVE  Balance(R, P, V)
  <2>1. Amounts(Succeeded \cup {o}) = Amounts(Succeeded) + op[o].amount
    BY <1>1, <1>2, <1>8, OneMore DEF Repays
  <2>2. CASE o \in Outstanding
    <3>1. V = Revived /\ R = Succeeded \cup {o} /\ P = Outstanding \ {o}
      BY <1>8, <2>2 DEF Repays
    <3>2. Amounts(P) + op[o].amount = Amounts(Outstanding) /\ Amounts(P) \in Nat
      BY <1>5, <2>2, <3>1
    <3>3. /\ order'.refunded = order.refunded + op[o].amount
          /\ order'.pending = order.pending - op[o].amount
      BY <1>8 DEF Repays
    <3>4. order'.refunded = Amounts(R) /\ V \subseteq R
      BY <1>3, <2>1, <3>1, <3>3
    <3>5. order'.pending + Amounts(V) = Amounts(P)
      BY <1>1, <1>2, <1>3, <3>1, <3>2, <3>3
    <3> QED BY <3>4, <3>5
  <2>3. CASE o \notin Outstanding
    <3>1. Outstanding \ {o} = Outstanding
      BY <2>3
    <3>2. /\ order'.refunded = order.refunded + op[o].amount
          /\ order'.pending = order.pending - op[o].amount
          /\ R = Succeeded \cup {o} /\ P = Outstanding /\ V = Revived \cup {o}
      BY <1>8, <2>3, <3>1 DEF Repays
    <3>3. Amounts(Revived \cup {o}) = Amounts(Revived) + op[o].amount
      BY <1>1, <1>2, <1>3, <1>8, OneMore DEF Repays
    <3> QED BY <1>1, <1>2, <1>3, <2>1, <3>2, <3>3
  <2> QED BY <2>2, <2>3
<1> QED BY <1>4, <1>6, <1>7, <1>8, MoneyStep DEF Sums

(* The invariant is inductive.                                             *)
LEMMA Step ==
  ASSUME IInv, [Next]_vars
  PROVE  IInv'
<1>1. InHand
  BY DEF IInv, InHand, Knows
<1>2. order' \in OrderDoc /\ WithinPrice' /\ order'.refunded >= order.refunded
  BY <1>1, OrderStep DEF IInv
<1>3. /\ op' \in [Operation -> OperationDoc]
      /\ \A o \in Operation : op'[o].amount = op[o].amount
      /\ \A o \in Operation : op'[o].status = "succeeded" =>
           \/ op[o].status = "succeeded"
           \/ \E p \in Process : proc[p].pc = "account" /\ proc[p].op = o
      /\ \A o \in Operation : op'[o].status = "succeeded" =>
           op[o].status = "succeeded" \/ op'[o].known
      /\ \A o \in Operation : op[o].known => op'[o].known
      /\ \A o \in Operation : op[o].status # "none" => op'[o].status # "none"
  BY <1>1, OperationStep DEF IInv
<1>4. /\ stripe' \in [Operation -> Refund]
      /\ first' \in [Operation -> {"none", "pending", "succeeded", "failed"}]
      /\ orphans' \in SUBSET Operation
      /\ declined' \in BOOLEAN
      /\ \A o \in Operation : stripe[o] \in Made /\ Held(o) => stripe'[o] \in Made
      /\ FirstIsFinal'
  BY <1>1, StripeStep DEF IInv
<1>5. Lasting
  BY <1>2, <1>3, <1>4 DEF Lasting, IInv, TypeOK, OrderDoc, OperationDoc, FirstIsFinal
<1>6. \A p \in Process : Knows(p)'
  BY <1>5, KnowledgeStep DEF IInv
<1>7. SucceededAtStripe' /\ SuccessIsKnown'
  BY <1>3, <1>4 DEF IInv, SucceededAtStripe, SuccessIsKnown, Knows, Held, Made
<1>8. TypeOK'
  BY <1>1, <1>2, <1>3, <1>4, ProcessStep DEF IInv, TypeOK
<1>9. Sums'
  BY <1>1, SumsStep DEF IInv
<1> QED
  BY <1>2, <1>4, <1>6, <1>7, <1>8, <1>9 DEF IInv

(* The invariant holds of every behaviour of the refunds.                  *)
THEOREM Inductive == Spec => []IInv
BY InitIInv, Step, PTL DEF Spec

(* The order, its operations, Stripe's answers and the processes stay of   *)
(* their types; in particular neither total is ever negative.              *)
THEOREM RefundTyped == Spec => []TypeOK
BY Inductive, PTL DEF IInv

(* What the order calls refunded is, to the unit, what Stripe refunded for *)
(* its succeeded operations; what is set aside is, to the unit, what its   *)
(* open operations ask for, less what operations given up and taken up     *)
(* again have used of it; and no more is ever repaid and set aside than    *)
(* the order cost.  Stripe's money may have come back since.               *)
THEOREM RefundsBacked == Spec => []RefundedIsBacked
<1>1. IInv => RefundedIsBacked
  BY DEF IInv, Sums, Succeeded, Outstanding, Revived, RefundedIsBacked
<1> QED BY <1>1, Inductive, PTL

(* While a cancellation is asked for, only a refund of all that is left is *)
(* taken in, also when the request read the order before.                  *)
THEOREM CancellationTakesRest == Spec => CancellationRefundsRest
<1>1. ASSUME IInv, [Next]_vars, NEW o \in Operation,
             order.status = "cancel_pending", op[o].status = "none", op'[o].status # "none"
      PROVE  order'.refunded + order'.pending = Total
  <2>1. InHand
    BY <1>1 DEF IInv, InHand, Knows
  <2>2. PICK p \in Process : Reserve(p) /\ Reservable(p) /\ proc[p].op = o
    BY <1>1, <2>1, OperationStep DEF IInv
  <2>3. /\ order \in OrderDoc
        /\ op[o].amount \in 1..Total
    BY <1>1, OperationUpdates DEF IInv, TypeOK
  <2>4. order' = [order EXCEPT !.pending = @ + op[o].amount]
    BY <2>2 DEF Reserve
  <2>5. /\ op[o].amount + order.refunded >= Total
        /\ order.refunded + order.pending + op[o].amount <= Total
    BY <1>1, <2>2 DEF Reservable, IInv, Knows
  <2> QED
    BY <2>3, <2>4, <2>5, TotalAssumption DEF OrderDoc
<1>2. IInv /\ [Next]_vars =>
        [\A o \in Operation :
           order.status = "cancel_pending" /\ op[o].status = "none" /\ op'[o].status # "none" =>
             order'.refunded + order'.pending = Total]_vars
  BY <1>1
<1> QED
  BY <1>2, Inductive, PTL DEF Spec, CancellationRefundsRest

(* Requests, sweeps, lost answers and expired leases change the totals of  *)
(* an order as the contract says, by one amount at a time: that is what    *)
(* BundleSettlement takes as one step.                                     *)
THEOREM RefundsFollowContract == Spec => Processed!Spec
<1>1. Init => Processed!Init
  BY DEF Init, Processed!Init
<1>2. ASSUME IInv, IInv', [Next]_vars
      PROVE  [Processed!Next]_(Processed!vars)
  <2>1. InHand
    BY <1>2 DEF IInv, InHand, Knows
  <2>2. /\ order.refunded \in 0..Total /\ order.pending \in 0..Total
        /\ order'.refunded \in 0..Total /\ order'.pending \in 0..Total
        /\ order'.refunded + order'.pending <= Total
        /\ \A o \in Operation : op[o].amount \in 1..Total
    BY <1>2, OperationUpdates DEF IInv, TypeOK, OrderDoc, WithinPrice
  <2>3. CASE Rests
    BY <2>3 DEF Rests, Processed!vars
  <2>4. ASSUME NEW o \in Operation, SetsAside(o)
        PROVE  Processed!SetAside(op[o].amount)
    BY <2>2, <2>4, TotalAssumption DEF SetsAside, Processed!SetAside
  <2>5. ASSUME NEW o \in Operation, SetsFree(o)
        PROVE  Processed!SetFree(op[o].amount)
    BY <2>2, <2>5, TotalAssumption DEF SetsFree, Processed!SetFree
  <2>6. ASSUME NEW o \in Operation, Repays(o)
        PROVE  Processed!PayBack(op[o].amount)
    BY <2>2, <2>6, TotalAssumption DEF Repays, Processed!PayBack
  <2>7. Rests \/ \E o \in Operation : SetsAside(o) \/ SetsFree(o) \/ Repays(o)
    BY <1>2, <2>1, MoneyStep DEF IInv, Sums
  <2> QED
    BY <2>2, <2>3, <2>4, <2>5, <2>6, <2>7 DEF Processed!Next
<1> QED
  BY <1>1, <1>2, Inductive, PTL DEF Spec, Processed!Spec

-----------------------------------------------------------------------------
(* 3. BundleSettlement.                                                    *)

(* Sums and portions of the instance are Allocation's.                     *)
LEMMA SameAllocation ==
  ASSUME NEW f, NEW a
  PROVE  /\ Settlement!SumOf(f) = SumOf(f)
         /\ Settlement!AllocateProportionally(a, f) = AllocateProportionally(a, f)
<1>1. \A g : Settlement!Minors(g) = Minors(g)
  BY DEF Settlement!Minors, Minors
<1>2. \A S : Settlement!Cardinality(S) = Cardinality(S)
  BY DEF Settlement!Cardinality, Cardinality
<1>3. \A g : Settlement!SumOf(g) = SumOf(g)
  BY <1>1, <1>2 DEF Settlement!SumOf, SumOf
<1>4. Settlement!Floors(a, f) = Floors(a, f)
  BY <1>3 DEF Settlement!Floors, Floors
<1>5. \A i : Settlement!Before(f, i) = Before(f, i)
  BY DEF Settlement!Before, Before
<1>6. Settlement!SumOf(Floors(a, f)) = SumOf(Floors(a, f))
  BY <1>3
<1>7. Settlement!AllocateProportionally(a, f) = AllocateProportionally(a, f)
  BY <1>2, <1>4, <1>5, <1>6 DEF Settlement!AllocateProportionally, AllocateProportionally
<1> QED BY <1>3, <1>7

(* The instance's components and total, and what they were refunded.       *)
Components == Settlement!Component
Cost == Settlement!Price
Refunded == [c \in Components |-> comp[c].refunded]

(* What holds of a component and its booking, whatever the other           *)
(* components do.                                                          *)
Sound(c, k, booking) ==
  /\ k \in Settlement!ComponentDoc(c)
  /\ k.part = "full" => k.refunded = Share[c]
  /\ k.part = "partial" => k.refunded < Share[c]
  /\ k.part = "none" => k.refunded = 0
  /\ k.paid \/ k.settlement \in {"payable", "paid", "disputed"} => k.status = "fulfilled"
  /\ k.status = "fulfilled" => booking = "completed"
  /\ k.settlement = "payable" => k.part # "full"
  /\ k.disputed + k.resolved <= Net[c]
  /\ k.paid /\ k.part = "full" => k.disputed + k.resolved = Net[c]

(* The order's refunds are its components', and its seats are back on sale *)
(* when nothing is left to refund.                                         *)
Balanced ==
  /\ order.refunded + order.pending <= Cost
  /\ order.refunded = SumOf(Refunded)
  /\ released # {} => order.refunded = Cost
  /\ order.refunded = Cost =>
       \A c \in Components :
         /\ comp[c].part = "full"
         /\ c \in released <=> comp[c].status # "fulfilled"

Types ==
  /\ order \in Settlement!OrderDoc
  /\ DOMAIN comp = Components
  /\ child \in [Components -> {"pending", "confirmed", "completed", "cancelled"}]
  /\ released \in SUBSET Components
  /\ declined \in BOOLEAN

SettlementInv ==
  /\ Types
  /\ Balanced
  /\ \A c \in Components : Sound(c, comp[c], child[c])

(* The assumption on the constants, in the words of part 1.                *)
LEMMA Shares ==
  /\ Len(Share) \in Nat /\ Components = 1..Len(Share) /\ IsFiniteSet(Components)
  /\ Share \in [Components -> Nat] /\ Net \in [Components -> Nat]
  /\ Cost = SumOf(Share) /\ Cost \in Nat \ {0} /\ Components # {}
  /\ Components = Component /\ Cost = Price
<1>1. /\ Share \in Seq(Nat) /\ Net \in [Components -> Nat] /\ Cost = SumOf(Share) /\ Cost > 0
      /\ Components = 1..Len(Share) /\ Components = Component /\ Cost = Price
  BY ShareAssumption, SameAllocation
     DEF ShareAssumption, Component, Price, Components, Settlement!Component, Cost, Settlement!Price
<1>2. Len(Share) \in Nat /\ Share \in [1..Len(Share) -> Nat]
  BY <1>1
<1>3. IsFiniteSet(1..Len(Share))
  BY <1>2, FS_Interval
<1>4. SumOf(Share) \in Nat
  BY <1>2, <1>3, SumFinite
<1>5. Components # {}
  <2> SUFFICES ASSUME Components = {} PROVE FALSE
    OBVIOUS
  <2>1. SumOf(Share) = 0
    BY <1>1, <1>2, <1>3, SumZero
  <2> QED BY <2>1, <1>1
<1> QED BY <1>1, <1>2, <1>3, <1>4, <1>5

(* A captured bundle without refunds satisfies the invariant.              *)
LEMMA SettlementInit ==
  ASSUME Settlement!Init
  PROVE  SettlementInv
<1>1. Types
  BY Shares DEF Settlement!Init, Types, Settlement!OrderDoc, Settlement!Paid, Components, Cost
<1>2. \A c \in Components : Sound(c, comp[c], child[c])
  BY Shares DEF Settlement!Init, Sound, Settlement!ComponentDoc, Components
<1>3. \A c \in Components : comp[c].refunded = 0
  BY DEF Settlement!Init, Components
<1>4. SumOf(Refunded) = 0
  <2>1. Refunded \in [Components -> Nat] /\ \A c \in Components : Refunded[c] = 0
    BY <1>3 DEF Refunded
  <2> QED BY ONLY <2>1, Shares, SumZero
<1>5. Balanced
  <2>1. order.refunded = 0 /\ order.pending = 0 /\ released = {}
    BY DEF Settlement!Init
  <2> QED BY <1>4, <2>1, Shares DEF Balanced
<1> QED BY <1>1, <1>2, <1>5 DEF SettlementInv

(* A step that refunds nothing keeps the balance, if it delivers no        *)
(* component of a wholly refunded order.                                   *)
LEMMA KeepsBalance ==
  ASSUME Balanced, DOMAIN comp = Components,
         \A c \in Components : comp'[c].refunded = comp[c].refunded /\ comp'[c].part = comp[c].part,
         order'.refunded = order.refunded, order'.refunded + order'.pending <= Cost,
         released' = released,
         order.refunded = Cost =>
           \A c \in Components : (comp'[c].status = "fulfilled") = (comp[c].status = "fulfilled")
  PROVE  Balanced'
<1>1. Refunded' = Refunded
  BY DEF Refunded, Components, Settlement!Component
<1>2. Components' = Components /\ Cost' = Cost
  BY DEF Components, Settlement!Component, Cost, Settlement!Price, Settlement!SumOf, Settlement!Minors
<1> QED BY <1>1, <1>2 DEF Balanced

(* One component's steps keep it sound.                                    *)
LEMMA SoundSteps ==
  ASSUME NEW c \in Components, Sound(c, comp[c], child[c])
  PROVE  /\ child[c] \in {"pending", "confirmed"} =>
              Sound(c, [comp[c] EXCEPT !.status = "confirmed", !.settlement = "on_hold"], "confirmed")
         /\ Sound(c, [comp[c] EXCEPT
                       !.status = IF @ \in {"confirmed", "reserved"} THEN "cancel_pending" ELSE @,
                       !.settlement = IF @ \in {"paid", "disputed"} THEN "disputed" ELSE "on_hold"],
                  child[c])
         /\ Sound(c, [comp[c] EXCEPT !.status = "fulfilled"], "completed")
         /\ comp[c].status = "fulfilled" /\ comp[c].part # "full" =>
              Sound(c, [comp[c] EXCEPT !.settlement = "payable"], child[c])
         /\ comp[c].settlement = "payable" =>
              Sound(c, [comp[c] EXCEPT !.settlement = "paid", !.paid = TRUE,
                                       !.disputed = 0, !.resolved = 0], child[c])
<1> DEFINE k == comp[c]
<1>1. /\ Share[c] \in Nat /\ Net[c] \in Nat
      /\ k \in Settlement!ComponentDoc(c)
  BY Shares DEF Sound
<1> USE <1>1 DEF Sound, Settlement!ComponentDoc
<1>2. child[c] \in {"pending", "confirmed"} =>
        Sound(c, [k EXCEPT !.status = "confirmed", !.settlement = "on_hold"], "confirmed")
  OBVIOUS
<1>3. Sound(c, [k EXCEPT
              !.status = IF @ \in {"confirmed", "reserved"} THEN "cancel_pending" ELSE @,
              !.settlement = IF @ \in {"paid", "disputed"} THEN "disputed" ELSE "on_hold"], child[c])
  OBVIOUS
<1>4. Sound(c, [k EXCEPT !.status = "fulfilled"], "completed")
  OBVIOUS
<1>5. k.status = "fulfilled" /\ k.part # "full" => Sound(c, [k EXCEPT !.settlement = "payable"], child[c])
  OBVIOUS
<1>6. k.settlement = "payable" =>
        Sound(c, [k EXCEPT !.settlement = "paid", !.paid = TRUE, !.disputed = 0, !.resolved = 0], child[c])
  <2> DEFINE m == [k EXCEPT !.settlement = "paid", !.paid = TRUE, !.disputed = 0, !.resolved = 0]
  <2>1. m.status = k.status /\ m.refunded = k.refunded /\ m.part = k.part
    OBVIOUS
  <2>2. m.disputed = 0 /\ m.resolved = 0
    OBVIOUS
  <2>3. [k EXCEPT !.settlement = "paid", !.paid = TRUE] \in Settlement!ComponentDoc(c)
    OBVIOUS
  <2>4. \A r \in Settlement!ComponentDoc(c) :
          [r EXCEPT !.disputed = 0, !.resolved = 0] \in Settlement!ComponentDoc(c)
    <3>1. 0 \in 0..Net[c]
      OBVIOUS
    <3> QED BY ONLY <3>1 DEF Settlement!ComponentDoc
  <2>5. m \in Settlement!ComponentDoc(c)
    BY <2>3, <2>4
  <2> HIDE DEF m
  <2>6. k.settlement = "payable" => Sound(c, m, child[c])
    BY <2>1, <2>2, <2>5
  <2> QED BY <2>6 DEF m
<1> QED BY <1>2, <1>3, <1>4, <1>5, <1>6

(* What a refund takes back of a payout is never more than the payout, and *)
(* all of it when the component is wholly refunded.                        *)
LEMMA TargetBound ==
  ASSUME NEW c \in Components, NEW k \in Settlement!ComponentDoc(c)
  PROVE  /\ Settlement!Target(k, c) \in 0..Net[c]
         /\ k.paid /\ k.part = "full" => Settlement!Target(k, c) = Net[c]
<1> DEFINE q == (Net[c] * k.refunded) \div Share[c]
<1>1. Share[c] \in Nat /\ Net[c] \in Nat /\ k.refunded \in 0..Share[c]
  BY Shares DEF Settlement!ComponentDoc
<1>2. ASSUME Share[c] # 0
      PROVE  q \in 0..Net[c]
  <2>1. Net[c] * k.refunded \in Nat /\ Share[c] \in Nat \ {0}
    BY <1>1, <1>2
  <2>2. q \in Nat /\ Share[c] * q <= Net[c] * k.refunded
    BY <2>1, Floor
  <2>3. Net[c] * k.refunded <= Net[c] * Share[c]
    <3>1. CASE Net[c] = 0
      BY <1>1, <3>1
    <3>2. CASE Net[c] # 0
      <4>1. Net[c] \in Nat \ {0} /\ k.refunded \in Int /\ Share[c] \in Int /\ k.refunded <= Share[c]
        BY <1>1, <3>2
      <4> QED BY ONLY <4>1, Product
    <3> QED BY <3>1, <3>2
  <2>4. Net[c] * Share[c] = Share[c] * Net[c] /\ Share[c] * Net[c] \in Int /\ Share[c] * q \in Int
    BY <1>1, <2>2
  <2> HIDE DEF q
  <2>5. Share[c] * q <= Share[c] * Net[c]
    BY <2>1, <2>2, <2>3, <2>4
  <2>6. q \in Int /\ Net[c] \in Int
    BY <1>1, <2>2
  <2>7. q <= Net[c]
    BY ONLY <2>1, <2>5, <2>6, Product
  <2> QED BY <1>1, <2>2, <2>7
<1> HIDE DEF q
<1> QED BY <1>1, <1>2 DEF Settlement!Target, q

(* A resolved dispute leaves a sound component.                            *)
LEMMA ResolvedSound ==
  ASSUME NEW c \in Components, Sound(c, comp[c], child[c]),
         comp[c].settlement = "disputed"
  PROVE  Sound(c, [comp[c] EXCEPT
                    !.resolved = @ + Settlement!Outstanding(c), !.disputed = 0,
                    !.settlement = IF comp[c].part = "full" THEN "not_eligible" ELSE "paid"],
               child[c])
<1> DEFINE k == comp[c]
           out == Settlement!Outstanding(c)
           m == [k EXCEPT !.resolved = @ + out, !.disputed = 0,
                          !.settlement = IF k.part = "full" THEN "not_eligible" ELSE "paid"]
<1>1. /\ Net[c] \in Nat /\ Share[c] \in Nat /\ k \in Settlement!ComponentDoc(c)
      /\ k.resolved \in 0..Net[c] /\ k.disputed \in 0..Net[c]
      /\ k.disputed + k.resolved <= Net[c]
      /\ k.paid /\ k.part = "full" => k.disputed + k.resolved = Net[c]
  BY Shares DEF Sound, Settlement!ComponentDoc
<1>2. Settlement!Target(k, c) \in 0..Net[c]
  BY <1>1, TargetBound
<1>3. /\ out \in 0..Net[c] /\ k.resolved + out <= Net[c]
      /\ k.paid /\ k.part = "full" => k.resolved + out = Net[c]
  BY <1>1, <1>2 DEF Settlement!Outstanding, Settlement!Exposure
<1> HIDE DEF out
<1>4. /\ m.status = k.status /\ m.refunded = k.refunded /\ m.part = k.part
      /\ m.disputed = 0 /\ m.resolved = k.resolved + out
      /\ m.settlement = IF k.part = "full" THEN "not_eligible" ELSE "paid"
  BY <1>1 DEF Settlement!ComponentDoc
<1>5. m.paid = k.paid
  BY <1>1 DEF Settlement!ComponentDoc
<1>6. m \in Settlement!ComponentDoc(c)
  <2>1. 0 \in 0..Net[c] /\ k.resolved + out \in 0..Net[c]
    BY <1>1, <1>3
  <2> QED BY ONLY <1>1, <2>1 DEF Settlement!ComponentDoc
<1>7. k.status = "fulfilled" /\ child[c] = "completed"
  BY DEF Sound
<1>8. /\ k.part = "full" => k.refunded = Share[c]
      /\ k.part = "partial" => k.refunded < Share[c]
      /\ k.part = "none" => k.refunded = 0
  BY DEF Sound
<1> HIDE DEF m, k
<1>9. m.paid /\ m.part = "full" => m.disputed + m.resolved = Net[c]
  <2>1. ASSUME m.paid, m.part = "full"
        PROVE  k.resolved + out = Net[c]
    BY <2>1, <1>3, <1>4, <1>5
  <2> QED BY <2>1, <1>1, <1>3, <1>4
<1>10. Sound(c, m, child[c])
  BY <1>1, <1>3, <1>4, <1>6, <1>7, <1>8, <1>9 DEF Sound
<1> QED BY <1>10 DEF m, k, out

(* What a refund hands to the components: nothing but the amount, and to   *)
(* none more than its price has left.                                      *)
LEMMA Portions ==
  ASSUME SettlementInv,
         NEW amount \in 1..Cost, amount <= order.pending
  PROVE  LET portion == [c \in Components |-> Settlement!Portion(amount, c)] IN
         /\ portion \in [Components -> Nat]
         /\ SumOf(portion) = amount
         /\ \A c \in Components : comp[c].refunded + portion[c] <= Share[c]
<1> DEFINE portion == [c \in Components |-> Settlement!Portion(amount, c)]
           left == Settlement!Left
           n == Len(Share)
<1>1. \A c \in Components : comp[c].refunded \in 0..Share[c] /\ Share[c] \in Nat
  BY Shares DEF SettlementInv, Sound, Settlement!ComponentDoc
<1>2. left = [c \in Components |-> Share[c] - comp[c].refunded]
  BY DEF Settlement!Left, Components
<1>3. left \in [Components -> Nat] /\ Refunded \in [Components -> Nat]
  BY <1>1, <1>2 DEF Refunded
<1>4. \A c \in Components : Share[c] = left[c] + Refunded[c]
  BY <1>1, <1>2 DEF Refunded
<1>5. SumOf(Share) = SumOf(left) + SumOf(Refunded)
  <2>1. \A f, g, h \in [Components -> Nat] :
          (\A c \in Components : h[c] = f[c] + g[c]) => SumOf(h) = SumOf(f) + SumOf(g)
    BY Shares, SumAdd
  <2> HIDE DEF left
  <2> QED BY ONLY Shares, <2>1, <1>3, <1>4
<1>6. SumOf(left) \in Nat /\ SumOf(Refunded) \in Nat
  <2> HIDE DEF left
  <2> QED BY <1>3, Shares, SumFinite
<1>7. amount <= SumOf(left) /\ SumOf(left) > 0 /\ amount \in Nat
  <2>1. order.pending \in Nat /\ order.refunded \in Nat
    BY Shares DEF SettlementInv, Types, Settlement!OrderDoc, Cost
  <2>2. order.refunded + order.pending <= Cost /\ order.refunded = SumOf(Refunded)
    BY DEF SettlementInv, Balanced
  <2> HIDE DEF left
  <2> QED BY <1>5, <1>6, <2>1, <2>2, Shares
<1>8. portion = AllocateProportionally(amount, left)
  <2>1. \A c \in Components : portion[c] = AllocateProportionally(amount, left)[c]
    BY SameAllocation DEF Settlement!Portion
  <2>2. AllocateProportionally(amount, left) \in [Components -> Nat]
    <3> HIDE DEF left
    <3> QED BY <1>3, <1>7, Shares, Proportional
  <2>3. portion \in [Components -> Nat]
    BY <2>1, <2>2
  <2> HIDE DEF portion, left
  <2> QED BY <2>1, <2>2, <2>3
<1>9. /\ AllocateProportionally(amount, left) \in [Components -> Nat]
      /\ SumOf(AllocateProportionally(amount, left)) = amount
      /\ \A c \in Components : AllocateProportionally(amount, left)[c] <= left[c]
  <2> HIDE DEF left
  <2>1. Len(Share) \in Nat /\ Components = 1..Len(Share) /\ left \in [1..Len(Share) -> Nat]
    BY <1>3, Shares
  <2> QED BY ONLY <2>1, <1>7, Proportional
<1>10. \A c \in Components : comp[c].refunded + portion[c] <= Share[c]
  <2> TAKE c \in Components
  <2>1. portion[c] \in Nat /\ portion[c] <= left[c] /\ left[c] = Share[c] - comp[c].refunded
    BY <1>2, <1>8, <1>9
  <2> HIDE DEF portion, left
  <2> QED BY <2>1, <1>1
<1> HIDE DEF portion
<1> QED BY <1>8, <1>9, <1>10 DEF portion

(* A refund's accounting leaves a sound component, whether its booking is  *)
(* cancelled because nothing of the order is left or not.                  *)
LEMMA RefundedSound ==
  ASSUME NEW c \in Components, Sound(c, comp[c], child[c]),
         NEW amount \in 1..Cost, Settlement!Portion(amount, c) \in Nat,
         comp[c].refunded + Settlement!Portion(amount, c) <= Share[c],
         NEW booking, comp[c].status = "fulfilled" => booking = child[c]
  PROVE  LET m == Settlement!RefundedComponent(amount, c) IN
         /\ Sound(c, m, booking)
         /\ m.status = comp[c].status
         /\ m.refunded = comp[c].refunded + Settlement!Portion(amount, c)
         /\ m.refunded = Share[c] => m.part = "full"
<1> DEFINE k0 == comp[c]
           r == k0.refunded + Settlement!Portion(amount, c)
           p == IF r >= Share[c] THEN "full" ELSE "partial"
           k == [k0 EXCEPT !.refunded = r, !.part = p]
           m == Settlement!RefundedComponent(amount, c)
<1>1. /\ Net[c] \in Nat /\ Share[c] \in Nat /\ k0 \in Settlement!ComponentDoc(c)
      /\ k0.refunded \in 0..Share[c]
      /\ k0.resolved \in 0..Net[c] /\ k0.disputed \in 0..Net[c]
      /\ k0.disputed + k0.resolved <= Net[c]
  BY Shares DEF Sound, Settlement!ComponentDoc
<1>2. r \in 0..Share[c] /\ p \in {"full", "partial"}
  BY <1>1
<1>3. (p = "full" => r = Share[c]) /\ (p = "partial" => r < Share[c]) /\ (r = Share[c] => p = "full")
  BY <1>1, <1>2
<1> HIDE DEF r, p
<1>4. k \in Settlement!ComponentDoc(c)
  <2>1. p \in {"none", "partial", "full"}
    BY <1>2
  <2> QED BY ONLY <1>1, <1>2, <2>1 DEF Settlement!ComponentDoc
<1>5. /\ k.status = k0.status /\ k.refunded = r /\ k.part = p /\ k.settlement = k0.settlement
      /\ k.disputed = k0.disputed /\ k.resolved = k0.resolved
  BY <1>1 DEF Settlement!ComponentDoc
<1>6. k.paid = k0.paid
  BY <1>1 DEF Settlement!ComponentDoc
<1>7. /\ k.paid => k.status = "fulfilled"
      /\ k.settlement \in {"payable", "paid", "disputed"} => k.status = "fulfilled"
      /\ k.status = "fulfilled" => booking = "completed"
  <2>1. k0.paid => k0.status = "fulfilled"
    BY DEF Sound
  <2>2. /\ k0.settlement \in {"payable", "paid", "disputed"} => k0.status = "fulfilled"
        /\ k0.status = "fulfilled" => booking = "completed"
    BY DEF Sound
  <2> HIDE DEF k, k0
  <2> QED BY <1>5, <1>6, <2>1, <2>2
<1> DEFINE e == Settlement!Exposure(k, c)
<1>8. /\ e \in 0..Net[c] /\ e + k.resolved <= Net[c]
      /\ k.paid /\ p = "full" => e + k.resolved = Net[c]
  <2> HIDE DEF k
  <2>1. Settlement!Target(k, c) \in 0..Net[c] /\ (k.paid /\ k.part = "full" => Settlement!Target(k, c) = Net[c])
    BY <1>4, TargetBound
  <2>2. k.resolved \in 0..Net[c]
    BY <1>1, <1>5
  <2> QED BY <1>1, <1>5, <2>1, <2>2 DEF Settlement!Exposure
<1>9. CASE k.paid /\ Net[c] > 0
  <2> DEFINE s == IF e > 0 THEN "disputed" ELSE IF k.part = "full" THEN "not_eligible" ELSE "paid"
  <2>1. m = [k EXCEPT !.disputed = e, !.settlement = s]
    BY <1>9 DEF Settlement!RefundedComponent, r, p
  <2> HIDE DEF e, m, k
  <2>2. s \in {"disputed", "not_eligible", "paid"}
    OBVIOUS
  <2> HIDE DEF s
  <2>3. /\ m.status = k.status /\ m.refunded = k.refunded /\ m.part = k.part
        /\ m.resolved = k.resolved /\ m.disputed = e /\ m.settlement = s
    BY <1>4, <2>1 DEF Settlement!ComponentDoc
  <2>4. m.paid = k.paid
    BY <1>4, <2>1 DEF Settlement!ComponentDoc
  <2>5. m \in Settlement!ComponentDoc(c)
    <3>1. s \in {"on_hold", "payable", "paid", "disputed", "not_eligible"}
      BY <2>2
    <3> QED BY ONLY <1>4, <1>8, <2>1, <3>1 DEF Settlement!ComponentDoc
  <2>6. m.status = "fulfilled" /\ (m.status = "fulfilled" => booking = "completed") /\ m.settlement # "payable"
    BY <1>7, <1>9, <2>2, <2>3
  <2>7. m.paid /\ m.part = "full" => m.disputed + m.resolved = Net[c]
    <3>1. p = "full" => e + k.resolved = Net[c]
      BY <1>8, <1>9
    <3> QED BY <3>1, <2>3, <1>5
  <2>8. /\ m.part = "full" => m.refunded = Share[c]
        /\ m.part = "partial" => m.refunded < Share[c]
        /\ m.part # "none" /\ m.disputed + m.resolved <= Net[c]
    BY <1>2, <1>3, <1>5, <1>8, <2>3
  <2>9. Sound(c, m, booking)
    BY <2>5, <2>6, <2>7, <2>8 DEF Sound
  <2> QED BY <1>3, <1>5, <2>3, <2>9 DEF m, r
<1>10. CASE ~ (k.paid /\ Net[c] > 0)
  <2> DEFINE s == IF k.part = "full" THEN "not_eligible" ELSE k.settlement
  <2>1. m = [k EXCEPT !.settlement = s]
    BY <1>10 DEF Settlement!RefundedComponent, r, p
  <2> HIDE DEF e, m, k
  <2>2. /\ s \in {"on_hold", "payable", "paid", "disputed", "not_eligible"}
        /\ s \in {"payable", "paid", "disputed"} => k.settlement = s
        /\ s = "payable" => k.part # "full"
    BY <1>4 DEF Settlement!ComponentDoc
  <2> HIDE DEF s
  <2>3. /\ m.status = k.status /\ m.refunded = k.refunded /\ m.part = k.part
        /\ m.resolved = k.resolved /\ m.disputed = k.disputed /\ m.settlement = s
    BY <1>4, <2>1 DEF Settlement!ComponentDoc
  <2>4. m.paid = k.paid
    BY <1>4, <2>1 DEF Settlement!ComponentDoc
  <2>5. m \in Settlement!ComponentDoc(c)
    BY ONLY <1>4, <2>1, <2>2 DEF Settlement!ComponentDoc
  <2>6. /\ m.settlement \in {"payable", "paid", "disputed"} => m.status = "fulfilled"
        /\ m.status = "fulfilled" => booking = "completed"
        /\ m.settlement = "payable" => m.part # "full"
    BY <1>7, <2>2, <2>3
  <2>7. m.paid => m.status = "fulfilled"
    BY <1>7, <2>3, <2>4
  <2>8. m.paid => m.disputed + m.resolved = Net[c]
    <3>1. k.paid => Net[c] = 0
      BY <1>1, <1>10
    <3>2. Net[c] = 0 => m.disputed + m.resolved = Net[c]
      BY <1>1, <1>5, <2>3
    <3> QED BY <3>1, <3>2, <2>4
  <2>9. /\ m.part = "full" => m.refunded = Share[c]
        /\ m.part = "partial" => m.refunded < Share[c]
        /\ m.part # "none" /\ m.disputed + m.resolved <= Net[c]
    BY <1>1, <1>2, <1>3, <1>5, <2>3
  <2>10. Sound(c, m, booking)
    BY <2>5, <2>6, <2>7, <2>8, <2>9 DEF Sound
  <2> QED BY <1>3, <1>5, <2>3, <2>10 DEF m, r
<1> QED BY <1>9, <1>10

(* A step that leaves the components alone, their bookings and their       *)
(* seats, keeps the invariant if it keeps the order's totals in order.     *)
LEMMA OrderOnly ==
  ASSUME SettlementInv, UNCHANGED <<comp, child, released>>,
         order' \in Settlement!OrderDoc, declined' \in BOOLEAN,
         order'.refunded = order.refunded, order'.refunded + order'.pending <= Cost
  PROVE  SettlementInv'
<1>1. Types'
  BY DEF SettlementInv, Types, Settlement!OrderDoc, Components, Settlement!Component, Settlement!Price
<1>2. Balanced'
  BY KeepsBalance DEF SettlementInv, Types
<1>3. \A c \in Components : Sound(c, comp[c], child[c])'
  BY DEF SettlementInv
<1> QED BY <1>1, <1>2, <1>3 DEF SettlementInv, Components, Settlement!Component

(* A step about one component of an order keeps the others as they are.    *)
LEMMA OneComponent ==
  ASSUME SettlementInv, NEW d \in Components, NEW k, NEW booking,
         comp' = [comp EXCEPT ![d] = k], child' = [child EXCEPT ![d] = booking],
         Sound(d, k, booking), UNCHANGED <<released, declined>>,
         k.refunded = comp[d].refunded, k.part = comp[d].part,
         k.status = comp[d].status \/ comp[d].part # "full",
         booking \in {"pending", "confirmed", "completed", "cancelled"},
         order' \in Settlement!OrderDoc,
         order'.refunded = order.refunded, order'.pending = order.pending
  PROVE  SettlementInv'
<1>1. /\ \A c \in Components : comp'[c] = IF c = d THEN k ELSE comp[c]
      /\ \A c \in Components : child'[c] = IF c = d THEN booking ELSE child[c]
      /\ DOMAIN comp' = Components
  BY DEF SettlementInv, Types
<1>2. Types'
  BY <1>1 DEF SettlementInv, Types, Settlement!OrderDoc, Components, Settlement!Component, Settlement!Price
<1>3. \A c \in Components : Sound(c, comp'[c], child'[c])
  BY <1>1 DEF SettlementInv
<1>4. Balanced'
  <2>1. Balanced /\ DOMAIN comp = Components
    BY DEF SettlementInv, Types
  <2>2. \A c \in Components : comp'[c].refunded = comp[c].refunded /\ comp'[c].part = comp[c].part
    BY <1>1
  <2>3. order.refunded = Cost =>
          \A c \in Components : (comp'[c].status = "fulfilled") = (comp[c].status = "fulfilled")
    BY <1>1, <2>1 DEF Balanced
  <2>4. order'.refunded + order'.pending <= Cost
    BY <2>1 DEF Balanced
  <2> QED BY <2>1, <2>2, <2>3, <2>4, KeepsBalance
<1> QED BY <1>2, <1>3, <1>4 DEF SettlementInv, Components, Settlement!Component

(* allocatePaidBundle finds no component delivered, so nothing that was    *)
(* wholly refunded.                                                        *)
LEMMA AllocateStep ==
  ASSUME SettlementInv, Settlement!Allocate
  PROVE  SettlementInv'
<1>1. /\ \A c \in Components : c \notin released /\ child[c] \in {"pending", "confirmed"}
      /\ child' = [c \in Components |-> "confirmed"]
      /\ comp' = [c \in Components |-> [comp[c] EXCEPT !.status = "confirmed", !.settlement = "on_hold"]]
      /\ order' = [order EXCEPT !.status = "confirmed", !.recovery = "none"]
      /\ UNCHANGED <<released, declined>>
  BY DEF Settlement!Allocate, Settlement!Allocatable, Components
<1>2. \A c \in Components : Sound(c, comp'[c], child'[c])
  <2> TAKE c \in Components
  <2>1. Sound(c, [comp[c] EXCEPT !.status = "confirmed", !.settlement = "on_hold"], "confirmed")
    BY <1>1, SoundSteps DEF SettlementInv
  <2> QED BY <1>1, <2>1
<1>3. Types'
  BY <1>1 DEF SettlementInv, Types, Settlement!OrderDoc, Components, Settlement!Component, Settlement!Price
<1>4. Balanced'
  <2>1. Balanced /\ DOMAIN comp = Components
    BY DEF SettlementInv, Types
  <2>2. \A c \in Components : comp[c].status # "fulfilled"
    BY <1>1 DEF SettlementInv, Sound
  <2>3. order.refunded # Cost
    BY <1>1, <2>1, <2>2, Shares DEF Balanced
  <2>4. \A c \in Components : comp'[c].refunded = comp[c].refunded /\ comp'[c].part = comp[c].part
    BY <1>1 DEF SettlementInv, Sound, Settlement!ComponentDoc
  <2>5. order'.refunded = order.refunded /\ order'.pending = order.pending
    BY <1>1 DEF SettlementInv, Types, Settlement!OrderDoc
  <2>6. order'.refunded + order'.pending <= Cost
    BY <2>1, <2>5 DEF Balanced
  <2> QED BY <1>1, <2>1, <2>3, <2>4, <2>5, <2>6, KeepsBalance
<1> QED BY <1>2, <1>3, <1>4 DEF SettlementInv, Components, Settlement!Component

(* A cancellation takes no component back that was delivered.              *)
LEMMA CancellationStep ==
  ASSUME SettlementInv, Settlement!RequestPaidCancellation
  PROVE  SettlementInv'
<1>1. /\ comp' = [c \in Components |->
           [comp[c] EXCEPT !.status = IF @ \in {"confirmed", "reserved"} THEN "cancel_pending" ELSE @,
                           !.settlement = IF @ \in {"paid", "disputed"} THEN "disputed" ELSE "on_hold"]]
      /\ order' = [order EXCEPT !.status = "cancel_pending"]
      /\ UNCHANGED <<child, released, declined>>
  BY DEF Settlement!RequestPaidCancellation, Components
<1>2. \A c \in Components : Sound(c, comp'[c], child'[c])
  BY <1>1, SoundSteps DEF SettlementInv
<1>3. Types'
  BY <1>1 DEF SettlementInv, Types, Settlement!OrderDoc, Components, Settlement!Component, Settlement!Price
<1>4. Balanced'
  <2>1. Balanced /\ DOMAIN comp = Components
    BY DEF SettlementInv, Types
  <2>2. \A c \in Components : comp'[c].refunded = comp[c].refunded /\ comp'[c].part = comp[c].part
    BY <1>1 DEF SettlementInv, Sound, Settlement!ComponentDoc
  <2>3. \A c \in Components : (comp'[c].status = "fulfilled") = (comp[c].status = "fulfilled")
    BY <1>1 DEF SettlementInv, Sound, Settlement!ComponentDoc
  <2>4. order'.refunded = order.refunded /\ order'.pending = order.pending
    BY <1>1 DEF SettlementInv, Types, Settlement!OrderDoc
  <2>5. order'.refunded + order'.pending <= Cost
    BY <2>1, <2>4 DEF Balanced
  <2> QED BY <1>1, <2>1, <2>2, <2>3, <2>4, <2>5, KeepsBalance
<1> QED BY <1>2, <1>3, <1>4 DEF SettlementInv, Components, Settlement!Component

(* A refund's transaction: the components' refunds grow by the order's,    *)
(* and the last of them frees the seats of all that were not delivered.    *)
LEMMA RefundStep ==
  ASSUME SettlementInv,
         NEW amount \in 1..Cost, Settlement!Refund(amount)
  PROVE  SettlementInv'
<1> DEFINE portion == [c \in Components |-> Settlement!Portion(amount, c)]
           full == order.refunded + amount = Cost
           gone == IF full THEN Settlement!Releasable \ released ELSE {}
<1>1. /\ amount <= order.pending
      /\ \A c \in Components : comp'[c] = Settlement!RefundedComponent(amount, c)
      /\ DOMAIN comp' = Components
      /\ \A c \in Components : child'[c] = IF c \in gone THEN "cancelled" ELSE child[c]
      /\ child' = [c \in Components |-> IF c \in gone THEN "cancelled" ELSE child[c]]
      /\ released' = released \cup gone /\ declined' = declined
      /\ order'.refunded = order.refunded + amount
      /\ order'.pending = order.pending - amount
  BY DEF Settlement!Refund, Components, Cost
<1>2. \A c \in Settlement!Releasable : c \in Components /\ comp[c].status # "fulfilled"
  BY DEF Settlement!Releasable, Components
<1>3. \A c \in Components : comp[c].status # "fulfilled" => c \in Settlement!Releasable
  BY DEF Settlement!Releasable, Components, SettlementInv, Sound, Settlement!ComponentDoc
<1>4. /\ portion \in [Components -> Nat] /\ SumOf(portion) = amount
      /\ \A c \in Components : comp[c].refunded + portion[c] <= Share[c]
  BY <1>1, Portions
<1>5. ASSUME NEW c \in Components
      PROVE  /\ Sound(c, comp'[c], child'[c])
             /\ comp'[c].status = comp[c].status
             /\ comp'[c].refunded = comp[c].refunded + portion[c]
             /\ comp'[c].refunded = Share[c] => comp'[c].part = "full"
  <2>1. Settlement!Portion(amount, c) \in Nat /\ comp[c].refunded + Settlement!Portion(amount, c) <= Share[c]
    BY <1>4
  <2>2. comp[c].status = "fulfilled" => child'[c] = child[c]
    BY <1>1, <1>2
  <2>3. Sound(c, comp[c], child[c])
    BY DEF SettlementInv
  <2> DEFINE m == Settlement!RefundedComponent(amount, c)
  <2>5. /\ Sound(c, m, child'[c]) /\ m.status = comp[c].status
        /\ m.refunded = comp[c].refunded + Settlement!Portion(amount, c)
        /\ m.refunded = Share[c] => m.part = "full"
    BY ONLY amount \in 1..Cost, c \in Components,
            <2>1, <2>2, <2>3, RefundedSound
  <2>6. comp'[c] = m
    BY <1>1
  <2> HIDE DEF m, gone
  <2> QED BY <2>5, <2>6
<1>6. /\ order.refunded \in Nat /\ order.pending \in Nat /\ amount \in Nat
      /\ order.refunded + order.pending <= Cost
  BY Shares DEF SettlementInv, Types, Balanced, Settlement!OrderDoc, Cost
<1>7. order' \in Settlement!OrderDoc
  <2>1. /\ order' = [status |-> order'.status, pay |-> order'.pay, refunded |-> order.refunded + amount,
                    pending |-> order.pending - amount, recovery |-> order'.recovery]
        /\ order'.status \in {"refunded", "cancel_pending", "partially_refunded"}
        /\ order'.pay \in {"refunded", "partially_refunded"}
        /\ order'.recovery \in {"other", "none"}
    BY DEF Settlement!Refund
  <2>2. order.refunded + amount \in 0..Cost /\ order.pending - amount \in 0..Cost
    <3>1. Cost \in Nat
      BY Shares
    <3> QED BY <3>1, <1>1, <1>6
  <2> QED BY <2>1, <2>2 DEF Settlement!OrderDoc, Settlement!Paid, Cost
<1>8. Types'
  <2>1. child' \in [Components -> {"pending", "confirmed", "completed", "cancelled"}]
    BY <1>1 DEF SettlementInv, Types
  <2>2. released' \in SUBSET Components
    BY <1>1, <1>2 DEF SettlementInv, Types
  <2>3. declined' \in BOOLEAN
    BY <1>1 DEF SettlementInv, Types
  <2> QED BY <1>1, <1>7, <2>1, <2>2, <2>3
      DEF Types, Components, Settlement!Component, Settlement!OrderDoc, Settlement!Price
<1>9. /\ Refunded \in [Components -> Nat] /\ Refunded' \in [Components -> Nat]
      /\ \A c \in Components : Refunded'[c] = Refunded[c] + portion[c]
      /\ \A c \in Components : Refunded'[c] = comp'[c].refunded /\ Refunded'[c] <= Share[c]
  <2>1. \A c \in Components : comp[c].refunded \in Nat
    BY Shares DEF SettlementInv, Sound, Settlement!ComponentDoc
  <2>2. Refunded' = [c \in Components |-> comp'[c].refunded]
    BY DEF Refunded, Components, Settlement!Component
  <2> HIDE DEF portion
  <2> QED BY <2>1, <2>2, <1>4, <1>5 DEF Refunded
<1>10. order'.refunded = SumOf(Refunded')
  <2>1. \A f, g, h \in [Components -> Nat] :
          (\A c \in Components : h[c] = f[c] + g[c]) => SumOf(h) = SumOf(f) + SumOf(g)
    BY Shares, SumAdd
  <2>2. SumOf(Refunded') = SumOf(Refunded) + SumOf(portion)
    <3> HIDE DEF portion
    <3> QED BY ONLY <2>1, <1>4, <1>9
  <2>3. order.refunded = SumOf(Refunded)
    BY DEF SettlementInv, Balanced
  <2> QED BY <1>1, <1>4, <2>2, <2>3
<1>11. released = {}
  BY <1>1, <1>6 DEF SettlementInv, Balanced
<1>12. ASSUME full, NEW c \in Components
       PROVE  comp'[c].part = "full" /\ (c \in released' <=> comp'[c].status # "fulfilled")
  <2>1. SumOf(Refunded') = SumOf(Share)
    BY <1>1, <1>10, <1>12, Shares
  <2>2. Refunded' = Share
    <3>1. \A f, g \in [Components -> Nat] :
            (\A i \in Components : f[i] <= g[i]) /\ SumOf(f) = SumOf(g) => f = g
      <4> TAKE f, g \in [Components -> Nat]
      <4>1. IsFiniteSet(Components)
        BY Shares
      <4> QED BY <4>1, SumMono
    <3> QED BY ONLY <3>1, <2>1, <1>9, Shares
  <2>3. comp'[c].part = "full"
    BY <2>2, <1>5, <1>9
  <2>4. c \in released' <=> c \in Settlement!Releasable
    BY <1>1, <1>11, <1>12
  <2> QED BY <2>3, <2>4, <1>2, <1>3, <1>5
<1>13. Balanced'
  <2>1. order'.refunded + order'.pending <= Cost
    BY <1>1, <1>6
  <2>2. order'.refunded = Cost <=> full
    BY <1>1
  <2>3. released' # {} => full
    BY <1>1, <1>11
  <2>4. Components' = Components /\ Cost' = Cost
    BY DEF Components, Settlement!Component, Cost, Settlement!Price, Settlement!SumOf, Settlement!Minors
  <2> HIDE DEF full
  <2> QED BY <1>10, <1>12, <2>1, <2>2, <2>3, <2>4 DEF Balanced
<1> QED BY <1>5, <1>8, <1>13 DEF SettlementInv, Components, Settlement!Component

(* Fulfilment, payouts and disputes concern one component each.            *)
LEMMA SupplyStep ==
  ASSUME SettlementInv, NEW c \in Components, Settlement!Supply(c)
  PROVE  SettlementInv'
<1>1. /\ Sound(c, comp[c], child[c]) /\ DOMAIN comp = Components
      /\ comp[c] \in Settlement!ComponentDoc(c)
      /\ order \in Settlement!OrderDoc
      /\ child \in [Components -> {"pending", "confirmed", "completed", "cancelled"}]
  BY DEF SettlementInv, Types, Sound
<1>2. child = [child EXCEPT ![c] = child[c]]
  BY <1>1
<1>3. CASE Settlement!FulfilBundleComponent(c)
  <2> DEFINE k == [comp[c] EXCEPT !.status = "fulfilled"]
  <2>1. /\ comp[c].part # "full"
        /\ comp' = [comp EXCEPT ![c] = k] /\ child' = [child EXCEPT ![c] = "completed"]
        /\ UNCHANGED <<released, declined>>
    BY <1>1, <1>3 DEF Settlement!FulfilBundleComponent
  <2>2. order' \in Settlement!OrderDoc /\ order'.refunded = order.refunded /\ order'.pending = order.pending
    BY <1>1, <1>3 DEF Settlement!FulfilBundleComponent, Settlement!OrderDoc
  <2>3. k.refunded = comp[c].refunded /\ k.part = comp[c].part
    BY <1>1 DEF Settlement!ComponentDoc
  <2>4. Sound(c, k, "completed")
    BY <1>1, SoundSteps
  <2> HIDE DEF k
  <2> QED BY <2>1, <2>2, <2>3, <2>4, OneComponent
<1>4. CASE Settlement!ReleaseBundleSettlement(c)
  <2> DEFINE k == [comp[c] EXCEPT !.settlement = "payable"]
  <2>1. /\ comp[c].part # "full" /\ comp[c].status = "fulfilled"
        /\ comp' = [comp EXCEPT ![c] = k] /\ child' = [child EXCEPT ![c] = child[c]]
        /\ UNCHANGED <<released, declined, order>>
    BY <1>1, <1>2, <1>4 DEF Settlement!ReleaseBundleSettlement
  <2>2. k.refunded = comp[c].refunded /\ k.part = comp[c].part
    BY <1>1 DEF Settlement!ComponentDoc
  <2>3. Sound(c, k, child[c])
    BY <1>1, <2>1, SoundSteps
  <2>4. order' \in Settlement!OrderDoc
    BY <1>1, <2>1 DEF Settlement!OrderDoc, Settlement!Price
  <2>5. child[c] \in {"pending", "confirmed", "completed", "cancelled"}
    BY <1>1
  <2> HIDE DEF k
  <2> QED BY <2>1, <2>2, <2>3, <2>4, <2>5, OneComponent
<1>5. CASE Settlement!MarkBundleSettlementPaid(c)
  <2> DEFINE k == [comp[c] EXCEPT !.settlement = "paid", !.paid = TRUE, !.disputed = 0, !.resolved = 0]
  <2>1. /\ comp[c].settlement = "payable"
        /\ comp' = [comp EXCEPT ![c] = k] /\ child' = [child EXCEPT ![c] = child[c]]
        /\ UNCHANGED <<released, declined, order>>
    BY <1>1, <1>2, <1>5 DEF Settlement!MarkBundleSettlementPaid
  <2>2. k.refunded = comp[c].refunded /\ k.part = comp[c].part /\ k.status = comp[c].status
    BY <1>1 DEF Settlement!ComponentDoc
  <2>3. Sound(c, k, child[c])
    BY <1>1, <2>1, SoundSteps
  <2>4. order' \in Settlement!OrderDoc
    BY <1>1, <2>1 DEF Settlement!OrderDoc, Settlement!Price
  <2>5. child[c] \in {"pending", "confirmed", "completed", "cancelled"}
    BY <1>1
  <2> HIDE DEF k
  <2> QED BY <2>1, <2>2, <2>3, <2>4, <2>5, OneComponent
<1>6. CASE Settlement!ResolveBundleSettlementDispute(c)
  <2> DEFINE k == [comp[c] EXCEPT
                    !.resolved = @ + Settlement!Outstanding(c), !.disputed = 0,
                    !.settlement = IF comp[c].part = "full" THEN "not_eligible" ELSE "paid"]
  <2>1. /\ comp[c].settlement = "disputed"
        /\ comp' = [comp EXCEPT ![c] = k] /\ child' = [child EXCEPT ![c] = child[c]]
        /\ UNCHANGED <<released, declined>>
    BY <1>1, <1>2, <1>6 DEF Settlement!ResolveBundleSettlementDispute
  <2>2. k.refunded = comp[c].refunded /\ k.part = comp[c].part /\ k.status = comp[c].status
    BY <1>1 DEF Settlement!ComponentDoc
  <2>3. Sound(c, k, child[c])
    BY <1>1, <2>1, ResolvedSound
  <2>4. order' \in Settlement!OrderDoc /\ order'.refunded = order.refunded /\ order'.pending = order.pending
    BY <1>1, <1>6 DEF Settlement!ResolveBundleSettlementDispute, Settlement!OrderDoc
  <2>5. child[c] \in {"pending", "confirmed", "completed", "cancelled"}
    BY <1>1
  <2> HIDE DEF k
  <2> QED BY <2>1, <2>2, <2>3, <2>4, <2>5, OneComponent
<1> QED BY <1>3, <1>4, <1>5, <1>6 DEF Settlement!Supply

(* The invariant is inductive.                                             *)
LEMMA SettlementStep ==
  ASSUME SettlementInv, [Settlement!Next]_(Settlement!vars)
  PROVE  SettlementInv'
<1>1. /\ order \in Settlement!OrderDoc /\ declined \in BOOLEAN
      /\ order.refunded \in Nat /\ order.pending \in Nat /\ order.refunded + order.pending <= Cost
  BY Shares DEF SettlementInv, Types, Balanced, Settlement!OrderDoc, Cost
<1>2. Cost \in Nat
  BY Shares
<1> USE DEF Settlement!OrderDoc, Settlement!Paid
<1>3. CASE Settlement!Persist
  BY <1>1, <1>3, OrderOnly DEF Settlement!Persist
<1>4. CASE Settlement!Allocate
  BY <1>4, AllocateStep
<1>5. CASE Settlement!LateDecline
  BY <1>1, <1>5, OrderOnly DEF Settlement!LateDecline, Settlement!Decline
<1>6. CASE Settlement!Review
  BY <1>1, <1>6, OrderOnly DEF Settlement!Review
<1>7. CASE Settlement!RequestPaidCancellation
  BY <1>7, CancellationStep
<1>8. ASSUME NEW amount \in 1..Cost, Settlement!Reserve(amount)
      PROVE  SettlementInv'
  <2>1. order.pending + amount \in 0..Cost /\ order.refunded + (order.pending + amount) <= Cost
    BY <1>1, <1>2, <1>8 DEF Settlement!Reserve, Cost
  <2>2. /\ order' = [order EXCEPT !.pending = order.pending + amount]
        /\ UNCHANGED <<comp, child, released, declined>>
    BY <1>8 DEF Settlement!Reserve
  <2> QED BY <1>1, <2>1, <2>2, OrderOnly DEF Cost
<1>9. ASSUME NEW amount \in 1..Cost, Settlement!ReleaseReservation(amount)
      PROVE  SettlementInv'
  <2>1. order.pending - amount \in 0..Cost /\ order.refunded + (order.pending - amount) <= Cost
    BY <1>1, <1>2, <1>9 DEF Settlement!ReleaseReservation, Cost
  <2>2. /\ order' = [order EXCEPT !.pending = order.pending - amount]
        /\ UNCHANGED <<comp, child, released, declined>>
    BY <1>9 DEF Settlement!ReleaseReservation
  <2> QED BY <1>1, <2>1, <2>2, OrderOnly DEF Cost
<1>10. ASSUME NEW amount \in 1..Cost, Settlement!Refund(amount)
       PROVE  SettlementInv'
  BY <1>10, RefundStep
<1>11. CASE Settlement!ScheduleRefundRecovery
  BY <1>1, <1>11, OrderOnly DEF Settlement!ScheduleRefundRecovery
<1>12. CASE Settlement!ClearResolvedRefundRecovery
  BY <1>1, <1>12, OrderOnly DEF Settlement!ClearResolvedRefundRecovery
<1>13. ASSUME NEW c \in Components, Settlement!Supply(c)
       PROVE  SettlementInv'
  BY <1>13, SupplyStep
<1>14. CASE UNCHANGED Settlement!vars
  <2>1. order' = order /\ declined' = declined /\ UNCHANGED <<comp, child, released>>
    BY <1>14 DEF Settlement!vars
  <2> QED BY <1>1, <2>1, OrderOnly
<1> QED
  BY <1>3, <1>4, <1>5, <1>6, <1>7, <1>8, <1>9, <1>10, <1>11, <1>12, <1>13, <1>14
     DEF Settlement!Next, Cost, Components

(* The invariant holds of every behaviour of the components.               *)
LEMMA SettlementInvariant == Settlement!Spec => []SettlementInv
<1>1. Settlement!Init => SettlementInv
  BY SettlementInit
<1>2. SettlementInv /\ [Settlement!Next]_(Settlement!vars) => SettlementInv'
  BY SettlementStep
<1> QED BY <1>1, <1>2, PTL DEF Settlement!Spec

(* What the invariant says of the run's properties.                        *)
LEMMA SettlementImplies ==
  ASSUME SettlementInv
  PROVE  /\ Settlement!TypeOK
         /\ PortionsAddUp /\ FullRefundFreesSeats /\ PaidAfterService /\ PayoutIsTracked
<1>1. Components = Component /\ Cost = Price
  BY Shares
<1>2. Settlement!TypeOK
  BY DEF SettlementInv, Types, Sound, Settlement!TypeOK, Components, Settlement!OrderDoc, Settlement!Price
<1>3. PortionsAddUp
  <2>1. order.refunded = SumOf(Refunded)
    BY DEF SettlementInv, Balanced
  <2>2. \A c \in Components : comp[c].refunded <= Share[c]
    BY Shares DEF SettlementInv, Sound, Settlement!ComponentDoc
  <2> QED BY <1>1, <2>1, <2>2 DEF PortionsAddUp, Refunded
<1>4. FullRefundFreesSeats
  BY <1>1 DEF SettlementInv, Balanced, FullRefundFreesSeats
<1>5. PaidAfterService
  BY <1>1 DEF SettlementInv, Sound, PaidAfterService
<1>6. PayoutIsTracked
  BY <1>1 DEF SettlementInv, Sound, PayoutIsTracked
<1> QED BY <1>2, <1>3, <1>4, <1>5, <1>6

(* The order, its components and their bookings stay of their types; in    *)
(* particular no component is refunded more than its price, nor more of a  *)
(* payout in dispute or resolved than was paid.                            *)
THEOREM SettlementTypes == Settlement!Spec => []Settlement!TypeOK
<1>1. SettlementInv => Settlement!TypeOK
  BY SettlementImplies
<1> QED BY <1>1, SettlementInvariant, PTL

(* However a bundle is refunded, in parts of any size, its components'     *)
(* refunds add up to the order's to the minor unit, and none exceeds its   *)
(* component's price.                                                      *)
THEOREM SettlementPortions == Settlement!Spec => []PortionsAddUp
<1>1. SettlementInv => PortionsAddUp
  BY SettlementImplies
<1> QED BY <1>1, SettlementInvariant, PTL

(* Once a bundle is wholly refunded, exactly the seats of its components   *)
(* that were not delivered are back on sale, whether their bookings had    *)
(* been confirmed or not; and no seat goes back before.                    *)
THEOREM SettlementFreesSeats == Settlement!Spec => []FullRefundFreesSeats
<1>1. SettlementInv => FullRefundFreesSeats
  BY SettlementImplies
<1> QED BY <1>1, SettlementInvariant, PTL

(* A supplier is owed or paid for delivered service only, also when an     *)
(* order falls back from review to allocation.                             *)
THEOREM SettlementPaidAfterService == Settlement!Spec => []PaidAfterService
<1>1. SettlementInv => PaidAfterService
  BY SettlementImplies
<1> QED BY <1>1, SettlementInvariant, PTL

(* Of a payout for service that was wholly refunded later, every minor     *)
(* unit is in dispute or resolved, and none twice, through any series of   *)
(* refunds and resolutions.                                                *)
THEOREM SettlementPayouts == Settlement!Spec => []PayoutIsTracked
<1>1. SettlementInv => PayoutIsTracked
  BY SettlementImplies
<1> QED BY <1>1, SettlementInvariant, PTL

(* And the components' model changes the totals of its order by the same   *)
(* contract, each amount in one step.                                      *)
THEOREM SettlementFollowsContract == Settlement!Spec => Settled!Spec
<1>1. Settlement!Init => Settled!Init
  BY DEF Settlement!Init, Settled!Init
<1>2. ASSUME SettlementInv, [Settlement!Next]_(Settlement!vars)
      PROVE  [Settled!Next]_(Settled!vars)
  <2>1. order \in Settlement!OrderDoc /\ Settlement!Price = Price
    BY <1>2, Shares DEF SettlementInv, Types, Cost
  <2>2. ASSUME order'.refunded = order.refunded, order'.pending = order.pending
        PROVE  UNCHANGED Settled!vars
    BY <2>2 DEF Settled!vars
  <2>3. CASE \/ Settlement!Persist \/ Settlement!Allocate \/ Settlement!LateDecline
             \/ Settlement!Review \/ Settlement!RequestPaidCancellation
             \/ Settlement!ScheduleRefundRecovery \/ Settlement!ClearResolvedRefundRecovery
    BY <2>1, <2>2, <2>3
       DEF Settlement!OrderDoc, Settlement!Persist, Settlement!Allocate, Settlement!LateDecline,
           Settlement!Decline, Settlement!Review, Settlement!RequestPaidCancellation,
           Settlement!ScheduleRefundRecovery, Settlement!ClearResolvedRefundRecovery
  <2>4. CASE \E c \in Settlement!Component : Settlement!Supply(c)
    BY <2>1, <2>2, <2>4
       DEF Settlement!OrderDoc, Settlement!Supply, Settlement!FulfilBundleComponent,
           Settlement!ReleaseBundleSettlement, Settlement!MarkBundleSettlementPaid,
           Settlement!ResolveBundleSettlementDispute
  <2>5. ASSUME NEW amount \in 1..Price, Settlement!Reserve(amount)
        PROVE  Settled!SetAside(amount)
    BY <2>1, <2>5 DEF Settlement!OrderDoc, Settlement!Reserve, Settled!SetAside
  <2>6. ASSUME NEW amount \in 1..Price, Settlement!ReleaseReservation(amount)
        PROVE  Settled!SetFree(amount)
    BY <2>1, <2>6 DEF Settlement!OrderDoc, Settlement!ReleaseReservation, Settled!SetFree
  <2>7. ASSUME NEW amount \in 1..Price, Settlement!Refund(amount)
        PROVE  Settled!PayBack(amount)
    BY <2>7 DEF Settlement!Refund, Settled!PayBack
  <2>8. CASE UNCHANGED Settlement!vars
    BY <2>2, <2>8 DEF Settlement!vars
  <2> QED
    BY <1>2, <2>1, <2>3, <2>4, <2>5, <2>6, <2>7, <2>8 DEF Settlement!Next, Settled!Next
<1> QED
  BY <1>1, <1>2, SettlementInvariant, PTL DEF Settlement!Spec, Settled!Spec
=============================================================================
