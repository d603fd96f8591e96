------------------------------ MODULE RunLemmas ------------------------------
(***************************************************************************)
(* What is computed step by step, a loop over a list or a sum: the steps   *)
(* determine it, and what every step keeps holds of all of them.           *)
(***************************************************************************)
EXTENDS Sums, FiniteSetTheorems, WellFoundedInduction, TLAPS

LEMMA LeastElement ==
    ASSUME NEW T \in SUBSET Nat, T # {}
    PROVE  \E i \in T : \A j \in T : i <= j
  <1> DEFINE R == OpToRel(<, Nat)
  <1>1. IsWellFoundedOn(R, Nat)
    BY NatLessThanWellFounded
  <1>2. PICK i \in T : \A j \in T : ~(<<j, i>> \in R)
    <2> HIDE DEF R
    <2> QED BY <1>1, WFMin
  <1>3. ASSUME NEW j \in T PROVE i <= j
    <2>1. ~(<<j, i>> \in R)
      BY <1>2
    <2>2. <<j, i>> \in Nat \X Nat
      OBVIOUS
    <2>3. ~(j < i)
      BY <2>1, <2>2 DEF OpToRel
    <2> QED BY <2>3
  <1> QED BY <1>3

LEMMA Rises ==
    ASSUME NEW n \in Nat, NEW S, 0 \in S, \A i \in 1 .. n : i - 1 \in S => i \in S
    PROVE  \A i \in 0 .. n : i \in S
  <1> SUFFICES ASSUME NEW k \in 0 .. n, k \notin S
               PROVE  FALSE
    OBVIOUS
  <1> DEFINE Failing == (0 .. n) \ S
  <1>1. Failing \in SUBSET Nat /\ Failing # {}
    OBVIOUS
  <1>2. PICK i \in Failing : \A j \in Failing : i <= j
    <2> HIDE DEF Failing
    <2> QED BY <1>1, LeastElement
  <1>3. i \in 1 .. n
    BY <1>2
  <1>4. i - 1 \notin S
    BY <1>2, <1>3
  <1>5. i - 1 \in Failing
    BY <1>3, <1>4
  <1> QED BY <1>2, <1>3, <1>5

\* The i-th step G leads from the states that are good before it, as s is
\* before the first, to those that are good after it.
Leads(G, n, Good, T, s) ==
    /\ n \in Nat /\ Good \in [0 .. n -> SUBSET T] /\ s \in Good[0]
    /\ \A i \in 1 .. n : \A b \in Good[i - 1] : G[<<i, b>>] \in Good[i]

LEMMA RunExists ==
    ASSUME NEW G, NEW n, NEW Good, NEW T, NEW s, Leads(G, n, Good, T, s)
    PROVE  \E f \in [0 .. n -> T] :
              /\ f[0] = s
              /\ \A i \in 1 .. n : f[i - 1] \in Good[i - 1] /\ f[i] = G[<<i, f[i - 1]>>]
  <1> DEFINE Till(m, f) == /\ f \in [0 .. m -> T] /\ f[0] = s
                           /\ \A i \in 1 .. m : f[i] = G[<<i, f[i - 1]>>]
                           /\ \A i \in 0 .. m : f[i] \in Good[i]
             S == {m \in 0 .. n : \E f : Till(m, f)}
  <1>0. /\ n \in Nat /\ Good \in [0 .. n -> SUBSET T] /\ s \in Good[0]
        /\ \A i \in 1 .. n : \A b \in Good[i - 1] : G[<<i, b>>] \in Good[i]
    BY DEF Leads
  <1>1. 0 \in S
    <2>1. Till(0, [i \in 0 .. 0 |-> s])
      BY <1>0
    <2> HIDE DEF Till
    <2> QED BY <1>0, <2>1
  <1>2. ASSUME NEW m \in 1 .. n, m - 1 \in S
        PROVE  m \in S
    <2>1. PICK f : Till(m - 1, f)
      BY <1>2
    <2> DEFINE g == [i \in 0 .. m |-> IF i = m THEN G[<<m, f[m - 1]>>] ELSE f[i]]
    <2>2. f[m - 1] \in Good[m - 1]
      BY <2>1
    <2>3. G[<<m, f[m - 1]>>] \in Good[m]
      BY <1>0, <2>2
    <2>4. \A i \in 0 .. m : g[i] \in Good[i]
      BY <2>1, <2>3
    <2>5. g \in [0 .. m -> T]
      BY <1>0, <2>4
    <2>6. ASSUME NEW i \in 1 .. m
          PROVE  g[i] = G[<<i, g[i - 1]>>]
      <3>1. g[i - 1] = f[i - 1]
        OBVIOUS
      <3>2. CASE i = m
        <4>1. g[i] = G[<<m, f[m - 1]>>]
          BY <3>2
        <4> HIDE DEF g
        <4> QED BY <3>1, <3>2, <4>1
      <3>3. CASE i # m
        <4>1. g[i] = f[i] /\ i \in 1 .. m - 1
          BY <3>3
        <4>2. f[i] = G[<<i, f[i - 1]>>]
          BY <2>1, <4>1
        <4> HIDE DEF g
        <4> QED BY <3>1, <4>1, <4>2
      <3> QED BY <3>2, <3>3
    <2>7. Till(m, g)
      <3>1. g[0] = s
        BY <2>1
      <3> HIDE DEF g
      <3> QED BY <2>4, <2>5, <2>6, <3>1
    <2> HIDE DEF Till, g
    <2> QED BY <2>7
  <1>3. \A m \in 0 .. n : m \in S
    <2> HIDE DEF S
    <2> QED BY <1>0, <1>1, <1>2, Rises
  <1>4. PICK f : Till(n, f)
    BY <1>0, <1>3
  <1> QED BY <1>0, <1>4

LEMMA RunStays ==
    ASSUME NEW n \in Nat, NEW Good, NEW f, f[0] \in Good[0],
           \A i \in 1 .. n : f[i - 1] \in Good[i - 1] => f[i] \in Good[i]
    PROVE  \A i \in 0 .. n : f[i] \in Good[i]
  <1> DEFINE S == {i \in 0 .. n : f[i] \in Good[i]}
  <1>1. 0 \in S /\ \A i \in 1 .. n : i - 1 \in S => i \in S
    OBVIOUS
  <1>2. \A i \in 0 .. n : i \in S
    <2> HIDE DEF S
    <2> QED BY <1>1, Rises
  <1> QED BY <1>2

-----------------------------------------------------------------------------
(* Sums.                                                                   *)

LEMMA TotalOfInts ==
    ASSUME NEW f \in Seq(Int)
    PROVE  \E sum \in [0 .. Len(f) -> Int] :
              /\ sum[0] = 0
              /\ \A i \in 1 .. Len(f) : sum[i] = sum[i - 1] + f[i]
              /\ Total(f) = sum[Len(f)]
  <1> DEFINE n == Len(f)
             Sums(g) == g = [i \in 0 .. n |-> IF i = 0 THEN 0 ELSE g[i - 1] + f[i]]
             all == CHOOSE g : Sums(g)
  <1>1. n \in Nat /\ \A i \in 1 .. n : f[i] \in Int
    OBVIOUS
  <1>2. \E g : Sums(g)
    <2> DEFINE Good == [i \in 0 .. n |-> Int]
               G == [x \in (1 .. n) \X Int |-> x[2] + f[x[1]]]
    <2>1. \A i \in 1 .. n : \A b \in Int : G[<<i, b>>] = b + f[i]
      OBVIOUS
    <2>2. Leads(G, n, Good, Int, 0)
      BY <1>1, <2>1 DEF Leads
    <2>3. PICK g \in [0 .. n -> Int] :
              /\ g[0] = 0
              /\ \A i \in 1 .. n : g[i - 1] \in Good[i - 1] /\ g[i] = G[<<i, g[i - 1]>>]
      <3> HIDE DEF Good, G, n
      <3> QED BY ONLY <2>2, RunExists
    <2> HIDE DEF G, Good
    <2>4. ASSUME NEW i \in 0 .. n
          PROVE  g[i] = IF i = 0 THEN 0 ELSE g[i - 1] + f[i]
      <3>1. CASE i = 0
        BY <2>3, <3>1
      <3>2. CASE i # 0
        <4>1. i \in 1 .. n /\ g[i - 1] \in Int
          BY <1>1, <2>3, <3>2
        <4> QED BY <2>1, <2>3, <3>2, <4>1
      <3> QED BY <3>1, <3>2
    <2>5. Sums(g)
      BY <2>3, <2>4
    <2> HIDE DEF Sums
    <2> QED BY <2>5
  <1>3. Sums(all)
    <2> HIDE DEF Sums
    <2> QED BY <1>2
  <1>4. all[n] = Total(f)
    BY DEF Total
  <1> HIDE DEF all
  <1>5. all[0] = 0 /\ \A i \in 1 .. n : all[i] = all[i - 1] + f[i]
    BY SMTT(30), <1>1, <1>3
  <1>6. \A i \in 0 .. n : all[i] \in Int
    <2> DEFINE Good == [i \in 0 .. n |-> Int]
    <2>1. all[0] \in Good[0] /\ \A i \in 1 .. n : all[i - 1] \in Good[i - 1] => all[i] \in Good[i]
      BY <1>1, <1>5
    <2>2. \A i \in 0 .. n : all[i] \in Good[i]
      <3> HIDE DEF Good
      <3> QED BY ONLY <1>1, <2>1, RunStays
    <2> QED BY <2>2
  <1>7. all \in [0 .. n -> Int]
    BY <1>3, <1>6
  <1> QED BY <1>4, <1>5, <1>7

LEMMA TotalIs ==
    ASSUME NEW f \in Seq(Nat)
    PROVE  \E sum \in [0 .. Len(f) -> Nat] :
              /\ sum[0] = 0
              /\ \A i \in 1 .. Len(f) : sum[i] = sum[i - 1] + f[i]
              /\ Total(f) = sum[Len(f)]
  <1>1. f \in Seq(Int) /\ Len(f) \in Nat /\ \A i \in 1 .. Len(f) : f[i] \in Nat
    OBVIOUS
  <1>2. PICK sum \in [0 .. Len(f) -> Int] :
           /\ sum[0] = 0
           /\ \A i \in 1 .. Len(f) : sum[i] = sum[i - 1] + f[i]
           /\ Total(f) = sum[Len(f)]
    BY <1>1, TotalOfInts
  <1> DEFINE Good == [i \in 0 .. Len(f) |-> Nat]
  <1>3. \A i \in 0 .. Len(f) : sum[i] \in Good[i]
    <2> DEFINE n == Len(f)
    <2>1. n \in Nat /\ \A i \in 0 .. n : Good[i] = Nat
      BY <1>1
    <2>2. sum[0] = 0 /\ \A i \in 1 .. n : sum[i] = sum[i - 1] + f[i] /\ f[i] \in Nat
      BY <1>1, <1>2
    <2> HIDE DEF Good, n
    <2>3. \A i \in 1 .. n : i - 1 \in 0 .. n /\ i \in 0 .. n /\ 0 \in 0 .. n
      BY ONLY <2>1
    <2>4. \A i \in 1 .. n : sum[i - 1] \in Nat => sum[i] \in Nat
      BY ONLY <2>2
    <2>5. \A i \in 1 .. n : sum[i - 1] \in Good[i - 1] => sum[i] \in Good[i]
      BY ONLY <2>1, <2>3, <2>4
    <2>6. sum[0] \in Good[0]
      <3>1. 0 \in 0 .. n
        BY ONLY <2>1
      <3>2. Good[0] = Nat
        BY ONLY <2>1, <3>1
      <3> QED BY ONLY <2>2, <3>2
    <2>7. \A i \in 0 .. n : sum[i] \in Good[i]
      BY ONLY <2>1, <2>5, <2>6, RunStays
    <2> QED BY <2>7 DEF n
  <1>4. sum \in [0 .. Len(f) -> Nat]
    BY <1>2, <1>3
  <1> QED BY <1>2, <1>4

\* A function on an interval is a sequence, and so has partial sums.
LEMMA PartialSums ==
    ASSUME NEW n \in Nat, NEW f \in [1 .. n -> Int]
    PROVE  /\ Total(f) \in Int
           /\ \E sum \in [0 .. n -> Int] :
                 /\ sum[0] = 0
                 /\ \A i \in 1 .. n : sum[i] = sum[i - 1] + f[i]
                 /\ Total(f) = sum[n]
  <1>1. f \in Seq(Int) /\ Len(f) = n
    <2>1. f = [k \in 1 .. n |-> f[k]] /\ \A k \in 1 .. n : f[k] \in Int
      OBVIOUS
    <2> QED BY <2>1
  <1>2. \E sum \in [0 .. Len(f) -> Int] :
           /\ sum[0] = 0
           /\ \A i \in 1 .. Len(f) : sum[i] = sum[i - 1] + f[i]
           /\ Total(f) = sum[Len(f)]
    BY ONLY <1>1, TotalOfInts
  <1>3. PICK sum \in [0 .. n -> Int] :
           /\ sum[0] = 0
           /\ \A i \in 1 .. n : sum[i] = sum[i - 1] + f[i]
           /\ Total(f) = sum[n]
    BY ONLY <1>1, <1>2
  <1>4. sum[n] \in Int
    BY ONLY n \in Nat, sum \in [0 .. n -> Int]
  <1>5. Total(f) \in Int
    BY ONLY <1>3, <1>4
  <1> QED BY <1>3, <1>5

\* Sums of naturals are naturals, and grow with what is added up.
LEMMA TotalNat ==
    ASSUME NEW n \in Nat, NEW f \in [1 .. n -> Nat]
    PROVE  Total(f) \in Nat
  <1>1. f \in Seq(Nat) /\ Len(f) = n
    <2>1. f = [k \in 1 .. n |-> f[k]] /\ \A k \in 1 .. n : f[k] \in Nat
      OBVIOUS
    <2> QED BY <2>1
  <1>2. \E sum \in [0 .. Len(f) -> Nat] : Total(f) = sum[Len(f)]
    BY ONLY <1>1, TotalIs
  <1> QED BY <1>1, <1>2

LEMMA TotalAtMost ==
    ASSUME NEW n \in Nat, NEW f \in [1 .. n -> Int], NEW g \in [1 .. n -> Int],
           \A k \in 1 .. n : f[k] <= g[k]
    PROVE  Total(f) <= Total(g)
  <1>1. PICK a \in [0 .. n -> Int] :
           a[0] = 0 /\ (\A k \in 1 .. n : a[k] = a[k - 1] + f[k]) /\ Total(f) = a[n]
    BY PartialSums
  <1>2. PICK b \in [0 .. n -> Int] :
           b[0] = 0 /\ (\A k \in 1 .. n : b[k] = b[k - 1] + g[k]) /\ Total(g) = b[n]
    BY PartialSums
  <1> DEFINE S == {m \in 0 .. n : a[m] <= b[m]}
  <1>3. 0 \in S
    BY <1>1, <1>2
  <1>4. ASSUME NEW m \in 1 .. n, m - 1 \in S
        PROVE  m \in S
    <2>1. /\ a[m - 1] \in Int /\ b[m - 1] \in Int /\ f[m] \in Int /\ g[m] \in Int
          /\ a[m - 1] <= b[m - 1] /\ f[m] <= g[m]
      BY <1>4
    <2>2. a[m] = a[m - 1] + f[m] /\ b[m] = b[m - 1] + g[m]
      BY <1>1, <1>2
    <2>3. a[m] <= b[m]
      BY <2>1, <2>2
    <2> QED BY <2>3
  <1>5. \A m \in 0 .. n : m \in S
    <2> HIDE DEF S
    <2> QED BY ONLY <1>3, <1>4, Rises, n \in Nat
  <1> QED BY <1>1, <1>2, <1>5

\* Sums that agree in every place but for multiples of w.
LEMMA TotalsAlike ==
    ASSUME NEW n \in Nat, NEW w \in Int,
           NEW f \in [1 .. n -> Int], NEW g \in [1 .. n -> Int], NEW h \in [1 .. n -> Int],
           \A k \in 1 .. n : \E z \in Int : h[k] = f[k] + g[k] + z * w
    PROVE  \E z \in Int : Total(h) = Total(f) + Total(g) + z * w
  <1>1. PICK a \in [0 .. n -> Int] :
           a[0] = 0 /\ (\A k \in 1 .. n : a[k] = a[k - 1] + f[k]) /\ Total(f) = a[n]
    BY PartialSums
  <1>2. PICK b \in [0 .. n -> Int] :
           b[0] = 0 /\ (\A k \in 1 .. n : b[k] = b[k - 1] + g[k]) /\ Total(g) = b[n]
    BY PartialSums
  <1>3. PICK c \in [0 .. n -> Int] :
           c[0] = 0 /\ (\A k \in 1 .. n : c[k] = c[k - 1] + h[k]) /\ Total(h) = c[n]
    BY PartialSums
  <1> DEFINE S == {m \in 0 .. n : \E z \in Int : c[m] = a[m] + b[m] + z * w}
  <1>4. 0 \in S
    <2>1. 0 * w = 0
      OBVIOUS
    <2>2. c[0] = a[0] + b[0] + 0 * w
      BY <1>1, <1>2, <1>3, <2>1
    <2>3. \E z \in Int : c[0] = a[0] + b[0] + z * w
      <3> WITNESS 0 \in Int
      <3> QED BY <2>2
    <2>4. 0 \in 0 .. n
      OBVIOUS
    <2> QED BY ONLY <2>3, <2>4, Zenon
  <1>5. ASSUME NEW m \in 1 .. n, m - 1 \in S
        PROVE  m \in S
    <2>1. PICK x \in Int : c[m - 1] = a[m - 1] + b[m - 1] + x * w
      BY <1>5
    <2>2. PICK y \in Int : h[m] = f[m] + g[m] + y * w
      OBVIOUS
    <2>3. a[m] = a[m - 1] + f[m] /\ b[m] = b[m - 1] + g[m] /\ c[m] = c[m - 1] + h[m]
      BY <1>1, <1>2, <1>3
    <2>4. /\ a[m - 1] \in Int /\ b[m - 1] \in Int /\ f[m] \in Int /\ g[m] \in Int
          /\ x * w \in Int /\ y * w \in Int /\ x + y \in Int
      OBVIOUS
    <2>5. (x + y) * w = x * w + y * w
      OBVIOUS
    <2>6. c[m] = a[m] + b[m] + (x + y) * w
      <3> DEFINE p == x * w
                 q == y * w
                 r == (x + y) * w
      <3>1. p \in Int /\ q \in Int /\ r = p + q
        BY <2>4, <2>5
      <3>2. c[m - 1] = a[m - 1] + b[m - 1] + p /\ h[m] = f[m] + g[m] + q
        BY <2>1, <2>2
      <3>3. a[m - 1] \in Int /\ b[m - 1] \in Int /\ f[m] \in Int /\ g[m] \in Int
        BY <2>4
      <3> HIDE DEF p, q, r
      <3>4. c[m] = a[m] + b[m] + r
        <4> DEFINE a1 == a[m - 1]
                   b1 == b[m - 1]
                   f1 == f[m]
                   g1 == g[m]
        <4>1. a[m] = a1 + f1 /\ b[m] = b1 + g1 /\ c[m] = (a1 + b1 + p) + (f1 + g1 + q)
          BY ONLY <2>3, <3>2
        <4> HIDE DEF a1, b1, f1, g1
        <4>2. a1 \in Int /\ b1 \in Int /\ f1 \in Int /\ g1 \in Int
          BY ONLY <3>3 DEF a1, b1, f1, g1
        <4> QED BY ONLY <3>1, <4>1, <4>2
      <3> QED BY <3>4 DEF r
    <2>7. \E z \in Int : c[m] = a[m] + b[m] + z * w
      <3>1. x + y \in Int
        OBVIOUS
      <3> WITNESS x + y \in Int
      <3> QED BY <2>6
    <2>8. m \in 0 .. n
      OBVIOUS
    <2> QED BY ONLY <2>7, <2>8, Zenon
  <1>6. \A m \in 0 .. n : m \in S
    <2> HIDE DEF S
    <2> QED BY ONLY <1>4, <1>5, Rises, n \in Nat
  <1>7. n \in S
    <2> HIDE DEF S
    <2> QED BY <1>6
  <1>8. PICK z \in Int : c[n] = a[n] + b[n] + z * w
    BY ONLY <1>7, Zenon
  <1> WITNESS z \in Int
  <1> QED BY ONLY <1>1, <1>2, <1>3, <1>8

-----------------------------------------------------------------------------
(* Remainders.                                                             *)

LEMMA Remainder ==
    ASSUME NEW w \in Nat \ {0}, NEW x \in Int
    PROVE  /\ x % w \in 0 .. w - 1
           /\ \E z \in Int : x % w = x + z * w
  <1>1. x % w \in 0 .. w - 1
    BY SMT
  <1>2. w \in Int /\ w > 0
    OBVIOUS
  <1>3. PICK d \in Int : x % w = x - d * w
    <2>1. x \div w \in Int
      BY <1>2, SMT
    <2>2. x % w = x - (x \div w) * w
      BY <1>2, SMT
    <2> WITNESS x \div w \in Int
    <2> QED BY ONLY <2>2
  <1>4. d * w \in Int /\ (-d) * w = -(d * w) /\ -d \in Int
    OBVIOUS
  <1>5. x % w = x + (-d) * w
    <2> DEFINE p == d * w
               q == (-d) * w
    <2>1. p \in Int /\ q = -p /\ x % w = x - p
      BY <1>3, <1>4
    <2> HIDE DEF p, q
    <2>2. x % w = x + q
      BY ONLY <2>1, x \in Int
    <2> QED BY ONLY <2>2 DEF q
  <1>6. \E z \in Int : x % w = x + z * w
    <2> WITNESS -d \in Int
    <2> QED BY <1>5
  <1> QED BY <1>1, <1>6

\* Numbers that differ by a multiple of w have the same remainder.
LEMMA SameRemainder ==
    ASSUME NEW w \in Nat \ {0}, NEW x \in Int, NEW y \in Int, NEW z \in Int, y = x + z * w
    PROVE  y % w = x % w
  <1>1. PICK a \in Int : x % w = x + a * w
    BY Remainder
  <1>2. PICK b \in Int : y % w = y + b * w
    BY Remainder
  <1>3. x % w \in 0 .. w - 1 /\ y % w \in 0 .. w - 1
    BY Remainder
  <1> DEFINE p == x % w
             q == y % w
             d == z + b - a
  <1>4. d \in Int /\ d * w = z * w + b * w - a * w
    OBVIOUS
  <1>5. z * w \in Int /\ a * w \in Int /\ b * w \in Int
    OBVIOUS
  <1>6. q - p = d * w
    BY <1>1, <1>2, <1>3, <1>4, <1>5
  <1>7. p \in 0 .. w - 1 /\ q \in 0 .. w - 1
    BY <1>3
  <1> HIDE DEF p, q, d
  <1>8. d * w < w /\ d * w > -w
    BY <1>6, <1>7
  <1>9. \A t \in Int : t * w < w /\ t * w > -w => t = 0
    BY SMT
  <1>10. d = 0
    BY <1>4, <1>8, <1>9
  <1>11. q = p
    BY <1>6, <1>7, <1>10
  <1> QED BY <1>11 DEF p, q

\* Two sequences that differ in one place only.
LEMMA TotalReplaced ==
    ASSUME NEW n \in Nat, NEW f \in [1 .. n -> Nat], NEW g \in [1 .. n -> Nat],
           NEW i \in 1 .. n, \A k \in 1 .. n : k # i => g[k] = f[k]
    PROVE  /\ Total(g) + f[i] = Total(f) + g[i]
           /\ Total(f) \in Nat /\ Total(g) \in Nat
  <1>0. ASSUME NEW h \in [1 .. n -> Nat]
        PROVE  h \in Seq(Nat) /\ Len(h) = n
    <2>1. h = [k \in 1 .. n |-> h[k]] /\ \A k \in 1 .. n : h[k] \in Nat
      OBVIOUS
    <2> QED BY <2>1
  <1>1. PICK a \in [0 .. n -> Nat] :
           /\ a[0] = 0
           /\ \A k \in 1 .. n : a[k] = a[k - 1] + f[k]
           /\ Total(f) = a[n]
    <2>1. f \in Seq(Nat) /\ Len(f) = n
      BY <1>0
    <2>2. \E a \in [0 .. Len(f) -> Nat] :
             /\ a[0] = 0
             /\ \A k \in 1 .. Len(f) : a[k] = a[k - 1] + f[k]
             /\ Total(f) = a[Len(f)]
      BY ONLY <2>1, TotalIs
    <2> QED BY <2>1, <2>2
  <1>2. PICK b \in [0 .. n -> Nat] :
           /\ b[0] = 0
           /\ \A k \in 1 .. n : b[k] = b[k - 1] + g[k]
           /\ Total(g) = b[n]
    <2>1. g \in Seq(Nat) /\ Len(g) = n
      BY <1>0
    <2>2. \E b \in [0 .. Len(g) -> Nat] :
             /\ b[0] = 0
             /\ \A k \in 1 .. Len(g) : b[k] = b[k - 1] + g[k]
             /\ Total(g) = b[Len(g)]
      BY ONLY <2>1, TotalIs
    <2> QED BY <2>1, <2>2
  <1> DEFINE S == {m \in 0 .. n : /\ m < i => b[m] = a[m]
                                  /\ m >= i => b[m] + f[i] = a[m] + g[i]}
  <1>3. 0 \in S
    BY <1>0, <1>1, <1>2
  <1>4. ASSUME NEW m \in 1 .. n, m - 1 \in S
        PROVE  m \in S
    <2>1. m - 1 \in 0 .. n /\ m \in 0 .. n /\ m \in Int /\ i \in Int
      OBVIOUS
    <2>2. a[m] = a[m - 1] + f[m] /\ b[m] = b[m - 1] + g[m]
      BY <1>1, <1>2
    <2>3. /\ a[m - 1] \in Nat /\ b[m - 1] \in Nat /\ f[m] \in Nat /\ g[m] \in Nat
          /\ f[i] \in Nat /\ g[i] \in Nat
      BY <2>1
    <2>4. /\ m - 1 < i => b[m - 1] = a[m - 1]
          /\ m - 1 >= i => b[m - 1] + f[i] = a[m - 1] + g[i]
      BY <1>4
    <2>5. m # i => g[m] = f[m]
      OBVIOUS
    <2>6. /\ m < i => b[m] = a[m]
          /\ m >= i => b[m] + f[i] = a[m] + g[i]
      <3>1. CASE m < i
        BY <2>1, <2>2, <2>3, <2>4, <2>5, <3>1
      <3>2. CASE m = i
        BY <2>1, <2>2, <2>3, <2>4, <3>2
      <3>3. CASE m > i
        <4>1. m - 1 >= i /\ m # i /\ ~(m < i)
          BY <2>1, <3>3
        <4> DEFINE x == b[m - 1]
                   y == a[m - 1]
                   u == f[i]
                   v == g[i]
                   z == f[m]
        <4>2. x \in Nat /\ y \in Nat /\ u \in Nat /\ v \in Nat /\ z \in Nat
          BY <2>3
        <4>3. x + u = y + v /\ a[m] = y + z /\ b[m] = x + z
          BY <2>2, <2>4, <2>5, <4>1
        <4> HIDE DEF x, y, u, v, z
        <4>4. b[m] + u = a[m] + v
          BY <4>2, <4>3
        <4> QED BY <4>1, <4>4 DEF u, v
      <3> QED BY <2>1, <3>1, <3>2, <3>3
    <2> QED BY <2>1, <2>6
  <1>5. n \in S
    <2> HIDE DEF S
    <2>1. \A m \in 0 .. n : m \in S
      BY <1>3, <1>4, Rises
    <2> QED BY <2>1
  <1>6. f[i] \in Nat /\ g[i] \in Nat /\ a[n] \in Nat /\ b[n] \in Nat
    OBVIOUS
  <1> QED BY <1>1, <1>2, <1>5, <1>6

\* The first summands alone come to no more.
LEMMA TotalOfFirst ==
    ASSUME NEW n \in Nat, NEW f \in [1 .. n -> Nat], NEW m \in 0 .. n
    PROVE  /\ Total([k \in 1 .. m |-> f[k]]) \in Nat
           /\ Total([k \in 1 .. m |-> f[k]]) <= Total(f)
  <1> DEFINE g == [k \in 1 .. m |-> f[k]]
  <1>0. m \in Nat /\ f \in [1 .. n -> Int] /\ g \in [1 .. m -> Int] /\ g \in [1 .. m -> Nat]
    OBVIOUS
  <1>1. PICK a \in [0 .. m -> Int] :
           a[0] = 0 /\ (\A k \in 1 .. m : a[k] = a[k - 1] + g[k]) /\ Total(g) = a[m]
    <2> HIDE DEF g
    <2> QED BY ONLY <1>0, PartialSums
  <1>2. PICK b \in [0 .. n -> Int] :
           b[0] = 0 /\ (\A k \in 1 .. n : b[k] = b[k - 1] + f[k]) /\ Total(f) = b[n]
    BY ONLY <1>0, PartialSums, n \in Nat
  <1>3. Total(g) \in Nat
    <2> HIDE DEF g
    <2> QED BY ONLY <1>0, TotalNat
  <1>4. \A k \in 1 .. n : f[k] \in Nat /\ b[k - 1] \in Int /\ b[k] = b[k - 1] + f[k]
    BY <1>2
  <1>5. \A k \in 1 .. m : a[k] = a[k - 1] + f[k]
    BY <1>1
  <1> DEFINE S == {i \in 0 .. n : (i <= m => a[i] = b[i]) /\ (i > m => a[m] <= b[i])}
  <1>6. 0 \in S
    BY <1>0, <1>1, <1>2
  <1>7. ASSUME NEW i \in 1 .. n, i - 1 \in S
        PROVE  i \in S
    <2>1. i \in Int /\ m \in Int /\ a[m] \in Int
      BY <1>0
    <2>2. (i - 1 <= m => a[i - 1] = b[i - 1]) /\ (i - 1 > m => a[m] <= b[i - 1])
      BY <1>7
    <2>3. CASE i <= m
      <3>1. a[i] = a[i - 1] + f[i] /\ b[i] = b[i - 1] + f[i] /\ a[i - 1] = b[i - 1]
        BY <1>0, <1>4, <1>5, <2>1, <2>2, <2>3
      <3> QED BY <2>1, <2>3, <3>1
    <2>4. CASE i > m
      <3>1. a[m] <= b[i - 1]
        <4>1. CASE i - 1 = m
          <5>1. a[m] = b[i - 1] /\ b[i - 1] \in Int
            BY <1>4, <2>1, <2>2, <4>1
          <5> QED BY ONLY <5>1
        <4>2. CASE i - 1 # m
          BY <2>1, <2>2, <2>4, <4>2
        <4> QED BY <4>1, <4>2
      <3> DEFINE x == a[m]
                 y == b[i - 1]
                 z == f[i]
      <3>2. x \in Int /\ y \in Int /\ z \in Nat /\ x <= y /\ b[i] = y + z
        BY <1>4, <2>1, <3>1
      <3> HIDE DEF x, y, z
      <3>3. x <= b[i]
        BY ONLY <3>2
      <3> QED BY <2>1, <2>4, <3>3 DEF x
    <2> QED BY <2>1, <2>3, <2>4
  <1>8. n \in S
    <2> HIDE DEF S
    <2>1. \A i \in 0 .. n : i \in S
      BY ONLY <1>6, <1>7, Rises, n \in Nat
    <2> QED BY <2>1
  <1>9. a[m] <= b[n]
    <2>1. a[m] \in Int /\ b[n] \in Int /\ m \in Int
      BY <1>0
    <2>2. CASE n <= m
      <3>1. n = m
        BY <1>0, <2>2
      <3>2. a[n] = b[n]
        BY <1>8, <2>2
      <3> QED BY <2>1, <3>1, <3>2
    <2>3. CASE n > m
      BY <1>8, <2>3
    <2> QED BY <2>1, <2>2, <2>3
  <1> HIDE DEF g
  <1>10. Total(g) <= Total(f)
    BY ONLY <1>1, <1>2, <1>9
  <1> QED BY ONLY <1>3, <1>10 DEF g

LEMMA EachInTotal ==
    ASSUME NEW n \in Nat, NEW f \in [1 .. n -> Nat], NEW i \in 1 .. n
    PROVE  f[i] <= Total(f) /\ Total(f) \in Nat /\ f[i] \in Nat
  <1> DEFINE g == [f EXCEPT ![i] = 0]
  <1>1. g \in [1 .. n -> Nat] /\ g[i] = 0 /\ \A k \in 1 .. n : k # i => g[k] = f[k]
    OBVIOUS
  <1> HIDE DEF g
  <1>2. Total(g) + f[i] = Total(f) + g[i] /\ Total(f) \in Nat /\ Total(g) \in Nat
    BY ONLY <1>1, n \in Nat, f \in [1 .. n -> Nat], i \in 1 .. n, TotalReplaced
  <1>3. f[i] \in Nat
    OBVIOUS
  <1> QED BY ONLY <1>1, <1>2, <1>3
=============================================================================
