--------------------------- MODULE FunSumsProofs ---------------------------
(***************************************************************************)
(* The facts about SumTo that the conservation proofs rest on: it has the  *)
(* recursion equation of a sum, it is an integer, and changing the value   *)
(* of the function at one point changes the sum by the difference.  The    *)
(* same about SumOver, where first any element may be the one that the     *)
(* recursion takes away.                                                   *)
(*                                                                         *)
(* The induction theorems of the library take an operator as a parameter;  *)
(* induction is done here on sets of naturals instead, from the            *)
(* well-foundedness of < on Nat.                                           *)
(***************************************************************************)
EXTENDS FunSums, FiniteSetTheorems, WellFoundedInduction, TLAPS

\* Induction on a set: a set with 0 that is closed under successor has every natural.
LEMMA NatSetInduction ==
  ASSUME NEW S, 0 \in S, \A n \in Nat : n \in S => n + 1 \in S
  PROVE  Nat \subseteq S
<1> DEFINE T == Nat \ S
           R == {ss \in Nat \X Nat : ss[1] < ss[2]}
<1> SUFFICES ASSUME T # {} PROVE FALSE
  OBVIOUS
<1>1. IsWellFoundedOn(R, Nat)
  BY NatLessThanWellFounded DEF OpToRel
<1>2. PICK x \in T : \A y \in T : ~ (<<y, x>> \in R)
  <2> HIDE DEF R, T
  <2> T \subseteq Nat  BY DEF T
  <2> QED BY <1>1, WFMin
<1>3. x # 0 /\ x - 1 \in Nat
  OBVIOUS
<1>4. <<x - 1, x>> \in R
  BY <1>3
<1>5. x - 1 \in S
  BY <1>2, <1>3, <1>4
<1> QED BY <1>3, <1>5

IsPrefixSums(p, f, n) ==
    p = [i \in 0 .. n |-> IF i = 0 THEN 0 ELSE p[i - 1] + f[i]]

\* The recursion equation of PrefixSums has a solution.
LEMMA PrefixSumsExist ==
  ASSUME NEW f, NEW n \in Nat
  PROVE  \E p : IsPrefixSums(p, f, n)
<1> DEFINE S == {m \in Nat : \E p : IsPrefixSums(p, f, m)}
<1>1. 0 \in S
  <2> DEFINE q == [i \in 0 .. 0 |-> 0]
  <2>1. q = [i \in 0 .. 0 |-> IF i = 0 THEN 0 ELSE q[i - 1] + f[i]]
    OBVIOUS
  <2> QED BY <2>1 DEF IsPrefixSums
<1>2. ASSUME NEW m \in Nat, m \in S PROVE m + 1 \in S
  <2>1. PICK p : IsPrefixSums(p, f, m)
    BY <1>2
  <2> DEFINE q == [i \in 0 .. m + 1 |-> IF i = m + 1 THEN p[m] + f[m + 1] ELSE p[i]]
  <2>2. ASSUME NEW i \in 0 .. m + 1
        PROVE q[i] = IF i = 0 THEN 0 ELSE q[i - 1] + f[i]
    <3>1. CASE i = m + 1
      BY <3>1
    <3>2. CASE i # m + 1
      <4>1. i \in 0 .. m BY <3>2
      <4>2. p[i] = IF i = 0 THEN 0 ELSE p[i - 1] + f[i]
        BY <2>1, <4>1 DEF IsPrefixSums
      <4> QED BY <4>1, <4>2
    <3> QED BY <3>1, <3>2
  <2>3. IsPrefixSums(q, f, m + 1)
    <3> HIDE DEF q
    <3>1. q = [i \in 0 .. m + 1 |-> q[i]]
      BY DEF q
    <3> QED BY <3>1, <2>2 DEF IsPrefixSums
  <2> QED BY <2>3
<1>3. Nat \subseteq S
  BY <1>1, <1>2, NatSetInduction
<1> QED BY <1>3

\* PrefixSums satisfies its recursion equation.
LEMMA PrefixSumsDef ==
  ASSUME NEW f, NEW n \in Nat
  PROVE  IsPrefixSums(PrefixSums(f, n), f, n)
<1>1. PICK p : IsPrefixSums(p, f, n)
  BY PrefixSumsExist
<1> QED BY <1>1 DEF PrefixSums, IsPrefixSums

\* The recursion equation at one point.
LEMMA PrefixSumsAt ==
  ASSUME NEW f, NEW n \in Nat, NEW p, IsPrefixSums(p, f, n), NEW i \in 0 .. n
  PROVE  p[i] = IF i = 0 THEN 0 ELSE p[i - 1] + f[i]
BY DEF IsPrefixSums

\* Two solutions agree wherever both are defined.
LEMMA PrefixSumsUnique ==
  ASSUME NEW f, NEW m \in Nat, NEW n \in Nat, NEW p, NEW q,
         IsPrefixSums(p, f, m), IsPrefixSums(q, f, n)
  PROVE  \A i \in Nat : i <= m /\ i <= n => p[i] = q[i]
<1> DEFINE S == {i \in Nat : i <= m /\ i <= n => p[i] = q[i]}
<1>1. 0 \in S
  <2>1. 0 \in 0 .. m /\ 0 \in 0 .. n
    OBVIOUS
  <2>2. p[0] = 0 /\ q[0] = 0
    BY <2>1, PrefixSumsAt
  <2> QED BY <2>2
<1>2. ASSUME NEW i \in Nat, i \in S PROVE i + 1 \in S
  <2> SUFFICES ASSUME i + 1 <= m, i + 1 <= n PROVE p[i + 1] = q[i + 1]
    OBVIOUS
  <2>1. i + 1 \in 0 .. m /\ i + 1 \in 0 .. n /\ i + 1 # 0 /\ (i + 1) - 1 = i
    OBVIOUS
  <2>2. p[i] = q[i]
    BY <1>2
  <2>3. p[i + 1] = p[i] + f[i + 1]
    BY <2>1, PrefixSumsAt
  <2>4. q[i + 1] = q[i] + f[i + 1]
    BY <2>1, PrefixSumsAt
  <2> QED BY <2>2, <2>3, <2>4
<1>3. Nat \subseteq S
  BY <1>1, <1>2, NatSetInduction
<1> QED BY <1>3

\* The empty sum is 0.
LEMMA SumToZero ==
  ASSUME NEW f
  PROVE  SumTo(f, 0) = 0
<1>1. IsPrefixSums(PrefixSums(f, 0), f, 0)
  BY PrefixSumsDef
<1>2. PrefixSums(f, 0)[0] = 0
  BY <1>1, PrefixSumsAt, 0 \in 0 .. 0
<1> QED BY <1>2 DEF SumTo

\* The sum to n + 1 adds one value to the sum to n.
LEMMA SumToSucc ==
  ASSUME NEW f, NEW n \in Nat
  PROVE  SumTo(f, n + 1) = SumTo(f, n) + f[n + 1]
<1>1. IsPrefixSums(PrefixSums(f, n), f, n)
  BY PrefixSumsDef
<1>2. n + 1 \in Nat /\ n + 1 \in 0 .. n + 1 /\ n + 1 # 0 /\ (n + 1) - 1 = n
  OBVIOUS
<1>3. IsPrefixSums(PrefixSums(f, n + 1), f, n + 1)
  BY <1>2, PrefixSumsDef
<1>4. PrefixSums(f, n + 1)[n + 1] = PrefixSums(f, n + 1)[n] + f[n + 1]
  BY <1>2, <1>3, PrefixSumsAt
<1>5. PrefixSums(f, n + 1)[n] = PrefixSums(f, n)[n]
  <2>1. n <= n /\ n <= n + 1
    OBVIOUS
  <2> QED BY <1>1, <1>2, <1>3, <2>1, PrefixSumsUnique
<1> QED BY <1>4, <1>5 DEF SumTo

\* Induction over 1 .. N, in the form the lemmas below use it.
LEMMA UpToInduction ==
  ASSUME NEW N \in Nat, NEW S, 0 \in S, \A n \in 0 .. N - 1 : n \in S => n + 1 \in S
  PROVE  N \in S
<1> DEFINE T == {n \in Nat : n <= N => n \in S}
<1>1. 0 \in T
  OBVIOUS
<1>2. \A n \in Nat : n \in T => n + 1 \in T
  OBVIOUS
<1>3. Nat \subseteq T
  BY <1>1, <1>2, NatSetInduction
<1> QED BY <1>3

\* The sum of integers is an integer.
LEMMA SumToInt ==
  ASSUME NEW N \in Nat, NEW f \in [1 .. N -> Int]
  PROVE  SumTo(f, N) \in Int
<1> DEFINE S == {n \in Nat : SumTo(f, n) \in Int}
<1>1. 0 \in S
  BY SumToZero
<1>2. ASSUME NEW n \in 0 .. N - 1, n \in S PROVE n + 1 \in S
  <2>1. SumTo(f, n + 1) = SumTo(f, n) + f[n + 1]
    BY SumToSucc
  <2>2. f[n + 1] \in Int /\ n + 1 \in Nat
    OBVIOUS
  <2> QED BY <1>2, <2>1, <2>2
<1>3. N \in S
  <2> HIDE DEF S
  <2> QED BY <1>1, <1>2, UpToInduction
<1> QED BY <1>3

\* The sum of naturals is a natural.
LEMMA SumToNat ==
  ASSUME NEW N \in Nat, NEW f \in [1 .. N -> Nat]
  PROVE  SumTo(f, N) \in Nat
<1> DEFINE S == {n \in Nat : SumTo(f, n) \in Nat}
<1>1. 0 \in S
  BY SumToZero
<1>2. ASSUME NEW n \in 0 .. N - 1, n \in S PROVE n + 1 \in S
  <2>1. SumTo(f, n + 1) = SumTo(f, n) + f[n + 1]
    BY SumToSucc
  <2>2. f[n + 1] \in Nat /\ n + 1 \in Nat
    OBVIOUS
  <2> QED BY <1>2, <2>1, <2>2
<1>3. N \in S
  <2> HIDE DEF S
  <2> QED BY <1>1, <1>2, UpToInduction
<1> QED BY <1>3

\* The sum of a function that is 0 everywhere is 0.
LEMMA SumToAllZero ==
  ASSUME NEW N \in Nat, NEW f, \A i \in 1 .. N : f[i] = 0
  PROVE  SumTo(f, N) = 0
<1> DEFINE S == {n \in Nat : SumTo(f, n) = 0}
<1>1. 0 \in S
  BY SumToZero
<1>2. \A n \in 0 .. N - 1 : n \in S => n + 1 \in S
  BY SumToSucc
<1>3. N \in S
  <2> HIDE DEF S
  <2> QED BY <1>1, <1>2, UpToInduction
<1> QED BY <1>3

\* The sum of a constant.
LEMMA SumToConstant ==
  ASSUME NEW N \in Nat, NEW c \in Int, NEW f, \A i \in 1 .. N : f[i] = c
  PROVE  SumTo(f, N) = N * c
<1> DEFINE S == {n \in Nat : SumTo(f, n) = n * c}
<1>1. 0 \in S
  BY SumToZero
<1>2. ASSUME NEW n \in 0 .. N - 1, n \in S PROVE n + 1 \in S
  <2>1. n \in Nat /\ n + 1 \in 1 .. N /\ SumTo(f, n) = n * c
    BY <1>2
  <2>2. SumTo(f, n + 1) = n * c + c
    BY <2>1, SumToSucc
  <2>3. n * c + c = (n + 1) * c
    BY <2>1
  <2> QED
    BY <2>1, <2>2, <2>3
<1> HIDE DEF S
<1>3. N \in S
  BY <1>1, <1>2, UpToInduction
<1> QED
  BY <1>3 DEF S

\* Changing one value changes the sum by the difference of the two values.
LEMMA SumToUpdate ==
  ASSUME NEW N \in Nat, NEW f \in [1 .. N -> Int], NEW k \in 1 .. N, NEW v \in Int
  PROVE  SumTo([f EXCEPT ![k] = v], N) = SumTo(f, N) - f[k] + v
<1> DEFINE g == [f EXCEPT ![k] = v]
           delta(n) == IF k <= n THEN v - f[k] ELSE 0
           S == {n \in Nat : /\ SumTo(f, n) \in Int
                             /\ SumTo(g, n) = SumTo(f, n) + delta(n)}
<1>1. 0 \in S
  <2>1. SumTo(f, 0) = 0 /\ SumTo(g, 0) = 0
    BY SumToZero
  <2> QED BY <2>1
<1>2. ASSUME NEW n \in 0 .. N - 1, n \in S PROVE n + 1 \in S
  <2>1. SumTo(f, n + 1) = SumTo(f, n) + f[n + 1]
    BY SumToSucc
  <2>2. SumTo(g, n + 1) = SumTo(g, n) + g[n + 1]
    <3> HIDE DEF g
    <3> QED BY SumToSucc
  <2>3. g[n + 1] = IF n + 1 = k THEN v ELSE f[n + 1]
    OBVIOUS
  <2>4. f[n + 1] \in Int /\ f[k] \in Int /\ n + 1 \in Nat
    OBVIOUS
  <2>5. SumTo(f, n) \in Int /\ SumTo(g, n) = SumTo(f, n) + delta(n)
    BY <1>2
  <2> HIDE DEF g
  <2>6. SumTo(f, n + 1) \in Int
    BY <2>1, <2>4, <2>5
  <2>7. SumTo(g, n + 1) = SumTo(f, n + 1) + delta(n + 1)
    <3>1. CASE n + 1 = k
      <4>1. delta(n) = 0 /\ delta(n + 1) = v - f[n + 1] /\ g[n + 1] = v
        BY <2>3, <3>1
      <4> HIDE DEF delta
      <4> QED BY <2>1, <2>2, <2>4, <2>5, <4>1
    <3>2. CASE n + 1 # k
      <4>1. (k <= n) <=> (k <= n + 1)
        BY <3>2
      <4>2. CASE k <= n
        BY <3>2, <4>1, <4>2, <2>1, <2>2, <2>3, <2>4, <2>5
      <4>3. CASE ~ (k <= n)
        BY <3>2, <4>1, <4>3, <2>1, <2>2, <2>3, <2>4, <2>5
      <4> QED BY <4>2, <4>3
    <3> QED BY <3>1, <3>2
  <2> QED BY <2>4, <2>6, <2>7
<1>3. N \in S
  <2> HIDE DEF S
  <2> QED BY <1>1, <1>2, UpToInduction
<1>4. SumTo(f, N) \in Int /\ SumTo(g, N) = SumTo(f, N) + (v - f[k])
  BY <1>3
<1>5. f[k] \in Int
  OBVIOUS
<1> HIDE DEF g
<1>6. SumTo(g, N) = SumTo(f, N) - f[k] + v
  BY <1>4, <1>5
<1> QED BY <1>6 DEF g

\* No value of a function to the naturals exceeds the sum.
LEMMA SumToBoundsValue ==
  ASSUME NEW N \in Nat, NEW f \in [1 .. N -> Nat], NEW k \in 1 .. N
  PROVE  f[k] <= SumTo(f, N)
<1> DEFINE g == [f EXCEPT ![k] = 0]
<1>1. g \in [1 .. N -> Nat] /\ f \in [1 .. N -> Int] /\ 0 \in Int /\ f[k] \in Nat
  OBVIOUS
<1>2. SumTo(g, N) = SumTo(f, N) - f[k] + 0
  BY <1>1, SumToUpdate
<1>3. SumTo(g, N) \in Nat /\ SumTo(f, N) \in Int
  <2> HIDE DEF g
  <2> QED BY <1>1, SumToNat, SumToInt
<1> HIDE DEF g
<1> QED BY <1>1, <1>2, <1>3

\* A function that differs from another by d at one place has a sum that
\* differs by d.
LEMMA SumToAdd ==
  ASSUME NEW N \in Nat, NEW f \in [1 .. N -> Int], NEW g \in [1 .. N -> Int],
         NEW k \in 1 .. N, NEW d \in Int,
         g[k] = f[k] + d, \A i \in 1 .. N : i # k => g[i] = f[i]
  PROVE  SumTo(g, N) = SumTo(f, N) + d
<1>1. f[k] \in Int /\ f[k] + d \in Int
  OBVIOUS
<1>2. g = [f EXCEPT ![k] = f[k] + d]
  OBVIOUS
<1>3. SumTo(g, N) = SumTo(f, N) - f[k] + (f[k] + d)
  <2> DEFINE new == f[k] + d
  <2>1. new \in Int
    BY <1>1
  <2>2. g = [f EXCEPT ![k] = new]
    BY <1>2
  <2> HIDE DEF new
  <2>3. SumTo([f EXCEPT ![k] = new], N) = SumTo(f, N) - f[k] + new
    BY <2>1, SumToUpdate, Zenon
  <2> QED BY <2>2, <2>3 DEF new
<1>4. SumTo(f, N) \in Int
  BY SumToInt
<1> QED BY <1>1, <1>3, <1>4

\* Functions that agree on 1 .. N have the same sum.
LEMMA SumToSame ==
  ASSUME NEW N \in Nat, NEW f \in [1 .. N -> Int], NEW g \in [1 .. N -> Int],
         \A i \in 1 .. N : g[i] = f[i]
  PROVE  SumTo(g, N) = SumTo(f, N)
<1>1. g = f
  OBVIOUS
<1> QED BY <1>1

\* A function with one value that is not 0 has that value for its sum.
LEMMA SumToSingle ==
  ASSUME NEW N \in Nat, NEW f, NEW k \in 1 .. N, NEW v \in Int,
         f \in [1 .. N -> Int], f[k] = v, \A i \in 1 .. N : i # k => f[i] = 0
  PROVE  SumTo(f, N) = v
<1> DEFINE zero == [i \in 1 .. N |-> 0]
<1>1. /\ zero \in [1 .. N -> Int] /\ \A i \in 1 .. N : zero[i] = 0
      /\ f[k] = zero[k] + v /\ \A i \in 1 .. N : i # k => f[i] = zero[i]
  OBVIOUS
<1> HIDE DEF zero
<1>2. SumTo(zero, N) = 0
  BY <1>1, SumToAllZero
<1>3. SumTo(f, N) = SumTo(zero, N) + v
  BY <1>1, SumToAdd
<1> QED BY <1>2, <1>3


\* The sum to m + n is the sum to m and the sum of the n values after it.
LEMMA SumToShift ==
  ASSUME NEW m \in Nat, NEW n \in Nat, NEW f \in [1 .. m + n -> Int], NEW g \in [1 .. n -> Int],
         \A i \in 1 .. n : g[i] = f[m + i]
  PROVE  SumTo(f, m + n) = SumTo(f, m) + SumTo(g, n)
<1> DEFINE S == {i \in Nat : /\ SumTo(f, m + i) = SumTo(f, m) + SumTo(g, i)
                             /\ SumTo(g, i) \in Int /\ SumTo(f, m) \in Int}
<1>1. SumTo(f, m) \in Int
  <2> DEFINE T == {i \in Nat : SumTo(f, i) \in Int}
  <2>1. 0 \in T
    BY SumToZero
  <2>2. ASSUME NEW i \in 0 .. m - 1, i \in T PROVE i + 1 \in T
    <3>1. SumTo(f, i + 1) = SumTo(f, i) + f[i + 1]
      BY SumToSucc
    <3>2. f[i + 1] \in Int /\ i + 1 \in Nat
      OBVIOUS
    <3> QED
      BY <2>2, <3>1, <3>2
  <2>3. m \in T
    <3> HIDE DEF T
    <3> QED
      BY <2>1, <2>2, UpToInduction
  <2> QED
    BY <2>3
<1>2. 0 \in S
  BY <1>1, SumToZero
<1>3. ASSUME NEW i \in 0 .. n - 1, i \in S PROVE i + 1 \in S
  <2>1. i \in Nat /\ m + i \in Nat /\ (m + i) + 1 = m + (i + 1) /\ i + 1 \in 1 .. n
    OBVIOUS
  <2>2. SumTo(f, (m + i) + 1) = SumTo(f, m + i) + f[(m + i) + 1]
    BY <2>1, SumToSucc
  <2>3. SumTo(g, i + 1) = SumTo(g, i) + g[i + 1]
    BY <2>1, SumToSucc
  <2>4. g[i + 1] = f[m + (i + 1)] /\ g[i + 1] \in Int
    BY <2>1
  <2> QED
    BY <1>3, <2>1, <2>2, <2>3, <2>4
<1>4. n \in S
  <2> HIDE DEF S
  <2> QED
    BY <1>2, <1>3, UpToInduction
<1> QED
  BY <1>4

\* The sum to n depends on the first n values only.
LEMMA SumToPrefix ==
  ASSUME NEW n \in Nat, NEW f, NEW g, \A i \in 1 .. n : g[i] = f[i]
  PROVE  SumTo(g, n) = SumTo(f, n)
<1> DEFINE S == {i \in Nat : SumTo(g, i) = SumTo(f, i)}
<1>1. 0 \in S
  BY SumToZero
<1>2. ASSUME NEW i \in 0 .. n - 1, i \in S PROVE i + 1 \in S
  <2>1. i \in Nat /\ i + 1 \in 1 .. n
    OBVIOUS
  <2>2. SumTo(f, i + 1) = SumTo(f, i) + f[i + 1] /\ SumTo(g, i + 1) = SumTo(g, i) + g[i + 1]
    BY <2>1, SumToSucc
  <2> QED
    BY <1>2, <2>1, <2>2
<1>3. n \in S
  <2> HIDE DEF S
  <2> QED
    BY <1>1, <1>2, UpToInduction
<1> QED
  BY <1>3

\* A set of naturals that is not empty has a least member.
LEMMA LeastExists ==
  ASSUME NEW S, S \subseteq Nat, S # {}
  PROVE  \E x \in S : \A y \in S : x <= y
<1> DEFINE R == {ss \in Nat \X Nat : ss[1] < ss[2]}
<1>1. IsWellFoundedOn(R, Nat)
  BY NatLessThanWellFounded DEF OpToRel
<1>2. PICK x \in S : \A y \in S : ~ (<<y, x>> \in R)
  <2> HIDE DEF R
  <2> QED
    BY <1>1, WFMin
<1>3. ASSUME NEW y \in S PROVE x <= y
  <2>1. x \in Nat /\ y \in Nat /\ ~ (y < x)
    BY <1>2
  <2> QED
    BY <2>1
<1> QED
  BY <1>3

\* A set of naturals up to n that is not empty has a greatest member.
LEMMA GreatestExists ==
  ASSUME NEW n \in Nat, NEW S, S \subseteq 0 .. n, S # {}
  PROVE  \E x \in S : \A y \in S : y <= x
<1> DEFINE T == {i \in 0 .. n : n - i \in S}
<1>1. T \subseteq Nat /\ T # {}
  <2>1. PICK y \in S : y \in 0 .. n
    OBVIOUS
  <2>2. n - y \in 0 .. n /\ n - (n - y) = y
    BY <2>1
  <2>3. n - y \in T
    BY <2>2
  <2>4. T \subseteq Nat
    OBVIOUS
  <2> QED
    BY <2>3, <2>4
<1>2. PICK i \in T : \A j \in T : i <= j
  <2> HIDE DEF T
  <2> QED
    BY <1>1, LeastExists
<1>3. ASSUME NEW y \in S PROVE y <= n - i
  <2>1. y \in 0 .. n /\ n - y \in 0 .. n /\ n - (n - y) = y
    OBVIOUS
  <2>2. n - y \in T
    BY <2>1
  <2>3. i <= n - y
    BY <1>2, <2>2
  <2> QED
    BY <2>1, <2>3
<1>4. n - i \in S
  OBVIOUS
<1> QED
  BY <1>3, <1>4

-----------------------------------------------------------------------------
(* Sums over a finite set.                                                 *)

\* Induction on the subsets of a finite set by taking elements away.
LEMMA SubsetInduction ==
  ASSUME NEW S, IsFiniteSet(S), NEW I,
         \A T \in SUBSET S : (\A x \in T : T \ {x} \in I) => T \in I
  PROVE  \A T \in SUBSET S : T \in I
<1> DEFINE D == {n \in Nat : \A T \in SUBSET S : Cardinality(T) = n => T \in I}
<1>1. 0 \in D
  <2> SUFFICES ASSUME NEW T \in SUBSET S, Cardinality(T) = 0 PROVE T \in I
    OBVIOUS
  <2>1. T = {}
    BY FS_Subset, FS_EmptySet
  <2> QED
    BY <2>1
<1>2. ASSUME NEW n \in Nat, n \in D PROVE n + 1 \in D
  <2> SUFFICES ASSUME NEW T \in SUBSET S, Cardinality(T) = n + 1 PROVE T \in I
    OBVIOUS
  <2>1. ASSUME NEW x \in T PROVE T \ {x} \in I
    <3>1. IsFiniteSet(T)
      BY FS_Subset
    <3>2. Cardinality(T \ {x}) = (n + 1) - 1
      BY <3>1, FS_RemoveElement
    <3> QED
      BY <1>2, <3>2
  <2> QED
    BY <2>1
<1> HIDE DEF D
<1>3. Nat \subseteq D
  BY <1>1, <1>2, NatSetInduction
<1> QED
  <2> SUFFICES ASSUME NEW T \in SUBSET S PROVE T \in I
    OBVIOUS
  <2>1. Cardinality(T) \in Nat
    BY FS_Subset, FS_CardinalityType
  <2> QED
    BY <1>3, <2>1 DEF D

\* q gives the sum over each set in D
IsSums(q, f, D) ==
    q = [T \in D |-> IF T = {} THEN 0 ELSE f[CHOOSE x \in T : TRUE] + q[T \ {CHOOSE x \in T : TRUE}]]

Sums(f, S) == CHOOSE q : IsSums(q, f, SUBSET S)

\* SumOver is the value of that recursive function at the whole set.
LEMMA SumOverIsSums ==
  ASSUME NEW f, NEW S
  PROVE  SumOver(f, S) = Sums(f, S)[S]
BY DEF SumOver, MapThenFoldSet, Sums, IsSums

\* The recursion has a solution on the subsets of a finite set.
LEMMA SumsExist ==
  ASSUME NEW f, NEW S, IsFiniteSet(S)
  PROVE  \E q : IsSums(q, f, SUBSET S)
<1> DEFINE Small(n) == {T \in SUBSET S : Cardinality(T) <= n}
           L == {n \in Nat : \E q : IsSums(q, f, Small(n))}
<1>0. \A T \in SUBSET S : IsFiniteSet(T) /\ Cardinality(T) \in Nat
  BY FS_Subset, FS_CardinalityType
<1>1. 0 \in L
  <2> DEFINE q == [T \in Small(0) |-> 0]
  <2>1. \A T \in Small(0) : T = {}
    BY <1>0, FS_EmptySet
  <2>2. q = [T \in Small(0) |->
               IF T = {} THEN 0 ELSE f[CHOOSE x \in T : TRUE] + q[T \ {CHOOSE x \in T : TRUE}]]
    BY <2>1
  <2>3. IsSums(q, f, Small(0))
    BY <2>2 DEF IsSums
  <2> QED
    BY <2>3
<1>2. ASSUME NEW n \in Nat, n \in L PROVE n + 1 \in L
  <2>1. PICK q : IsSums(q, f, Small(n))
    BY <1>2
  <2> DEFINE r == [T \in Small(n + 1) |->
                     IF T = {} THEN 0
                     ELSE f[CHOOSE x \in T : TRUE] + q[T \ {CHOOSE x \in T : TRUE}]]
  <2>2. ASSUME NEW T \in Small(n) PROVE T \in Small(n + 1) /\ r[T] = q[T]
    <3>1. Cardinality(T) \in Nat /\ Cardinality(T) <= n
      BY <1>0
    <3>2. T \in Small(n + 1)
      BY <3>1
    <3> QED
      BY <2>1, <3>2 DEF IsSums
  <2>3. ASSUME NEW T \in Small(n + 1), T # {}
        PROVE  T \ {CHOOSE x \in T : TRUE} \in Small(n)
    <3>1. (CHOOSE x \in T : TRUE) \in T
      BY <2>3
    <3>2. Cardinality(T \ {CHOOSE x \in T : TRUE}) = Cardinality(T) - 1
      BY <1>0, <3>1, FS_RemoveElement
    <3>3. Cardinality(T) \in Nat /\ Cardinality(T) <= n + 1
      BY <1>0
    <3> QED
      BY <3>2, <3>3
  <2>4. r = [T \in Small(n + 1) |->
               IF T = {} THEN 0 ELSE f[CHOOSE x \in T : TRUE] + r[T \ {CHOOSE x \in T : TRUE}]]
    <3>1. \A T \in Small(n + 1) : T # {} =>
            r[T \ {CHOOSE x \in T : TRUE}] = q[T \ {CHOOSE x \in T : TRUE}]
      BY <2>2, <2>3
    <3> DEFINE next == Small(n + 1)
    <3>2. \A T \in next : T # {} =>
            r[T \ {CHOOSE x \in T : TRUE}] = q[T \ {CHOOSE x \in T : TRUE}]
      BY <3>1
    <3>3. r = [T \in next |->
                 IF T = {} THEN 0 ELSE f[CHOOSE x \in T : TRUE] + q[T \ {CHOOSE x \in T : TRUE}]]
      OBVIOUS
    <3> HIDE DEF next, r, Small
    <3>4. r = [T \in next |->
                 IF T = {} THEN 0 ELSE f[CHOOSE x \in T : TRUE] + r[T \ {CHOOSE x \in T : TRUE}]]
      <4>1. \A T \in next :
               (IF T = {} THEN 0 ELSE f[CHOOSE x \in T : TRUE] + q[T \ {CHOOSE x \in T : TRUE}])
               = (IF T = {} THEN 0 ELSE f[CHOOSE x \in T : TRUE] + r[T \ {CHOOSE x \in T : TRUE}])
        BY <3>2
      <4>2. [T \in next |->
               IF T = {} THEN 0 ELSE f[CHOOSE x \in T : TRUE] + q[T \ {CHOOSE x \in T : TRUE}]]
            = [T \in next |->
                 IF T = {} THEN 0 ELSE f[CHOOSE x \in T : TRUE] + r[T \ {CHOOSE x \in T : TRUE}]]
        BY <4>1
      <4> QED
        BY <3>3, <4>2
    <3> QED
      BY <3>4 DEF next
  <2>5. IsSums(r, f, Small(n + 1))
    BY <2>4 DEF IsSums
  <2> HIDE DEF r, Small
  <2>6. \E p : IsSums(p, f, Small(n + 1))
    BY <2>5
  <2> QED
    BY <2>6 DEF L
<1> HIDE DEF L
<1>3. Nat \subseteq L
  BY <1>1, <1>2, NatSetInduction
<1>4. Cardinality(S) \in L
  BY <1>0, <1>3
<1>5. Small(Cardinality(S)) = SUBSET S
  BY FS_Subset
<1> QED
  BY <1>4, <1>5 DEF L

\* Sums satisfies its recursion equation.
LEMMA SumsDef ==
  ASSUME NEW f, NEW S, IsFiniteSet(S)
  PROVE  IsSums(Sums(f, S), f, SUBSET S)
BY SumsExist DEF Sums

\* The element that the recursion takes away may be any.
LEMMA SumsRemove ==
  ASSUME NEW f, NEW S, IsFiniteSet(S), \A x \in S : f[x] \in Int
  PROVE  \A T \in SUBSET S :
            /\ Sums(f, S)[T] \in Int
            /\ T = {} => Sums(f, S)[T] = 0
            /\ \A x \in T : Sums(f, S)[T] = f[x] + Sums(f, S)[T \ {x}]
<1> DEFINE q == Sums(f, S)
           I == {T \in SUBSET S : /\ q[T] \in Int
                                  /\ \A x \in T : q[T] = f[x] + q[T \ {x}]}
<1>1. \A T \in SUBSET S : q[T] =
         IF T = {} THEN 0 ELSE f[CHOOSE x \in T : TRUE] + q[T \ {CHOOSE x \in T : TRUE}]
  <2>1. IsSums(q, f, SUBSET S)
    BY SumsDef
  <2> HIDE DEF q
  <2> QED
    BY <2>1 DEF IsSums
<1> HIDE DEF q
<1>5. \A T \in SUBSET S : q[T] \in Int
  <2> DEFINE J == {T \in SUBSET S : q[T] \in Int}
  <2>1. ASSUME NEW T \in SUBSET S, \A x \in T : T \ {x} \in J PROVE T \in J
    <3>1. CASE T = {}
      <4>1. q[T] = 0
        BY <1>1, <3>1
      <4> QED
        BY <4>1
    <3>2. CASE T # {}
      <4>1. (CHOOSE x \in T : TRUE) \in T
        BY <3>2
      <4>2. f[CHOOSE x \in T : TRUE] \in Int /\ q[T \ {CHOOSE x \in T : TRUE}] \in Int
        BY <2>1, <4>1
      <4>3. q[T] = f[CHOOSE x \in T : TRUE] + q[T \ {CHOOSE x \in T : TRUE}]
        BY <1>1, <3>2
      <4>4. q[T] \in Int
        BY <4>2, <4>3
      <4> QED
        BY <4>4
    <3> QED
      BY <3>1, <3>2
  <2>2. \A T \in SUBSET S : T \in J
    <3> HIDE DEF J
    <3> QED
      BY <2>1, SubsetInduction
  <2> QED
    BY <2>2
<1>2. ASSUME NEW T \in SUBSET S, \A x \in T : T \ {x} \in I PROVE T \in I
  <2>1. CASE T = {}
    BY <1>5, <2>1
  <2>2. CASE T # {}
    <3> DEFINE c == CHOOSE x \in T : TRUE
    <3>1. c \in T
      BY <2>2
    <3>2. q[T] = f[c] + q[T \ {c}]
      BY <1>1, <2>2
    <3> HIDE DEF c
    <3>3. f[c] \in Int /\ q[T \ {c}] \in Int
      BY <1>2, <3>1
    <3>4. ASSUME NEW x \in T PROVE q[T] = f[x] + q[T \ {x}]
      <4>1. CASE x = c
        BY <3>2, <4>1
      <4>2. CASE x # c
        <5>1. q[T \ {c}] = f[x] + q[(T \ {c}) \ {x}]
          BY <1>2, <3>1, <4>2
        <5>2. q[T \ {x}] = f[c] + q[(T \ {x}) \ {c}]
          BY <1>2, <3>1, <4>2
        <5>3. (T \ {x}) \ {c} = (T \ {c}) \ {x}
          OBVIOUS
        <5>4. f[x] \in Int /\ q[T \ {x}] \in Int
          BY <1>2
        <5>5. q[(T \ {c}) \ {x}] \in Int
          BY <1>5
        <5>6. q[(T \ {x}) \ {c}] = q[(T \ {c}) \ {x}]
          BY <5>3
        <5> QED
          BY <3>2, <3>3, <5>1, <5>2, <5>4, <5>5, <5>6
      <4> QED
        BY <4>1, <4>2
    <3>5. q[T] \in Int
      BY <3>2, <3>3
    <3> QED
      BY <3>4, <3>5
  <2> QED
    BY <2>1, <2>2
<1>3. \A T \in SUBSET S : T \in I
  <2> HIDE DEF I
  <2> QED
    BY <1>2, SubsetInduction
<1>4. \A T \in SUBSET S : T = {} => q[T] = 0
  BY <1>1
<1> QED
  BY <1>3, <1>4, <1>5 DEF q

\* The sum over a set does not depend on the set in which it is computed.
LEMMA SumsSame ==
  ASSUME NEW f, NEW S, IsFiniteSet(S), NEW U \in SUBSET S
  PROVE  SumOver(f, U) = Sums(f, S)[U]
<1> DEFINE q == Sums(f, S)
           r == Sums(f, U)
           I == {T \in SUBSET U : r[T] = q[T]}
<1>1. IsFiniteSet(U)
  BY FS_Subset
<1>2. IsSums(q, f, SUBSET S) /\ IsSums(r, f, SUBSET U)
  BY <1>1, SumsDef
<1> HIDE DEF q, r
<1>3. /\ \A T \in SUBSET S : q[T] =
            IF T = {} THEN 0 ELSE f[CHOOSE x \in T : TRUE] + q[T \ {CHOOSE x \in T : TRUE}]
      /\ \A T \in SUBSET U : r[T] =
            IF T = {} THEN 0 ELSE f[CHOOSE x \in T : TRUE] + r[T \ {CHOOSE x \in T : TRUE}]
  BY <1>2 DEF IsSums
<1>4. ASSUME NEW T \in SUBSET U, \A x \in T : T \ {x} \in I PROVE T \in I
  <2>1. CASE T = {}
    BY <1>3, <2>1
  <2>2. CASE T # {}
    <3>1. (CHOOSE x \in T : TRUE) \in T
      BY <2>2
    <3>2. r[T \ {CHOOSE x \in T : TRUE}] = q[T \ {CHOOSE x \in T : TRUE}]
      BY <1>4, <3>1
    <3>3. T \in SUBSET S
      OBVIOUS
    <3> QED
      BY <1>3, <2>2, <3>2, <3>3
  <2> QED
    BY <2>1, <2>2
<1>5. \A T \in SUBSET U : T \in I
  <2> HIDE DEF I
  <2> QED
    BY <1>1, <1>4, SubsetInduction
<1> QED
  BY <1>5, SumOverIsSums DEF q, r

\* What a sum is.
LEMMA SumOverRule ==
  ASSUME NEW f, NEW S, IsFiniteSet(S), \A x \in S : f[x] \in Int
  PROVE  /\ SumOver(f, S) \in Int
         /\ S = {} => SumOver(f, S) = 0
         /\ \A x \in S : SumOver(f, S) = f[x] + SumOver(f, S \ {x})
<1>1. /\ Sums(f, S)[S] \in Int
      /\ S = {} => Sums(f, S)[S] = 0
      /\ \A x \in S : Sums(f, S)[S] = f[x] + Sums(f, S)[S \ {x}]
  BY SumsRemove
<1>2. SumOver(f, S) = Sums(f, S)[S] /\ \A x \in S : SumOver(f, S \ {x}) = Sums(f, S)[S \ {x}]
  BY SumsSame
<1> QED
  BY <1>1, <1>2

\* A sum only depends on the values in the set.
LEMMA SumOverSame ==
  ASSUME NEW f, NEW g, NEW S, IsFiniteSet(S), \A x \in S : f[x] \in Int /\ g[x] = f[x]
  PROVE  SumOver(g, S) = SumOver(f, S)
<1> DEFINE I == {T \in SUBSET S : SumOver(g, T) = SumOver(f, T)}
<1>1. ASSUME NEW T \in SUBSET S, \A x \in T : T \ {x} \in I PROVE T \in I
  <2>1. IsFiniteSet(T)
    BY FS_Subset
  <2>2. CASE T = {}
    BY <2>1, <2>2, SumOverRule
  <2>3. CASE T # {}
    <3>1. PICK x \in T : TRUE
      BY <2>3
    <3>2. SumOver(f, T) = f[x] + SumOver(f, T \ {x}) /\ SumOver(g, T) = g[x] + SumOver(g, T \ {x})
      BY <2>1, SumOverRule
    <3> QED
      BY <1>1, <3>2
  <2> QED
    BY <2>2, <2>3
<1>2. \A T \in SUBSET S : T \in I
  <2> HIDE DEF I
  <2> QED
    BY <1>1, SubsetInduction
<1> QED
  BY <1>2

\* A sum of naturals is a natural, and at least each of them.
LEMMA SumOverNat ==
  ASSUME NEW f, NEW S, IsFiniteSet(S), \A x \in S : f[x] \in Nat
  PROVE  /\ SumOver(f, S) \in Nat
         /\ \A x \in S : f[x] <= SumOver(f, S)
<1> DEFINE I == {T \in SUBSET S : SumOver(f, T) \in Nat}
<1>1. ASSUME NEW T \in SUBSET S, \A x \in T : T \ {x} \in I PROVE T \in I
  <2>1. IsFiniteSet(T)
    BY FS_Subset
  <2>2. CASE T = {}
    BY <2>1, <2>2, SumOverRule
  <2>3. CASE T # {}
    <3>1. PICK x \in T : TRUE
      BY <2>3
    <3>2. SumOver(f, T) = f[x] + SumOver(f, T \ {x})
      BY <2>1, SumOverRule
    <3> QED
      BY <1>1, <3>2
  <2> QED
    BY <2>2, <2>3
<1>2. \A T \in SUBSET S : T \in I
  <2> HIDE DEF I
  <2> QED
    BY <1>1, SubsetInduction
<1>3. ASSUME NEW x \in S PROVE f[x] <= SumOver(f, S)
  <2>1. SumOver(f, S) = f[x] + SumOver(f, S \ {x})
    BY SumOverRule
  <2>2. SumOver(f, S \ {x}) \in Nat /\ SumOver(f, S) \in Nat
    BY <1>2
  <2> QED
    BY <2>1, <2>2
<1> QED
  BY <1>2, <1>3

\* One value changes, and the sum by as much.
LEMMA SumOverUpdate ==
  ASSUME NEW f, NEW g, NEW S, IsFiniteSet(S), NEW x \in S,
         \A y \in S : f[y] \in Int /\ g[y] \in Int,
         \A y \in S : y # x => g[y] = f[y]
  PROVE  SumOver(g, S) = SumOver(f, S) + (g[x] - f[x])
<1>1. IsFiniteSet(S \ {x})
  BY FS_Subset
<1>2. SumOver(g, S \ {x}) = SumOver(f, S \ {x})
  BY <1>1, SumOverSame
<1>3. SumOver(f, S \ {x}) \in Int
  BY <1>1, SumOverRule
<1>4. SumOver(f, S) = f[x] + SumOver(f, S \ {x}) /\ SumOver(g, S) = g[x] + SumOver(g, S \ {x})
  BY SumOverRule
<1> QED
  BY <1>2, <1>3, <1>4

\* The values in a part change, and the sum by the sum of the changes.
LEMMA SumOverChange ==
  ASSUME NEW f, NEW g, NEW d, NEW S, IsFiniteSet(S), NEW C \in SUBSET S,
         \A x \in S : f[x] \in Int,
         \A x \in C : d[x] \in Int /\ g[x] = f[x] + d[x],
         \A x \in S \ C : g[x] = f[x]
  PROVE  SumOver(g, S) = SumOver(f, S) + SumOver(d, C)
<1> DEFINE I == {T \in SUBSET S : SumOver(g, T) = SumOver(f, T) + SumOver(d, T \cap C)}
<1>0. \A x \in S : g[x] \in Int
  OBVIOUS
<1>1. ASSUME NEW T \in SUBSET S, \A x \in T : T \ {x} \in I PROVE T \in I
  <2>1. IsFiniteSet(T) /\ IsFiniteSet(T \cap C)
    BY FS_Subset
  <2>2. CASE T = {}
    <3>1. T \cap C = {}
      BY <2>2
    <3> QED
      BY <1>0, <2>1, <2>2, <3>1, SumOverRule
  <2>3. CASE T # {}
    <3>1. PICK x \in T : TRUE
      BY <2>3
    <3>2. SumOver(f, T) = f[x] + SumOver(f, T \ {x}) /\ SumOver(g, T) = g[x] + SumOver(g, T \ {x})
      BY <1>0, <2>1, SumOverRule
    <3>3. SumOver(g, T \ {x}) = SumOver(f, T \ {x}) + SumOver(d, (T \ {x}) \cap C)
      BY <1>1
    <3>4. IsFiniteSet(T \ {x}) /\ IsFiniteSet((T \ {x}) \cap C)
      BY FS_Subset
    <3>5. SumOver(f, T \ {x}) \in Int /\ SumOver(d, (T \ {x}) \cap C) \in Int
      BY <3>4, SumOverRule
    <3>6. CASE x \in C
      <4>1. (T \ {x}) \cap C = (T \cap C) \ {x} /\ x \in T \cap C
        BY <3>6
      <4>2. SumOver(d, T \cap C) = d[x] + SumOver(d, (T \ {x}) \cap C)
        BY <2>1, <4>1, SumOverRule
      <4>3. g[x] = f[x] + d[x] /\ f[x] \in Int /\ d[x] \in Int
        BY <3>6
      <4> QED
        BY <3>2, <3>3, <3>5, <4>2, <4>3
    <3>7. CASE x \notin C
      <4>1. (T \ {x}) \cap C = T \cap C
        BY <3>7
      <4>2. g[x] = f[x] /\ f[x] \in Int
        BY <3>7
      <4>3. SumOver(d, T \cap C) = SumOver(d, (T \ {x}) \cap C)
        BY <4>1
      <4>4. SumOver(g, T) = SumOver(f, T) + SumOver(d, T \cap C)
        BY <3>2, <3>3, <3>5, <4>2, <4>3
      <4> QED
        BY <4>4
    <3> QED
      BY <3>6, <3>7
  <2> QED
    BY <2>2, <2>3
<1>2. \A T \in SUBSET S : T \in I
  <2> HIDE DEF I
  <2> QED
    BY <1>1, SubsetInduction
<1>3. S \cap C = C
  OBVIOUS
<1> QED
  BY <1>2, <1>3

\* The sum of zeros is 0.
LEMMA SumOverZero ==
  ASSUME NEW f, NEW S, IsFiniteSet(S), \A x \in S : f[x] = 0
  PROVE  SumOver(f, S) = 0
<1>1. \A x \in S : f[x] \in Int /\ f[x] = f[x] + f[x]
  OBVIOUS
<1>2. SumOver(f, S) = SumOver(f, S) + SumOver(f, S)
  <2>1. S \in SUBSET S /\ \A x \in S \ S : f[x] = f[x]
    OBVIOUS
  <2> QED
    BY <1>1, <2>1, SumOverChange
<1>3. SumOver(f, S) \in Int
  BY <1>1, SumOverRule
<1>4. \A n \in Int : n = n + n => n = 0
  OBVIOUS
<1> QED
  BY <1>2, <1>3, <1>4

\* The sum over a set is the sum over a part and the sum over the rest.
LEMMA SumOverSplit ==
  ASSUME NEW f, NEW S, IsFiniteSet(S), \A x \in S : f[x] \in Int, NEW T \in SUBSET S
  PROVE  SumOver(f, S) = SumOver(f, T) + SumOver(f, S \ T)
<1> DEFINE I == {R \in SUBSET S : SumOver(f, S) = SumOver(f, R) + SumOver(f, S \ R)}
<1>1. ASSUME NEW R \in SUBSET S, \A x \in R : R \ {x} \in I PROVE R \in I
  <2>1. \A U \in SUBSET S : IsFiniteSet(U) /\ SumOver(f, U) \in Int
    BY FS_Subset, SumOverRule
  <2>2. CASE R = {}
    <3>1. SumOver(f, R) = 0 /\ S \ R = S
      BY <2>1, <2>2, SumOverRule
    <3>2. SumOver(f, S) \in Int
      BY <2>1
    <3>3. SumOver(f, S \ R) = SumOver(f, S)
      BY <3>1
    <3>4. SumOver(f, S) = SumOver(f, R) + SumOver(f, S \ R)
      BY <3>1, <3>2, <3>3
    <3> QED
      BY <3>4
  <2>3. CASE R # {}
    <3>1. PICK x \in R : TRUE
      BY <2>3
    <3>2. SumOver(f, S) = SumOver(f, R \ {x}) + SumOver(f, S \ (R \ {x}))
      BY <1>1
    <3>3. SumOver(f, R) = f[x] + SumOver(f, R \ {x})
      BY <2>1, SumOverRule
    <3>4. SumOver(f, S \ (R \ {x})) = f[x] + SumOver(f, S \ R)
      <4>1. x \in S \ (R \ {x}) /\ (S \ (R \ {x})) \ {x} = S \ R
        OBVIOUS
      <4>2. SumOver(f, S \ (R \ {x})) = f[x] + SumOver(f, (S \ (R \ {x})) \ {x})
        BY <2>1, <4>1, SumOverRule
      <4> QED
        BY <4>1, <4>2
    <3>5. f[x] \in Int /\ SumOver(f, R \ {x}) \in Int /\ SumOver(f, S \ R) \in Int
      BY <2>1
    <3>6. SumOver(f, S) = SumOver(f, R) + SumOver(f, S \ R)
      BY <3>2, <3>3, <3>4, <3>5
    <3> QED
      BY <3>6
  <2> QED
    BY <2>2, <2>3
<1>2. \A R \in SUBSET S : R \in I
  <2> HIDE DEF I
  <2> QED
    BY <1>1, SubsetInduction
<1> QED
  BY <1>2

\* What is 0 outside a part sums to the sum over the part.
LEMMA SumOverPart ==
  ASSUME NEW f, NEW g, NEW S, IsFiniteSet(S), NEW T \in SUBSET S,
         \A x \in T : f[x] \in Int /\ g[x] = f[x], \A x \in S \ T : g[x] = 0
  PROVE  SumOver(g, S) = SumOver(f, T)
<1>1. \A x \in S : g[x] \in Int
  OBVIOUS
<1>2. IsFiniteSet(T) /\ IsFiniteSet(S \ T)
  BY FS_Subset
<1>3. SumOver(g, S) = SumOver(g, T) + SumOver(g, S \ T)
  BY <1>1, SumOverSplit
<1>4. SumOver(g, T) = SumOver(f, T) /\ SumOver(f, T) \in Int
  BY <1>2, SumOverSame, SumOverRule
<1>5. SumOver(g, S \ T) = 0
  BY <1>2, SumOverZero
<1> QED
  BY <1>3, <1>4, <1>5

\* Two sums are added value by value.
LEMMA SumToPlus ==
  ASSUME NEW N0 \in Nat, NEW f \in [1 .. N0 -> Int], NEW g \in [1 .. N0 -> Int], NEW h,
         \A i \in 1 .. N0 : h[i] = f[i] + g[i]
  PROVE  SumTo(h, N0) = SumTo(f, N0) + SumTo(g, N0)
<1> DEFINE S == {n \in Nat : /\ SumTo(h, n) = SumTo(f, n) + SumTo(g, n)
                             /\ SumTo(f, n) \in Int /\ SumTo(g, n) \in Int}
<1>1. 0 \in S
  BY SumToZero
<1>2. ASSUME NEW n \in 0 .. N0 - 1, n \in S PROVE n + 1 \in S
  <2>1. n \in Nat /\ n + 1 \in 1 .. N0
    OBVIOUS
  <2>2. /\ SumTo(h, n + 1) = SumTo(h, n) + h[n + 1]
        /\ SumTo(f, n + 1) = SumTo(f, n) + f[n + 1]
        /\ SumTo(g, n + 1) = SumTo(g, n) + g[n + 1]
    BY <2>1, SumToSucc
  <2>3. f[n + 1] \in Int /\ g[n + 1] \in Int /\ h[n + 1] = f[n + 1] + g[n + 1]
    BY <2>1
  <2> QED
    BY <1>2, <2>1, <2>2, <2>3
<1>3. N0 \in S
  <2> HIDE DEF S
  <2> QED
    BY <1>1, <1>2, UpToInduction
<1> QED
  BY <1>3
=============================================================================
