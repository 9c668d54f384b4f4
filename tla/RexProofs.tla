----------------------------- MODULE RexProofs -----------------------------
(***************************************************************************)
(* Proofs about Rex, for any accounts, amounts, loan term, bounds on loans *)
(* and time.  Inv is the inductive invariant of RexInvariant.              *)
(*                                                                         *)
(* Inv is stronger than the properties where a step needs more:            *)
(*   - a sale takes no more than the row has matured, since open orders    *)
(*     are covered, and matured shares and buckets add up;                 *)
(*   - a renewal or a closed loan takes from the weight of the receiver    *)
(*     what the loan put there, so the check on it holds;                  *)
(*   - the buckets are in order only because none but the savings matures  *)
(*     later than what is bought now (Ordered);                            *)
(*   - the pool has shares exactly if it has tokens, so that no division   *)
(*     is by zero and a price is one of positive numbers.                  *)
(*                                                                         *)
(* The argument: runrex keeps good tables good and never fails (the        *)
(* sections on loans, orders and maintenance); each action, from tables    *)
(* that runrex left, commits good tables in a step which keeps the price,  *)
(* lends nothing past an order, and keeps the claims to votes (Steps);     *)
(* so each disjunct of Next is Done, which is InvStep.  The theorems then  *)
(* read the properties off Inv and Steps.                                  *)
(*                                                                         *)
(* The last part is about one row of rexbal over any number of days:       *)
(* View is what the row promises at a time, each operator of RexMaturities *)
(* changes the view as the action of RexVesting says, and so RexLockup     *)
(* implements RexVesting.                                                  *)
(***************************************************************************)
EXTENDS RexInvariant, FunSumsProofs, TLAPS

-----------------------------------------------------------------------------
(* Rows of buckets.                                                        *)

SecondsOf(buckets) == [i \in 1 .. Len(buckets) |-> buckets[i].second]

\* What the buckets hold, as a function.
LEMMA SecondsType ==
  ASSUME NEW b \in Seq(BucketRows)
  PROVE  SecondsOf(b) \in [1 .. Len(b) -> Nat] /\ SecondsOf(b) \in [1 .. Len(b) -> Int] /\ Len(b) \in Nat
<1>1. Len(b) \in Nat /\ \A i \in 1 .. Len(b) : b[i] \in BucketRows
  OBVIOUS
<1>2. \A i \in 1 .. Len(b) : b[i].second \in Nat
  BY <1>1 DEF BucketRows
<1>3. SecondsOf(b) \in [1 .. Len(b) -> Nat]
  BY <1>2 DEF SecondsOf
<1>4. SecondsOf(b) \in [1 .. Len(b) -> Int]
  BY <1>2 DEF SecondsOf
<1> QED
  BY <1>1, <1>3, <1>4

\* What buckets hold is a natural number, and no less than any one of them.
LEMMA BucketsNat ==
  ASSUME NEW b \in Seq(BucketRows)
  PROVE  InBuckets(b) \in Nat /\ \A i \in 1 .. Len(b) : b[i].second <= InBuckets(b)
<1>1. InBuckets(b) = SumTo(SecondsOf(b), Len(b))
  BY DEF InBuckets, SecondsOf
<1>2. ASSUME NEW i \in 1 .. Len(b) PROVE b[i].second <= InBuckets(b)
  <2>1. SecondsOf(b)[i] <= SumTo(SecondsOf(b), Len(b))
    BY SecondsType, SumToBoundsValue
  <2> QED
    BY <1>1, <2>1 DEF SecondsOf
<1> QED
  BY <1>1, <1>2, SecondsType, SumToNat

\* Buckets that are cut in two hold what the two parts hold.
LEMMA BucketsSplit ==
  ASSUME NEW b \in Seq(BucketRows), NEW c \in Seq(BucketRows), NEW d \in Seq(BucketRows),
         Len(b) = Len(c) + Len(d),
         \A i \in 1 .. Len(c) : b[i] = c[i],
         \A i \in 1 .. Len(d) : b[Len(c) + i] = d[i]
  PROVE  InBuckets(b) = InBuckets(c) + InBuckets(d)
<1> DEFINE m == Len(c)
           n == Len(d)
           f == SecondsOf(b)
           g == SecondsOf(c)
           h == SecondsOf(d)
<1>1. m \in Nat /\ n \in Nat /\ f \in [1 .. m + n -> Int] /\ h \in [1 .. n -> Int]
  BY SecondsType
<1>2. \A i \in 1 .. n : h[i] = f[m + i]
  BY <1>1 DEF SecondsOf
<1>3. \A i \in 1 .. m : f[i] = g[i]
  BY <1>1 DEF SecondsOf
<1>4. InBuckets(b) = SumTo(f, m + n) /\ InBuckets(c) = SumTo(g, m) /\ InBuckets(d) = SumTo(h, n)
  BY DEF InBuckets, SecondsOf
<1> HIDE DEF f, g, h, m, n
<1>5. SumTo(f, m + n) = SumTo(f, m) + SumTo(h, n)
  BY <1>1, <1>2, SumToShift
<1>6. SumTo(f, m) = SumTo(g, m)
  BY <1>1, <1>3, SumToPrefix
<1> QED
  BY <1>4, <1>5, <1>6

\* No buckets hold nothing.
LEMMA NoBuckets == InBuckets(<< >>) = 0
<1>1. Len(<< >>) = 0
  OBVIOUS
<1> QED
  BY <1>1, SumToZero DEF InBuckets

\* A single bucket holds what is in it.
LEMMA OneBucket ==
  ASSUME NEW e \in BucketRows
  PROVE  InBuckets(<< e >>) = e.second /\ << e >> \in Seq(BucketRows)
<1> DEFINE f == SecondsOf(<< e >>)
<1>1. << e >> \in Seq(BucketRows) /\ Len(<< e >>) = 1 /\ << e >>[1] = e /\ e.second \in Nat
  BY DEF BucketRows
<1>2. f \in [1 .. 1 -> Int] /\ f[1] = e.second
  BY <1>1 DEF SecondsOf
<1>3. InBuckets(<< e >>) = SumTo(f, 1)
  BY <1>1 DEF InBuckets, SecondsOf
<1> HIDE DEF f
<1>4. 1 \in Nat /\ 1 \in 1 .. 1 /\ e.second \in Int /\ \A i \in 1 .. 1 : i # 1 => f[i] = 0
  BY <1>1
<1>5. SumTo(f, 1) = e.second
  BY <1>2, <1>4, SumToSingle
<1> QED
  BY <1>1, <1>3, <1>5

\* A bucket made of a maturity and an amount.
LEMMA BucketType ==
  ASSUME NEW maturity \in Int, NEW rex \in Nat
  PROVE  /\ Bucket(maturity, rex) \in BucketRows
         /\ Bucket(maturity, rex).first = maturity /\ Bucket(maturity, rex).second = rex
BY DEF Bucket, BucketRows

\* A bucket appended to the others adds what it holds.
LEMMA AppendedBucket ==
  ASSUME NEW b \in Seq(BucketRows), NEW e \in BucketRows
  PROVE  /\ Append(b, e) \in Seq(BucketRows)
         /\ b \o << e >> = Append(b, e)
         /\ Len(Append(b, e)) = Len(b) + 1
         /\ \A i \in 1 .. Len(b) : Append(b, e)[i] = b[i]
         /\ Append(b, e)[Len(b) + 1] = e
         /\ InBuckets(Append(b, e)) = InBuckets(b) + e.second
<1> DEFINE d == Append(b, e)
<1>1. /\ d \in Seq(BucketRows) /\ Len(d) = Len(b) + 1 /\ Len(b) \in Nat
      /\ \A i \in 1 .. Len(b) : d[i] = b[i]
      /\ d[Len(b) + 1] = e
  OBVIOUS
<1>2. /\ << e >> \in Seq(BucketRows) /\ Len(<< e >>) = 1
      /\ \A i \in 1 .. 1 : << e >>[i] = e
  OBVIOUS
<1>3. b \o << e >> = d
  OBVIOUS
<1> HIDE DEF d
<1>4. \A i \in 1 .. Len(<< e >>) : d[Len(b) + i] = << e >>[i]
  BY <1>1, <1>2
<1>5. InBuckets(d) = InBuckets(b) + InBuckets(<< e >>)
  BY <1>1, <1>2, <1>4, BucketsSplit
<1> QED
  BY <1>1, <1>3, <1>5, OneBucket DEF d

\* Buckets cut after the n-th.
LEMMA CutBuckets ==
  ASSUME NEW b \in Seq(BucketRows), NEW n \in 0 .. Len(b)
  PROVE  LET c == SubSeq(b, 1, n)
             d == SubSeq(b, n + 1, Len(b))
         IN  /\ c \in Seq(BucketRows) /\ Len(c) = n /\ \A i \in 1 .. n : c[i] = b[i]
             /\ d \in Seq(BucketRows) /\ Len(d) = Len(b) - n
             /\ \A i \in 1 .. Len(b) - n : d[i] = b[n + i]
             /\ InBuckets(b) = InBuckets(c) + InBuckets(d)
<1> DEFINE c == SubSeq(b, 1, n)
           d == SubSeq(b, n + 1, Len(b))
<1>1. Len(b) \in Nat /\ n \in Nat /\ n <= Len(b)
  OBVIOUS
<1>2. c \in Seq(BucketRows) /\ Len(c) = n /\ \A i \in 1 .. n : c[i] = b[i]
  BY <1>1
<1>3. /\ d \in Seq(BucketRows) /\ Len(d) = Len(b) - n
      /\ \A i \in 1 .. Len(b) - n : d[i] = b[n + i]
  BY <1>1
<1> HIDE DEF c, d
<1>4. /\ Len(b) = Len(c) + Len(d)
      /\ \A i \in 1 .. Len(c) : b[i] = c[i]
      /\ \A i \in 1 .. Len(d) : b[Len(c) + i] = d[i]
  BY <1>1, <1>2, <1>3
<1>5. InBuckets(b) = InBuckets(c) + InBuckets(d)
  BY <1>2, <1>3, <1>4, BucketsSplit
<1> QED
  BY <1>2, <1>3, <1>5 DEF c, d

\* The buckets without the last one hold that much less.
LEMMA WithoutLast ==
  ASSUME NEW b \in Seq(BucketRows), b # << >>
  PROVE  /\ Front(b) \in Seq(BucketRows) /\ Last(b) \in BucketRows
         /\ Len(Front(b)) = Len(b) - 1 /\ Len(b) >= 1 /\ Len(b) \in Nat
         /\ \A i \in 1 .. Len(b) - 1 : Front(b)[i] = b[i]
         /\ InBuckets(b) = InBuckets(Front(b)) + Last(b).second
         /\ Last(b) = b[Len(b)]
<1> DEFINE c == Front(b)
           e == Last(b)
<1>1. Len(b) \in Nat /\ Len(b) >= 1
  OBVIOUS
<1>2. /\ c \in Seq(BucketRows) /\ Len(c) = Len(b) - 1
      /\ \A i \in 1 .. Len(b) - 1 : c[i] = b[i]
  <2>1. Len(b) - 1 \in 0 .. Len(b)
    BY <1>1
  <2>2. c = SubSeq(b, 1, Len(b) - 1)
    BY DEF Front
  <2>3. /\ SubSeq(b, 1, Len(b) - 1) \in Seq(BucketRows)
        /\ Len(SubSeq(b, 1, Len(b) - 1)) = Len(b) - 1
        /\ \A i \in 1 .. Len(b) - 1 : SubSeq(b, 1, Len(b) - 1)[i] = b[i]
    BY <2>1, CutBuckets, Zenon
  <2> QED
    BY <2>2, <2>3
<1>3. e = b[Len(b)] /\ e \in BucketRows
  BY <1>1 DEF Last
<1>4. << e >> \in Seq(BucketRows) /\ Len(<< e >>) = 1 /\ \A i \in 1 .. 1 : << e >>[i] = e
  BY <1>3
<1> HIDE DEF c, e
<1>5. /\ Len(b) = Len(c) + Len(<< e >>)
      /\ \A i \in 1 .. Len(c) : b[i] = c[i]
      /\ \A i \in 1 .. Len(<< e >>) : b[Len(c) + i] = << e >>[i]
  BY <1>1, <1>2, <1>3, <1>4
<1>6. InBuckets(b) = InBuckets(c) + InBuckets(<< e >>)
  BY <1>2, <1>4, <1>5, BucketsSplit
<1> QED
  BY <1>1, <1>2, <1>3, <1>6, OneBucket DEF c, e

-----------------------------------------------------------------------------
(* What the helpers of RexMaturities do to a row.                          *)

\* What is bought matures no earlier when it is bought later, and before the end of days.
LEMMA MaturityGrows ==
  ASSUME NEW t \in Nat
  PROVE  /\ get_rex_maturity(t) \in Int
         /\ get_rex_maturity(t) <= get_rex_maturity(t + 1)
         /\ t <= MaxTime => get_rex_maturity(t) < EndOfDays
<1> DEFINE q == t \div Day
           r == t % Day
           q1 == (t + 1) \div Day
           r1 == (t + 1) % Day
           b == Buckets * Day
<1>1. Day \in Nat /\ Day > 0 /\ b \in Nat /\ t + 1 \in Nat
  BY DayAssumption, BucketsAssumption
<1>2. q \in Nat /\ r \in 0 .. Day - 1 /\ t = Day * q + r
  BY <1>1
<1>3. q1 \in Nat /\ r1 \in 0 .. Day - 1 /\ t + 1 = Day * q1 + r1
  BY <1>1
<1>4. get_rex_maturity(t) = t - r + b /\ get_rex_maturity(t + 1) = (t + 1) - r1 + b
  BY <1>1 DEF get_rex_maturity
<1>5. MaxTime + b < EndOfDays /\ MaxTime \in Nat /\ EndOfDays \in Nat
  BY TimeAssumption
<1> HIDE DEF q, r, q1, r1, b
<1>6. t - r <= t + 1 - r1
  <2>1. ASSUME q1 < q PROVE FALSE
    <3>1. q1 + 1 <= q
      BY <1>2, <1>3, <2>1
    <3>2. Day * (q1 + 1) <= Day * q
      BY <1>1, <1>2, <1>3, <3>1
    <3>3. Day * (q1 + 1) = Day * q1 + Day
      BY <1>1, <1>3
    <3>4. Day * q1 \in Int /\ Day * q \in Int
      BY <1>1, <1>2, <1>3
    <3> QED
      BY <1>1, <1>2, <1>3, <3>2, <3>3, <3>4
  <2>2. q <= q1
    BY <1>2, <1>3, <2>1
  <2>3. Day * q <= Day * q1
    BY <1>1, <1>2, <1>3, <2>2
  <2>4. Day * q1 \in Int /\ Day * q \in Int
    BY <1>1, <1>2, <1>3
  <2> QED
    BY <1>2, <1>3, <2>3, <2>4
<1> QED
  BY <1>1, <1>2, <1>3, <1>4, <1>5, <1>6

\* REX put into the last bucket, or into a new one after it, is added to the row.
LEMMA PutLastFacts ==
  ASSUME NEW b \in Seq(BucketRows), NEW maturity \in Int, NEW rex \in Nat
  PROVE  LET c == PutLast(b, maturity, rex) IN
         /\ c \in Seq(BucketRows)
         /\ InBuckets(c) = InBuckets(b) + rex
         /\ Len(c) \in Nat /\ Len(c) >= 1 /\ c[Len(c)].first = maturity
         /\ \/ Len(c) = Len(b) + 1 /\ ~ EndsAt(b, maturity)
            \/ Len(c) = Len(b) /\ b # << >> /\ b[Len(b)].first = maturity
         /\ \A i \in 1 .. Len(b) : c[i].first = b[i].first
<1> DEFINE c == PutLast(b, maturity, rex)
<1>1. CASE EndsAt(b, maturity)
  <2> DEFINE e == Bucket(maturity, Last(b).second + rex)
             f == Front(b)
  <2>1. b # << >> /\ Last(b).first = maturity
    BY <1>1 DEF EndsAt
  <2>2. /\ f \in Seq(BucketRows) /\ Last(b) \in BucketRows
        /\ Len(f) = Len(b) - 1 /\ Len(b) >= 1 /\ Len(b) \in Nat
        /\ \A i \in 1 .. Len(b) - 1 : f[i] = b[i]
        /\ InBuckets(b) = InBuckets(f) + Last(b).second
        /\ Last(b) = b[Len(b)]
    BY <2>1, WithoutLast
  <2>3. Last(b).second \in Nat /\ Last(b).second + rex \in Nat
    BY <2>2 DEF BucketRows
  <2>4. e \in BucketRows /\ e.first = maturity /\ e.second = Last(b).second + rex
    BY <2>3, BucketType
  <2>5. c = f \o << e >>
    BY <1>1 DEF PutLast
  <2> HIDE DEF e, f, c
  <2>6. /\ c \in Seq(BucketRows) /\ Len(c) = Len(f) + 1
        /\ \A i \in 1 .. Len(f) : c[i] = f[i]
        /\ c[Len(f) + 1] = e
        /\ InBuckets(c) = InBuckets(f) + e.second
    <3>1. c = Append(f, e)
      BY <2>2, <2>4, <2>5, AppendedBucket
    <3> QED
      BY <2>2, <2>4, <3>1, AppendedBucket, Zenon
  <2>7. InBuckets(f) \in Nat
    BY <2>2, BucketsNat
  <2>8. InBuckets(c) = InBuckets(b) + rex
    BY <2>2, <2>3, <2>4, <2>6, <2>7
  <2>9. Len(c) = Len(b) /\ c[Len(c)] = e
    BY <2>2, <2>6
  <2>10. \A i \in 1 .. Len(b) : c[i].first = b[i].first
    <3> TAKE i \in 1 .. Len(b)
    <3>1. CASE i = Len(b)
      BY <2>1, <2>2, <2>4, <2>9, <3>1
    <3>2. CASE i # Len(b)
      BY <2>2, <2>6, <3>2
    <3> QED
      BY <3>1, <3>2
  <2> QED
    BY <2>1, <2>2, <2>4, <2>6, <2>8, <2>9, <2>10 DEF c
<1>2. CASE ~ EndsAt(b, maturity)
  <2> DEFINE e == Bucket(maturity, rex)
  <2>1. c = Append(b, e)
    BY <1>2 DEF PutLast
  <2>2. e \in BucketRows /\ e.first = maturity /\ e.second = rex
    BY BucketType
  <2> HIDE DEF e, c
  <2>3. /\ c \in Seq(BucketRows) /\ Len(c) = Len(b) + 1
        /\ \A i \in 1 .. Len(b) : c[i] = b[i]
        /\ c[Len(b) + 1] = e
        /\ InBuckets(c) = InBuckets(b) + e.second
    BY <2>1, <2>2, AppendedBucket, Zenon
  <2>4. Len(b) \in Nat
    OBVIOUS
  <2>5. Len(c) \in Nat /\ Len(c) >= 1
    BY <2>3, <2>4
  <2> QED
    BY <1>2, <2>2, <2>3, <2>5 DEF c
<1> QED
  BY <1>1, <1>2

\* Bought REX joins the last bucket or follows it.
LEMMA PutMaturity ==
  ASSUME NEW t \in Nat, NEW b, Plain(b, t), NEW rex \in Nat
  PROVE  /\ Plain(PutLast(b, get_rex_maturity(t), rex), t)
         /\ InBuckets(PutLast(b, get_rex_maturity(t), rex)) = InBuckets(b) + rex
<1> DEFINE m == get_rex_maturity(t)
           c == PutLast(b, m, rex)
<1>1. b \in Seq(BucketRows) /\ m \in Int /\ Len(b) \in Nat
  <2>1. b \in Seq(BucketRows)
    BY DEF Plain
  <2> QED
    BY <2>1, MaturityGrows
<1>2. \A i \in 1 .. Len(b) : b[i].first \in Int /\ b[i].first <= m
  <2>1. \A i \in 1 .. Len(b) : b[i] \in BucketRows
    BY <1>1
  <2>2. \A i \in 1 .. Len(b) : b[i].first \in Int
    BY <2>1 DEF BucketRows
  <2> QED
    BY <2>2 DEF Plain
<1>3. \A i, j \in 1 .. Len(b) : i < j => b[i].first < b[j].first
  BY DEF Plain, Increasing
<1> HIDE DEF m
<1>4. /\ c \in Seq(BucketRows)
      /\ InBuckets(c) = InBuckets(b) + rex
      /\ Len(c) \in Nat /\ Len(c) >= 1 /\ c[Len(c)].first = m
      /\ \/ Len(c) = Len(b) + 1 /\ ~ EndsAt(b, m)
         \/ Len(c) = Len(b) /\ b # << >> /\ b[Len(b)].first = m
      /\ \A i \in 1 .. Len(b) : c[i].first = b[i].first
  BY <1>1, PutLastFacts
<1> HIDE DEF c
<1>5. CASE Len(c) = Len(b)
  BY <1>1, <1>2, <1>3, <1>4, <1>5 DEF Plain, Increasing, m, c
<1>6. CASE Len(c) = Len(b) + 1 /\ ~ EndsAt(b, m)
  <2>1. ASSUME NEW i \in 1 .. Len(b) PROVE b[i].first < m
    <3>1. Len(b) \in 1 .. Len(b) /\ b # << >> /\ Last(b) = b[Len(b)]
      BY <1>1, <2>1 DEF Last
    <3>2. b[Len(b)].first # m
      BY <1>6, <3>1 DEF EndsAt
    <3>3. b[Len(b)].first < m
      BY <1>1, <1>2, <3>1, <3>2
    <3>4. CASE i = Len(b)
      BY <3>3, <3>4
    <3>5. CASE i # Len(b)
      <4>1. b[i].first < b[Len(b)].first
        BY <1>1, <1>3, <3>1, <3>5
      <4> QED
        BY <1>1, <1>2, <3>1, <3>3, <4>1
    <3> QED
      BY <3>4, <3>5
  <2>2. ASSUME NEW i \in 1 .. Len(c), NEW j \in 1 .. Len(c), i < j
        PROVE  c[i].first < c[j].first
    <3>1. i \in 1 .. Len(b) /\ c[i].first = b[i].first
      BY <1>1, <1>4, <1>6, <2>2
    <3>2. CASE j = Len(c)
      BY <1>4, <2>1, <3>1, <3>2
    <3>3. CASE j # Len(c)
      <4>1. j \in 1 .. Len(b) /\ c[j].first = b[j].first
        BY <1>1, <1>4, <1>6, <3>3
      <4> QED
        BY <1>3, <2>2, <3>1, <4>1
    <3> QED
      BY <3>2, <3>3
  <2>3. \A i \in 1 .. Len(c) : c[i].first <= m
    BY <1>1, <1>2, <1>4, <1>6
  <2> QED
    BY <1>4, <2>2, <2>3 DEF Plain, Increasing, m, c
<1> QED
  BY <1>4, <1>5, <1>6 DEF m, c

\* The savings follow everything else.
LEMMA PutSavings ==
  ASSUME NEW t \in 0 .. MaxTime, NEW rb \in BalanceRows, Plain(rb.rex_maturities, t), NEW rex \in Nat
  PROVE  LET r == put_rex_savings(rb, rex) IN
         /\ r \in BalanceRows
         /\ r = [rb EXCEPT !.rex_maturities = r.rex_maturities]
         /\ Ordered(r.rex_maturities, t)
         /\ InBuckets(r.rex_maturities) = InBuckets(rb.rex_maturities) + rex
<1> DEFINE b == rb.rex_maturities
           r == put_rex_savings(rb, rex)
           c == r.rex_maturities
           m == get_rex_maturity(t)
<1>1. /\ b \in Seq(BucketRows) /\ Len(b) \in Nat
      /\ \A i, j \in 1 .. Len(b) : i < j => b[i].first < b[j].first
      /\ \A i \in 1 .. Len(b) : b[i].first <= m
  BY DEF Plain, Increasing
<1>2. \A i \in 1 .. Len(b) : b[i].first \in Int
  <2>1. \A i \in 1 .. Len(b) : b[i] \in BucketRows
    BY <1>1
  <2> QED
    BY <2>1 DEF BucketRows
<1>3. MaxTime \in Nat /\ EndOfDays \in Nat /\ m \in Int /\ m < EndOfDays
  <2>1. MaxTime \in Nat /\ EndOfDays \in Nat
    BY TimeAssumption
  <2>2. t \in Nat /\ t <= MaxTime
    BY <2>1
  <2> QED
    BY <2>1, <2>2, MaturityGrows
<1>4. CASE rex = 0
  <2>1. r = rb
    BY <1>4 DEF put_rex_savings
  <2>2. InBuckets(b) \in Nat
    BY <1>1, BucketsNat
  <2>3. Ordered(b, t)
    BY <1>1 DEF Ordered
  <2>4. rb = [rb EXCEPT !.rex_maturities = rb.rex_maturities]
    BY DEF BalanceRows
  <2> QED
    BY <1>4, <2>1, <2>2, <2>3, <2>4
<1>5. CASE rex # 0
  <2> DEFINE d == PutLast(b, EndOfDays, rex)
  <2>1. r = [rb EXCEPT !.rex_maturities = d]
    BY <1>5 DEF put_rex_savings
  <2>2. /\ d \in Seq(BucketRows)
        /\ InBuckets(d) = InBuckets(b) + rex
        /\ Len(d) \in Nat /\ Len(d) >= 1 /\ d[Len(d)].first = EndOfDays
        /\ \/ Len(d) = Len(b) + 1 /\ ~ EndsAt(b, EndOfDays)
           \/ Len(d) = Len(b) /\ b # << >> /\ b[Len(b)].first = EndOfDays
        /\ \A i \in 1 .. Len(b) : d[i].first = b[i].first
    BY <1>1, <1>3, PutLastFacts
  <2> HIDE DEF d
  <2>3. r \in BalanceRows /\ c = d
    BY <2>1, <2>2 DEF BalanceRows
  <2>4. Len(d) = Len(b) + 1
    <3>1. ASSUME b # << >>, b[Len(b)].first = EndOfDays PROVE FALSE
      <4>1. Len(b) \in 1 .. Len(b)
        BY <1>1, <3>1
      <4> QED
        BY <1>1, <1>2, <1>3, <3>1, <4>1
    <3> QED
      BY <2>2, <3>1
  <2>5. ASSUME NEW i \in 1 .. Len(d), NEW j \in 1 .. Len(d), i < j
        PROVE  d[i].first < d[j].first
    <3>1. i \in 1 .. Len(b) /\ d[i].first = b[i].first
      BY <1>1, <2>2, <2>4, <2>5
    <3>2. d[i].first \in Int /\ d[i].first < EndOfDays
      BY <1>1, <1>2, <1>3, <3>1
    <3>3. CASE j \in 1 .. Len(b)
      BY <1>1, <2>2, <2>5, <3>1, <3>3
    <3>4. CASE j \notin 1 .. Len(b)
      <4>1. j = Len(d)
        BY <1>1, <2>2, <2>4, <3>4
      <4> QED
        BY <2>2, <3>2, <4>1
    <3> QED
      BY <3>3, <3>4
  <2>6. ASSUME NEW i \in 1 .. Len(d)
        PROVE  d[i].first <= m \/ (i = Len(d) /\ d[i].first = EndOfDays)
    <3>1. CASE i \in 1 .. Len(b)
      BY <1>1, <2>2, <3>1
    <3>2. CASE i \notin 1 .. Len(b)
      <4>1. i = Len(d)
        BY <1>1, <2>2, <2>4, <3>2
      <4> QED
        BY <2>2, <4>1
    <3> QED
      BY <3>1, <3>2
  <2>7. Ordered(d, t)
    BY <2>5, <2>6 DEF Ordered, m
  <2> QED
    BY <2>1, <2>2, <2>3, <2>7
<1> QED
  BY <1>4, <1>5

\* Taking the savings out leaves a plain row.
LEMMA TakeSavings ==
  ASSUME NEW t \in Nat, NEW rb \in BalanceRows, Ordered(rb.rex_maturities, t)
  PROVE  LET r == WithoutSavings(rb) IN
         /\ r \in BalanceRows
         /\ r = [rb EXCEPT !.rex_maturities = r.rex_maturities]
         /\ Plain(r.rex_maturities, t)
         /\ read_rex_savings(rb) \in Nat
         /\ InBuckets(rb.rex_maturities) = InBuckets(r.rex_maturities) + read_rex_savings(rb)
<1> DEFINE b == rb.rex_maturities
           r == WithoutSavings(rb)
           m == get_rex_maturity(t)
<1>1. b \in Seq(BucketRows)
  BY DEF BalanceRows
<1>2. /\ Len(b) \in Nat
      /\ \A i, j \in 1 .. Len(b) : i < j => b[i].first < b[j].first
      /\ \A i \in 1 .. Len(b) : b[i].first <= m \/ (i = Len(b) /\ b[i].first = EndOfDays)
  <2>1. Len(b) \in Nat
    BY <1>1
  <2> QED
    BY <2>1 DEF Ordered
<1>3. CASE EndsAt(b, EndOfDays)
  <2> DEFINE f == Front(b)
  <2>1. r = [rb EXCEPT !.rex_maturities = f] /\ read_rex_savings(rb) = Last(b).second
    BY <1>3 DEF WithoutSavings, read_rex_savings
  <2>2. b # << >>
    BY <1>3 DEF EndsAt
  <2>3. /\ f \in Seq(BucketRows) /\ Last(b) \in BucketRows
        /\ Len(f) = Len(b) - 1 /\ Len(b) >= 1
        /\ \A i \in 1 .. Len(b) - 1 : f[i] = b[i]
        /\ InBuckets(b) = InBuckets(f) + Last(b).second
    BY <1>1, <2>2, WithoutLast
  <2> HIDE DEF f
  <2>4. r \in BalanceRows /\ r.rex_maturities = f
    BY <2>1, <2>3 DEF BalanceRows
  <2>5. ASSUME NEW i \in 1 .. Len(f), NEW j \in 1 .. Len(f), i < j
        PROVE  f[i].first < f[j].first
    <3>1. /\ i \in 1 .. Len(b) - 1 /\ j \in 1 .. Len(b) - 1
          /\ i \in 1 .. Len(b) /\ j \in 1 .. Len(b)
      BY <1>2, <2>3
    <3>2. f[i] = b[i] /\ f[j] = b[j]
      BY <2>3, <3>1
    <3> QED
      BY <1>2, <2>5, <3>1, <3>2
  <2>6. \A i \in 1 .. Len(f) : f[i].first <= m
    BY <1>2, <2>3
  <2>7. Plain(f, t)
    BY <2>3, <2>5, <2>6 DEF Plain, Increasing
  <2>8. Last(b).second \in Nat
    BY <2>3 DEF BucketRows
  <2> QED
    BY <2>1, <2>3, <2>4, <2>7, <2>8
<1>4. CASE ~ EndsAt(b, EndOfDays)
  <2>1. r = rb /\ read_rex_savings(rb) = 0
    BY <1>4 DEF WithoutSavings, read_rex_savings
  <2>2. \A i \in 1 .. Len(b) : b[i].first <= m
    <3> TAKE i \in 1 .. Len(b)
    <3>1. ASSUME i = Len(b), b[i].first = EndOfDays PROVE FALSE
      <4>1. b # << >> /\ Last(b) = b[Len(b)]
        BY <1>1, <1>2, <3>1 DEF Last
      <4> QED
        BY <1>4, <3>1, <4>1 DEF EndsAt
    <3> QED
      BY <1>2, <3>1
  <2>3. Plain(b, t)
    BY <1>1, <1>2, <2>2 DEF Plain, Increasing
  <2>4. InBuckets(b) \in Nat
    BY <1>1, BucketsNat
  <2>5. rb = [rb EXCEPT !.rex_maturities = rb.rex_maturities]
    BY DEF BalanceRows
  <2> QED
    BY <2>1, <2>3, <2>4, <2>5
<1> QED
  BY <1>3, <1>4

\* What matures moves from the buckets to the matured REX; the rest keeps its order.
LEMMA ProcessRow ==
  ASSUME NEW t \in Nat, NEW rb \in BalanceRows
  PROVE  LET r == process_rex_maturities(rb, t) IN
         /\ r \in BalanceRows
         /\ r = [rb EXCEPT !.matured_rex = r.matured_rex, !.rex_maturities = r.rex_maturities]
         /\ r.matured_rex + InBuckets(r.rex_maturities) = rb.matured_rex + InBuckets(rb.rex_maturities)
         /\ rb.matured_rex <= r.matured_rex
         /\ Ordered(rb.rex_maturities, t) => Ordered(r.rex_maturities, t)
         /\ Plain(rb.rex_maturities, t) => Plain(r.rex_maturities, t)
<1> DEFINE b == rb.rex_maturities
           n == Mature(b, t)
           c == SubSeq(b, 1, n)
           d == SubSeq(b, n + 1, Len(b))
           r == process_rex_maturities(rb, t)
<1>1. b \in Seq(BucketRows) /\ rb.matured_rex \in Nat
  BY DEF BalanceRows
<1>2. n \in 0 .. Len(b)
  <2> DEFINE Due == {k \in 0 .. Len(b) : \A i \in 1 .. k : b[i].first <= t}
  <2>1. Len(b) \in Nat /\ Due \subseteq 0 .. Len(b) /\ 0 \in Due
    BY <1>1
  <2>2. n = CHOOSE k \in Due : \A m \in Due : m <= k
    BY DEF Mature
  <2> HIDE DEF Due, n
  <2>3. \E k \in Due : \A m \in Due : m <= k
    BY <2>1, GreatestExists
  <2>4. n \in Due
    BY <2>2, <2>3
  <2> QED
    BY <2>1, <2>4
<1>3. /\ c \in Seq(BucketRows) /\ d \in Seq(BucketRows) /\ Len(d) = Len(b) - n
      /\ \A i \in 1 .. Len(b) - n : d[i] = b[n + i]
      /\ InBuckets(b) = InBuckets(c) + InBuckets(d)
  <2> HIDE DEF n
  <2> QED
    BY <1>1, <1>2, CutBuckets
<1>4. InBuckets(c) \in Nat /\ InBuckets(d) \in Nat
  BY <1>3, BucketsNat
<1>5. r = [rb EXCEPT !.matured_rex = rb.matured_rex + InBuckets(c), !.rex_maturities = d]
  BY DEF process_rex_maturities
<1> HIDE DEF c, d, n, r
<1>6. /\ r \in BalanceRows /\ r.matured_rex = rb.matured_rex + InBuckets(c)
      /\ r.rex_maturities = d
      /\ r = [rb EXCEPT !.matured_rex = r.matured_rex, !.rex_maturities = r.rex_maturities]
  <2> DEFINE matured == rb.matured_rex + InBuckets(c)
  <2>1. matured \in Nat /\ d \in Seq(BucketRows)
    BY <1>1, <1>3, <1>4
  <2>2. r = [rb EXCEPT !.matured_rex = matured, !.rex_maturities = d]
    BY <1>5
  <2> HIDE DEF matured
  <2>3. r \in BalanceRows /\ r.matured_rex = matured /\ r.rex_maturities = d
    BY <2>1, <2>2 DEF BalanceRows
  <2> QED
    BY <2>2, <2>3 DEF matured
<1>7. Len(b) \in Nat /\ n \in Nat /\ Len(d) \in Nat
  BY <1>1, <1>2, <1>3
<1>8. Increasing(b) => Increasing(d)
  <2> SUFFICES ASSUME Increasing(b), NEW i \in 1 .. Len(d), NEW j \in 1 .. Len(d), i < j
               PROVE  d[i].first < d[j].first
    BY DEF Increasing
  <2>1. n + i \in 1 .. Len(b) /\ n + j \in 1 .. Len(b) /\ n + i < n + j
    BY <1>3, <1>7
  <2>2. d[i] = b[n + i] /\ d[j] = b[n + j]
    BY <1>3
  <2> QED
    BY <2>1, <2>2 DEF Increasing
<1>9. Ordered(b, t) => Ordered(d, t)
  <2> SUFFICES ASSUME Ordered(b, t) PROVE Ordered(d, t)
    OBVIOUS
  <2>1. Increasing(d)
    BY <1>8 DEF Ordered, Increasing
  <2>2. \A k \in 1 .. Len(b) :
           b[k].first <= get_rex_maturity(t) \/ (k = Len(b) /\ b[k].first = EndOfDays)
    BY DEF Ordered
  <2>3. ASSUME NEW i \in 1 .. Len(d)
        PROVE  d[i].first <= get_rex_maturity(t) \/ (i = Len(d) /\ d[i].first = EndOfDays)
    <3>1. n + i \in 1 .. Len(b) /\ d[i] = b[n + i] /\ (n + i = Len(b) => i = Len(d))
      BY <1>3, <1>7
    <3> QED
      BY <2>2, <3>1
  <2> QED
    BY <2>1, <2>3 DEF Ordered, Increasing
<1>10. Plain(b, t) => Plain(d, t)
  <2> SUFFICES ASSUME Plain(b, t) PROVE Plain(d, t)
    OBVIOUS
  <2>1. ASSUME NEW i \in 1 .. Len(d) PROVE d[i].first <= get_rex_maturity(t)
    <3>1. n + i \in 1 .. Len(b) /\ d[i] = b[n + i]
      <4>1. Len(d) = Len(b) - n /\ i \in 1 .. Len(b) - n
        BY <1>3
      <4>2. n + i \in 1 .. Len(b)
        BY <1>7, <4>1
      <4> QED
        BY <1>3, <4>1, <4>2
    <3>2. \A k \in 1 .. Len(b) : b[k].first <= get_rex_maturity(t)
      BY DEF Plain
    <3> QED
      BY <3>1, <3>2
  <2> QED
    BY <1>3, <1>8, <2>1 DEF Plain
<1> QED
  BY <1>1, <1>3, <1>4, <1>6, <1>9, <1>10 DEF r

\* Savings out and matured buckets popped: a plain row.
LEMMA RowOpened ==
  ASSUME NEW t \in Nat, NEW rb \in BalanceRows, Ordered(rb.rex_maturities, t)
  PROVE  LET r == process_rex_maturities(WithoutSavings(rb), t) IN
         /\ r \in BalanceRows
         /\ r.row = rb.row /\ r.vote_stake = rb.vote_stake /\ r.rex_balance = rb.rex_balance
         /\ Plain(r.rex_maturities, t)
         /\ read_rex_savings(rb) \in Nat
         /\ HeldIn(r) + read_rex_savings(rb) = HeldIn(rb)
         /\ rb.matured_rex <= r.matured_rex
<1> DEFINE w == WithoutSavings(rb)
           r == process_rex_maturities(w, t)
<1>1. /\ w \in BalanceRows
      /\ w = [rb EXCEPT !.rex_maturities = w.rex_maturities]
      /\ Plain(w.rex_maturities, t)
      /\ read_rex_savings(rb) \in Nat
      /\ InBuckets(rb.rex_maturities) = InBuckets(w.rex_maturities) + read_rex_savings(rb)
  BY TakeSavings
<1> HIDE DEF w
<1>2. /\ r \in BalanceRows
      /\ r = [w EXCEPT !.matured_rex = r.matured_rex, !.rex_maturities = r.rex_maturities]
      /\ r.matured_rex + InBuckets(r.rex_maturities) = w.matured_rex + InBuckets(w.rex_maturities)
      /\ w.matured_rex <= r.matured_rex
      /\ Plain(r.rex_maturities, t)
  BY <1>1, ProcessRow
<1> HIDE DEF r
<1>3. /\ w.row = rb.row /\ w.vote_stake = rb.vote_stake /\ w.rex_balance = rb.rex_balance
      /\ w.matured_rex = rb.matured_rex
  BY <1>1 DEF BalanceRows
<1>4. r.row = w.row /\ r.vote_stake = w.vote_stake /\ r.rex_balance = w.rex_balance
  BY <1>1, <1>2 DEF BalanceRows
<1>5. InBuckets(w.rex_maturities) \in Nat /\ InBuckets(r.rex_maturities) \in Nat
  BY <1>1, <1>2, BucketsNat DEF Plain
<1>6. w.matured_rex \in Nat /\ r.matured_rex \in Nat
  BY <1>1, <1>2 DEF BalanceRows
<1>7. HeldIn(r) + read_rex_savings(rb) = HeldIn(rb)
  BY <1>1, <1>2, <1>3, <1>5, <1>6 DEF HeldIn
<1> QED
  BY <1>1, <1>2, <1>3, <1>4, <1>7 DEF w, r

\* A plain row gets its savings back.
LEMMA RowClosed ==
  ASSUME NEW t \in 0 .. MaxTime, NEW rb \in BalanceRows, Plain(rb.rex_maturities, t), NEW rex \in Nat
  PROVE  LET r == put_rex_savings(rb, rex) IN
         /\ Rearranged(r, rb, t)
         /\ HeldIn(r) = HeldIn(rb) + rex /\ r.matured_rex = rb.matured_rex
<1> DEFINE r == put_rex_savings(rb, rex)
<1>1. /\ r \in BalanceRows
      /\ r = [rb EXCEPT !.rex_maturities = r.rex_maturities]
      /\ Ordered(r.rex_maturities, t)
      /\ InBuckets(r.rex_maturities) = InBuckets(rb.rex_maturities) + rex
  BY PutSavings
<1> HIDE DEF r
<1>2. /\ r.row = rb.row /\ r.vote_stake = rb.vote_stake /\ r.rex_balance = rb.rex_balance
      /\ r.matured_rex = rb.matured_rex
  BY <1>1 DEF BalanceRows
<1>3. InBuckets(rb.rex_maturities) \in Nat /\ rb.matured_rex \in Nat
  BY BucketsNat DEF Plain, BalanceRows
<1> QED
  BY <1>1, <1>2, <1>3 DEF Rearranged, HeldIn, r

\* Bought REX is added to its bucket.
LEMMA RowBuys ==
  ASSUME NEW t \in 0 .. MaxTime, NEW rb \in BalanceRows, Ordered(rb.rex_maturities, t), NEW rex \in Nat
  PROVE  LET r == AddToMaturities(rb, rex, t) IN
         /\ Rearranged(r, rb, t)
         /\ HeldIn(r) = HeldIn(rb) + rex
         /\ rb.matured_rex <= r.matured_rex
<1> DEFINE rb1 == process_rex_maturities(WithoutSavings(rb), t)
           d   == PutLast(rb1.rex_maturities, get_rex_maturity(t), rex)
           rb2 == [rb1 EXCEPT !.rex_maturities = d]
           sv  == read_rex_savings(rb)
           r   == put_rex_savings(rb2, sv)
<1>1. t \in Nat
  BY TimeAssumption
<1>2. /\ rb1 \in BalanceRows
      /\ rb1.row = rb.row /\ rb1.vote_stake = rb.vote_stake /\ rb1.rex_balance = rb.rex_balance
      /\ Plain(rb1.rex_maturities, t)
      /\ sv \in Nat
      /\ HeldIn(rb1) + sv = HeldIn(rb)
      /\ rb.matured_rex <= rb1.matured_rex
  BY <1>1, RowOpened
<1>3. r = AddToMaturities(rb, rex, t)
  BY DEF AddToMaturities
<1> HIDE DEF rb1, sv
<1>4. Plain(d, t) /\ InBuckets(d) = InBuckets(rb1.rex_maturities) + rex
  BY <1>1, <1>2, PutMaturity
<1> HIDE DEF d
<1>5. /\ rb2 \in BalanceRows /\ rb2.rex_maturities = d /\ rb2.matured_rex = rb1.matured_rex
      /\ rb2.row = rb1.row /\ rb2.vote_stake = rb1.vote_stake /\ rb2.rex_balance = rb1.rex_balance
  BY <1>2, <1>4 DEF BalanceRows, Plain
<1> HIDE DEF rb2
<1>6. Rearranged(r, rb2, t) /\ HeldIn(r) = HeldIn(rb2) + sv /\ r.matured_rex = rb2.matured_rex
  BY <1>2, <1>4, <1>5, RowClosed
<1> HIDE DEF r
<1>7. InBuckets(d) \in Nat /\ InBuckets(rb1.rex_maturities) \in Nat /\ rb1.matured_rex \in Nat
  BY <1>2, <1>4, BucketsNat DEF Plain, BalanceRows
<1>8. HeldIn(r) = HeldIn(rb) + rex
  BY <1>2, <1>4, <1>5, <1>6, <1>7 DEF HeldIn
<1>9. Rearranged(r, rb, t)
  BY <1>2, <1>5, <1>6 DEF Rearranged
<1> QED
  BY <1>2, <1>3, <1>5, <1>6, <1>8, <1>9

\* Consolidating leaves the REX of the open order matured and the rest together.
LEMMA RowConsolidates ==
  ASSUME NEW t \in 0 .. MaxTime, NEW rb \in BalanceRows, Ordered(rb.rex_maturities, t),
         NEW in_order \in Nat, in_order <= rb.matured_rex
  PROVE  LET r == consolidate_rex_balance(rb, in_order, t) IN
         /\ Rearranged(r, rb, t)
         /\ HeldIn(r) = HeldIn(rb)
         /\ r.matured_rex = in_order
<1> DEFINE w     == WithoutSavings(rb)
           total == w.matured_rex - in_order + InBuckets(w.rex_maturities)
           e     == Bucket(get_rex_maturity(t), total)
           d     == IF total > 0 THEN << e >> ELSE << >>
           rb2   == [w EXCEPT !.matured_rex = in_order, !.rex_maturities = d]
           sv    == read_rex_savings(rb)
           r     == put_rex_savings(rb2, sv)
<1>1. t \in Nat
  BY TimeAssumption
<1>2. /\ w \in BalanceRows
      /\ w = [rb EXCEPT !.rex_maturities = w.rex_maturities]
      /\ Plain(w.rex_maturities, t)
      /\ sv \in Nat
      /\ InBuckets(rb.rex_maturities) = InBuckets(w.rex_maturities) + sv
  BY <1>1, TakeSavings
<1>3. r = consolidate_rex_balance(rb, in_order, t)
  BY DEF consolidate_rex_balance
<1> HIDE DEF w, sv
<1>4. /\ w.row = rb.row /\ w.vote_stake = rb.vote_stake /\ w.rex_balance = rb.rex_balance
      /\ w.matured_rex = rb.matured_rex /\ w.matured_rex \in Nat
  BY <1>2 DEF BalanceRows
<1>5. InBuckets(w.rex_maturities) \in Nat
  BY <1>2, BucketsNat DEF Plain
<1>6. total \in Nat
  BY <1>4, <1>5
<1> HIDE DEF total
<1>7. Plain(d, t) /\ InBuckets(d) = total
  <2>1. CASE total > 0
    <3>1. get_rex_maturity(t) \in Int
      BY <1>1, MaturityGrows
    <3>2. e \in BucketRows /\ e.first = get_rex_maturity(t) /\ e.second = total
      BY <1>6, <3>1, BucketType
    <3>3. << e >> \in Seq(BucketRows) /\ Len(<< e >>) = 1 /\ \A i \in 1 .. 1 : << e >>[i] = e
      BY <3>2
    <3>4. InBuckets(<< e >>) = total
      BY <3>2, OneBucket
    <3>5. Increasing(<< e >>)
      BY <3>3 DEF Increasing
    <3>6. \A i \in 1 .. 1 : << e >>[i].first <= get_rex_maturity(t)
      BY <3>1, <3>2, <3>3
    <3> QED
      BY <2>1, <3>3, <3>4, <3>5, <3>6 DEF Plain
  <2>2. CASE ~ (total > 0)
    <3>1. total = 0 /\ d = << >>
      BY <1>6, <2>2
    <3>2. << >> \in Seq(BucketRows) /\ Len(<< >>) = 0
      OBVIOUS
    <3> QED
      BY <3>1, <3>2, NoBuckets DEF Plain, Increasing
  <2> QED
    BY <2>1, <2>2
<1> HIDE DEF d
<1>8. /\ rb2 \in BalanceRows /\ rb2.rex_maturities = d /\ rb2.matured_rex = in_order
      /\ rb2.row = w.row /\ rb2.vote_stake = w.vote_stake /\ rb2.rex_balance = w.rex_balance
  BY <1>2, <1>7 DEF BalanceRows, Plain
<1> HIDE DEF rb2
<1>9. Rearranged(r, rb2, t) /\ HeldIn(r) = HeldIn(rb2) + sv /\ r.matured_rex = rb2.matured_rex
  BY <1>2, <1>7, <1>8, RowClosed
<1> HIDE DEF r
<1>10. HeldIn(r) = HeldIn(rb)
  BY <1>2, <1>4, <1>5, <1>7, <1>8, <1>9 DEF HeldIn, total
<1>11. Rearranged(r, rb, t)
  BY <1>4, <1>8, <1>9 DEF Rearranged
<1> QED
  BY <1>3, <1>8, <1>9, <1>10, <1>11

\* REX leaves the savings for the bucket of its maturity.
LEMMA RowUnsaves ==
  ASSUME NEW t \in 0 .. MaxTime, NEW rb \in BalanceRows, Ordered(rb.rex_maturities, t),
         NEW rex \in Nat, rex <= read_rex_savings(rb)
  PROVE  LET r == MovedFromSavings(rb, rex, t) IN
         /\ Rearranged(r, rb, t)
         /\ HeldIn(r) = HeldIn(rb)
         /\ rb.matured_rex <= r.matured_rex
<1> DEFINE rb1 == process_rex_maturities(WithoutSavings(rb), t)
           d   == PutLast(rb1.rex_maturities, get_rex_maturity(t), rex)
           rb2 == [rb1 EXCEPT !.rex_maturities = d]
           sv  == read_rex_savings(rb)
           r   == put_rex_savings(rb2, sv - rex)
<1>1. t \in Nat
  BY TimeAssumption
<1>2. /\ rb1 \in BalanceRows
      /\ rb1.row = rb.row /\ rb1.vote_stake = rb.vote_stake /\ rb1.rex_balance = rb.rex_balance
      /\ Plain(rb1.rex_maturities, t)
      /\ sv \in Nat
      /\ HeldIn(rb1) + sv = HeldIn(rb)
      /\ rb.matured_rex <= rb1.matured_rex
  BY <1>1, RowOpened
<1>3. r = MovedFromSavings(rb, rex, t)
  BY DEF MovedFromSavings
<1>4. sv - rex \in Nat
  BY <1>2
<1> HIDE DEF rb1, sv
<1>5. Plain(d, t) /\ InBuckets(d) = InBuckets(rb1.rex_maturities) + rex
  BY <1>1, <1>2, PutMaturity
<1> HIDE DEF d
<1>6. /\ rb2 \in BalanceRows /\ rb2.rex_maturities = d /\ rb2.matured_rex = rb1.matured_rex
      /\ rb2.row = rb1.row /\ rb2.vote_stake = rb1.vote_stake /\ rb2.rex_balance = rb1.rex_balance
  BY <1>2, <1>5 DEF BalanceRows, Plain
<1> HIDE DEF rb2
<1>7. Rearranged(r, rb2, t) /\ HeldIn(r) = HeldIn(rb2) + (sv - rex) /\ r.matured_rex = rb2.matured_rex
  BY <1>4, <1>5, <1>6, RowClosed
<1> HIDE DEF r
<1>8. InBuckets(d) \in Nat /\ InBuckets(rb1.rex_maturities) \in Nat /\ rb1.matured_rex \in Nat
  BY <1>2, <1>5, BucketsNat DEF Plain, BalanceRows
<1>9. HeldIn(r) = HeldIn(rb)
  BY <1>2, <1>5, <1>6, <1>7, <1>8 DEF HeldIn
<1>10. Rearranged(r, rb, t)
  BY <1>2, <1>6, <1>7 DEF Rearranged
<1> QED
  BY <1>2, <1>3, <1>6, <1>7, <1>9, <1>10

\* The loop of mvtosavings takes rex, or all there is, from the buckets.
LEMMA TakenFacts ==
  ASSUME NEW t \in Nat, NEW b, Plain(b, t), NEW rex \in Nat, rex > 0
  PROVE  LET c == TakenFromBack(b, rex) IN
         /\ Plain(c, t)
         /\ Len(c) \in 0 .. Len(b)
         /\ \A i \in 1 .. Len(c) : c[i].first = b[i].first /\ c[i].second = Kept(b, rex, i)
         /\ \A i \in 1 .. Len(b) : i > Len(c) => Kept(b, rex, i) = 0
         /\ InBuckets(c) = IF rex > InBuckets(b) THEN 0 ELSE InBuckets(b) - rex
<1> DEFINE L == Len(b)
           T == InBuckets(b)
           f == SecondsOf(b)
           after(i) == InBuckets(SubSeq(b, i + 1, Len(b)))
           kept(i)  == IF rex <= after(i) THEN b[i].second
                       ELSE IF rex >= after(i) + b[i].second THEN 0
                       ELSE b[i].second + after(i) - rex
           last     == {i \in 1 .. Len(b) : kept(i) > 0 \/ rex <= after(i)}
           n        == IF last = {} THEN 0 ELSE CHOOSE i \in last : \A j \in last : j <= i
           c        == TakenFromBack(b, rex)
           g        == [i \in 1 .. L |-> kept(i)]
           P(i)     == SumTo(f, i)
           rest     == IF rex > T THEN 0 ELSE T - rex
<1>1. b \in Seq(BucketRows) /\ L \in Nat
  BY DEF Plain
<1>2. f \in [1 .. L -> Nat] /\ f \in [1 .. L -> Int] /\ \A i \in 1 .. L : f[i] = b[i].second
  BY <1>1, SecondsType DEF SecondsOf
<1>3. T \in Nat /\ T = P(L)
  BY <1>1, BucketsNat DEF InBuckets, SecondsOf
<1>4. c = [i \in 1 .. n |-> Bucket(b[i].first, kept(i))]
  BY DEF TakenFromBack
<1>5. ASSUME NEW i \in 0 .. L PROVE after(i) \in Nat /\ after(i) = T - P(i) /\ P(i) \in Nat
  <2> DEFINE x == SubSeq(b, 1, i)
             y == SubSeq(b, i + 1, Len(b))
  <2>1. /\ x \in Seq(BucketRows) /\ Len(x) = i /\ \A j \in 1 .. i : x[j] = b[j]
        /\ y \in Seq(BucketRows)
        /\ T = InBuckets(x) + InBuckets(y)
    BY <1>1, <1>5, CutBuckets
  <2> HIDE DEF x, y
  <2>2. InBuckets(x) \in Nat /\ InBuckets(y) \in Nat
    BY <2>1, BucketsNat
  <2>3. InBuckets(x) = P(i)
    <3>1. InBuckets(x) = SumTo(SecondsOf(x), i)
      BY <2>1 DEF InBuckets, SecondsOf
    <3>2. \A j \in 1 .. i : SecondsOf(x)[j] = f[j]
      BY <1>1, <2>1 DEF SecondsOf
    <3>3. i \in Nat
      BY <1>1
    <3> HIDE DEF f
    <3> QED
      BY <3>1, <3>2, <3>3, SumToPrefix
  <2> QED
    BY <1>3, <2>1, <2>2, <2>3 DEF y
<1> HIDE DEF after, f, c
<1>6. ASSUME NEW i \in 1 .. L
      PROVE  P(i) = P(i - 1) + f[i] /\ P(i - 1) \in Nat /\ f[i] \in Nat
  <2>1. i - 1 \in 0 .. L /\ i - 1 \in Nat /\ (i - 1) + 1 = i
    BY <1>1
  <2>2. SumTo(f, (i - 1) + 1) = SumTo(f, i - 1) + f[(i - 1) + 1]
    BY <2>1, SumToSucc
  <2> QED
    BY <1>2, <1>5, <2>1, <2>2
<1>7. \A i \in 1 .. L : kept(i) \in Nat
  BY <1>1, <1>2, <1>5
<1> HIDE DEF T, P, L
<1>8. SumTo(g, L) = rest
  <2> DEFINE S == {i \in Nat : i <= L => SumTo(g, i) = IF rex <= after(i) THEN P(i) ELSE rest}
  <2>1. 0 \in S
    <3>1. SumTo(g, 0) = 0 /\ P(0) = 0
      BY SumToZero DEF P
    <3>2. after(0) = T
      BY <1>1, <1>3, <1>5, <3>1
    <3> QED
      BY <1>3, <3>1, <3>2
  <2>2. ASSUME NEW i \in 0 .. L - 1, i \in S PROVE i + 1 \in S
    <3>1. i \in Nat /\ i + 1 \in 1 .. L /\ i \in 0 .. L /\ (i + 1) - 1 = i /\ i + 1 \in 0 .. L
      BY <1>1
    <3>2. SumTo(g, i + 1) = SumTo(g, i) + g[i + 1]
      BY <3>1, SumToSucc
    <3>3. g[i + 1] = kept(i + 1)
      BY <3>1
    <3>4. P(i + 1) = P(i) + f[i + 1] /\ P(i) \in Nat /\ f[i + 1] \in Nat
      BY <1>6, <3>1
    <3>5. after(i) = T - P(i) /\ after(i + 1) = T - P(i + 1) /\ after(i) \in Nat /\ after(i + 1) \in Nat
      BY <1>5, <3>1
    <3>6. f[i + 1] = b[i + 1].second
      BY <1>2, <3>1 DEF L
    <3>7. SumTo(g, i) = IF rex <= after(i) THEN P(i) ELSE rest
      BY <2>2, <3>1
    <3> HIDE DEF g, rest
    <3>8. after(i) = after(i + 1) + f[i + 1]
      BY <1>3, <3>4, <3>5
    <3>9. CASE rex <= after(i + 1)
      <4>1. rex <= after(i) /\ kept(i + 1) = f[i + 1]
        BY <3>4, <3>5, <3>6, <3>8, <3>9
      <4> QED
        BY <3>1, <3>2, <3>3, <3>4, <3>7, <3>9, <4>1
    <3>10. CASE rex > after(i + 1) /\ rex >= after(i)
      <4>1. kept(i + 1) = 0
        BY <3>4, <3>5, <3>6, <3>8, <3>10
      <4>2. SumTo(g, i) = rest
        <5>1. CASE rex = after(i)
          BY <1>3, <3>4, <3>5, <3>7, <5>1 DEF rest
        <5>2. CASE rex # after(i)
          BY <3>5, <3>7, <3>10, <5>2
        <5> QED
          BY <5>1, <5>2
      <4>3. rest \in Nat
        BY <1>3 DEF rest
      <4> QED
        BY <3>1, <3>2, <3>3, <3>5, <3>10, <4>1, <4>2, <4>3
    <3>11. CASE rex > after(i + 1) /\ rex < after(i)
      <4>1. kept(i + 1) = f[i + 1] + after(i + 1) - rex
        BY <3>4, <3>5, <3>6, <3>8, <3>11
      <4>2. SumTo(g, i) = P(i)
        BY <3>5, <3>7, <3>11
      <4>3. rest = T - rex
        BY <1>3, <3>4, <3>5, <3>11 DEF rest
      <4> QED
        BY <1>3, <3>1, <3>2, <3>3, <3>4, <3>5, <3>8, <3>11, <4>1, <4>2, <4>3
    <3> QED
      BY <3>5, <3>9, <3>10, <3>11
  <2>3. L \in S
    <3> HIDE DEF S
    <3> QED
      BY <1>1, <2>1, <2>2, UpToInduction
  <2>4. after(L) = 0
    BY <1>1, <1>3, <1>5
  <2> QED
    BY <1>1, <2>3, <2>4
<1>9. n \in 0 .. L /\ \A i \in 1 .. L : i > n => kept(i) = 0
  <2>1. last \subseteq 0 .. L
    BY <1>1 DEF L
  <2>2. \A i \in 1 .. L : i \notin last => kept(i) = 0
    BY <1>7 DEF L
  <2> HIDE DEF kept, last
  <2>3. CASE last = {}
    BY <1>1, <2>2, <2>3
  <2>4. CASE last # {}
    <3>1. \E i \in last : \A j \in last : j <= i
      BY <1>1, <2>1, <2>4, GreatestExists
    <3>2. n \in last /\ \A j \in last : j <= n
      BY <2>4, <3>1
    <3>3. n \in 0 .. L
      BY <2>1, <3>2
    <3> HIDE DEF n
    <3>4. \A i \in 1 .. L : i > n => i \notin last
      BY <1>1, <3>2, <3>3
    <3> QED
      BY <2>2, <3>3, <3>4
  <2> QED
    BY <2>3, <2>4
<1>10. \A i \in 1 .. n : i \in 1 .. L
  BY <1>1, <1>9
<1>11. \A i \in 1 .. L : b[i] \in BucketRows /\ b[i].first \in Int
  <2>1. \A i \in 1 .. L : b[i] \in BucketRows
    BY <1>1 DEF L
  <2> QED
    BY <2>1 DEF BucketRows
<1> HIDE DEF n, kept
<1>12. \A i \in 1 .. n : /\ c[i] \in BucketRows /\ c[i].first = b[i].first /\ c[i].second = kept(i)
  BY <1>4, <1>7, <1>10, <1>11, BucketType
<1>13. n \in Nat /\ c \in Seq(BucketRows) /\ Len(c) = n
  <2>1. n \in Nat
    BY <1>1, <1>9
  <2>2. c \in [1 .. n -> BucketRows]
    BY <1>4, <1>12
  <2> QED
    BY <2>1, <2>2
<1>14. InBuckets(c) = SumTo(g, n)
  <2>1. InBuckets(c) = SumTo(SecondsOf(c), n)
    BY <1>13 DEF InBuckets, SecondsOf
  <2>2. \A i \in 1 .. n : SecondsOf(c)[i] = g[i]
    BY <1>10, <1>12, <1>13 DEF SecondsOf
  <2> HIDE DEF g
  <2> QED
    BY <1>13, <2>1, <2>2, SumToPrefix
<1>15. SumTo(g, L) = SumTo(g, n)
  <2> DEFINE h == [i \in 1 .. L - n |-> 0]
  <2>1. L - n \in Nat /\ n + (L - n) = L
    BY <1>1, <1>9
  <2>2. g \in [1 .. L -> Int] /\ h \in [1 .. L - n -> Int]
    BY <1>7
  <2>3. \A i \in 1 .. L - n : h[i] = g[n + i]
    BY <1>1, <1>9, <1>13
  <2>4. \A i \in 1 .. L - n : h[i] = 0
    OBVIOUS
  <2> HIDE DEF g, h
  <2>9. g \in [1 .. n + (L - n) -> Int]
    BY <2>1, <2>2
  <2>5. SumTo(g, n + (L - n)) = SumTo(g, n) + SumTo(h, L - n)
    BY <1>13, <2>1, <2>2, <2>3, <2>9, SumToShift
  <2>6. SumTo(h, L - n) = 0
    BY <2>1, <2>4, SumToAllZero
  <2>7. rest \in Nat
    BY <1>3
  <2>8. SumTo(g, n) \in Int
    <3>1. InBuckets(c) \in Nat
      BY <1>13, BucketsNat
    <3> QED
      BY <1>14, <3>1
  <2> QED
    BY <1>8, <2>1, <2>5, <2>6, <2>7, <2>8
<1>16. Plain(c, t)
  BY <1>10, <1>12, <1>13 DEF Plain, Increasing, L
<1>17. \A i : kept(i) = Kept(b, rex, i)
  BY DEF kept, after, Kept, After
<1>18. Len(c) \in 0 .. Len(b) /\ \A i \in 1 .. Len(b) : i > Len(c) => Kept(b, rex, i) = 0
  BY <1>9, <1>13, <1>17 DEF L
<1>19. \A i \in 1 .. Len(c) : c[i].first = b[i].first /\ c[i].second = Kept(b, rex, i)
  BY <1>12, <1>13, <1>17
<1> QED
  BY <1>8, <1>14, <1>15, <1>16, <1>18, <1>19 DEF c, T

\* REX moves to the savings, out of the buckets first and then out of the matured REX.
LEMMA RowSaves ==
  ASSUME NEW t \in 0 .. MaxTime, NEW rb \in BalanceRows, Ordered(rb.rex_maturities, t),
         NEW rex \in Nat, rex > 0, rex + read_rex_savings(rb) <= HeldIn(rb)
  PROVE  LET r == MovedToSavings(rb, rex, t) IN
         /\ Rearranged(r, rb, t)
         /\ HeldIn(r) = HeldIn(rb)
<1> DEFINE rb1 == process_rex_maturities(WithoutSavings(rb), t)
           d   == TakenFromBack(rb1.rex_maturities, rex)
           inside == InBuckets(rb1.rex_maturities)
           matured == IF rex > inside THEN rb1.matured_rex - (rex - inside) ELSE rb1.matured_rex
           rb2 == [rb1 EXCEPT !.rex_maturities = d, !.matured_rex = matured]
           sv  == read_rex_savings(rb)
           r   == put_rex_savings(rb2, sv + rex)
<1>1. t \in Nat
  BY TimeAssumption
<1>2. /\ rb1 \in BalanceRows
      /\ rb1.row = rb.row /\ rb1.vote_stake = rb.vote_stake /\ rb1.rex_balance = rb.rex_balance
      /\ Plain(rb1.rex_maturities, t)
      /\ sv \in Nat
      /\ HeldIn(rb1) + sv = HeldIn(rb)
  BY <1>1, RowOpened
<1>3. r = MovedToSavings(rb, rex, t)
  BY DEF MovedToSavings
<1>4. sv + rex \in Nat /\ rex + sv <= HeldIn(rb)
  BY <1>2
<1> HIDE DEF rb1, sv
<1>5. Plain(d, t) /\ InBuckets(d) = IF rex > inside THEN 0 ELSE inside - rex
  BY <1>1, <1>2, TakenFacts
<1>6. inside \in Nat /\ rb1.matured_rex \in Nat
  BY <1>2, BucketsNat DEF Plain, BalanceRows
<1>7. HeldIn(rb1) = rb1.matured_rex + inside
  BY DEF HeldIn
<1> HIDE DEF d, inside
<1>8. matured \in Nat /\ matured + InBuckets(d) + rex = rb1.matured_rex + inside
  BY <1>2, <1>4, <1>5, <1>6, <1>7
<1> HIDE DEF matured
<1>9. /\ rb2 \in BalanceRows /\ rb2.rex_maturities = d /\ rb2.matured_rex = matured
      /\ rb2.row = rb1.row /\ rb2.vote_stake = rb1.vote_stake /\ rb2.rex_balance = rb1.rex_balance
  BY <1>2, <1>5, <1>8 DEF BalanceRows, Plain
<1> HIDE DEF rb2
<1>10. Rearranged(r, rb2, t) /\ HeldIn(r) = HeldIn(rb2) + (sv + rex)
  BY <1>4, <1>5, <1>9, RowClosed
<1> HIDE DEF r
<1>11. InBuckets(d) \in Nat
  BY <1>5, BucketsNat DEF Plain
<1>12. HeldIn(r) = HeldIn(rb)
  BY <1>2, <1>6, <1>7, <1>8, <1>9, <1>10, <1>11 DEF HeldIn
<1>13. Rearranged(r, rb, t)
  BY <1>2, <1>9, <1>10 DEF Rearranged
<1> QED
  BY <1>3, <1>12, <1>13

-----------------------------------------------------------------------------
(* What the helpers of the pool do to its totals.                          *)

\* With the same shares and no fewer tokens a share is worth no less.
LEMMA NotCheaperSame ==
  ASSUME NEW p \in PoolRows, NEW q \in PoolRows,
         q.total_rex = p.total_rex, q.total_lendable >= p.total_lendable
  PROVE  NotCheaper(p, q)
<1> DEFINE l == p.total_lendable
           m == q.total_lendable
           r == p.total_rex
<1>1. l \in Nat /\ m \in Nat /\ r \in Nat /\ m >= l
  BY DEF PoolRows
<1> HIDE DEF l, m, r
<1>2. m * r >= l * r
  BY <1>1
<1> QED
  BY <1>2 DEF NotCheaper, l, m, r

\* The price does not fall over two steps if it does not over either and there
\* are shares in between.
LEMMA NotCheaperTransitive ==
  ASSUME NEW p \in PoolRows, NEW q \in PoolRows, NEW u \in PoolRows,
         NotCheaper(p, q), NotCheaper(q, u), q.total_rex > 0
  PROVE  NotCheaper(p, u)
<1> DEFINE lp == p.total_lendable
           rp == p.total_rex
           lq == q.total_lendable
           rq == q.total_rex
           lu == u.total_lendable
           ru == u.total_rex
<1>1. /\ lp \in Nat /\ rp \in Nat /\ lq \in Nat /\ rq \in Nat /\ lu \in Nat /\ ru \in Nat
      /\ rq > 0
  BY DEF PoolRows
<1>2. lq * rp >= lp * rq /\ lu * rq >= lq * ru
  BY DEF NotCheaper
<1> HIDE DEF lp, rp, lq, rq, lu, ru
<1> DEFINE x == lu * rp
           y == lp * ru
<1>3. x * rq >= y * rq
  <2>1. x * rq = (lu * rq) * rp
    BY <1>1
  <2>2. (lu * rq) * rp >= (lq * ru) * rp
    <3> DEFINE a == lu * rq
               b == lq * ru
    <3>1. a \in Nat /\ b \in Nat /\ a >= b
      BY <1>1, <1>2
    <3> HIDE DEF a, b
    <3>2. a * rp >= b * rp
      BY <1>1, <3>1
    <3> QED
      BY <3>2 DEF a, b
  <2>3. (lq * ru) * rp = (lq * rp) * ru
    BY <1>1
  <2>4. (lq * rp) * ru >= (lp * rq) * ru
    <3> DEFINE a == lq * rp
               b == lp * rq
    <3>1. a \in Nat /\ b \in Nat /\ a >= b
      BY <1>1, <1>2
    <3> HIDE DEF a, b
    <3>2. a * ru >= b * ru
      BY <1>1, <3>1
    <3> QED
      BY <3>2 DEF a, b
  <2>5. (lp * rq) * ru = y * rq
    BY <1>1
  <2>6. x * rq \in Nat /\ (lu * rq) * rp \in Nat /\ (lq * ru) * rp \in Nat
        /\ (lq * rp) * ru \in Nat /\ (lp * rq) * ru \in Nat /\ y * rq \in Nat
    BY <1>1
  <2> QED
    BY <2>1, <2>2, <2>3, <2>4, <2>5, <2>6
<1>4. x \in Nat /\ y \in Nat
  BY <1>1
<1> HIDE DEF x, y
<1>5. x >= y
  <2> SUFFICES ASSUME x + 1 <= y PROVE FALSE
    BY <1>4
  <2>1. (x + 1) * rq <= y * rq
    BY <1>1, <1>4
  <2>2. (x + 1) * rq = x * rq + rq
    BY <1>1, <1>4
  <2>3. x * rq \in Nat /\ y * rq \in Nat
    BY <1>1, <1>4
  <2> QED
    BY <1>1, <1>3, <2>1, <2>2, <2>3
<1> QED
  BY <1>5 DEF NotCheaper, x, y, lp, rp, lu, ru

\* What a quotient rounded down is.
LEMMA Quotient ==
  ASSUME NEW a \in Nat, NEW b \in Nat, b > 0
  PROVE  a \div b \in Nat /\ (a \div b) * b <= a /\ a < (a \div b) * b + b
OBVIOUS

\* A quotient is at least a number whose product with the divisor is not above
\* the dividend, and at most one whose product is not below.
LEMMA QuotientBounds ==
  ASSUME NEW a \in Nat, NEW b \in Nat, b > 0, NEW c \in Nat
  PROVE  /\ c * b <= a => c <= a \div b
         /\ a <= c * b => a \div b <= c
<1> DEFINE q == a \div b
<1>1. q \in Nat /\ q * b <= a /\ a < q * b + b
  BY Quotient
<1> HIDE DEF q
<1>2. ASSUME c * b <= a, q + 1 <= c PROVE FALSE
  <2>1. (q + 1) * b <= c * b /\ (q + 1) * b = q * b + b
    BY <1>1, <1>2
  <2>2. q * b \in Nat /\ c * b \in Nat
    BY <1>1
  <2> QED
    BY <1>1, <1>2, <2>1, <2>2
<1>3. ASSUME a <= c * b, c + 1 <= q PROVE FALSE
  <2>1. (c + 1) * b <= q * b /\ (c + 1) * b = c * b + b
    BY <1>1, <1>3
  <2>2. q * b \in Nat /\ c * b \in Nat
    BY <1>1
  <2> QED
    BY <1>1, <1>3, <2>1, <2>2
<1> QED
  BY <1>1, <1>2, <1>3 DEF q

\* What is rented is never more than the connector it comes out of.
LEMMA Bancor ==
  ASSUME NEW conin \in Nat, NEW conout \in Nat, NEW in \in Nat
  PROVE  get_bancor_output(conin, conout, in) \in 0 .. conout
<1>1. CASE in + conin = 0
  BY <1>1 DEF get_bancor_output
<1>2. CASE in + conin # 0
  <2> DEFINE d == in + conin
             a == in * conout
  <2>1. d \in Nat /\ d > 0 /\ a \in Nat /\ d >= in
    BY <1>2
  <2>2. get_bancor_output(conin, conout, in) = a \div d
    BY <1>2 DEF get_bancor_output
  <2>3. a <= conout * d
    <3> HIDE DEF d
    <3>1. conout * d >= conout * in
      BY <2>1
    <3>2. conout * in = in * conout
      OBVIOUS
    <3> QED
      BY <3>1, <3>2
  <2> HIDE DEF a, d
  <2>4. a \div d \in Nat /\ a \div d <= conout
    BY <2>1, <2>3, Quotient, QuotientBounds
  <2> QED
    BY <2>2, <2>4
<1> QED
  BY <1>1, <1>2

\* A loan moves tokens from the unlent to the lent part and adds the payment.
LEMMA PoolLends ==
  ASSUME NEW p \in PoolRows, NEW payment \in Nat, NEW rented \in Nat, NEW new_loan \in BOOLEAN,
         rented <= p.total_unlent
  PROVE  LET q == PoolWithLoan(p, payment, rented, new_loan) IN
         /\ q \in PoolRows
         /\ q.initialized = p.initialized /\ q.total_rex = p.total_rex
         /\ q.namebid_proceeds = p.namebid_proceeds
         /\ q.total_lent = p.total_lent + rented
         /\ q.total_unlent = p.total_unlent - rented + payment
         /\ q.total_lendable = p.total_unlent + p.total_lent + payment
         /\ q.loan_num = IF new_loan THEN p.loan_num + 1 ELSE p.loan_num
<1> DEFINE rent == p.total_rent + payment
           unlent == p.total_unlent - rented + payment
           lent == p.total_lent + rented
           num == IF new_loan THEN p.loan_num + 1 ELSE p.loan_num
           p1 == [p EXCEPT !.total_rent = rent, !.total_unlent = unlent,
                           !.total_lent = lent, !.loan_num = num]
           q == PoolWithLoan(p, payment, rented, new_loan)
<1>1. /\ p.total_unlent \in Nat /\ p.total_lent \in Nat /\ p.total_rent \in Nat /\ p.loan_num \in Nat
  BY DEF PoolRows
<1>2. rent \in Nat /\ unlent \in Nat /\ lent \in Nat /\ num \in Nat
  BY <1>1
<1>3. q = [p1 EXCEPT !.total_lendable = p1.total_unlent + p1.total_lent]
  BY DEF PoolWithLoan, Rebalanced
<1>4. lent = p.total_lent + rented /\ unlent = p.total_unlent - rented + payment
  OBVIOUS
<1> HIDE DEF rent, unlent, lent, num, q
<1>5. /\ p1 \in PoolRows /\ p1.total_unlent = unlent /\ p1.total_lent = lent /\ p1.loan_num = num
      /\ p1.initialized = p.initialized /\ p1.total_rex = p.total_rex
      /\ p1.namebid_proceeds = p.namebid_proceeds
  BY <1>2 DEF PoolRows
<1> HIDE DEF p1
<1>6. /\ q \in PoolRows /\ q.total_unlent = unlent /\ q.total_lent = lent /\ q.loan_num = num
      /\ q.initialized = p.initialized /\ q.total_rex = p.total_rex
      /\ q.namebid_proceeds = p.namebid_proceeds
      /\ q.total_lendable = unlent + lent
  BY <1>2, <1>3, <1>5 DEF PoolRows
<1>7. q.total_lendable = p.total_unlent + p.total_lent + payment
  BY <1>1, <1>4, <1>6
<1> QED
  BY <1>4, <1>6, <1>7 DEF q, num

\* The end of a loan moves its stake back.
LEMMA PoolTakesBack ==
  ASSUME NEW p \in PoolRows, NEW loan \in LoanRows, loan.total_staked <= p.total_lent
  PROVE  LET q == PoolWithoutLoan(p, loan) IN
         /\ q \in PoolRows
         /\ q.initialized = p.initialized /\ q.total_rex = p.total_rex
         /\ q.namebid_proceeds = p.namebid_proceeds /\ q.loan_num = p.loan_num
         /\ q.total_lent = p.total_lent - loan.total_staked
         /\ q.total_unlent = p.total_unlent + loan.total_staked
         /\ q.total_lendable = p.total_unlent + p.total_lent
<1> DEFINE delta == get_bancor_output(p.total_unlent, p.total_rent, loan.total_staked)
           rent == p.total_rent - delta
           unlent == p.total_unlent + loan.total_staked
           lent == p.total_lent - loan.total_staked
           p1 == [p EXCEPT !.total_rent = rent, !.total_unlent = unlent, !.total_lent = lent]
           q == PoolWithoutLoan(p, loan)
<1>1. /\ p.total_unlent \in Nat /\ p.total_lent \in Nat /\ p.total_rent \in Nat
      /\ loan.total_staked \in Nat
  BY DEF PoolRows, LoanRows
<1>2. delta \in 0 .. p.total_rent
  BY <1>1, Bancor
<1> HIDE DEF delta
<1>3. rent \in Nat /\ unlent \in Nat /\ lent \in Nat
  BY <1>1, <1>2
<1>4. q = [p1 EXCEPT !.total_lendable = p1.total_unlent + p1.total_lent]
  BY DEF PoolWithoutLoan, Rebalanced, delta
<1>5. lent = p.total_lent - loan.total_staked /\ unlent = p.total_unlent + loan.total_staked
  OBVIOUS
<1> HIDE DEF rent, unlent, lent, q
<1>6. /\ p1 \in PoolRows /\ p1.total_unlent = unlent /\ p1.total_lent = lent
      /\ p1.loan_num = p.loan_num
      /\ p1.initialized = p.initialized /\ p1.total_rex = p.total_rex
      /\ p1.namebid_proceeds = p.namebid_proceeds
  BY <1>3 DEF PoolRows
<1> HIDE DEF p1
<1>7. /\ q \in PoolRows /\ q.total_unlent = unlent /\ q.total_lent = lent
      /\ q.loan_num = p.loan_num
      /\ q.initialized = p.initialized /\ q.total_rex = p.total_rex
      /\ q.namebid_proceeds = p.namebid_proceeds
      /\ q.total_lendable = unlent + lent
  BY <1>3, <1>4, <1>6 DEF PoolRows
<1>8. q.total_lendable = p.total_unlent + p.total_lent
  BY <1>1, <1>5, <1>7
<1> QED
  BY <1>5, <1>7, <1>8 DEF q

\* The first payment into an empty pool.
LEMMA PoolOpens ==
  ASSUME NEW p \in PoolRows, NEW payment \in Nat, payment > 0
  PROVE  LET q == OpenedPool(p, payment) IN
         /\ q \in PoolRows /\ q.initialized
         /\ q.total_lendable = payment /\ q.total_lent = 0 /\ q.total_unlent = payment
         /\ q.total_rex = payment * RexRatio /\ q.total_rex > 0
         /\ q.namebid_proceeds = p.namebid_proceeds /\ q.loan_num = p.loan_num
<1> DEFINE rex == payment * RexRatio
           q == OpenedPool(p, payment)
<1>1. RexRatio \in Nat /\ RexRatio > 0 /\ InitTotalRent \in Nat
  BY RatioAssumption
<1>2. rex \in Nat /\ rex > 0
  BY <1>1
<1>3. q = [p EXCEPT !.initialized = TRUE, !.total_lendable = payment, !.total_lent = 0,
              !.total_unlent = payment, !.total_rent = InitTotalRent, !.total_rex = rex]
  BY DEF OpenedPool
<1> HIDE DEF rex, q
<1>4. /\ q \in PoolRows /\ q.initialized
      /\ q.total_lendable = payment /\ q.total_lent = 0 /\ q.total_unlent = payment
      /\ q.total_rex = rex
      /\ q.namebid_proceeds = p.namebid_proceeds /\ q.loan_num = p.loan_num
  BY <1>1, <1>2, <1>3 DEF PoolRows
<1> QED
  BY <1>2, <1>4 DEF rex, q

\* A later purchase: the shares are rounded down.
LEMMA PoolJoins ==
  ASSUME NEW p \in PoolRows, PoolOK(p), p.total_rex > 0, NEW payment \in Nat,
         NEW rex, rex = ((p.total_lendable + payment) * p.total_rex) \div p.total_lendable - p.total_rex
  PROVE  LET q == JoinedPool(p, payment, rex) IN
         /\ rex \in Nat
         /\ p.total_lendable > 0
         /\ p.total_lendable + payment - p.total_lent >= 0
         /\ q \in PoolRows
         /\ q.initialized = p.initialized
         /\ q.total_lendable = p.total_lendable + payment /\ q.total_lent = p.total_lent
         /\ q.total_unlent = p.total_unlent + payment
         /\ q.total_rex = p.total_rex + rex
         /\ q.namebid_proceeds = p.namebid_proceeds /\ q.loan_num = p.loan_num
         /\ NotCheaper(p, q)
<1> DEFINE l == p.total_lendable
           r == p.total_rex
           m == l + payment
           x == (m * r) \div l
           unlent == l + payment - p.total_lent
           s == r + rex
           q == JoinedPool(p, payment, rex)
<1>1. /\ l \in Nat /\ r \in Nat /\ p.total_lent \in Nat /\ p.total_unlent \in Nat
  BY DEF PoolRows
<1>2. l > 0 /\ r > 0 /\ l = p.total_unlent + p.total_lent
  BY <1>1 DEF PoolOK
<1>3. q = [p EXCEPT !.total_lendable = m, !.total_rex = s, !.total_unlent = unlent]
  BY DEF JoinedPool
<1>4. x - r = rex
  OBVIOUS
<1> HIDE DEF l, r
<1>5. m \in Nat /\ m >= l /\ unlent \in Nat /\ unlent = p.total_unlent + payment
  BY <1>1, <1>2
<1> HIDE DEF m, unlent
<1>6. m * r \in Nat /\ r * l <= m * r
  <2>1. l * r <= m * r
    BY <1>1, <1>5
  <2>2. r * l = l * r /\ m * r \in Nat
    BY <1>1, <1>5
  <2> QED
    BY <2>1, <2>2
<1>7. x \in Nat /\ x * l <= m * r /\ r <= x
  <2> DEFINE a == m * r
  <2>1. a \in Nat /\ r * l <= a
    BY <1>6
  <2> HIDE DEF a
  <2>2. a \div l \in Nat /\ (a \div l) * l <= a /\ r <= a \div l
    BY <1>1, <1>2, <2>1, Quotient, QuotientBounds
  <2> QED
    BY <2>2 DEF a
<1> HIDE DEF x
<1>8. rex \in Nat /\ s = x /\ s \in Nat
  BY <1>1, <1>4, <1>7
<1> HIDE DEF s, q
<1>9. /\ q \in PoolRows /\ q.total_lendable = m /\ q.total_rex = s /\ q.total_unlent = unlent
      /\ q.initialized = p.initialized /\ q.total_lent = p.total_lent
      /\ q.namebid_proceeds = p.namebid_proceeds /\ q.loan_num = p.loan_num
  BY <1>3, <1>5, <1>8 DEF PoolRows
<1>10. NotCheaper(p, q)
  <2>1. m * r >= l * x
    <3>1. l * x = x * l
      BY <1>1, <1>7
    <3> QED
      BY <1>7, <3>1
  <2> QED
    BY <1>8, <1>9, <2>1 DEF NotCheaper, l, r
<1>11. p.total_lendable + payment - p.total_lent >= 0
  BY <1>5 DEF l, unlent
<1> QED
  BY <1>2, <1>5, <1>8, <1>9, <1>10, <1>11 DEF q, m, l, s, r, unlent

\* A sale: the proceeds are rounded down, and the last share takes the last token.
LEMMA PoolSells ==
  ASSUME NEW p \in PoolRows, PoolOK(p), NEW rex \in Nat, rex > 0, rex <= p.total_rex,
         NEW proceeds, proceeds = (rex * p.total_lendable) \div p.total_rex,
         proceeds <= p.total_unlent - (2 * p.total_lent) \div 10,
         p.namebid_proceeds = 0
  PROVE  LET q == PoolAfterSale(p, rex, proceeds) IN
         /\ proceeds \in Nat
         /\ q \in PoolRows
         /\ q.initialized = p.initialized
         /\ q.total_lendable = p.total_lendable - proceeds /\ q.total_lent = p.total_lent
         /\ q.total_rex = p.total_rex - rex
         /\ q.namebid_proceeds = p.namebid_proceeds /\ q.loan_num = p.loan_num
         /\ NotCheaper(p, q)
         /\ PoolOK(q)
<1> DEFINE l == p.total_lendable
           r == p.total_rex
           d == (2 * p.total_lent) \div 10
           m == l - proceeds
           s == r - rex
           unlent == m - p.total_lent
           q == PoolAfterSale(p, rex, proceeds)
<1>1. /\ l \in Nat /\ r \in Nat /\ p.total_lent \in Nat /\ p.total_unlent \in Nat
      /\ p.initialized \in BOOLEAN
  BY DEF PoolRows
<1>2. /\ l = p.total_unlent + p.total_lent /\ (r > 0 => p.initialized)
      /\ r > 0 /\ rex <= r
  BY <1>1 DEF PoolOK
<1>3. q = [p EXCEPT !.total_rex = s, !.total_lendable = m, !.total_unlent = unlent]
  BY DEF PoolAfterSale
<1>4. proceeds = (rex * l) \div r
  OBVIOUS
<1>5. d \in Nat
  BY <1>1
<1> HIDE DEF d
<1>6. proceeds <= p.total_unlent - d
  BY DEF d
<1> HIDE DEF l, r
<1>7. rex * l \in Nat
  BY <1>1
<1>8. proceeds \in Nat /\ proceeds * r <= rex * l /\ rex * l < proceeds * r + r
  <2> DEFINE a == rex * l
  <2>1. a \in Nat /\ proceeds = a \div r
    BY <1>4, <1>7
  <2> HIDE DEF a
  <2>2. a \div r \in Nat /\ (a \div r) * r <= a /\ a < (a \div r) * r + r
    BY <1>1, <1>2, <2>1, Quotient
  <2> QED
    BY <2>1, <2>2 DEF a
<1>9. m \in Nat /\ s \in Nat /\ unlent \in Nat /\ unlent = p.total_unlent - proceeds
  BY <1>1, <1>2, <1>5, <1>6, <1>8
<1>10. m + proceeds = l /\ s + rex = r /\ m = unlent + p.total_lent
  BY <1>1, <1>8
<1> HIDE DEF m, s, unlent, q
<1>11. /\ q \in PoolRows /\ q.total_lendable = m /\ q.total_rex = s /\ q.total_unlent = unlent
       /\ q.initialized = p.initialized /\ q.total_lent = p.total_lent
       /\ q.namebid_proceeds = p.namebid_proceeds /\ q.loan_num = p.loan_num
  BY <1>3, <1>9 DEF PoolRows
<1>12. m * r >= l * s
  <2>1. (m + proceeds) * r = m * r + proceeds * r /\ l * (s + rex) = l * s + l * rex /\ l * rex = rex * l
    BY <1>1, <1>8, <1>9
  <2>2. m * r + proceeds * r = l * s + rex * l
    BY <1>10, <2>1
  <2>3. m * r \in Nat /\ l * s \in Nat /\ proceeds * r \in Nat
    BY <1>1, <1>8, <1>9
  <2> QED
    BY <1>7, <1>8, <2>2, <2>3
<1>13. s = 0 <=> m = 0
  <2>1. ASSUME s = 0 PROVE m = 0
    <3>1. rex = r
      BY <1>1, <1>9, <1>10, <2>1
    <3>2. r * l = l * r
      BY <1>1
    <3>3. l * r <= proceeds * r + r - 1
      BY <1>1, <1>2, <1>7, <1>8, <3>1, <3>2
    <3>4. ASSUME proceeds + 1 <= l PROVE FALSE
      <4>1. (proceeds + 1) * r <= l * r
        BY <1>1, <1>8, <3>4
      <4>2. (proceeds + 1) * r = proceeds * r + r
        BY <1>1, <1>8
      <4>3. l * r \in Nat /\ proceeds * r \in Nat
        BY <1>1, <1>8
      <4> QED
        BY <1>1, <1>2, <3>3, <4>1, <4>2, <4>3
    <3> QED
      BY <1>1, <1>8, <1>9, <1>10, <3>4
  <2>2. ASSUME m = 0 PROVE s = 0
    <3>1. proceeds = l /\ l > 0
      <4>1. r = 0 <=> l = 0
        BY DEF PoolOK, l, r
      <4> QED
        BY <1>1, <1>2, <1>8, <1>10, <2>2, <4>1
    <3>2. l * r <= rex * l
      BY <1>8, <3>1
    <3>3. ASSUME rex + 1 <= r PROVE FALSE
      <4>1. (rex + 1) * l <= r * l /\ r * l = l * r
        BY <1>1, <3>3
      <4>2. (rex + 1) * l = rex * l + l
        BY <1>1
      <4>3. l * r \in Nat
        BY <1>1
      <4> QED
        BY <1>1, <1>7, <3>1, <3>2, <4>1, <4>2, <4>3
    <3> QED
      BY <1>1, <1>9, <1>10, <3>3
  <2> QED
    BY <2>1, <2>2
<1>14. PoolOK(q)
  BY <1>1, <1>2, <1>9, <1>10, <1>11, <1>13 DEF PoolOK
<1>15. NotCheaper(p, q)
  BY <1>11, <1>12 DEF NotCheaper, l, r
<1> QED
  BY <1>8, <1>11, <1>14, <1>15 DEF q, m, l, s, r

-----------------------------------------------------------------------------
(* The sums that the totals are compared with.                             *)

\* The sums over the loans are natural numbers.
LEMMA LoanSums ==
  ASSUME NEW lns \in [LoanIds -> LoanRows]
  PROVE  /\ StakedIn(lns) \in [1 .. MaxLoans -> Nat] /\ BalanceIn(lns) \in [1 .. MaxLoans -> Nat]
         /\ LoanSum(StakedIn(lns)) \in Nat /\ LoanSum(BalanceIn(lns)) \in Nat
<1>1. \A k \in LoanIds : lns[k].total_staked \in Nat /\ lns[k].balance \in Nat
  BY DEF LoanRows
<1>2. StakedIn(lns) \in [1 .. MaxLoans -> Nat]
  BY <1>1 DEF StakedIn, LoanIds
<1>3. BalanceIn(lns) \in [1 .. MaxLoans -> Nat]
  BY <1>1 DEF BalanceIn, LoanIds
<1> QED
  BY <1>2, <1>3, SumToNat, MaxLoansAssumption DEF LoanSum

\* So is what is rented for one account.
LEMMA RentedSums ==
  ASSUME NEW lns \in [LoanIds -> LoanRows], NEW kind, NEW b
  PROVE  /\ RentedIn(lns, kind, b) \in [1 .. MaxLoans -> Nat]
         /\ LoanSum(RentedIn(lns, kind, b)) \in Nat
<1>1. \A k \in LoanIds : lns[k].total_staked \in Nat
  BY DEF LoanRows
<1>2. RentedIn(lns, kind, b) \in [1 .. MaxLoans -> Nat]
  BY <1>1 DEF RentedIn, LoanIds
<1> QED
  BY <1>2, SumToNat, MaxLoansAssumption DEF LoanSum

\* Replacing one loan changes each sum by the difference.
LEMMA LoanReplaced ==
  ASSUME NEW lns \in [LoanIds -> LoanRows], NEW k \in LoanIds, NEW v \in LoanRows
  PROVE  LET new == [lns EXCEPT ![k] = v] IN
         /\ new \in [LoanIds -> LoanRows]
         /\ LoanSum(StakedIn(new)) = LoanSum(StakedIn(lns)) + (v.total_staked - lns[k].total_staked)
         /\ LoanSum(BalanceIn(new)) = LoanSum(BalanceIn(lns)) + (v.balance - lns[k].balance)
<1> DEFINE new == [lns EXCEPT ![k] = v]
<1>1. new \in [LoanIds -> LoanRows] /\ new[k] = v /\ \A j \in LoanIds : j # k => new[j] = lns[j]
  OBVIOUS
<1>2. /\ v.total_staked \in Nat /\ v.balance \in Nat
      /\ lns[k].total_staked \in Nat /\ lns[k].balance \in Nat
  BY DEF LoanRows
<1> HIDE DEF new
<1>3. LoanSum(StakedIn(new)) = LoanSum(StakedIn(lns)) + (v.total_staked - lns[k].total_staked)
  <2> DEFINE f == StakedIn(lns)
             g == StakedIn(new)
             d == v.total_staked - lns[k].total_staked
  <2>1. f \in [1 .. MaxLoans -> Int] /\ g \in [1 .. MaxLoans -> Int]
    <3>1. f \in [1 .. MaxLoans -> Nat] /\ g \in [1 .. MaxLoans -> Nat]
      BY <1>1, LoanSums
    <3> HIDE DEF f, g
    <3> QED
      BY <3>1
  <2>2. d \in Int /\ g[k] = f[k] + d
    BY <1>1, <1>2 DEF StakedIn
  <2>3. \A j \in 1 .. MaxLoans : j # k => g[j] = f[j]
    BY <1>1 DEF StakedIn, LoanIds
  <2>4. k \in 1 .. MaxLoans /\ MaxLoans \in Nat
    BY MaxLoansAssumption DEF LoanIds
  <2> HIDE DEF f, g, d
  <2>5. SumTo(g, MaxLoans) = SumTo(f, MaxLoans) + d
    BY <2>1, <2>2, <2>3, <2>4, SumToAdd
  <2> QED
    BY <2>5 DEF f, g, d, LoanSum
<1>4. LoanSum(BalanceIn(new)) = LoanSum(BalanceIn(lns)) + (v.balance - lns[k].balance)
  <2> DEFINE f == BalanceIn(lns)
             g == BalanceIn(new)
             d == v.balance - lns[k].balance
  <2>1. f \in [1 .. MaxLoans -> Int] /\ g \in [1 .. MaxLoans -> Int]
    <3>1. f \in [1 .. MaxLoans -> Nat] /\ g \in [1 .. MaxLoans -> Nat]
      BY <1>1, LoanSums
    <3> HIDE DEF f, g
    <3> QED
      BY <3>1
  <2>2. d \in Int /\ g[k] = f[k] + d
    BY <1>1, <1>2 DEF BalanceIn
  <2>3. \A j \in 1 .. MaxLoans : j # k => g[j] = f[j]
    BY <1>1 DEF BalanceIn, LoanIds
  <2>4. k \in 1 .. MaxLoans /\ MaxLoans \in Nat
    BY MaxLoansAssumption DEF LoanIds
  <2> HIDE DEF f, g, d
  <2>5. SumTo(g, MaxLoans) = SumTo(f, MaxLoans) + d
    BY <2>1, <2>2, <2>3, <2>4, SumToAdd
  <2> QED
    BY <2>5 DEF f, g, d, LoanSum
<1> QED
  BY <1>1, <1>3, <1>4 DEF new

\* A change of one loan changes what is rented by the difference.
LEMMA RentedReplaced ==
  ASSUME NEW lns \in [LoanIds -> LoanRows], NEW k \in LoanIds,
         NEW ls \in [LoanIds -> LoanRows], NEW x, NEW c,
         \A j \in LoanIds : j # k => ls[j] = lns[j]
  PROVE  LoanSum(RentedIn(ls, x, c)) =
            LoanSum(RentedIn(lns, x, c)) + (RentedIn(ls, x, c)[k] - RentedIn(lns, x, c)[k])
<1> DEFINE f == RentedIn(lns, x, c)
           g == RentedIn(ls, x, c)
           d == g[k] - f[k]
<1>1. f \in [1 .. MaxLoans -> Int] /\ g \in [1 .. MaxLoans -> Int]
  <2>1. f \in [1 .. MaxLoans -> Nat] /\ g \in [1 .. MaxLoans -> Nat]
    BY RentedSums
  <2> HIDE DEF f, g
  <2> QED
    BY <2>1
<1>2. \A j \in 1 .. MaxLoans : j # k => g[j] = f[j]
  BY DEF RentedIn, LoanIds
<1>3. k \in 1 .. MaxLoans /\ MaxLoans \in Nat
  BY MaxLoansAssumption DEF LoanIds
<1> HIDE DEF f, g
<1>4. d \in Int /\ g[k] = f[k] + d
  BY <1>1, <1>3
<1> HIDE DEF d
<1>5. SumTo(g, MaxLoans) = SumTo(f, MaxLoans) + d
  BY <1>1, <1>2, <1>3, <1>4, SumToAdd
<1> QED
  BY <1>5 DEF f, g, d, LoanSum

\* What is rented for one account.
LEMMA RentedAt ==
  ASSUME NEW lns \in [LoanIds -> LoanRows], NEW k \in LoanIds, NEW kind, NEW b
  PROVE  RentedIn(lns, kind, b)[k] =
            IF lns[k].kind = kind /\ lns[k].receiver = b THEN lns[k].total_staked ELSE 0
BY DEF RentedIn

\* What is delegated to one account.
LEMMA DelegatedSums ==
  ASSUME NEW d \in Delegations, NEW b \in Names, NEW kind \in Kinds
  PROVE  DelegatedIn(d, kind, b) \in [1 .. N -> Nat] /\ Sum(DelegatedIn(d, kind, b)) \in Nat
<1>1. \A a \in Names : d[a][b][kind] \in Nat
  <2> TAKE a \in Names
  <2>1. d[a] \in [Names -> [Kinds -> Nat]]
    BY DEF Delegations
  <2>2. d[a][b] \in [Kinds -> Nat]
    BY <2>1
  <2> QED
    BY <2>2
<1>2. DelegatedIn(d, kind, b) \in [1 .. N -> Nat]
  BY <1>1 DEF DelegatedIn, Names
<1> QED
  BY <1>2, NAssumption, SumToNat DEF Sum

\* The sum of the balances, which bounds each of them.
LEMMA ShareSums ==
  ASSUME NEW rows \in [Names -> BalanceRows]
  PROVE  /\ SharesIn(rows) \in [Names -> Nat] /\ Sum(SharesIn(rows)) \in Nat
         /\ \A a \in Names : rows[a].rex_balance <= Sum(SharesIn(rows))
<1>1. SharesIn(rows) \in [Names -> Nat] /\ \A a \in Names : SharesIn(rows)[a] = rows[a].rex_balance
  BY DEF SharesIn, BalanceRows
<1> QED
  BY <1>1, SumToNat, SumToBoundsValue, NAssumption DEF Sum, Names

\* A change of one row changes the sum of the balances by the difference.
LEMMA RowReplaced ==
  ASSUME NEW rows \in [Names -> BalanceRows], NEW a \in Names, NEW r \in BalanceRows
  PROVE  LET new == [rows EXCEPT ![a] = r] IN
         /\ new \in [Names -> BalanceRows]
         /\ new[a] = r /\ \A b \in Names : b # a => new[b] = rows[b]
         /\ Sum(SharesIn(new)) = Sum(SharesIn(rows)) + (r.rex_balance - rows[a].rex_balance)
<1> DEFINE new == [rows EXCEPT ![a] = r]
           f == SharesIn(rows)
           g == SharesIn(new)
           d == r.rex_balance - rows[a].rex_balance
<1>1. new \in [Names -> BalanceRows] /\ new[a] = r /\ \A b \in Names : b # a => new[b] = rows[b]
  OBVIOUS
<1> HIDE DEF new
<1>2. f \in [1 .. N -> Int] /\ g \in [1 .. N -> Int]
  BY <1>1, ShareSums DEF Names
<1>3. r.rex_balance \in Nat /\ rows[a].rex_balance \in Nat
  BY DEF BalanceRows
<1>4. d \in Int /\ g[a] = f[a] + d
  BY <1>1, <1>3 DEF SharesIn
<1>5. \A b \in 1 .. N : b # a => g[b] = f[b]
  BY <1>1 DEF SharesIn, Names
<1>6. a \in 1 .. N /\ N \in Nat
  BY NAssumption DEF Names
<1> HIDE DEF f, g, d
<1>7. SumTo(g, N) = SumTo(f, N) + d
  BY <1>2, <1>4, <1>5, <1>6, SumToAdd
<1> QED
  BY <1>1, <1>7 DEF Sum, f, g, d, new

\* The sum of the proceeds that wait in filled orders.
LEMMA ProceedsSums ==
  ASSUME NEW ords \in [Names -> OrderRows]
  PROVE  ProceedsIn(ords) \in [Names -> Nat] /\ Sum(ProceedsIn(ords)) \in Nat
<1>1. ProceedsIn(ords) \in [Names -> Nat]
  BY DEF ProceedsIn, OrderRows
<1> QED
  BY <1>1, SumToNat, NAssumption DEF Sum, Names

\* A change of one order changes that sum by the difference.
LEMMA OrderReplaced ==
  ASSUME NEW ords \in [Names -> OrderRows], NEW a \in Names, NEW o \in OrderRows
  PROVE  LET new == [ords EXCEPT ![a] = o] IN
         /\ new \in [Names -> OrderRows]
         /\ new[a] = o /\ \A b \in Names : b # a => new[b] = ords[b]
         /\ Sum(ProceedsIn(new)) = Sum(ProceedsIn(ords)) + (o.proceeds - ords[a].proceeds)
<1> DEFINE new == [ords EXCEPT ![a] = o]
           f == ProceedsIn(ords)
           g == ProceedsIn(new)
           d == o.proceeds - ords[a].proceeds
<1>1. new \in [Names -> OrderRows] /\ new[a] = o /\ \A b \in Names : b # a => new[b] = ords[b]
  OBVIOUS
<1> HIDE DEF new
<1>2. f \in [1 .. N -> Int] /\ g \in [1 .. N -> Int]
  BY <1>1, ProceedsSums DEF Names
<1>3. o.proceeds \in Nat /\ ords[a].proceeds \in Nat
  BY DEF OrderRows
<1>4. d \in Int /\ g[a] = f[a] + d
  BY <1>1, <1>3 DEF ProceedsIn
<1>5. \A b \in 1 .. N : b # a => g[b] = f[b]
  BY <1>1 DEF ProceedsIn, Names
<1>6. a \in 1 .. N /\ N \in Nat
  BY NAssumption DEF Names
<1> HIDE DEF f, g, d
<1>7. SumTo(g, N) = SumTo(f, N) + d
  BY <1>2, <1>4, <1>5, <1>6, SumToAdd
<1> QED
  BY <1>1, <1>7 DEF Sum, f, g, d, new

\* A change of one fund changes the sum of the funds by the difference.
LEMMA FundReplaced ==
  ASSUME NEW fnd \in [Names -> Nat], NEW a \in Names, NEW d \in Int, fnd[a] + d >= 0
  PROVE  LET new == [fnd EXCEPT ![a] = fnd[a] + d] IN
         /\ new \in [Names -> Nat]
         /\ Sum(fnd) \in Nat
         /\ Sum(new) = Sum(fnd) + d
<1> DEFINE new == [fnd EXCEPT ![a] = fnd[a] + d]
<1>1. fnd[a] + d \in Nat
  OBVIOUS
<1>2. /\ new \in [Names -> Nat] /\ new[a] = fnd[a] + d
      /\ \A b \in 1 .. N : b # a => new[b] = fnd[b]
  BY <1>1 DEF Names
<1>3. fnd \in [1 .. N -> Int] /\ new \in [1 .. N -> Int] /\ a \in 1 .. N /\ N \in Nat
  BY <1>2, NAssumption DEF Names
<1>4. fnd \in [1 .. N -> Nat]
  BY DEF Names
<1> HIDE DEF new
<1>5. SumTo(new, N) = SumTo(fnd, N) + d /\ SumTo(fnd, N) \in Nat
  BY <1>2, <1>3, <1>4, SumToAdd, SumToNat
<1> QED
  BY <1>2, <1>5 DEF Sum, new

-----------------------------------------------------------------------------
(* Funds, votes and resources.                                             *)

\* The types of the single tables.
LEMMA Fields ==
  ASSUME NEW s \in TableSet
  PROVE  /\ s.ok = TRUE /\ s.pool \in PoolRows /\ s.fund \in [Names -> Nat]
         /\ s.rexbal \in [Names -> BalanceRows] /\ s.loans \in [LoanIds -> LoanRows]
         /\ s.orders \in [Names -> OrderRows] /\ s.staked \in [Names -> Int]
         /\ s.voting \in [Names -> BOOLEAN] /\ s.dbw \in Delegations
         /\ s.weight \in [Names -> [Kinds -> Nat]] /\ s.own \in [Names -> Nat]
         /\ s.acct \in Accounts
BY DEF TableSet

\* A check that holds changes nothing, and one that does not is remembered.
LEMMA Checked ==
  ASSUME NEW s \in TableSet, NEW condition \in BOOLEAN
  PROVE  /\ condition => Check(s, condition) = s
         /\ Check(s, condition).ok <=> condition
<1>1. s.ok = TRUE
  BY Fields
<1>2. ASSUME condition PROVE Check(s, condition) = s
  <2>1. (s.ok /\ condition) = TRUE
    BY <1>1, <1>2
  <2>2. Check(s, condition) = [s EXCEPT !.ok = TRUE]
    BY <2>1 DEF Check
  <2>3. s = [s EXCEPT !.ok = s.ok]
    BY DEF TableSet
  <2> QED
    BY <1>1, <2>2, <2>3
<1>3. Check(s, condition).ok = (s.ok /\ condition)
  BY DEF Check, TableSet
<1> QED
  BY <1>1, <1>2, <1>3

\* A positive payment into a fund never fails.
LEMMA PaysFund ==
  ASSUME NEW s \in TableSet, NEW owner \in Names, NEW amount \in Int, 0 < amount
  PROVE  LET f == [s.fund EXCEPT ![owner] = s.fund[owner] + amount]
             t == transfer_to_fund(s, owner, amount)
         IN  /\ t = [s EXCEPT !.fund = f]
             /\ t \in TableSet
             /\ Sum(s.fund) \in Nat
             /\ Sum(f) = Sum(s.fund) + amount
<1> DEFINE f == [s.fund EXCEPT ![owner] = s.fund[owner] + amount]
           u == [s EXCEPT !.fund = f]
<1>1. s.fund \in [Names -> Nat] /\ s.fund[owner] + amount >= 0
  <2>1. s.fund \in [Names -> Nat]
    BY Fields
  <2>2. s.fund[owner] \in Nat
    BY <2>1
  <2> QED
    BY <2>1, <2>2
<1>2. f \in [Names -> Nat] /\ Sum(f) = Sum(s.fund) + amount /\ Sum(s.fund) \in Nat
  BY <1>1, FundReplaced
<1>3. transfer_to_fund(s, owner, amount) = Check(u, 0 < amount)
  BY DEF transfer_to_fund
<1> HIDE DEF f
<1>4. u \in TableSet
  BY <1>2 DEF TableSet
<1> HIDE DEF u
<1>5. Check(u, 0 < amount) = u
  BY <1>4, Checked
<1> QED
  BY <1>2, <1>3, <1>4, <1>5 DEF f, u

\* A payment from a fund that does not fail is covered.
LEMMA TakesFund ==
  ASSUME NEW s \in TableSet, NEW owner \in Names, NEW amount \in Int
  PROVE  LET f == [s.fund EXCEPT ![owner] = s.fund[owner] - amount]
             t == transfer_from_fund(s, owner, amount)
         IN  t.ok => /\ 0 < amount /\ amount <= s.fund[owner]
                     /\ t = [s EXCEPT !.fund = f]
                     /\ t \in TableSet
                     /\ Sum(s.fund) \in Nat
                     /\ Sum(f) = Sum(s.fund) - amount
<1> DEFINE f == [s.fund EXCEPT ![owner] = s.fund[owner] - amount]
           u == [s EXCEPT !.fund = f]
           t == transfer_from_fund(s, owner, amount)
<1> SUFFICES ASSUME t.ok
             PROVE  /\ 0 < amount /\ amount <= s.fund[owner]
                    /\ t = u
                    /\ u \in TableSet
                    /\ Sum(s.fund) \in Nat
                    /\ Sum(f) = Sum(s.fund) - amount
  OBVIOUS
<1>1. t = [u EXCEPT !.ok = u.ok /\ (0 < amount /\ amount <= s.fund[owner])]
  BY DEF transfer_from_fund, Check
<1>2. 0 < amount /\ amount <= s.fund[owner]
  BY <1>1 DEF TableSet
<1>3. s.fund \in [Names -> Nat] /\ s.fund[owner] + (-amount) >= 0 /\ -amount \in Int
  <2>1. s.fund \in [Names -> Nat]
    BY Fields
  <2>2. s.fund[owner] \in Nat
    BY <2>1
  <2> QED
    BY <1>2, <2>1, <2>2
<1>4. /\ [s.fund EXCEPT ![owner] = s.fund[owner] + (-amount)] \in [Names -> Nat]
      /\ Sum([s.fund EXCEPT ![owner] = s.fund[owner] + (-amount)]) = Sum(s.fund) + (-amount)
      /\ Sum(s.fund) \in Nat
  BY <1>3, FundReplaced
<1>5. [s.fund EXCEPT ![owner] = s.fund[owner] + (-amount)] = f
  <2>1. s.fund[owner] + (-amount) = s.fund[owner] - amount
    BY <1>3
  <2> QED
    BY <2>1
<1>6. f \in [Names -> Nat] /\ Sum(f) = Sum(s.fund) - amount
  BY <1>3, <1>4, <1>5
<1> HIDE DEF f
<1>7. u \in TableSet
  BY <1>6 DEF TableSet
<1> HIDE DEF u
<1>8. t = Check(u, 0 < amount /\ amount <= s.fund[owner])
  BY <1>1 DEF Check
<1>9. t = u
  BY <1>2, <1>7, <1>8, Checked
<1> QED
  BY <1>2, <1>4, <1>6, <1>7, <1>9

\* A change of the voting stake that does not fail, and what it leaves alone.
LEMMA MovesVotes ==
  ASSUME NEW s \in TableSet, NEW voter \in Names, NEW delta \in Int
  PROVE  LET t == update_voting_power(s, voter, delta) IN
         t.ok => /\ t = [s EXCEPT !.staked = [s.staked EXCEPT ![voter] = s.staked[voter] + delta]]
                 /\ t \in TableSet
<1> DEFINE f == [s.staked EXCEPT ![voter] = s.staked[voter] + delta]
           u == [s EXCEPT !.staked = f]
           condition == 0 <= s.staked[voter] + delta
           t == update_voting_power(s, voter, delta)
<1>1. s.staked \in [Names -> Int]
  BY Fields
<1>2. f \in [Names -> Int]
  BY <1>1
<1>3. t = Check(u, condition)
  BY DEF update_voting_power
<1>4. condition \in BOOLEAN
  OBVIOUS
<1> HIDE DEF f, condition, t
<1>5. u \in TableSet
  BY <1>2 DEF TableSet
<1> HIDE DEF u
<1>6. t.ok => t = u
  BY <1>3, <1>4, <1>5, Checked
<1> QED
  BY <1>5, <1>6 DEF f, t, u

\* A weight can be changed as long as it does not fall below zero.
LEMMA MovesWeight ==
  ASSUME NEW s \in TableSet, NEW b \in Names, NEW kind \in Kinds, NEW delta \in Int
  PROVE  LET t == update_resource_limits(s, b, kind, delta)
         IN  /\ t.ok => 0 <= s.weight[b][kind] + delta
             /\ 0 <= s.weight[b][kind] + delta =>
                   /\ t = [s EXCEPT !.weight = t.weight]
                   /\ t \in TableSet
                   /\ t.weight \in [Names -> [Kinds -> Nat]]
                   /\ WeightMoves(s.weight, t.weight, b, kind, delta)
<1> DEFINE row == [s.weight[b] EXCEPT ![kind] = s.weight[b][kind] + delta]
           w == [s.weight EXCEPT ![b] = row]
           u == [s EXCEPT !.weight = w]
           condition == 0 <= s.weight[b][kind] + delta
           t == update_resource_limits(s, b, kind, delta)
<1>1. s.weight \in [Names -> [Kinds -> Nat]]
  BY Fields
<1>2. t = [u EXCEPT !.ok = u.ok /\ condition] /\ t = Check(u, condition)
  BY DEF update_resource_limits, Check
<1>3. condition \in BOOLEAN
  OBVIOUS
<1>4. t.ok => condition
  <2> HIDE DEF condition, w
  <2> QED
    BY <1>2 DEF TableSet
<1>5. ASSUME condition
      PROVE  /\ t = [s EXCEPT !.weight = t.weight] /\ t \in TableSet
             /\ t.weight \in [Names -> [Kinds -> Nat]]
             /\ WeightMoves(s.weight, t.weight, b, kind, delta)
  <2>1. s.weight[b] \in [Kinds -> Nat] /\ s.weight[b][kind] + delta \in Nat
    BY <1>1, <1>5
  <2>2. row \in [Kinds -> Nat] /\ \A x \in Kinds : row[x] = IF x = kind THEN s.weight[b][kind] + delta ELSE s.weight[b][x]
    BY <2>1
  <2> HIDE DEF row
  <2>3. w \in [Names -> [Kinds -> Nat]] /\ \A c \in Names : w[c] = IF c = b THEN row ELSE s.weight[c]
    BY <1>1, <2>2
  <2>4. WeightMoves(s.weight, w, b, kind, delta)
    BY <2>2, <2>3 DEF WeightMoves
  <2> HIDE DEF w, t, condition
  <2>5. u \in TableSet /\ u.weight = w
    BY <2>3 DEF TableSet
  <2>6. u = [s EXCEPT !.weight = u.weight]
    BY <2>5
  <2> HIDE DEF u
  <2>7. t = u
    BY <1>2, <1>3, <1>5, <2>5, Checked
  <2> QED
    BY <2>3, <2>4, <2>5, <2>6, <2>7
<1> QED
  BY <1>4, <1>5

-----------------------------------------------------------------------------
(* An expired loan.                                                        *)

\* Two such steps in a row are one.
LEMMA LoanStepTransitive ==
  ASSUME NEW s \in TableSet, NEW t \in TableSet, NEW u \in TableSet, LoanStep(s, t), LoanStep(t, u)
  PROVE  LoanStep(s, u)
<1>1. /\ s.pool.total_lendable \in Nat /\ t.pool.total_lendable \in Nat
      /\ u.pool.total_lendable \in Nat
  <2>1. s.pool \in PoolRows /\ t.pool \in PoolRows /\ u.pool \in PoolRows
    BY Fields
  <2> QED
    BY <2>1 DEF PoolRows
<1>2. /\ t.pool.total_lendable >= s.pool.total_lendable
      /\ u.pool.total_lendable >= t.pool.total_lendable
      /\ t.orders = s.orders
  BY DEF LoanStep
<1>3. u.pool.total_lendable >= s.pool.total_lendable
  BY <1>1, <1>2
<1>4. (\E a \in Names : s.orders[a].state = "open") =>
          \A k \in LoanIds : u.loans[k] \in {s.loans[k], NoLoan}
  BY <1>2 DEF LoanStep
<1> QED
  BY <1>3, <1>4 DEF LoanStep

\* Doing nothing is one.
LEMMA LoanStepReflexive ==
  ASSUME NEW s \in TableSet
  PROVE  LoanStep(s, s)
<1>1. s.pool.total_lendable \in Nat
  <2>1. s.pool \in PoolRows
    BY Fields
  <2> QED
    BY <2>1 DEF PoolRows
<1> QED
  BY <1>1 DEF LoanStep

\* The loan of a kind is held by two accounts, and its stake is lent and
\* part of a weight.
LEMMA OpenLoan ==
  ASSUME NEW tm, NEW x, NEW free, NEW s, Good(s, tm, x, free), NEW k \in LoanIds, s.loans[k].kind \in Kinds
  PROVE  LET loan == s.loans[k] IN
         /\ loan \in LoanRows /\ loan.from \in Names /\ loan.receiver \in Names
         /\ k <= s.pool.loan_num
         /\ loan.total_staked \in Nat /\ loan.balance \in Nat /\ loan.payment \in Nat
         /\ loan.expiration \in Nat
         /\ loan.total_staked <= s.pool.total_lent
         /\ loan.total_staked <= s.weight[loan.receiver][loan.kind]
<1> DEFINE loan == s.loans[k]
           b == loan.receiver
           f == StakedIn(s.loans)
           g == RentedIn(s.loans, loan.kind, b)
           d == DelegatedIn(s.dbw, loan.kind, b)
<1>1. s \in TableSet /\ LoansOK(s.pool, s.loans) /\ WeightOK(s.weight, s.dbw, s.loans)
  BY DEF Good
<1>2. s.loans \in [LoanIds -> LoanRows] /\ s.dbw \in Delegations
  BY <1>1, Fields
<1>3. loan \in LoanRows /\ loan.kind # "none"
  BY <1>2 DEF Kinds
<1>4. loan.from \in Names /\ b \in Names /\ k <= s.pool.loan_num
  BY <1>1, <1>3 DEF LoansOK
<1>5. /\ loan.total_staked \in Nat /\ loan.balance \in Nat /\ loan.payment \in Nat
      /\ loan.expiration \in Nat
  BY <1>3 DEF LoanRows
<1>6. k \in 1 .. MaxLoans /\ MaxLoans \in Nat
  BY MaxLoansAssumption DEF LoanIds
<1>7. loan.total_staked <= s.pool.total_lent
  <2>1. f \in [1 .. MaxLoans -> Nat] /\ f[k] = loan.total_staked
    BY <1>2, LoanSums DEF StakedIn
  <2>2. s.pool.total_lent = SumTo(f, MaxLoans)
    BY <1>1 DEF LoansOK, LoanSum
  <2> HIDE DEF f
  <2> QED
    BY <1>6, <2>1, <2>2, SumToBoundsValue
<1>8. loan.total_staked <= s.weight[b][loan.kind]
  <2>1. g \in [1 .. MaxLoans -> Nat] /\ g[k] = loan.total_staked /\ SumTo(g, MaxLoans) \in Nat
    BY <1>2, RentedSums, RentedAt DEF LoanSum
  <2>2. Sum(d) \in Nat
    BY <1>1, <1>2, <1>4, DelegatedSums
  <2>3. s.weight[b][loan.kind] = Sum(d) + SumTo(g, MaxLoans)
    BY <1>1, <1>4 DEF WeightOK, LoanSum
  <2> HIDE DEF g, d
  <2>4. g[k] <= SumTo(g, MaxLoans)
    BY <1>6, <2>1, SumToBoundsValue
  <2> QED
    BY <1>5, <2>1, <2>2, <2>3, <2>4
<1> QED
  BY <1>3, <1>4, <1>5, <1>7, <1>8

\* If one loan and one weight change by the same stake, the weights still match.
LEMMA WeightFollowsLoan ==
  ASSUME NEW lns \in [LoanIds -> LoanRows], NEW k \in LoanIds, NEW new \in [LoanIds -> LoanRows],
         \A j \in LoanIds : j # k => new[j] = lns[j],
         NEW w \in [Names -> [Kinds -> Nat]], NEW w2, NEW d \in Delegations,
         WeightOK(w, d, lns), NEW b \in Names, NEW kind \in Kinds, NEW delta \in Int,
         WeightMoves(w, w2, b, kind, delta), RentMoves(lns, new, k, b, kind, delta)
  PROVE  WeightOK(w2, d, new)
<1> SUFFICES ASSUME NEW c \in Names, NEW x \in Kinds
             PROVE  w2[c][x] = Sum(DelegatedIn(d, x, c)) + LoanSum(RentedIn(new, x, c))
  BY DEF WeightOK
<1>1. w[c][x] = Sum(DelegatedIn(d, x, c)) + LoanSum(RentedIn(lns, x, c))
  BY DEF WeightOK
<1>2. LoanSum(RentedIn(new, x, c)) =
         LoanSum(RentedIn(lns, x, c)) + (RentedIn(new, x, c)[k] - RentedIn(lns, x, c)[k])
  BY RentedReplaced
<1>3. LoanSum(RentedIn(lns, x, c)) \in Nat
  BY RentedSums
<1>4. Sum(DelegatedIn(d, x, c)) \in Nat
  BY DelegatedSums
<1>5. w2[c][x] = IF c = b /\ x = kind THEN w[c][x] + delta ELSE w[c][x]
  BY DEF WeightMoves
<1>6. RentedIn(new, x, c)[k] - RentedIn(lns, x, c)[k] = IF c = b /\ x = kind THEN delta ELSE 0
  BY DEF RentMoves
<1> QED
  BY <1>1, <1>2, <1>3, <1>4, <1>5, <1>6

\* A change of one loan that the pool, the funds and the weights follow.
LEMMA LoanChanged ==
  ASSUME NEW tm, NEW x, NEW free, NEW s, Good(s, tm, x, free),
         NEW k \in LoanIds, NEW v \in LoanRows, NEW q \in PoolRows, NEW f \in [Names -> Nat],
         NEW w \in [Names -> [Kinds -> Nat]],
         PoolOK(q), q.loan_num >= s.pool.loan_num,
         q.total_rex = s.pool.total_rex, q.namebid_proceeds = s.pool.namebid_proceeds,
         q.total_lent = s.pool.total_lent + (v.total_staked - s.loans[k].total_staked),
         v.kind = "none" => v.total_staked = 0 /\ v.balance = 0,
         v.kind # "none" => k <= q.loan_num /\ v.from \in Names /\ v.receiver \in Names,
         q.total_lendable + Sum(f) + v.balance =
            s.pool.total_lendable + Sum(s.fund) + s.loans[k].balance,
         WeightOK(w, s.dbw, [s.loans EXCEPT ![k] = v])
  PROVE  Good([s EXCEPT !.pool = q, !.fund = f, !.loans = [s.loans EXCEPT ![k] = v], !.weight = w],
              tm, x, free)
<1> DEFINE new == [s.loans EXCEPT ![k] = v]
           t == [s EXCEPT !.pool = q, !.fund = f, !.loans = new, !.weight = w]
           p == s.pool
           lns == s.loans
<1>1. s \in TableSet
  BY DEF Good
<1>2. /\ p \in PoolRows /\ s.fund \in [Names -> Nat] /\ lns \in [LoanIds -> LoanRows]
      /\ s.orders \in [Names -> OrderRows] /\ s.acct \in Accounts
  BY <1>1, Fields
<1>3. /\ new \in [LoanIds -> LoanRows] /\ new[k] = v /\ \A j \in LoanIds : j # k => new[j] = lns[j]
      /\ LoanSum(StakedIn(new)) = LoanSum(StakedIn(lns)) + (v.total_staked - lns[k].total_staked)
      /\ LoanSum(BalanceIn(new)) = LoanSum(BalanceIn(lns)) + (v.balance - lns[k].balance)
  <2>1. new[k] = v /\ \A j \in LoanIds : j # k => new[j] = lns[j]
    BY <1>2
  <2> QED
    BY <1>2, <2>1, LoanReplaced
<1>4. LoanSum(StakedIn(lns)) \in Nat /\ LoanSum(BalanceIn(lns)) \in Nat
  BY <1>2, LoanSums
<1>5. /\ v.total_staked \in Nat /\ v.balance \in Nat
      /\ lns[k].total_staked \in Nat /\ lns[k].balance \in Nat
  <2>1. lns[k] \in LoanRows
    BY <1>2
  <2> QED
    BY <2>1 DEF LoanRows
<1>6. /\ p.total_lendable \in Nat /\ p.total_lent \in Nat /\ p.loan_num \in Nat
      /\ q.total_lendable \in Nat /\ q.total_lent \in Nat /\ q.loan_num \in Nat
  BY <1>2 DEF PoolRows
<1> HIDE DEF new
<1>7. /\ t \in TableSet /\ t.pool = q /\ t.fund = f /\ t.loans = new /\ t.weight = w
      /\ t.rexbal = s.rexbal /\ t.orders = s.orders /\ t.voting = s.voting /\ t.dbw = s.dbw
      /\ t.acct = s.acct
  BY <1>1, <1>3 DEF TableSet
<1> HIDE DEF t
<1>8. LoansOK(q, new)
  <2>1. q.total_lent = LoanSum(StakedIn(new))
    <3>1. p.total_lent = LoanSum(StakedIn(lns))
      BY DEF Good, LoansOK
    <3> QED
      BY <1>3, <1>4, <1>5, <1>6, <3>1
  <2>2. ASSUME NEW j \in LoanIds
        PROVE  /\ new[j].kind = "none" => new[j].total_staked = 0 /\ new[j].balance = 0
               /\ new[j].kind # "none" =>
                     j <= q.loan_num /\ new[j].from \in Names /\ new[j].receiver \in Names
    <3>1. CASE j = k
      BY <1>3, <3>1
    <3>2. CASE j # k
      <4>1. /\ lns[j].kind = "none" => lns[j].total_staked = 0 /\ lns[j].balance = 0
            /\ lns[j].kind # "none" =>
                  j <= p.loan_num /\ lns[j].from \in Names /\ lns[j].receiver \in Names
        BY DEF Good, LoansOK
      <4>2. new[j] = lns[j] /\ j \in Int
        BY <1>3, <3>2 DEF LoanIds
      <4>3. j <= p.loan_num => j <= q.loan_num
        BY <1>6, <4>2
      <4> QED
        BY <4>1, <4>2, <4>3
    <3> QED
      BY <3>1, <3>2
  <2> QED
    BY <2>1, <2>2 DEF LoansOK
<1>9. BackedOK(s.acct, q, f, new, s.orders, x)
  <2>1. s.acct.rex = p.total_lendable + Sum(s.fund) + LoanSum(BalanceIn(lns)) + Sum(ProceedsIn(s.orders)) + x
    BY DEF Good, BackedOK
  <2>2. Sum(s.fund) \in Nat /\ Sum(f) \in Nat
    BY <1>2, SumToNat, NAssumption DEF Sum, Names
  <2> DEFINE rest == Sum(ProceedsIn(s.orders)) + x
             before == p.total_lendable + Sum(s.fund) + LoanSum(BalanceIn(lns))
             after == q.total_lendable + Sum(f) + LoanSum(BalanceIn(new))
  <2>3. before = after
    <3> DEFINE sf == Sum(s.fund)
               sg == Sum(f)
               lb == LoanSum(BalanceIn(lns))
               nb == LoanSum(BalanceIn(new))
               pl == p.total_lendable
               ql == q.total_lendable
               vb == v.balance
               ob == lns[k].balance
    <3>1. ql + sg + vb = pl + sf + ob
      OBVIOUS
    <3>2. nb = lb + (vb - ob)
      BY <1>3
    <3>3. /\ sf \in Int /\ sg \in Int /\ lb \in Int /\ pl \in Int /\ ql \in Int /\ vb \in Int
          /\ ob \in Int
      BY <1>4, <1>5, <1>6, <2>2
    <3> HIDE DEF sf, sg, lb, nb, pl, ql, vb, ob
    <3>4. pl + sf + lb = ql + sg + nb
      BY <3>1, <3>2, <3>3
    <3> QED
      BY <3>4 DEF sf, sg, lb, nb, pl, ql, vb, ob
  <2>4. Sum(ProceedsIn(s.orders)) \in Nat
    BY <1>2, ProceedsSums
  <2>5. s.acct.rex = before + Sum(ProceedsIn(s.orders)) + x
    BY <2>1
  <2> HIDE DEF before, after
  <2>6. s.acct.rex = after + Sum(ProceedsIn(s.orders)) + x
    BY <2>3, <2>5
  <2> QED
    BY <2>6 DEF after, BackedOK
<1>10. SharesOK(q, s.rexbal) /\ NamebidsOK(s.acct, q)
  BY DEF Good, SharesOK, NamebidsOK
<1>11. WeightOK(w, s.dbw, new)
  BY DEF new
<1>12. VotesOK(s.rexbal, s.voting) /\ RowsOK(s.rexbal, tm) /\ OrdersOK(s.orders, s.rexbal, free)
  BY DEF Good
<1>13. Good(t, tm, x, free)
  BY <1>7, <1>8, <1>9, <1>10, <1>11, <1>12 DEF Good
<1> QED
  BY <1>13 DEF t, new

\* A loan that expires is closed, or renewed if no order waits.
LEMMA LoanExpires ==
  ASSUME NEW tm, NEW x, NEW free, NEW s, Good(s, tm, x, free),
         NEW k \in LoanIds, s.loans[k].kind \in Kinds
  PROVE  Good(process_expired_loan(s, k), tm, x, free) /\ LoanStep(s, process_expired_loan(s, k))
<1> DEFINE loan == s.loans[k]
           b == loan.receiver
           kind == loan.kind
           p == PoolWithoutLoan(s.pool, loan)
           s1 == [s EXCEPT !.pool = p]
           rented == get_bancor_output(p.total_rent, p.total_unlent, loan.payment)
           renew == /\ loan.payment <= loan.balance
                    /\ loan.payment < rented
                    /\ rex_loans_available(s1)
           v == Renewed(loan, rented)
           q == PoolWithLoan(p, loan.payment, rented, FALSE)
           delta == rented - loan.total_staked
           u == [s EXCEPT !.pool = q, !.loans = [s.loans EXCEPT ![k] = v]]
           s3 == [s EXCEPT !.pool = p, !.loans = [s.loans EXCEPT ![k] = NoLoan]]
           s4 == IF loan.balance > 0 THEN transfer_to_fund(s3, loan.from, loan.balance) ELSE s3
           t == process_expired_loan(s, k)
<1>1. s \in TableSet /\ PoolOK(s.pool) /\ WeightOK(s.weight, s.dbw, s.loans)
  BY DEF Good
<1>2. /\ s.pool \in PoolRows /\ s.loans \in [LoanIds -> LoanRows] /\ s.fund \in [Names -> Nat]
      /\ s.weight \in [Names -> [Kinds -> Nat]] /\ s.dbw \in Delegations
  BY <1>1, Fields
<1>3. s1.pool = p /\ s1.loans = s.loans /\ s1.orders = s.orders
  BY <1>1 DEF TableSet
<1>4. t = IF renew THEN update_resource_limits(u, b, kind, delta)
          ELSE update_resource_limits(s4, b, kind, -loan.total_staked)
  <2>1. remove_loan_from_rex_pool(s, loan) = s1
    BY DEF remove_loan_from_rex_pool
  <2>2. [add_loan_to_rex_pool(s1, loan.payment, rented, FALSE) EXCEPT !.loans[k] = v] = u
    BY <1>1, <1>3 DEF add_loan_to_rex_pool, TableSet
  <2>3. [s1 EXCEPT !.loans[k] = NoLoan] = s3
    BY <1>1 DEF TableSet
  <2> HIDE DEF s1, u, s3, v
  <2> QED
    BY <1>3, <2>1, <2>2, <2>3 DEF process_expired_loan, v
<1>5. /\ loan \in LoanRows /\ loan.from \in Names /\ b \in Names
      /\ k <= s.pool.loan_num
      /\ loan.total_staked \in Nat /\ loan.balance \in Nat /\ loan.payment \in Nat
      /\ loan.expiration \in Nat
      /\ loan.total_staked <= s.pool.total_lent
      /\ loan.total_staked <= s.weight[b][kind]
  BY OpenLoan
<1>6. /\ p \in PoolRows
      /\ p.initialized = s.pool.initialized /\ p.total_rex = s.pool.total_rex
      /\ p.namebid_proceeds = s.pool.namebid_proceeds /\ p.loan_num = s.pool.loan_num
      /\ p.total_lent = s.pool.total_lent - loan.total_staked
      /\ p.total_unlent = s.pool.total_unlent + loan.total_staked
      /\ p.total_lendable = s.pool.total_unlent + s.pool.total_lent
  BY <1>2, <1>5, PoolTakesBack
<1>7. /\ s.pool.total_unlent \in Nat /\ s.pool.total_lent \in Nat /\ s.pool.loan_num \in Nat
      /\ s.pool.total_lendable \in Nat /\ s.pool.total_rex \in Nat
      /\ s.pool.total_lendable = s.pool.total_unlent + s.pool.total_lent
  BY <1>1, <1>2 DEF PoolRows, PoolOK
<1>8. s.weight[b][kind] \in Nat
  <2>1. s.weight[b] \in [Kinds -> Nat]
    BY <1>2, <1>5
  <2> QED
    BY <2>1
<1>9. Sum(s.fund) \in Nat
  BY <1>2, SumToNat, NAssumption DEF Sum, Names
<1> HIDE DEF p, t, u, s3
<1>10. ASSUME renew PROVE Good(t, tm, x, free) /\ LoanStep(s, t)
  <2> DEFINE new == [s.loans EXCEPT ![k] = v]
  <2>1. rented \in Nat /\ rented <= p.total_unlent
    <3>1. p.total_rent \in Nat /\ p.total_unlent \in Nat
      BY <1>6 DEF PoolRows
    <3>2. rented \in 0 .. p.total_unlent
      BY <1>5, <3>1, Bancor
    <3> QED
      BY <3>1, <3>2
  <2>2. /\ \A a \in Names : s.orders[a].state # "open"
        /\ s.pool.initialized /\ s.pool.total_rex > 0
    BY <1>3, <1>6, <1>10 DEF rex_loans_available, rex_available
  <2>3. loan.payment <= loan.balance
    BY <1>10
  <2> HIDE DEF renew, rented, s1
  <2>4. /\ q \in PoolRows
        /\ q.initialized = p.initialized /\ q.total_rex = p.total_rex
        /\ q.namebid_proceeds = p.namebid_proceeds
        /\ q.total_lent = p.total_lent + rented
        /\ q.total_unlent = p.total_unlent - rented + loan.payment
        /\ q.total_lendable = p.total_unlent + p.total_lent + loan.payment
        /\ q.loan_num = p.loan_num
    <3> DEFINE pay == loan.payment
    <3>1. pay \in Nat /\ FALSE \in BOOLEAN /\ p \in PoolRows
      BY <1>5, <1>6
    <3>2. q = PoolWithLoan(p, pay, rented, FALSE)
      OBVIOUS
    <3> HIDE DEF pay, q
    <3>3. /\ q \in PoolRows
          /\ q.initialized = p.initialized /\ q.total_rex = p.total_rex
          /\ q.namebid_proceeds = p.namebid_proceeds
          /\ q.total_lent = p.total_lent + rented
          /\ q.total_unlent = p.total_unlent - rented + pay
          /\ q.total_lendable = p.total_unlent + p.total_lent + pay
          /\ q.loan_num = IF FALSE THEN p.loan_num + 1 ELSE p.loan_num
      BY <2>1, <3>1, <3>2, PoolLends
    <3> QED
      BY <3>3 DEF pay
  <2>5. /\ v \in LoanRows /\ v.kind = kind /\ v.from = loan.from /\ v.receiver = b
        /\ v.total_staked = rented /\ v.balance = loan.balance - loan.payment
    <3>1. loan.balance - loan.payment \in Nat /\ loan.expiration + LoanTerm \in Nat
      BY <1>5, <2>3, TimeAssumption
    <3> QED
      BY <1>5, <2>1, <3>1 DEF Renewed, LoanRows
  <2> HIDE DEF v
  <2>6. new \in [LoanIds -> LoanRows] /\ new[k] = v /\ \A j \in LoanIds : j # k => new[j] = s.loans[j]
    BY <1>2, <2>5
  <2> HIDE DEF q
  <2>7. u \in TableSet /\ u.weight = s.weight
    <3> HIDE DEF new
    <3>1. u = [s EXCEPT !.pool = q, !.loans = new]
      BY DEF u, new
    <3> QED
      BY <1>1, <2>4, <2>6, <3>1 DEF TableSet
  <2>8. delta \in Int /\ 0 <= u.weight[b][kind] + delta
    BY <1>5, <1>8, <2>1, <2>7
  <2>9. t = update_resource_limits(u, b, kind, delta)
    BY <1>4, <1>10
  <2>10. delta = rented - loan.total_staked
    OBVIOUS
  <2> HIDE DEF delta
  <2>11. /\ t = [u EXCEPT !.weight = t.weight] /\ t \in TableSet
         /\ t.weight \in [Names -> [Kinds -> Nat]]
         /\ WeightMoves(s.weight, t.weight, b, kind, delta)
    <3> HIDE DEF b
    <3> QED
      BY <1>5, <2>7, <2>8, <2>9, MovesWeight
  <2> HIDE DEF new
  <2>12. RentMoves(s.loans, new, k, b, kind, delta)
    <3> SUFFICES ASSUME NEW c \in Names, NEW y \in Kinds
                 PROVE  RentedIn(new, y, c)[k] - RentedIn(s.loans, y, c)[k] =
                           IF c = b /\ y = kind THEN delta ELSE 0
      BY DEF RentMoves
    <3>1. RentedIn(new, y, c)[k] = IF c = b /\ y = kind THEN rented ELSE 0
      BY <2>5, <2>6, RentedAt
    <3>2. RentedIn(s.loans, y, c)[k] = IF c = b /\ y = kind THEN loan.total_staked ELSE 0
      BY <1>2, RentedAt
    <3> QED
      BY <1>5, <2>1, <2>10, <3>1, <3>2
  <2>13. WeightOK(t.weight, s.dbw, new)
    BY <1>1, <1>2, <1>5, <2>6, <2>8, <2>11, <2>12, WeightFollowsLoan
  <2>14. /\ q.total_lendable = s.pool.total_lendable + loan.payment
         /\ q.total_lent = s.pool.total_lent + (rented - loan.total_staked)
         /\ q.total_lendable = q.total_unlent + q.total_lent
         /\ q.loan_num >= s.pool.loan_num
         /\ q.total_lendable >= s.pool.total_lendable
    BY <1>5, <1>6, <1>7, <2>1, <2>4
  <2>15. PoolOK(q)
    <3>1. s.pool.total_lendable > 0
      BY <1>1, <1>7, <2>2 DEF PoolOK
    <3>2. q.total_rex > 0 /\ q.total_rex \in Nat /\ q.total_lendable > 0 /\ q.initialized
      BY <1>5, <1>6, <1>7, <2>2, <2>4, <2>14, <3>1
    <3> QED
      BY <2>14, <3>2 DEF PoolOK
  <2>16. v.kind # "none" /\ k <= q.loan_num /\ v.from \in Names /\ v.receiver \in Names
    BY <1>5, <1>6, <2>4, <2>5 DEF Kinds
  <2>17. q.total_lendable + Sum(s.fund) + v.balance = s.pool.total_lendable + Sum(s.fund) + loan.balance
    BY <1>5, <1>7, <1>9, <2>5, <2>14
  <2>18. t = [s EXCEPT !.pool = q, !.fund = s.fund, !.loans = new, !.weight = t.weight]
    <3>1. u = [s EXCEPT !.pool = q, !.loans = new]
      BY DEF u, new
    <3>2. [u EXCEPT !.weight = t.weight] = [s EXCEPT !.pool = q, !.fund = s.fund, !.loans = new, !.weight = t.weight]
      BY <1>1, <3>1 DEF TableSet
    <3> QED
      BY <2>11, <3>2
  <2>19. Good([s EXCEPT !.pool = q, !.fund = s.fund, !.loans = new, !.weight = t.weight], tm, x, free)
    <3>1. /\ q \in PoolRows /\ q.total_rex = s.pool.total_rex
          /\ q.namebid_proceeds = s.pool.namebid_proceeds
      BY <1>6, <2>4
    <3>2. s.fund \in [Names -> Nat]
      BY <1>1, Fields
    <3>3. q.total_lent = s.pool.total_lent + (v.total_staked - s.loans[k].total_staked)
      BY <2>5, <2>14
    <3>4. q.total_lendable + Sum(s.fund) + v.balance =
            s.pool.total_lendable + Sum(s.fund) + s.loans[k].balance
      BY <2>17
    <3>5. WeightOK(t.weight, s.dbw, [s.loans EXCEPT ![k] = v])
      BY <2>13 DEF new
    <3>6. v \in LoanRows /\ t.weight \in [Names -> [Kinds -> Nat]] /\ q.loan_num >= s.pool.loan_num
      BY <2>5, <2>11, <2>14
    <3> HIDE DEF t
    <3>7. Good([s EXCEPT !.pool = q, !.fund = s.fund, !.loans = [s.loans EXCEPT ![k] = v],
                         !.weight = t.weight], tm, x, free)
      BY <2>15, <2>16, <3>1, <3>2, <3>3, <3>4, <3>5, <3>6, LoanChanged
    <3> QED
      BY <3>7 DEF new
  <2>20. LoanStep(s, t)
    <3>1. /\ t.rexbal = s.rexbal /\ t.orders = s.orders /\ t.staked = s.staked
          /\ t.voting = s.voting /\ t.dbw = s.dbw /\ t.own = s.own /\ t.acct = s.acct /\ t.pool = q
      BY <1>1, <2>18 DEF TableSet
    <3> QED
      BY <1>6, <2>2, <2>4, <2>14, <3>1 DEF LoanStep
  <2> QED
    BY <2>18, <2>19, <2>20
<1>11. ASSUME ~ renew PROVE Good(t, tm, x, free) /\ LoanStep(s, t)
  <2> DEFINE new == [s.loans EXCEPT ![k] = NoLoan]
             delta2 == -loan.total_staked
             f == s4.fund
  <2>1. NoLoan \in LoanRows /\ NoLoan.kind = "none" /\ NoLoan.total_staked = 0 /\ NoLoan.balance = 0
    BY NAssumption DEF NoLoan, LoanRows
  <2>2. t = update_resource_limits(s4, b, kind, delta2)
    BY <1>4, <1>11
  <2> HIDE DEF renew, rented, s1, v, q, delta, NoLoan
  <2>3. new \in [LoanIds -> LoanRows] /\ new[k] = NoLoan /\ \A j \in LoanIds : j # k => new[j] = s.loans[j]
    BY <1>2, <2>1
  <2>4. s3 = [s EXCEPT !.pool = p, !.loans = new]
    BY DEF s3
  <2> HIDE DEF new
  <2>5. s3 \in TableSet /\ s3.fund = s.fund
    BY <1>1, <1>6, <2>3, <2>4 DEF TableSet
  <2>6. /\ s4 = [s3 EXCEPT !.fund = f] /\ s4 \in TableSet /\ f \in [Names -> Nat]
        /\ Sum(f) = Sum(s.fund) + loan.balance
    <3>1. CASE loan.balance > 0
      <4>1. s4 = transfer_to_fund(s3, loan.from, loan.balance)
        BY <3>1
      <4> DEFINE f2 == [s3.fund EXCEPT ![loan.from] = s3.fund[loan.from] + loan.balance]
      <4>2. s4 = [s3 EXCEPT !.fund = f2] /\ s4 \in TableSet /\ Sum(f2) = Sum(s3.fund) + loan.balance
        BY <1>5, <2>5, <3>1, <4>1, PaysFund
      <4> HIDE DEF f2, s4
      <4>3. s4.fund = f2
        BY <2>5, <4>2 DEF TableSet
      <4> QED
        BY <2>5, <4>2, <4>3, Fields
    <3>2. CASE ~ (loan.balance > 0)
      <4>1. s4 = s3 /\ loan.balance = 0
        BY <1>5, <3>2
      <4> HIDE DEF s4
      <4>2. s3 = [s3 EXCEPT !.fund = s3.fund]
        BY <2>5 DEF TableSet
      <4>3. s4.fund = s.fund /\ s.fund \in [Names -> Nat]
        BY <1>2, <2>5, <4>1
      <4>4. Sum(s4.fund) = Sum(s.fund) + loan.balance
        BY <1>9, <4>1, <4>3
      <4> QED
        BY <2>5, <4>1, <4>2, <4>3, <4>4
    <3> QED
      BY <3>1, <3>2
  <2> HIDE DEF s4
  <2>7. s4.weight = s.weight
    BY <1>1, <2>4, <2>5, <2>6 DEF TableSet
  <2>8. delta2 \in Int /\ 0 <= s4.weight[b][kind] + delta2
    BY <1>5, <1>8, <2>7
  <2>9. delta2 = -loan.total_staked
    OBVIOUS
  <2> HIDE DEF delta2
  <2>10. /\ t = [s4 EXCEPT !.weight = t.weight] /\ t \in TableSet
         /\ t.weight \in [Names -> [Kinds -> Nat]]
         /\ WeightMoves(s.weight, t.weight, b, kind, delta2)
    <3> HIDE DEF b
    <3> QED
      BY <1>5, <2>2, <2>6, <2>7, <2>8, MovesWeight
  <2>11. RentMoves(s.loans, new, k, b, kind, delta2)
    <3> SUFFICES ASSUME NEW c \in Names, NEW y \in Kinds
                 PROVE  RentedIn(new, y, c)[k] - RentedIn(s.loans, y, c)[k] =
                           IF c = b /\ y = kind THEN delta2 ELSE 0
      BY DEF RentMoves
    <3>1. RentedIn(new, y, c)[k] = 0
      <4>1. y # "none"
        BY DEF Kinds
      <4> QED
        BY <2>1, <2>3, <4>1, RentedAt
    <3>2. RentedIn(s.loans, y, c)[k] = IF c = b /\ y = kind THEN loan.total_staked ELSE 0
      BY <1>2, RentedAt
    <3> QED
      BY <1>5, <2>9, <3>1, <3>2
  <2>12. WeightOK(t.weight, s.dbw, new)
    BY <1>1, <1>2, <1>5, <2>3, <2>8, <2>10, <2>11, WeightFollowsLoan
  <2>13. /\ p.total_lendable = s.pool.total_lendable
         /\ p.total_lent = s.pool.total_lent + (NoLoan.total_staked - loan.total_staked)
         /\ p.total_lendable = p.total_unlent + p.total_lent
         /\ p.loan_num >= s.pool.loan_num
    BY <1>5, <1>6, <1>7, <2>1
  <2>14. PoolOK(p)
    BY <1>1, <1>6, <2>13 DEF PoolOK
  <2>15. p.total_lendable + Sum(f) + NoLoan.balance = s.pool.total_lendable + Sum(s.fund) + loan.balance
    BY <1>5, <1>7, <1>9, <2>1, <2>6, <2>13
  <2>16. t = [s EXCEPT !.pool = p, !.fund = f, !.loans = new, !.weight = t.weight]
    <3> HIDE DEF f
    <3>1. s4 = [s EXCEPT !.pool = p, !.fund = f, !.loans = new]
      BY <1>1, <2>4, <2>6 DEF TableSet
    <3>2. [s4 EXCEPT !.weight = t.weight] = [s EXCEPT !.pool = p, !.fund = f, !.loans = new, !.weight = t.weight]
      BY <1>1, <3>1 DEF TableSet
    <3> QED
      BY <2>10, <3>2
  <2> HIDE DEF f
  <2>17. Good([s EXCEPT !.pool = p, !.fund = f, !.loans = new, !.weight = t.weight], tm, x, free)
    BY <1>2, <1>6, <2>1, <2>6, <2>10, <2>12, <2>13, <2>14, <2>15, LoanChanged DEF new
  <2>18. LoanStep(s, t)
    <3>1. /\ t.rexbal = s.rexbal /\ t.orders = s.orders /\ t.staked = s.staked
          /\ t.voting = s.voting /\ t.dbw = s.dbw /\ t.own = s.own /\ t.acct = s.acct /\ t.pool = p
          /\ t.loans = new
      BY <1>1, <2>16 DEF TableSet
    <3>2. \A j \in LoanIds : t.loans[j] \in {s.loans[j], NoLoan}
      BY <2>3, <3>1
    <3> QED
      BY <1>6, <1>7, <2>13, <3>1, <3>2 DEF LoanStep
  <2> QED
    BY <2>16, <2>17, <2>18
<1> QED
  BY <1>10, <1>11 DEF t

-----------------------------------------------------------------------------
(* The proceeds of name auctions.                                          *)

\* Tokens that come to eosio.rex and to the pool.
LEMMA PoolReceives ==
  ASSUME NEW tm, NEW x \in Int, NEW free, NEW s, Good(s, tm, x, free), rex_available(s),
         NEW amount \in Nat, NEW q \in PoolRows, NEW accounts \in Accounts,
         q.initialized = s.pool.initialized, q.total_rex = s.pool.total_rex,
         q.total_lent = s.pool.total_lent, q.loan_num = s.pool.loan_num,
         q.total_unlent = s.pool.total_unlent + amount,
         q.total_lendable = s.pool.total_lendable + amount,
         accounts.rex = s.acct.rex + amount, NamebidsOK(accounts, q)
  PROVE  Good([s EXCEPT !.pool = q, !.acct = accounts], tm, x, free)
<1> DEFINE t == [s EXCEPT !.pool = q, !.acct = accounts]
           p == s.pool
<1>1. s \in TableSet /\ PoolOK(p)
  BY DEF Good
<1>2. /\ p \in PoolRows /\ s.fund \in [Names -> Nat] /\ s.loans \in [LoanIds -> LoanRows]
      /\ s.orders \in [Names -> OrderRows] /\ s.acct \in Accounts
  BY <1>1, Fields
<1>3. /\ p.total_lendable \in Nat /\ p.total_lent \in Nat /\ p.total_unlent \in Nat
      /\ p.total_rex \in Nat /\ p.namebid_proceeds \in Nat
  BY <1>2 DEF PoolRows
<1>4. p.initialized /\ p.total_rex > 0
  BY DEF rex_available
<1>5. /\ t \in TableSet /\ t.pool = q /\ t.acct = accounts
      /\ t.fund = s.fund /\ t.loans = s.loans /\ t.weight = s.weight
      /\ t.rexbal = s.rexbal /\ t.orders = s.orders /\ t.voting = s.voting /\ t.dbw = s.dbw
  BY <1>1 DEF TableSet
<1> HIDE DEF t
<1>6. PoolOK(q)
  <2>1. p.total_lendable = p.total_unlent + p.total_lent /\ p.total_lendable # 0
    BY <1>1, <1>3, <1>4 DEF PoolOK
  <2> QED
    BY <1>3, <1>4, <2>1 DEF PoolOK
<1>7. BackedOK(accounts, q, s.fund, s.loans, s.orders, x)
  <2> DEFINE sf == Sum(s.fund)
             lb == LoanSum(BalanceIn(s.loans))
             sp == Sum(ProceedsIn(s.orders))
             before == p.total_lendable + sf + lb + sp
             after == q.total_lendable + sf + lb + sp
  <2>1. s.acct.rex = before + x /\ s.acct.rex \in Int
    BY <1>2 DEF Good, BackedOK, Accounts
  <2>2. sf \in Nat /\ lb \in Nat /\ sp \in Nat
    BY <1>2, SumToNat, NAssumption, LoanSums, ProceedsSums DEF Sum, Names
  <2> HIDE DEF sf, lb, sp
  <2>3. after = before + amount /\ after \in Int /\ before \in Int
    BY <1>3, <2>2
  <2> HIDE DEF before, after
  <2>4. accounts.rex = after + x
    BY <2>1, <2>3
  <2> QED
    BY <2>4 DEF BackedOK, after, sf, lb, sp
<1>8. LoansOK(q, s.loans) /\ SharesOK(q, s.rexbal)
  BY DEF Good, LoansOK, SharesOK
<1>9. Good(t, tm, x, free)
  BY <1>5, <1>6, <1>7, <1>8 DEF Good
<1> QED
  BY <1>9 DEF t

\* The proceeds that stay waiting are those that were given.
LEMMA NothingLeft ==
  ASSUME NEW s \in TableSet, NEW from \in {"names", "ramfee"}, NEW amount, NEW left
  PROVE  Channeled(s, from, amount, left).pool.namebid_proceeds = left
BY DEF Channeled, channel_to_rex, TableSet, PoolRows, Accounts

\* Fees that are channeled to the pool keep the tables good.
LEMMA FeesChanneled ==
  ASSUME NEW tm, NEW x \in Int, NEW free, NEW s, Good(s, tm, x, free), rex_available(s),
         NEW from \in {"names", "ramfee"}, NEW amount \in Nat, NEW left \in Nat,
         left <= s.pool.namebid_proceeds,
         from = "names" => left <= s.acct.names - amount
  PROVE  LET t == Channeled(s, from, amount, left) IN
         /\ Good(t, tm, x, free)
         /\ LoanStep(s, t)
         /\ t.staked = s.staked /\ t.rexbal = s.rexbal /\ t.orders = s.orders /\ t.loans = s.loans
         /\ t = [s EXCEPT !.pool = t.pool, !.acct = t.acct]
<1> DEFINE p == s.pool
           unlent == p.total_unlent + amount
           lendable == p.total_lendable + amount
           q == [p EXCEPT !.total_unlent = unlent, !.total_lendable = lendable, !.namebid_proceeds = left]
           a1 == [s.acct EXCEPT ![from] = s.acct[from] - amount]
           a2 == [a1 EXCEPT !.rex = a1.rex + amount]
           t == Channeled(s, from, amount, left)
           u == [s EXCEPT !.pool = q, !.acct = a2]
<1>1. s \in TableSet
  BY DEF Good
<1>2. p \in PoolRows /\ s.acct \in Accounts
  BY <1>1, Fields
<1>3. t = u
  BY <1>1, <1>2 DEF Channeled, channel_to_rex, TableSet, PoolRows, Accounts
<1>4. /\ p.total_lendable \in Nat /\ p.total_unlent \in Nat
  BY <1>2 DEF PoolRows
<1>5. unlent \in Nat /\ lendable \in Nat /\ lendable >= p.total_lendable
  BY <1>4
<1>6. /\ s.acct.names \in Int /\ s.acct.ramfee \in Int /\ s.acct.rex \in Int /\ s.acct.stake \in Int
  BY <1>2 DEF Accounts
<1>7. s.acct[from] \in Int
  BY <1>6
<1>8. /\ a1 \in Accounts /\ a1.rex = s.acct.rex
      /\ a1.names = IF from = "names" THEN s.acct.names - amount ELSE s.acct.names
  BY <1>2, <1>6, <1>7 DEF Accounts
<1> HIDE DEF a1
<1>9. a2 \in Accounts /\ a2.rex = s.acct.rex + amount /\ a2.names = a1.names
  BY <1>6, <1>8 DEF Accounts
<1> HIDE DEF a2, unlent, lendable
<1>10. /\ q \in PoolRows /\ q.namebid_proceeds = left
       /\ q.total_unlent = unlent /\ q.total_lendable = lendable /\ q.total_lent = p.total_lent
       /\ q.initialized = p.initialized /\ q.total_rex = p.total_rex /\ q.loan_num = p.loan_num
  BY <1>2, <1>5 DEF PoolRows
<1> HIDE DEF q
<1>11. NamebidsOK(a2, q)
  <2>1. p.namebid_proceeds <= s.acct.names /\ p.namebid_proceeds \in Nat
    BY <1>2 DEF Good, NamebidsOK, PoolRows
  <2> QED
    BY <1>6, <1>8, <1>9, <1>10, <2>1 DEF NamebidsOK
<1>12. Good(u, tm, x, free)
  <2>1. q.total_unlent = p.total_unlent + amount /\ q.total_lendable = p.total_lendable + amount
    BY <1>10 DEF unlent, lendable
  <2> QED
    BY <1>9, <1>10, <1>11, <2>1, PoolReceives
<1>13. /\ u.pool = q /\ u.acct = a2 /\ u.rexbal = s.rexbal /\ u.orders = s.orders
       /\ u.staked = s.staked /\ u.voting = s.voting /\ u.dbw = s.dbw /\ u.own = s.own
       /\ u.loans = s.loans
  BY <1>1 DEF TableSet
<1>14. LoanStep(s, u)
  <2>1. p.namebid_proceeds = 0 => left = 0
    <3>1. p.namebid_proceeds \in Nat
      BY <1>2 DEF PoolRows
    <3> QED
      BY <3>1
  <2> QED
    BY <1>5, <1>10, <1>13, <2>1 DEF LoanStep
<1> HIDE DEF u, t
<1>15. u = [s EXCEPT !.pool = u.pool, !.acct = u.acct]
  BY <1>13 DEF u
<1> QED
  BY <1>3, <1>10, <1>12, <1>13, <1>14, <1>15 DEF t

-----------------------------------------------------------------------------
(* A sale.                                                                 *)

\* The value of an amount of REX is a natural number.
LEMMA StakeOfNat ==
  ASSUME NEW s, s.pool \in PoolRows, NEW rex \in Nat
  PROVE  StakeOf(s, rex) \in Nat
<1> DEFINE l == s.pool.total_lendable
           r == s.pool.total_rex
           a == rex * l
<1>1. l \in Nat /\ r \in Nat
  BY DEF PoolRows
<1>2. a \in Nat
  BY <1>1
<1>3. StakeOf(s, rex) = IF r > 0 THEN a \div r ELSE 0
  BY DEF StakeOf
<1> HIDE DEF l, r, a
<1> QED
  BY <1>1, <1>2, <1>3, Quotient

\* A sale that can be paid keeps the tables good; its proceeds are not booked yet.
LEMMA OrderFilled ==
  ASSUME NEW tm, NEW x \in Int, NEW free, NEW s, Good(s, tm, x, free),
         NEW owner \in Names, NEW rex \in Nat, rex > 0, rex <= s.rexbal[owner].matured_rex,
         s.pool.namebid_proceeds = 0, Fillable(s, rex)
  PROVE  LET t == fill_rex_order(s, owner, rex) IN
         /\ s.pool.total_rex > 0
         /\ Proceeds(s, rex) \in Nat /\ StakeChange(s, owner, rex) \in Int
         /\ Good(t, tm, x + Proceeds(s, rex), free \cup {owner})
         /\ Sold(s, t, owner, rex)
<1> DEFINE p == s.pool
           rb == s.rexbal[owner]
           proceeds == Proceeds(s, rex)
           change == StakeChange(s, owner, rex)
           q == PoolAfterSale(p, rex, proceeds)
           r == RowAfterSale(rb, rex, change)
           rows == [s.rexbal EXCEPT ![owner] = r]
           t == fill_rex_order(s, owner, rex)
<1>1. s \in TableSet /\ PoolOK(p) /\ SharesOK(p, s.rexbal) /\ RowsOK(s.rexbal, tm)
  BY DEF Good
<1>2. /\ p \in PoolRows /\ s.fund \in [Names -> Nat] /\ s.loans \in [LoanIds -> LoanRows]
      /\ s.orders \in [Names -> OrderRows] /\ s.rexbal \in [Names -> BalanceRows]
  BY <1>1, Fields
<1>3. rb \in BalanceRows
  BY <1>2
<1>4. /\ rb.matured_rex \in Nat /\ rb.rex_balance \in Nat /\ rb.vote_stake \in Int
      /\ rb.rex_maturities \in Seq(BucketRows) /\ rb.row \in BOOLEAN
  BY <1>3 DEF BalanceRows
<1>5. RowOK(rb, tm) /\ InBuckets(rb.rex_maturities) \in Nat
  BY <1>1, <1>4, BucketsNat DEF RowsOK
<1>6. rb.rex_balance = rb.matured_rex + InBuckets(rb.rex_maturities) /\ rb.row
  <2>1. rb.matured_rex # 0
    BY <1>4
  <2>2. rb # NoBalance
    <3>1. NoBalance.matured_rex = 0
      BY DEF NoBalance
    <3> QED
      BY <2>1, <3>1
  <2> QED
    BY <1>4, <1>5, <2>2 DEF RowOK
<1>7. p.total_rex = Sum(SharesIn(s.rexbal)) /\ rb.rex_balance <= p.total_rex
  BY <1>1, <1>2, ShareSums DEF SharesOK
<1>8. /\ p.total_rex \in Nat /\ p.total_lendable \in Nat /\ p.total_lent \in Nat /\ p.total_unlent \in Nat
  BY <1>2 DEF PoolRows
<1>9. rex <= p.total_rex /\ p.total_rex > 0 /\ rex <= rb.rex_balance
  BY <1>4, <1>5, <1>6, <1>7, <1>8
<1>10. /\ proceeds = (rex * p.total_lendable) \div p.total_rex
       /\ proceeds <= p.total_unlent - (2 * p.total_lent) \div 10
  BY DEF Proceeds, Fillable
<1>11. t = [s EXCEPT !.pool = q, !.rexbal = rows]
  BY DEF fill_rex_order
<1>12. change = StakeOf(s, rb.rex_balance) - proceeds - rb.vote_stake
  BY DEF StakeChange
<1> HIDE DEF proceeds, change, t
<1>13. /\ proceeds \in Nat
       /\ q \in PoolRows
       /\ q.initialized = p.initialized
       /\ q.total_lendable = p.total_lendable - proceeds /\ q.total_lent = p.total_lent
       /\ q.total_rex = p.total_rex - rex
       /\ q.namebid_proceeds = p.namebid_proceeds /\ q.loan_num = p.loan_num
       /\ NotCheaper(p, q)
       /\ PoolOK(q)
  BY <1>1, <1>2, <1>9, <1>10, PoolSells
<1>14. change \in Int
  <2>1. StakeOf(s, rb.rex_balance) \in Nat
    BY <1>2, <1>4, StakeOfNat
  <2> QED
    BY <1>4, <1>12, <1>13, <2>1
<1> HIDE DEF q
<1>15. /\ r \in BalanceRows /\ r.row = rb.row /\ r.rex_maturities = rb.rex_maturities
       /\ r.vote_stake = rb.vote_stake + change
       /\ r.rex_balance = rb.rex_balance - rex /\ r.matured_rex = rb.matured_rex - rex
  <2>1. rb.rex_balance - rex \in Nat
    BY <1>4, <1>9
  <2>2. rb.matured_rex - rex \in Nat
    BY <1>4
  <2>3. rb.vote_stake + change \in Int
    BY <1>4, <1>14
  <2> QED
    BY <1>3, <2>1, <2>2, <2>3 DEF RowAfterSale, BalanceRows
<1> HIDE DEF r
<1>16. /\ rows \in [Names -> BalanceRows]
       /\ rows[owner] = r /\ \A b \in Names : b # owner => rows[b] = s.rexbal[b]
       /\ Sum(SharesIn(rows)) = Sum(SharesIn(s.rexbal)) + (r.rex_balance - rb.rex_balance)
  BY <1>2, <1>15, RowReplaced
<1> HIDE DEF rows
<1>17. /\ t \in TableSet /\ t.pool = q /\ t.rexbal = rows
       /\ t.fund = s.fund /\ t.loans = s.loans /\ t.weight = s.weight
       /\ t.orders = s.orders /\ t.voting = s.voting /\ t.dbw = s.dbw
       /\ t.acct = s.acct /\ t.staked = s.staked /\ t.own = s.own
  BY <1>1, <1>11, <1>13, <1>16 DEF TableSet
<1>18. SharesOK(q, rows)
  BY <1>4, <1>7, <1>8, <1>13, <1>15, <1>16 DEF SharesOK
<1>19. BackedOK(s.acct, q, s.fund, s.loans, s.orders, x + proceeds)
  <2> DEFINE sf == Sum(s.fund)
             lb == LoanSum(BalanceIn(s.loans))
             sp == Sum(ProceedsIn(s.orders))
  <2>1. s.acct.rex = p.total_lendable + sf + lb + sp + x
    BY DEF Good, BackedOK
  <2>2. sf \in Nat /\ lb \in Nat /\ sp \in Nat
    BY <1>2, SumToNat, NAssumption, LoanSums, ProceedsSums DEF Sum, Names
  <2> HIDE DEF sf, lb, sp
  <2>3. s.acct.rex = q.total_lendable + sf + lb + sp + (x + proceeds)
    BY <1>8, <1>13, <2>1, <2>2
  <2> QED
    BY <2>3 DEF BackedOK, sf, lb, sp
<1>20. NamebidsOK(s.acct, q) /\ LoansOK(q, s.loans)
  BY <1>13 DEF Good, LoansOK, NamebidsOK
<1>21. VotesOK(rows, s.voting)
  <2> SUFFICES ASSUME NEW b \in Names, rows[b].rex_balance > 0 PROVE s.voting[b]
    BY DEF VotesOK
  <2>1. s.rexbal[b].rex_balance > 0
    BY <1>4, <1>15, <1>16
  <2> QED
    BY <2>1 DEF Good, VotesOK
<1>22. RowsOK(rows, tm)
  <2> SUFFICES ASSUME NEW b \in Names PROVE RowOK(rows[b], tm)
    BY DEF RowsOK
  <2>1. CASE b # owner
    BY <1>1, <1>16, <2>1 DEF RowsOK
  <2>2. CASE b = owner
    <3>1. r.rex_balance = r.matured_rex + InBuckets(r.rex_maturities)
      BY <1>4, <1>5, <1>6, <1>15
    <3>2. Ordered(r.rex_maturities, tm) /\ r.row
      BY <1>5, <1>6, <1>15 DEF RowOK
    <3> QED
      BY <1>16, <2>2, <3>1, <3>2 DEF RowOK
  <2> QED
    BY <2>1, <2>2
<1>23. OrdersOK(s.orders, rows, free \cup {owner})
  BY <1>16 DEF Good, OrdersOK
<1>24. Good(t, tm, x + proceeds, free \cup {owner})
  BY <1>13, <1>17, <1>18, <1>19, <1>20, <1>21, <1>22, <1>23 DEF Good
<1>25. Sold(s, t, owner, rex)
  BY <1>13, <1>15, <1>16, <1>17 DEF Sold, change
<1> QED
  BY <1>9, <1>13, <1>14, <1>24, <1>25 DEF t, proceeds, change

-----------------------------------------------------------------------------
(* The queue of orders.                                                    *)

\* Doing nothing is such a step.
LEMMA OrderStepReflexive ==
  ASSUME NEW s \in TableSet
  PROVE  OrderStep(s, s)
<1>1. s.pool \in PoolRows
  BY Fields
<1>2. s.pool.total_rex \in Nat /\ s.pool.total_lendable \in Nat
  BY <1>1 DEF PoolRows
<1>3. NotCheaper(s.pool, s.pool)
  BY <1>1, <1>2, NotCheaperSame
<1> QED
  BY <1>2, <1>3 DEF OrderStep

\* Two of them in a row are one.
LEMMA OrderStepTransitive ==
  ASSUME NEW s \in TableSet, NEW t \in TableSet, NEW u \in TableSet, OrderStep(s, t), OrderStep(t, u)
  PROVE  OrderStep(s, u)
<1>1. s.pool \in PoolRows /\ t.pool \in PoolRows /\ u.pool \in PoolRows
  BY Fields
<1>2. s.pool.total_rex \in Nat /\ t.pool.total_rex \in Nat /\ u.pool.total_rex \in Nat
  BY <1>1 DEF PoolRows
<1>3. u.pool.total_rex <= t.pool.total_rex /\ t.pool.total_rex <= s.pool.total_rex
  BY DEF OrderStep
<1>4. u.pool.total_rex <= s.pool.total_rex
  BY <1>2, <1>3
<1>5. ASSUME u.pool.total_rex > 0 PROVE NotCheaper(s.pool, u.pool)
  <2>1. t.pool.total_rex > 0
    BY <1>2, <1>3, <1>5
  <2>2. NotCheaper(s.pool, t.pool) /\ NotCheaper(t.pool, u.pool)
    BY <1>5, <2>1 DEF OrderStep
  <2> QED
    BY <1>1, <2>1, <2>2, NotCheaperTransitive
<1>6. ASSUME NEW a \in Names
      PROVE  /\ u.rexbal[a].row = s.rexbal[a].row
             /\ u.orders[a].stake_change - u.rexbal[a].vote_stake =
                   s.orders[a].stake_change - s.rexbal[a].vote_stake
             /\ u.orders[a].state = "open" => s.orders[a].state = "open"
             /\ s.orders[a].state # "open" => u.rexbal[a] = s.rexbal[a] /\ u.orders[a] = s.orders[a]
  BY DEF OrderStep
<1> QED
  BY <1>4, <1>5, <1>6 DEF OrderStep

\* An order that is tried is filled and closed, or stays as it is.
LEMMA OrderTried ==
  ASSUME NEW tm, NEW x \in Int, NEW s, Good(s, tm, x, {}), s.pool.namebid_proceeds = 0,
         NEW owner \in Names, s.orders[owner].state = "open"
  PROVE  LET t == close_order(s, owner) IN
         /\ Good(t, tm, x, {})
         /\ OrderStep(s, t)
         /\ \A b \in Names : b # owner => t.orders[b] = s.orders[b]
<1> DEFINE order == s.orders[owner]
           rex == order.rex_requested
           proceeds == Proceeds(s, rex)
           change == StakeChange(s, owner, rex)
           c == Closed(order, proceeds, change)
           u == fill_rex_order(s, owner, rex)
           ords == [s.orders EXCEPT ![owner] = c]
           t == close_order(s, owner)
<1>1. s \in TableSet /\ OrdersOK(s.orders, s.rexbal, {})
  BY DEF Good
<1>2. s.orders \in [Names -> OrderRows] /\ s.pool \in PoolRows
  BY <1>1, Fields
<1>3. order \in OrderRows
  BY <1>2
<1>4. rex \in Nat /\ rex > 0 /\ rex <= s.rexbal[owner].matured_rex /\ order.proceeds = 0 /\ order.stake_change = 0
  BY <1>1, <1>3 DEF OrdersOK, OrderOK, OrderRows
<1>5. t = IF s.rexbal[owner].row /\ Fillable(s, rex) THEN [u EXCEPT !.orders[owner] = c] ELSE s
  BY DEF close_order
<1>6. CASE ~ (s.rexbal[owner].row /\ Fillable(s, rex))
  <2>1. t = s
    BY <1>5, <1>6
  <2> QED
    BY <1>1, <2>1, OrderStepReflexive
<1>7. CASE s.rexbal[owner].row /\ Fillable(s, rex)
  <2> HIDE DEF proceeds, change, u, t
  <2>1. /\ proceeds \in Nat /\ change \in Int
        /\ Good(u, tm, x + proceeds, {owner})
        /\ Sold(s, u, owner, rex)
    <3>1. {} \cup {owner} = {owner}
      OBVIOUS
    <3> QED
      BY <1>4, <1>7, <3>1, OrderFilled DEF proceeds, change, u
  <2>2. u.orders = s.orders
    BY <2>1 DEF Sold
  <2>3. t = [u EXCEPT !.orders = ords]
    BY <1>5, <1>7, <2>2
  <2>4. /\ c \in OrderRows /\ c.state = "closed" /\ c.proceeds = proceeds /\ c.stake_change = change
    BY <1>3, <2>1 DEF Closed, OrderRows
  <2> HIDE DEF c
  <2>5. /\ ords \in [Names -> OrderRows] /\ ords[owner] = c
        /\ \A b \in Names : b # owner => ords[b] = s.orders[b]
        /\ Sum(ProceedsIn(ords)) = Sum(ProceedsIn(s.orders)) + (proceeds - 0)
    <3>1. /\ ords \in [Names -> OrderRows] /\ ords[owner] = c
          /\ \A b \in Names : b # owner => ords[b] = s.orders[b]
          /\ Sum(ProceedsIn(ords)) = Sum(ProceedsIn(s.orders)) + (c.proceeds - order.proceeds)
      BY <1>2, <2>4, OrderReplaced
    <3> QED
      BY <1>4, <2>4, <3>1
  <2> HIDE DEF ords
  <2>6. u \in TableSet
    BY <2>1 DEF Good
  <2>7. /\ t \in TableSet /\ t.orders = ords /\ t.pool = u.pool /\ t.rexbal = u.rexbal
        /\ t.fund = u.fund /\ t.loans = u.loans /\ t.weight = u.weight /\ t.voting = u.voting
        /\ t.dbw = u.dbw /\ t.acct = u.acct /\ t.staked = u.staked /\ t.own = u.own
    BY <2>3, <2>5, <2>6 DEF TableSet
  <2>8. OrdersOK(ords, u.rexbal, {})
    <3> SUFFICES ASSUME NEW b \in Names
                 PROVE  /\ OrderOK(ords[b])
                        /\ ords[b].state = "open" => ords[b].rex_requested <= u.rexbal[b].matured_rex
      BY DEF OrdersOK
    <3>1. CASE b = owner
      BY <2>4, <2>5, <3>1 DEF OrderOK
    <3>2. CASE b # owner
      BY <1>1, <2>1, <2>5, <3>2 DEF OrdersOK, Sold
    <3> QED
      BY <3>1, <3>2
  <2>9. BackedOK(u.acct, u.pool, u.fund, u.loans, ords, x)
    <3> DEFINE sf == Sum(u.fund)
               lb == LoanSum(BalanceIn(u.loans))
               sp == Sum(ProceedsIn(s.orders))
               np == Sum(ProceedsIn(ords))
               l  == u.pool.total_lendable
    <3>1. u.acct.rex = l + sf + lb + sp + (x + proceeds)
      BY <2>1, <2>2 DEF Good, BackedOK
    <3>2. sf \in Nat /\ lb \in Nat /\ sp \in Nat /\ np \in Nat /\ l \in Nat /\ np = sp + (proceeds - 0)
      <4>1. u.fund \in [Names -> Nat] /\ u.loans \in [LoanIds -> LoanRows] /\ u.pool \in PoolRows
        BY <2>6, Fields
      <4> QED
        BY <1>2, <2>5, <4>1, SumToNat, NAssumption, LoanSums, ProceedsSums DEF Sum, Names, PoolRows
    <3> HIDE DEF sf, lb, sp, np, l
    <3>3. u.acct.rex = l + sf + lb + np + x
      BY <2>1, <3>1, <3>2
    <3> QED
      BY <3>3 DEF BackedOK, sf, lb, np, l
  <2>10. Good(t, tm, x, {})
    BY <2>1, <2>7, <2>8, <2>9 DEF Good
  <2>11. OrderStep(s, t)
    <3>1. \A a \in Names :
             /\ t.rexbal[a].row = s.rexbal[a].row
             /\ t.orders[a].stake_change - t.rexbal[a].vote_stake =
                   s.orders[a].stake_change - s.rexbal[a].vote_stake
             /\ t.orders[a].state = "open" => s.orders[a].state = "open"
             /\ s.orders[a].state # "open" => t.rexbal[a] = s.rexbal[a] /\ t.orders[a] = s.orders[a]
      <4> TAKE a \in Names
      <4>1. CASE a # owner
        BY <2>1, <2>5, <2>7, <4>1 DEF Sold
      <4>2. CASE a = owner
        <5>1. s.rexbal[owner].vote_stake \in Int
          <6>1. s.rexbal \in [Names -> BalanceRows]
            BY <1>1, Fields
          <6> QED
            BY <6>1 DEF BalanceRows
        <5>2. t.rexbal[owner].vote_stake = s.rexbal[owner].vote_stake + change
          BY <2>1, <2>7 DEF Sold, change
        <5>3. t.orders[owner].stake_change - t.rexbal[owner].vote_stake =
                s.orders[owner].stake_change - s.rexbal[owner].vote_stake
          BY <1>4, <2>1, <2>4, <2>5, <2>7, <5>1, <5>2
        <5>4. t.rexbal[owner].row = s.rexbal[owner].row
          BY <2>1, <2>7 DEF Sold
        <5> QED
          BY <2>4, <2>5, <2>7, <4>2, <5>3, <5>4
      <4> QED
        BY <4>1, <4>2
    <3>2. t.pool.total_rex <= s.pool.total_rex
      BY <1>2, <1>4, <2>1, <2>7 DEF Sold, PoolRows
    <3> QED
      BY <2>1, <2>7, <3>1, <3>2 DEF OrderStep, Sold
  <2> QED
    BY <2>5, <2>7, <2>10, <2>11 DEF t
<1> QED
  BY <1>6, <1>7

-----------------------------------------------------------------------------
(* The runs over expired loans and over open orders.                       *)

\* The recursion over the expired loans is defined.
LEMMA LoanRunExists ==
  ASSUME NEW s, NEW kind, NEW n \in Nat
  PROVE  \E r : IsLoanRun(r, s, kind, n)
<1> DEFINE S == {m \in Nat : \E r : IsLoanRun(r, s, kind, m)}
<1>1. 0 \in S
  <2> DEFINE q == [i \in 0 .. 0 |-> s]
  <2>1. q = [i \in 0 .. 0 |-> IF i = 0 THEN s ELSE LoanTurn(q[i - 1], kind)]
    OBVIOUS
  <2> QED
    BY <2>1 DEF IsLoanRun
<1>2. ASSUME NEW m \in Nat, m \in S PROVE m + 1 \in S
  <2>1. PICK r : IsLoanRun(r, s, kind, m)
    BY <1>2
  <2> DEFINE q == [i \in 0 .. m + 1 |-> IF i = m + 1 THEN LoanTurn(r[m], kind) ELSE r[i]]
  <2>2. ASSUME NEW i \in 0 .. m + 1
        PROVE  q[i] = IF i = 0 THEN s ELSE LoanTurn(q[i - 1], kind)
    <3>1. CASE i = m + 1
      BY <3>1
    <3>2. CASE i # m + 1
      <4>1. i \in 0 .. m
        BY <3>2
      <4>2. r[i] = IF i = 0 THEN s ELSE LoanTurn(r[i - 1], kind)
        BY <2>1, <4>1 DEF IsLoanRun
      <4> QED
        BY <4>1, <4>2
    <3> QED
      BY <3>1, <3>2
  <2>3. IsLoanRun(q, s, kind, m + 1)
    <3> HIDE DEF q
    <3>1. q = [i \in 0 .. m + 1 |-> q[i]]
      BY DEF q
    <3> QED
      BY <3>1, <2>2 DEF IsLoanRun
  <2> QED
    BY <2>3
<1>3. Nat \subseteq S
  BY <1>1, <1>2, NatSetInduction
<1> QED
  BY <1>3

\* RunLoans is its value.
LEMMA LoanRunDef ==
  ASSUME NEW s, NEW kind, NEW max \in Nat
  PROVE  \E r : IsLoanRun(r, s, kind, max) /\ RunLoans(s, kind, max) = r[max]
<1> DEFINE r == CHOOSE r : r = [i \in 0 .. max |->
                   IF i = 0 THEN s
                   ELSE IF SomeExpired(r[i - 1], kind)
                        THEN process_expired_loan(r[i - 1], FirstLoan(r[i - 1], kind))
                        ELSE r[i - 1]]
<1>1. RunLoans(s, kind, max) = r[max]
  BY DEF RunLoans
<1>2. IsLoanRun(r, s, kind, max)
  <2>1. PICK q : IsLoanRun(q, s, kind, max)
    BY LoanRunExists
  <2> QED
    BY <2>1 DEF IsLoanRun, LoanTurn
<1> QED
  BY <1>1, <1>2

\* The loan that is tried is an expired loan of its kind.
LEMMA FirstLoanExists ==
  ASSUME NEW s \in TableSet, NEW kind \in Kinds, SomeExpired(s, kind)
  PROVE  FirstLoan(s, kind) \in LoanIds /\ s.loans[FirstLoan(s, kind)].kind = kind
<1> DEFINE of_kind == {k \in LoanIds : s.loans[k].kind = kind}
           dates == {s.loans[k].expiration : k \in of_kind}
<1>1. s.loans \in [LoanIds -> LoanRows]
  BY Fields
<1>2. \A k \in LoanIds : s.loans[k].expiration \in Nat
  BY <1>1 DEF LoanRows
<1>3. of_kind # {}
  BY DEF SomeExpired
<1>4. PICK date \in dates : \A other \in dates : date <= other
  <2>1. dates \subseteq Nat /\ dates # {}
    BY <1>2, <1>3
  <2> HIDE DEF dates
  <2> QED
    BY <2>1, LeastExists
<1> DEFINE early == {k \in of_kind : s.loans[k].expiration = date}
<1>5. PICK k \in early : \A j \in early : k <= j
  <2>1. early \subseteq Nat /\ early # {}
    BY <1>4 DEF LoanIds
  <2> HIDE DEF early
  <2> QED
    BY <2>1, LeastExists
<1>6. ASSUME NEW j \in of_kind
      PROVE  \/ s.loans[k].expiration < s.loans[j].expiration
             \/ s.loans[k].expiration = s.loans[j].expiration /\ k <= j
  <2>1. s.loans[k].expiration = date /\ date <= s.loans[j].expiration
    BY <1>4, <1>5
  <2>2. s.loans[j].expiration \in Nat /\ date \in Nat
    BY <1>2, <2>1, <1>5
  <2>3. CASE s.loans[j].expiration = date
    BY <1>5, <2>1, <2>3
  <2>4. CASE s.loans[j].expiration # date
    BY <2>1, <2>2, <2>4
  <2> QED
    BY <2>3, <2>4
<1>7. k \in of_kind
  BY <1>5
<1>8. FirstLoan(s, kind) \in of_kind
  <2>1. \E c \in of_kind : \A j \in of_kind :
            \/ s.loans[c].expiration < s.loans[j].expiration
            \/ s.loans[c].expiration = s.loans[j].expiration /\ c <= j
    BY <1>6, <1>7
  <2> QED
    BY <2>1 DEF FirstLoan
<1> QED
  BY <1>8

\* However many expired loans are processed, the tables stay good.
LEMMA LoansRun ==
  ASSUME NEW tm, NEW x \in Int, NEW free, NEW s, Good(s, tm, x, free), NEW kind \in Kinds, NEW max \in Nat
  PROVE  Good(RunLoans(s, kind, max), tm, x, free) /\ LoanStep(s, RunLoans(s, kind, max))
<1>1. PICK r : IsLoanRun(r, s, kind, max) /\ RunLoans(s, kind, max) = r[max]
  BY LoanRunDef
<1> DEFINE S == {i \in 0 .. max : Good(r[i], tm, x, free) /\ LoanStep(s, r[i])}
<1>2. \A i \in 0 .. max : r[i] = IF i = 0 THEN s ELSE LoanTurn(r[i - 1], kind)
  BY <1>1 DEF IsLoanRun
<1>3. s \in TableSet
  BY DEF Good
<1>4. 0 \in S
  <2>1. r[0] = s
    BY <1>2
  <2> QED
    BY <1>3, <2>1, LoanStepReflexive
<1>5. ASSUME NEW i \in 0 .. max - 1, i \in S PROVE i + 1 \in S
  <2> DEFINE t == r[i]
             u == r[i + 1]
  <2>1. Good(t, tm, x, free) /\ LoanStep(s, t)
    BY <1>5
  <2>2. t \in TableSet
    BY <2>1 DEF Good
  <2>3. u = LoanTurn(t, kind)
    <3>1. i + 1 \in 0 .. max /\ i + 1 # 0 /\ (i + 1) - 1 = i
      OBVIOUS
    <3> QED
      BY <1>2, <3>1
  <2> HIDE DEF t, u
  <2>4. Good(u, tm, x, free) /\ LoanStep(t, u)
    <3>1. CASE SomeExpired(t, kind)
      <4> DEFINE k == FirstLoan(t, kind)
      <4>1. k \in LoanIds /\ t.loans[k].kind \in Kinds
        BY <2>2, <3>1, FirstLoanExists
      <4>2. u = process_expired_loan(t, k)
        BY <2>3, <3>1 DEF LoanTurn
      <4> HIDE DEF k
      <4> QED
        BY <2>1, <4>1, <4>2, LoanExpires
    <3>2. CASE ~ SomeExpired(t, kind)
      <4>1. u = t
        BY <2>3, <3>2 DEF LoanTurn
      <4> QED
        BY <2>1, <2>2, <4>1, LoanStepReflexive
    <3> QED
      BY <3>1, <3>2
  <2>5. u \in TableSet
    BY <2>4 DEF Good
  <2>6. LoanStep(s, u)
    BY <1>3, <2>1, <2>2, <2>4, <2>5, LoanStepTransitive
  <2>7. i + 1 \in 0 .. max
    OBVIOUS
  <2> QED
    BY <2>4, <2>6, <2>7 DEF u
<1> HIDE DEF S
<1>6. max \in S
  BY <1>4, <1>5, UpToInduction
<1> QED
  BY <1>1, <1>6 DEF S

\* The recursion over the open orders is defined.
LEMMA OrderRunExists ==
  ASSUME NEW s, NEW n \in Nat
  PROVE  \E r : IsOrderRun(r, s, n)
<1> DEFINE S == {m \in Nat : \E r : IsOrderRun(r, s, m)}
<1>1. 0 \in S
  <2> DEFINE q == [i \in 0 .. 0 |-> OrdersAtStart(s)]
  <2>1. q = [i \in 0 .. 0 |-> IF i = 0 THEN OrdersAtStart(s) ELSE OrderTurn(s, q[i - 1])]
    OBVIOUS
  <2> QED
    BY <2>1 DEF IsOrderRun
<1>2. ASSUME NEW m \in Nat, m \in S PROVE m + 1 \in S
  <2>1. PICK r : IsOrderRun(r, s, m)
    BY <1>2
  <2> DEFINE q == [i \in 0 .. m + 1 |-> IF i = m + 1 THEN OrderTurn(s, r[m]) ELSE r[i]]
  <2>2. ASSUME NEW i \in 0 .. m + 1
        PROVE  q[i] = IF i = 0 THEN OrdersAtStart(s) ELSE OrderTurn(s, q[i - 1])
    <3>1. CASE i = m + 1
      BY <3>1
    <3>2. CASE i # m + 1
      <4>1. i \in 0 .. m
        BY <3>2
      <4>2. r[i] = IF i = 0 THEN OrdersAtStart(s) ELSE OrderTurn(s, r[i - 1])
        BY <2>1, <4>1 DEF IsOrderRun
      <4> QED
        BY <4>1, <4>2
    <3> QED
      BY <3>1, <3>2
  <2>3. IsOrderRun(q, s, m + 1)
    <3> HIDE DEF q
    <3>1. q = [i \in 0 .. m + 1 |-> q[i]]
      BY DEF q
    <3> QED
      BY <3>1, <2>2 DEF IsOrderRun
  <2> QED
    BY <2>3
<1>3. Nat \subseteq S
  BY <1>1, <1>2, NatSetInduction
<1> QED
  BY <1>3

\* RunOrders is its value.
LEMMA OrderRunDef ==
  ASSUME NEW s, NEW max \in Nat
  PROVE  \E r : IsOrderRun(r, s, max) /\ RunOrders(s, max) = r[max].tables
<1> DEFINE r == CHOOSE r : r = [i \in 0 .. max |->
                   IF i = 0 THEN [tables |-> s, left |-> OpenOrders(s)]
                   ELSE IF r[i - 1].left = {} THEN r[i - 1]
                   ELSE [tables |-> close_order(r[i - 1].tables, FirstOrder(s, r[i - 1].left)),
                         left   |-> r[i - 1].left \ {FirstOrder(s, r[i - 1].left)}]]
<1>1. RunOrders(s, max) = r[max].tables
  BY DEF RunOrders
<1>2. IsOrderRun(r, s, max)
  <2>1. PICK q : IsOrderRun(q, s, max)
    BY OrderRunExists
  <2> QED
    BY <2>1 DEF IsOrderRun, OrderTurn, OrdersAtStart
<1> QED
  BY <1>1, <1>2

\* The order that is tried is one of those that are left.
LEMMA FirstOrderExists ==
  ASSUME NEW s \in TableSet, NEW owners, owners \subseteq Names, owners # {}
  PROVE  FirstOrder(s, owners) \in owners
<1> DEFINE times == {s.orders[a].order_time : a \in owners}
<1>1. s.orders \in [Names -> OrderRows]
  BY Fields
<1>2. \A a \in owners : s.orders[a].order_time \in Nat
  BY <1>1 DEF OrderRows
<1>3. PICK time \in times : \A other \in times : time <= other
  <2>1. times \subseteq Nat /\ times # {}
    BY <1>2
  <2> HIDE DEF times
  <2> QED
    BY <2>1, LeastExists
<1> DEFINE early == {a \in owners : s.orders[a].order_time = time}
<1>4. PICK a \in early : \A b \in early : a <= b
  <2>1. early # {}
    BY <1>3
  <2>2. early \subseteq Nat
    <3>1. owners \subseteq Nat
      BY NAssumption DEF Names
    <3> QED
      BY <3>1
  <2> HIDE DEF early
  <2> QED
    BY <2>1, <2>2, LeastExists
<1>5. ASSUME NEW b \in owners PROVE a = b \/ Before(s, a, b)
  <2>1. s.orders[a].order_time = time /\ time <= s.orders[b].order_time
    BY <1>3, <1>4
  <2>2. s.orders[b].order_time \in Nat /\ time \in Nat
    BY <1>2, <2>1, <1>4
  <2>3. CASE s.orders[b].order_time = time
    <3>1. a <= b /\ a \in Int /\ b \in Int
      BY <1>4, <2>3 DEF Names
    <3> QED
      BY <2>1, <2>3, <3>1 DEF Before
  <2>4. CASE s.orders[b].order_time # time
    BY <2>1, <2>2, <2>4 DEF Before
  <2> QED
    BY <2>3, <2>4
<1>6. \E c \in owners : \A b \in owners : c = b \/ Before(s, c, b)
  BY <1>4, <1>5
<1> QED
  BY <1>6 DEF FirstOrder

\* However many open orders are tried, the tables stay good.
LEMMA OrdersRun ==
  ASSUME NEW tm, NEW x \in Int, NEW s, Good(s, tm, x, {}), s.pool.namebid_proceeds = 0, NEW max \in Nat
  PROVE  Good(RunOrders(s, max), tm, x, {}) /\ OrderStep(s, RunOrders(s, max))
<1>1. PICK r : IsOrderRun(r, s, max) /\ RunOrders(s, max) = r[max].tables
  BY OrderRunDef
<1> DEFINE S == {i \in 0 .. max :
                   /\ Good(r[i].tables, tm, x, {}) /\ OrderStep(s, r[i].tables)
                   /\ r[i].left \subseteq Names
                   /\ \A a \in r[i].left : r[i].tables.orders[a].state = "open"}
<1>2. \A i \in 0 .. max : r[i] = IF i = 0 THEN OrdersAtStart(s) ELSE OrderTurn(s, r[i - 1])
  BY <1>1 DEF IsOrderRun
<1>3. s \in TableSet
  BY DEF Good
<1>4. 0 \in S
  <2>1. r[0] = OrdersAtStart(s)
    BY <1>2
  <2>2. r[0].tables = s /\ r[0].left = OpenOrders(s)
    BY <2>1 DEF OrdersAtStart
  <2> QED
    BY <1>3, <2>2, OrderStepReflexive DEF OpenOrders
<1>5. ASSUME NEW i \in 0 .. max - 1, i \in S PROVE i + 1 \in S
  <2> DEFINE t == r[i].tables
             left == r[i].left
             u == r[i + 1].tables
             first == FirstOrder(s, left)
  <2>1. /\ Good(t, tm, x, {}) /\ OrderStep(s, t) /\ left \subseteq Names
        /\ \A a \in left : t.orders[a].state = "open"
    BY <1>5
  <2>2. t \in TableSet /\ t.pool.namebid_proceeds = 0
    BY <2>1 DEF Good, OrderStep
  <2>3. r[i + 1] = OrderTurn(s, r[i]) /\ i + 1 \in 0 .. max
    <3>1. i + 1 \in 0 .. max /\ i + 1 # 0 /\ (i + 1) - 1 = i
      OBVIOUS
    <3> QED
      BY <1>2, <3>1
  <2>4. CASE left = {}
    <3>1. r[i + 1] = r[i]
      BY <2>3, <2>4 DEF OrderTurn
    <3> QED
      BY <2>1, <2>3, <3>1
  <2>5. CASE left # {}
    <3>1. first \in left
      BY <1>3, <2>1, <2>5, FirstOrderExists
    <3>2. u = close_order(t, first) /\ r[i + 1].left = left \ {first}
      BY <2>3, <2>5 DEF OrderTurn
    <3> HIDE DEF first, t, u, left
    <3>3. first \in Names /\ t.orders[first].state = "open"
      BY <2>1, <3>1
    <3>4. /\ Good(u, tm, x, {}) /\ OrderStep(t, u)
          /\ \A b \in Names : b # first => u.orders[b] = t.orders[b]
      BY <2>1, <2>2, <3>2, <3>3, OrderTried
    <3>5. OrderStep(s, u)
      <4>1. u \in TableSet
        BY <3>4 DEF Good
      <4> QED
        BY <1>3, <2>1, <2>2, <3>4, <4>1, OrderStepTransitive
    <3>6. \A a \in left \ {first} : u.orders[a].state = "open"
      BY <2>1, <3>4
    <3> QED
      BY <2>1, <2>3, <3>2, <3>4, <3>5, <3>6 DEF u
  <2> QED
    BY <2>4, <2>5
<1> HIDE DEF S
<1>6. max \in S
  BY <1>4, <1>5, UpToInduction
<1> QED
  BY <1>1, <1>6 DEF S

-----------------------------------------------------------------------------
(* runrex.                                                                 *)

\* The maintenance keeps the invariant and never fails once the pool exists.
LEMMA Maintained ==
  ASSUME NEW tm, NEW x \in Int, NEW s, Good(s, tm, x, {}), s.pool.initialized, NEW max \in Nat
  PROVE  Good(runrex(s, max), tm, x, {}) /\ RunStep(s, runrex(s, max))
<1> DEFINE bids == s.pool.namebid_proceeds
           s1 == IF bids > 0
                 THEN [channel_to_rex(s, "names", bids) EXCEPT !.pool.namebid_proceeds = 0]
                 ELSE s
           s2 == RunLoans(s1, "cpu", max)
           s3 == RunLoans(s2, "net", max)
           s4 == RunOrders(s3, max)
           t  == runrex(s, max)
<1>1. t = s4
  BY DEF runrex
<1>2. s \in TableSet /\ PoolOK(s.pool)
  BY DEF Good
<1>3. s.pool \in PoolRows /\ bids \in Nat
  <2>1. s.pool \in PoolRows
    BY <1>2, Fields
  <2> QED
    BY <2>1 DEF PoolRows
<1>4. Good(s1, tm, x, {}) /\ LoanStep(s, s1) /\ s1.pool.namebid_proceeds = 0
  <2>1. CASE bids > 0
    <3>1. rex_available(s)
      BY <1>2, <2>1 DEF PoolOK, rex_available
    <3>2. bids <= s.acct.names
      BY DEF Good, NamebidsOK
    <3>3. s.acct.names \in Int
      <4>1. s.acct \in Accounts
        BY <1>2, Fields
      <4> QED
        BY <4>1 DEF Accounts
    <3>4. s1 = Channeled(s, "names", bids, 0)
      BY <2>1 DEF Channeled
    <3>5. /\ 0 \in Nat /\ 0 <= s.pool.namebid_proceeds /\ 0 <= s.acct.names - bids
          /\ "names" \in {"names", "ramfee"} /\ bids \in Nat
      BY <1>3, <3>2, <3>3
    <3> HIDE DEF bids, s1
    <3> DEFINE v == Channeled(s, "names", bids, 0)
    <3>6. Good(v, tm, x, {})
      BY <3>1, <3>5, FeesChanneled
    <3>7. LoanStep(s, v)
      BY <3>1, <3>5, FeesChanneled
    <3>8. v.pool.namebid_proceeds = 0
      BY <1>2, <3>5, NothingLeft
    <3> QED
      BY <3>4, <3>6, <3>7, <3>8
  <2>2. CASE ~ (bids > 0)
    <3>1. s1 = s /\ bids = 0
      BY <1>3, <2>2
    <3> QED
      BY <1>2, <3>1, LoanStepReflexive
  <2> QED
    BY <2>1, <2>2
<1>5. "cpu" \in Kinds /\ "net" \in Kinds
  BY DEF Kinds
<1> HIDE DEF s1, s2, s3, s4, t
<1>6. Good(s2, tm, x, {}) /\ LoanStep(s1, s2)
  BY <1>4, <1>5, LoansRun DEF s2
<1>7. Good(s3, tm, x, {}) /\ LoanStep(s2, s3)
  BY <1>5, <1>6, LoansRun DEF s3
<1>8. s1 \in TableSet /\ s2 \in TableSet /\ s3 \in TableSet
  BY <1>4, <1>6, <1>7 DEF Good
<1>9. LoanStep(s, s3) /\ LoanStep(s1, s3)
  BY <1>2, <1>4, <1>6, <1>7, <1>8, LoanStepTransitive
<1>10. s3.pool.namebid_proceeds = 0
  BY <1>4, <1>9 DEF LoanStep
<1>11. Good(s4, tm, x, {}) /\ OrderStep(s3, s4)
  BY <1>7, <1>10, OrdersRun DEF s4
<1>12. s4 \in TableSet
  BY <1>11 DEF Good
<1>13. s3.pool \in PoolRows /\ s4.pool \in PoolRows
  BY <1>8, <1>12, Fields
<1>14. ASSUME s4.pool.total_rex > 0 PROVE NotCheaper(s.pool, s4.pool)
  <2>1. NotCheaper(s3.pool, s4.pool) /\ s4.pool.total_rex <= s3.pool.total_rex
    BY <1>11, <1>14 DEF OrderStep
  <2>2. s3.pool.total_rex > 0
    BY <1>13, <1>14, <2>1 DEF PoolRows
  <2>3. NotCheaper(s.pool, s3.pool)
    BY <1>3, <1>9, <1>13, NotCheaperSame DEF LoanStep
  <2> QED
    BY <1>3, <1>13, <2>1, <2>2, <2>3, NotCheaperTransitive
<1>15. RunStep(s, s4)
  <2>1. \A a \in Names :
          /\ s4.rexbal[a].row = s.rexbal[a].row
          /\ s4.orders[a].stake_change - s4.rexbal[a].vote_stake =
                s.orders[a].stake_change - s.rexbal[a].vote_stake
          /\ s4.orders[a].state = "open" => s.orders[a].state = "open"
          /\ s.orders[a].state # "open" => s4.rexbal[a] = s.rexbal[a] /\ s4.orders[a] = s.orders[a]
    BY <1>9, <1>11 DEF LoanStep, OrderStep
  <2>2. (\E a \in Names : s.orders[a].state = "open") =>
          \A k \in LoanIds : s4.loans[k] \in {s.loans[k], NoLoan}
    BY <1>9, <1>11 DEF LoanStep, OrderStep
  <2> QED
    BY <1>9, <1>10, <1>11, <1>14, <2>1, <2>2 DEF RunStep, LoanStep, OrderStep
<1> QED
  BY <1>1, <1>11, <1>15 DEF t

-----------------------------------------------------------------------------
(* Collecting a filled order, and other changes of one account.            *)

\* The fields of the order that is not there.
LEMMA NoOrderFacts ==
  /\ NoOrder \in OrderRows /\ NoOrder.state = "none" /\ NoOrder.rex_requested = 0
  /\ NoOrder.proceeds = 0 /\ NoOrder.stake_change = 0
BY DEF NoOrder, OrderRows

\* An order and the fund of its owner change.
LEMMA OrderChanged ==
  ASSUME NEW tm, NEW x \in Int, NEW y \in Int, NEW free, NEW s, Good(s, tm, x, free),
         NEW a \in Names, NEW o \in OrderRows, NEW f \in [Names -> Nat], NEW st \in [Names -> Int],
         OrderOK(o), o.state = "open" => o.rex_requested <= s.rexbal[a].matured_rex,
         Sum(f) + o.proceeds + y = Sum(s.fund) + s.orders[a].proceeds + x
  PROVE  Good([s EXCEPT !.fund = f, !.orders = [s.orders EXCEPT ![a] = o], !.staked = st], tm, y, free)
<1> DEFINE ords == [s.orders EXCEPT ![a] = o]
           t == [s EXCEPT !.fund = f, !.orders = ords, !.staked = st]
<1>1. s \in TableSet /\ OrdersOK(s.orders, s.rexbal, free)
  BY DEF Good
<1>2. /\ s.pool \in PoolRows /\ s.fund \in [Names -> Nat] /\ s.loans \in [LoanIds -> LoanRows]
      /\ s.orders \in [Names -> OrderRows]
  BY <1>1, Fields
<1>3. s.orders[a] \in OrderRows
  BY <1>2
<1>4. /\ ords \in [Names -> OrderRows] /\ ords[a] = o
      /\ \A b \in Names : b # a => ords[b] = s.orders[b]
      /\ Sum(ProceedsIn(ords)) = Sum(ProceedsIn(s.orders)) + (o.proceeds - s.orders[a].proceeds)
  BY <1>2, OrderReplaced
<1> HIDE DEF ords
<1>5. /\ t \in TableSet /\ t.orders = ords /\ t.fund = f /\ t.staked = st
      /\ t.pool = s.pool /\ t.loans = s.loans /\ t.weight = s.weight /\ t.rexbal = s.rexbal
      /\ t.voting = s.voting /\ t.dbw = s.dbw /\ t.acct = s.acct
  BY <1>1, <1>4 DEF TableSet
<1> HIDE DEF t
<1>6. BackedOK(s.acct, s.pool, f, s.loans, ords, y)
  <2> DEFINE sf == Sum(s.fund)
             nf == Sum(f)
             lb == LoanSum(BalanceIn(s.loans))
             sp == Sum(ProceedsIn(s.orders))
             np == Sum(ProceedsIn(ords))
             l == s.pool.total_lendable
             op == o.proceeds
             pp == s.orders[a].proceeds
  <2>1. s.acct.rex = l + sf + lb + sp + x
    BY DEF Good, BackedOK
  <2>2. sf \in Nat /\ nf \in Nat /\ lb \in Nat /\ sp \in Nat
    BY <1>2, SumToNat, NAssumption, LoanSums, ProceedsSums DEF Sum, Names
  <2>3. l \in Nat /\ op \in Nat /\ pp \in Nat
    BY <1>2, <1>3 DEF PoolRows, OrderRows
  <2>4. nf + op + y = sf + pp + x /\ np = sp + (op - pp)
    BY <1>4
  <2> HIDE DEF sf, nf, lb, sp, np, l, op, pp
  <2>5. s.acct.rex = l + nf + lb + np + y
    BY <2>1, <2>2, <2>3, <2>4
  <2> QED
    BY <2>5 DEF BackedOK, nf, lb, np, l
<1>7. OrdersOK(ords, s.rexbal, free)
  <2> SUFFICES ASSUME NEW b \in Names
               PROVE  /\ OrderOK(ords[b])
                      /\ ords[b].state = "open" /\ b \notin free =>
                            ords[b].rex_requested <= s.rexbal[b].matured_rex
    BY DEF OrdersOK
  <2>1. CASE b = a
    BY <1>4, <2>1
  <2>2. CASE b # a
    BY <1>1, <1>4, <2>2 DEF OrdersOK
  <2> QED
    BY <2>1, <2>2
<1>8. Good(t, tm, y, free)
  BY <1>5, <1>6, <1>7 DEF Good
<1> QED
  BY <1>8 DEF t, ords

\* update_rex_account books the proceeds and keeps the tables good.
LEMMA AccountUpdated ==
  ASSUME NEW tm, NEW proceeds \in Nat, NEW free, NEW s, Good(s, tm, proceeds, free),
         NEW owner \in Names, s.orders[owner].state = "open" => s.orders[owner].rex_requested <= s.rexbal[owner].matured_rex,
         NEW delta \in Int, NEW force \in BOOLEAN,
         update_rex_account(s, owner, proceeds, delta, force).ok
  PROVE  LET t == update_rex_account(s, owner, proceeds, delta, force) IN
         Good(t, tm, 0, free) /\ AccountStep(s, t, owner, delta)
<1> DEFINE order    == s.orders[owner]
           closed   == order.state = "closed"
           to_fund  == proceeds + (IF closed THEN order.proceeds ELSE 0)
           to_stake == delta + (IF closed THEN order.stake_change ELSE 0)
           o        == IF closed THEN NoOrder ELSE order
           ords     == [s.orders EXCEPT ![owner] = o]
           s1       == IF closed THEN [s EXCEPT !.orders[owner] = NoOrder] ELSE s
           s2       == IF to_fund > 0 THEN transfer_to_fund(s1, owner, to_fund) ELSE s1
           t        == update_rex_account(s, owner, proceeds, delta, force)
           f        == s2.fund
           st       == t.staked
<1>1. s \in TableSet /\ OrdersOK(s.orders, s.rexbal, free)
  BY DEF Good
<1>2. /\ s.fund \in [Names -> Nat] /\ s.orders \in [Names -> OrderRows] /\ s.staked \in [Names -> Int]
  BY <1>1, Fields
<1>3. order \in OrderRows /\ OrderOK(order) /\ Sum(s.fund) \in Nat
  BY <1>1, <1>2, SumToNat, NAssumption DEF OrdersOK, Sum, Names
<1>4. order.proceeds \in Nat /\ order.stake_change \in Int
  BY <1>3 DEF OrderRows
<1>5. closed \/ (order.proceeds = 0 /\ order.stake_change = 0)
  BY <1>3 DEF OrderOK
<1>6. to_fund \in Nat /\ to_stake \in Int
      /\ to_fund = proceeds + order.proceeds /\ to_stake = delta + order.stake_change
  BY <1>4, <1>5
<1>7. t = IF force \/ to_stake # 0 THEN update_voting_power(s2, owner, to_stake) ELSE s2
  BY DEF update_rex_account
<1>8. o \in OrderRows /\ o.proceeds = 0 /\ o.stake_change = 0 /\ OrderOK(o)
      /\ (o.state = "open" => o.rex_requested <= s.rexbal[owner].matured_rex)
  BY <1>3, <1>5, NoOrderFacts DEF OrderOK
<1>9. ords \in [Names -> OrderRows] /\ ords[owner] = o /\ \A b \in Names : b # owner => ords[b] = s.orders[b]
  BY <1>2, <1>8
<1>10. s1 = [s EXCEPT !.orders = ords]
  <2>1. CASE closed
    BY <2>1
  <2>2. CASE ~ closed
    <3>1. ords = s.orders
      BY <1>2, <2>2
    <3> HIDE DEF ords
    <3> QED
      BY <1>1, <2>2, <3>1 DEF TableSet
  <2> QED
    BY <2>1, <2>2
<1> HIDE DEF ords, s1, o, to_fund, to_stake, t
<1>11. s1 \in TableSet /\ s1.fund = s.fund /\ s1.staked = s.staked
  BY <1>1, <1>9, <1>10 DEF TableSet
<1>12. s2 = [s1 EXCEPT !.fund = f] /\ s2 \in TableSet /\ Sum(f) = Sum(s.fund) + to_fund /\ f \in [Names -> Nat]
  <2>1. CASE to_fund > 0
    <3> DEFINE f2 == [s1.fund EXCEPT ![owner] = s1.fund[owner] + to_fund]
    <3>1. s2 = transfer_to_fund(s1, owner, to_fund)
      BY <2>1
    <3> HIDE DEF s2
    <3>2. s2 = [s1 EXCEPT !.fund = f2] /\ s2 \in TableSet /\ Sum(f2) = Sum(s1.fund) + to_fund
      BY <1>6, <1>11, <2>1, <3>1, PaysFund
    <3> HIDE DEF f2
    <3>3. s2.fund = f2
      BY <1>11, <3>2 DEF TableSet
    <3>4. s2.fund \in [Names -> Nat]
      BY <3>2, Fields
    <3> QED
      BY <1>11, <3>2, <3>3, <3>4
  <2>2. CASE ~ (to_fund > 0)
    <3>1. s2 = s1 /\ to_fund = 0
      BY <1>6, <2>2
    <3> HIDE DEF s2
    <3>2. s1 = [s1 EXCEPT !.fund = s1.fund]
      BY <1>11 DEF TableSet
    <3> QED
      BY <1>2, <1>3, <1>11, <3>1, <3>2
  <2> QED
    BY <2>1, <2>2
<1> HIDE DEF s2
<1>13. s2.staked = s.staked
  BY <1>11, <1>12 DEF TableSet
<1>14. /\ t = [s2 EXCEPT !.staked = st] /\ t \in TableSet /\ st \in [Names -> Int]
       /\ st[owner] = s.staked[owner] + to_stake
       /\ \A b \in Names : b # owner => st[b] = s.staked[b]
  <2>1. CASE force \/ to_stake # 0
    <3> DEFINE st2 == [s2.staked EXCEPT ![owner] = s2.staked[owner] + to_stake]
    <3>1. t = update_voting_power(s2, owner, to_stake)
      BY <1>7, <2>1
    <3>2. t.ok
      BY DEF t
    <3>3. t = [s2 EXCEPT !.staked = st2] /\ t \in TableSet
      BY <1>6, <1>12, <3>1, <3>2, MovesVotes
    <3>4. /\ st2[owner] = s.staked[owner] + to_stake
          /\ \A b \in Names : b # owner => st2[b] = s.staked[b]
      BY <1>2, <1>13
    <3> HIDE DEF st2
    <3>5. t.staked = st2
      BY <1>12, <3>3 DEF TableSet
    <3>6. t.staked \in [Names -> Int]
      BY <3>3, Fields
    <3> QED
      BY <3>3, <3>4, <3>5, <3>6
  <2>2. CASE ~ (force \/ to_stake # 0)
    <3>1. t = s2 /\ to_stake = 0
      BY <1>7, <2>2
    <3>2. s2 = [s2 EXCEPT !.staked = s2.staked]
      BY <1>12 DEF TableSet
    <3>3. s.staked[owner] = s.staked[owner] + to_stake
      BY <1>2, <3>1
    <3> QED
      BY <1>2, <1>12, <1>13, <3>1, <3>2, <3>3
  <2> QED
    BY <2>1, <2>2
<1> HIDE DEF f, st
<1>15. t = [s EXCEPT !.fund = f, !.orders = ords, !.staked = st]
  <2>1. s2 = [s EXCEPT !.fund = f, !.orders = ords]
    BY <1>1, <1>10, <1>12 DEF TableSet
  <2> QED
    BY <1>1, <1>14, <2>1 DEF TableSet
<1>16. Sum(f) + o.proceeds + 0 = Sum(s.fund) + s.orders[owner].proceeds + proceeds
  BY <1>3, <1>4, <1>6, <1>8, <1>12
<1>17. Good([s EXCEPT !.fund = f, !.orders = [s.orders EXCEPT ![owner] = o], !.staked = st], tm, 0, free)
  <2> DEFINE zero == 0
  <2>1. zero \in Int /\ proceeds \in Int /\ zero = 0
    OBVIOUS
  <2>2. Sum(f) + o.proceeds + zero = Sum(s.fund) + s.orders[owner].proceeds + proceeds
    BY <1>16
  <2> HIDE DEF zero
  <2>3. Good([s EXCEPT !.fund = f, !.orders = [s.orders EXCEPT ![owner] = o], !.staked = st], tm, zero, free)
    BY <1>8, <1>12, <1>14, <2>1, <2>2, OrderChanged
  <2> QED
    BY <2>1, <2>3
<1>18. Good(t, tm, 0, free)
  BY <1>15, <1>17 DEF ords
<1>19. /\ t.pool = s.pool /\ t.loans = s.loans /\ t.rexbal = s.rexbal /\ t.voting = s.voting
       /\ t.dbw = s.dbw /\ t.own = s.own /\ t.weight = s.weight /\ t.acct = s.acct
       /\ t.orders = ords /\ t.staked = st
  BY <1>1, <1>15 DEF TableSet
<1>20. st[owner] + o.stake_change = s.staked[owner] + order.stake_change + delta
  <2>1. s.staked[owner] \in Int
    BY <1>2
  <2> QED
    BY <1>4, <1>6, <1>8, <1>14, <2>1
<1>21. AccountStep(s, t, owner, delta)
  BY <1>9, <1>14, <1>19, <1>20 DEF AccountStep, o
<1> QED
  BY <1>18, <1>21 DEF t

-----------------------------------------------------------------------------
(* What a whole action may do, for the action properties.                  *)

\* Doing nothing is quiet.
LEMMA QuietReflexive ==
  ASSUME NEW s \in TableSet
  PROVE  Quiet(s, s)
<1>1. s.pool \in PoolRows
  BY Fields
<1>2. s.pool.total_rex \in Nat /\ s.pool.total_lendable \in Nat
  BY <1>1 DEF PoolRows
<1> QED
  BY <1>2 DEF Quiet, NotCheaper

\* Two quiet steps in a row are one.
LEMMA QuietTransitive ==
  ASSUME NEW s \in TableSet, NEW t \in TableSet, NEW u \in TableSet, Quiet(s, t), Quiet(t, u)
  PROVE  Quiet(s, u)
<1>1. s.pool \in PoolRows /\ t.pool \in PoolRows /\ u.pool \in PoolRows
  BY Fields
<1>2. /\ s.pool.total_rex \in Nat /\ t.pool.total_rex \in Nat /\ u.pool.total_rex \in Nat
      /\ t.pool.total_rex <= s.pool.total_rex /\ u.pool.total_rex <= t.pool.total_rex
  BY <1>1 DEF PoolRows, Quiet
<1>3. u.pool.total_rex <= s.pool.total_rex
  BY <1>2
<1>4. ASSUME u.pool.total_rex > 0 PROVE NotCheaper(s.pool, u.pool)
  <2>1. t.pool.total_rex > 0
    BY <1>2, <1>4
  <2>2. NotCheaper(s.pool, t.pool) /\ NotCheaper(t.pool, u.pool)
    BY <1>4, <2>1 DEF Quiet
  <2> QED
    BY <1>1, <2>1, <2>2, NotCheaperTransitive
<1> QED
  BY <1>3, <1>4 DEF Quiet

\* Collecting a filled order is quiet.
LEMMA AccountQuiet ==
  ASSUME NEW s \in TableSet, NEW t \in TableSet, NEW owner \in Names, AccountStep(s, t, owner, 0)
  PROVE  Quiet(s, t)
<1>1. Quiet(s, s)
  BY QuietReflexive
<1>2. /\ s.staked \in [Names -> Int] /\ t.staked \in [Names -> Int]
      /\ s.orders \in [Names -> OrderRows] /\ t.orders \in [Names -> OrderRows]
      /\ s.rexbal \in [Names -> BalanceRows]
  BY Fields
<1>3. \A a \in Names : Claim(t, a) = Claim(s, a)
  <2> SUFFICES ASSUME NEW a \in Names PROVE Claim(t, a) = Claim(s, a)
    OBVIOUS
  <2>1. CASE a = owner
    <3> DEFINE x1 == s.staked[a]
               x2 == t.staked[a]
               y1 == s.orders[a].stake_change
               y2 == t.orders[a].stake_change
               z == s.rexbal[a].vote_stake
    <3>1. x1 \in Int /\ x2 \in Int /\ y1 \in Int /\ y2 \in Int /\ z \in Int
      BY <1>2 DEF OrderRows, BalanceRows
    <3>2. x2 + y2 = x1 + y1 + 0 /\ t.rexbal = s.rexbal
      BY <2>1 DEF AccountStep
    <3> HIDE DEF x1, x2, y1, y2, z
    <3>3. x2 + (y2 - z) = x1 + (y1 - z)
      BY <3>1, <3>2
    <3> QED
      BY <3>2, <3>3 DEF Claim, x1, x2, y1, y2, z
  <2>2. CASE a # owner
    BY <2>2 DEF AccountStep, Claim
  <2> QED
    BY <2>1, <2>2
<1> QED
  BY <1>1, <1>3 DEF AccountStep, Quiet

\* A quiet step keeps to the action properties.
LEMMA QuietSteps ==
  ASSUME NEW s \in TableSet, NEW t \in TableSet, Quiet(s, t)
  PROVE  Steps(s, t)
BY DEF Quiet, Steps, PriceKept, NothingLent, ClaimsKept

\* So do the maintenance and a quiet step after it.
LEMMA RunThenQuiet ==
  ASSUME NEW s \in TableSet, NEW t \in TableSet, NEW u \in TableSet, RunStep(s, t), Quiet(t, u)
  PROVE  Steps(s, u)
<1>1. s.pool \in PoolRows /\ t.pool \in PoolRows /\ u.pool \in PoolRows
  BY Fields
<1>2. /\ s.pool.total_rex \in Nat /\ t.pool.total_rex \in Nat /\ u.pool.total_rex \in Nat
      /\ u.pool.total_rex <= t.pool.total_rex
  BY <1>1 DEF PoolRows, Quiet
<1>3. PriceKept(s, u)
  <2> SUFFICES ASSUME u.pool.total_rex > 0
               PROVE  NotCheaper(s.pool, u.pool)
    BY DEF PriceKept
  <2>1. t.pool.total_rex > 0
    BY <1>2
  <2>2. NotCheaper(s.pool, t.pool) /\ NotCheaper(t.pool, u.pool)
    BY <2>1 DEF Quiet, RunStep
  <2> QED
    BY <1>1, <2>1, <2>2, NotCheaperTransitive
<1>4. NothingLent(s, u)
  <2> SUFFICES ASSUME NEW a \in Names, s.orders[a].state = "open"
               PROVE  /\ u.pool.loan_num = s.pool.loan_num
                      /\ \A k \in LoanIds : u.loans[k] = s.loans[k] \/ u.loans[k].kind = "none"
    BY DEF NothingLent
  <2>1. \A k \in LoanIds : t.loans[k] \in {s.loans[k], NoLoan}
    BY DEF RunStep
  <2>2. NoLoan.kind = "none"
    BY DEF NoLoan
  <2> QED
    BY <2>1, <2>2 DEF Quiet, RunStep
<1>5. ClaimsKept(s, u)
  <2> SUFFICES ASSUME NEW a \in Names, s.rexbal[a].row => u.rexbal[a].row
               PROVE  Claim(u, a) = Claim(s, a)
    BY DEF ClaimsKept
  <2>1. t.rexbal[a].row = s.rexbal[a].row
    BY DEF RunStep
  <2>2. Claim(u, a) = Claim(t, a)
    BY <2>1 DEF Quiet
  <2>3. Claim(t, a) = Claim(s, a)
    BY DEF Claim, RunStep
  <2> QED
    BY <2>2, <2>3
<1> QED
  BY <1>3, <1>4, <1>5 DEF Steps

-----------------------------------------------------------------------------
(* Pieces of the actions.                                                  *)

\* The time is within its bound.
LEMMA NowIsTime ==
  ASSUME Inv
  PROVE  now \in 0 .. MaxTime /\ now \in Nat /\ MaxTime \in Nat
BY TimeAssumption DEF Inv

\* Good tables have their types.
LEMMA GoodTables ==
  ASSUME NEW tm, NEW x, NEW free, NEW s, Good(s, tm, x, free)
  PROVE  s \in TableSet
BY DEF Good

\* No table that failed a check is committed.
LEMMA AccountFails ==
  ASSUME NEW s, "ok" \in DOMAIN s, NEW owner, NEW proceeds, NEW delta, NEW force
  PROVE  LET t == update_rex_account(s, owner, proceeds, delta, force) IN
         "ok" \in DOMAIN t /\ (~ s.ok => ~ t.ok)
<1> DEFINE order    == s.orders[owner]
           closed   == order.state = "closed"
           to_fund  == proceeds + (IF closed THEN order.proceeds ELSE 0)
           to_stake == delta + (IF closed THEN order.stake_change ELSE 0)
           s1       == IF closed THEN [s EXCEPT !.orders[owner] = NoOrder] ELSE s
           s2       == IF to_fund > 0 THEN transfer_to_fund(s1, owner, to_fund) ELSE s1
           t        == update_rex_account(s, owner, proceeds, delta, force)
<1>1. t = IF force \/ to_stake # 0 THEN update_voting_power(s2, owner, to_stake) ELSE s2
  BY DEF update_rex_account
<1>2. "ok" \in DOMAIN s1 /\ (~ s.ok => ~ s1.ok)
  OBVIOUS
<1> HIDE DEF s1, to_fund, to_stake, t
<1>3. "ok" \in DOMAIN s2 /\ (~ s.ok => ~ s2.ok)
  BY <1>2 DEF transfer_to_fund, Check
<1> HIDE DEF s2
<1>4. "ok" \in DOMAIN t /\ (~ s.ok => ~ t.ok)
  BY <1>1, <1>3 DEF update_voting_power, Check
<1> QED
  BY <1>4 DEF t

\* What is committed did not fail.
LEMMA Committed ==
  ASSUME NEW t, Commit(t)
  PROVE  t.ok
BY DEF Commit

\* What an action has to show to be a good step.
LEMMA GoodCommitted ==
  ASSUME NEW t, Commit(t), Good(t, now, 0, {}), Steps(Tables, t)
  PROVE  Done
BY DEF Done

\* The run of an action: it fails without a pool, and never with one.
LEMMA RunFirst ==
  ASSUME Inv, NEW max \in Nat
  PROVE  LET s == runrex(Tables, max) IN
         /\ Tables \in TableSet
         /\ "ok" \in DOMAIN s
         /\ s.ok => pool.initialized
         /\ pool.initialized => Good(s, now, 0, {}) /\ s \in TableSet /\ RunStep(Tables, s)
<1> DEFINE s == runrex(Tables, max)
<1>1. Good(Tables, now, 0, {}) /\ Tables \in TableSet /\ Tables.pool = pool
  BY DEF Inv, Good, Tables
<1>2. ASSUME pool.initialized
      PROVE  Good(s, now, 0, {}) /\ RunStep(Tables, s)
  <2>1. 0 \in Int
    OBVIOUS
  <2> QED
    BY <1>1, <1>2, <2>1, Maintained
<1>3. ASSUME ~ pool.initialized
      PROVE  "ok" \in DOMAIN s /\ ~ s.ok
  <2>1. s = Check(Tables, FALSE)
    BY <1>1, <1>3 DEF runrex
  <2>2. "ok" \in DOMAIN Tables
    BY DEF Tables
  <2> HIDE DEF s
  <2> QED
    BY <2>1, <2>2 DEF Check
<1> HIDE DEF s
<1>4. ASSUME pool.initialized PROVE s \in TableSet /\ "ok" \in DOMAIN s
  <2>1. s \in TableSet
    BY <1>2, <1>4, GoodTables
  <2> QED
    BY <2>1 DEF TableSet
<1> QED
  BY <1>1, <1>2, <1>3, <1>4 DEF s

\* The account of the actor is updated after the run.
LEMMA RunThenAccount ==
  ASSUME Inv, NEW owner \in Names
  PROVE  LET s == runrex(Tables, RunMax)
             t == update_rex_account(s, owner, 0, 0, FALSE)
         IN  /\ "ok" \in DOMAIN t
             /\ t.ok => /\ Good(s, now, 0, {}) /\ s \in TableSet /\ RunStep(Tables, s)
                        /\ Good(t, now, 0, {}) /\ t \in TableSet /\ AccountStep(s, t, owner, 0)
                        /\ Quiet(s, t)
<1> DEFINE s == runrex(Tables, RunMax)
           t == update_rex_account(s, owner, 0, 0, FALSE)
<1>1. /\ "ok" \in DOMAIN s
      /\ s.ok => Good(s, now, 0, {}) /\ s \in TableSet /\ RunStep(Tables, s)
  BY RunFirst, RunAssumption
<1> HIDE DEF s
<1>2. "ok" \in DOMAIN t /\ (~ s.ok => ~ t.ok)
  BY <1>1, AccountFails
<1>3. ASSUME t.ok PROVE Good(t, now, 0, {}) /\ AccountStep(s, t, owner, 0)
  <2>1. Good(s, now, 0, {})
    BY <1>1, <1>2, <1>3
  <2>2. s.orders[owner].state = "open" => s.orders[owner].rex_requested <= s.rexbal[owner].matured_rex
    BY <2>1 DEF Good, OrdersOK
  <2>3. 0 \in Nat /\ 0 \in Int /\ FALSE \in BOOLEAN
    OBVIOUS
  <2> QED
    BY <1>3, <2>1, <2>2, <2>3, AccountUpdated
<1> HIDE DEF t
<1>4. ASSUME t.ok PROVE t \in TableSet /\ Quiet(s, t)
  <2>1. t \in TableSet
    BY <1>3, <1>4, GoodTables
  <2> QED
    BY <1>1, <1>2, <1>3, <1>4, <2>1, AccountQuiet
<1> QED
  BY <1>1, <1>2, <1>3, <1>4 DEF s, t

\* One row is rearranged.
LEMMA RowChanged ==
  ASSUME NEW tm, NEW x, NEW free, NEW s, Good(s, tm, x, free), NEW a \in Names, NEW r \in BalanceRows,
         r.rex_balance = s.rexbal[a].rex_balance, RowOK(r, tm),
         s.orders[a].state = "open" /\ a \notin free => s.orders[a].rex_requested <= r.matured_rex
  PROVE  LET t == [s EXCEPT !.rexbal = [s.rexbal EXCEPT ![a] = r]] IN
         /\ Good(t, tm, x, free)
         /\ t \in TableSet
         /\ t.rexbal[a] = r
         /\ \A b \in Names : b # a => t.rexbal[b] = s.rexbal[b]
         /\ t.pool = s.pool /\ t.loans = s.loans /\ t.dbw = s.dbw /\ t.staked = s.staked
         /\ t.orders = s.orders /\ t.own = s.own /\ t.voting = s.voting
<1> DEFINE rows == [s.rexbal EXCEPT ![a] = r]
           t == [s EXCEPT !.rexbal = rows]
<1>1. s \in TableSet /\ s.rexbal \in [Names -> BalanceRows]
  BY GoodTables, Fields
<1>2. /\ rows \in [Names -> BalanceRows] /\ rows[a] = r
      /\ \A b \in Names : b # a => rows[b] = s.rexbal[b]
      /\ Sum(SharesIn(rows)) = Sum(SharesIn(s.rexbal)) + (r.rex_balance - s.rexbal[a].rex_balance)
  BY <1>1, RowReplaced
<1>3. Sum(SharesIn(rows)) = Sum(SharesIn(s.rexbal))
  <2>1. Sum(SharesIn(s.rexbal)) \in Nat /\ r.rex_balance \in Nat
    BY <1>1, ShareSums DEF BalanceRows
  <2> QED
    BY <1>2, <2>1
<1> HIDE DEF rows
<1>4. /\ t \in TableSet /\ t.rexbal = rows /\ t.pool = s.pool /\ t.fund = s.fund /\ t.loans = s.loans
      /\ t.orders = s.orders /\ t.staked = s.staked /\ t.voting = s.voting /\ t.dbw = s.dbw
      /\ t.weight = s.weight /\ t.own = s.own /\ t.acct = s.acct
  BY <1>1, <1>2 DEF TableSet
<1> HIDE DEF t
<1>5. VotesOK(rows, s.voting)
  BY <1>2 DEF VotesOK, Good
<1>6. RowsOK(rows, tm)
  BY <1>2 DEF RowsOK, Good
<1>7. OrdersOK(s.orders, rows, free)
  BY <1>2 DEF OrdersOK, Good
<1>8. Good(t, tm, x, free)
  BY <1>3, <1>4, <1>5, <1>6, <1>7 DEF Good, SharesOK
<1> QED
  BY <1>2, <1>4, <1>8 DEF t, rows

\* If also the vote stake is the same, the step is quiet.
LEMMA RowQuiet ==
  ASSUME NEW s \in TableSet, NEW t \in TableSet, NEW a \in Names,
         t.pool = s.pool, t.loans = s.loans, t.dbw = s.dbw, t.staked = s.staked, t.orders = s.orders,
         \A b \in Names : b # a => t.rexbal[b] = s.rexbal[b],
         t.rexbal[a].row => s.rexbal[a].row,
         t.rexbal[a].row => t.rexbal[a].vote_stake = s.rexbal[a].vote_stake,
         ~ s.rexbal[a].row => t.rexbal[a].vote_stake = s.rexbal[a].vote_stake
  PROVE  Quiet(s, t)
<1>1. Quiet(s, s)
  BY QuietReflexive
<1> QED
  BY <1>1 DEF Quiet, Claim

-----------------------------------------------------------------------------
(* The actions that rearrange a row.                                       *)

\* What good tables say of one account.
LEMMA GoodRow ==
  ASSUME NEW tm, NEW x, NEW free, NEW s, Good(s, tm, x, free), NEW a \in Names
  PROVE  /\ s.rexbal[a] \in BalanceRows /\ s.orders[a] \in OrderRows
         /\ RowOK(s.rexbal[a], tm) /\ OrderOK(s.orders[a])
         /\ Ordered(s.rexbal[a].rex_maturities, tm)
         /\ HeldIn(s.rexbal[a]) = s.rexbal[a].rex_balance
         /\ s.rexbal[a].matured_rex \in Nat /\ s.rexbal[a].rex_balance \in Nat
         /\ RexInOrder(s, a) \in Nat
         /\ a \notin free => RexInOrder(s, a) <= s.rexbal[a].matured_rex
<1>1. s.rexbal \in [Names -> BalanceRows] /\ s.orders \in [Names -> OrderRows]
  BY GoodTables, Fields
<1>2. RowOK(s.rexbal[a], tm) /\ OrdersOK(s.orders, s.rexbal, free)
  BY DEF Good, RowsOK
<1>3. s.rexbal[a] \in BalanceRows /\ s.orders[a] \in OrderRows
  BY <1>1
<1>4. /\ s.rexbal[a].matured_rex \in Nat /\ s.rexbal[a].rex_balance \in Nat
      /\ s.orders[a].rex_requested \in Nat
  BY <1>3 DEF BalanceRows, OrderRows
<1>5. OrderOK(s.orders[a]) /\ (a \notin free => RexInOrder(s, a) <= s.rexbal[a].matured_rex)
  BY <1>2, <1>4 DEF OrdersOK, RexInOrder
<1> QED
  BY <1>2, <1>3, <1>4, <1>5 DEF RowOK, HeldIn, RexInOrder

\* One row is rearranged in the middle of an action.
LEMMA RowRearranged ==
  ASSUME NEW tm, NEW x, NEW free, NEW s, Good(s, tm, x, free), NEW a \in Names,
         s.rexbal[a].row, NEW r, Rearranged(r, s.rexbal[a], tm), HeldIn(r) = HeldIn(s.rexbal[a]),
         a \in free \/ RexInOrder(s, a) <= r.matured_rex
  PROVE  LET t == [s EXCEPT !.rexbal[a] = r] IN
         /\ Good(t, tm, x, free) /\ t \in TableSet /\ Quiet(s, t)
         /\ t.rexbal[a] = r /\ t.orders = s.orders /\ t.pool = s.pool
<1> DEFINE t == [s EXCEPT !.rexbal = [s.rexbal EXCEPT ![a] = r]]
<1>1. s \in TableSet
  BY GoodTables
<1>2. HeldIn(s.rexbal[a]) = s.rexbal[a].rex_balance
  BY GoodRow
<1>3. RowOK(r, tm) /\ r \in BalanceRows /\ r.rex_balance = s.rexbal[a].rex_balance
  BY <1>2 DEF RowOK, Rearranged, HeldIn
<1>4. s.orders[a].state = "open" /\ a \notin free => s.orders[a].rex_requested <= r.matured_rex
  BY DEF RexInOrder
<1>5. /\ Good(t, tm, x, free)
      /\ t \in TableSet
      /\ t.rexbal[a] = r
      /\ \A b \in Names : b # a => t.rexbal[b] = s.rexbal[b]
      /\ t.pool = s.pool /\ t.loans = s.loans /\ t.dbw = s.dbw /\ t.staked = s.staked
      /\ t.orders = s.orders
  BY <1>3, <1>4, RowChanged
<1> HIDE DEF t
<1>6. Quiet(s, t)
  BY <1>1, <1>5, RowQuiet DEF Rearranged
<1> QED
  BY <1>5, <1>6 DEF t

\* The last thing the action does is to rearrange the row.
LEMMA RowAction ==
  ASSUME Inv, NEW owner \in Names, NEW r,
         LET s == runrex(Tables, RunMax)
             t == update_rex_account(s, owner, 0, 0, FALSE)
         IN  /\ Commit([t EXCEPT !.rexbal[owner] = r])
             /\ t.ok => /\ t.rexbal[owner].row
                        /\ Rearranged(r, t.rexbal[owner], now) /\ HeldIn(r) = HeldIn(t.rexbal[owner])
                        /\ RexInOrder(t, owner) <= r.matured_rex
  PROVE  Done
<1> DEFINE s == runrex(Tables, RunMax)
           t == update_rex_account(s, owner, 0, 0, FALSE)
           u == [t EXCEPT !.rexbal[owner] = r]
<1>1. /\ "ok" \in DOMAIN t
      /\ t.ok => /\ s \in TableSet /\ RunStep(Tables, s)
                 /\ Good(t, now, 0, {}) /\ t \in TableSet /\ Quiet(s, t)
  BY RunThenAccount
<1>2. /\ Commit(u)
      /\ t.ok => /\ t.rexbal[owner].row
                 /\ Rearranged(r, t.rexbal[owner], now) /\ HeldIn(r) = HeldIn(t.rexbal[owner])
                 /\ RexInOrder(t, owner) <= r.matured_rex
  OBVIOUS
<1> HIDE DEF s, t
<1>3. t.ok
  <2>1. u.ok = t.ok
    BY <1>1
  <2> HIDE DEF u
  <2> QED
    BY <1>2, <2>1, Committed
<1>4. Good(u, now, 0, {}) /\ u \in TableSet /\ Quiet(t, u)
  BY <1>1, <1>2, <1>3, RowRearranged
<1> HIDE DEF u
<1>5. Quiet(s, u) /\ Tables \in TableSet
  BY <1>1, <1>3, <1>4, QuietTransitive DEF Inv, Good
<1>6. Steps(Tables, u)
  BY <1>1, <1>3, <1>4, <1>5, RunThenQuiet
<1> QED
  BY <1>2, <1>4, <1>6, GoodCommitted

\* What update_rex_account does not touch.
LEMMA AccountKeeps ==
  ASSUME NEW s, NEW t, NEW owner \in Names, NEW delta, AccountStep(s, t, owner, delta)
  PROVE  t.rexbal = s.rexbal /\ RexInOrder(t, owner) = RexInOrder(s, owner)
<1>1. NoOrder.state = "none"
  BY NoOrderFacts
<1> QED
  BY <1>1 DEF AccountStep, RexInOrder

\* consolidate keeps the tables good and keeps to the action properties.
LEMMA Consolidate ==
  ASSUME Inv, NEW owner \in Names, consolidate(owner)
  PROVE  Done
<1> DEFINE s == runrex(Tables, RunMax)
           t == update_rex_account(s, owner, 0, 0, FALSE)
           rb == t.rexbal[owner]
           in_order == RexInOrder(s, owner)
           r == consolidate_rex_balance(rb, in_order, now)
<1>1. Commit([t EXCEPT !.rexbal[owner] = r]) /\ s.rexbal[owner].row
  BY DEF consolidate, AfterRun
<1>2. t.ok => Good(s, now, 0, {}) /\ Good(t, now, 0, {}) /\ AccountStep(s, t, owner, 0)
  BY RunThenAccount
<1> HIDE DEF s, t
<1>3. ASSUME t.ok
      PROVE  /\ rb.row /\ Rearranged(r, rb, now) /\ HeldIn(r) = HeldIn(rb)
             /\ RexInOrder(t, owner) <= r.matured_rex
  <2>1. t.rexbal = s.rexbal /\ RexInOrder(t, owner) = in_order
    BY <1>2, <1>3, AccountKeeps
  <2>2. rb \in BalanceRows /\ Ordered(rb.rex_maturities, now) /\ RexInOrder(t, owner) \in Nat
        /\ RexInOrder(t, owner) <= rb.matured_rex
    BY <1>2, <1>3, GoodRow
  <2>3. in_order \in Nat /\ in_order <= rb.matured_rex /\ in_order <= in_order
    BY <2>1, <2>2
  <2>4. Rearranged(r, rb, now) /\ HeldIn(r) = HeldIn(rb) /\ r.matured_rex = in_order
    BY <2>2, <2>3, RowConsolidates, NowIsTime
  <2> QED
    BY <1>1, <2>1, <2>3, <2>4
<1> QED
  BY <1>1, <1>3, RowAction DEF s, t

\* The same of mvtosavings.
LEMMA MoveToSavings ==
  ASSUME Inv, NEW owner \in Names, NEW rex \in Int, mvtosavings(owner, rex)
  PROVE  Done
<1> DEFINE s == runrex(Tables, RunMax)
           t == update_rex_account(s, owner, 0, 0, FALSE)
           rb == t.rexbal[owner]
           in_order == RexInOrder(s, owner)
           r == MovedToSavings(rb, rex, now)
           u == [t EXCEPT !.rexbal[owner] = r]
<1>1. /\ Commit(u) /\ rb.row /\ 0 < rex
      /\ rex + in_order + read_rex_savings(rb) <= rb.rex_balance
      /\ in_order <= u.rexbal[owner].matured_rex
  BY DEF mvtosavings, AfterRun
<1>2. t.ok => Good(s, now, 0, {}) /\ Good(t, now, 0, {}) /\ AccountStep(s, t, owner, 0)
  BY RunThenAccount
<1> HIDE DEF s, t
<1>3. ASSUME t.ok
      PROVE  /\ rb.row /\ Rearranged(r, rb, now) /\ HeldIn(r) = HeldIn(rb)
             /\ RexInOrder(t, owner) <= r.matured_rex
  <2>1. t.rexbal = s.rexbal /\ RexInOrder(t, owner) = in_order
    BY <1>2, <1>3, AccountKeeps
  <2>2. /\ rb \in BalanceRows /\ Ordered(rb.rex_maturities, now) /\ RexInOrder(t, owner) \in Nat
        /\ HeldIn(rb) = rb.rex_balance /\ rb.rex_balance \in Nat
    BY <1>2, <1>3, GoodRow
  <2>3. read_rex_savings(rb) \in Nat
    BY <2>2, NowIsTime, TakeSavings
  <2>4. rex \in Nat /\ rex > 0 /\ rex + read_rex_savings(rb) <= HeldIn(rb)
    BY <1>1, <2>1, <2>2, <2>3
  <2>5. Rearranged(r, rb, now) /\ HeldIn(r) = HeldIn(rb)
    BY <2>2, <2>4, RowSaves, NowIsTime
  <2>6. u.rexbal[owner] = r
    <3>1. t \in TableSet /\ t.rexbal \in [Names -> BalanceRows]
      BY <1>2, <1>3, GoodTables, Fields
    <3> HIDE DEF r
    <3> QED
      BY <3>1 DEF TableSet
  <2> QED
    BY <1>1, <2>1, <2>5, <2>6
<1> QED
  BY <1>1, <1>3, RowAction DEF s, t

\* The account of the actor is updated at the end of an action.
LEMMA AccountAfter ==
  ASSUME NEW s, Good(s, now, 0, {}), NEW owner \in Names, NEW delta \in Int, NEW force \in BOOLEAN,
         update_rex_account(s, owner, 0, delta, force).ok
  PROVE  LET t == update_rex_account(s, owner, 0, delta, force) IN
         /\ Good(t, now, 0, {}) /\ t \in TableSet /\ AccountStep(s, t, owner, delta)
         /\ delta = 0 => Quiet(s, t)
<1> DEFINE t == update_rex_account(s, owner, 0, delta, force)
<1>1. s.orders[owner].state = "open" => s.orders[owner].rex_requested <= s.rexbal[owner].matured_rex
  BY DEF Good, OrdersOK
<1>2. 0 \in Nat
  OBVIOUS
<1>3. Good(t, now, 0, {}) /\ AccountStep(s, t, owner, delta)
  BY <1>1, <1>2, AccountUpdated
<1> HIDE DEF t
<1>4. t \in TableSet /\ s \in TableSet
  BY <1>3, GoodTables
<1>5. delta = 0 => Quiet(s, t)
  BY <1>3, <1>4, AccountQuiet
<1> QED
  BY <1>3, <1>4, <1>5 DEF t

\* The same of mvfrsavings.
LEMMA MoveFromSavings ==
  ASSUME Inv, NEW owner \in Names, NEW rex \in Int, mvfrsavings(owner, rex)
  PROVE  Done
<1> DEFINE s == runrex(Tables, RunMax)
           rb == s.rexbal[owner]
           r == MovedFromSavings(rb, rex, now)
           s1 == [s EXCEPT !.rexbal[owner] = r]
           t == update_rex_account(s1, owner, 0, 0, FALSE)
<1>1. Commit(t) /\ rb.row /\ 0 < rex /\ rex <= read_rex_savings(rb)
  BY DEF mvfrsavings, AfterRun
<1>2. /\ "ok" \in DOMAIN s
      /\ s.ok => Good(s, now, 0, {}) /\ s \in TableSet /\ RunStep(Tables, s)
      /\ Tables \in TableSet
  BY RunFirst, RunAssumption
<1> HIDE DEF s
<1>3. "ok" \in DOMAIN s1 /\ s1.ok = s.ok
  BY <1>2
<1> HIDE DEF s1
<1>4. s1.ok /\ t.ok
  BY <1>1, <1>3, AccountFails, Committed
<1>5. Good(s, now, 0, {}) /\ s \in TableSet /\ RunStep(Tables, s)
  BY <1>2, <1>3, <1>4
<1>6. /\ rb \in BalanceRows /\ Ordered(rb.rex_maturities, now)
      /\ RexInOrder(s, owner) \in Nat /\ RexInOrder(s, owner) <= rb.matured_rex
      /\ rb.matured_rex \in Nat
  BY <1>5, GoodRow
<1>7. Rearranged(r, rb, now) /\ HeldIn(r) = HeldIn(rb) /\ rb.matured_rex <= r.matured_rex
  <2>1. rex \in Nat
    BY <1>1
  <2> QED
    BY <1>1, <1>6, <2>1, NowIsTime, RowUnsaves
<1>8. RexInOrder(s, owner) <= r.matured_rex
  <2>1. r.matured_rex \in Nat
    BY <1>7 DEF Rearranged, BalanceRows
  <2> QED
    BY <1>6, <1>7, <2>1
<1> HIDE DEF r
<1>9. Good(s1, now, 0, {}) /\ s1 \in TableSet /\ Quiet(s, s1)
  BY <1>1, <1>5, <1>7, <1>8, RowRearranged DEF s1
<1>10. Good(t, now, 0, {}) /\ t \in TableSet /\ Quiet(s1, t)
  <2>1. 0 \in Int /\ FALSE \in BOOLEAN
    OBVIOUS
  <2> QED
    BY <1>4, <1>9, <2>1, AccountAfter
<1> HIDE DEF t
<1>11. Steps(Tables, t)
  <2>1. Quiet(s, t)
    BY <1>5, <1>9, <1>10, QuietTransitive
  <2> QED
    BY <1>2, <1>5, <1>10, <2>1, RunThenQuiet
<1> QED
  BY <1>1, <1>10, <1>11, GoodCommitted

\* closerex erases the row of a balance of zero.
LEMMA CloseRex ==
  ASSUME Inv, NEW owner \in Names, closerex(owner)
  PROVE  Done
<1>1. PICK s \in IF pool.initialized THEN AfterRun ELSE {Tables} :
        LET s1 == update_rex_account(s, owner, 0, 0, FALSE) IN
        /\ s1.rexbal[owner].rex_balance = 0
        /\ Commit([s1 EXCEPT !.rexbal[owner] = NoBalance])
  BY DEF closerex
<1> DEFINE t == update_rex_account(s, owner, 0, 0, FALSE)
           u == [t EXCEPT !.rexbal[owner] = NoBalance]
           rb == t.rexbal[owner]
<1>2. Commit(u) /\ rb.rex_balance = 0
  BY <1>1
<1>3. /\ Tables \in TableSet
      /\ Good(s, now, 0, {}) /\ s \in TableSet
      /\ \A v \in TableSet : Quiet(s, v) => Steps(Tables, v)
  <2>1. CASE pool.initialized
    <3>1. s = runrex(Tables, RunMax)
      BY <1>1, <2>1 DEF AfterRun
    <3>2. Good(s, now, 0, {}) /\ s \in TableSet /\ RunStep(Tables, s) /\ Tables \in TableSet
      BY <2>1, <3>1, RunFirst, RunAssumption
    <3> QED
      BY <3>2, RunThenQuiet
  <2>2. CASE ~ pool.initialized
    <3>1. s = Tables
      BY <1>1, <2>2
    <3>2. Good(s, now, 0, {}) /\ s \in TableSet
      BY <3>1 DEF Inv, Good
    <3> QED
      BY <3>1, <3>2, QuietSteps
  <2> QED
    BY <2>1, <2>2
<1>4. "ok" \in DOMAIN t
  <2>1. "ok" \in DOMAIN s
    BY <1>3 DEF TableSet
  <2> QED
    BY <2>1, AccountFails
<1>5. t.ok
  <2> HIDE DEF t
  <2>1. u.ok = t.ok
    BY <1>4
  <2> HIDE DEF u
  <2> QED
    BY <1>2, <2>1, Committed
<1>6. Good(t, now, 0, {}) /\ t \in TableSet /\ Quiet(s, t)
  <2>1. 0 \in Int /\ FALSE \in BOOLEAN
    OBVIOUS
  <2> QED
    BY <1>3, <1>5, <2>1, AccountAfter
<1> HIDE DEF t
<1>7. /\ rb \in BalanceRows /\ RowOK(rb, now) /\ HeldIn(rb) = 0 /\ rb.matured_rex \in Nat
      /\ RexInOrder(t, owner) <= rb.matured_rex /\ RexInOrder(t, owner) \in Nat
      /\ OrderOK(t.orders[owner])
  BY <1>2, <1>6, GoodRow
<1>8. NoBalance \in BalanceRows /\ NoBalance.rex_balance = 0 /\ RowOK(NoBalance, now)
      /\ NoBalance.row = FALSE /\ NoBalance.vote_stake = 0
  <2>1. << >> \in Seq(BucketRows) /\ InBuckets(<< >>) = 0
    BY NoBuckets
  <2> QED
    BY <2>1 DEF NoBalance, BalanceRows, RowOK, Ordered
<1>9. t.orders[owner].state # "open"
  <2>1. InBuckets(rb.rex_maturities) \in Nat
    BY <1>7, BucketsNat DEF BalanceRows
  <2>2. rb.matured_rex = 0
    BY <1>7, <2>1 DEF HeldIn
  <2> QED
    BY <1>7, <2>2 DEF RexInOrder, OrderOK
<1>10. /\ Good(u, now, 0, {})
       /\ u \in TableSet
       /\ u.rexbal[owner] = NoBalance
       /\ \A b \in Names : b # owner => u.rexbal[b] = t.rexbal[b]
       /\ u.pool = t.pool /\ u.loans = t.loans /\ u.dbw = t.dbw /\ u.staked = t.staked
       /\ u.orders = t.orders
  BY <1>2, <1>6, <1>8, <1>9, RowChanged
<1> HIDE DEF u
<1>11. ~ t.rexbal[owner].row => t.rexbal[owner].vote_stake = 0
  BY <1>7, <1>8 DEF RowOK
<1>12. Quiet(t, u)
  BY <1>6, <1>8, <1>10, <1>11, RowQuiet
<1>13. Quiet(s, u)
  BY <1>3, <1>6, <1>10, <1>12, QuietTransitive
<1>14. Steps(Tables, u)
  BY <1>3, <1>10, <1>13
<1> QED
  BY <1>2, <1>10, <1>14, GoodCommitted

-----------------------------------------------------------------------------
(* The value of a balance as a vote.                                       *)

\* updaterex passes the new value of the balance on to the vote.
LEMMA UpdateRex ==
  ASSUME Inv, NEW owner \in Names, updaterex(owner)
  PROVE  Done
<1> DEFINE s == runrex(Tables, RunMax)
           rb == s.rexbal[owner]
           current == StakeOf(s, rb.rex_balance)
           v == [rb EXCEPT !.vote_stake = current]
           s1 == [s EXCEPT !.rexbal[owner].vote_stake = current]
           delta == current - rb.vote_stake
           t == update_rex_account(s1, owner, 0, delta, TRUE)
           r == process_rex_maturities(t.rexbal[owner], now)
           u == [t EXCEPT !.rexbal[owner] = r]
<1>1. Commit(u) /\ rb.row
  BY DEF updaterex, AfterRun
<1>2. /\ "ok" \in DOMAIN s
      /\ s.ok => Good(s, now, 0, {}) /\ s \in TableSet /\ RunStep(Tables, s)
      /\ Tables \in TableSet
  BY RunFirst, RunAssumption
<1> HIDE DEF s
<1>3. "ok" \in DOMAIN s1 /\ s1.ok = s.ok /\ s1 = [s EXCEPT !.rexbal = [s.rexbal EXCEPT ![owner] = v]]
  BY <1>2
<1> HIDE DEF current, s1, delta
<1>4. "ok" \in DOMAIN t /\ (~ s1.ok => ~ t.ok)
  BY <1>3, AccountFails
<1> HIDE DEF t, r
<1>5. t.ok
  <2>1. u.ok = t.ok
    BY <1>4
  <2> HIDE DEF u
  <2> QED
    BY <1>1, <2>1, Committed
<1>6. Good(s, now, 0, {}) /\ s \in TableSet /\ RunStep(Tables, s)
  BY <1>2, <1>3, <1>4, <1>5
<1>7. /\ rb \in BalanceRows /\ RowOK(rb, now)
      /\ RexInOrder(s, owner) <= rb.matured_rex /\ rb.rex_balance \in Nat
  BY <1>6, GoodRow
<1>8. current \in Nat /\ rb.vote_stake \in Int
  <2>1. s.pool \in PoolRows
    BY <1>6, Fields
  <2> QED
    BY <1>7, <2>1, StakeOfNat DEF current, BalanceRows
<1>9. delta \in Int /\ delta = current - rb.vote_stake
  BY <1>8 DEF delta
<1>10. /\ v \in BalanceRows /\ v.rex_balance = rb.rex_balance /\ v.matured_rex = rb.matured_rex
       /\ v.row /\ v.row = rb.row /\ v.vote_stake = current
       /\ v.rex_maturities = rb.rex_maturities
  <2>1. v = [rb EXCEPT !.vote_stake = current]
    OBVIOUS
  <2> HIDE DEF v, rb
  <2>2. v \in BalanceRows
    BY <1>7, <1>8, <2>1 DEF BalanceRows
  <2>3. v.row = rb.row
    BY <1>7, <2>1 DEF BalanceRows
  <2> QED
    BY <1>1, <1>7, <2>1, <2>2, <2>3 DEF BalanceRows
<1>11. RowOK(v, now)
  BY <1>7, <1>10 DEF RowOK
<1> HIDE DEF v
<1>12. s.orders[owner].state = "open" => s.orders[owner].rex_requested <= v.matured_rex
  BY <1>7, <1>10 DEF RexInOrder
<1>13. /\ Good(s1, now, 0, {})
       /\ s1 \in TableSet
       /\ s1.rexbal[owner] = v
       /\ \A b \in Names : b # owner => s1.rexbal[b] = s.rexbal[b]
       /\ s1.pool = s.pool /\ s1.loans = s.loans /\ s1.dbw = s.dbw /\ s1.staked = s.staked
       /\ s1.orders = s.orders
  BY <1>3, <1>6, <1>10, <1>11, <1>12, RowChanged
<1>14. Good(t, now, 0, {}) /\ t \in TableSet /\ AccountStep(s1, t, owner, delta)
  <2>1. TRUE \in BOOLEAN
    OBVIOUS
  <2> QED
    BY <1>5, <1>9, <1>13, <2>1, AccountAfter DEF t
<1>15. Quiet(s, t)
  <2>1. Quiet(s, s)
    BY <1>6, QuietReflexive
  <2>2. Claim(t, owner) = Claim(s, owner)
    <3> DEFINE x1 == s.staked[owner]
               x2 == t.staked[owner]
               y1 == s.orders[owner].stake_change
               y2 == t.orders[owner].stake_change
               z == rb.vote_stake
    <3>1. x1 \in Int /\ x2 \in Int /\ y1 \in Int /\ y2 \in Int /\ z \in Int
      <4>1. /\ s.staked \in [Names -> Int] /\ t.staked \in [Names -> Int]
            /\ s.orders \in [Names -> OrderRows] /\ t.orders \in [Names -> OrderRows]
        BY <1>6, <1>14, Fields
      <4> QED
        BY <1>8, <4>1 DEF OrderRows
    <3>2. x2 + y2 = x1 + y1 + delta /\ t.rexbal[owner].vote_stake = current
      BY <1>10, <1>13, <1>14 DEF AccountStep
    <3> HIDE DEF x1, x2, y1, y2, z
    <3>3. x2 + (y2 - current) = x1 + (y1 - z)
      BY <1>8, <1>9, <3>1, <3>2 DEF z
    <3> QED
      BY <3>2, <3>3 DEF Claim, x1, x2, y1, y2, z
  <2>3. \A b \in Names : b # owner => Claim(t, b) = Claim(s, b) /\ t.rexbal[b] = s.rexbal[b]
    <3> SUFFICES ASSUME NEW b \in Names, b # owner
                 PROVE  Claim(t, b) = Claim(s, b) /\ t.rexbal[b] = s.rexbal[b]
      OBVIOUS
    <3>1. t.rexbal = s1.rexbal /\ t.orders[b] = s1.orders[b] /\ t.staked[b] = s1.staked[b]
      BY <1>14 DEF AccountStep
    <3>2. t.rexbal[b] = s.rexbal[b] /\ t.orders[b] = s.orders[b] /\ t.staked[b] = s.staked[b]
      BY <1>13, <3>1
    <3>3. /\ t.rexbal[b].vote_stake = s.rexbal[b].vote_stake
          /\ t.orders[b].stake_change = s.orders[b].stake_change
      BY <3>2
    <3> QED
      BY <3>2, <3>3 DEF Claim
  <2>4. t.rexbal[owner].row = s.rexbal[owner].row
    <3>1. t.rexbal = s1.rexbal
      BY <1>14 DEF AccountStep
    <3> QED
      BY <1>10, <1>13, <3>1
  <2>5. \A b \in Names : t.rexbal[b].row = s.rexbal[b].row /\ Claim(t, b) = Claim(s, b)
    BY <2>2, <2>3, <2>4
  <2> QED
    BY <1>13, <1>14, <2>1, <2>5 DEF AccountStep, Quiet
<1>16. Good(u, now, 0, {}) /\ u \in TableSet /\ Quiet(t, u)
  <2> DEFINE rt == t.rexbal[owner]
  <2>1. /\ rt \in BalanceRows /\ Ordered(rt.rex_maturities, now)
        /\ RexInOrder(t, owner) <= rt.matured_rex /\ RexInOrder(t, owner) \in Nat
        /\ rt.matured_rex \in Nat
    BY <1>14, GoodRow
  <2>2. rt.row
    BY <1>10, <1>13, <1>14 DEF AccountStep
  <2> HIDE DEF rt
  <2>3. /\ r \in BalanceRows
        /\ r = [rt EXCEPT !.matured_rex = r.matured_rex, !.rex_maturities = r.rex_maturities]
        /\ r.matured_rex + InBuckets(r.rex_maturities) = rt.matured_rex + InBuckets(rt.rex_maturities)
        /\ rt.matured_rex <= r.matured_rex
        /\ Ordered(r.rex_maturities, now)
    BY <2>1, ProcessRow, NowIsTime DEF r, rt
  <2>4. Rearranged(r, rt, now) /\ HeldIn(r) = HeldIn(rt)
    BY <2>1, <2>3 DEF Rearranged, HeldIn, BalanceRows
  <2>5. RexInOrder(t, owner) <= r.matured_rex
    <3>1. r.matured_rex \in Nat
      BY <2>3 DEF BalanceRows
    <3> QED
      BY <2>1, <2>3, <3>1
  <2> QED
    BY <1>14, <2>2, <2>4, <2>5, RowRearranged DEF rt
<1> HIDE DEF u
<1>17. Steps(Tables, u)
  <2>1. Quiet(s, u)
    BY <1>6, <1>14, <1>15, <1>16, QuietTransitive
  <2> QED
    BY <1>2, <1>6, <1>16, <2>1, RunThenQuiet
<1> QED
  BY <1>1, <1>16, <1>17, GoodCommitted

\* A vote changes no token.
LEMMA VotesChanged ==
  ASSUME NEW tm, NEW x, NEW free, NEW s, Good(s, tm, x, free),
         NEW st \in [Names -> Int], NEW vt \in [Names -> BOOLEAN], VotesOK(s.rexbal, vt)
  PROVE  Good([s EXCEPT !.staked = st, !.voting = vt], tm, x, free)
<1> DEFINE t == [s EXCEPT !.staked = st, !.voting = vt]
<1>1. s \in TableSet
  BY GoodTables
<1>2. /\ t \in TableSet /\ t.rexbal = s.rexbal /\ t.pool = s.pool /\ t.fund = s.fund /\ t.loans = s.loans
      /\ t.orders = s.orders /\ t.staked = st /\ t.voting = vt /\ t.dbw = s.dbw
      /\ t.weight = s.weight /\ t.own = s.own /\ t.acct = s.acct
  BY <1>1 DEF TableSet
<1> HIDE DEF t
<1>3. Good(t, tm, x, free)
  BY <1>2 DEF Good
<1> QED
  BY <1>3 DEF t

\* voteproducer updates the vote stake of the REX first.
LEMMA VoteProducer ==
  ASSUME Inv, NEW voter \in Names, NEW satisfied \in BOOLEAN, voteproducer(voter, satisfied)
  PROVE  Done
<1> DEFINE s == Tables
           rb == s.rexbal[voter]
           current == StakeOf(s, rb.rex_balance)
           v == [rb EXCEPT !.vote_stake = current]
           change == current - rb.vote_stake
           t == update_rex_stake(s, voter)
           u == [t EXCEPT !.voting[voter] = satisfied]
<1>1. Commit(u) /\ (rb.rex_balance > 0 => satisfied)
  BY DEF voteproducer, Tables
<1>2. Good(s, now, 0, {}) /\ s \in TableSet
  BY DEF Inv, Good
<1> HIDE DEF s
<1>3. /\ rb \in BalanceRows /\ RowOK(rb, now)
      /\ RexInOrder(s, voter) <= rb.matured_rex /\ rb.rex_balance \in Nat
  BY <1>2, GoodRow
<1>4. current \in Nat /\ rb.vote_stake \in Int
  <2>1. s.pool \in PoolRows
    BY <1>2, Fields
  <2> QED
    BY <1>3, <2>1, StakeOfNat DEF BalanceRows
<1>5. s.staked \in [Names -> Int] /\ s.voting \in [Names -> BOOLEAN]
  BY <1>2, Fields
<1>6. CASE rb.row /\ rex_available(s)
  <2> DEFINE st == [s.staked EXCEPT ![voter] = s.staked[voter] + change]
             vt == [s.voting EXCEPT ![voter] = satisfied]
             rows == [s.rexbal EXCEPT ![voter] = v]
             s1 == [s EXCEPT !.rexbal = rows]
             t1 == [s1 EXCEPT !.staked = st, !.voting = vt]
  <2>1. t = [s EXCEPT !.rexbal[voter].vote_stake = current, !.staked[voter] = s.staked[voter] + change]
    BY <1>6 DEF update_rex_stake
  <2>2. /\ v \in BalanceRows /\ v.rex_balance = rb.rex_balance /\ v.matured_rex = rb.matured_rex
        /\ v.row /\ v.vote_stake = current
        /\ v.rex_maturities = rb.rex_maturities
    BY <1>3, <1>4, <1>6 DEF BalanceRows
  <2>3. t = [s EXCEPT !.rexbal = rows, !.staked = st]
    BY <2>1
  <2> HIDE DEF current, change, v, t
  <2>4. RowOK(v, now)
    BY <1>3, <1>6, <2>2 DEF RowOK
  <2>5. s.orders[voter].state = "open" => s.orders[voter].rex_requested <= v.matured_rex
    BY <1>3, <2>2 DEF RexInOrder
  <2>6. /\ Good(s1, now, 0, {})
        /\ s1 \in TableSet
        /\ s1.rexbal[voter] = v
        /\ \A b \in Names : b # voter => s1.rexbal[b] = s.rexbal[b]
        /\ s1.pool = s.pool /\ s1.loans = s.loans /\ s1.dbw = s.dbw /\ s1.staked = s.staked
        /\ s1.orders = s.orders /\ s1.voting = s.voting
    BY <1>2, <2>2, <2>4, <2>5, RowChanged
  <2>7. /\ st \in [Names -> Int] /\ vt \in [Names -> BOOLEAN]
        /\ st[voter] = s.staked[voter] + change /\ vt[voter] = satisfied
        /\ \A b \in Names : b # voter => st[b] = s.staked[b] /\ vt[b] = s.voting[b]
    <3>1. change \in Int
      BY <1>4 DEF change
    <3> QED
      BY <1>5, <3>1
  <2>8. u = t1
    <3>1. t.voting = s.voting
      BY <1>2, <2>3 DEF TableSet
    <3> HIDE DEF st, rows
    <3>2. u = [t EXCEPT !.voting = vt]
      BY <3>1
    <3> HIDE DEF u, vt
    <3> QED
      BY <1>2, <2>3, <3>2 DEF TableSet
  <2> HIDE DEF st, vt, s1, u
  <2>9. VotesOK(s1.rexbal, vt)
    <3>1. VotesOK(s.rexbal, s.voting)
      BY <1>2 DEF Good
    <3> QED
      BY <1>1, <2>2, <2>6, <2>7, <3>1 DEF VotesOK
  <2>10. /\ Good(t1, now, 0, {}) /\ t1 \in TableSet /\ t1.staked = st
         /\ t1.rexbal = s1.rexbal /\ t1.orders = s1.orders /\ t1.pool = s1.pool /\ t1.loans = s1.loans
         /\ t1.dbw = s1.dbw
    <3>1. Good(t1, now, 0, {})
      BY <2>6, <2>7, <2>9, VotesChanged
    <3>2. t1 \in TableSet
      BY <3>1, GoodTables
    <3> QED
      BY <2>6, <3>1, <3>2 DEF TableSet
  <2> HIDE DEF t1
  <2>11. \A b \in Names : Claim(t1, b) = Claim(s, b) /\ t1.rexbal[b].row = s.rexbal[b].row
    <3> SUFFICES ASSUME NEW b \in Names
                 PROVE  Claim(t1, b) = Claim(s, b) /\ t1.rexbal[b].row = s.rexbal[b].row
      OBVIOUS
    <3>1. CASE b # voter
      BY <2>6, <2>7, <2>10, <3>1 DEF Claim
    <3>2. CASE b = voter
      <4> DEFINE x == s.staked[voter]
                 y == s.orders[voter].stake_change
                 z == rb.vote_stake
      <4>1. x \in Int /\ y \in Int /\ z \in Int
        <5>1. s.orders \in [Names -> OrderRows]
          BY <1>2, Fields
        <5> QED
          BY <1>4, <1>5, <5>1 DEF OrderRows
      <4>2. t1.staked[b] = x + change /\ t1.orders[b].stake_change = y /\ t1.rexbal[b].vote_stake = current
        BY <2>2, <2>6, <2>7, <2>10, <3>2
      <4>3. change = current - z
        BY DEF change
      <4> HIDE DEF x, y, z
      <4>4. (x + change) + (y - current) = x + (y - z)
        BY <1>4, <4>1, <4>3
      <4>5. Claim(t1, b) = Claim(s, b)
        BY <3>2, <4>2, <4>4 DEF Claim, x, y, z
      <4> QED
        BY <1>6, <2>2, <2>6, <2>10, <3>2, <4>5
    <3> QED
      BY <3>1, <3>2
  <2>12. Quiet(s, t1)
    <3>1. Quiet(s, s)
      BY <1>2, QuietReflexive
    <3> QED
      BY <2>6, <2>10, <2>11, <3>1 DEF Quiet
  <2>13. Steps(Tables, t1)
    BY <1>2, <2>10, <2>12, QuietSteps DEF s
  <2> QED
    BY <1>1, <2>8, <2>10, <2>13, GoodCommitted
<1>7. CASE ~ (rb.row /\ rex_available(s))
  <2> DEFINE st == s.staked
             vt == [s.voting EXCEPT ![voter] = satisfied]
             t1 == [s EXCEPT !.staked = st, !.voting = vt]
  <2>1. t = s
    BY <1>7 DEF update_rex_stake
  <2>2. /\ vt \in [Names -> BOOLEAN] /\ vt[voter] = satisfied
        /\ \A b \in Names : b # voter => vt[b] = s.voting[b]
    BY <1>5
  <2>3. u = [s EXCEPT !.voting = vt]
    BY <2>1
  <2> HIDE DEF vt, u, t
  <2>4. u = t1
    BY <1>2, <2>3 DEF TableSet
  <2>5. VotesOK(s.rexbal, vt)
    <3>1. VotesOK(s.rexbal, s.voting)
      BY <1>2 DEF Good
    <3> QED
      BY <1>1, <2>2, <3>1 DEF VotesOK
  <2>6. /\ Good(t1, now, 0, {}) /\ t1 \in TableSet /\ t1.staked = st
        /\ t1.rexbal = s.rexbal /\ t1.orders = s.orders /\ t1.pool = s.pool /\ t1.loans = s.loans
        /\ t1.dbw = s.dbw
    <3>1. Good(t1, now, 0, {})
      BY <1>2, <1>5, <2>2, <2>5, VotesChanged
    <3>2. t1 \in TableSet
      BY <3>1, GoodTables
    <3> QED
      BY <1>2, <3>1, <3>2 DEF TableSet
  <2> HIDE DEF t1
  <2>7. Quiet(s, t1)
    <3>1. Quiet(s, s)
      BY <1>2, QuietReflexive
    <3> QED
      BY <2>6, <3>1 DEF Quiet, Claim
  <2>8. Steps(Tables, t1)
    BY <1>2, <2>6, <2>7, QuietSteps DEF s
  <2> QED
    BY <1>1, <2>4, <2>6, <2>8, GoodCommitted
<1> QED
  BY <1>6, <1>7

-----------------------------------------------------------------------------
(* The actions that move tokens in and out, and maintenance by itself.     *)

\* Tokens move between the accounts of the users and of the system.
LEMMA AccountsMoved ==
  ASSUME NEW tm, NEW x \in Int, NEW y \in Int, NEW free, NEW s, Good(s, tm, x, free),
         NEW o \in [Names -> Nat], NEW ac \in Accounts,
         ac.rex + x = s.acct.rex + y, NamebidsOK(ac, s.pool)
  PROVE  Good([s EXCEPT !.own = o, !.acct = ac], tm, y, free)
<1> DEFINE t == [s EXCEPT !.own = o, !.acct = ac]
<1>1. s \in TableSet
  BY GoodTables
<1>2. /\ t \in TableSet /\ t.rexbal = s.rexbal /\ t.pool = s.pool /\ t.fund = s.fund /\ t.loans = s.loans
      /\ t.orders = s.orders /\ t.staked = s.staked /\ t.voting = s.voting /\ t.dbw = s.dbw
      /\ t.weight = s.weight /\ t.own = o /\ t.acct = ac
  BY <1>1 DEF TableSet
<1> HIDE DEF t
<1>3. BackedOK(ac, s.pool, s.fund, s.loans, s.orders, y)
  <2> DEFINE total == s.pool.total_lendable + Sum(s.fund) + LoanSum(BalanceIn(s.loans))
                        + Sum(ProceedsIn(s.orders))
  <2>1. s.acct.rex = total + x
    BY DEF Good, BackedOK
  <2>2. total \in Int
    <3>1. /\ s.fund \in [Names -> Nat] /\ s.loans \in [LoanIds -> LoanRows]
          /\ s.orders \in [Names -> OrderRows] /\ s.pool \in PoolRows
      BY <1>1, Fields
    <3>2. Sum(s.fund) \in Nat
      BY <3>1, SumToNat, NAssumption DEF Sum, Names
    <3>3. LoanSum(BalanceIn(s.loans)) \in Nat /\ Sum(ProceedsIn(s.orders)) \in Nat
      BY <3>1, LoanSums, ProceedsSums
    <3>4. s.pool.total_lendable \in Nat
      BY <3>1 DEF PoolRows
    <3> QED
      BY <3>2, <3>3, <3>4
  <2>3. ac.rex \in Int
    BY DEF Accounts
  <2> HIDE DEF total
  <2>4. ac.rex = total + y
    BY <2>1, <2>2, <2>3
  <2> QED
    BY <2>4 DEF BackedOK, total
<1>4. Good(t, tm, y, free)
  BY <1>2, <1>3 DEF Good
<1> QED
  BY <1>4 DEF t

\* Tokens are booked to the funds of the users or taken from there.
LEMMA FundMoved ==
  ASSUME NEW tm, NEW x \in Int, NEW y \in Int, NEW free, NEW s, Good(s, tm, x, free),
         NEW f \in [Names -> Nat], Sum(f) + y = Sum(s.fund) + x
  PROVE  Good([s EXCEPT !.fund = f], tm, y, free)
<1> DEFINE t == [s EXCEPT !.fund = f]
<1>1. s \in TableSet
  BY GoodTables
<1>2. /\ t \in TableSet /\ t.rexbal = s.rexbal /\ t.pool = s.pool /\ t.fund = f /\ t.loans = s.loans
      /\ t.orders = s.orders /\ t.staked = s.staked /\ t.voting = s.voting /\ t.dbw = s.dbw
      /\ t.weight = s.weight /\ t.own = s.own /\ t.acct = s.acct
  BY <1>1 DEF TableSet
<1> HIDE DEF t
<1>3. BackedOK(s.acct, s.pool, f, s.loans, s.orders, y)
  <2> DEFINE l == s.pool.total_lendable
             lb == LoanSum(BalanceIn(s.loans))
             sp == Sum(ProceedsIn(s.orders))
             sf == Sum(s.fund)
             nf == Sum(f)
  <2>1. s.acct.rex = l + sf + lb + sp + x
    BY DEF Good, BackedOK
  <2>2. l \in Int /\ lb \in Int /\ sp \in Int /\ sf \in Int /\ nf \in Int
    <3>1. /\ s.fund \in [Names -> Nat] /\ s.loans \in [LoanIds -> LoanRows]
          /\ s.orders \in [Names -> OrderRows] /\ s.pool \in PoolRows
      BY <1>1, Fields
    <3>2. Sum(s.fund) \in Nat /\ Sum(f) \in Nat
      BY <3>1, SumToNat, NAssumption DEF Sum, Names
    <3>3. LoanSum(BalanceIn(s.loans)) \in Nat /\ Sum(ProceedsIn(s.orders)) \in Nat
      BY <3>1, LoanSums, ProceedsSums
    <3>4. s.pool.total_lendable \in Nat
      BY <3>1 DEF PoolRows
    <3> QED
      BY <3>2, <3>3, <3>4
  <2>3. nf + y = sf + x
    OBVIOUS
  <2> HIDE DEF l, lb, sp, sf, nf
  <2>4. s.acct.rex = l + nf + lb + sp + y
    BY <2>1, <2>2, <2>3
  <2> QED
    BY <2>4 DEF BackedOK, l, lb, sp, nf
<1>4. Good(t, tm, y, free)
  BY <1>2, <1>3 DEF Good
<1> QED
  BY <1>4 DEF t

\* A step that only moves tokens is quiet.
LEMMA SameQuiet ==
  ASSUME NEW s \in TableSet, NEW t \in TableSet,
         t.pool = s.pool, t.loans = s.loans, t.dbw = s.dbw, t.staked = s.staked,
         t.orders = s.orders, t.rexbal = s.rexbal
  PROVE  Quiet(s, t)
<1>1. Quiet(s, s)
  BY QuietReflexive
<1> QED
  BY <1>1 DEF Quiet, Claim

\* Liquid tokens of a user go to an account of the system, or come from there.
LEMMA OwnAccounts ==
  ASSUME NEW s \in TableSet, NEW a \in Names, NEW amount \in Int, amount <= s.own[a]
  PROVE  /\ s.own[a] \in Nat
         /\ [s.own EXCEPT ![a] = s.own[a] - amount] \in [Names -> Nat]
         /\ \A name \in {"rex", "stake", "names", "ramfee"}, d \in Int :
               LET ac == [s.acct EXCEPT ![name] = s.acct[name] + d] IN
               /\ ac \in Accounts /\ ac[name] = s.acct[name] + d
               /\ \A other \in {"rex", "stake", "names", "ramfee"} :
                     other # name => ac[other] = s.acct[other]
<1>1. s.own \in [Names -> Nat] /\ s.acct \in Accounts
  BY Fields
<1>2. s.own[a] \in Nat /\ s.own[a] - amount \in Nat
  BY <1>1
<1>3. [s.own EXCEPT ![a] = s.own[a] - amount] \in [Names -> Nat]
  BY <1>1, <1>2
<1>4. ASSUME NEW name \in {"rex", "stake", "names", "ramfee"}, NEW d \in Int
      PROVE  LET ac == [s.acct EXCEPT ![name] = s.acct[name] + d] IN
             /\ ac \in Accounts /\ ac[name] = s.acct[name] + d
             /\ \A other \in {"rex", "stake", "names", "ramfee"} :
                   other # name => ac[other] = s.acct[other]
  BY <1>1 DEF Accounts
<1> QED
  BY <1>2, <1>3, <1>4

\* deposit moves liquid tokens to the fund of the owner.
LEMMA Deposit ==
  ASSUME Inv, NEW owner \in Names, NEW amount \in Int, deposit(owner, amount)
  PROVE  Done
<1> DEFINE s == Tables
           o == [s.own EXCEPT ![owner] = s.own[owner] - amount]
           ac == [s.acct EXCEPT !["rex"] = s.acct["rex"] + amount]
           s1 == [s EXCEPT !.own = o, !.acct = ac]
           f == [s1.fund EXCEPT ![owner] = s1.fund[owner] + amount]
           t == transfer_to_fund(s1, owner, amount)
<1>1. Commit(t) /\ 0 < amount /\ amount <= s.own[owner]
  BY DEF deposit, Tables
<1>2. Good(s, now, 0, {}) /\ s \in TableSet
  BY DEF Inv, Good
<1> HIDE DEF s
<1>3. o \in [Names -> Nat] /\ ac \in Accounts /\ ac.rex = s.acct.rex + amount /\ ac.names = s.acct.names
  BY <1>1, <1>2, OwnAccounts
<1> HIDE DEF o, ac
<1>4. NamebidsOK(ac, s.pool)
  BY <1>2, <1>3 DEF Good, NamebidsOK
<1>5. Good(s1, now, amount, {})
  <2> DEFINE zero == 0
  <2>1. zero \in Int /\ zero = 0 /\ s.acct.rex \in Int /\ ac.rex \in Int
    <3>1. s.acct \in Accounts
      BY <1>2, Fields
    <3> QED
      BY <1>3, <3>1 DEF Accounts
  <2>2. ac.rex + zero = s.acct.rex + amount /\ Good(s, now, zero, {})
    BY <1>2, <1>3, <2>1
  <2> HIDE DEF zero
  <2> QED
    BY <1>3, <1>4, <2>1, <2>2, AccountsMoved
<1>6. /\ s1 \in TableSet /\ s1.pool = s.pool /\ s1.loans = s.loans /\ s1.dbw = s.dbw
      /\ s1.staked = s.staked /\ s1.orders = s.orders /\ s1.rexbal = s.rexbal
  BY <1>2, <1>3 DEF TableSet
<1> HIDE DEF s1
<1>7. t = [s1 EXCEPT !.fund = f] /\ t \in TableSet /\ Sum(s1.fund) \in Nat /\ Sum(f) = Sum(s1.fund) + amount
  BY <1>1, <1>6, PaysFund
<1> HIDE DEF t
<1>8. f \in [Names -> Nat]
  <2>1. t.fund = f
    BY <1>6, <1>7 DEF TableSet
  <2>2. t \in TableSet
    BY <1>7
  <2> HIDE DEF f
  <2>3. t.fund \in [Names -> Nat]
    BY ONLY <2>2, Fields
  <2> QED
    BY ONLY <2>1, <2>3
<1> HIDE DEF f
<1>9. Good(t, now, 0, {})
  <2> DEFINE zero == 0
  <2>1. zero \in Int /\ zero = 0 /\ Sum(f) + zero = Sum(s1.fund) + amount
    BY <1>7
  <2> HIDE DEF zero
  <2> QED
    BY <1>5, <1>7, <1>8, <2>1, FundMoved
<1>10. Steps(Tables, t)
  <2>1. /\ t.pool = s.pool /\ t.loans = s.loans /\ t.dbw = s.dbw /\ t.staked = s.staked
        /\ t.orders = s.orders /\ t.rexbal = s.rexbal
    BY <1>6, <1>7 DEF TableSet
  <2>2. Quiet(s, t)
    BY <1>2, <1>7, <2>1, SameQuiet
  <2> QED
    BY <1>2, <1>7, <2>2, QuietSteps DEF s
<1> QED
  BY <1>1, <1>9, <1>10, GoodCommitted

\* withdraw collects a filled order and moves tokens back.
LEMMA Withdraw ==
  ASSUME Inv, NEW owner \in Names, NEW amount \in Int, withdraw(owner, amount)
  PROVE  Done
<1> DEFINE s == Tables
           s1 == update_rex_account(s, owner, 0, 0, FALSE)
           f == [s1.fund EXCEPT ![owner] = s1.fund[owner] - amount]
           s2 == transfer_from_fund(s1, owner, amount)
           o == [s2.own EXCEPT ![owner] = s2.own[owner] + amount]
           ac == [s2.acct EXCEPT !["rex"] = s2.acct["rex"] - amount]
           t == [s2 EXCEPT !.own = o, !.acct = ac]
<1>1. Commit(t)
  BY DEF withdraw
<1>2. Good(s, now, 0, {}) /\ s \in TableSet
  BY DEF Inv, Good
<1>3. "ok" \in DOMAIN s
  BY <1>2 DEF TableSet
<1> HIDE DEF s
<1>4. "ok" \in DOMAIN s1
  BY <1>3, AccountFails
<1> HIDE DEF s1
<1>5. "ok" \in DOMAIN s2 /\ (s2.ok => s1.ok)
  BY <1>4 DEF transfer_from_fund, Check
<1> HIDE DEF s2, o, ac
<1>6. s1.ok /\ s2.ok
  <2>1. t.ok = s2.ok
    BY <1>5
  <2> HIDE DEF t
  <2> QED
    BY <1>1, <1>5, <2>1, Committed
<1>7. Good(s1, now, 0, {}) /\ s1 \in TableSet /\ Quiet(s, s1)
  <2>1. 0 \in Int /\ FALSE \in BOOLEAN
    OBVIOUS
  <2> QED
    BY <1>2, <1>6, <2>1, AccountAfter DEF s1
<1>8. /\ 0 < amount /\ amount <= s1.fund[owner]
      /\ s2 = [s1 EXCEPT !.fund = f]
      /\ s2 \in TableSet
      /\ Sum(s1.fund) \in Nat
      /\ Sum(f) = Sum(s1.fund) - amount
  BY <1>6, <1>7, TakesFund DEF s2
<1>9. f \in [Names -> Nat]
  <2>1. s2.fund = f
    BY <1>7, <1>8 DEF TableSet
  <2>2. s2 \in TableSet
    BY <1>8
  <2> HIDE DEF f
  <2>3. s2.fund \in [Names -> Nat]
    BY ONLY <2>2, Fields
  <2> QED
    BY ONLY <2>1, <2>3
<1> HIDE DEF f
<1>10. Good(s2, now, amount, {})
  <2> DEFINE zero == 0
  <2>1. zero \in Int /\ zero = 0
    OBVIOUS
  <2>2. Sum(f) + amount = Sum(s1.fund) + zero /\ Good(s1, now, zero, {})
    BY <1>7, <1>8, <2>1
  <2> HIDE DEF zero
  <2> QED
    BY <1>8, <1>9, <2>1, <2>2, FundMoved
<1>11. s2.own \in [Names -> Nat] /\ s2.acct \in Accounts
  BY <1>8, Fields
<1>12. o \in [Names -> Nat] /\ ac \in Accounts /\ ac.rex = s2.acct.rex - amount /\ ac.names = s2.acct.names
  <2>1. s2.own[owner] \in Nat /\ amount \in Nat
    BY <1>8, <1>11
  <2> QED
    BY <1>11, <2>1 DEF o, ac, Accounts
<1>13. Good(t, now, 0, {})
  <2> DEFINE zero == 0
  <2>1. zero \in Int /\ zero = 0
    OBVIOUS
  <2>2. s2.acct.rex \in Int
    BY <1>11 DEF Accounts
  <2>3. ac.rex + amount = s2.acct.rex + zero
    BY <1>12, <2>1, <2>2
  <2>4. NamebidsOK(ac, s2.pool)
    BY <1>10, <1>12 DEF Good, NamebidsOK
  <2> HIDE DEF zero
  <2>5. Good(t, now, zero, {})
    BY <1>10, <1>12, <2>1, <2>3, <2>4, AccountsMoved
  <2> QED
    BY <2>1, <2>5
<1>14. Steps(Tables, t)
  <2>1. t \in TableSet
    BY <1>13, GoodTables
  <2>2. /\ t.pool = s1.pool /\ t.loans = s1.loans /\ t.dbw = s1.dbw /\ t.staked = s1.staked
        /\ t.orders = s1.orders /\ t.rexbal = s1.rexbal
    BY <1>7, <1>8, <1>12 DEF TableSet
  <2> HIDE DEF t
  <2>3. Quiet(s1, t)
    BY <1>7, <2>1, <2>2, SameQuiet
  <2>4. Quiet(s, t)
    BY <1>2, <1>7, <2>1, <2>3, QuietTransitive
  <2> QED
    BY <1>2, <2>1, <2>4, QuietSteps DEF s
<1> QED
  BY <1>1, <1>13, <1>14, GoodCommitted

\* rexexec is the maintenance by itself.
LEMMA RexExec ==
  ASSUME Inv, NEW max \in Nat, rexexec(max)
  PROVE  Done
<1> DEFINE t == runrex(Tables, max)
<1>1. Commit(t)
  BY DEF rexexec
<1>2. /\ Tables \in TableSet
      /\ t.ok => Good(t, now, 0, {}) /\ t \in TableSet /\ RunStep(Tables, t)
  BY RunFirst
<1> HIDE DEF t
<1>3. Good(t, now, 0, {}) /\ t \in TableSet /\ RunStep(Tables, t)
  BY <1>1, <1>2, Committed
<1>4. Steps(Tables, t)
  BY <1>2, <1>3, QuietReflexive, RunThenQuiet
<1> QED
  BY <1>1, <1>3, <1>4, GoodCommitted

\* cnclrexorder erases an open order.
LEMMA CancelOrder ==
  ASSUME Inv, NEW owner \in Names, cnclrexorder(owner)
  PROVE  Done
<1> DEFINE s == Tables
           t == [s EXCEPT !.orders[owner] = NoOrder]
           u == [s EXCEPT !.fund = s.fund, !.orders = [s.orders EXCEPT ![owner] = NoOrder], !.staked = s.staked]
<1>1. Commit(t) /\ s.orders[owner].state = "open"
  BY DEF cnclrexorder, Tables
<1>2. Good(s, now, 0, {}) /\ s \in TableSet
  BY DEF Inv, Good
<1> HIDE DEF s
<1>3. s.orders[owner].proceeds = 0 /\ s.orders[owner].stake_change = 0
  <2>1. OrderOK(s.orders[owner])
    BY <1>2, GoodRow
  <2> QED
    BY <1>1, <2>1 DEF OrderOK
<1>4. s.fund \in [Names -> Nat] /\ s.staked \in [Names -> Int] /\ s.orders \in [Names -> OrderRows]
  BY <1>2, Fields
<1>5. t = u
  BY <1>2 DEF TableSet
<1>6. Good(u, now, 0, {})
  <2> DEFINE zero == 0
  <2>1. zero \in Int /\ zero = 0
    OBVIOUS
  <2>2. OrderOK(NoOrder) /\ NoOrder \in OrderRows /\ NoOrder.proceeds = 0 /\ NoOrder.state # "open"
    BY NoOrderFacts DEF OrderOK
  <2>3. Sum(s.fund) + NoOrder.proceeds + zero = Sum(s.fund) + s.orders[owner].proceeds + zero
    BY <1>3, <2>2
  <2>4. Good(s, now, zero, {})
    BY <1>2, <2>1
  <2> HIDE DEF zero
  <2>5. Good(u, now, zero, {})
    BY <1>4, <2>1, <2>2, <2>3, <2>4, OrderChanged
  <2> QED
    BY <2>1, <2>5
<1>7. t \in TableSet
  BY <1>5, <1>6, GoodTables
<1>8. /\ t.pool = s.pool /\ t.loans = s.loans /\ t.dbw = s.dbw /\ t.staked = s.staked /\ t.rexbal = s.rexbal
      /\ t.orders[owner] = NoOrder /\ \A b \in Names : b # owner => t.orders[b] = s.orders[b]
  BY <1>2, <1>4 DEF TableSet
<1> HIDE DEF t, u
<1>9. \A b \in Names : t.orders[b].stake_change = s.orders[b].stake_change
  BY <1>3, <1>8, NoOrderFacts
<1>10. Quiet(s, t)
  <2>1. Quiet(s, s)
    BY <1>2, QuietReflexive
  <2> QED
    BY <1>8, <1>9, <2>1 DEF Quiet, Claim
<1>11. Steps(Tables, t)
  BY <1>2, <1>7, <1>10, QuietSteps DEF s
<1> QED
  BY <1>1, <1>5, <1>6, <1>11, GoodCommitted

-----------------------------------------------------------------------------
(* What the other parts of the contract do.                                *)

\* The rent connector and the proceeds that wait may change.
LEMMA PoolChanged ==
  ASSUME NEW tm, NEW x, NEW free, NEW s, Good(s, tm, x, free), NEW q \in PoolRows,
         q.initialized = s.pool.initialized, q.total_rex = s.pool.total_rex,
         q.total_lent = s.pool.total_lent, q.total_unlent = s.pool.total_unlent,
         q.total_lendable = s.pool.total_lendable, q.loan_num = s.pool.loan_num,
         q.namebid_proceeds > 0 => q.total_rex > 0, NamebidsOK(s.acct, q)
  PROVE  LET t == [s EXCEPT !.pool = q] IN
         Good(t, tm, x, free) /\ t \in TableSet /\ Quiet(s, t)
<1> DEFINE t == [s EXCEPT !.pool = q]
<1>1. s \in TableSet
  BY GoodTables
<1>2. /\ t \in TableSet /\ t.rexbal = s.rexbal /\ t.pool = q /\ t.fund = s.fund /\ t.loans = s.loans
      /\ t.orders = s.orders /\ t.staked = s.staked /\ t.voting = s.voting /\ t.dbw = s.dbw
      /\ t.weight = s.weight /\ t.own = s.own /\ t.acct = s.acct
  BY <1>1 DEF TableSet
<1> HIDE DEF t
<1>3. PoolOK(q) /\ LoansOK(q, s.loans) /\ SharesOK(q, s.rexbal)
      /\ BackedOK(s.acct, q, s.fund, s.loans, s.orders, x)
  BY DEF Good, PoolOK, LoansOK, SharesOK, BackedOK
<1>4. Good(t, tm, x, free)
  BY <1>2, <1>3 DEF Good
<1>5. Quiet(s, t)
  <2>1. Quiet(s, s)
    BY <1>1, QuietReflexive
  <2> QED
    BY <1>2, <2>1 DEF Quiet, Claim, NotCheaper
<1> QED
  BY <1>2, <1>4, <1>5 DEF t

\* setrex changes the rent connector only.
LEMMA SetRex ==
  ASSUME Inv, NEW balance \in Int, setrex(balance)
  PROVE  Done
<1> DEFINE s == Tables
           q == [s.pool EXCEPT !.total_rent = balance]
           t == [s EXCEPT !.pool = q]
<1>1. Commit(t) /\ 0 < balance
  BY DEF setrex
<1>2. Good(s, now, 0, {}) /\ s \in TableSet
  BY DEF Inv, Good
<1> HIDE DEF s
<1>3. s.pool \in PoolRows /\ PoolOK(s.pool) /\ NamebidsOK(s.acct, s.pool)
  BY <1>2, Fields DEF Good
<1>4. /\ q \in PoolRows
      /\ q.initialized = s.pool.initialized /\ q.total_rex = s.pool.total_rex
      /\ q.total_lent = s.pool.total_lent /\ q.total_unlent = s.pool.total_unlent
      /\ q.total_lendable = s.pool.total_lendable /\ q.loan_num = s.pool.loan_num
      /\ q.namebid_proceeds = s.pool.namebid_proceeds
  BY <1>1, <1>3 DEF PoolRows
<1> HIDE DEF q
<1>5. (q.namebid_proceeds > 0 => q.total_rex > 0) /\ NamebidsOK(s.acct, q)
  BY <1>3, <1>4 DEF PoolOK, NamebidsOK
<1>6. Good(t, now, 0, {}) /\ t \in TableSet /\ Quiet(s, t)
  BY <1>2, <1>4, <1>5, PoolChanged
<1> HIDE DEF t
<1>7. Steps(Tables, t)
  BY <1>2, <1>6, QuietSteps DEF s
<1> QED
  BY <1>1, <1>6, <1>7, GoodCommitted

\* A user pays one of the accounts of the system that are not eosio.rex.
LEMMA PaidToSystem ==
  ASSUME NEW s, Good(s, now, 0, {}), NEW payer \in Names, NEW name \in {"names", "ramfee"},
         NEW amount \in Int, 0 < amount, amount <= s.own[payer],
         NEW s1, s1 = PaidTo(s, payer, name, amount)
  PROVE  /\ Good(s1, now, 0, {}) /\ s1 \in TableSet /\ Quiet(s, s1) /\ s1.pool = s.pool
         /\ s1.acct \in Accounts /\ s1.acct[name] = s.acct[name] + amount
<1> DEFINE o == [s.own EXCEPT ![payer] = s.own[payer] - amount]
           ac == [s.acct EXCEPT ![name] = s.acct[name] + amount]
           zero == 0
<1>1. s \in TableSet
  BY GoodTables
<1>2. name \in {"rex", "stake", "names", "ramfee"} /\ "rex" # name
  OBVIOUS
<1>3. o \in [Names -> Nat] /\ ac \in Accounts /\ ac.rex = s.acct.rex /\ ac[name] = s.acct[name] + amount
      /\ ("names" # name => ac.names = s.acct.names)
  BY <1>1, <1>2, OwnAccounts
<1>4. s1 = [s EXCEPT !.own = o, !.acct = ac]
  BY DEF PaidTo
<1> HIDE DEF o, ac
<1>5. s.acct \in Accounts
  BY <1>1, Fields
<1>6. NamebidsOK(ac, s.pool)
  <2>1. s.acct.names \in Int /\ ac.names >= s.acct.names /\ ac.names \in Int
    BY <1>3, <1>5 DEF Accounts
  <2>2. s.pool.namebid_proceeds \in Nat /\ s.pool.namebid_proceeds <= s.acct.names
    <3>1. s.pool \in PoolRows
      BY <1>1, Fields
    <3> QED
      BY <3>1 DEF PoolRows, Good, NamebidsOK
  <2> QED
    BY <2>1, <2>2 DEF NamebidsOK
<1>7. Good(s1, now, 0, {})
  <2>1. zero \in Int /\ ac.rex + zero = s.acct.rex + zero /\ Good(s, now, zero, {})
    BY <1>3
  <2> HIDE DEF zero
  <2>2. Good([s EXCEPT !.own = o, !.acct = ac], now, zero, {})
    BY <1>3, <1>6, <2>1, AccountsMoved
  <2> QED
    BY <1>4, <2>2 DEF zero
<1>8. s1 \in TableSet
  BY <1>7, GoodTables
<1>9. /\ s1.pool = s.pool /\ s1.loans = s.loans /\ s1.dbw = s.dbw /\ s1.staked = s.staked
      /\ s1.orders = s.orders /\ s1.rexbal = s.rexbal /\ s1.acct = ac
  BY <1>1, <1>4 DEF TableSet
<1>10. Quiet(s, s1)
  BY <1>1, <1>8, <1>9, SameQuiet
<1> QED
  BY <1>3, <1>7, <1>8, <1>9, <1>10

\* A RAM fee goes to the lenders if there are any.
LEMMA RamFee ==
  ASSUME Inv, NEW payer \in Names, NEW fee \in Int, ramfee(payer, fee)
  PROVE  Done
<1> DEFINE s == Tables
           s1 == [s EXCEPT !.own = [s.own EXCEPT ![payer] = s.own[payer] - fee],
                           !.acct = [s.acct EXCEPT !["ramfee"] = s.acct["ramfee"] + fee]]
           t == channel_to_rex(s1, "ramfee", fee)
<1>1. Commit(t) /\ 0 < fee /\ fee <= s.own[payer]
  BY DEF ramfee, Tables
<1>2. Good(s, now, 0, {}) /\ s \in TableSet
  BY DEF Inv, Good
<1> HIDE DEF s
<1>3. Good(s1, now, 0, {}) /\ s1 \in TableSet /\ Quiet(s, s1)
  <2>1. s1 = PaidTo(s, payer, "ramfee", fee) /\ "ramfee" \in {"names", "ramfee"}
    BY DEF PaidTo
  <2> HIDE DEF s1
  <2> QED
    BY <1>1, <1>2, <2>1, PaidToSystem
<1> HIDE DEF s1
<1>4. Good(t, now, 0, {}) /\ t \in TableSet /\ Quiet(s1, t)
  <2>1. CASE rex_available(s1)
    <3> DEFINE left == s1.pool.namebid_proceeds
               v == Channeled(s1, "ramfee", fee, left)
    <3>1. s1.pool \in PoolRows /\ s1.acct \in Accounts
      BY <1>3, Fields
    <3>2. left \in Nat /\ left <= left /\ fee \in Nat
      BY <1>1, <3>1 DEF PoolRows
    <3>3. t = v
      <4> DEFINE p == s1.pool
                 q == [p EXCEPT !.total_unlent = p.total_unlent + fee,
                                !.total_lendable = p.total_lendable + fee]
                 ac == [s1.acct EXCEPT !["ramfee"] = s1.acct["ramfee"] - fee, !["rex"] = s1.acct["rex"] + fee]
      <4>1. t = [s1 EXCEPT !.pool = q, !.acct = ac]
        BY <2>1, <3>1 DEF channel_to_rex, PoolRows, Accounts
      <4>2. [q EXCEPT !.namebid_proceeds = left] = q
        BY <3>1 DEF PoolRows
      <4>3. v = [t EXCEPT !.pool = [t.pool EXCEPT !.namebid_proceeds = left]]
        BY DEF Channeled
      <4> HIDE DEF q, ac, left, t, v
      <4>4. t.pool = q /\ t = [t EXCEPT !.pool = q]
        BY <1>3, <4>1 DEF TableSet
      <4> QED
        BY <4>2, <4>3, <4>4
    <3>4. left <= s1.pool.namebid_proceeds /\ 0 \in Int /\ "ramfee" \in {"names", "ramfee"}
          /\ "ramfee" # "names"
      BY <3>2
    <3> HIDE DEF left, v, t
    <3>5. Good(v, now, 0, {})
      BY <1>3, <2>1, <3>2, <3>4, FeesChanneled DEF v
    <3>6. LoanStep(s1, v)
      BY <1>3, <2>1, <3>2, <3>4, FeesChanneled DEF v
    <3>7. v.loans = s1.loans
      BY <1>3, <2>1 DEF v, Channeled, channel_to_rex, TableSet
    <3>8. v \in TableSet
      BY <3>5, GoodTables
    <3>9. Quiet(s1, v)
      <4>1. Quiet(s1, s1)
        BY <1>3, QuietReflexive
      <4>2. v.pool \in PoolRows
        BY <3>8, Fields
      <4>3. NotCheaper(s1.pool, v.pool)
        BY <3>1, <3>6, <4>2, NotCheaperSame DEF LoanStep
      <4> QED
        BY <3>6, <3>7, <4>1, <4>3 DEF LoanStep, Quiet, Claim
    <3> QED
      BY <3>3, <3>5, <3>8, <3>9
  <2>2. CASE ~ rex_available(s1)
    <3>1. t = s1
      BY <2>2 DEF channel_to_rex
    <3> QED
      BY <1>3, <3>1, QuietReflexive
  <2> QED
    BY <2>1, <2>2
<1> HIDE DEF t
<1>5. Quiet(s, t)
  BY <1>2, <1>3, <1>4, QuietTransitive
<1>6. Steps(Tables, t)
  BY <1>2, <1>4, <1>5, QuietSteps DEF s
<1> QED
  BY <1>1, <1>4, <1>6, GoodCommitted

\* A winning bid waits for the next maintenance if there are lenders.
LEMMA Namebid ==
  ASSUME Inv, NEW bidder \in Names, NEW bid \in Int, namebid(bidder, bid)
  PROVE  Done
<1> DEFINE s == Tables
           s1 == [s EXCEPT !.own = [s.own EXCEPT ![bidder] = s.own[bidder] - bid],
                           !.acct = [s.acct EXCEPT !["names"] = s.acct["names"] + bid]]
           t == channel_namebid_to_rex(s1, bid)
<1>1. Commit(t) /\ 0 < bid /\ bid <= s.own[bidder]
  BY DEF namebid, Tables
<1>2. Good(s, now, 0, {}) /\ s \in TableSet
  BY DEF Inv, Good
<1> HIDE DEF s
<1>3. /\ Good(s1, now, 0, {}) /\ s1 \in TableSet /\ Quiet(s, s1) /\ s1.pool = s.pool
      /\ s1.acct \in Accounts /\ s1.acct.names = s.acct.names + bid
  <2>1. s1 = PaidTo(s, bidder, "names", bid) /\ "names" \in {"names", "ramfee"}
    BY DEF PaidTo
  <2> HIDE DEF s1
  <2> QED
    BY <1>1, <1>2, <2>1, PaidToSystem
<1> HIDE DEF s1
<1>4. Good(t, now, 0, {}) /\ t \in TableSet /\ Quiet(s1, t)
  <2>1. CASE rex_available(s1)
    <3> DEFINE p == s1.pool
               q == [p EXCEPT !.namebid_proceeds = p.namebid_proceeds + bid]
               v == [s1 EXCEPT !.pool = q]
    <3>1. p \in PoolRows /\ s.acct \in Accounts
      BY <1>2, <1>3, Fields
    <3>2. t = v
      BY <2>1 DEF channel_namebid_to_rex
    <3>3. p.namebid_proceeds \in Nat /\ s.acct.names \in Int /\ p.namebid_proceeds <= s.acct.names
      BY <1>2, <1>3, <3>1 DEF PoolRows, Accounts, Good, NamebidsOK
    <3>4. p.namebid_proceeds + bid \in Nat /\ p.namebid_proceeds + bid <= s1.acct.names
      BY <1>1, <1>3, <3>3
    <3>5. /\ q \in PoolRows
          /\ q.initialized = p.initialized /\ q.total_rex = p.total_rex
          /\ q.total_lent = p.total_lent /\ q.total_unlent = p.total_unlent
          /\ q.total_lendable = p.total_lendable /\ q.loan_num = p.loan_num
          /\ q.namebid_proceeds = p.namebid_proceeds + bid
      BY <3>1, <3>4 DEF PoolRows
    <3> HIDE DEF q, t
    <3>6. q.total_rex > 0 /\ NamebidsOK(s1.acct, q)
      BY <2>1, <3>4, <3>5 DEF rex_available, NamebidsOK
    <3>7. Good(v, now, 0, {}) /\ v \in TableSet /\ Quiet(s1, v)
      BY <1>3, <3>5, <3>6, PoolChanged
    <3> QED
      BY <3>2, <3>7
  <2>2. CASE ~ rex_available(s1)
    <3>1. t = s1
      BY <2>2 DEF channel_namebid_to_rex
    <3> QED
      BY <1>3, <3>1, QuietReflexive
  <2> QED
    BY <2>1, <2>2
<1> HIDE DEF t
<1>5. Quiet(s, t)
  BY <1>2, <1>3, <1>4, QuietTransitive
<1>6. Steps(Tables, t)
  BY <1>2, <1>4, <1>5, QuietSteps DEF s
<1> QED
  BY <1>1, <1>4, <1>6, GoodCommitted

-----------------------------------------------------------------------------
(* Loans.                                                                  *)

\* The balance of a loan changes, and the funds of the users by as much.
LEMMA LoanFunded ==
  ASSUME NEW s, Good(s, now, 0, {}), NEW k \in LoanIds, s.loans[k].kind \in Kinds,
         NEW d \in Int, s.loans[k].balance + d >= 0,
         NEW f \in [Names -> Nat], Sum(f) + d = Sum(s.fund)
  PROVE  LET v == [s.loans[k] EXCEPT !.balance = s.loans[k].balance + d]
             t == [s EXCEPT !.fund = f, !.loans = [s.loans EXCEPT ![k] = v]]
         IN  Good(t, now, 0, {}) /\ Steps(s, t)
<1> DEFINE loan == s.loans[k]
           v == [loan EXCEPT !.balance = loan.balance + d]
           new == [s.loans EXCEPT ![k] = v]
           t == [s EXCEPT !.fund = f, !.loans = new]
           u == [s EXCEPT !.pool = s.pool, !.fund = f, !.loans = new, !.weight = s.weight]
<1>1. s \in TableSet
  BY GoodTables
<1>2. /\ s.loans \in [LoanIds -> LoanRows] /\ s.pool \in PoolRows /\ s.fund \in [Names -> Nat]
      /\ s.weight \in [Names -> [Kinds -> Nat]]
  BY <1>1, Fields
<1>3. loan \in LoanRows /\ loan.from \in Names /\ loan.receiver \in Names /\ k <= s.pool.loan_num
  BY OpenLoan
<1>4. /\ v \in LoanRows /\ v.kind = loan.kind /\ v.from = loan.from /\ v.receiver = loan.receiver
      /\ v.total_staked = loan.total_staked /\ v.balance = loan.balance + d
      /\ v = [loan EXCEPT !.balance = v.balance]
  BY <1>3 DEF LoanRows
<1>5. new \in [LoanIds -> LoanRows] /\ new[k] = v /\ \A j \in LoanIds : j # k => new[j] = s.loans[j]
  BY <1>2, <1>4
<1> HIDE DEF v
<1>6. WeightOK(s.weight, s.dbw, new)
  <2>1. \A kind, b : RentedIn(new, kind, b) = RentedIn(s.loans, kind, b)
    BY <1>4, <1>5 DEF RentedIn
  <2>2. WeightOK(s.weight, s.dbw, s.loans)
    BY DEF Good
  <2> QED
    BY <2>1, <2>2 DEF WeightOK
<1>7. t = u
  <2> HIDE DEF new
  <2> QED
    BY <1>1 DEF TableSet
<1>8. Good(u, now, 0, {})
  <2>1. PoolOK(s.pool) /\ s.pool.loan_num >= s.pool.loan_num
    BY <1>2 DEF Good, PoolRows
  <2>2. "none" \notin Kinds
    BY DEF Kinds
  <2>3. s.pool.total_lent = s.pool.total_lent + (v.total_staked - loan.total_staked)
    BY <1>2, <1>3, <1>4 DEF PoolRows, LoanRows
  <2>4. s.pool.total_lendable + Sum(f) + v.balance = s.pool.total_lendable + Sum(s.fund) + loan.balance
    <3> DEFINE l == s.pool.total_lendable
               x == Sum(f)
               y == Sum(s.fund)
               b == loan.balance
    <3>1. l \in Int /\ x \in Int /\ y \in Int /\ b \in Int
      <4>1. Sum(s.fund) \in Nat /\ Sum(f) \in Nat
        BY <1>2, SumToNat, NAssumption DEF Sum, Names
      <4> QED
        BY <1>2, <1>3, <4>1 DEF PoolRows, LoanRows
    <3>2. v.balance = b + d /\ x + d = y
      BY <1>4
    <3> HIDE DEF l, x, y, b
    <3>3. l + x + v.balance = l + y + b
      BY <3>1, <3>2
    <3> QED
      BY <3>3 DEF l, x, y, b
  <2>5. v.kind # "none" /\ k <= s.pool.loan_num /\ v.from \in Names /\ v.receiver \in Names
    BY <1>3, <1>4, <2>2
  <2> DEFINE zero == 0
  <2>6. Good(s, now, zero, {})
    OBVIOUS
  <2> HIDE DEF zero, u
  <2>7. Good(u, now, zero, {})
    BY <1>2, <1>4, <1>6, <2>1, <2>3, <2>4, <2>5, <2>6, LoanChanged DEF u
  <2> QED
    BY <2>7 DEF zero
<1>9. /\ t.pool = s.pool /\ t.loans = new /\ t.orders = s.orders /\ t.staked = s.staked
      /\ t.rexbal = s.rexbal
  <2> HIDE DEF new
  <2> QED
    BY <1>1 DEF TableSet
<1>10. Steps(s, t)
  <2>1. PriceKept(s, t)
    <3>1. s.pool.total_rex \in Nat /\ s.pool.total_lendable \in Nat
      BY <1>2 DEF PoolRows
    <3> QED
      BY <1>9, <3>1 DEF PriceKept, NotCheaper
  <2>2. NothingLent(s, t)
    <3>1. \A j \in LoanIds : t.loans[j] \in {s.loans[j], [s.loans[j] EXCEPT !.balance = t.loans[j].balance]}
      BY <1>4, <1>5, <1>9
    <3> QED
      BY <1>9, <3>1 DEF NothingLent
  <2>3. ClaimsKept(s, t)
    BY <1>9 DEF ClaimsKept, Claim
  <2> QED
    BY <2>1, <2>2, <2>3 DEF Steps
<1> QED
  BY <1>7, <1>8, <1>10 DEF t, new, v

\* fundcpuloan and fundnetloan move tokens from the fund to the loan.
LEMMA FundLoan ==
  ASSUME Inv, NEW kind \in Kinds, NEW from \in Names, NEW k \in LoanIds, NEW payment \in Int,
         fund_rex_loan(kind, from, k, payment)
  PROVE  Done
<1> DEFINE s == Tables
           f == [s.fund EXCEPT ![from] = s.fund[from] - payment]
           s1 == transfer_from_fund(s, from, payment)
           v == [s.loans[k] EXCEPT !.balance = s.loans[k].balance + payment]
           t == [s1 EXCEPT !.loans[k].balance = s1.loans[k].balance + payment]
           u == [s EXCEPT !.fund = f, !.loans = [s.loans EXCEPT ![k] = v]]
<1>1. Commit(t) /\ s.loans[k].kind \in Kinds
  BY DEF fund_rex_loan, OwnLoan, Tables
<1>2. Good(s, now, 0, {}) /\ s \in TableSet
  BY DEF Inv, Good
<1> HIDE DEF s
<1>3. "ok" \in DOMAIN s1
  BY <1>2 DEF transfer_from_fund, Check, TableSet
<1> HIDE DEF s1
<1>4. s1.ok
  <2>1. t.ok = s1.ok
    BY <1>3
  <2> HIDE DEF t
  <2> QED
    BY <1>1, <2>1, Committed
<1>5. /\ 0 < payment /\ payment <= s.fund[from]
      /\ s1 = [s EXCEPT !.fund = f]
      /\ s1 \in TableSet
      /\ Sum(s.fund) \in Nat
      /\ Sum(f) = Sum(s.fund) - payment
  BY <1>2, <1>4, TakesFund DEF s1
<1>6. f \in [Names -> Nat]
  <2>1. s1.fund = f
    BY <1>2, <1>5 DEF TableSet
  <2> HIDE DEF f
  <2>2. s1 \in TableSet
    BY <1>5
  <2>3. s1.fund \in [Names -> Nat]
    BY <2>2, Fields
  <2> QED
    BY <2>1, <2>3
<1> HIDE DEF f
<1>7. t = u
  <2>1. s1.loans = s.loans
    BY <1>2, <1>5 DEF TableSet
  <2>2. t = [s1 EXCEPT !.loans = [s.loans EXCEPT ![k] = v]]
    BY <2>1
  <2> HIDE DEF t, v
  <2> QED
    BY <1>2, <1>5, <2>2 DEF TableSet
<1>8. s.loans[k].balance + payment >= 0 /\ Sum(f) + payment = Sum(s.fund)
  <2>1. s.loans[k].balance \in Nat
    BY <1>1, <1>2, OpenLoan
  <2>2. payment \in Nat
    BY <1>5
  <2> QED
    BY <1>5, <2>1, <2>2
<1>9. Good(u, now, 0, {}) /\ Steps(s, u)
  BY <1>1, <1>2, <1>6, <1>8, LoanFunded
<1> QED
  BY <1>1, <1>7, <1>9, GoodCommitted DEF s

\* defcpuloan and defnetloan move them back.
LEMMA DefundLoan ==
  ASSUME Inv, NEW kind \in Kinds, NEW from \in Names, NEW k \in LoanIds, NEW amount \in Int,
         defund_rex_loan(kind, from, k, amount)
  PROVE  Done
<1> DEFINE s == Tables
           loan == s.loans[k]
           minus == - amount
           v == [loan EXCEPT !.balance = loan.balance + minus]
           new == [s.loans EXCEPT ![k] = v]
           s1 == [s EXCEPT !.loans[k].balance = loan.balance - amount]
           f == [s1.fund EXCEPT ![from] = s1.fund[from] + amount]
           t == transfer_to_fund(s1, from, amount)
           u == [s EXCEPT !.fund = f, !.loans = new]
<1>1. Commit(t) /\ loan.kind \in Kinds /\ loan.balance >= amount
  BY DEF defund_rex_loan, OwnLoan, Tables
<1>2. Good(s, now, 0, {}) /\ s \in TableSet
  BY DEF Inv, Good
<1> HIDE DEF s
<1>3. loan \in LoanRows /\ loan.balance \in Nat /\ s.loans \in [LoanIds -> LoanRows]
  BY <1>1, <1>2, OpenLoan, Fields
<1>4. "ok" \in DOMAIN s1
  BY <1>2 DEF TableSet
<1>5. s1 = [s EXCEPT !.loans = new]
  <2>1. loan.balance - amount = loan.balance + minus
    BY <1>3
  <2> QED
    BY <2>1
<1> HIDE DEF s1
<1>6. 0 < amount
  <2>1. t.ok => 0 < amount
    BY <1>4 DEF transfer_to_fund, Check
  <2> HIDE DEF t
  <2> QED
    BY <1>1, <2>1, Committed
<1>7. minus \in Int /\ loan.balance + minus >= 0 /\ loan.balance + minus \in Nat
  BY <1>1, <1>3
<1>8. v \in LoanRows
  BY <1>3, <1>7 DEF LoanRows
<1>9. new \in [LoanIds -> LoanRows]
  BY <1>3, <1>8
<1> HIDE DEF v
<1>10. s1 \in TableSet /\ s1.fund = s.fund
  <2> HIDE DEF new
  <2> QED
    BY <1>2, <1>5, <1>9 DEF TableSet
<1>11. /\ t = [s1 EXCEPT !.fund = f]
       /\ t \in TableSet
       /\ Sum(s1.fund) \in Nat
       /\ Sum(f) = Sum(s1.fund) + amount
  BY <1>6, <1>10, PaysFund
<1> HIDE DEF t
<1>12. f \in [Names -> Nat]
  <2>1. t.fund = f
    BY <1>10, <1>11 DEF TableSet
  <2> HIDE DEF f
  <2>2. t \in TableSet
    BY <1>11
  <2>3. t.fund \in [Names -> Nat]
    BY <2>2, Fields
  <2> QED
    BY <2>1, <2>3
<1> HIDE DEF f
<1>13. t = u
  <2> HIDE DEF new
  <2> QED
    BY <1>2, <1>5, <1>11 DEF TableSet
<1>14. Sum(f) + minus = Sum(s.fund)
  BY <1>10, <1>11
<1>15. Good(u, now, 0, {}) /\ Steps(s, u)
  <2> HIDE DEF minus
  <2> QED
    BY <1>1, <1>2, <1>7, <1>12, <1>14, LoanFunded DEF v
<1> QED
  BY <1>1, <1>13, <1>15, GoodCommitted DEF s

\* The pool after a new loan.
LEMMA PoolMakesLoan ==
  ASSUME NEW p \in PoolRows, NEW payment \in Nat
  PROVE  LET q == LentPool(p, payment)
             rented == Rentable(p, payment)
         IN  /\ rented \in Nat /\ rented <= p.total_unlent
             /\ q \in PoolRows
             /\ q.initialized = p.initialized /\ q.total_rex = p.total_rex
             /\ q.namebid_proceeds = p.namebid_proceeds
             /\ q.total_lent = p.total_lent + rented
             /\ q.total_unlent = p.total_unlent - rented + payment
             /\ q.total_lendable = p.total_unlent + p.total_lent + payment
             /\ q.loan_num = p.loan_num + 1
<1> DEFINE rented == Rentable(p, payment)
           q == PoolWithLoan(p, payment, rented, TRUE)
<1>1. p.total_rent \in Nat /\ p.total_unlent \in Nat
  BY DEF PoolRows
<1>2. rented \in 0 .. p.total_unlent
  BY <1>1, Bancor DEF Rentable
<1>3. rented \in Nat /\ rented <= p.total_unlent
  BY <1>1, <1>2
<1> HIDE DEF rented
<1>4. TRUE \in BOOLEAN
  OBVIOUS
<1>5. /\ q \in PoolRows
      /\ q.initialized = p.initialized /\ q.total_rex = p.total_rex
      /\ q.namebid_proceeds = p.namebid_proceeds
      /\ q.total_lent = p.total_lent + rented
      /\ q.total_unlent = p.total_unlent - rented + payment
      /\ q.total_lendable = p.total_unlent + p.total_lent + payment
      /\ q.loan_num = IF TRUE THEN p.loan_num + 1 ELSE p.loan_num
  BY ONLY <1>3, <1>4, p \in PoolRows, payment \in Nat, PoolLends, Zenon
<1> HIDE DEF q
<1>6. q = LentPool(p, payment)
  BY DEF q, LentPool, rented
<1> QED
  BY <1>3, <1>5, <1>6 DEF rented

\* The pool lends what a payment rents, to a new loan.
LEMMA LoanMade ==
  ASSUME NEW s, Good(s, now, 0, {}), rex_loans_available(s), s.pool.loan_num < MaxLoans,
         NEW kind \in Kinds, NEW from \in Names, NEW b \in Names,
         NEW payment \in Nat, NEW loan_fund \in Nat, NEW expiration \in Nat,
         NEW f \in [Names -> Nat], Sum(f) + payment + loan_fund = Sum(s.fund),
         NEW w \in [Names -> [Kinds -> Nat]],
         WeightMoves(s.weight, w, b, kind, Rentable(s.pool, payment))
  PROVE  LET v == LoanOf(kind, from, b, payment, loan_fund, Rentable(s.pool, payment), expiration)
             q == LentPool(s.pool, payment)
             t == [s EXCEPT !.pool = q, !.fund = f, !.loans = [s.loans EXCEPT ![s.pool.loan_num + 1] = v],
                            !.weight = w]
         IN  Good(t, now, 0, {}) /\ NotCheaper(s.pool, q)
<1> DEFINE p == s.pool
           rented == Rentable(p, payment)
           q == LentPool(p, payment)
           k == p.loan_num + 1
           v == LoanOf(kind, from, b, payment, loan_fund, rented, expiration)
           new == [s.loans EXCEPT ![k] = v]
           old == s.loans[k]
           t == [s EXCEPT !.pool = q, !.fund = f, !.loans = new, !.weight = w]
<1>1. s \in TableSet /\ PoolOK(p) /\ LoansOK(p, s.loans) /\ WeightOK(s.weight, s.dbw, s.loans)
  BY DEF Good
<1>2. /\ p \in PoolRows /\ s.loans \in [LoanIds -> LoanRows] /\ s.fund \in [Names -> Nat]
      /\ s.weight \in [Names -> [Kinds -> Nat]] /\ s.dbw \in Delegations
  BY <1>1, Fields
<1>3. /\ p.total_unlent \in Nat /\ p.total_lent \in Nat /\ p.loan_num \in Nat /\ p.total_rent \in Nat
      /\ p.total_lendable \in Nat /\ p.total_rex \in Nat
      /\ p.total_lendable = p.total_unlent + p.total_lent
      /\ p.initialized /\ p.total_rex > 0 /\ p.total_lendable > 0
  BY <1>1, <1>2 DEF PoolRows, PoolOK, rex_loans_available, rex_available
<1>4. k \in LoanIds
  BY <1>3, MaxLoansAssumption DEF LoanIds
<1>5. old \in LoanRows /\ old.kind = "none" /\ old.total_staked = 0 /\ old.balance = 0
  <2>1. ~ (k <= p.loan_num)
    BY <1>3
  <2> QED
    BY <1>1, <1>2, <1>4, <2>1 DEF LoansOK
<1>6. rented \in Nat /\ rented <= p.total_unlent
  BY <1>2, PoolMakesLoan
<1>7. /\ q \in PoolRows
      /\ q.initialized = p.initialized /\ q.total_rex = p.total_rex
      /\ q.namebid_proceeds = p.namebid_proceeds
      /\ q.total_lent = p.total_lent + rented
      /\ q.total_unlent = p.total_unlent - rented + payment
      /\ q.total_lendable = p.total_unlent + p.total_lent + payment
      /\ q.loan_num = p.loan_num + 1
  BY <1>2, PoolMakesLoan
<1>7a. WeightMoves(s.weight, w, b, kind, rented)
  OBVIOUS
<1> HIDE DEF rented, q
<1>8. /\ v \in LoanRows /\ v.kind = kind /\ v.from = from /\ v.receiver = b
      /\ v.total_staked = rented /\ v.balance = loan_fund /\ v.kind # "none"
  <2>1. from \in 0 .. N /\ b \in 0 .. N /\ kind \in Kinds \cup {"none"} /\ kind # "none"
    BY NAssumption DEF Names, Kinds
  <2> QED
    BY <1>6, <2>1 DEF LoanRows, LoanOf
<1> HIDE DEF v
<1>9. new \in [LoanIds -> LoanRows] /\ new[k] = v /\ \A j \in LoanIds : j # k => new[j] = s.loans[j]
  BY <1>2, <1>4, <1>8
<1>9a. k = p.loan_num + 1
  OBVIOUS
<1> HIDE DEF new, k
<1>10. RentMoves(s.loans, new, k, b, kind, rented)
  <2> SUFFICES ASSUME NEW c \in Names, NEW y \in Kinds
               PROVE  RentedIn(new, y, c)[k] - RentedIn(s.loans, y, c)[k] =
                         IF c = b /\ y = kind THEN rented ELSE 0
    BY DEF RentMoves
  <2>1. RentedIn(new, y, c)[k] = IF c = b /\ y = kind THEN rented ELSE 0
    BY <1>4, <1>8, <1>9, RentedAt
  <2>2. RentedIn(s.loans, y, c)[k] = 0
    <3>1. RentedIn(s.loans, y, c)[k] = IF old.kind = y /\ old.receiver = c THEN old.total_staked ELSE 0
      BY <1>4 DEF RentedIn
    <3> HIDE DEF old
    <3> QED
      BY <1>5, <3>1
  <2> QED
    BY <1>6, <2>1, <2>2
<1>11. WeightOK(w, s.dbw, new)
  <2>1. rented \in Int
    BY <1>6
  <2> QED
    BY <1>1, <1>2, <1>4, <1>7a, <1>9, <1>10, <2>1, WeightFollowsLoan
<1>12. /\ q.total_lendable = p.total_lendable + payment
       /\ q.total_lent = p.total_lent + (rented - old.total_staked)
       /\ q.total_lendable = q.total_unlent + q.total_lent
       /\ q.loan_num >= p.loan_num /\ k <= q.loan_num
       /\ q.total_lendable >= p.total_lendable
  <2> DEFINE u0 == p.total_unlent
             n0 == p.total_lent
             x0 == p.loan_num
  <2>1. u0 \in Nat /\ n0 \in Nat /\ x0 \in Nat /\ p.total_lendable = u0 + n0 /\ k = x0 + 1
    BY <1>3, <1>9a
  <2>2. /\ q.total_lent = n0 + rented /\ q.total_unlent = u0 - rented + payment
        /\ q.total_lendable = u0 + n0 + payment /\ q.loan_num = x0 + 1
    BY <1>7
  <2> HIDE DEF u0, n0, x0, old
  <2> QED
    BY <1>5, <1>6, <2>1, <2>2 DEF x0, n0
<1>13. PoolOK(q)
  <2>1. q.total_rex > 0 /\ q.total_rex \in Nat /\ q.total_lendable > 0 /\ q.initialized
    BY <1>3, <1>7, <1>12
  <2> QED
    BY <1>12, <2>1 DEF PoolOK
<1> HIDE DEF old
<1>14. q.total_lendable + Sum(f) + v.balance = p.total_lendable + Sum(s.fund) + old.balance
  <2> DEFINE l == p.total_lendable
             x == Sum(f)
             y == Sum(s.fund)
  <2>1. l \in Int /\ x \in Int /\ y \in Int
    <3>1. Sum(s.fund) \in Nat /\ Sum(f) \in Nat
      BY <1>2, SumToNat, NAssumption DEF Sum, Names
    <3> QED
      BY <1>3, <3>1
  <2>2. q.total_lendable = l + payment /\ v.balance = loan_fund /\ old.balance = 0
        /\ x + payment + loan_fund = y
    BY <1>5, <1>8, <1>12
  <2> HIDE DEF l, x, y
  <2>3. q.total_lendable + x + v.balance = l + y + old.balance
    BY <2>1, <2>2
  <2> QED
    BY <2>3 DEF l, x, y
<1>15. Good(t, now, 0, {})
  <2> DEFINE zero == 0
  <2>1. Good(s, now, zero, {})
    OBVIOUS
  <2> HIDE DEF zero
  <2>2. Good([s EXCEPT !.pool = q, !.fund = f, !.loans = new, !.weight = w], now, zero, {})
    BY <1>4, <1>7, <1>8, <1>11, <1>12, <1>13, <1>14, <2>1, LoanChanged DEF new, old
  <2> QED
    BY <2>2 DEF zero
<1>16. NotCheaper(p, q)
  BY <1>2, <1>7, <1>12, NotCheaperSame
<1> QED
  BY <1>15, <1>16 DEF new, v, q, k, rented

\* rentcpu and rentnet: the pool, the loan and the weight change together.
LEMMA RentRex ==
  ASSUME Inv, NEW kind \in Kinds, NEW from \in Names, NEW b \in Names,
         NEW payment \in Int, NEW loan_fund \in Int, rent_rex(kind, from, b, payment, loan_fund)
  PROVE  Done
<1> DEFINE s == runrex(Tables, RunMax)
           condition == rex_loans_available(s) /\ 0 < payment /\ 0 <= loan_fund
           s2 == Check(s, condition)
           s3 == transfer_from_fund(s2, from, payment + loan_fund)
           f == [s.fund EXCEPT ![from] = s.fund[from] - (payment + loan_fund)]
           rented == get_bancor_output(s3.pool.total_rent, s3.pool.total_unlent, payment)
           c3 == Check(s3, payment < rented)
           s4 == add_loan_to_rex_pool(c3, payment, rented, TRUE)
           v == [kind |-> kind, from |-> from, receiver |-> b, payment |-> payment,
                 balance |-> loan_fund, total_staked |-> rented, expiration |-> now + LoanTerm]
           s5 == [s4 EXCEPT !.loans[s4.pool.loan_num] = v]
           t == update_resource_limits(s5, b, kind, rented)
           q == LentPool(s.pool, payment)
           k == s.pool.loan_num + 1
           new == [s.loans EXCEPT ![k] = v]
           u == [s EXCEPT !.pool = q, !.fund = f, !.loans = new]
<1>1. Commit(t) /\ pool.loan_num < MaxLoans /\ s2.ok
  <2>1. PICK a \in AfterRun : AfterRent(a, kind, from, b, payment, loan_fund)
    BY ONLY rent_rex(kind, from, b, payment, loan_fund), Zenon DEF rent_rex, AfterRent
  <2>2. a = s
    BY <2>1 DEF AfterRun
  <2>3. AfterRent(s, kind, from, b, payment, loan_fund)
    BY <2>1, <2>2
  <2> HIDE DEF s
  <2> QED
    BY <2>3 DEF AfterRent
<1>2. /\ Tables \in TableSet /\ "ok" \in DOMAIN s
      /\ s.ok => Good(s, now, 0, {}) /\ s \in TableSet /\ RunStep(Tables, s)
  BY RunFirst, RunAssumption
<1> HIDE DEF s
<1>3. s.ok /\ condition
  BY <1>1, <1>2 DEF Check
<1>4. Good(s, now, 0, {}) /\ s \in TableSet /\ RunStep(Tables, s)
  BY <1>2, <1>3
<1>5. s2 = s
  <2>1. condition \in BOOLEAN
    BY DEF rex_loans_available, rex_available
  <2> HIDE DEF condition
  <2> QED
    BY <1>3, <1>4, <2>1, Checked
<1>6. /\ rex_loans_available(s) /\ payment \in Nat /\ payment > 0 /\ loan_fund \in Nat
      /\ payment + loan_fund \in Int
  BY <1>3
<1> HIDE DEF condition, s2
<1>7. "ok" \in DOMAIN s3
  BY <1>2, <1>5 DEF transfer_from_fund, Check
<1> HIDE DEF s3, v, rented
<1>8. "ok" \in DOMAIN c3 /\ (c3.ok => s3.ok /\ payment < rented)
  BY <1>7 DEF Check
<1> HIDE DEF c3
<1>9. "ok" \in DOMAIN s4 /\ s4.ok = c3.ok
  BY <1>8 DEF add_loan_to_rex_pool
<1> HIDE DEF s4
<1>10. "ok" \in DOMAIN s5 /\ s5.ok = s4.ok
  BY <1>9
<1> HIDE DEF s5
<1>11. t.ok
  BY <1>1, Committed
<1>12. t.ok => s5.ok
  BY <1>10 DEF update_resource_limits, Check
<1>13. s3.ok /\ payment < rented
  BY <1>8, <1>9, <1>10, <1>11, <1>12
<1>14. /\ s3 = [s EXCEPT !.fund = f]
       /\ s3 \in TableSet
       /\ Sum(s.fund) \in Nat
       /\ Sum(f) = Sum(s.fund) - (payment + loan_fund)
  BY <1>4, <1>5, <1>6, <1>13, TakesFund DEF s3
<1>15. f \in [Names -> Nat]
  <2>1. s3.fund = f
    BY <1>4, <1>14 DEF TableSet
  <2>2. s3 \in TableSet
    BY <1>14
  <2> HIDE DEF f
  <2>3. s3.fund \in [Names -> Nat]
    BY ONLY <2>2, Fields
  <2> QED
    BY ONLY <2>1, <2>3
<1> HIDE DEF f
<1>16. s3.pool = s.pool /\ s3.loans = s.loans /\ s3.weight = s.weight
  BY <1>4, <1>14 DEF TableSet
<1>17. c3 = s3
  <2>1. (payment < rented) \in BOOLEAN
    OBVIOUS
  <2> QED
    BY <1>13, <1>14, <2>1, Checked DEF c3
<1>18. /\ s.pool \in PoolRows /\ s.loans \in [LoanIds -> LoanRows]
       /\ s.weight \in [Names -> [Kinds -> Nat]]
  BY <1>4, Fields
<1>19. /\ s.pool.total_rent \in Nat /\ s.pool.total_unlent \in Nat /\ s.pool.loan_num \in Nat
       /\ s.pool.loan_num < MaxLoans
  <2>1. s.pool.loan_num = pool.loan_num
    BY <1>4 DEF RunStep, Tables
  <2> QED
    BY <1>1, <1>18, <2>1 DEF PoolRows
<1>20. rented = Rentable(s.pool, payment)
  BY <1>16 DEF rented, Rentable
<1>21. rented \in Nat /\ q \in PoolRows /\ q.loan_num = k
  BY <1>6, <1>18, <1>20, PoolMakesLoan
<1>22. s4 = [s3 EXCEPT !.pool = q]
  BY <1>16, <1>17, <1>20 DEF s4, add_loan_to_rex_pool, LentPool
<1> HIDE DEF q
<1>23. s4.pool = q /\ s4.loans = s.loans
  BY <1>14, <1>16, <1>22 DEF TableSet
<1>24. s5 = [s4 EXCEPT !.loans = new]
  BY <1>21, <1>23 DEF s5
<1>25. k \in LoanIds /\ v \in LoanRows
  <2>1. k \in LoanIds
    BY <1>19, MaxLoansAssumption DEF LoanIds
  <2>2. from \in 0 .. N /\ b \in 0 .. N /\ kind \in Kinds \cup {"none"} /\ now + LoanTerm \in Nat
    BY NAssumption, NowIsTime, TimeAssumption DEF Names
  <2> QED
    BY <1>6, <1>21, <2>1, <2>2 DEF v, LoanRows
<1>26. new \in [LoanIds -> LoanRows]
  BY <1>18, <1>25
<1> HIDE DEF new
<1>27. s5 = u /\ u \in TableSet /\ u.weight = s.weight
  BY <1>4, <1>14, <1>15, <1>21, <1>22, <1>24, <1>26 DEF TableSet
<1> HIDE DEF u
<1>28. /\ t = [u EXCEPT !.weight = t.weight]
       /\ t.weight \in [Names -> [Kinds -> Nat]]
       /\ WeightMoves(s.weight, t.weight, b, kind, rented)
  <2>1. rented \in Int /\ 0 <= u.weight[b][kind] + rented
    <3>1. s.weight[b] \in [Kinds -> Nat]
      BY <1>18
    <3>2. s.weight[b][kind] \in Nat
      BY <3>1
    <3> QED
      BY <1>21, <1>27, <3>2
  <2> QED
    BY <1>27, <2>1, MovesWeight
<1> HIDE DEF t
<1>29. t = [s EXCEPT !.pool = q, !.fund = f, !.loans = new, !.weight = t.weight]
  <2>1. u = [s EXCEPT !.pool = q, !.fund = f, !.loans = new]
    BY DEF u
  <2>2. [u EXCEPT !.weight = t.weight] = [s EXCEPT !.pool = q, !.fund = f, !.loans = new, !.weight = t.weight]
    BY <1>4, <2>1 DEF TableSet
  <2> QED
    BY <1>28, <2>2
<1>30. /\ Good([s EXCEPT !.pool = q, !.fund = f, !.loans = new, !.weight = t.weight], now, 0, {})
       /\ NotCheaper(s.pool, q)
  <2>1. Sum(f) + payment + loan_fund = Sum(s.fund)
    <3>1. Sum(f) \in Nat
      BY <1>15, SumToNat, NAssumption DEF Sum, Names
    <3> QED
      BY <1>6, <1>14, <3>1
  <2>2. now + LoanTerm \in Nat
    BY NowIsTime, TimeAssumption
  <2>3. v = LoanOf(kind, from, b, payment, loan_fund, Rentable(s.pool, payment), now + LoanTerm)
    BY <1>20 DEF v, LoanOf
  <2> QED
    BY <1>4, <1>6, <1>15, <1>19, <1>20, <1>28, <2>1, <2>2, <2>3, LoanMade DEF new, q
<1>31. Steps(Tables, t)
  <2>1. t \in TableSet
    BY <1>29, <1>30, GoodTables
  <2>2. /\ t.pool = q /\ t.orders = s.orders /\ t.staked = s.staked /\ t.rexbal = s.rexbal
    BY <1>4, <1>29 DEF TableSet
  <2>3. PriceKept(Tables, t)
    <3>1. s.pool.total_rex > 0
      BY <1>6 DEF rex_loans_available, rex_available
    <3>2. NotCheaper(Tables.pool, s.pool)
      BY <1>4, <3>1 DEF RunStep
    <3>3. Tables.pool \in PoolRows
      BY <1>2, Fields
    <3>4. NotCheaper(Tables.pool, q)
      BY <1>18, <1>21, <1>30, <3>1, <3>2, <3>3, NotCheaperTransitive
    <3> QED
      BY <2>2, <3>4 DEF PriceKept
  <2>4. NothingLent(Tables, t)
    BY <1>6, <2>2 DEF NothingLent, rex_loans_available
  <2>5. ClaimsKept(Tables, t)
    BY <1>4, <2>2 DEF ClaimsKept, Claim, RunStep
  <2> QED
    BY <2>3, <2>4, <2>5 DEF Steps
<1> QED
  BY <1>1, <1>29, <1>30, <1>31, GoodCommitted

-----------------------------------------------------------------------------
(* Sales.                                                                  *)

\* update_rex_account touches no row of the balances.
LEMMA AccountKeepsRows ==
  ASSUME NEW s \in TableSet, NEW owner, NEW proceeds, NEW delta, NEW force \in BOOLEAN
  PROVE  update_rex_account(s, owner, proceeds, delta, force).rexbal = s.rexbal
<1> DEFINE order    == s.orders[owner]
           closed   == order.state = "closed"
           to_fund  == proceeds + (IF closed THEN order.proceeds ELSE 0)
           to_stake == delta + (IF closed THEN order.stake_change ELSE 0)
           s1       == IF closed THEN [s EXCEPT !.orders[owner] = NoOrder] ELSE s
           s2       == IF to_fund > 0 THEN transfer_to_fund(s1, owner, to_fund) ELSE s1
           t        == update_rex_account(s, owner, proceeds, delta, force)
<1>1. t = IF force \/ to_stake # 0 THEN update_voting_power(s2, owner, to_stake) ELSE s2
  BY DEF update_rex_account
<1>2. "rexbal" \in DOMAIN s1 /\ s1.rexbal = s.rexbal
  BY DEF TableSet
<1> HIDE DEF s1, to_fund, to_stake, t
<1>3. "rexbal" \in DOMAIN s2 /\ s2.rexbal = s.rexbal
  BY <1>2 DEF transfer_to_fund, Check
<1> HIDE DEF s2
<1>4. t.rexbal = s.rexbal
  BY <1>1, <1>3 DEF update_voting_power, Check
<1> QED
  BY <1>4 DEF t

\* The tables before the order of sellrex is tried.
LEMMA SaleStarts ==
  ASSUME Inv, NEW from \in Names, NEW rex, NEW s \in BeforeSale(from), CanSell(s, from, rex)
  PROVE  /\ Good(s, now, 0, {}) /\ s \in TableSet
         /\ s.pool.namebid_proceeds = 0
         /\ \A t \in TableSet : Quiet(s, t) => Steps(Tables, t)
<1> DEFINE u == runrex(Tables, RunMax)
           rb == u.rexbal[from]
           r == process_rex_maturities(rb, now)
           v == [u EXCEPT !.rexbal[from] = r]
<1>1. s = v
  BY DEF BeforeSale, AfterRun
<1>2. s.ok /\ s.rexbal[from].row
  BY DEF CanSell
<1>3. /\ Tables \in TableSet
      /\ "ok" \in DOMAIN u
      /\ u.ok => Good(u, now, 0, {}) /\ u \in TableSet /\ RunStep(Tables, u)
  BY RunFirst, RunAssumption
<1> HIDE DEF u
<1>4. Good(u, now, 0, {}) /\ u \in TableSet /\ RunStep(Tables, u)
  <2>1. v.ok = u.ok
    BY <1>3
  <2> HIDE DEF v
  <2> QED
    BY <1>1, <1>2, <1>3, <2>1
<1>5. /\ rb \in BalanceRows /\ Ordered(rb.rex_maturities, now)
      /\ RexInOrder(u, from) \in Nat /\ RexInOrder(u, from) <= rb.matured_rex
      /\ rb.matured_rex \in Nat
  BY <1>4, GoodRow
<1>6. u.rexbal \in [Names -> BalanceRows]
  BY <1>4, Fields
<1> HIDE DEF r
<1>7. v.rexbal[from] = r
  BY <1>4, <1>6 DEF TableSet
<1> HIDE DEF rb, v
<1>8. /\ r \in BalanceRows
      /\ r = [rb EXCEPT !.matured_rex = r.matured_rex, !.rex_maturities = r.rex_maturities]
      /\ r.matured_rex + InBuckets(r.rex_maturities) = rb.matured_rex + InBuckets(rb.rex_maturities)
      /\ rb.matured_rex <= r.matured_rex
      /\ Ordered(r.rex_maturities, now)
  BY <1>5, ProcessRow, NowIsTime DEF r
<1>9. Rearranged(r, rb, now) /\ HeldIn(r) = HeldIn(rb)
  BY <1>5, <1>8 DEF Rearranged, HeldIn, BalanceRows
<1>10. rb.row
  BY <1>1, <1>2, <1>7, <1>9 DEF Rearranged
<1>11. RexInOrder(u, from) <= r.matured_rex
  <2>1. r.matured_rex \in Nat
    BY <1>8 DEF BalanceRows
  <2> QED
    BY <1>5, <1>8, <2>1
<1>12. Good(v, now, 0, {}) /\ v \in TableSet /\ Quiet(u, v) /\ v.pool = u.pool
  BY <1>4, <1>9, <1>10, <1>11, RowRearranged DEF rb, v
<1>13. s.pool.namebid_proceeds = 0
  BY <1>1, <1>4, <1>12 DEF RunStep
<1>14. ASSUME NEW t \in TableSet, Quiet(s, t) PROVE Steps(Tables, t)
  <2>1. Quiet(u, t)
    BY <1>1, <1>4, <1>12, <1>14, QuietTransitive
  <2> QED
    BY <1>3, <1>4, <2>1, RunThenQuiet
<1> QED
  BY <1>1, <1>12, <1>13, <1>14

\* A sale that the pool can pay at once.
LEMMA SellNow ==
  ASSUME Inv, NEW from \in Names, NEW rex \in Int, sellrexNow(from, rex)
  PROVE  Done
<1>1. PICK s \in BeforeSale(from) :
        LET s1 == fill_rex_order(s, from, rex)
            s2 == update_rex_account(s1, from, Proceeds(s, rex), StakeChange(s, from, rex), FALSE)
        IN  /\ CanSell(s, from, rex)
            /\ Fillable(s, rex)
            /\ RexInOrder(s1, from) <= s2.rexbal[from].matured_rex
            /\ Commit(s2)
  BY DEF sellrexNow
<1> DEFINE proceeds == Proceeds(s, rex)
           change == StakeChange(s, from, rex)
           s1 == fill_rex_order(s, from, rex)
           t == update_rex_account(s1, from, proceeds, change, FALSE)
           free == {} \cup {from}
<1>2. /\ CanSell(s, from, rex) /\ Fillable(s, rex) /\ RexInOrder(s1, from) <= t.rexbal[from].matured_rex
      /\ Commit(t)
  BY <1>1
<1>3. /\ Good(s, now, 0, {}) /\ s \in TableSet /\ s.pool.namebid_proceeds = 0
      /\ \A u \in TableSet : Quiet(s, u) => Steps(Tables, u)
  BY <1>2, SaleStarts
<1>4. rex \in Nat /\ rex > 0 /\ rex <= s.rexbal[from].matured_rex
  BY <1>2 DEF CanSell
<1>5. /\ proceeds \in Nat /\ change \in Int
      /\ Good(s1, now, proceeds, free)
      /\ Sold(s, s1, from, rex)
  <2> DEFINE zero == 0
             none == {}
  <2>1. zero \in Int /\ zero + proceeds = 0 + proceeds /\ Good(s, now, zero, none)
    BY <1>3
  <2> HIDE DEF zero, none
  <2>2. /\ proceeds \in Nat /\ change \in Int
        /\ Good(s1, now, zero + proceeds, none \cup {from})
        /\ Sold(s, s1, from, rex)
    BY <1>2, <1>3, <1>4, <2>1, OrderFilled
  <2>3. zero + proceeds = proceeds
    BY <2>2 DEF zero
  <2> QED
    BY <2>2, <2>3 DEF none
<1> HIDE DEF s1, proceeds, change, free, t
<1>6. s1 \in TableSet
  BY <1>5, GoodTables
<1>7. t.rexbal = s1.rexbal
  <2>1. FALSE \in BOOLEAN
    OBVIOUS
  <2> QED
    BY <1>6, <2>1, AccountKeepsRows DEF t
<1>8. s1.orders[from].state = "open" => s1.orders[from].rex_requested <= s1.rexbal[from].matured_rex
  BY <1>2, <1>7 DEF RexInOrder
<1>9. Good(t, now, 0, free) /\ AccountStep(s1, t, from, change)
  <2>1. FALSE \in BOOLEAN /\ t.ok
    BY <1>2, Committed
  <2> QED
    BY <1>5, <1>8, <2>1, AccountUpdated DEF t
<1>10. Good(t, now, 0, {})
  <2>1. OrdersOK(t.orders, t.rexbal, {})
    <3>1. OrdersOK(t.orders, t.rexbal, {from})
      BY <1>9 DEF Good, free
    <3>2. t.orders[from].state = "open" => t.orders[from] = s1.orders[from]
      BY <1>9, NoOrderFacts DEF AccountStep
    <3> QED
      BY <1>7, <1>8, <3>1, <3>2 DEF OrdersOK
  <2> QED
    BY <1>9, <2>1 DEF Good
<1>11. t \in TableSet
  BY <1>10, GoodTables
<1>12. \A a \in Names : t.rexbal[a].row = s.rexbal[a].row /\ Claim(t, a) = Claim(s, a)
  <2> SUFFICES ASSUME NEW a \in Names
               PROVE  t.rexbal[a].row = s.rexbal[a].row /\ Claim(t, a) = Claim(s, a)
    OBVIOUS
  <2>1. CASE a # from
    <3>1. /\ t.rexbal[a] = s.rexbal[a] /\ t.orders[a] = s.orders[a] /\ t.staked[a] = s.staked[a]
      BY <1>5, <1>9, <2>1 DEF Sold, AccountStep
    <3> QED
      BY <3>1 DEF Claim
  <2>2. CASE a = from
    <3> DEFINE x1 == s.staked[from]
               x2 == t.staked[from]
               y1 == s.orders[from].stake_change
               y2 == t.orders[from].stake_change
               z1 == s.rexbal[from].vote_stake
               z2 == t.rexbal[from].vote_stake
    <3>1. x1 \in Int /\ x2 \in Int /\ y1 \in Int /\ y2 \in Int /\ z1 \in Int
      <4>1. /\ s.staked \in [Names -> Int] /\ t.staked \in [Names -> Int]
            /\ s.orders \in [Names -> OrderRows] /\ t.orders \in [Names -> OrderRows]
            /\ s.rexbal \in [Names -> BalanceRows]
        BY <1>3, <1>11, Fields
      <4> QED
        BY <4>1 DEF OrderRows, BalanceRows
    <3>2. s1.staked = s.staked /\ s1.orders = s.orders
          /\ s1.rexbal[from].vote_stake = z1 + change /\ s1.rexbal[from].row = s.rexbal[from].row
      BY <1>5 DEF Sold, change
    <3>3. x2 + y2 = x1 + y1 + change
      BY <1>9, <3>2 DEF AccountStep
    <3>4. z2 = z1 + change
      BY <1>7, <3>2
    <3> HIDE DEF x1, x2, y1, y2, z1, z2
    <3>5. x2 + (y2 - z2) = x1 + (y1 - z1)
      BY <1>5, <3>1, <3>3, <3>4
    <3>6. Claim(t, a) = Claim(s, a)
      BY <2>2, <3>5 DEF Claim, x1, x2, y1, y2, z1, z2
    <3> QED
      BY <1>7, <2>2, <3>2, <3>6
  <2> QED
    BY <2>1, <2>2
<1>13. Quiet(s, t)
  <2>1. s.pool \in PoolRows
    BY <1>3, Fields
  <2>2. t.pool.total_rex = s.pool.total_rex - rex /\ NotCheaper(s.pool, t.pool)
    BY <1>5, <1>9 DEF Sold, AccountStep
  <2>3. t.pool.total_rex <= s.pool.total_rex
    BY <1>4, <2>1, <2>2 DEF PoolRows
  <2>4. t.pool.loan_num = s.pool.loan_num /\ t.loans = s.loans /\ t.dbw = s.dbw
    BY <1>5, <1>9 DEF Sold, AccountStep
  <2> QED
    BY <1>12, <2>2, <2>3, <2>4 DEF Quiet
<1>14. Steps(Tables, t)
  BY <1>3, <1>11, <1>13
<1> QED
  BY <1>2, <1>10, <1>14, GoodCommitted

\* A sale that is queued.
LEMMA SellLater ==
  ASSUME Inv, NEW from \in Names, NEW rex \in Int, sellrexLater(from, rex)
  PROVE  Done
<1>1. PICK s \in BeforeSale(from) :
        LET s1 == update_rex_account(s, from, 0, 0, FALSE)
            s2 == [s1 EXCEPT !.orders[from] = Queued(s1.orders[from], rex)]
        IN  /\ CanSell(s, from, rex)
            /\ RexInOrder(s2, from) <= s2.rexbal[from].matured_rex
            /\ Commit(s2)
  BY DEF sellrexLater
<1> DEFINE s1 == update_rex_account(s, from, 0, 0, FALSE)
           o == Queued(s1.orders[from], rex)
           t == [s1 EXCEPT !.orders[from] = o]
           u == [s1 EXCEPT !.fund = s1.fund, !.orders = [s1.orders EXCEPT ![from] = o], !.staked = s1.staked]
<1>2. CanSell(s, from, rex) /\ RexInOrder(t, from) <= t.rexbal[from].matured_rex /\ Commit(t)
  BY <1>1
<1>3. /\ Good(s, now, 0, {}) /\ s \in TableSet
      /\ \A v \in TableSet : Quiet(s, v) => Steps(Tables, v)
  BY <1>2, SaleStarts
<1>4. "ok" \in DOMAIN s1
  <2>1. "ok" \in DOMAIN s
    BY <1>3 DEF TableSet
  <2> QED
    BY <2>1, AccountFails
<1> HIDE DEF s1, o
<1>5. s1.ok
  <2>1. t.ok = s1.ok
    BY <1>4
  <2> HIDE DEF t
  <2> QED
    BY <1>2, <2>1, Committed
<1>6. Good(s1, now, 0, {}) /\ s1 \in TableSet /\ AccountStep(s, s1, from, 0) /\ Quiet(s, s1)
  <2>1. 0 \in Int /\ FALSE \in BOOLEAN
    OBVIOUS
  <2> QED
    BY <1>3, <1>5, <2>1, AccountAfter DEF s1
<1>7. s1.fund \in [Names -> Nat] /\ s1.staked \in [Names -> Int] /\ s1.orders \in [Names -> OrderRows]
  BY <1>6, Fields
<1>8. s1.orders[from] \in OrderRows /\ OrderOK(s1.orders[from]) /\ s1.orders[from].state # "closed"
  BY <1>6, <1>7, GoodRow, NoOrderFacts DEF AccountStep
<1>9. s1.orders[from].proceeds = 0 /\ s1.orders[from].stake_change = 0 /\ s1.orders[from].rex_requested \in Nat
  BY <1>8 DEF OrderOK, OrderRows
<1>10. rex \in Nat /\ rex > 0
  BY <1>2 DEF CanSell
<1>11. /\ o \in OrderRows /\ o.state = "open" /\ o.proceeds = 0 /\ o.stake_change = 0
       /\ o.rex_requested > 0
  <2>1. CASE s1.orders[from].state = "open"
    <3>1. o = [s1.orders[from] EXCEPT !.rex_requested = s1.orders[from].rex_requested + rex]
      BY <2>1 DEF o, Queued
    <3>2. s1.orders[from].rex_requested + rex \in Nat /\ s1.orders[from].rex_requested + rex > 0
      BY <1>9, <1>10
    <3> QED
      BY <1>8, <1>9, <2>1, <3>1, <3>2 DEF OrderRows
  <2>2. CASE s1.orders[from].state # "open"
    <3>1. o = [NoOrder EXCEPT !.state = "open", !.rex_requested = rex, !.order_time = now]
      BY <2>2 DEF o, Queued
    <3>2. o = [state |-> "open", rex_requested |-> rex, proceeds |-> 0, stake_change |-> 0,
               order_time |-> now]
      BY <3>1 DEF NoOrder
    <3>3. now \in Nat
      BY NowIsTime
    <3> QED
      BY <1>10, <3>2, <3>3 DEF OrderRows
  <2> QED
    BY <2>1, <2>2
<1>12. /\ t.orders[from] = o /\ t.rexbal = s1.rexbal
       /\ \A b \in Names : b # from => t.orders[b] = s1.orders[b]
       /\ t.pool = s1.pool /\ t.loans = s1.loans /\ t.dbw = s1.dbw /\ t.staked = s1.staked
  BY <1>6, <1>7 DEF TableSet
<1>13. t = u
  BY <1>6 DEF TableSet
<1> HIDE DEF t
<1>14. Good(u, now, 0, {})
  <2> DEFINE zero == 0
  <2>1. zero \in Int /\ zero = 0
    OBVIOUS
  <2>2. OrderOK(o)
    BY <1>11 DEF OrderOK
  <2>3. o.rex_requested <= s1.rexbal[from].matured_rex
    BY <1>2, <1>11, <1>12 DEF RexInOrder
  <2>4. Sum(s1.fund) + o.proceeds + zero = Sum(s1.fund) + s1.orders[from].proceeds + zero
    BY <1>9, <1>11
  <2>5. Good(s1, now, zero, {})
    BY <1>6, <2>1
  <2> HIDE DEF zero
  <2>6. Good(u, now, zero, {})
    BY <1>7, <1>11, <2>1, <2>2, <2>3, <2>4, <2>5, OrderChanged
  <2> QED
    BY <2>1, <2>6
<1>15. t \in TableSet
  BY <1>13, <1>14, GoodTables
<1>16. Quiet(s1, t)
  <2>1. Quiet(s1, s1)
    BY <1>6, QuietReflexive
  <2>2. \A b \in Names : t.orders[b].stake_change = s1.orders[b].stake_change
    BY <1>9, <1>11, <1>12
  <2> QED
    BY <1>12, <2>1, <2>2 DEF Quiet, Claim
<1>17. Steps(Tables, t)
  <2>1. Quiet(s, t)
    BY <1>3, <1>6, <1>15, <1>16, QuietTransitive
  <2> QED
    BY <1>3, <1>15, <2>1
<1> QED
  BY <1>2, <1>13, <1>14, <1>17, GoodCommitted

-----------------------------------------------------------------------------
(* Purchases.                                                              *)

\* The pool takes the payment, and the shares for it are worth no more.
LEMMA PoolBuys ==
  ASSUME NEW s \in TableSet, PoolOK(s.pool), NEW payment \in Nat, payment > 0
  PROVE  LET t == add_to_rex_pool(s, payment)
             q == t.pool
             rex == RexReceived(s, payment)
         IN  /\ t = [s EXCEPT !.pool = q]
             /\ q \in PoolRows /\ PoolOK(q) /\ q.initialized /\ q.total_rex > 0
             /\ rex \in Nat
             /\ q.total_rex = s.pool.total_rex + rex
             /\ q.total_lendable = s.pool.total_lendable + payment
             /\ q.total_lent = s.pool.total_lent /\ q.loan_num = s.pool.loan_num
             /\ q.namebid_proceeds = s.pool.namebid_proceeds
             /\ s.pool.total_rex > 0 => NotCheaper(s.pool, q)
<1> DEFINE p == s.pool
           rex == RexReceived(s, payment)
           t == add_to_rex_pool(s, payment)
<1>1. p \in PoolRows
  BY Fields
<1>2. /\ p.total_rex \in Nat /\ p.total_lendable \in Nat /\ p.total_lent \in Nat
      /\ p.total_unlent \in Nat /\ p.namebid_proceeds \in Nat
  BY <1>1 DEF PoolRows
<1>3. CASE ~ rex_available(s)
  <2> DEFINE q == OpenedPool(p, payment)
             r == payment * RexRatio
  <2>1. p.total_rex = 0 /\ p.total_lendable = 0 /\ p.total_lent = 0
    BY <1>2, <1>3 DEF rex_available, PoolOK
  <2>2. t = [s EXCEPT !.pool = q] /\ rex = r
    BY <1>3 DEF add_to_rex_pool, RexReceived
  <2>3. r \in Nat
    BY RatioAssumption
  <2>4. /\ q \in PoolRows /\ q.initialized
        /\ q.total_lendable = payment /\ q.total_lent = 0 /\ q.total_unlent = payment
        /\ q.total_rex = r /\ q.total_rex > 0
        /\ q.namebid_proceeds = p.namebid_proceeds /\ q.loan_num = p.loan_num
    BY <1>1, PoolOpens
  <2> HIDE DEF q, r, t, rex
  <2>5. PoolOK(q)
    BY <2>3, <2>4 DEF PoolOK
  <2>6. t.pool = q
    BY <2>2 DEF TableSet
  <2>7. /\ t = [s EXCEPT !.pool = t.pool]
        /\ q.total_rex = p.total_rex + rex /\ q.total_lendable = p.total_lendable + payment
        /\ q.total_lent = p.total_lent
    BY <2>1, <2>2, <2>3, <2>4, <2>6
  <2> QED
    BY <2>1, <2>2, <2>3, <2>4, <2>5, <2>6, <2>7 DEF t, rex
<1>4. CASE rex_available(s)
  <2> DEFINE q == JoinedPool(p, payment, rex)
  <2>1. p.total_rex > 0
    BY <1>4 DEF rex_available
  <2>2. rex = ((p.total_lendable + payment) * p.total_rex) \div p.total_lendable - p.total_rex
    BY <1>4 DEF RexReceived
  <2> HIDE DEF rex
  <2>3. /\ rex \in Nat /\ p.total_lendable > 0
        /\ p.total_lendable + payment - p.total_lent >= 0
        /\ q \in PoolRows /\ q.initialized = p.initialized
        /\ q.total_lendable = p.total_lendable + payment /\ q.total_lent = p.total_lent
        /\ q.total_unlent = p.total_unlent + payment
        /\ q.total_rex = p.total_rex + rex
        /\ q.namebid_proceeds = p.namebid_proceeds /\ q.loan_num = p.loan_num
        /\ NotCheaper(p, q)
    BY <1>1, <2>1, <2>2, PoolJoins
  <2>4. t = Check([s EXCEPT !.pool = q], p.total_lendable + payment - p.total_lent >= 0)
    <3>1. p.total_lendable # 0
      BY <2>3
    <3> QED
      BY <1>4, <3>1 DEF add_to_rex_pool, rex
  <2> HIDE DEF q, t
  <2>5. [s EXCEPT !.pool = q] \in TableSet
    BY <2>3 DEF TableSet
  <2>6. t = [s EXCEPT !.pool = q]
    BY <2>3, <2>4, <2>5, Checked
  <2>7. t.pool = q
    BY <2>6 DEF TableSet
  <2>8. PoolOK(q) /\ q.total_rex > 0 /\ q.initialized
    BY <1>2, <2>1, <2>3 DEF PoolOK
  <2> QED
    BY <2>3, <2>6, <2>7, <2>8 DEF t, rex
<1> QED
  BY <1>3, <1>4

\* The fields of the row that is not there.
LEMMA NoBalanceFacts ==
  /\ NoBalance \in BalanceRows /\ NoBalance.rex_balance = 0 /\ NoBalance.matured_rex = 0
  /\ NoBalance.row = FALSE /\ NoBalance.vote_stake = 0 /\ NoBalance.rex_maturities = << >>
  /\ InBuckets(<< >>) = 0
<1>1. << >> \in Seq(BucketRows) /\ InBuckets(<< >>) = 0
  BY NoBuckets
<1> QED
  BY <1>1 DEF NoBalance, BalanceRows

\* The row of the buyer after the purchase.
LEMMA RowPaid ==
  ASSUME Inv, NEW s, s.pool \in PoolRows, NEW owner \in Names, NEW payment \in Nat, NEW rex \in Nat,
         s.rexbal[owner] \in BalanceRows, RowOK(s.rexbal[owner], now)
  PROVE  LET r == AddToMaturities(RowBefore(s, owner, payment, rex), rex, now) IN
         /\ r \in BalanceRows /\ RowOK(r, now) /\ r.row
         /\ r.rex_balance = s.rexbal[owner].rex_balance + rex
         /\ s.rexbal[owner].matured_rex <= r.matured_rex
<1> DEFINE rb == s.rexbal[owner]
           rb1 == RowBefore(s, owner, payment, rex)
           r == AddToMaturities(rb1, rex, now)
<1>1. /\ rb.rex_balance \in Nat /\ rb.matured_rex \in Nat
      /\ rb.rex_balance = HeldIn(rb) /\ Ordered(rb.rex_maturities, now)
  BY DEF BalanceRows, RowOK, HeldIn
<1>2. /\ rb1 \in BalanceRows /\ rb1.row /\ rb1.rex_balance = rb.rex_balance + rex
      /\ rb1.matured_rex = rb.matured_rex /\ rb1.rex_maturities = rb.rex_maturities
  <2>1. CASE ~ rb.row
    <3>1. rb = NoBalance
      BY <2>1 DEF RowOK
    <3>2. rb1 = [NoBalance EXCEPT !.row = TRUE, !.vote_stake = payment, !.rex_balance = rex]
      BY <2>1 DEF RowBefore
    <3> HIDE DEF rb1, rb
    <3>3. rb1 = [row |-> TRUE, vote_stake |-> payment, rex_balance |-> rex, matured_rex |-> 0,
                 rex_maturities |-> << >>]
      BY <3>2 DEF NoBalance
    <3>4. << >> \in Seq(BucketRows)
      OBVIOUS
    <3>5. /\ rb1 \in BalanceRows /\ rb1.row /\ rb1.rex_balance = rex
          /\ rb1.matured_rex = 0 /\ rb1.rex_maturities = << >>
      BY <3>3, <3>4 DEF BalanceRows
    <3> QED
      BY <3>1, <3>5, NoBalanceFacts
  <2>2. CASE rb.row
    <3> DEFINE stake == StakeOf(s, rb.rex_balance + rex)
               total == rb.rex_balance + rex
    <3>1. stake \in Nat /\ total \in Nat
      BY <1>1, StakeOfNat
    <3>2. rb1 = [rb EXCEPT !.rex_balance = total, !.vote_stake = stake]
      BY <2>2 DEF RowBefore
    <3> HIDE DEF stake, total, rb1, rb
    <3>3. rb \in BalanceRows
      BY DEF rb
    <3>4. rb1 = [row |-> rb.row, vote_stake |-> stake, rex_balance |-> total,
                 matured_rex |-> rb.matured_rex, rex_maturities |-> rb.rex_maturities]
      BY <3>2, <3>3 DEF BalanceRows
    <3>5. /\ rb1 \in BalanceRows /\ rb1.row = rb.row /\ rb1.rex_balance = total
          /\ rb1.matured_rex = rb.matured_rex /\ rb1.rex_maturities = rb.rex_maturities
      BY <3>1, <3>3, <3>4 DEF BalanceRows
    <3> QED
      BY <2>2, <3>5 DEF total
  <2> QED
    BY <2>1, <2>2
<1> HIDE DEF rb1
<1>3. /\ Rearranged(r, rb1, now) /\ HeldIn(r) = HeldIn(rb1) + rex /\ rb1.matured_rex <= r.matured_rex
  BY <1>1, <1>2, NowIsTime, RowBuys
<1> HIDE DEF r
<1>4. HeldIn(rb1) = HeldIn(rb)
  BY <1>2 DEF HeldIn
<1>5. RowOK(r, now) /\ r \in BalanceRows /\ r.row /\ r.rex_balance = rb.rex_balance + rex
  BY <1>1, <1>2, <1>3, <1>4 DEF RowOK, Rearranged, HeldIn
<1> QED
  BY <1>2, <1>3, <1>5 DEF r, rb1

\* A purchase keeps the tables good.
LEMMA Bought ==
  ASSUME Inv, NEW payment \in Nat, payment > 0, NEW s, Good(s, now, payment, {}),
         NEW owner \in Names, s.voting[owner]
  PROVE  LET t == Purchase(s, owner, payment) IN
         /\ Good(t, now, 0, {}) /\ t \in TableSet /\ Purchased(s, t, owner)
         /\ t.dbw = s.dbw
         /\ add_to_rex_pool(s, payment).rexbal = s.rexbal
<1> DEFINE s3 == add_to_rex_pool(s, payment)
           q == s3.pool
           rex == RexReceived(s, payment)
           rb == s.rexbal[owner]
           r == AddToMaturities(RowBefore(s3, owner, payment, rex), rex, now)
           rows == [s.rexbal EXCEPT ![owner] = r]
           t == Purchase(s, owner, payment)
           u == [s EXCEPT !.pool = q, !.rexbal = rows]
<1>1. s \in TableSet /\ PoolOK(s.pool)
  BY DEF Good
<1>2. /\ s3 = [s EXCEPT !.pool = q]
      /\ q \in PoolRows /\ PoolOK(q) /\ q.initialized /\ q.total_rex > 0
      /\ rex \in Nat
      /\ q.total_rex = s.pool.total_rex + rex
      /\ q.total_lendable = s.pool.total_lendable + payment
      /\ q.total_lent = s.pool.total_lent /\ q.loan_num = s.pool.loan_num
      /\ q.namebid_proceeds = s.pool.namebid_proceeds
      /\ s.pool.total_rex > 0 => NotCheaper(s.pool, q)
  BY <1>1, PoolBuys
<1>3. t = [s3 EXCEPT !.rexbal[owner] = r]
  BY DEF Purchase, add_to_rex_balance, RowBefore
<1> HIDE DEF rex, t
<1>4. s3.rexbal = s.rexbal
  <2> HIDE DEF s3
  <2> QED
    BY <1>1, <1>2 DEF TableSet
<1> HIDE DEF s3
<1>5. /\ s.pool \in PoolRows /\ s.fund \in [Names -> Nat] /\ s.rexbal \in [Names -> BalanceRows]
      /\ s.loans \in [LoanIds -> LoanRows] /\ s.orders \in [Names -> OrderRows] /\ s.acct \in Accounts
  BY <1>1, Fields
<1>6. rb \in BalanceRows /\ RowOK(rb, now) /\ rb.rex_balance \in Nat /\ rb.matured_rex \in Nat
  BY GoodRow
<1>7. /\ r \in BalanceRows /\ RowOK(r, now) /\ r.row
      /\ r.rex_balance = rb.rex_balance + rex
      /\ rb.matured_rex <= r.matured_rex /\ r.matured_rex \in Nat
  <2>1. s3.rexbal[owner] = rb /\ s3.pool \in PoolRows
    BY <1>2, <1>4
  <2>2. /\ r \in BalanceRows /\ RowOK(r, now) /\ r.row
        /\ r.rex_balance = rb.rex_balance + rex
        /\ rb.matured_rex <= r.matured_rex
    BY <1>2, <1>6, <2>1, RowPaid
  <2> QED
    BY <2>2 DEF BalanceRows
<1> HIDE DEF r
<1>8. /\ rows \in [Names -> BalanceRows] /\ rows[owner] = r
      /\ \A b \in Names : b # owner => rows[b] = s.rexbal[b]
      /\ Sum(SharesIn(rows)) = Sum(SharesIn(s.rexbal)) + (r.rex_balance - rb.rex_balance)
  BY <1>5, <1>7, RowReplaced
<1>9. t = u
  <2>1. t = [s3 EXCEPT !.rexbal = rows]
    BY <1>3, <1>4
  <2> HIDE DEF rows, q
  <2> QED
    BY <1>1, <1>2, <2>1 DEF TableSet
<1> HIDE DEF rows, q
<1>10. /\ u \in TableSet /\ u.rexbal = rows /\ u.pool = q /\ u.fund = s.fund /\ u.loans = s.loans
       /\ u.orders = s.orders /\ u.staked = s.staked /\ u.voting = s.voting /\ u.dbw = s.dbw
       /\ u.weight = s.weight /\ u.acct = s.acct
  BY <1>1, <1>2, <1>8 DEF TableSet
<1> HIDE DEF u
<1>11. SharesOK(q, rows)
  <2>1. Sum(SharesIn(s.rexbal)) \in Nat /\ s.pool.total_rex = Sum(SharesIn(s.rexbal))
    BY <1>5, ShareSums DEF Good, SharesOK
  <2> QED
    BY <1>2, <1>6, <1>7, <1>8, <2>1 DEF SharesOK
<1>12. BackedOK(s.acct, q, s.fund, s.loans, s.orders, 0)
  <2> DEFINE l == s.pool.total_lendable
             sf == Sum(s.fund)
             lb == LoanSum(BalanceIn(s.loans))
             sp == Sum(ProceedsIn(s.orders))
             m == q.total_lendable
  <2>1. s.acct.rex = l + sf + lb + sp + payment
    BY DEF Good, BackedOK
  <2>2. l \in Nat /\ sf \in Nat /\ lb \in Nat /\ sp \in Nat
    BY <1>5, SumToNat, NAssumption, LoanSums, ProceedsSums DEF Sum, Names, PoolRows
  <2>3. m = l + payment
    BY <1>2
  <2> HIDE DEF l, sf, lb, sp, m
  <2>4. s.acct.rex = m + sf + lb + sp + 0
    BY <2>1, <2>2, <2>3
  <2> QED
    BY <2>4 DEF BackedOK, m, sf, lb, sp
<1>13. LoansOK(q, s.loans) /\ NamebidsOK(s.acct, q)
  BY <1>2 DEF Good, LoansOK, NamebidsOK
<1>14. VotesOK(rows, s.voting)
  BY <1>8 DEF Good, VotesOK
<1>15. RowsOK(rows, now)
  BY <1>7, <1>8 DEF Good, RowsOK
<1>16. OrdersOK(s.orders, rows, {})
  <2> SUFFICES ASSUME NEW b \in Names
               PROVE  /\ OrderOK(s.orders[b])
                      /\ s.orders[b].state = "open" => s.orders[b].rex_requested <= rows[b].matured_rex
    BY DEF OrdersOK
  <2>1. /\ OrderOK(s.orders[b])
        /\ s.orders[b].state = "open" => s.orders[b].rex_requested <= s.rexbal[b].matured_rex
    BY DEF Good, OrdersOK
  <2>2. CASE b = owner
    <3>1. s.orders[b].rex_requested \in Nat
      <4>1. s.orders[b] \in OrderRows
        BY <1>5
      <4> QED
        BY <4>1 DEF OrderRows
    <3>2. s.rexbal[b] = rb /\ rows[b] = r
      BY <1>8, <2>2
    <3> HIDE DEF rb
    <3> QED
      BY <1>6, <1>7, <2>1, <3>1, <3>2
  <2>3. CASE b # owner
    BY <1>8, <2>1, <2>3
  <2> QED
    BY <2>2, <2>3
<1>17. WeightOK(s.weight, s.dbw, s.loans)
  BY DEF Good
<1>18. Good(u, now, 0, {})
  BY <1>2, <1>10, <1>11, <1>12, <1>13, <1>14, <1>15, <1>16, <1>17 DEF Good
<1>19. Purchased(s, u, owner)
  BY <1>2, <1>8, <1>10 DEF Purchased
<1> QED
  BY <1>4, <1>9, <1>10, <1>18, <1>19 DEF t, s3

\* Price, queue and claims over a purchase, the maintenance and the update of
\* the account of the buyer.
LEMMA PurchaseSteps ==
  ASSUME NEW s \in TableSet, NEW t \in TableSet, NEW u \in TableSet, NEW v \in TableSet,
         NEW owner \in Names, NEW delta \in Int,
         Purchased(s, t, owner), RunStep(t, u), AccountStep(u, v, owner, delta),
         t.dbw = s.dbw => delta = StakeBought(s, t, owner)
  PROVE  Steps(s, v)
<1>1. s.pool \in PoolRows /\ t.pool \in PoolRows /\ u.pool \in PoolRows /\ v.pool = u.pool
  BY Fields DEF AccountStep
<1>2. PriceKept(s, v)
  <2> SUFFICES ASSUME s.pool.total_rex > 0, u.pool.total_rex > 0
               PROVE  NotCheaper(s.pool, u.pool)
    BY <1>1 DEF PriceKept
  <2>1. NotCheaper(s.pool, t.pool) /\ NotCheaper(t.pool, u.pool) /\ t.pool.total_rex > 0
    BY DEF Purchased, RunStep
  <2> QED
    BY <1>1, <2>1, NotCheaperTransitive
<1>3. NothingLent(s, v)
  <2> SUFFICES ASSUME NEW a \in Names, s.orders[a].state = "open"
               PROVE  /\ v.pool.loan_num = s.pool.loan_num
                      /\ \A k \in LoanIds : v.loans[k] = s.loans[k] \/ v.loans[k].kind = "none"
    BY DEF NothingLent
  <2>1. t.orders[a].state = "open"
    BY DEF Purchased
  <2>2. \A k \in LoanIds : u.loans[k] \in {t.loans[k], NoLoan}
    BY <2>1 DEF RunStep
  <2>3. NoLoan.kind = "none"
    BY DEF NoLoan
  <2> QED
    BY <1>1, <2>2, <2>3 DEF AccountStep, Purchased, RunStep
<1>4. ClaimsKept(s, v)
  <2> SUFFICES ASSUME NEW a \in Names, v.dbw = s.dbw PROVE Claim(v, a) = Claim(s, a)
    BY DEF ClaimsKept
  <2>1. v.dbw = t.dbw
    BY DEF AccountStep, RunStep
  <2>2. /\ u.staked[a] = t.staked[a] /\ t.staked[a] = s.staked[a] /\ t.orders[a] = s.orders[a]
        /\ u.orders[a].stake_change - u.rexbal[a].vote_stake =
              t.orders[a].stake_change - t.rexbal[a].vote_stake
        /\ v.rexbal = u.rexbal
    BY DEF RunStep, Purchased, AccountStep
  <2>3. CASE a = owner
    <3> DEFINE st == s.staked[a]
               stv == v.staked[a]
               c == s.orders[a].stake_change
               cu == u.orders[a].stake_change
               cv == v.orders[a].stake_change
               r == s.rexbal[a].vote_stake
               rt == t.rexbal[a].vote_stake
               ru == u.rexbal[a].vote_stake
    <3>1. /\ st \in Int /\ stv \in Int /\ c \in Int /\ cu \in Int /\ cv \in Int
          /\ r \in Int /\ rt \in Int /\ ru \in Int
      <4>1. /\ s.staked \in [Names -> Int] /\ v.staked \in [Names -> Int]
            /\ s.orders \in [Names -> OrderRows] /\ u.orders \in [Names -> OrderRows]
            /\ v.orders \in [Names -> OrderRows]
            /\ s.rexbal \in [Names -> BalanceRows] /\ t.rexbal \in [Names -> BalanceRows]
            /\ u.rexbal \in [Names -> BalanceRows]
        BY Fields
      <4> QED
        BY <4>1 DEF OrderRows, BalanceRows
    <3>2. delta = rt - r
      BY <2>1, <2>3 DEF StakeBought
    <3>3. stv + cv = st + cu + delta
      BY <2>2, <2>3 DEF AccountStep
    <3>4. cu - ru = c - rt
      BY <2>2
    <3> HIDE DEF st, stv, c, cu, cv, r, rt, ru
    <3>5. stv + (cv - ru) = st + (c - r)
      BY <3>1, <3>2, <3>3, <3>4
    <3> QED
      BY <2>2, <3>5 DEF Claim, st, stv, c, cv, r, ru
  <2>4. CASE a # owner
    <3>1. t.rexbal[a] = s.rexbal[a] /\ v.orders[a] = u.orders[a] /\ v.staked[a] = u.staked[a]
      BY <2>4 DEF Purchased, AccountStep
    <3> QED
      BY <2>2, <3>1 DEF Claim
  <2> QED
    BY <2>3, <2>4
<1> QED
  BY <1>2, <1>3, <1>4 DEF Steps

\* The end of both actions that buy: the maintenance and the update of the account.
LEMMA PurchaseEnds ==
  ASSUME Inv, NEW s, NEW owner \in Names, NEW payment \in Nat, payment > 0,
         Good(s, now, payment, {}), s.voting[owner],
         s.pool = pool, s.loans = loans, s.orders = orders, s.staked = staked, s.rexbal = rexbal,
         NEW delta \in Int, NEW force \in BOOLEAN,
         s.dbw = dbw => delta = StakeBought(add_to_rex_pool(s, payment), Purchase(s, owner, payment), owner),
         Commit(update_rex_account(runrex(Purchase(s, owner, payment), RunMax), owner, 0, delta, force))
  PROVE  Done
<1> DEFINE s3 == add_to_rex_pool(s, payment)
           t == Purchase(s, owner, payment)
           u == runrex(t, RunMax)
           v == update_rex_account(u, owner, 0, delta, force)
<1>1. /\ Good(t, now, 0, {}) /\ t \in TableSet /\ Purchased(s, t, owner)
      /\ t.dbw = s.dbw
      /\ s3.rexbal = s.rexbal
  BY Bought
<1> HIDE DEF t, s3
<1>2. Good(u, now, 0, {}) /\ u \in TableSet /\ RunStep(t, u)
  <2>1. 0 \in Int /\ t.pool.initialized /\ RunMax \in Nat
    BY <1>1, RunAssumption DEF Purchased
  <2>2. Good(u, now, 0, {}) /\ RunStep(t, u)
    BY <1>1, <2>1, Maintained
  <2> HIDE DEF u
  <2> QED
    BY <2>2, GoodTables
<1> HIDE DEF u
<1>3. v.ok
  BY Committed DEF t, u
<1>4. Good(v, now, 0, {}) /\ v \in TableSet /\ AccountStep(u, v, owner, delta)
  BY <1>2, <1>3, AccountAfter
<1>5. Commit(v)
  BY DEF t, u
<1> HIDE DEF v
<1>6. Tables \in TableSet
  BY DEF Inv, Good
<1>7. /\ Tables.pool = s.pool /\ Tables.loans = s.loans /\ Tables.orders = s.orders
      /\ Tables.staked = s.staked /\ Tables.rexbal = s.rexbal /\ Tables.dbw = dbw
  BY DEF Tables
<1>8. Purchased(Tables, t, owner)
  BY <1>1, <1>7 DEF Purchased
<1>9. t.dbw = Tables.dbw => delta = StakeBought(Tables, t, owner)
  BY <1>1, <1>7 DEF StakeBought, t, s3
<1>10. Steps(Tables, v)
  BY <1>1, <1>2, <1>4, <1>6, <1>8, <1>9, PurchaseSteps
<1> QED
  BY <1>4, <1>5, <1>10, GoodCommitted

\* The vote stake that a purchase adds is a number.
LEMMA StakeBoughtInt ==
  ASSUME Inv, NEW s, NEW owner \in Names, NEW payment \in Nat, payment > 0,
         Good(s, now, payment, {}), s.voting[owner]
  PROVE  StakeBought(add_to_rex_pool(s, payment), Purchase(s, owner, payment), owner) \in Int
<1> DEFINE s3 == add_to_rex_pool(s, payment)
           t == Purchase(s, owner, payment)
<1>1. t \in TableSet /\ s3.rexbal = s.rexbal
  BY Bought
<1>2. s \in TableSet
  BY GoodTables
<1> HIDE DEF t, s3
<1>3. s3.rexbal \in [Names -> BalanceRows] /\ t.rexbal \in [Names -> BalanceRows]
  BY <1>1, <1>2, Fields
<1>4. s3.rexbal[owner].vote_stake \in Int /\ t.rexbal[owner].vote_stake \in Int
  BY <1>3 DEF BalanceRows
<1>5. StakeBought(s3, t, owner) \in Int
  BY <1>4 DEF StakeBought
<1> QED
  BY <1>5 DEF s3, t

\* buyrex pays from the fund.
LEMMA BuyRex ==
  ASSUME Inv, NEW from \in Names, NEW amount \in Int, buyrex(from, amount)
  PROVE  Done
<1> DEFINE s == Tables
           s1 == check_voting_requirement(s, from)
           f == [s1.fund EXCEPT ![from] = s1.fund[from] - amount]
           s2 == transfer_from_fund(s1, from, amount)
           s3 == add_to_rex_pool(s2, amount)
           s4 == Purchase(s2, from, amount)
           delta == StakeBought(s3, s4, from)
<1>1. s2.ok /\ Commit(update_rex_account(runrex(s4, RunMax), from, 0, delta, FALSE))
  BY DEF buyrex, Purchase
<1>2. Good(s, now, 0, {}) /\ s \in TableSet
  BY DEF Inv, Good
<1> HIDE DEF s4, s3
<1>3. /\ s.pool = pool /\ s.loans = loans /\ s.orders = orders /\ s.staked = staked
      /\ s.rexbal = rexbal /\ s.dbw = dbw
  BY DEF Tables
<1> HIDE DEF s
<1>4. "ok" \in DOMAIN s1 /\ (s1.ok => s.voting[from])
  BY <1>2 DEF check_voting_requirement, Check, TableSet
<1>5. s2.ok => s1.ok
  <2> HIDE DEF s1
  <2> QED
    BY <1>4 DEF transfer_from_fund, Check
<1>6. s1 = s /\ s.voting[from]
  <2>1. s.voting \in [Names -> BOOLEAN]
    BY <1>2, Fields
  <2>2. s.voting[from] \in BOOLEAN
    BY <2>1
  <2> QED
    BY <1>1, <1>2, <1>4, <1>5, <2>2, Checked DEF check_voting_requirement
<1> HIDE DEF s1
<1>7. /\ 0 < amount
      /\ s2 = [s EXCEPT !.fund = f]
      /\ s2 \in TableSet
      /\ Sum(s.fund) \in Nat
      /\ Sum(f) = Sum(s.fund) - amount
  BY <1>1, <1>2, <1>6, TakesFund
<1> HIDE DEF s2
<1>8. f \in [Names -> Nat]
  <2>1. s2.fund = f
    BY <1>2, <1>7 DEF TableSet
  <2> HIDE DEF f
  <2>2. s2 \in TableSet
    BY <1>7
  <2>3. s2.fund \in [Names -> Nat]
    BY <2>2, Fields
  <2> QED
    BY <2>1, <2>3
<1> HIDE DEF f
<1>9. Good(s2, now, amount, {})
  <2> DEFINE zero == 0
  <2>1. zero \in Int /\ zero = 0
    OBVIOUS
  <2>2. Sum(f) + amount = Sum(s.fund) + zero
    <3>1. Sum(f) \in Nat
      BY <1>8, SumToNat, NAssumption DEF Sum, Names
    <3> QED
      BY <1>7, <3>1
  <2>3. Good(s, now, zero, {})
    BY <1>2
  <2> HIDE DEF zero
  <2> QED
    BY <1>7, <1>8, <2>1, <2>2, <2>3, FundMoved
<1>10. /\ s2.pool = pool /\ s2.loans = loans /\ s2.orders = orders /\ s2.staked = staked
       /\ s2.rexbal = rexbal /\ s2.dbw = dbw /\ s2.voting[from]
  BY <1>2, <1>3, <1>6, <1>7 DEF TableSet
<1>11. amount \in Nat /\ amount > 0 /\ FALSE \in BOOLEAN
  BY <1>7
<1>12. delta \in Int
  BY <1>9, <1>10, <1>11, StakeBoughtInt DEF s3, s4
<1> QED
  BY <1>1, <1>9, <1>10, <1>11, <1>12, PurchaseEnds DEF s3, s4

\* What one account delegates to another changes.
Redelegated(d, a, b, row) == [d EXCEPT ![a] = [d[a] EXCEPT ![b] = row]]

\* It changes what is delegated to that account by the difference.
LEMMA DelegationReplaced ==
  ASSUME NEW d \in Delegations, NEW a \in Names, NEW b \in Names, NEW row \in [Kinds -> Nat]
  PROVE  LET new == Redelegated(d, a, b, row) IN
         /\ new \in Delegations
         /\ new[a][b] = row
         /\ \A c \in Names, kind \in Kinds :
               Sum(DelegatedIn(new, kind, c)) =
                  Sum(DelegatedIn(d, kind, c)) + (IF c = b THEN row[kind] - d[a][b][kind] ELSE 0)
<1> DEFINE da == [d[a] EXCEPT ![b] = row]
           new == Redelegated(d, a, b, row)
<1>1. d \in [Names -> [Names -> [Kinds -> Nat]]] /\ d[a] \in [Names -> [Kinds -> Nat]]
  BY DEF Delegations
<1>2. da \in [Names -> [Kinds -> Nat]] /\ da[b] = row /\ \A c \in Names : c # b => da[c] = d[a][c]
  BY <1>1
<1>2a. new = [d EXCEPT ![a] = da]
  BY DEF Redelegated
<1> HIDE DEF da, new
<1>3. new \in Delegations /\ new[a] = da /\ \A c \in Names : c # a => new[c] = d[c]
  BY <1>1, <1>2, <1>2a DEF Delegations
<1>4. ASSUME NEW c \in Names, NEW kind \in Kinds
      PROVE  Sum(DelegatedIn(new, kind, c)) =
                Sum(DelegatedIn(d, kind, c)) + (IF c = b THEN row[kind] - d[a][b][kind] ELSE 0)
  <2> DEFINE f == DelegatedIn(d, kind, c)
             g == DelegatedIn(new, kind, c)
             x == IF c = b THEN row[kind] - d[a][b][kind] ELSE 0
  <2>1. f \in [1 .. N -> Nat] /\ g \in [1 .. N -> Nat]
    BY <1>3, DelegatedSums
  <2>2. \A e \in 1 .. N : f[e] = d[e][c][kind] /\ g[e] = new[e][c][kind]
    BY DEF DelegatedIn, Names
  <2>3. a \in 1 .. N /\ N \in Nat
    BY NAssumption DEF Names
  <2>4. \A e \in 1 .. N : e # a => g[e] = f[e]
    BY <1>3, <2>2 DEF Names
  <2>5. x \in Int
    <3>1. row[kind] \in Nat /\ d[a][b] \in [Kinds -> Nat]
      BY <1>1
    <3>2. d[a][b][kind] \in Nat
      BY <3>1
    <3> QED
      BY <3>1, <3>2
  <2>6. g[a] = f[a] + x
    <3>1. g[a] = da[c][kind] /\ f[a] = d[a][c][kind] /\ f[a] \in Nat
      BY <1>3, <2>1, <2>2, <2>3
    <3>2. CASE c = b
      <4>1. d[a][b][kind] = f[a] /\ g[a] = row[kind] /\ row[kind] \in Nat
        BY <1>2, <3>1, <3>2
      <4> QED
        BY <3>1, <3>2, <4>1
    <3>3. CASE c # b
      BY <1>2, <3>1, <3>3
    <3> QED
      BY <3>2, <3>3
  <2> HIDE DEF f, g, x
  <2>7. f \in [1 .. N -> Int] /\ g \in [1 .. N -> Int]
    BY <2>1
  <2>8. SumTo(g, N) = SumTo(f, N) + x
    BY <2>3, <2>4, <2>5, <2>6, <2>7, SumToAdd
  <2> QED
    BY <2>8 DEF Sum, f, g, x
<1> QED
  BY <1>2, <1>3, <1>4 DEF new, da

\* Staked tokens of the owner go to eosio.rex, and the weights follow.
LEMMA Undelegated ==
  ASSUME Inv, NEW owner \in Names, NEW b \in Names, NEW net \in Nat, NEW cpu \in Nat,
         net <= dbw[owner][b]["net"], cpu <= dbw[owner][b]["cpu"],
         NEW w \in [Names -> [Kinds -> Nat]], NEW w1,
         WeightMoves(weight, w1, b, "net", -net), WeightMoves(w1, w, b, "cpu", -cpu)
  PROVE  LET d  == Redelegated(dbw, owner, b, Unstaked(dbw[owner][b], net, cpu))
             ac == [acct EXCEPT !.stake = acct.stake - (net + cpu), !.rex = acct.rex + (net + cpu)]
         IN  /\ d \in Delegations
             /\ net + cpu > 0 => d # dbw
             /\ Good([Tables EXCEPT !.dbw = d, !.weight = w, !.acct = ac], now, net + cpu, {})
<1> DEFINE s == Tables
           row == Unstaked(dbw[owner][b], net, cpu)
           d == Redelegated(dbw, owner, b, row)
           payment == net + cpu
           ac == [acct EXCEPT !.stake = acct.stake - payment, !.rex = acct.rex + payment]
           taken(kind) == IF kind = "net" THEN net ELSE cpu
<1>1. Good(s, now, 0, {}) /\ s \in TableSet
  BY DEF Inv, Good
<1>2. /\ s.dbw = dbw /\ s.weight = weight /\ s.acct = acct /\ s.loans = loans
  BY DEF Tables
<1>3. dbw \in Delegations /\ acct \in Accounts /\ weight \in [Names -> [Kinds -> Nat]]
      /\ loans \in [LoanIds -> LoanRows]
  BY <1>1, <1>2, Fields
<1>4. dbw[owner][b] \in [Kinds -> Nat]
  <2>1. dbw[owner] \in [Names -> [Kinds -> Nat]]
    BY <1>3 DEF Delegations
  <2> QED
    BY <2>1
<1>5. /\ row \in [Kinds -> Nat]
      /\ \A kind \in Kinds : row[kind] = dbw[owner][b][kind] - taken(kind)
  <2>1. \A kind \in Kinds : taken(kind) \in Nat /\ dbw[owner][b][kind] \in Nat
                            /\ taken(kind) <= dbw[owner][b][kind]
    BY <1>4 DEF Kinds
  <2>2. \A kind \in Kinds : dbw[owner][b][kind] - taken(kind) \in Nat
    BY <2>1
  <2>3. row = [kind \in Kinds |-> dbw[owner][b][kind] - taken(kind)]
    BY DEF Unstaked
  <2> HIDE DEF row, taken
  <2> QED
    BY <2>2, <2>3
<1> HIDE DEF row
<1>6. /\ d \in Delegations
      /\ d[owner][b] = row
      /\ \A c \in Names, kind \in Kinds :
            Sum(DelegatedIn(d, kind, c)) =
               Sum(DelegatedIn(dbw, kind, c)) + (IF c = b THEN row[kind] - dbw[owner][b][kind] ELSE 0)
  BY <1>3, <1>5, DelegationReplaced
<1> HIDE DEF d
<1>7. payment > 0 => d # dbw
  <2> SUFFICES ASSUME payment > 0, d = dbw PROVE FALSE
    OBVIOUS
  <2>1. "net" \in Kinds /\ "cpu" \in Kinds
    BY DEF Kinds
  <2>2. row = dbw[owner][b]
    BY <1>6
  <2>3. dbw[owner][b]["net"] \in Nat /\ dbw[owner][b]["cpu"] \in Nat
    BY <1>4, <2>1
  <2>4. row["net"] = dbw[owner][b]["net"] - net /\ row["cpu"] = dbw[owner][b]["cpu"] - cpu
    BY <1>5, <2>1
  <2> QED
    BY <2>2, <2>3, <2>4
<1>8. WeightOK(w, d, loans)
  <2> SUFFICES ASSUME NEW c \in Names, NEW kind \in Kinds
               PROVE  w[c][kind] = Sum(DelegatedIn(d, kind, c)) + LoanSum(RentedIn(loans, kind, c))
    BY DEF WeightOK
  <2>1. weight[c][kind] = Sum(DelegatedIn(dbw, kind, c)) + LoanSum(RentedIn(loans, kind, c))
    BY <1>1, <1>2 DEF Good, WeightOK
  <2>2. /\ Sum(DelegatedIn(dbw, kind, c)) \in Nat /\ LoanSum(RentedIn(loans, kind, c)) \in Nat
    BY <1>3, DelegatedSums, RentedSums
  <2>3. weight[c][kind] \in Nat
    <3>1. weight[c] \in [Kinds -> Nat]
      BY <1>3
    <3> QED
      BY <3>1
  <2>4. w[c][kind] = weight[c][kind] - (IF c = b THEN taken(kind) ELSE 0)
    <3>1. w1[c][kind] = IF c = b /\ kind = "net" THEN weight[b]["net"] + (-net) ELSE weight[c][kind]
      BY DEF WeightMoves
    <3>2. w[c][kind] = IF c = b /\ kind = "cpu" THEN w1[b]["cpu"] + (-cpu) ELSE w1[c][kind]
      BY DEF WeightMoves
    <3>3. kind = "net" \/ kind = "cpu"
      BY DEF Kinds
    <3> QED
      BY <2>3, <3>1, <3>2, <3>3
  <2>5. Sum(DelegatedIn(d, kind, c)) =
           Sum(DelegatedIn(dbw, kind, c)) - (IF c = b THEN taken(kind) ELSE 0)
    <3>1. row[kind] = dbw[owner][b][kind] - taken(kind) /\ dbw[owner][b][kind] \in Nat
          /\ taken(kind) \in Nat
      BY <1>4, <1>5
    <3> QED
      BY <1>6, <2>2, <3>1
  <2>6. taken(kind) \in Nat
    OBVIOUS
  <2> QED
    BY <2>1, <2>2, <2>4, <2>5, <2>6
<1>9. ac \in Accounts /\ ac.rex = acct.rex + payment /\ ac.names = acct.names /\ acct.rex \in Int
  <2>1. acct.stake \in Int /\ acct.rex \in Int /\ payment \in Int
    BY <1>3 DEF Accounts
  <2> DEFINE x == acct.stake - payment
             y == acct.rex + payment
  <2>2. x \in Int /\ y \in Int
    BY <2>1
  <2>3. ac = [acct EXCEPT !.stake = x, !.rex = y]
    OBVIOUS
  <2> HIDE DEF payment, x, y, ac
  <2>4. ac \in Accounts /\ ac.rex = y /\ ac.names = acct.names
    BY <1>3, <2>2, <2>3 DEF Accounts
  <2> QED
    BY <2>1, <2>4 DEF y
<1> HIDE DEF ac
<1> DEFINE s1 == [s EXCEPT !.dbw = d, !.weight = w]
           u  == [s1 EXCEPT !.own = s.own, !.acct = ac]
<1>10. /\ s1 \in TableSet /\ s1.rexbal = s.rexbal /\ s1.pool = s.pool /\ s1.fund = s.fund
       /\ s1.loans = s.loans /\ s1.orders = s.orders /\ s1.staked = s.staked
       /\ s1.voting = s.voting /\ s1.dbw = d /\ s1.weight = w /\ s1.own = s.own /\ s1.acct = s.acct
  <2> HIDE DEF s
  <2> QED
    BY <1>1, <1>6 DEF TableSet
<1>11. Good(s1, now, 0, {})
  <2> HIDE DEF s1
  <2> QED
    BY <1>1, <1>2, <1>8, <1>10 DEF Good
<1>12. u = [s EXCEPT !.dbw = d, !.weight = w, !.acct = ac]
  <2> HIDE DEF s
  <2> QED
    BY <1>1, <1>6 DEF TableSet
<1>13. Good(u, now, payment, {})
  <2> DEFINE zero == 0
  <2>1. zero \in Int /\ payment \in Int /\ ac.rex + zero = s1.acct.rex + payment /\ Good(s1, now, zero, {})
    BY <1>2, <1>9, <1>10, <1>11
  <2>2. s.own \in [Names -> Nat]
    BY <1>1, Fields
  <2>3. NamebidsOK(ac, s1.pool)
    BY <1>1, <1>2, <1>9, <1>10 DEF Good, NamebidsOK
  <2> HIDE DEF zero, s1, payment, s
  <2> QED
    BY <1>9, <2>1, <2>2, <2>3, AccountsMoved
<1> QED
  BY <1>6, <1>7, <1>12, <1>13 DEF d, row, ac

\* unstaketorex pays with staked tokens; the weight goes first.
LEMMA UnstakeToRex ==
  ASSUME Inv, NEW owner \in Names, NEW b \in Names, NEW net \in Int, NEW cpu \in Int,
         unstaketorex(owner, b, net, cpu)
  PROVE  Done
<1> DEFINE s == Tables
           payment == net + cpu
           d == Redelegated(dbw, owner, b, Unstaked(dbw[owner][b], net, cpu))
           ac == [acct EXCEPT !.stake = acct.stake - payment, !.rex = acct.rex + payment]
           s1 == check_voting_requirement(s, owner)
           s2 == [s1 EXCEPT !.dbw[owner][b] = Unstaked(dbw[owner][b], net, cpu)]
           s3 == update_resource_limits(s2, b, "net", -net)
           s4 == update_resource_limits(s3, b, "cpu", -cpu)
           s5 == [s4 EXCEPT !.acct.stake = @ - payment, !.acct.rex = @ + payment]
           w == s4.weight
           u == [s EXCEPT !.dbw = d, !.weight = w, !.acct = ac]
<1>1. /\ 0 <= net /\ 0 <= cpu /\ 0 < payment
      /\ net <= dbw[owner][b]["net"] /\ cpu <= dbw[owner][b]["cpu"]
      /\ s4.ok
      /\ Commit(update_rex_account(runrex(Purchase(s5, owner, payment), RunMax), owner, 0, 0, TRUE))
  BY ZenonT(60) DEF unstaketorex, Purchase
<1>2. Good(s, now, 0, {}) /\ s \in TableSet
  BY DEF Inv, Good
<1>3. /\ s.pool = pool /\ s.loans = loans /\ s.orders = orders /\ s.staked = staked
      /\ s.rexbal = rexbal /\ s.dbw = dbw /\ s.weight = weight /\ s.acct = acct
  BY DEF Tables
<1> HIDE DEF s
<1>4. "ok" \in DOMAIN s1 /\ (s1.ok => s.voting[owner])
  BY <1>2 DEF check_voting_requirement, Check, TableSet
<1> HIDE DEF s1
<1>5. "ok" \in DOMAIN s2 /\ s2.ok = s1.ok
  BY <1>4
<1> HIDE DEF s2
<1>6. "ok" \in DOMAIN s3 /\ (s3.ok => s2.ok)
  BY <1>5 DEF update_resource_limits, Check
<1> HIDE DEF s3
<1>7. "ok" \in DOMAIN s4 /\ (s4.ok => s3.ok)
  BY <1>6 DEF update_resource_limits, Check
<1> HIDE DEF s4, s5
<1>8. s1 = s /\ s.voting[owner]
  <2>1. s.voting \in [Names -> BOOLEAN]
    BY <1>2, Fields
  <2>2. s.voting[owner] \in BOOLEAN
    BY <2>1
  <2> QED
    BY <1>1, <1>2, <1>4, <1>5, <1>6, <1>7, <2>2, Checked DEF check_voting_requirement, s1
<1>9. s2 = [s EXCEPT !.dbw = d]
  BY <1>3, <1>8 DEF s2, Redelegated
<1>10. net \in Nat /\ cpu \in Nat /\ payment \in Nat /\ payment > 0
  BY <1>1
<1>11. d \in Delegations
  <2> DEFINE row == Unstaked(dbw[owner][b], net, cpu)
  <2>1. dbw \in Delegations
    BY <1>2, <1>3, Fields
  <2>2. dbw[owner][b] \in [Kinds -> Nat]
    <3>1. dbw[owner] \in [Names -> [Kinds -> Nat]]
      BY <2>1 DEF Delegations
    <3> QED
      BY <3>1
  <2>3. \A kind \in Kinds : dbw[owner][b][kind] - (IF kind = "net" THEN net ELSE cpu) \in Nat
    BY <1>1, <1>10, <2>2 DEF Kinds
  <2>4. row \in [Kinds -> Nat]
    BY <2>3 DEF Unstaked
  <2> HIDE DEF row
  <2> QED
    BY <2>1, <2>4, DelegationReplaced DEF row
<1> HIDE DEF d
<1>12. s2 \in TableSet /\ s2.weight = weight
  BY <1>2, <1>3, <1>9, <1>11 DEF TableSet
<1>13. "net" \in Kinds /\ "cpu" \in Kinds /\ -net \in Int /\ -cpu \in Int
  BY DEF Kinds
<1>14. /\ s3 = [s2 EXCEPT !.weight = s3.weight]
       /\ s3 \in TableSet
       /\ WeightMoves(weight, s3.weight, b, "net", -net)
  <2> DEFINE minus == -net
  <2>1. minus \in Int /\ s3 = update_resource_limits(s2, b, "net", minus)
    BY <1>13 DEF s3
  <2> HIDE DEF minus
  <2>2. 0 <= s2.weight[b]["net"] + minus
    BY <1>1, <1>7, <1>12, <1>13, <2>1, MovesWeight
  <2>3. /\ s3 = [s2 EXCEPT !.weight = s3.weight]
        /\ s3 \in TableSet
        /\ WeightMoves(s2.weight, s3.weight, b, "net", minus)
    BY <1>12, <1>13, <2>1, <2>2, MovesWeight
  <2> QED
    BY <1>12, <2>3 DEF minus
<1>15. /\ s4 = [s3 EXCEPT !.weight = w]
       /\ s4 \in TableSet
       /\ w \in [Names -> [Kinds -> Nat]]
       /\ WeightMoves(s3.weight, w, b, "cpu", -cpu)
  BY <1>1, <1>13, <1>14, MovesWeight DEF s4
<1> HIDE DEF w
<1>16. s4 = [s EXCEPT !.dbw = d, !.weight = w]
  <2>1. s3 = [s EXCEPT !.dbw = d, !.weight = s3.weight]
    BY <1>2, <1>9, <1>14 DEF TableSet
  <2> QED
    BY <1>2, <1>15, <2>1 DEF TableSet
<1>17. s5 = u
  <2>1. s4.acct = acct
    BY <1>2, <1>3, <1>16 DEF TableSet
  <2>2. s5 = [s4 EXCEPT !.acct = ac]
    <3>1. acct \in Accounts
      BY <1>2, <1>3, Fields
    <3>2. s5 = [s4 EXCEPT !.acct = [[s4.acct EXCEPT !.stake = s4.acct.stake - payment]
                                      EXCEPT !.rex = s4.acct.rex + payment]]
      BY <1>15, <2>1, <3>1 DEF s5, TableSet, Accounts
    <3> QED
      BY <2>1, <3>1, <3>2 DEF Accounts
  <2> HIDE DEF ac
  <2> QED
    BY <1>2, <1>16, <2>2 DEF TableSet
<1>18. Good(u, now, payment, {}) /\ d # dbw
  BY <1>1, <1>10, <1>14, <1>15, Undelegated DEF d, s
<1>19. /\ u.pool = pool /\ u.loans = loans /\ u.orders = orders /\ u.staked = staked
       /\ u.rexbal = rexbal /\ u.dbw = d /\ u.voting[owner]
  BY <1>2, <1>3, <1>8 DEF TableSet
<1> HIDE DEF u, payment
<1>20. 0 \in Int /\ TRUE \in BOOLEAN
  OBVIOUS
<1> QED
  BY <1>1, <1>10, <1>17, <1>18, <1>19, <1>20, PurchaseEnds

-----------------------------------------------------------------------------
(* The beginning.                                                          *)

\* The invariant holds at the start.
LEMMA InitInv == Init => Inv
<1> SUFFICES ASSUME Init PROVE Inv
  OBVIOUS
<1> DEFINE s == Tables
<1>1. N \in Nat /\ MaxLoans \in Nat /\ InitFund \in Nat /\ InitStake \in Nat /\ InitOwn \in Nat
      /\ MaxTime \in Nat
  BY NAssumption, MaxLoansAssumption, InitAssumption, TimeAssumption
<1>2. now \in 0 .. MaxTime /\ now = 0
  BY <1>1 DEF Init
<1>3. /\ s.ok = TRUE /\ s.pool = pool /\ s.fund = fund /\ s.rexbal = rexbal /\ s.loans = loans
      /\ s.orders = orders /\ s.staked = staked /\ s.voting = voting /\ s.dbw = dbw
      /\ s.weight = weight /\ s.own = own /\ s.acct = acct
  BY DEF Tables
<1>4. NoLoan \in LoanRows /\ NoLoan.kind = "none" /\ NoLoan.total_staked = 0 /\ NoLoan.balance = 0
  BY <1>1 DEF NoLoan, LoanRows
<1>5. /\ pool \in PoolRows
      /\ pool.total_lent = 0 /\ pool.total_unlent = 0 /\ pool.total_lendable = 0
      /\ pool.total_rex = 0 /\ pool.namebid_proceeds = 0
  BY DEF Init, PoolRows
<1>6. fund \in [Names -> Nat] /\ \A a \in Names : fund[a] = InitFund
  BY <1>1 DEF Init
<1>7. rexbal \in [Names -> BalanceRows] /\ \A a \in Names : rexbal[a] = NoBalance
  BY NoBalanceFacts DEF Init
<1>8. loans \in [LoanIds -> LoanRows] /\ \A k \in LoanIds : loans[k] = NoLoan
  BY <1>4 DEF Init
<1>9. orders \in [Names -> OrderRows] /\ \A a \in Names : orders[a] = NoOrder
  BY NoOrderFacts DEF Init
<1>10. staked \in [Names -> Int] /\ voting \in [Names -> BOOLEAN] /\ own \in [Names -> Nat]
  BY <1>1 DEF Init
<1>11. /\ dbw \in Delegations
       /\ \A a \in Names, b \in Names, kind \in Kinds :
             dbw[a][b][kind] = IF a = b THEN InitStake ELSE 0
  <2> DEFINE row(a, b) == [kind \in Kinds |-> IF a = b THEN InitStake ELSE 0]
             of(a) == [b \in Names |-> row(a, b)]
  <2>1. dbw = [a \in Names |-> of(a)]
    BY DEF Init
  <2>2. \A a \in Names, b \in Names : row(a, b) \in [Kinds -> Nat]
    BY <1>1
  <2>3. \A a \in Names : of(a) \in [Names -> [Kinds -> Nat]]
    BY <2>2
  <2>4. \A a \in Names, b \in Names, kind \in Kinds :
           of(a)[b][kind] = IF a = b THEN InitStake ELSE 0
    OBVIOUS
  <2> HIDE DEF of
  <2> QED
    BY <2>1, <2>3, <2>4 DEF Delegations
<1>12. /\ weight \in [Names -> [Kinds -> Nat]]
       /\ \A b \in Names, kind \in Kinds : weight[b][kind] = InitStake
  BY <1>1 DEF Init
<1>13. acct \in Accounts /\ acct.rex = N * InitFund /\ acct.names = 0
  <2> DEFINE x == N * InitFund
             y == 2 * N * InitStake
  <2>1. x \in Int /\ y \in Int
    BY <1>1
  <2>2. acct = [rex |-> x, stake |-> y, names |-> 0, ramfee |-> 0]
    BY DEF Init
  <2> HIDE DEF x, y
  <2>3. acct \in Accounts /\ acct.rex = x /\ acct.names = 0
    BY <2>1, <2>2 DEF Accounts
  <2> QED
    BY <2>3 DEF x
<1>14. Tables \in TableSet
  BY <1>5, <1>6, <1>7, <1>8, <1>9, <1>10, <1>11, <1>12, <1>13 DEF Tables, TableSet
<1>15. Sum(fund) = N * InitFund
  BY <1>1, <1>6, SumToConstant DEF Sum, Names
<1>16. Sum(ProceedsIn(orders)) = 0 /\ Sum(SharesIn(rexbal)) = 0
  <2>1. \A a \in 1 .. N : ProceedsIn(orders)[a] = 0 /\ SharesIn(rexbal)[a] = 0
    BY <1>7, <1>9, NoOrderFacts, NoBalanceFacts DEF ProceedsIn, SharesIn, Names
  <2> QED
    BY <1>1, <2>1, SumToAllZero DEF Sum
<1>17. LoanSum(StakedIn(loans)) = 0 /\ LoanSum(BalanceIn(loans)) = 0
  <2>1. \A k \in 1 .. MaxLoans : StakedIn(loans)[k] = 0 /\ BalanceIn(loans)[k] = 0
    BY <1>4, <1>8 DEF StakedIn, BalanceIn, LoanIds
  <2> QED
    BY <1>1, <2>1, SumToAllZero DEF LoanSum
<1>18. WeightOK(weight, dbw, loans)
  <2> SUFFICES ASSUME NEW b \in Names, NEW kind \in Kinds
               PROVE  weight[b][kind] = Sum(DelegatedIn(dbw, kind, b)) + LoanSum(RentedIn(loans, kind, b))
    BY DEF WeightOK
  <2> DEFINE f == DelegatedIn(dbw, kind, b)
             g == RentedIn(loans, kind, b)
  <2>1. \A k \in 1 .. MaxLoans : g[k] = 0
    BY <1>4, <1>8 DEF RentedIn, LoanIds
  <2>2. LoanSum(g) = 0
    BY <1>1, <2>1, SumToAllZero DEF LoanSum
  <2>3. f \in [1 .. N -> Nat]
    BY <1>11, DelegatedSums
  <2>4. b \in 1 .. N /\ \A a \in 1 .. N : f[a] = IF a = b THEN InitStake ELSE 0
    BY <1>11 DEF DelegatedIn, Names
  <2> HIDE DEF f, g
  <2>5. f \in [1 .. N -> Int] /\ InitStake \in Int
    BY <1>1, <2>3
  <2>6. SumTo(f, N) = InitStake
    BY <1>1, <2>4, <2>5, SumToSingle
  <2> QED
    BY <1>1, <1>12, <2>2, <2>6 DEF Sum, f, g
<1>19. /\ PoolOK(pool) /\ NamebidsOK(acct, pool)
  BY <1>5, <1>13 DEF PoolOK, NamebidsOK
<1>20. LoansOK(pool, loans)
  BY <1>4, <1>5, <1>8, <1>17 DEF LoansOK
<1>21. SharesOK(pool, rexbal)
  BY <1>5, <1>16 DEF SharesOK
<1>22. BackedOK(acct, pool, fund, loans, orders, 0)
  <2> DEFINE x == N * InitFund
  <2>1. x \in Int /\ acct.rex = x /\ Sum(fund) = x
    BY <1>1, <1>13, <1>15
  <2> HIDE DEF x
  <2> QED
    BY <1>5, <1>16, <1>17, <2>1 DEF BackedOK
<1>23. VotesOK(rexbal, voting)
  BY <1>7, NoBalanceFacts DEF VotesOK
<1>24. RowsOK(rexbal, now)
  <2>1. RowOK(NoBalance, now)
    BY NoBalanceFacts DEF RowOK, Ordered
  <2> QED
    BY <1>7, <2>1 DEF RowsOK
<1>25. OrdersOK(orders, rexbal, {})
  BY <1>9, NoOrderFacts DEF OrdersOK, OrderOK
<1> HIDE DEF s
<1> QED
  BY <1>2, <1>3, <1>14, <1>18, <1>19, <1>20, <1>21, <1>22, <1>23, <1>24, <1>25 DEF Inv, Good, s

-----------------------------------------------------------------------------
(* Every step.                                                             *)

\* A good step that is committed leaves the invariant.
LEMMA DoneInv ==
  ASSUME Inv, Done
  PROVE  Inv' /\ Steps(Tables, Tables')
<1>1. PICK t : Commit(t) /\ Good(t, now, 0, {}) /\ Steps(Tables, t)
  BY DEF Done
<1>2. t \in TableSet
  BY <1>1, GoodTables
<1>3. /\ pool' = t.pool /\ fund' = t.fund /\ rexbal' = t.rexbal /\ loans' = t.loans
      /\ orders' = t.orders /\ staked' = t.staked /\ voting' = t.voting /\ dbw' = t.dbw
      /\ weight' = t.weight /\ own' = t.own /\ acct' = t.acct /\ now' = now
  BY <1>1 DEF Commit
<1>4. Tables' = t
  <2>1. t = [ok |-> TRUE, pool |-> t.pool, fund |-> t.fund, rexbal |-> t.rexbal, loans |-> t.loans,
             orders |-> t.orders, staked |-> t.staked, voting |-> t.voting, dbw |-> t.dbw,
             weight |-> t.weight, own |-> t.own, acct |-> t.acct]
    BY <1>2 DEF TableSet
  <2> QED
    BY <1>3, <2>1 DEF Tables
<1>5. Good(Tables', now', 0, {})
  BY <1>1, <1>3, <1>4
<1>6. Inv'
  BY <1>3, <1>5 DEF Inv
<1> QED
  BY <1>1, <1>4, <1>6

\* Time alone disturbs nothing: the buckets stay in order.
LEMMA TickInv ==
  ASSUME Inv, Tick
  PROVE  Inv' /\ UNCHANGED <<pool, fund, rexbal, loans, orders, staked, voting, dbw, weight, own, acct>>
<1>1. /\ now' = now + 1 /\ now < MaxTime
      /\ UNCHANGED <<pool, fund, rexbal, loans, orders, staked, voting, dbw, weight, own, acct>>
  BY DEF Tick
<1>2. Tables' = Tables
  BY <1>1 DEF Tables
<1>3. now \in Nat /\ MaxTime \in Nat /\ now' \in 0 .. MaxTime
  BY <1>1, NowIsTime
<1> DEFINE m == get_rex_maturity(now)
           n == get_rex_maturity(now + 1)
<1>4. m \in Int /\ n \in Int /\ m <= n
  BY <1>3, MaturityGrows
<1> HIDE DEF m, n
<1>5. ASSUME NEW a \in Names PROVE RowOK(rexbal[a], now + 1)
  <2> DEFINE rb == rexbal[a]
             b == rb.rex_maturities
  <2>1. rb \in BalanceRows /\ RowOK(rb, now)
    <3>1. Good(Tables, now, 0, {}) /\ Tables.rexbal = rexbal
      BY DEF Inv, Tables
    <3> QED
      BY <3>1, GoodRow
  <2>2. b \in Seq(BucketRows)
    BY <2>1 DEF BalanceRows
  <2>3. Ordered(b, now)
    BY <2>1 DEF RowOK
  <2> HIDE DEF b
  <2>4. ASSUME NEW i \in 1 .. Len(b)
        PROVE  b[i].first <= n \/ (i = Len(b) /\ b[i].first = EndOfDays)
    <3>1. b[i].first \in Int
      <4>1. b[i] \in BucketRows
        BY <2>2
      <4> QED
        BY <4>1 DEF BucketRows
    <3>2. b[i].first <= m \/ (i = Len(b) /\ b[i].first = EndOfDays)
      BY <2>3 DEF Ordered, m
    <3> QED
      BY <1>4, <3>1, <3>2
  <2>5. Ordered(b, now + 1)
    BY <2>3, <2>4 DEF Ordered, n
  <2> QED
    BY <2>1, <2>5 DEF RowOK, b
<1>6. RowsOK(rexbal, now + 1)
  BY <1>5 DEF RowsOK
<1>7. Good(Tables, now + 1, 0, {})
  <2>1. Good(Tables, now, 0, {}) /\ Tables.rexbal = rexbal
    BY DEF Inv, Tables
  <2> QED
    BY <1>6, <2>1 DEF Good
<1>8. Inv'
  BY <1>1, <1>2, <1>3, <1>7 DEF Inv
<1> QED
  BY <1>1, <1>8

\* The parts of a row that are tried are whole amounts.
LEMMA AmountsInt ==
  ASSUME NEW part \in Int
  PROVE  RexAmounts(part, RexChoices) \subseteq Int
<1>1. part \in Int /\ part - 1 \in Int /\ part \div 2 \in Int /\ 1 \in Int
  OBVIOUS
<1>2. RexChoices \subseteq {"all", "rest", "half", "unit"}
  BY AmountsAssumption
<1> QED
  BY <1>1, <1>2 DEF RexAmounts

\* The steps by the part of the contract they belong to.
LEMMA FundsDone ==
  ASSUME Inv, Funds
  PROVE  Done
<1>1. \A amount \in Deposits : amount \in Int
  BY AmountsAssumption
<1> QED
  BY <1>1, Deposit, Withdraw DEF Funds

\* Purchases and sales.
LEMMA TradeDone ==
  ASSUME Inv, Trade
  PROVE  Done
<1>1. Lenders \subseteq Names /\ Purchases \subseteq Int /\ Unstakings \subseteq Int
  BY ActorsAssumption, AmountsAssumption
<1>2. CASE Buy(Purchases)
  BY <1>1, <1>2, BuyRex DEF Buy
<1>3. CASE Unstake
  BY <1>1, <1>3, UnstakeToRex DEF Unstake
<1>4. CASE Sell(RexChoices)
  <2>1. PICK a \in Lenders : \E rex \in RexAmounts(process_rex_maturities(rexbal[a], now).matured_rex, RexChoices) :
           sellrexNow(a, rex) \/ sellrexLater(a, rex)
    BY <1>4 DEF Sell
  <2> DEFINE r == process_rex_maturities(rexbal[a], now)
  <2>2. rexbal[a] \in BalanceRows
    <3>1. Good(Tables, now, 0, {}) /\ Tables.rexbal = rexbal /\ a \in Names
      BY <1>1 DEF Inv, Tables
    <3> QED
      BY <3>1, GoodRow
  <2>3. r \in BalanceRows
    BY <2>2, NowIsTime, ProcessRow
  <2> HIDE DEF r
  <2>4. r.matured_rex \in Int
    BY <2>3 DEF BalanceRows
  <2>5. RexAmounts(r.matured_rex, RexChoices) \subseteq Int
    BY <2>4, AmountsInt
  <2>6. PICK rex \in RexAmounts(r.matured_rex, RexChoices) : sellrexNow(a, rex) \/ sellrexLater(a, rex)
    BY <2>1 DEF r
  <2> QED
    BY <1>1, <2>5, <2>6, SellNow, SellLater
<1>5. CASE Hold
  BY <1>1, <1>5, CancelOrder, UpdateRex, CloseRex DEF Hold
<1> QED
  BY <1>2, <1>3, <1>4, <1>5 DEF Trade

\* Loans.
LEMMA RentDone ==
  ASSUME Inv, Rent
  PROVE  Done
<1>1. Renters \subseteq Names /\ LoanPayments \subseteq Int /\ LoanFunds \subseteq Int
  BY ActorsAssumption, AmountsAssumption
<1> QED
  BY <1>1, RentRex, FundLoan, DefundLoan DEF Rent

\* Savings.
LEMMA SavingsDone ==
  ASSUME Inv, Savings(RexChoices)
  PROVE  Done
<1>1. PICK a \in Savers :
        \/ consolidate(a)
        \/ \E rex \in RexAmounts(rexbal[a].rex_balance, RexChoices) : mvtosavings(a, rex)
        \/ \E rex \in RexAmounts(read_rex_savings(rexbal[a]), RexChoices) : mvfrsavings(a, rex)
  BY DEF Savings
<1>2. a \in Names
  BY ActorsAssumption
<1>3. Good(Tables, now, 0, {}) /\ Tables.rexbal = rexbal
  BY DEF Inv, Tables
<1>4. rexbal[a] \in BalanceRows /\ rexbal[a].rex_balance \in Int /\ Ordered(rexbal[a].rex_maturities, now)
  <2>1. /\ Tables.rexbal[a] \in BalanceRows /\ Tables.rexbal[a].rex_balance \in Nat
        /\ Ordered(Tables.rexbal[a].rex_maturities, now)
    BY <1>2, <1>3, GoodRow
  <2> QED
    BY <1>3, <2>1
<1>5. read_rex_savings(rexbal[a]) \in Int
  <2>1. read_rex_savings(rexbal[a]) \in Nat
    BY <1>4, NowIsTime, RowOpened
  <2> QED
    BY <2>1
<1>6. /\ RexAmounts(rexbal[a].rex_balance, RexChoices) \subseteq Int
      /\ RexAmounts(read_rex_savings(rexbal[a]), RexChoices) \subseteq Int
  BY <1>4, <1>5, AmountsInt
<1> QED
  BY <1>1, <1>2, <1>6, Consolidate, MoveToSavings, MoveFromSavings

\* Maintenance, settings, fees and votes.
LEMMA OthersDone ==
  ASSUME Inv, Execute \/ Settings \/ Fees \/ (\E satisfied \in Votes : Revote(satisfied))
  PROVE  Done
<1>1. /\ ExecMax \subseteq Nat /\ RentSettings \subseteq Int /\ FeeAmounts \subseteq Int
      /\ Votes \subseteq BOOLEAN /\ Lenders \subseteq Names
  BY RunAssumption, AmountsAssumption, ActorsAssumption
<1>2. CASE Execute
  BY <1>1, <1>2, RexExec DEF Execute
<1>3. CASE Settings
  BY <1>1, <1>3, SetRex DEF Settings
<1>4. CASE Fees
  BY <1>1, <1>4, RamFee, Namebid DEF Fees
<1>5. CASE \E satisfied \in Votes : Revote(satisfied)
  BY <1>1, <1>5, VoteProducer DEF Revote
<1> QED
  BY <1>2, <1>3, <1>4, <1>5

\* No step leaves the invariant, and no step but the passage of time does
\* anything that the action properties do not allow.
LEMMA InvStep ==
  ASSUME Inv, [Next]_vars
  PROVE  /\ Inv'
         /\ \/ Steps(Tables, Tables')
            \/ UNCHANGED <<pool, fund, rexbal, loans, orders, staked, voting, dbw, weight, own, acct>>
<1>1. ASSUME Done
      PROVE  Inv' /\ Steps(Tables, Tables')
  BY <1>1, DoneInv
<1>2. CASE Tick
  BY <1>2, TickInv
<1>3. CASE UNCHANGED vars
  BY <1>3 DEF vars, Inv, Tables
<1>4. CASE Next
  BY <1>1, <1>2, <1>4, FundsDone, TradeDone, RentDone, SavingsDone, OthersDone DEF Next
<1> QED
  BY <1>3, <1>4

-----------------------------------------------------------------------------
(* The theorems.                                                           *)

\* In every reachable state the tables have their types and all the parts of
\* the invariant hold together.
THEOREM Inductive == Spec => []Inv
<1>1. Inv /\ [Next]_vars => Inv'
  BY InvStep
<1> QED
  BY InitInv, <1>1, PTL DEF Spec

\* The parts of the invariant that the properties need, with the types.
LEMMA Parts ==
  ASSUME Inv
  PROVE  /\ pool \in PoolRows /\ PoolOK(pool) /\ LoansOK(pool, loans) /\ SharesOK(pool, rexbal)
         /\ BackedOK(acct, pool, fund, loans, orders, 0) /\ NamebidsOK(acct, pool)
         /\ WeightOK(weight, dbw, loans) /\ VotesOK(rexbal, voting)
         /\ RowsOK(rexbal, now) /\ OrdersOK(orders, rexbal, {})
         /\ rexbal \in [Names -> BalanceRows] /\ orders \in [Names -> OrderRows]
         /\ loans \in [LoanIds -> LoanRows] /\ fund \in [Names -> Nat] /\ dbw \in Delegations
         /\ staked \in [Names -> Int] /\ Tables \in TableSet
<1>1. Good(Tables, now, 0, {}) /\ Tables \in TableSet
  BY DEF Inv, Good
<1>2. /\ Tables.pool = pool /\ Tables.fund = fund /\ Tables.rexbal = rexbal /\ Tables.loans = loans
      /\ Tables.orders = orders /\ Tables.staked = staked /\ Tables.voting = voting /\ Tables.dbw = dbw
      /\ Tables.weight = weight /\ Tables.acct = acct
  BY DEF Tables
<1>3. /\ Tables.pool \in PoolRows /\ Tables.rexbal \in [Names -> BalanceRows]
      /\ Tables.orders \in [Names -> OrderRows] /\ Tables.loans \in [LoanIds -> LoanRows]
      /\ Tables.fund \in [Names -> Nat] /\ Tables.dbw \in Delegations
      /\ Tables.staked \in [Names -> Int]
  BY <1>1, Fields
<1> QED
  BY <1>1, <1>2, <1>3 DEF Good

\* The totals of the pool row are the sums of the tables they summarise.
THEOREM TotalsMatch == Spec => []PoolMatchesTables
<1>1. Inv => PoolMatchesTables
  <2> SUFFICES ASSUME Inv PROVE PoolMatchesTables
    OBVIOUS
  <2>1. pool.total_unlent \in Nat /\ pool.total_lent \in Nat /\ pool.total_rent \in Nat
    BY Parts DEF PoolRows
  <2> QED
    BY <2>1, Parts DEF PoolMatchesTables, PoolOK, LoansOK, SharesOK, StakedIn, SharesIn
<1> QED
  BY <1>1, Inductive, PTL

\* Rounding never leaves shares without tokens or tokens without shares, so a
\* pool that is opened again has nothing lent.
THEOREM SharesAreBacked == Spec => []SharesHaveValue
<1>1. Inv => SharesHaveValue
  BY Parts DEF SharesHaveValue, PoolOK
<1> QED
  BY <1>1, Inductive, PTL

\* eosio.rex holds exactly what the contract owes.
THEOREM AccountBacked == Spec => []RexAccountBacked
<1>1. Inv => RexAccountBacked
  <2> SUFFICES ASSUME Inv PROVE RexAccountBacked
    OBVIOUS
  <2> DEFINE l == pool.total_lendable
             sf == Sum(fund)
             lb == LoanSum(BalanceIn(loans))
             sp == Sum(ProceedsIn(orders))
  <2>1. acct.rex = l + sf + lb + sp + 0
    BY Parts DEF BackedOK
  <2>2. l \in Nat /\ sf \in Nat /\ lb \in Nat /\ sp \in Nat
    BY Parts, SumToNat, NAssumption, LoanSums, ProceedsSums DEF Sum, Names, PoolRows
  <2> HIDE DEF l, sf, lb, sp
  <2>3. acct.rex = l + sf + lb + sp
    BY <2>1, <2>2
  <2> QED
    BY <2>3 DEF RexAccountBacked, l, sf, lb, sp, BalanceIn, ProceedsIn
<1> QED
  BY <1>1, Inductive, PTL

\* The proceeds of name auctions that wait are covered and have a receiver.
THEOREM NamebidsWait == Spec => []NamebidsWaitForLenders
<1>1. Inv => NamebidsWaitForLenders
  <2> SUFFICES ASSUME Inv PROVE NamebidsWaitForLenders
    OBVIOUS
  <2>1. pool.namebid_proceeds \in Nat
    BY Parts DEF PoolRows
  <2> QED
    BY <2>1, Parts DEF NamebidsWaitForLenders, PoolOK, NamebidsOK
<1> QED
  BY <1>1, Inductive, PTL

\* The parts of every row add up, are in order, and cover the open order.
THEOREM RowsAlwaysAddUp == Spec => []RowsAddUp
<1>1. Inv => RowsAddUp
  <2> SUFFICES ASSUME Inv, NEW a \in Names
               PROVE  LET rb == rexbal[a] IN
                      /\ rb.rex_balance = rb.matured_rex + InBuckets(rb.rex_maturities)
                      /\ \A i \in 1 .. Len(rb.rex_maturities) - 1 :
                            rb.rex_maturities[i].first < rb.rex_maturities[i + 1].first
                      /\ \A i \in 1 .. Len(rb.rex_maturities) : rb.rex_maturities[i].second >= 0
                      /\ RexInOrder(Tables, a) <= rb.matured_rex
    BY DEF RowsAddUp
  <2> DEFINE rb == rexbal[a]
             b == rb.rex_maturities
  <2>1. Good(Tables, now, 0, {}) /\ Tables.rexbal = rexbal
    BY DEF Inv, Tables
  <2>2. Tables.rexbal[a] \in BalanceRows /\ RowOK(Tables.rexbal[a], now)
        /\ RexInOrder(Tables, a) <= Tables.rexbal[a].matured_rex
    BY <2>1, GoodRow
  <2>3. rb \in BalanceRows /\ RowOK(rb, now) /\ RexInOrder(Tables, a) <= rb.matured_rex
    BY <2>1, <2>2
  <2>4. b \in Seq(BucketRows) /\ Ordered(b, now)
    BY <2>3 DEF BalanceRows, RowOK
  <2>5. rb.rex_balance = rb.matured_rex + InBuckets(b)
    BY <2>3 DEF RowOK
  <2> HIDE DEF b
  <2>6. ASSUME NEW i \in 1 .. Len(b) - 1 PROVE b[i].first < b[i + 1].first
    <3>1. i \in 1 .. Len(b) /\ i + 1 \in 1 .. Len(b) /\ i < i + 1
      BY <2>4
    <3> QED
      BY <2>4, <3>1 DEF Ordered
  <2>7. ASSUME NEW i \in 1 .. Len(b) PROVE b[i].second >= 0
    <3>1. b[i] \in BucketRows
      BY <2>4
    <3>2. b[i].second \in Nat
      BY <3>1 DEF BucketRows
    <3> QED
      BY <3>2
  <2> QED
    BY <2>3, <2>5, <2>6, <2>7 DEF b
<1> QED
  BY <1>1, Inductive, PTL

\* The weight of an account is what is delegated to it and rented for it.
THEOREM WeightAlwaysBacked == Spec => []WeightIsBacked
<1>1. Inv => WeightIsBacked
  BY Parts DEF WeightIsBacked, WeightOK, DelegatedIn, RentedIn
<1> QED
  BY <1>1, Inductive, PTL

\* Who holds REX always meets the voting requirement.
THEOREM HoldersAlwaysVote == Spec => []HoldersVote
<1>1. Inv => HoldersVote
  BY Parts DEF HoldersVote, VotesOK
<1> QED
  BY <1>1, Inductive, PTL

\* runrex, which most actions begin or end with, never fails once the pool has
\* been opened: no check in it can block the actions of everybody.
THEOREM MaintenanceRuns == Spec => []MaintenanceNeverFails
<1>1. Inv => MaintenanceNeverFails
  <2> SUFFICES ASSUME Inv, pool.initialized, NEW max \in ExecMax \cup {RunMax}
               PROVE  runrex(Tables, max).ok
    BY DEF MaintenanceNeverFails
  <2>0. max \in Nat
    BY RunAssumption
  <2>1. runrex(Tables, max) \in TableSet
    BY <2>0, RunFirst
  <2> QED
    BY <2>1, Fields
<1> QED
  BY <1>1, Inductive, PTL

\* A step changes the price of a share only upwards.
THEOREM PriceNeverFalls == Spec => RexPriceNeverFalls
<1>1. Inv /\ [Next]_vars =>
        [pool.total_rex > 0 /\ pool'.total_rex > 0 =>
           pool'.total_lendable * pool.total_rex >= pool.total_lendable * pool'.total_rex]_vars
  <2> SUFFICES ASSUME Inv, [Next]_vars, pool.total_rex > 0, pool'.total_rex > 0
               PROVE  pool'.total_lendable * pool.total_rex >= pool.total_lendable * pool'.total_rex
    OBVIOUS
  <2>1. CASE Steps(Tables, Tables')
    <3>1. Tables.pool = pool /\ Tables'.pool = pool'
      BY DEF Tables
    <3> QED
      BY <2>1, <3>1 DEF Steps, PriceKept, NotCheaper
  <2>2. CASE UNCHANGED pool
    <3> DEFINE l == pool.total_lendable
               r == pool.total_rex
    <3>1. l \in Nat /\ r \in Nat
      BY Parts DEF PoolRows
    <3> HIDE DEF l, r
    <3>2. l * r >= l * r
      BY <3>1
    <3> QED
      BY <2>2, <3>2 DEF l, r
  <2> QED
    BY <2>1, <2>2, InvStep
<1> QED
  BY <1>1, Inductive, PTL DEF Spec, RexPriceNeverFalls

\* While an order stays open no loan is made or renewed.
THEOREM NoLoanOvertakes == Spec => NoLoanOvertakesOrder
<1>1. Inv /\ [Next]_vars =>
        [(\E a \in Names : orders[a].state = "open" /\ orders'[a].state = "open"
                           /\ orders[a].order_time = orders'[a].order_time) =>
            /\ pool'.loan_num = pool.loan_num
            /\ \A k \in LoanIds : loans'[k].kind # "none" => loans'[k] \in
                  {loans[k], [loans[k] EXCEPT !.balance = loans'[k].balance]}]_vars
  <2> SUFFICES ASSUME Inv, [Next]_vars,
                      NEW a \in Names, orders[a].state = "open", orders'[a].state = "open"
               PROVE  /\ pool'.loan_num = pool.loan_num
                      /\ \A k \in LoanIds : loans'[k].kind # "none" => loans'[k] \in
                            {loans[k], [loans[k] EXCEPT !.balance = loans'[k].balance]}
    OBVIOUS
  <2>1. CASE Steps(Tables, Tables')
    <3>1. /\ Tables.pool = pool /\ Tables'.pool = pool' /\ Tables.loans = loans
          /\ Tables'.loans = loans' /\ Tables.orders = orders /\ Tables'.orders = orders'
      BY DEF Tables
    <3> QED
      BY <2>1, <3>1 DEF Steps, NothingLent
  <2>2. CASE UNCHANGED <<pool, loans>>
    BY <2>2
  <2> QED
    BY <2>1, <2>2, InvStep
<1> QED
  BY <1>1, Inductive, PTL DEF Spec, NoLoanOvertakesOrder

\* A change of the vote stake of a REX balance reaches the voter.
THEOREM StakeFollows == Spec => StakeFollowsRex
<1>1. Inv /\ [Next]_vars =>
        [\A a \in Names :
            UNCHANGED dbw /\ (rexbal[a].row => rexbal'[a].row) =>
               UnexplainedStake(a)' = UnexplainedStake(a)]_vars
  <2> SUFFICES ASSUME Inv, [Next]_vars, ~ UNCHANGED vars,
                      NEW a \in Names, UNCHANGED dbw, rexbal[a].row => rexbal'[a].row
               PROVE  UnexplainedStake(a)' = UnexplainedStake(a)
    OBVIOUS
  <2> DEFINE S == Sum([b \in Names |-> dbw[a][b]["cpu"] + dbw[a][b]["net"]])
  <2>1. UnexplainedStake(a) = staked[a] + ((orders[a].stake_change - rexbal[a].vote_stake) - S)
    BY DEF UnexplainedStake
  <2>2. UnexplainedStake(a)' =
           staked'[a] + ((orders'[a].stake_change - rexbal'[a].vote_stake) - S)
    BY DEF UnexplainedStake, Sum
  <2>3. S \in Int
    <3> DEFINE f == [b \in Names |-> dbw[a][b]["cpu"] + dbw[a][b]["net"]]
    <3>1. dbw[a] \in [Names -> [Kinds -> Nat]]
      BY Parts DEF Delegations
    <3>2. \A b \in Names : dbw[a][b]["cpu"] \in Nat /\ dbw[a][b]["net"] \in Nat
      BY <3>1 DEF Kinds
    <3>3. f \in [1 .. N -> Int]
      BY <3>2 DEF Names
    <3> HIDE DEF f
    <3>4. SumTo(f, N) \in Int
      BY <3>3, NAssumption, SumToInt
    <3> QED
      BY <3>4 DEF Sum, f
  <2> HIDE DEF S
  <2>4. CASE Steps(Tables, Tables')
    <3> DEFINE x == staked[a]
               y == staked'[a]
               c == orders[a].stake_change
               d == orders'[a].stake_change
               v == rexbal[a].vote_stake
               w == rexbal'[a].vote_stake
    <3>1. /\ Tables.staked = staked /\ Tables'.staked = staked' /\ Tables.dbw = dbw
          /\ Tables'.dbw = dbw' /\ Tables.orders = orders /\ Tables'.orders = orders'
          /\ Tables.rexbal = rexbal /\ Tables'.rexbal = rexbal'
      BY DEF Tables
    <3>2. y + (d - w) = x + (c - v)
      BY <2>4, <3>1 DEF Steps, ClaimsKept, Claim
    <3>3. /\ x \in Int /\ y \in Int /\ c \in Int /\ d \in Int /\ v \in Int /\ w \in Int
      <4>1. /\ staked \in [Names -> Int] /\ orders \in [Names -> OrderRows]
            /\ rexbal \in [Names -> BalanceRows]
        BY Parts
      <4>2. Tables' \in TableSet
        <5>1. Good(Tables', now', 0, {})
          BY InvStep DEF Inv
        <5> QED
          BY <5>1, GoodTables
      <4>3. /\ staked' \in [Names -> Int] /\ orders' \in [Names -> OrderRows]
            /\ rexbal' \in [Names -> BalanceRows]
        BY <3>1, <4>2, Fields
      <4> QED
        BY <4>1, <4>3 DEF OrderRows, BalanceRows
    <3> HIDE DEF x, y, c, d, v, w
    <3>4. y + ((d - w) - S) = x + ((c - v) - S)
      BY <2>3, <3>2, <3>3
    <3> QED
      BY <2>1, <2>2, <3>4 DEF x, y, c, d, v, w
  <2>5. CASE UNCHANGED <<staked, orders, rexbal>>
    BY <2>1, <2>2, <2>5
  <2> QED
    BY <2>4, <2>5, InvStep
<1> QED
  BY <1>1, Inductive, PTL DEF Spec, StakeFollowsRex

-----------------------------------------------------------------------------
(* What vests in a row.                                                    *)

\* What matures at one time, as the sum of a function.
LEMMA MaturingType ==
  ASSUME NEW b \in Seq(BucketRows), NEW u
  PROVE  /\ MaturingIn(b, u) \in [1 .. Len(b) -> Nat] /\ MaturingIn(b, u) \in [1 .. Len(b) -> Int]
         /\ Maturing(b, u) = SumTo(MaturingIn(b, u), Len(b))
         /\ Maturing(b, u) \in Nat /\ Len(b) \in Nat
<1>1. Len(b) \in Nat /\ \A i \in 1 .. Len(b) : b[i] \in BucketRows
  OBVIOUS
<1>2. \A i \in 1 .. Len(b) : b[i].second \in Nat
  BY <1>1 DEF BucketRows
<1>3. MaturingIn(b, u) \in [1 .. Len(b) -> Nat]
  BY <1>2 DEF MaturingIn
<1>4. MaturingIn(b, u) \in [1 .. Len(b) -> Int]
  BY <1>2 DEF MaturingIn
<1>5. Maturing(b, u) = SumTo(MaturingIn(b, u), Len(b))
  BY DEF Maturing, MaturingIn
<1> QED
  BY <1>1, <1>3, <1>4, <1>5, SumToNat

\* Buckets of other times do not matter.
LEMMA NoneMaturing ==
  ASSUME NEW b \in Seq(BucketRows), NEW u, \A i \in 1 .. Len(b) : b[i].first # u
  PROVE  Maturing(b, u) = 0
<1>1. \A i \in 1 .. Len(b) : MaturingIn(b, u)[i] = 0
  BY DEF MaturingIn
<1> QED
  BY <1>1, MaturingType, SumToAllZero

\* Buckets of one time hold what matures then.
LEMMA AllMaturing ==
  ASSUME NEW b \in Seq(BucketRows), NEW u, \A i \in 1 .. Len(b) : b[i].first = u
  PROVE  Maturing(b, u) = InBuckets(b)
<1>1. \A i \in 1 .. Len(b) : MaturingIn(b, u)[i] = SecondsOf(b)[i]
  BY DEF MaturingIn, SecondsOf
<1>2. SumTo(MaturingIn(b, u), Len(b)) = SumTo(SecondsOf(b), Len(b))
  <2> HIDE DEF MaturingIn, SecondsOf
  <2> QED
    BY <1>1, MaturingType, SecondsType, SumToSame
<1> QED
  BY <1>2, MaturingType DEF InBuckets, SecondsOf

\* Of increasing buckets at most one matures at a time.
LEMMA OneMaturing ==
  ASSUME NEW b \in Seq(BucketRows), Increasing(b), NEW i \in 1 .. Len(b)
  PROVE  Maturing(b, b[i].first) = b[i].second
<1> DEFINE u == b[i].first
           f == MaturingIn(b, u)
<1>1. Len(b) \in Nat /\ \A j \in 1 .. Len(b) : b[j] \in BucketRows
  OBVIOUS
<1>2. \A j \in 1 .. Len(b) : b[j].first \in Int /\ b[j].second \in Nat
  BY <1>1 DEF BucketRows
<1>3. \A j \in 1 .. Len(b) : j # i => b[j].first # u
  <2> TAKE j \in 1 .. Len(b)
  <2>1. CASE j < i
    BY <1>2, <2>1 DEF Increasing
  <2>2. CASE i < j
    BY <1>2, <2>2 DEF Increasing
  <2> QED
    BY <1>1, <2>1, <2>2
<1>4. f[i] = b[i].second /\ \A j \in 1 .. Len(b) : j # i => f[j] = 0
  BY <1>3 DEF MaturingIn
<1>5. f \in [1 .. Len(b) -> Int] /\ Maturing(b, u) = SumTo(f, Len(b))
  BY MaturingType
<1>6. b[i].second \in Int
  BY <1>2
<1> HIDE DEF f, u
<1>7. SumTo(f, Len(b)) = b[i].second
  BY <1>1, <1>4, <1>5, <1>6, SumToSingle
<1> QED
  BY <1>5, <1>7 DEF u

\* What matures in buckets that are cut in two matures in the two parts.
LEMMA MaturingSplit ==
  ASSUME NEW u, NEW b \in Seq(BucketRows), NEW c \in Seq(BucketRows), NEW d \in Seq(BucketRows),
         Len(b) = Len(c) + Len(d),
         \A i \in 1 .. Len(c) : b[i] = c[i],
         \A i \in 1 .. Len(d) : b[Len(c) + i] = d[i]
  PROVE  Maturing(b, u) = Maturing(c, u) + Maturing(d, u)
<1> DEFINE m == Len(c)
           n == Len(d)
           f == MaturingIn(b, u)
           g == MaturingIn(c, u)
           h == MaturingIn(d, u)
<1>1. m \in Nat /\ n \in Nat /\ f \in [1 .. m + n -> Int] /\ h \in [1 .. n -> Int]
  BY MaturingType
<1>2. \A i \in 1 .. n : h[i] = f[m + i]
  BY <1>1 DEF MaturingIn
<1>3. \A i \in 1 .. m : f[i] = g[i]
  BY <1>1 DEF MaturingIn
<1>4. Maturing(b, u) = SumTo(f, m + n) /\ Maturing(c, u) = SumTo(g, m) /\ Maturing(d, u) = SumTo(h, n)
  BY MaturingType
<1> HIDE DEF f, g, h, m, n
<1>5. SumTo(f, m + n) = SumTo(f, m) + SumTo(h, n)
  BY <1>1, <1>2, SumToShift
<1>6. SumTo(f, m) = SumTo(g, m)
  BY <1>1, <1>3, SumToPrefix
<1> QED
  BY <1>4, <1>5, <1>6

\* A bucket at the end adds what it holds at its time.
LEMMA MaturingAppend ==
  ASSUME NEW b \in Seq(BucketRows), NEW e \in BucketRows, NEW u
  PROVE  Maturing(Append(b, e), u) = Maturing(b, u) + (IF e.first = u THEN e.second ELSE 0)
<1> DEFINE c == Append(b, e)
           s == << e >>
<1>1. /\ c \in Seq(BucketRows) /\ Len(c) = Len(b) + 1 /\ Len(b) \in Nat
      /\ \A i \in 1 .. Len(b) : c[i] = b[i]
      /\ c[Len(b) + 1] = e
  BY AppendedBucket
<1>2. /\ s \in Seq(BucketRows) /\ Len(s) = 1 /\ \A i \in 1 .. 1 : s[i] = e
      /\ InBuckets(s) = e.second
  BY OneBucket
<1> HIDE DEF c, s
<1>3. Len(c) = Len(b) + Len(s) /\ \A i \in 1 .. Len(s) : c[Len(b) + i] = s[i]
  BY <1>1, <1>2
<1>4. Maturing(c, u) = Maturing(b, u) + Maturing(s, u)
  <2>1. /\ b \in Seq(BucketRows) /\ c \in Seq(BucketRows) /\ s \in Seq(BucketRows)
        /\ Len(c) = Len(b) + Len(s)
    BY <1>1, <1>2, <1>3
  <2>2. \A i \in 1 .. Len(b) : c[i] = b[i]
    BY <1>1
  <2>3. \A i \in 1 .. Len(s) : c[Len(b) + i] = s[i]
    BY <1>3
  <2> QED
    BY <2>1, <2>2, <2>3, MaturingSplit, Zenon
<1>5. CASE e.first = u
  <2>1. Maturing(s, u) = e.second
    BY <1>2, <1>5, AllMaturing
  <2> QED
    BY <1>4, <1>5, <2>1 DEF c
<1>6. CASE e.first # u
  <2>1. Maturing(s, u) = 0
    BY <1>2, <1>6, NoneMaturing
  <2> QED
    BY <1>4, <1>6, <2>1 DEF c
<1> QED
  BY <1>5, <1>6

\* REX put last adds to what matures at its time.
LEMMA MaturingPutLast ==
  ASSUME NEW b \in Seq(BucketRows), NEW maturity \in Int, NEW rex \in Nat, NEW u
  PROVE  Maturing(PutLast(b, maturity, rex), u) =
            Maturing(b, u) + (IF maturity = u THEN rex ELSE 0)
<1>1. CASE ~ EndsAt(b, maturity)
  <2>1. PutLast(b, maturity, rex) = Append(b, Bucket(maturity, rex))
    BY <1>1 DEF PutLast
  <2> QED
    BY <2>1, BucketType, MaturingAppend
<1>2. CASE EndsAt(b, maturity)
  <2> DEFINE f == Front(b)
             e == Last(b)
             d == Bucket(maturity, e.second + rex)
  <2>1. b # << >> /\ e.first = maturity
    BY <1>2 DEF EndsAt
  <2>2. /\ f \in Seq(BucketRows) /\ e \in BucketRows /\ Len(f) = Len(b) - 1 /\ Len(b) \in Nat
        /\ Len(b) >= 1 /\ \A i \in 1 .. Len(b) - 1 : f[i] = b[i]
        /\ e = b[Len(b)]
    BY <2>1, WithoutLast
  <2>3. e.second \in Nat /\ d \in BucketRows /\ d.first = maturity /\ d.second = e.second + rex
    <3>1. e.second \in Nat
      BY <2>2 DEF BucketRows
    <3>2. e.second + rex \in Nat
      BY <3>1
    <3> QED
      BY <3>1, <3>2, BucketType
  <2>4. PutLast(b, maturity, rex) = f \o << d >>
    BY <1>2 DEF PutLast
  <2> HIDE DEF f, e, d
  <2>5. PutLast(b, maturity, rex) = Append(f, d)
    BY <2>2, <2>3, <2>4, AppendedBucket
  <2>6. b = Append(f, e)
    BY <2>2
  <2>7. Maturing(b, u) = Maturing(f, u) + (IF maturity = u THEN e.second ELSE 0)
    BY <2>1, <2>2, <2>6, MaturingAppend
  <2>8. Maturing(PutLast(b, maturity, rex), u) = Maturing(f, u) + (IF maturity = u THEN e.second + rex ELSE 0)
    BY <2>2, <2>3, <2>5, MaturingAppend
  <2>9. Maturing(f, u) \in Nat
    BY <2>2, MaturingType
  <2> QED
    BY <2>3, <2>7, <2>8, <2>9
<1> QED
  BY <1>1, <1>2

\* What is popped: as many buckets as are due from the front.
LEMMA MatureFacts ==
  ASSUME NEW b \in Seq(BucketRows), NEW t \in Nat
  PROVE  /\ Mature(b, t) \in 0 .. Len(b)
         /\ \A i \in 1 .. Mature(b, t) : b[i].first <= t
         /\ Mature(b, t) < Len(b) => b[Mature(b, t) + 1].first > t
<1> DEFINE Due == {k \in 0 .. Len(b) : \A i \in 1 .. k : b[i].first <= t}
           n == Mature(b, t)
<1>1. Len(b) \in Nat /\ Due \subseteq 0 .. Len(b) /\ 0 \in Due
  OBVIOUS
<1>2. n = CHOOSE k \in Due : \A m \in Due : m <= k
  BY DEF Mature
<1>3. \A k \in 0 .. Len(b) : k \in Due <=> \A i \in 1 .. k : b[i].first <= t
  OBVIOUS
<1> HIDE DEF Due, n
<1>4. \E k \in Due : \A m \in Due : m <= k
  BY <1>1, GreatestExists
<1>5. n \in Due /\ \A m \in Due : m <= n
  BY <1>2, <1>4
<1>6. n \in 0 .. Len(b) /\ \A i \in 1 .. n : b[i].first <= t
  BY <1>1, <1>3, <1>5
<1>7. ASSUME n < Len(b) PROVE b[n + 1].first > t
  <2>1. n + 1 \in 0 .. Len(b) /\ n + 1 \in 1 .. Len(b) /\ ~ (n + 1 <= n) /\ n \in Nat
    BY <1>1, <1>6, <1>7
  <2>2. PICK i \in 1 .. n + 1 : ~ (b[i].first <= t)
    BY <1>3, <1>5, <2>1
  <2>3. i = n + 1
    BY <1>6, <2>1, <2>2
  <2>4. b[n + 1].first \in Int
    <3>1. b[n + 1] \in BucketRows
      BY <2>1
    <3> QED
      BY <3>1 DEF BucketRows
  <2> QED
    BY <2>2, <2>3, <2>4
<1> QED
  BY <1>6, <1>7 DEF n

\* The facts determine how many.
LEMMA MatureIs ==
  ASSUME NEW b \in Seq(BucketRows), NEW t \in Nat, NEW n \in 0 .. Len(b),
         \A i \in 1 .. n : b[i].first <= t,
         n < Len(b) => b[n + 1].first > t
  PROVE  Mature(b, t) = n
<1> DEFINE m == Mature(b, t)
<1>1. /\ m \in 0 .. Len(b)
      /\ \A i \in 1 .. m : b[i].first <= t
      /\ m < Len(b) => b[m + 1].first > t
  BY MatureFacts
<1> HIDE DEF m
<1>2. Len(b) \in Nat /\ n \in Nat /\ m \in Nat /\ \A i \in 1 .. Len(b) : b[i].first \in Int
  <2>1. \A i \in 1 .. Len(b) : b[i] \in BucketRows
    OBVIOUS
  <2> QED
    BY <1>1, <2>1 DEF BucketRows
<1>3. ASSUME m < n PROVE FALSE
  <2>1. m + 1 \in 1 .. n /\ m < Len(b) /\ m + 1 \in 1 .. Len(b)
    BY <1>1, <1>2, <1>3
  <2> QED
    BY <1>1, <1>2, <2>1
<1>4. ASSUME n < m PROVE FALSE
  <2>1. n + 1 \in 1 .. m /\ n < Len(b) /\ n + 1 \in 1 .. Len(b)
    BY <1>1, <1>2, <1>4
  <2> QED
    BY <1>1, <1>2, <2>1
<1> QED
  BY <1>2, <1>3, <1>4 DEF m

\* What a row is after its due buckets are popped.
LEMMA Processed ==
  ASSUME NEW t \in Nat, NEW rb \in BalanceRows
  PROVE  LET b == rb.rex_maturities
             n == Mature(b, t)
             c == SubSeq(b, 1, n)
             r == process_rex_maturities(rb, t)
         IN  /\ n \in 0 .. Len(b)
             /\ c \in Seq(BucketRows) /\ Len(c) = n /\ \A i \in 1 .. n : c[i] = b[i]
             /\ \A i \in 1 .. n : c[i].first <= t
             /\ r.matured_rex = rb.matured_rex + InBuckets(c)
             /\ r.rex_maturities \in Seq(BucketRows)
             /\ Len(r.rex_maturities) = Len(b) - n
             /\ \A i \in 1 .. Len(b) - n : r.rex_maturities[i] = b[n + i]
             /\ \A u : Maturing(b, u) = Maturing(c, u) + Maturing(r.rex_maturities, u)
             /\ Increasing(b) => Fresh(r.rex_maturities, t) /\ Increasing(r.rex_maturities)
<1> DEFINE b == rb.rex_maturities
           n == Mature(b, t)
           c == SubSeq(b, 1, n)
           d == SubSeq(b, n + 1, Len(b))
           r == process_rex_maturities(rb, t)
<1>1. b \in Seq(BucketRows) /\ rb.matured_rex \in Nat /\ Len(b) \in Nat
  BY DEF BalanceRows
<1>2. /\ n \in 0 .. Len(b)
      /\ \A i \in 1 .. n : b[i].first <= t
      /\ n < Len(b) => b[n + 1].first > t
  BY <1>1, MatureFacts
<1>3. r.matured_rex = rb.matured_rex + InBuckets(c) /\ r.rex_maturities = d
  BY DEF process_rex_maturities, BalanceRows
<1> HIDE DEF n, r, b
<1>4. /\ c \in Seq(BucketRows) /\ Len(c) = n /\ \A i \in 1 .. n : c[i] = b[i]
      /\ d \in Seq(BucketRows) /\ Len(d) = Len(b) - n
      /\ \A i \in 1 .. Len(b) - n : d[i] = b[n + i]
  BY <1>1, <1>2, CutBuckets
<1> HIDE DEF c, d
<1>5. \A u : Maturing(b, u) = Maturing(c, u) + Maturing(d, u)
  <2> TAKE u
  <2>1. Len(b) = Len(c) + Len(d) /\ \A i \in 1 .. Len(c) : b[i] = c[i]
    BY <1>1, <1>2, <1>4
  <2>2. \A i \in 1 .. Len(d) : b[Len(c) + i] = d[i]
    BY <1>4
  <2> QED
    BY <1>1, <1>4, <2>1, <2>2, MaturingSplit, Zenon
<1>6. ASSUME Increasing(b) PROVE Fresh(d, t) /\ Increasing(d)
  <2>0. n \in Nat /\ \A i \in 1 .. Len(b) : b[i].first \in Int
    <3>1. \A i \in 1 .. Len(b) : b[i] \in BucketRows
      BY <1>1
    <3> QED
      BY <1>2, <3>1 DEF BucketRows
  <2>1. ASSUME NEW i \in 1 .. Len(d) PROVE d[i].first > t
    <3>1. n + i \in 1 .. Len(b) /\ n + 1 \in 1 .. Len(b) /\ n < Len(b) /\ d[i] = b[n + i]
      BY <1>1, <1>2, <1>4, <2>0
    <3>2. CASE i = 1
      BY <1>2, <3>1, <3>2
    <3>3. CASE i # 1
      <4>1. n + 1 < n + i
        BY <2>0, <3>1, <3>3
      <4>2. b[n + 1].first < b[n + i].first
        BY <1>6, <3>1, <4>1 DEF Increasing
      <4> QED
        BY <1>2, <2>0, <3>1, <4>2
    <3> QED
      BY <3>2, <3>3
  <2>2. ASSUME NEW i \in 1 .. Len(d), NEW j \in 1 .. Len(d), i < j
        PROVE  d[i].first < d[j].first
    <3>1. n + i \in 1 .. Len(b) /\ n + j \in 1 .. Len(b) /\ n + i < n + j
      BY <1>1, <1>4, <2>0, <2>2
    <3>2. d[i] = b[n + i] /\ d[j] = b[n + j]
      BY <1>4
    <3> QED
      BY <1>6, <3>1, <3>2 DEF Increasing
  <2> QED
    BY <2>1, <2>2 DEF Fresh, Increasing
<1> QED
  BY <1>2, <1>3, <1>4, <1>5, <1>6 DEF b, n, c, r

\* Nothing happens to a row without due buckets.
LEMMA ProcessFresh ==
  ASSUME NEW t \in Nat, NEW rb \in BalanceRows, Fresh(rb.rex_maturities, t)
  PROVE  process_rex_maturities(rb, t) = rb
<1> DEFINE b == rb.rex_maturities
<1>1. b \in Seq(BucketRows) /\ Len(b) \in Nat /\ rb.matured_rex \in Nat
  BY DEF BalanceRows
<1>2. Mature(b, t) = 0
  <2>1. 0 \in 0 .. Len(b) /\ \A i \in 1 .. 0 : b[i].first <= t
    BY <1>1
  <2>2. 0 < Len(b) => b[0 + 1].first > t
    BY <1>1 DEF Fresh
  <2> HIDE DEF b
  <2> QED
    BY <1>1, <2>1, <2>2, MatureIs
<1>3. SubSeq(b, 1, 0) = << >> /\ SubSeq(b, 0 + 1, Len(b)) = b
  BY <1>1
<1>4. process_rex_maturities(rb, t) =
         [rb EXCEPT !.matured_rex = rb.matured_rex + 0, !.rex_maturities = b]
  BY <1>2, <1>3, NoBuckets DEF process_rex_maturities
<1>5. rb.matured_rex + 0 = rb.matured_rex
  BY <1>1
<1> QED
  BY <1>4, <1>5 DEF BalanceRows

\* Only the matured REX and the buckets of a row matter to what is popped.
LEMMA ProcessSame ==
  ASSUME NEW t, NEW rb \in BalanceRows, NEW rc \in BalanceRows,
         rc.rex_maturities = rb.rex_maturities
  PROVE  LET r == process_rex_maturities(rb, t)
             s == process_rex_maturities(rc, t)
             n == Mature(rb.rex_maturities, t)
             c == SubSeq(rb.rex_maturities, 1, n)
         IN  /\ s.rex_maturities = r.rex_maturities
             /\ r.matured_rex = rb.matured_rex + InBuckets(c)
             /\ s.matured_rex = rc.matured_rex + InBuckets(c)
BY DEF process_rex_maturities, BalanceRows

\* Popping what is due at t and then what is due at u, or at once.
LEMMA ProcessTwice ==
  ASSUME NEW t \in Nat, NEW u \in Nat, t <= u, NEW rb \in BalanceRows
  PROVE  process_rex_maturities(process_rex_maturities(rb, t), u) = process_rex_maturities(rb, u)
<1> DEFINE r == process_rex_maturities(rb, t)
           s == process_rex_maturities(r, u)
           q == process_rex_maturities(rb, u)
           b == rb.rex_maturities
           d == r.rex_maturities
           n == Mature(b, t)
           m == Mature(d, u)
           c == SubSeq(b, 1, n)
           e == SubSeq(d, 1, m)
           a == SubSeq(b, 1, n + m)
<1>1. b \in Seq(BucketRows) /\ Len(b) \in Nat /\ rb.matured_rex \in Nat
  BY DEF BalanceRows
<1>2. r \in BalanceRows
      /\ r = [rb EXCEPT !.matured_rex = r.matured_rex, !.rex_maturities = r.rex_maturities]
  BY ProcessRow
<1>3. /\ n \in 0 .. Len(b)
      /\ c \in Seq(BucketRows) /\ Len(c) = n /\ \A i \in 1 .. n : c[i] = b[i]
      /\ \A i \in 1 .. n : c[i].first <= t
      /\ r.matured_rex = rb.matured_rex + InBuckets(c)
      /\ d \in Seq(BucketRows) /\ Len(d) = Len(b) - n
      /\ \A i \in 1 .. Len(b) - n : d[i] = b[n + i]
  BY Processed
<1>4. s \in BalanceRows
      /\ s = [r EXCEPT !.matured_rex = s.matured_rex, !.rex_maturities = s.rex_maturities]
  BY <1>2, ProcessRow
<1>5. q \in BalanceRows
      /\ q = [rb EXCEPT !.matured_rex = q.matured_rex, !.rex_maturities = q.rex_maturities]
  BY ProcessRow
<1>6. /\ m \in 0 .. Len(d)
      /\ e \in Seq(BucketRows) /\ Len(e) = m /\ \A i \in 1 .. m : e[i] = d[i]
      /\ \A i \in 1 .. m : e[i].first <= u
      /\ s.matured_rex = r.matured_rex + InBuckets(e)
      /\ s.rex_maturities \in Seq(BucketRows)
      /\ Len(s.rex_maturities) = Len(d) - m
      /\ \A i \in 1 .. Len(d) - m : s.rex_maturities[i] = d[m + i]
  <2> HIDE DEF r
  <2> QED
    BY <1>2, Processed
<1>7. m < Len(d) => d[m + 1].first > u
  <2> HIDE DEF r
  <2> QED
    BY <1>3, MatureFacts
<1>8. q.rex_maturities = SubSeq(b, Mature(b, u) + 1, Len(b))
      /\ q.matured_rex = rb.matured_rex + InBuckets(SubSeq(b, 1, Mature(b, u)))
  BY DEF process_rex_maturities, BalanceRows
<1> HIDE DEF r, s, q, n, m, b
<1>9. n \in Nat /\ m \in Nat /\ n + m \in 0 .. Len(b) /\ Len(d) \in Nat /\ Len(d) = Len(b) - n
  BY <1>1, <1>3, <1>6
<1> HIDE DEF d
<1>10. Mature(b, u) = n + m
  <2>1. \A i \in 1 .. Len(b) : b[i].first \in Int
    <3>1. \A i \in 1 .. Len(b) : b[i] \in BucketRows
      BY <1>1
    <3> QED
      BY <3>1 DEF BucketRows
  <2>2. ASSUME NEW i \in 1 .. n + m PROVE b[i].first <= u
    <3>0. i \in 1 .. Len(b)
      BY <1>1, <1>9
    <3>1. CASE i <= n
      <4>1. i \in 1 .. n
        BY <1>9, <3>1
      <4>2. b[i].first <= t /\ b[i].first \in Int
        BY <1>3, <2>1, <3>0, <4>1
      <4> QED
        BY <4>2
    <3>2. CASE i > n
      <4>1. i - n \in 1 .. m /\ i - n \in 1 .. Len(b) - n /\ n + (i - n) = i
        BY <1>1, <1>9, <3>2
      <4>2. e[i - n] = d[i - n] /\ d[i - n] = b[n + (i - n)]
        BY <1>3, <1>6, <4>1
      <4> QED
        BY <1>6, <4>1, <4>2
    <3> QED
      BY <1>9, <3>1, <3>2
  <2>3. ASSUME n + m < Len(b) PROVE b[n + m + 1].first > u
    <3>1. m < Len(d) /\ m + 1 \in 1 .. Len(b) - n /\ n + (m + 1) = n + m + 1
      BY <1>1, <1>9, <2>3
    <3>2. d[m + 1] = b[n + (m + 1)]
      BY <1>3, <3>1
    <3> QED
      BY <1>7, <3>1, <3>2
  <2> QED
    BY <1>1, <1>9, <2>2, <2>3, MatureIs
<1>11. InBuckets(a) = InBuckets(c) + InBuckets(e)
  <2>1. a \in Seq(BucketRows) /\ Len(a) = n + m /\ \A i \in 1 .. n + m : a[i] = b[i]
    BY <1>1, <1>9, CutBuckets
  <2> HIDE DEF a, c, e
  <2>2. Len(a) = Len(c) + Len(e) /\ \A i \in 1 .. Len(c) : a[i] = c[i]
    <3>1. \A i \in 1 .. n : i \in 1 .. n + m
      BY <1>9
    <3> QED
      BY <1>3, <1>6, <1>9, <2>1, <3>1
  <2>3. \A i \in 1 .. Len(e) : a[Len(c) + i] = e[i]
    <3> TAKE i \in 1 .. Len(e)
    <3>1. i \in 1 .. m /\ n + i \in 1 .. n + m /\ i \in 1 .. Len(b) - n /\ Len(c) = n
      BY <1>1, <1>3, <1>6, <1>9
    <3> QED
      BY <1>3, <1>6, <2>1, <3>1
  <2> QED
    BY <1>3, <1>6, <2>1, <2>2, <2>3, BucketsSplit
<1>12. s.matured_rex = q.matured_rex
  <2>1. InBuckets(c) \in Nat /\ InBuckets(e) \in Nat
    BY <1>3, <1>6, BucketsNat
  <2>2. q.matured_rex = rb.matured_rex + InBuckets(a)
    BY <1>8, <1>10
  <2> HIDE DEF a, c, e
  <2> QED
    BY <1>1, <1>3, <1>6, <1>11, <2>1, <2>2
<1>13. s.rex_maturities = q.rex_maturities
  <2> DEFINE x == s.rex_maturities
             y == SubSeq(b, (n + m) + 1, Len(b))
  <2>1. y \in Seq(BucketRows) /\ Len(y) = Len(b) - (n + m)
        /\ \A i \in 1 .. Len(b) - (n + m) : y[i] = b[(n + m) + i]
    BY <1>1, <1>9, CutBuckets
  <2>2. q.rex_maturities = y
    BY <1>8, <1>10
  <2> HIDE DEF y, x
  <2>3. x \in Seq(BucketRows) /\ Len(x) = Len(b) - (n + m)
    BY <1>1, <1>6, <1>9 DEF x
  <2>4. \A i \in 1 .. Len(b) - (n + m) : x[i] = y[i]
    <3> TAKE i \in 1 .. Len(b) - (n + m)
    <3>1. i \in 1 .. Len(d) - m /\ m + i \in 1 .. Len(b) - n /\ n + (m + i) = (n + m) + i
      BY <1>1, <1>9
    <3>2. x[i] = d[m + i] /\ d[m + i] = b[n + (m + i)]
      BY <1>3, <1>6, <3>1 DEF x
    <3> QED
      BY <2>1, <3>1, <3>2
  <2>5. x = y
    BY <2>1, <2>3, <2>4
  <2> QED
    BY <2>2, <2>5 DEF x
<1> QED
  <2> DEFINE A == s.matured_rex
             B == s.rex_maturities
  <2>1. s = [r EXCEPT !.matured_rex = A, !.rex_maturities = B]
    BY <1>4
  <2>2. q = [rb EXCEPT !.matured_rex = A, !.rex_maturities = B]
    BY <1>5, <1>12, <1>13
  <2>3. \E x, y : r = [rb EXCEPT !.matured_rex = x, !.rex_maturities = y]
    BY <1>2
  <2> HIDE DEF A, B
  <2>4. s = q
    BY <2>1, <2>2, <2>3 DEF BalanceRows
  <2> QED
    BY <2>4 DEF s, q, r

\* What is bought matures later, before all time is over.
LEMMA MaturityRange ==
  ASSUME NEW t \in 0 .. MaxTime
  PROVE  /\ t \in Nat /\ Horizon \in Nat /\ EndOfDays \in Nat /\ Horizon < EndOfDays
         /\ t < EndOfDays /\ t <= Horizon
         /\ get_rex_maturity(t) \in 1 .. Horizon /\ get_rex_maturity(t) > t
         /\ get_rex_maturity(t) \in Int
<1> DEFINE q == t \div Day
           r == t % Day
           b == Buckets * Day
<1>1. Day \in Nat /\ Day > 0 /\ Buckets \in Nat /\ Buckets >= 1 /\ b \in Nat
  BY DayAssumption, BucketsAssumption
<1>2. MaxTime \in Nat /\ EndOfDays \in Nat /\ MaxTime + b < EndOfDays
  BY TimeAssumption
<1>3. t \in Nat /\ t <= MaxTime
  BY <1>2
<1>4. r \in 0 .. Day - 1 /\ r <= t
  <2>1. r \in 0 .. Day - 1 /\ q \in Nat /\ t = Day * q + r
    BY <1>1, <1>3
  <2>2. Day * q \in Nat
    BY <1>1, <2>1
  <2> HIDE DEF q, r
  <2> QED
    BY <1>1, <2>1, <2>2
<1>5. b >= Day
  <2>1. Buckets * Day >= 1 * Day
    BY <1>1
  <2> QED
    BY <1>1, <2>1
<1>6. get_rex_maturity(t) = t - r + b
  BY DEF get_rex_maturity
<1>7. Horizon = MaxTime + b
  BY DEF Horizon
<1> HIDE DEF q, r, b
<1> QED
  BY <1>1, <1>2, <1>3, <1>4, <1>5, <1>6, <1>7

\* Views are equal if their parts are.
LEMMA SameView ==
  ASSUME NEW r \in BalanceRows, NEW s \in BalanceRows, NEW saved,
         r.matured_rex = s.matured_rex,
         \A u \in 1 .. Horizon : Maturing(r.rex_maturities, u) = Maturing(s.rex_maturities, u)
  PROVE  FreshView(r, saved) = FreshView(s, saved)
BY DEF FreshView

\* The savings of buckets are those of what is left of them.
LEMMA SavingsLast ==
  ASSUME NEW b \in Seq(BucketRows), NEW d \in Seq(BucketRows), NEW n \in 0 .. Len(b),
         Len(d) = Len(b) - n, \A i \in 1 .. Len(b) - n : d[i] = b[n + i],
         EndsAt(b, EndOfDays) => n < Len(b)
  PROVE  /\ EndsAt(d, EndOfDays) <=> EndsAt(b, EndOfDays)
         /\ EndsAt(b, EndOfDays) => Last(d) = Last(b)
<1>1. Len(b) \in Nat /\ Len(d) \in Nat /\ n \in Nat
  OBVIOUS
<1>2. b # << >> <=> Len(b) > 0
  OBVIOUS
<1>3. d # << >> <=> Len(d) > 0
  OBVIOUS
<1>4. ASSUME Len(d) > 0 PROVE Last(d) = Last(b)
  <2>1. Len(d) \in 1 .. Len(b) - n /\ n + Len(d) = Len(b)
    BY <1>1, <1>4
  <2>2. d[Len(d)] = b[n + Len(d)]
    BY <2>1
  <2> QED
    BY <2>1, <2>2 DEF Last
<1> QED
  BY <1>1, <1>2, <1>3, <1>4 DEF EndsAt

\* Taking the savings out before popping what is due does not change the view.
LEMMA ViewOpened ==
  ASSUME NEW t \in 0 .. MaxTime, NEW rb \in BalanceRows, Ordered(rb.rex_maturities, t)
  PROVE  LET r == process_rex_maturities(WithoutSavings(rb), t)
             q == process_rex_maturities(rb, t)
         IN  /\ r \in BalanceRows /\ Plain(r.rex_maturities, t) /\ Fresh(r.rex_maturities, t)
             /\ q.matured_rex = r.matured_rex
             /\ View(rb, t) = FreshView(r, read_rex_savings(rb))
             /\ read_rex_savings(q) = read_rex_savings(rb)
             /\ Fresh(q.rex_maturities, t)
<1> DEFINE b == rb.rex_maturities
           w == WithoutSavings(rb)
           f == w.rex_maturities
           r == process_rex_maturities(w, t)
           q == process_rex_maturities(rb, t)
           n == Mature(b, t)
<1>1. /\ t \in Nat /\ Horizon \in Nat /\ EndOfDays \in Nat /\ Horizon < EndOfDays /\ t < EndOfDays
  BY MaturityRange
<1>2. b \in Seq(BucketRows) /\ Len(b) \in Nat /\ rb.matured_rex \in Nat
  BY DEF BalanceRows
<1>3. /\ w \in BalanceRows /\ w = [rb EXCEPT !.rex_maturities = f] /\ Plain(f, t)
  BY <1>1, TakeSavings
<1>4. r \in BalanceRows /\ Plain(r.rex_maturities, t)
  BY <1>1, RowOpened
<1>5. q \in BalanceRows
  BY <1>1, ProcessRow
<1>6. /\ n \in 0 .. Len(b)
      /\ \A i \in 1 .. n : SubSeq(b, 1, n)[i].first <= t
      /\ \A i \in 1 .. n : SubSeq(b, 1, n)[i] = b[i]
      /\ q.matured_rex = rb.matured_rex + InBuckets(SubSeq(b, 1, n))
      /\ q.rex_maturities \in Seq(BucketRows)
      /\ Len(q.rex_maturities) = Len(b) - n
      /\ \A i \in 1 .. Len(b) - n : q.rex_maturities[i] = b[n + i]
      /\ Increasing(b) => Fresh(q.rex_maturities, t) /\ Increasing(q.rex_maturities)
  BY <1>1, Processed
<1>7. Increasing(b)
  BY DEF Ordered, Increasing
<1>8. Increasing(f) => Fresh(r.rex_maturities, t)
  <2> HIDE DEF w
  <2> QED
    BY <1>1, <1>3, Processed
<1>9. Fresh(r.rex_maturities, t)
  BY <1>3, <1>8 DEF Plain
<1>10. EndsAt(b, EndOfDays) => n < Len(b)
  <2> SUFFICES ASSUME EndsAt(b, EndOfDays), n = Len(b) PROVE FALSE
    BY <1>2, <1>6
  <2>1. b # << >> /\ Last(b).first = EndOfDays
    BY DEF EndsAt
  <2>2. n \in 1 .. n /\ Last(b) = b[n]
    BY <1>2, <2>1 DEF Last
  <2> HIDE DEF b, n
  <2>3. b[n].first <= t
    BY <1>6, <2>2
  <2> QED
    BY <1>1, <2>1, <2>2, <2>3
<1>11. /\ EndsAt(q.rex_maturities, EndOfDays) <=> EndsAt(b, EndOfDays)
       /\ EndsAt(b, EndOfDays) => Last(q.rex_maturities) = Last(b)
  <2> HIDE DEF q, n, b
  <2> QED
    BY <1>2, <1>6, <1>10, SavingsLast
<1>12. read_rex_savings(q) = read_rex_savings(rb)
  BY <1>11 DEF read_rex_savings
<1>13. q.matured_rex = r.matured_rex
       /\ \A u \in 1 .. Horizon : Maturing(q.rex_maturities, u) = Maturing(r.rex_maturities, u)
  <2>1. CASE ~ EndsAt(b, EndOfDays)
    BY <2>1 DEF WithoutSavings
  <2>2. CASE EndsAt(b, EndOfDays)
    <3> DEFINE e == Last(b)
               c == SubSeq(b, 1, n)
               d == r.rex_maturities
               m == Mature(f, t)
    <3>1. f = Front(b) /\ b # << >> /\ e.first = EndOfDays
      BY <2>2 DEF WithoutSavings, EndsAt, BalanceRows
    <3>2. /\ f \in Seq(BucketRows) /\ e \in BucketRows /\ Len(f) = Len(b) - 1 /\ Len(b) >= 1
          /\ \A i \in 1 .. Len(b) - 1 : f[i] = b[i]
          /\ e = b[Len(b)]
      BY <1>2, <3>1, WithoutLast
    <3>3. /\ m \in 0 .. Len(f)
          /\ SubSeq(f, 1, m) \in Seq(BucketRows) /\ Len(SubSeq(f, 1, m)) = m
          /\ \A i \in 1 .. m : SubSeq(f, 1, m)[i] = f[i]
          /\ \A i \in 1 .. m : SubSeq(f, 1, m)[i].first <= t
          /\ r.matured_rex = w.matured_rex + InBuckets(SubSeq(f, 1, m))
          /\ d \in Seq(BucketRows)
          /\ Len(d) = Len(f) - m
          /\ \A i \in 1 .. Len(f) - m : d[i] = f[m + i]
      <4>1. w \in BalanceRows
        BY <1>3
      <4> HIDE DEF w, n, q, c, e, b
      <4> QED
        BY <1>1, <4>1, Processed
    <3>4. m < Len(f) => f[m + 1].first > t
      <4> HIDE DEF w
      <4> QED
        BY <1>1, <3>2, MatureFacts
    <3>5. c \in Seq(BucketRows) /\ Len(c) = n
      <4> HIDE DEF n
      <4> QED
        BY <1>2, <1>6, CutBuckets
    <3>6. w.matured_rex = rb.matured_rex
      BY <1>3 DEF BalanceRows
    <3> HIDE DEF b, w, q, r, e
    <3>7. m \in Nat /\ Len(f) \in Nat /\ m <= Len(f) /\ m \in 0 .. Len(b)
      BY <1>2, <3>2, <3>3
    <3> HIDE DEF f, m
    <3>8. n = m
      <4>1. ASSUME NEW i \in 1 .. m PROVE b[i].first <= t
        <5>1. i \in 1 .. Len(b) - 1
          BY <1>2, <3>2, <3>7
        <5>2. f[i].first <= t
          BY <3>3
        <5> QED
          BY <3>2, <5>1, <5>2
      <4>2. ASSUME m < Len(b) PROVE b[m + 1].first > t
        <5>1. CASE m < Len(f)
          BY <1>2, <3>2, <3>4, <3>7, <5>1
        <5>2. CASE m = Len(f)
          BY <1>1, <1>2, <3>1, <3>2, <3>7, <5>2
        <5> QED
          BY <3>7, <5>1, <5>2
      <4> QED
        BY <1>1, <1>2, <3>7, <4>1, <4>2, MatureIs
    <3> HIDE DEF n
    <3>9. c = SubSeq(f, 1, m)
      <4> DEFINE g == SubSeq(f, 1, m)
      <4>1. g \in Seq(BucketRows) /\ Len(g) = m /\ \A i \in 1 .. m : g[i] = f[i]
        BY <3>3
      <4>2. \A i \in 1 .. m : c[i] = b[i] /\ f[i] = b[i]
        BY <1>2, <1>6, <3>2, <3>7, <3>8
      <4> HIDE DEF g, c
      <4>3. c = g
        BY <3>5, <3>8, <4>1, <4>2
      <4> QED
        BY <4>3 DEF g
    <3>10. q.matured_rex = r.matured_rex
      BY <1>6, <3>3, <3>6, <3>9
    <3>11. q.rex_maturities = Append(d, e)
      <4> DEFINE x == q.rex_maturities
                 y == Append(d, e)
      <4>1. y \in Seq(BucketRows) /\ Len(y) = Len(d) + 1 /\ y[Len(d) + 1] = e
            /\ \A i \in 1 .. Len(d) : y[i] = d[i]
        BY <3>2, <3>3, AppendedBucket
      <4>2. x \in Seq(BucketRows) /\ Len(x) = Len(b) - n /\ \A i \in 1 .. Len(b) - n : x[i] = b[n + i]
        BY <1>6
      <4>3. Len(d) = Len(f) - m /\ Len(x) = Len(d) + 1 /\ Len(d) \in Nat
        BY <1>2, <3>2, <3>3, <3>7, <3>8, <4>2
      <4> HIDE DEF d, x, y
      <4>4. ASSUME NEW i \in 1 .. Len(x) PROVE x[i] = y[i]
        <5>1. CASE i \in 1 .. Len(d)
          <6>1. m + i \in 1 .. Len(b) - 1 /\ i \in 1 .. Len(f) - m /\ i \in 1 .. Len(b) - n
            BY <1>2, <3>2, <3>7, <3>8, <4>2, <4>3, <5>1
          <6>2. d[i] = f[m + i]
            BY <3>3, <6>1 DEF d
          <6>3. f[m + i] = b[m + i]
            BY <3>2, <6>1
          <6>4. x[i] = b[m + i]
            BY <3>8, <4>2, <6>1
          <6> QED
            BY <4>1, <5>1, <6>2, <6>3, <6>4
        <5>2. CASE i \notin 1 .. Len(d)
          <6>0. i = Len(d) + 1
            BY <4>3, <5>2
          <6>1. n + i = Len(b) /\ i \in 1 .. Len(b) - n
            BY <1>2, <3>2, <3>7, <3>8, <4>2, <4>3, <6>0
          <6> QED
            BY <3>2, <4>1, <4>2, <6>0, <6>1
        <5> QED
          BY <5>1, <5>2
      <4>5. x = y
        BY <4>1, <4>2, <4>3, <4>4
      <4> QED
        BY <4>5 DEF x, y
    <3>12. ASSUME NEW u \in 1 .. Horizon
           PROVE  Maturing(q.rex_maturities, u) = Maturing(d, u)
      <4>1. e.first # u
        BY <1>1, <3>1
      <4>2. Maturing(Append(d, e), u) = Maturing(d, u) + 0
        BY <3>2, <3>3, <4>1, MaturingAppend
      <4>3. Maturing(d, u) \in Nat
        BY <3>3, MaturingType
      <4> QED
        BY <3>11, <4>2, <4>3
    <3> QED
      BY <3>10, <3>12 DEF q, r, w, f
  <2> QED
    BY <2>1, <2>2
<1>14. View(rb, t) = FreshView(r, read_rex_savings(rb))
  <2>1. View(rb, t) = FreshView(q, read_rex_savings(rb))
    BY DEF View
  <2> HIDE DEF q, r
  <2> QED
    BY <1>4, <1>5, <1>13, <2>1, SameView
<1> QED
  BY <1>4, <1>6, <1>7, <1>9, <1>12, <1>13, <1>14

\* Savings put next to a row without due buckets.
LEMMA ViewClosed ==
  ASSUME NEW t \in 0 .. MaxTime, NEW r \in BalanceRows, Plain(r.rex_maturities, t),
         Fresh(r.rex_maturities, t), NEW saved \in Nat
  PROVE  View(put_rex_savings(r, saved), t) = FreshView(r, saved)
<1> DEFINE b == r.rex_maturities
           p == put_rex_savings(r, saved)
           e == Bucket(EndOfDays, saved)
<1>1. /\ t \in Nat /\ Horizon \in Nat /\ EndOfDays \in Nat /\ Horizon < EndOfDays /\ t < EndOfDays
      /\ get_rex_maturity(t) \in 1 .. Horizon
  BY MaturityRange
<1>2. /\ b \in Seq(BucketRows) /\ Len(b) \in Nat
      /\ \A i \in 1 .. Len(b) : b[i].first <= get_rex_maturity(t)
  BY DEF Plain
<1>3. ~ EndsAt(b, EndOfDays)
  <2> SUFFICES ASSUME EndsAt(b, EndOfDays) PROVE FALSE
    OBVIOUS
  <2>1. b # << >> /\ Last(b).first = EndOfDays
    BY DEF EndsAt
  <2>2. Len(b) \in 1 .. Len(b) /\ Last(b) = b[Len(b)]
    BY <1>2, <2>1 DEF Last
  <2> QED
    BY <1>1, <1>2, <2>1, <2>2
<1>4. p \in BalanceRows /\ p.matured_rex = r.matured_rex
  BY RowClosed DEF Rearranged
<1>5. CASE saved = 0
  <2>1. p = r /\ read_rex_savings(p) = 0
    BY <1>3, <1>5 DEF put_rex_savings, read_rex_savings
  <2>2. process_rex_maturities(p, t) = r
    BY <1>1, <2>1, ProcessFresh
  <2> QED
    BY <1>5, <2>1, <2>2 DEF View
<1>6. CASE saved # 0
  <2>1. e \in BucketRows /\ e.first = EndOfDays /\ e.second = saved
    BY <1>1, BucketType
  <2>2. p.rex_maturities = Append(b, e)
    BY <1>3, <1>6 DEF put_rex_savings, PutLast, BalanceRows
  <2> HIDE DEF p, e, b
  <2>3. /\ Append(b, e) \in Seq(BucketRows) /\ Len(Append(b, e)) = Len(b) + 1
        /\ \A i \in 1 .. Len(b) : Append(b, e)[i] = b[i]
        /\ Append(b, e)[Len(b) + 1] = e
    BY <1>2, <2>1, AppendedBucket
  <2>4. Fresh(p.rex_maturities, t)
    <3> SUFFICES ASSUME NEW i \in 1 .. Len(Append(b, e)) PROVE Append(b, e)[i].first > t
      BY <2>2 DEF Fresh
    <3>1. CASE i \in 1 .. Len(b)
      BY <2>3, <3>1 DEF Fresh, b
    <3>2. CASE i \notin 1 .. Len(b)
      <4>1. i = Len(b) + 1
        BY <1>2, <2>3, <3>2
      <4> QED
        BY <1>1, <2>1, <2>3, <4>1
    <3> QED
      BY <3>1, <3>2
  <2>5. process_rex_maturities(p, t) = p
    BY <1>1, <1>4, <2>4, ProcessFresh
  <2>6. read_rex_savings(p) = saved
    <3>1. Append(b, e) # << >> /\ Last(Append(b, e)) = e
      <4>1. Append(b, e) # << >>
        BY <1>2, <2>3
      <4> QED
        BY <2>3, <4>1 DEF Last
    <3> QED
      BY <2>1, <2>2, <3>1 DEF read_rex_savings, EndsAt
  <2>7. ASSUME NEW u \in 1 .. Horizon PROVE Maturing(p.rex_maturities, u) = Maturing(b, u)
    <3>1. e.first # u
      BY <1>1, <2>1
    <3>2. Maturing(Append(b, e), u) = Maturing(b, u) + 0
      BY <1>2, <2>1, <3>1, MaturingAppend
    <3>3. Maturing(b, u) \in Nat
      BY <1>2, MaturingType
    <3> QED
      BY <2>2, <3>2, <3>3
  <2>8. FreshView(p, saved) = FreshView(r, saved)
    BY <1>4, <2>7, SameView DEF b
  <2>9. View(p, t) = FreshView(p, saved)
    BY <2>5, <2>6 DEF View
  <2> QED
    BY <2>8, <2>9 DEF p
<1> QED
  BY <1>5, <1>6

\* What matures after x, summed over the times and over the buckets.
LEMMA LaterSum ==
  ASSUME NEW b \in Seq(BucketRows), NEW H \in Nat, NEW x \in Int,
         \A i \in 1 .. Len(b) : b[i].first \in 1 .. H
  PROVE  SumTo([u \in 1 .. H |-> IF u > x THEN Maturing(b, u) ELSE 0], H) =
         SumTo([i \in 1 .. Len(b) |-> IF b[i].first > x THEN b[i].second ELSE 0], Len(b))
<1> DEFINE part(k, u) == SumTo(MaturingIn(b, u), k)
           later(k) == [u \in 1 .. H |-> IF u > x THEN part(k, u) ELSE 0]
           G == [i \in 1 .. Len(b) |-> IF b[i].first > x THEN b[i].second ELSE 0]
           S == {k \in Nat : /\ SumTo(later(k), H) = SumTo(G, k)
                             /\ \A u : part(k, u) \in Int}
<1>1. Len(b) \in Nat /\ \A i \in 1 .. Len(b) : b[i].second \in Nat /\ b[i].first \in Int
  <2>1. \A i \in 1 .. Len(b) : b[i] \in BucketRows
    OBVIOUS
  <2> QED
    BY <2>1 DEF BucketRows
<1>2. 0 \in S
  <2>1. \A u : part(0, u) = 0
    BY SumToZero
  <2>2. \A u \in 1 .. H : later(0)[u] = 0
    BY <2>1
  <2> HIDE DEF later, part
  <2>3. SumTo(later(0), H) = 0 /\ SumTo(G, 0) = 0
    BY <2>2, SumToAllZero, SumToZero
  <2> QED
    BY <2>1, <2>3
<1>3. ASSUME NEW k \in 0 .. Len(b) - 1, k \in S PROVE k + 1 \in S
  <2> DEFINE v == b[k + 1].first
             s == b[k + 1].second
             d == IF v > x THEN s ELSE 0
  <2>1. k \in Nat /\ k + 1 \in Nat /\ k + 1 \in 1 .. Len(b) /\ v \in 1 .. H /\ v \in Int /\ s \in Nat /\ d \in Int
    BY <1>1
  <2>2. \A u : part(k + 1, u) = part(k, u) + (IF v = u THEN s ELSE 0)
    <3> TAKE u
    <3>1. part(k + 1, u) = part(k, u) + MaturingIn(b, u)[k + 1]
      BY <2>1, SumToSucc
    <3>2. MaturingIn(b, u)[k + 1] = IF v = u THEN s ELSE 0
      BY <2>1 DEF MaturingIn
    <3> QED
      BY <3>1, <3>2
  <2>3. \A u : part(k, u) \in Int
    BY <1>3
  <2>4. \A u : part(k + 1, u) \in Int
    <3> HIDE DEF part, v, s
    <3> TAKE u
    <3>1. CASE v = u
      BY <2>1, <2>2, <2>3, <3>1
    <3>2. CASE v # u
      BY <2>1, <2>2, <2>3, <3>2
    <3> QED
      BY <3>1, <3>2
  <2>5. SumTo(later(k), H) = SumTo(G, k)
    BY <1>3
  <2>6. SumTo(G, k + 1) = SumTo(G, k) + d
    <3>1. SumTo(G, k + 1) = SumTo(G, k) + G[k + 1]
      BY <2>1, SumToSucc
    <3> QED
      BY <2>1, <3>1
  <2> HIDE DEF part, v, s
  <2>7. later(k) \in [1 .. H -> Int] /\ later(k + 1) \in [1 .. H -> Int]
    BY <2>3, <2>4
  <2>8. \A u \in 1 .. H : u # v => later(k + 1)[u] = later(k)[u]
    <3> TAKE u \in 1 .. H
    <3> HAVE u # v
    <3>1. part(k + 1, u) = part(k, u)
      BY <2>2, <2>3
    <3> QED
      BY <3>1
  <2>9. later(k + 1)[v] = later(k)[v] + d
    <3>1. part(k + 1, v) = part(k, v) + s
      BY <2>2
    <3> QED
      BY <2>1, <2>3, <3>1
  <2> HIDE DEF later, d, G
  <2>10. SumTo(later(k + 1), H) = SumTo(later(k), H) + d
    BY <2>1, <2>7, <2>8, <2>9, SumToAdd
  <2> QED
    BY <2>1, <2>4, <2>5, <2>6, <2>10
<1>4. Len(b) \in S
  <2> HIDE DEF S
  <2> QED
    BY <1>1, <1>2, <1>3, UpToInduction
<1>5. \A u : part(Len(b), u) = Maturing(b, u)
  BY MaturingType
<1>6. later(Len(b)) = [u \in 1 .. H |-> IF u > x THEN Maturing(b, u) ELSE 0]
  BY <1>5
<1>7. SumTo(later(Len(b)), H) = SumTo(G, Len(b))
  BY <1>4
<1> QED
  BY <1>6, <1>7

\* What matures at some time is all that is in the buckets.
LEMMA AllTimes ==
  ASSUME NEW b \in Seq(BucketRows), NEW H \in Nat, \A i \in 1 .. Len(b) : b[i].first \in 1 .. H
  PROVE  SumTo([u \in 1 .. H |-> Maturing(b, u)], H) = InBuckets(b)
<1>0. PICK x \in Int : x = 0
  OBVIOUS
<1> DEFINE f == [u \in 1 .. H |-> Maturing(b, u)]
           g == [u \in 1 .. H |-> IF u > x THEN Maturing(b, u) ELSE 0]
           h == [i \in 1 .. Len(b) |-> IF b[i].first > x THEN b[i].second ELSE 0]
<1>1. SumTo(g, H) = SumTo(h, Len(b))
  BY LaterSum
<1>2. \A u \in 1 .. H : f[u] = g[u]
  BY <1>0
<1>3. f = g
  BY <1>2
<1>4. \A i \in 1 .. Len(b) : h[i] = SecondsOf(b)[i]
  BY <1>0 DEF SecondsOf
<1>5. InBuckets(b) = SumTo(SecondsOf(b), Len(b)) /\ Len(b) \in Nat
  BY DEF InBuckets, SecondsOf
<1> HIDE DEF f, g, h
<1>6. SumTo(h, Len(b)) = SumTo(SecondsOf(b), Len(b))
  BY <1>4, <1>5, SumToPrefix
<1> QED
  BY <1>1, <1>3, <1>5, <1>6 DEF f

\* What the buckets after the i-th hold matures later than it.
LEMMA AfterIsLater ==
  ASSUME NEW b \in Seq(BucketRows), Increasing(b), NEW H \in Nat,
         \A j \in 1 .. Len(b) : b[j].first \in 1 .. H, NEW i \in 1 .. Len(b)
  PROVE  SumTo([u \in 1 .. H |-> IF u > b[i].first THEN Maturing(b, u) ELSE 0], H) = After(b, i)
<1> DEFINE x == b[i].first
           L == Len(b)
           G == [j \in 1 .. L |-> IF b[j].first > x THEN b[j].second ELSE 0]
           c == SubSeq(b, i + 1, L)
           h == SecondsOf(c)
           zero == [j \in 1 .. i |-> 0]
<1>1. L \in Nat /\ i \in Nat /\ i <= L /\ \A j \in 1 .. L : b[j].second \in Nat /\ b[j].first \in Int
  <2>1. \A j \in 1 .. L : b[j] \in BucketRows
    OBVIOUS
  <2> QED
    BY <2>1 DEF BucketRows
<1>2. SumTo([u \in 1 .. H |-> IF u > x THEN Maturing(b, u) ELSE 0], H) = SumTo(G, L)
  BY <1>1, LaterSum
<1>3. c \in Seq(BucketRows) /\ Len(c) = L - i /\ \A j \in 1 .. L - i : c[j] = b[i + j]
  <2>1. i \in 0 .. L
    BY <1>1
  <2> QED
    BY <2>1, CutBuckets
<1>4. After(b, i) = SumTo(h, L - i) /\ h \in [1 .. L - i -> Int]
  <2> HIDE DEF c
  <2> QED
    BY <1>3, SecondsType DEF After, InBuckets, SecondsOf, c
<1>5. \A j \in 1 .. i : G[j] = 0
  <2> TAKE j \in 1 .. i
  <2>1. j \in 1 .. L /\ b[j].first \in Int /\ x \in Int
    BY <1>1
  <2>2. ~ (b[j].first > x)
    <3>1. CASE j = i
      BY <2>1, <3>1
    <3>2. CASE j < i
      BY <1>1, <2>1, <3>2 DEF Increasing
    <3> QED
      BY <1>1, <3>1, <3>2
  <2> QED
    BY <2>1, <2>2
<1>6. \A j \in 1 .. L - i : h[j] = G[i + j]
  <2> TAKE j \in 1 .. L - i
  <2>1. i + j \in 1 .. L /\ i < i + j /\ c[j] = b[i + j] /\ j \in 1 .. Len(c)
    BY <1>1, <1>3
  <2>2. b[i + j].first > x
    BY <1>1, <2>1 DEF Increasing
  <2>3. h[j] = b[i + j].second
    BY <2>1 DEF SecondsOf
  <2> QED
    BY <2>1, <2>2, <2>3
<1>7. G \in [1 .. i + (L - i) -> Int] /\ i + (L - i) = L /\ L - i \in Nat
  BY <1>1
<1> HIDE DEF G, h, L
<1>8. SumTo(G, i + (L - i)) = SumTo(G, i) + SumTo(h, L - i)
  BY <1>1, <1>4, <1>6, <1>7, SumToShift
<1>9. SumTo(G, i) = 0
  BY <1>1, <1>5, SumToAllZero
<1>10. SumTo(h, L - i) \in Int
  BY <1>4, <1>7, SumToInt
<1> QED
  BY <1>2, <1>4, <1>7, <1>8, <1>9, <1>10

\* The maturities of a row without savings and due buckets.
LEMMA FreshRange ==
  ASSUME NEW t \in 0 .. MaxTime, NEW b, Plain(b, t), Fresh(b, t)
  PROVE  \A i \in 1 .. Len(b) : b[i].first \in 1 .. Horizon
<1>1. /\ t \in Nat /\ Horizon \in Nat /\ get_rex_maturity(t) \in 1 .. Horizon
  BY MaturityRange
<1>2. \A i \in 1 .. Len(b) : b[i] \in BucketRows
  BY DEF Plain
<1>3. \A i \in 1 .. Len(b) : b[i].first \in Int /\ b[i].first > t /\ b[i].first <= get_rex_maturity(t)
  BY <1>2 DEF BucketRows, Plain, Fresh
<1> QED
  BY <1>1, <1>3

\* The loop of mvtosavings takes from each time what it has to give up.
LEMMA TakenMaturing ==
  ASSUME NEW t \in 0 .. MaxTime, NEW b, Plain(b, t), Fresh(b, t), NEW rex \in Nat, rex > 0
  PROVE  LET c == TakenFromBack(b, rex)
             locked == [u \in 1 .. Horizon |-> Maturing(b, u)]
         IN  /\ Fresh(c, t)
             /\ \A u \in 1 .. Horizon : /\ GivenUp(locked, u, rex) \in Nat
                                        /\ Maturing(c, u) = locked[u] - GivenUp(locked, u, rex)
             /\ SumTo([u \in 1 .. Horizon |-> GivenUp(locked, u, rex)], Horizon) =
                   IF rex > InBuckets(b) THEN InBuckets(b) ELSE rex
<1> DEFINE c == TakenFromBack(b, rex)
           locked == [u \in 1 .. Horizon |-> Maturing(b, u)]
           rest == [u \in 1 .. Horizon |-> Maturing(c, u)]
           given == [u \in 1 .. Horizon |-> GivenUp(locked, u, rex)]
           later(u) == SumTo([w \in 1 .. Horizon |-> IF w > u THEN locked[w] ELSE 0], Horizon)
           left(u) == IF rex > later(u) THEN rex - later(u) ELSE 0
<1>1. t \in Nat /\ Horizon \in Nat
  BY MaturityRange
<1>2. b \in Seq(BucketRows) /\ Increasing(b) /\ Len(b) \in Nat /\ InBuckets(b) \in Nat
  BY BucketsNat DEF Plain
<1>3. \A i \in 1 .. Len(b) : b[i].first \in 1 .. Horizon /\ b[i].second \in Nat
  <2>1. \A i \in 1 .. Len(b) : b[i] \in BucketRows
    BY <1>2
  <2> QED
    BY <2>1, FreshRange DEF BucketRows
<1>4. /\ Plain(c, t) /\ Len(c) \in 0 .. Len(b)
      /\ InBuckets(c) = IF rex > InBuckets(b) THEN 0 ELSE InBuckets(b) - rex
      /\ \A i \in 1 .. Len(c) : c[i].first = b[i].first /\ c[i].second = Kept(b, rex, i)
      /\ \A i \in 1 .. Len(b) : i > Len(c) => Kept(b, rex, i) = 0
  BY <1>1, TakenFacts
<1> HIDE DEF c
<1>5. c \in Seq(BucketRows) /\ Increasing(c) /\ \A i \in 1 .. Len(c) : i \in 1 .. Len(b)
  BY <1>2, <1>4 DEF Plain
<1>6. Fresh(c, t)
  BY <1>4, <1>5 DEF Fresh
<1>7. locked \in [1 .. Horizon -> Nat] /\ rest \in [1 .. Horizon -> Nat]
  BY <1>2, <1>5, MaturingType
<1>8. ASSUME NEW u \in 1 .. Horizon PROVE later(u) \in Nat /\ left(u) \in Nat
  <2> DEFINE f == [w \in 1 .. Horizon |-> IF w > u THEN locked[w] ELSE 0]
  <2>1. f \in [1 .. Horizon -> Nat]
    BY <1>7
  <2> HIDE DEF f
  <2>2. SumTo(f, Horizon) \in Nat
    BY <1>1, <2>1, SumToNat
  <2> QED
    BY <2>2 DEF f
<1>9. \A u : GivenUp(locked, u, rex) = IF left(u) < locked[u] THEN left(u) ELSE locked[u]
  BY DEF GivenUp
<1> HIDE DEF left
<1>10. \A u \in 1 .. Horizon : GivenUp(locked, u, rex) \in Nat
  <2> TAKE u \in 1 .. Horizon
  <2>1. left(u) \in Nat /\ locked[u] \in Nat
    BY <1>7, <1>8
  <2> QED
    BY <1>9, <2>1
<1>11. ASSUME NEW i \in 1 .. Len(b)
       PROVE  later(b[i].first) = After(b, i)
  <2> DEFINE u == b[i].first
             f == [w \in 1 .. Horizon |-> IF w > u THEN locked[w] ELSE 0]
             g == [w \in 1 .. Horizon |-> IF w > u THEN Maturing(b, w) ELSE 0]
  <2>1. f = g
    OBVIOUS
  <2>2. SumTo(g, Horizon) = After(b, i)
    BY <1>1, <1>2, <1>3, AfterIsLater
  <2> QED
    BY <2>1, <2>2
<1> HIDE DEF later
<1>12. ASSUME NEW u \in 1 .. Horizon
       PROVE  rest[u] = locked[u] - GivenUp(locked, u, rex)
  <2>1. CASE \E i \in 1 .. Len(b) : b[i].first = u
    <3>1. PICK i \in 1 .. Len(b) : b[i].first = u
      BY <2>1
    <3>2. locked[u] = b[i].second
      BY <1>2, <3>1, OneMaturing
    <3>3. rest[u] = Kept(b, rex, i)
      <4>1. CASE i <= Len(c)
        <5>1. i \in 1 .. Len(c)
          BY <1>2, <1>4, <4>1
        <5>2. c[i].first = u /\ c[i].second = Kept(b, rex, i)
          BY <1>4, <3>1, <5>1
        <5>3. Maturing(c, c[i].first) = c[i].second
          BY <1>5, <5>1, OneMaturing
        <5> QED
          BY <5>2, <5>3
      <4>2. CASE i > Len(c)
        <5>1. Kept(b, rex, i) = 0
          BY <1>4, <4>2
        <5>2. ASSUME NEW j \in 1 .. Len(c) PROVE c[j].first # u
          <6>1. j \in 1 .. Len(b) /\ j < i /\ c[j].first = b[j].first
            BY <1>2, <1>4, <1>5, <4>2
          <6>2. b[j].first < b[i].first
            BY <1>2, <6>1 DEF Increasing
          <6>3. b[j].first \in Int
            BY <1>3, <6>1
          <6> QED
            BY <3>1, <6>1, <6>2, <6>3
        <5>3. Maturing(c, u) = 0
          BY <1>5, <5>2, NoneMaturing
        <5> QED
          BY <5>1, <5>3
      <4> QED
        BY <1>2, <1>4, <4>1, <4>2
    <3>4. later(u) = After(b, i) /\ later(u) \in Nat
      BY <1>8, <1>11, <3>1
    <3>5. left(u) = IF rex > After(b, i) THEN rex - After(b, i) ELSE 0
      BY <3>4 DEF left
    <3>6. GivenUp(locked, u, rex) = IF left(u) < locked[u] THEN left(u) ELSE locked[u]
      BY <1>9
    <3> DEFINE A == After(b, i)
               s == b[i].second
               k == Kept(b, rex, i)
               x == left(u)
               g == GivenUp(locked, u, rex)
    <3>7. A \in Nat /\ s \in Nat
      BY <1>3, <3>4
    <3>8. k = IF rex <= A THEN s ELSE IF rex >= A + s THEN 0 ELSE s + A - rex
      BY DEF Kept
    <3>9. x = (IF rex > A THEN rex - A ELSE 0) /\ g = (IF x < s THEN x ELSE s)
      BY <3>2, <3>5, <3>6
    <3> HIDE DEF A, s, k, x, g
    <3>10. k = s - g
      BY <3>7, <3>8, <3>9
    <3> QED
      BY <3>2, <3>3, <3>10 DEF s, k, g
  <2>2. CASE ~ \E i \in 1 .. Len(b) : b[i].first = u
    <3>1. locked[u] = 0
      BY <1>2, <2>2, NoneMaturing
    <3>2. rest[u] = 0
      <4>1. \A j \in 1 .. Len(c) : c[j].first # u
        BY <1>4, <1>5, <2>2
      <4>2. Maturing(c, u) = 0
        BY <1>5, <4>1, NoneMaturing
      <4> QED
        BY <4>2
    <3>3. GivenUp(locked, u, rex) = 0
      <4>1. left(u) \in Nat
        BY <1>8
      <4> HIDE DEF locked
      <4> QED
        BY <1>9, <3>1, <4>1
    <3> QED
      BY <3>1, <3>2, <3>3
  <2> QED
    BY <2>1, <2>2
<1>13. SumTo(given, Horizon) = IF rex > InBuckets(b) THEN InBuckets(b) ELSE rex
  <2>1. SumTo(locked, Horizon) = InBuckets(b)
    BY <1>1, <1>2, <1>3, AllTimes
  <2>2. SumTo(rest, Horizon) = InBuckets(c)
    <3>1. \A i \in 1 .. Len(c) : c[i].first \in 1 .. Horizon
      BY <1>3, <1>4, <1>5
    <3> QED
      BY <1>1, <1>5, <3>1, AllTimes
  <2>3. given \in [1 .. Horizon -> Int] /\ rest \in [1 .. Horizon -> Int] /\ given \in [1 .. Horizon -> Nat]
    BY <1>7, <1>10
  <2>4. \A u \in 1 .. Horizon : locked[u] = rest[u] + given[u]
    <3> TAKE u \in 1 .. Horizon
    <3>1. locked[u] \in Nat /\ GivenUp(locked, u, rex) \in Nat
      BY <1>7, <1>10
    <3>2. rest[u] = locked[u] - GivenUp(locked, u, rex)
      BY <1>12
    <3>3. given[u] = GivenUp(locked, u, rex)
      OBVIOUS
    <3> HIDE DEF locked, rest, given
    <3> QED
      BY <3>1, <3>2, <3>3
  <2> HIDE DEF locked, rest, given
  <2>5. SumTo(locked, Horizon) = SumTo(rest, Horizon) + SumTo(given, Horizon)
    BY <1>1, <2>3, <2>4, SumToPlus
  <2>6. SumTo(given, Horizon) \in Nat
    BY <1>1, <2>3, SumToNat
  <2> QED
    BY <1>2, <1>4, <2>1, <2>2, <2>5, <2>6
<1>14. \A u \in 1 .. Horizon : Maturing(c, u) = locked[u] - GivenUp(locked, u, rex)
  BY <1>12
<1> QED
  BY <1>6, <1>10, <1>13, <1>14 DEF c

\* The row in a view, by its parts.
LEMMA ViewParts ==
  ASSUME NEW r, NEW saved
  PROVE  /\ FreshView(r, saved).free = r.matured_rex
         /\ FreshView(r, saved).locked = LockedIn(r.rex_maturities)
         /\ FreshView(r, saved).saved = saved
BY DEF FreshView, LockedIn

\* REX that joins the buckets is locked until its maturity.
LEMMA ViewJoins ==
  ASSUME NEW t \in 0 .. MaxTime, NEW r \in BalanceRows, Plain(r.rex_maturities, t),
         Fresh(r.rex_maturities, t), NEW rex \in Nat, NEW saved \in Nat
  PROVE  LET m == get_rex_maturity(t)
             s == [r EXCEPT !.rex_maturities = PutLast(@, m, rex)]
             W == View(put_rex_savings(s, saved), t)
         IN  /\ W.free = r.matured_rex
             /\ W.locked = [LockedIn(r.rex_maturities) EXCEPT ![m] = @ + rex]
             /\ W.saved = saved
<1> DEFINE m == get_rex_maturity(t)
           b == r.rex_maturities
           d == PutLast(b, m, rex)
           s == [r EXCEPT !.rex_maturities = d]
<1>1. t \in Nat /\ m \in Int /\ m > t /\ m \in 1 .. Horizon
  BY MaturityRange
<1>2. Plain(d, t)
  BY <1>1, PutMaturity
<1>3. b \in Seq(BucketRows) /\ d \in Seq(BucketRows) /\ Len(b) \in Nat /\ Len(d) \in Nat
  BY <1>2 DEF Plain
<1>4. /\ Len(d) >= 1 /\ d[Len(d)].first = m
      /\ Len(d) = Len(b) + 1 \/ Len(d) = Len(b)
      /\ \A i \in 1 .. Len(b) : d[i].first = b[i].first
  <2> HIDE DEF m
  <2> QED
    BY <1>1, <1>3, PutLastFacts
<1>5. \A u \in 1 .. Horizon : Maturing(d, u) = Maturing(b, u) + (IF m = u THEN rex ELSE 0)
  <2> HIDE DEF m
  <2> QED
    BY <1>1, <1>3, MaturingPutLast
<1> HIDE DEF d, m
<1>6. Fresh(d, t)
  <2> SUFFICES ASSUME NEW i \in 1 .. Len(d) PROVE d[i].first > t
    BY DEF Fresh
  <2>1. CASE i \in 1 .. Len(b)
    BY <1>4, <2>1 DEF Fresh
  <2>2. CASE i \notin 1 .. Len(b)
    <3>1. i = Len(d)
      BY <1>3, <1>4, <2>2
    <3> QED
      BY <1>1, <1>4, <3>1
  <2> QED
    BY <2>1, <2>2
<1>7. s \in BalanceRows /\ s.rex_maturities = d /\ s.matured_rex = r.matured_rex
  BY <1>3 DEF BalanceRows
<1>8. View(put_rex_savings(s, saved), t) = FreshView(s, saved)
  <2> HIDE DEF s
  <2> QED
    BY <1>2, <1>6, <1>7, ViewClosed
<1>9. LockedIn(d) = [LockedIn(b) EXCEPT ![m] = @ + rex]
  <2>1. \A u \in 1 .. Horizon : Maturing(b, u) \in Nat
    BY <1>3, MaturingType
  <2>2. \A u \in 1 .. Horizon : LockedIn(d)[u] = [LockedIn(b) EXCEPT ![m] = @ + rex][u]
    <3> TAKE u \in 1 .. Horizon
    <3>1. CASE u = m
      BY <1>1, <1>5, <3>1 DEF LockedIn
    <3>2. CASE u # m
      BY <1>1, <1>5, <2>1, <3>2 DEF LockedIn
    <3> QED
      BY <3>1, <3>2
  <2>3. LockedIn(d) = [u \in 1 .. Horizon |-> LockedIn(d)[u]]
    BY DEF LockedIn
  <2>4. [LockedIn(b) EXCEPT ![m] = @ + rex] =
           [u \in 1 .. Horizon |-> [LockedIn(b) EXCEPT ![m] = @ + rex][u]]
    BY DEF LockedIn
  <2> QED
    BY <2>2, <2>3, <2>4
<1>10. /\ View(put_rex_savings(s, saved), t).free = r.matured_rex
       /\ View(put_rex_savings(s, saved), t).locked = [LockedIn(b) EXCEPT ![m] = @ + rex]
       /\ View(put_rex_savings(s, saved), t).saved = saved
  <2> HIDE DEF s
  <2> QED
    BY <1>7, <1>8, <1>9, ViewParts
<1> QED
  BY <1>10 DEF d, m

\* Bought REX is locked until its maturity.
LEMMA ViewBuys ==
  ASSUME NEW t \in 0 .. MaxTime, NEW rb \in BalanceRows, Ordered(rb.rex_maturities, t), NEW rex \in Nat
  PROVE  LET V == View(rb, t)
             W == View(AddToMaturities(rb, rex, t), t)
         IN  /\ W.free = V.free
             /\ W.locked = [V.locked EXCEPT ![get_rex_maturity(t)] = @ + rex]
             /\ W.saved = V.saved
<1> DEFINE r == process_rex_maturities(WithoutSavings(rb), t)
           sv == read_rex_savings(rb)
           s == [r EXCEPT !.rex_maturities = PutLast(@, get_rex_maturity(t), rex)]
<1>1. /\ r \in BalanceRows /\ Plain(r.rex_maturities, t) /\ Fresh(r.rex_maturities, t)
      /\ View(rb, t) = FreshView(r, sv)
  BY ViewOpened
<1>2. sv \in Nat
  BY RowOpened, MaturityRange
<1>3. AddToMaturities(rb, rex, t) = put_rex_savings(s, sv)
  BY DEF AddToMaturities
<1> HIDE DEF r, sv
<1> QED
  BY <1>1, <1>2, <1>3, ViewJoins, ViewParts

\* REX out of the savings is locked until its maturity.
LEMMA ViewUnsaves ==
  ASSUME NEW t \in 0 .. MaxTime, NEW rb \in BalanceRows, Ordered(rb.rex_maturities, t),
         NEW rex \in Nat, rex <= read_rex_savings(rb)
  PROVE  LET V == View(rb, t)
             W == View(MovedFromSavings(rb, rex, t), t)
         IN  /\ W.free = V.free
             /\ W.locked = [V.locked EXCEPT ![get_rex_maturity(t)] = @ + rex]
             /\ W.saved = V.saved - rex
<1> DEFINE r == process_rex_maturities(WithoutSavings(rb), t)
           sv == read_rex_savings(rb)
           s == [r EXCEPT !.rex_maturities = PutLast(@, get_rex_maturity(t), rex)]
<1>1. /\ r \in BalanceRows /\ Plain(r.rex_maturities, t) /\ Fresh(r.rex_maturities, t)
      /\ View(rb, t) = FreshView(r, sv)
  BY ViewOpened
<1>2. sv \in Nat /\ sv - rex \in Nat
  <2>1. sv \in Nat
    BY RowOpened, MaturityRange
  <2> QED
    BY <2>1
<1>3. MovedFromSavings(rb, rex, t) = put_rex_savings(s, sv - rex)
  BY DEF MovedFromSavings
<1> HIDE DEF r, sv
<1> QED
  BY <1>1, <1>2, <1>3, ViewJoins, ViewParts

\* All that is in a row is free, locked or saved.
LEMMA ViewTotal ==
  ASSUME NEW t \in 0 .. MaxTime, NEW rb \in BalanceRows, Ordered(rb.rex_maturities, t)
  PROVE  LET V == View(rb, t) IN
         /\ V.free \in Nat /\ V.saved \in Nat /\ SumTo(V.locked, Horizon) \in Nat
         /\ V.locked \in [1 .. Horizon -> Nat]
         /\ V.saved = read_rex_savings(rb)
         /\ V.free + SumTo(V.locked, Horizon) + V.saved = HeldIn(rb)
         /\ rb.matured_rex <= V.free
<1> DEFINE r == process_rex_maturities(WithoutSavings(rb), t)
           sv == read_rex_savings(rb)
           b == r.rex_maturities
<1>1. t \in Nat /\ Horizon \in Nat
  BY MaturityRange
<1>2. /\ r \in BalanceRows /\ Plain(b, t) /\ Fresh(b, t) /\ View(rb, t) = FreshView(r, sv)
  BY ViewOpened
<1>3. sv \in Nat /\ HeldIn(r) + sv = HeldIn(rb) /\ rb.matured_rex <= r.matured_rex
  BY <1>1, RowOpened
<1> HIDE DEF r, sv
<1>4. /\ View(rb, t).free = r.matured_rex /\ View(rb, t).saved = sv
      /\ View(rb, t).locked = LockedIn(b)
  BY <1>2, ViewParts
<1>5. b \in Seq(BucketRows) /\ InBuckets(b) \in Nat /\ r.matured_rex \in Nat
  BY <1>2, BucketsNat DEF Plain, BalanceRows
<1>6. SumTo(LockedIn(b), Horizon) = InBuckets(b)
  <2>1. \A i \in 1 .. Len(b) : b[i].first \in 1 .. Horizon
    BY <1>2, FreshRange
  <2> QED
    BY <1>1, <1>5, <2>1, AllTimes DEF LockedIn
<1>7. LockedIn(b) \in [1 .. Horizon -> Nat]
  <2>1. \A u \in 1 .. Horizon : Maturing(b, u) \in Nat
    BY <1>5, MaturingType
  <2> QED
    BY <2>1 DEF LockedIn
<1>8. HeldIn(r) = r.matured_rex + InBuckets(b)
  BY DEF HeldIn
<1> HIDE DEF b
<1> QED
  BY <1>3, <1>4, <1>5, <1>6, <1>7, <1>8 DEF sv

\* REX moved to the savings is what matures last, and then what has matured.
LEMMA ViewSaves ==
  ASSUME NEW t \in 0 .. MaxTime, NEW rb \in BalanceRows, Ordered(rb.rex_maturities, t),
         NEW rex \in Nat, rex > 0, rex + read_rex_savings(rb) <= HeldIn(rb)
  PROVE  LET V == View(rb, t)
             W == View(MovedToSavings(rb, rex, t), t)
             given == SumTo([u \in 1 .. Horizon |-> GivenUp(V.locked, u, rex)], Horizon)
             total == SumTo(V.locked, Horizon)
         IN  /\ given = IF rex > total THEN total ELSE rex
             /\ W.free = V.free - (rex - given)
             /\ W.locked = [u \in 1 .. Horizon |-> V.locked[u] - GivenUp(V.locked, u, rex)]
             /\ W.saved = V.saved + rex
<1> DEFINE r == process_rex_maturities(WithoutSavings(rb), t)
           sv == read_rex_savings(rb)
           b == r.rex_maturities
           c == TakenFromBack(b, rex)
           inside == InBuckets(b)
           matured == IF rex > inside THEN r.matured_rex - (rex - inside) ELSE r.matured_rex
           s == [r EXCEPT !.rex_maturities = c, !.matured_rex = matured]
           V == View(rb, t)
           given == SumTo([u \in 1 .. Horizon |-> GivenUp(V.locked, u, rex)], Horizon)
           total == SumTo(V.locked, Horizon)
<1>1. t \in Nat /\ Horizon \in Nat
  BY MaturityRange
<1>2. r \in BalanceRows /\ Plain(b, t) /\ Fresh(b, t) /\ V = FreshView(r, sv)
  BY ViewOpened
<1>3. sv \in Nat /\ HeldIn(r) + sv = HeldIn(rb)
  BY <1>1, RowOpened
<1>4. MovedToSavings(rb, rex, t) = put_rex_savings(s, sv + rex)
  BY DEF MovedToSavings
<1>5. rex + sv <= HeldIn(rb)
  OBVIOUS
<1> HIDE DEF r, sv, V
<1>6. V.free = r.matured_rex /\ V.locked = LockedIn(b) /\ V.saved = sv
  BY <1>2, ViewParts
<1>7. b \in Seq(BucketRows) /\ inside \in Nat /\ r.matured_rex \in Nat
  BY <1>2, BucketsNat DEF Plain, BalanceRows
<1>8. Plain(c, t)
  BY <1>1, <1>2, TakenFacts
<1>9. /\ Fresh(c, t)
      /\ \A u \in 1 .. Horizon : Maturing(c, u) = LockedIn(b)[u] - GivenUp(LockedIn(b), u, rex)
      /\ SumTo([u \in 1 .. Horizon |-> GivenUp(LockedIn(b), u, rex)], Horizon) =
            IF rex > inside THEN inside ELSE rex
  BY <1>2, TakenMaturing DEF LockedIn
<1>10. total = inside
  <2>1. \A i \in 1 .. Len(b) : b[i].first \in 1 .. Horizon
    BY <1>2, FreshRange
  <2>2. SumTo(LockedIn(b), Horizon) = InBuckets(b)
    BY <1>1, <1>7, <2>1, AllTimes DEF LockedIn
  <2> QED
    BY <1>6, <2>2
<1>11. given = IF rex > inside THEN inside ELSE rex
  BY <1>6, <1>9
<1>12. HeldIn(r) = r.matured_rex + inside
  BY DEF HeldIn
<1> HIDE DEF c, inside
<1>13. matured \in Nat
  BY <1>3, <1>5, <1>7, <1>12
<1>14. matured = r.matured_rex - (rex - given)
  BY <1>7, <1>11
<1> HIDE DEF matured
<1>15. s \in BalanceRows /\ s.rex_maturities = c /\ s.matured_rex = matured
  BY <1>2, <1>8, <1>13 DEF BalanceRows, Plain
<1>16. sv + rex \in Nat
  BY <1>3
<1> HIDE DEF s
<1>17. View(put_rex_savings(s, sv + rex), t) = FreshView(s, sv + rex)
  BY <1>8, <1>9, <1>15, <1>16, ViewClosed
<1>18. LockedIn(c) = [u \in 1 .. Horizon |-> V.locked[u] - GivenUp(V.locked, u, rex)]
  BY <1>6, <1>9 DEF LockedIn
<1>19. /\ FreshView(s, sv + rex).free = V.free - (rex - given)
       /\ FreshView(s, sv + rex).locked = LockedIn(c)
       /\ FreshView(s, sv + rex).saved = V.saved + rex
  BY <1>6, <1>14, <1>15, ViewParts
<1>20. given = IF rex > total THEN total ELSE rex
  BY <1>10, <1>11
<1> QED
  BY <1>4, <1>17, <1>18, <1>19, <1>20 DEF V

\* Consolidating locks all but the open order and the savings again.
LEMMA ViewConsolidates ==
  ASSUME NEW t \in 0 .. MaxTime, NEW rb \in BalanceRows, Ordered(rb.rex_maturities, t),
         NEW waiting \in Nat, waiting <= rb.matured_rex
  PROVE  LET V == View(rb, t)
             W == View(consolidate_rex_balance(rb, waiting, t), t)
             all == V.free - waiting + SumTo(V.locked, Horizon)
         IN  /\ W.free = waiting
             /\ W.locked = [u \in 1 .. Horizon |-> IF u = get_rex_maturity(t) THEN all ELSE 0]
             /\ W.saved = V.saved
<1> DEFINE w == WithoutSavings(rb)
           m == get_rex_maturity(t)
           sv == read_rex_savings(rb)
           total == w.matured_rex - waiting + InBuckets(w.rex_maturities)
           e == Bucket(m, total)
           d == IF total > 0 THEN << e >> ELSE << >>
           s == [w EXCEPT !.matured_rex = waiting, !.rex_maturities = d]
           V == View(rb, t)
           all == V.free - waiting + SumTo(V.locked, Horizon)
<1>1. t \in Nat /\ Horizon \in Nat /\ m \in Int /\ m > t /\ m \in 1 .. Horizon
  BY MaturityRange
<1>2. /\ w \in BalanceRows
      /\ w = [rb EXCEPT !.rex_maturities = w.rex_maturities]
      /\ Plain(w.rex_maturities, t)
      /\ sv \in Nat
      /\ InBuckets(rb.rex_maturities) = InBuckets(w.rex_maturities) + sv
  BY <1>1, TakeSavings
<1>3. consolidate_rex_balance(rb, waiting, t) = put_rex_savings(s, sv)
  BY DEF consolidate_rex_balance
<1>4. /\ V.free \in Nat /\ V.saved = sv /\ SumTo(V.locked, Horizon) \in Nat
      /\ V.free + SumTo(V.locked, Horizon) + V.saved = HeldIn(rb)
  BY ViewTotal
<1> HIDE DEF w, sv, V, m
<1>5. /\ w.matured_rex = rb.matured_rex /\ w.matured_rex \in Nat
      /\ InBuckets(w.rex_maturities) \in Nat
  BY <1>2, BucketsNat DEF BalanceRows
<1>6. HeldIn(rb) = rb.matured_rex + InBuckets(rb.rex_maturities)
  BY DEF HeldIn
<1>7. total \in Nat /\ total = all
  BY <1>2, <1>4, <1>5, <1>6
<1> HIDE DEF total
<1>8. e \in BucketRows /\ e.first = m /\ e.second = total
  BY <1>1, <1>7, BucketType
<1> HIDE DEF e
<1>9. /\ d \in Seq(BucketRows)
      /\ \A i \in 1 .. Len(d) : d[i] = e
      /\ Len(d) \in 0 .. 1
      /\ \A u : Maturing(d, u) = IF u = m THEN total ELSE 0
  <2>1. CASE total > 0
    <3>1. << e >> \in Seq(BucketRows) /\ Len(<< e >>) = 1 /\ \A i \in 1 .. 1 : << e >>[i] = e
      BY <1>8
    <3>2. d = << e >>
      BY <2>1
    <3> HIDE DEF d
    <3>3. d \in Seq(BucketRows) /\ Len(d) = 1 /\ \A i \in 1 .. 1 : d[i] = e
      BY <3>1, <3>2
    <3>4. InBuckets(d) = total
      BY <1>8, <3>2, OneBucket
    <3>5. \A u : Maturing(d, u) = IF u = m THEN total ELSE 0
      <4> TAKE u
      <4>1. CASE u = m
        BY <1>8, <3>3, <3>4, <4>1, AllMaturing
      <4>2. CASE u # m
        BY <1>8, <3>3, <4>2, NoneMaturing
      <4> QED
        BY <4>1, <4>2
    <3> QED
      BY <3>3, <3>5
  <2>2. CASE ~ (total > 0)
    <3>1. d = << >> /\ total = 0
      BY <1>7, <2>2
    <3> HIDE DEF d
    <3>2. d \in Seq(BucketRows) /\ Len(d) = 0
      BY <3>1
    <3>3. \A u : Maturing(d, u) = 0
      <4> TAKE u
      <4>1. \A i \in 1 .. Len(d) : d[i].first # u
        BY <3>2
      <4> QED
        BY <3>2, <4>1, NoneMaturing
    <3> QED
      BY <3>1, <3>2, <3>3
  <2> QED
    BY <2>1, <2>2
<1> HIDE DEF d
<1>10. Plain(d, t) /\ Fresh(d, t)
  BY <1>1, <1>8, <1>9 DEF Plain, Fresh, Increasing, m
<1>11. s \in BalanceRows /\ s.rex_maturities = d /\ s.matured_rex = waiting
  BY <1>2, <1>9 DEF BalanceRows
<1> HIDE DEF s
<1>12. View(put_rex_savings(s, sv), t) = FreshView(s, sv)
  BY <1>2, <1>10, <1>11, ViewClosed
<1>13. LockedIn(d) = [u \in 1 .. Horizon |-> IF u = m THEN all ELSE 0]
  BY <1>7, <1>9 DEF LockedIn
<1>14. /\ FreshView(s, sv).free = waiting
       /\ FreshView(s, sv).locked = LockedIn(d)
       /\ FreshView(s, sv).saved = V.saved
  BY <1>4, <1>11, ViewParts
<1> QED
  BY <1>3, <1>12, <1>13, <1>14 DEF V, m

\* Popping what is due does not change the view, whenever it is done.
LEMMA ViewProcesses ==
  ASSUME NEW t \in 0 .. MaxTime, NEW rb \in BalanceRows, Ordered(rb.rex_maturities, t)
  PROVE  View(process_rex_maturities(rb, t), t) = View(rb, t)
<1>1. t \in Nat /\ t <= t
  BY MaturityRange
<1>2. process_rex_maturities(process_rex_maturities(rb, t), t) = process_rex_maturities(rb, t)
  BY <1>1, ProcessTwice
<1>3. read_rex_savings(process_rex_maturities(rb, t)) = read_rex_savings(rb)
  BY ViewOpened
<1> QED
  BY <1>2, <1>3 DEF View

\* Matured REX that is sold is no longer free; the rest of the view is the same.
LEMMA ViewSells ==
  ASSUME NEW t \in 0 .. MaxTime, NEW rb \in BalanceRows, NEW rc \in BalanceRows,
         NEW rex \in Nat, rex <= rb.matured_rex,
         rc.matured_rex = rb.matured_rex - rex, rc.rex_maturities = rb.rex_maturities
  PROVE  LET V == View(rb, t)
             W == View(rc, t)
         IN  W.free = V.free - rex /\ W.locked = V.locked /\ W.saved = V.saved
<1> DEFINE q == process_rex_maturities(rb, t)
           p == process_rex_maturities(rc, t)
           c == SubSeq(rb.rex_maturities, 1, Mature(rb.rex_maturities, t))
<1>1. /\ p.rex_maturities = q.rex_maturities
      /\ q.matured_rex = rb.matured_rex + InBuckets(c)
      /\ p.matured_rex = rc.matured_rex + InBuckets(c)
  BY ProcessSame
<1>2. InBuckets(c) \in Nat /\ rb.matured_rex \in Nat
  <2>1. c \in Seq(BucketRows)
    BY Processed, MaturityRange
  <2> QED
    BY <2>1, BucketsNat DEF BalanceRows
<1>3. read_rex_savings(rc) = read_rex_savings(rb)
  BY DEF read_rex_savings
<1> HIDE DEF p, q, c
<1>4. p.matured_rex = q.matured_rex - rex
  BY <1>1, <1>2
<1> QED
  BY <1>1, <1>3, <1>4, ViewParts DEF View, p, q

\* A step of time frees what matures then.
LEMMA ViewTicks ==
  ASSUME NEW t \in 0 .. MaxTime, t + 1 \in 0 .. MaxTime, NEW rb \in BalanceRows,
         Ordered(rb.rex_maturities, t)
  PROVE  LET V == View(rb, t)
             W == View(rb, t + 1)
         IN  /\ W.free = V.free + V.locked[t + 1]
             /\ W.locked = [V.locked EXCEPT ![t + 1] = 0]
             /\ W.saved = V.saved
<1> DEFINE q == process_rex_maturities(rb, t)
           p == process_rex_maturities(rb, t + 1)
           b == q.rex_maturities
           d == p.rex_maturities
           n == Mature(b, t + 1)
           c == SubSeq(b, 1, n)
<1>1. t \in Nat /\ t + 1 \in Nat /\ t <= t + 1 /\ t + 1 \in 1 .. Horizon
  <2>1. t \in Nat /\ Horizon \in Nat /\ t + 1 <= Horizon
    BY MaturityRange
  <2> QED
    BY <2>1
<1>2. q \in BalanceRows /\ Fresh(b, t)
  BY <1>1, ProcessRow, ViewOpened
<1>3. p = process_rex_maturities(q, t + 1)
  BY <1>1, ProcessTwice
<1>4. Increasing(b)
  <2>1. Ordered(b, t)
    BY <1>1, ProcessRow
  <2> QED
    BY <2>1 DEF Ordered, Increasing
<1> HIDE DEF p, q
<1>5. /\ n \in 0 .. Len(b)
      /\ c \in Seq(BucketRows) /\ Len(c) = n /\ \A i \in 1 .. n : c[i] = b[i]
      /\ \A i \in 1 .. n : c[i].first <= t + 1
      /\ p.matured_rex = q.matured_rex + InBuckets(c)
      /\ d \in Seq(BucketRows)
      /\ \A u : Maturing(b, u) = Maturing(c, u) + Maturing(d, u)
      /\ Fresh(d, t + 1)
  BY <1>1, <1>2, <1>3, <1>4, Processed
<1>6. b \in Seq(BucketRows) /\ Len(b) \in Nat
  BY <1>2 DEF BalanceRows
<1> HIDE DEF b, c, d, n
<1>7. \A i \in 1 .. Len(c) : c[i].first = t + 1
  <2> TAKE i \in 1 .. Len(c)
  <2>1. i \in 1 .. n /\ i \in 1 .. Len(b) /\ c[i] = b[i] /\ c[i] \in BucketRows
    BY <1>5, <1>6
  <2>2. c[i].first \in Int /\ c[i].first > t /\ c[i].first <= t + 1
    BY <1>2, <1>5, <2>1 DEF BucketRows, Fresh
  <2> QED
    BY <1>1, <2>2
<1>8. Maturing(c, t + 1) = InBuckets(c) /\ \A u : u # t + 1 => Maturing(c, u) = 0
  BY <1>5, <1>7, AllMaturing, NoneMaturing
<1>9. Maturing(d, t + 1) = 0
  <2>1. \A i \in 1 .. Len(d) : d[i] \in BucketRows
    BY <1>5
  <2>2. \A i \in 1 .. Len(d) : d[i].first # t + 1
    BY <1>1, <1>5, <2>1 DEF Fresh, BucketRows
  <2> QED
    BY <1>5, <2>2, NoneMaturing
<1>10. \A u : Maturing(c, u) \in Nat /\ Maturing(d, u) \in Nat
  BY <1>5, MaturingType
<1>11. InBuckets(c) = LockedIn(b)[t + 1]
  BY <1>1, <1>5, <1>8, <1>9, <1>10 DEF LockedIn
<1>12. LockedIn(d) = [LockedIn(b) EXCEPT ![t + 1] = 0]
  <2>1. ASSUME NEW u \in 1 .. Horizon
        PROVE  Maturing(d, u) = IF u = t + 1 THEN 0 ELSE Maturing(b, u)
    <3>1. CASE u = t + 1
      BY <1>9, <3>1
    <3>2. CASE u # t + 1
      <4>1. Maturing(b, u) = 0 + Maturing(d, u)
        BY <1>5, <1>8, <3>2
      <4> QED
        BY <1>10, <3>2, <4>1
    <3> QED
      BY <3>1, <3>2
  <2> QED
    BY <2>1 DEF LockedIn
<1> QED
  BY <1>5, <1>11, <1>12, ViewParts DEF View, p, q, b, d

-----------------------------------------------------------------------------
(* RexLockup implements RexVesting.                                        *)

CONSTANTS Amounts, MaxRex
VARIABLES rb, in_order
Lockup == INSTANCE RexLockup

\* The operators of RexMaturities and FunSums that RexLockup uses are those used
\* above.
LEMMA SamePrefixSums == \A f, n : Lockup!PrefixSums(f, n) = PrefixSums(f, n)
  BY DEF PrefixSums, Lockup!PrefixSums

LEMMA SameSumTo == \A f, n : Lockup!SumTo(f, n) = SumTo(f, n)
  BY SamePrefixSums DEF SumTo, Lockup!SumTo

LEMMA SameVestingSum == \A f, n : Lockup!Vesting!SumTo(f, n) = SumTo(f, n)
  BY DEF SumTo, Lockup!Vesting!SumTo, PrefixSums, Lockup!Vesting!PrefixSums

LEMMA SameInBuckets == \A b : Lockup!InBuckets(b) = InBuckets(b)
  BY SameSumTo DEF InBuckets, Lockup!InBuckets

LEMMA SameMaturing == \A b, u : Lockup!Maturing(b, u) = Maturing(b, u)
  BY SameSumTo DEF Maturing, Lockup!Maturing

LEMMA SameMature == \A b, u : Lockup!Mature(b, u) = Mature(b, u)
  BY DEF Mature, Lockup!Mature

LEMMA SameProcess == \A b, u : Lockup!process_rex_maturities(b, u) = process_rex_maturities(b, u)
  BY SameInBuckets, SameMature DEF process_rex_maturities, Lockup!process_rex_maturities

LEMMA SameEndsAt == \A b, u : Lockup!EndsAt(b, u) = EndsAt(b, u)
  BY DEF EndsAt, Lockup!EndsAt, Last, Lockup!Last

LEMMA SameLast == \A b : Lockup!Last(b) = Last(b) /\ Lockup!Front(b) = Front(b)
  BY DEF Last, Lockup!Last, Front, Lockup!Front

LEMMA SameSavings == \A b : Lockup!read_rex_savings(b) = read_rex_savings(b)
  BY SameEndsAt, SameLast DEF read_rex_savings, Lockup!read_rex_savings

LEMMA SamePutLast == \A b, m, r : Lockup!PutLast(b, m, r) = PutLast(b, m, r)
  BY SameEndsAt, SameLast DEF PutLast, Lockup!PutLast, Bucket, Lockup!Bucket

LEMMA SameWithout == \A r : Lockup!WithoutSavings(r) = WithoutSavings(r)
  BY SameEndsAt, SameLast DEF WithoutSavings, Lockup!WithoutSavings

LEMMA SamePutSavings == \A r, n : Lockup!put_rex_savings(r, n) = put_rex_savings(r, n)
  BY SamePutLast DEF put_rex_savings, Lockup!put_rex_savings

LEMMA SameMaturity == \A t : Lockup!get_rex_maturity(t) = get_rex_maturity(t)
  BY DEF get_rex_maturity, Lockup!get_rex_maturity

LEMMA SameAdd == \A r, n, t : Lockup!AddToMaturities(r, n, t) = AddToMaturities(r, n, t)
  BY SameProcess, SameSavings, SamePutLast, SameWithout, SamePutSavings, SameMaturity
  DEF AddToMaturities, Lockup!AddToMaturities

LEMMA SameConsolidate ==
  \A r, n, t : Lockup!consolidate_rex_balance(r, n, t) = consolidate_rex_balance(r, n, t)
  BY SameInBuckets, SameSavings, SameWithout, SamePutSavings, SameMaturity
  DEF consolidate_rex_balance, Lockup!consolidate_rex_balance, Bucket, Lockup!Bucket

LEMMA SameTaken == \A b, n : Lockup!TakenFromBack(b, n) = TakenFromBack(b, n)
<1> TAKE b, rex
<1> DEFINE after(i) == InBuckets(SubSeq(b, i + 1, Len(b)))
           kept(i)  == IF rex <= after(i) THEN b[i].second
                       ELSE IF rex >= after(i) + b[i].second THEN 0
                       ELSE b[i].second + after(i) - rex
           last     == {i \in 1 .. Len(b) : kept(i) > 0 \/ rex <= after(i)}
           n        == IF last = {} THEN 0 ELSE CHOOSE i \in last : \A j \in last : j <= i
           after1(i) == Lockup!InBuckets(SubSeq(b, i + 1, Len(b)))
           kept1(i)  == IF rex <= after1(i) THEN b[i].second
                        ELSE IF rex >= after1(i) + b[i].second THEN 0
                        ELSE b[i].second + after1(i) - rex
           last1     == {i \in 1 .. Len(b) : kept1(i) > 0 \/ rex <= after1(i)}
           n1        == IF last1 = {} THEN 0 ELSE CHOOSE i \in last1 : \A j \in last1 : j <= i
<1>1. \A i : after1(i) = after(i)
  BY SameInBuckets
<1>2. TakenFromBack(b, rex) = [i \in 1 .. n |-> [first |-> b[i].first, second |-> kept(i)]]
  BY DEF TakenFromBack, Bucket
<1>3. Lockup!TakenFromBack(b, rex) = [i \in 1 .. n1 |-> [first |-> b[i].first, second |-> kept1(i)]]
  BY DEF Lockup!TakenFromBack, Lockup!Bucket
<1> HIDE DEF after, after1
<1>4. \A i : kept1(i) = kept(i)
  BY <1>1
<1> HIDE DEF kept, kept1
<1>5. last1 = last
  BY <1>1, <1>4
<1> HIDE DEF last, last1
<1>6. n1 = n
  BY <1>5
<1> HIDE DEF n, n1
<1> QED
  BY <1>2, <1>3, <1>4, <1>6

LEMMA SameToSavings == \A r, n, t : Lockup!MovedToSavings(r, n, t) = MovedToSavings(r, n, t)
<1> TAKE rb1, rex, t
<1> DEFINE p  == process_rex_maturities(WithoutSavings(rb1), t)
           p1 == Lockup!process_rex_maturities(Lockup!WithoutSavings(rb1), t)
           after(a, taken, inside) ==
             [a EXCEPT !.rex_maturities = taken,
                       !.matured_rex = IF rex > inside THEN @ - (rex - inside) ELSE @]
           q  == after(p, TakenFromBack(p.rex_maturities, rex), InBuckets(p.rex_maturities))
           q1 == after(p1, Lockup!TakenFromBack(p1.rex_maturities, rex),
                           Lockup!InBuckets(p1.rex_maturities))
<1>1. p1 = p
  BY SameProcess, SameWithout
<1>2. /\ MovedToSavings(rb1, rex, t) = put_rex_savings(q, read_rex_savings(rb1) + rex)
      /\ Lockup!MovedToSavings(rb1, rex, t)
           = Lockup!put_rex_savings(q1, Lockup!read_rex_savings(rb1) + rex)
  BY DEF MovedToSavings, Lockup!MovedToSavings
<1> HIDE DEF p, p1, after
<1>3. q1 = q
  BY <1>1, SameTaken, SameInBuckets
<1> HIDE DEF q, q1
<1> QED
  BY <1>2, <1>3, SameSavings, SamePutSavings

LEMMA SameFromSavings == \A r, n, t : Lockup!MovedFromSavings(r, n, t) = MovedFromSavings(r, n, t)
  BY SameProcess, SameSavings, SamePutLast, SameWithout, SamePutSavings, SameMaturity
  DEF MovedFromSavings, Lockup!MovedFromSavings

LEMMA SameNoBalance == Lockup!NoBalance = NoBalance
  BY DEF NoBalance, Lockup!NoBalance

LEMMA VestingTimes ==
  /\ Lockup!Vesting!Times = 1 .. Horizon
  /\ Lockup!Vesting!Maturity = get_rex_maturity(now)
  BY DEF Horizon, get_rex_maturity, Lockup!Vesting!Times, Lockup!Vesting!Maturity

LEMMA SameGiven == \A u, n : Lockup!Vesting!Given(u, n) = GivenUp(Lockup!Locked, u, n)
  BY VestingTimes, SameVestingSum DEF Horizon, GivenUp, Lockup!Vesting!Given

\* What is true of the row between the actions.
LockInv ==
    /\ now \in 0 .. MaxTime
    /\ rb \in BalanceRows /\ RowOK(rb, now)
    /\ in_order \in Nat /\ in_order <= rb.matured_rex

\* The refinement mapping is the view of the row.
LEMMA Mapping ==
  /\ Lockup!Free = View(rb, now).free
  /\ Lockup!Locked = View(rb, now).locked
  /\ Lockup!Saved = View(rb, now).saved
BY SameMaturing, SameProcess, SameSavings
  DEF View, FreshView, Horizon, Lockup!Free, Lockup!Locked, Lockup!Saved, Lockup!DueRow

\* The same of the next state.
LEMMA MappingNext ==
  /\ Lockup!Free' = View(rb', now').free
  /\ Lockup!Locked' = View(rb', now').locked
  /\ Lockup!Saved' = View(rb', now').saved
BY SameMaturing, SameProcess, SameSavings
  DEF View, FreshView, Horizon, Lockup!Free, Lockup!Locked, Lockup!Saved, Lockup!DueRow

\* What a row without REX looks like.
LEMMA ViewEmpty ==
  ASSUME NEW t \in 0 .. MaxTime
  PROVE  /\ NoBalance \in BalanceRows /\ RowOK(NoBalance, t) /\ NoBalance.matured_rex = 0
         /\ View(NoBalance, t).free = 0
         /\ View(NoBalance, t).locked = [u \in 1 .. Horizon |-> 0]
         /\ View(NoBalance, t).saved = 0
<1> DEFINE none == << >>
<1>1. none \in Seq(BucketRows) /\ Len(none) = 0
  OBVIOUS
<1>2. /\ NoBalance.rex_maturities = none /\ NoBalance.matured_rex = 0 /\ NoBalance.rex_balance = 0
      /\ NoBalance.row = FALSE /\ NoBalance.vote_stake = 0
  BY DEF NoBalance
<1>3. NoBalance \in BalanceRows
  BY <1>1 DEF NoBalance, BalanceRows
<1>4. InBuckets(none) = 0
  BY NoBuckets
<1>5. read_rex_savings(NoBalance) = 0
  <2>1. ~ EndsAt(none, EndOfDays)
    BY DEF EndsAt
  <2> QED
    BY <1>2, <2>1 DEF read_rex_savings
<1> HIDE DEF none
<1>6. Fresh(none, t) /\ Ordered(none, t)
  BY <1>1 DEF Fresh, Ordered
<1>7. process_rex_maturities(NoBalance, t) = NoBalance
  BY <1>2, <1>3, <1>6, MaturityRange, ProcessFresh
<1>8. \A u \in 1 .. Horizon : Maturing(none, u) = 0
  <2> TAKE u \in 1 .. Horizon
  <2>1. \A i \in 1 .. Len(none) : none[i].first # u
    BY <1>1
  <2> QED
    BY <1>1, <2>1, NoneMaturing
<1>9. LockedIn(none) = [u \in 1 .. Horizon |-> 0]
  BY <1>8 DEF LockedIn
<1>10. RowOK(NoBalance, t)
  BY <1>2, <1>4, <1>6 DEF RowOK
<1>11. View(NoBalance, t) = FreshView(NoBalance, 0)
  BY <1>5, <1>7 DEF View
<1>12. /\ View(NoBalance, t).free = NoBalance.matured_rex
       /\ View(NoBalance, t).locked = LockedIn(NoBalance.rex_maturities)
       /\ View(NoBalance, t).saved = 0
  BY <1>11, ViewParts
<1>13. LockedIn(NoBalance.rex_maturities) = [u \in 1 .. Horizon |-> 0]
  BY <1>2, <1>9
<1> QED
  BY <1>2, <1>3, <1>10, <1>12, <1>13

\* At first nothing is there.
LEMMA LockInit ==
  ASSUME Lockup!Init
  PROVE  LockInv /\ Lockup!Vesting!Init
<1>1. now = 0 /\ rb = NoBalance /\ in_order = 0
  BY SameNoBalance DEF Lockup!Init
<1>2. 0 \in 0 .. MaxTime
  BY TimeAssumption
<1>3. LockInv
  BY <1>1, <1>2, ViewEmpty DEF LockInv
<1>4. /\ Lockup!Free = 0 /\ Lockup!Saved = 0 /\ Lockup!Locked = [u \in 1 .. Horizon |-> 0]
  BY <1>1, <1>2, Mapping, ViewEmpty
<1> QED
  BY <1>1, <1>3, <1>4, VestingTimes DEF Lockup!Vesting!Init

\* The orders of buckets stay orders as time passes.
LEMMA OrderedLater ==
  ASSUME NEW t \in Nat, NEW b \in Seq(BucketRows), Ordered(b, t)
  PROVE  Ordered(b, t + 1)
<1>1. \A i \in 1 .. Len(b) : b[i] \in BucketRows
  OBVIOUS
<1>2. \A i \in 1 .. Len(b) : b[i].first \in Int
  BY <1>1 DEF BucketRows
<1>3. get_rex_maturity(t) \in Int /\ get_rex_maturity(t) <= get_rex_maturity(t + 1)
      /\ get_rex_maturity(t + 1) \in Int
  BY MaturityGrows
<1> HIDE DEF get_rex_maturity
<1> QED
  BY <1>2, <1>3 DEF Ordered

\* What the invariant says, taken apart.
LEMMA LockParts ==
  ASSUME LockInv
  PROVE  /\ now \in 0 .. MaxTime /\ now \in Nat
         /\ rb \in BalanceRows /\ Ordered(rb.rex_maturities, now)
         /\ rb.rex_balance = HeldIn(rb) /\ (~ rb.row => rb = NoBalance)
         /\ in_order \in Nat /\ in_order <= rb.matured_rex
         /\ rb.matured_rex \in Nat /\ rb.rex_balance \in Nat /\ rb.row \in BOOLEAN
BY MaturityRange DEF LockInv, RowOK, HeldIn, BalanceRows

\* A rearranged row that holds what it says keeps the invariant.
LEMMA LockKept ==
  ASSUME LockInv, now' = now, NEW r \in BalanceRows, Ordered(r.rex_maturities, now),
         r.rex_balance = HeldIn(r), r.row, rb' = r,
         in_order' \in Nat, in_order' <= r.matured_rex
  PROVE  LockInv'
BY LockParts DEF LockInv, RowOK, HeldIn

\* What is bought matures with what is bought on the same day.
LEMMA LockBuy ==
  ASSUME LockInv, NEW rex \in Nat, Lockup!buyrex(rex)
  PROVE  LockInv' /\ Lockup!Vesting!Buy(rex)
<1> DEFINE s == [rb EXCEPT !.row = TRUE, !.rex_balance = @ + rex]
           r == AddToMaturities(s, rex, now)
<1>1. rb' = r /\ now' = now /\ in_order' = in_order
  BY SameAdd DEF Lockup!buyrex
<1>2. /\ now \in 0 .. MaxTime /\ rb \in BalanceRows /\ Ordered(rb.rex_maturities, now)
      /\ rb.rex_balance = HeldIn(rb) /\ rb.rex_balance \in Nat /\ rb.matured_rex \in Nat
      /\ in_order \in Nat /\ in_order <= rb.matured_rex
  BY LockParts
<1>3. /\ s \in BalanceRows /\ s.rex_maturities = rb.rex_maturities
      /\ s.matured_rex = rb.matured_rex /\ s.row /\ s.rex_balance = rb.rex_balance + rex
  <2>1. rb.rex_balance + rex \in Nat
    BY <1>2
  <2> QED
    BY <1>2, <2>1 DEF BalanceRows
<1>4. HeldIn(s) = HeldIn(rb)
  BY <1>3 DEF HeldIn
<1> HIDE DEF s
<1>5. /\ Rearranged(r, s, now) /\ HeldIn(r) = HeldIn(s) + rex /\ s.matured_rex <= r.matured_rex
  BY <1>2, <1>3, RowBuys
<1>6. /\ View(r, now).free = View(s, now).free
      /\ View(r, now).locked = [View(s, now).locked EXCEPT ![get_rex_maturity(now)] = @ + rex]
      /\ View(r, now).saved = View(s, now).saved
  BY <1>2, <1>3, ViewBuys
<1>7. /\ View(s, now).free = View(rb, now).free /\ View(s, now).locked = View(rb, now).locked
      /\ View(s, now).saved = View(rb, now).saved
  <2>1. 0 \in Nat /\ 0 <= rb.matured_rex /\ s.matured_rex = rb.matured_rex - 0
    BY <1>2, <1>3
  <2>2. View(s, now).free = View(rb, now).free - 0 /\ View(s, now).locked = View(rb, now).locked
        /\ View(s, now).saved = View(rb, now).saved
    BY <1>2, <1>3, <2>1, ViewSells
  <2>3. View(rb, now).free \in Nat
    BY <1>2, ViewTotal
  <2> QED
    BY <2>2, <2>3
<1> HIDE DEF r
<1>8. LockInv'
  <2>1. /\ r \in BalanceRows /\ Ordered(r.rex_maturities, now) /\ r.row
        /\ r.rex_balance = HeldIn(r) /\ r.matured_rex \in Nat
    BY <1>2, <1>3, <1>4, <1>5 DEF Rearranged, BalanceRows
  <2>2. in_order' \in Nat /\ in_order' <= r.matured_rex
    BY <1>1, <1>2, <1>3, <1>5, <2>1
  <2> QED
    BY <1>1, <2>1, <2>2, LockKept
<1>9. /\ Lockup!Free' = Lockup!Free /\ Lockup!Saved' = Lockup!Saved
      /\ Lockup!Locked' = [Lockup!Locked EXCEPT ![get_rex_maturity(now)] = @ + rex]
  BY <1>1, <1>6, <1>7, Mapping, MappingNext
<1> QED
  BY <1>1, <1>8, <1>9, VestingTimes DEF Lockup!Vesting!Buy

\* A sale takes from the REX that can be sold, or waits for it.
LEMMA LockSell ==
  ASSUME LockInv, NEW rex \in Nat, Lockup!sellrex(rex)
  PROVE  LockInv' /\ Lockup!Vesting!Sell(rex)
<1> DEFINE q == process_rex_maturities(rb, now)
           r == [q EXCEPT !.rex_balance = @ - rex, !.matured_rex = @ - rex]
<1>1. /\ now' = now /\ rb.row /\ in_order + rex <= q.matured_rex
      /\ \/ rb' = r /\ in_order' = in_order
         \/ rb' = q /\ in_order' = in_order + rex
  BY SameProcess DEF Lockup!sellrex
<1>2. /\ now \in 0 .. MaxTime /\ now \in Nat /\ rb \in BalanceRows /\ Ordered(rb.rex_maturities, now)
      /\ rb.rex_balance = HeldIn(rb) /\ in_order \in Nat
  BY LockParts
<1>3. /\ q \in BalanceRows
      /\ q = [rb EXCEPT !.matured_rex = q.matured_rex, !.rex_maturities = q.rex_maturities]
      /\ q.matured_rex + InBuckets(q.rex_maturities) = rb.matured_rex + InBuckets(rb.rex_maturities)
      /\ Ordered(q.rex_maturities, now)
  BY <1>2, ProcessRow
<1>4. View(q, now) = View(rb, now) /\ View(rb, now).free = q.matured_rex
  BY <1>2, ViewProcesses, ViewParts DEF View
<1> HIDE DEF q
<1>5. /\ q.row = rb.row /\ q.rex_balance = rb.rex_balance /\ HeldIn(q) = HeldIn(rb)
      /\ q.matured_rex \in Nat /\ InBuckets(q.rex_maturities) \in Nat
  BY <1>2, <1>3, BucketsNat DEF BalanceRows, HeldIn
<1>6. /\ r \in BalanceRows /\ r.rex_maturities = q.rex_maturities
      /\ r.matured_rex = q.matured_rex - rex /\ r.row = q.row /\ r.rex_balance = HeldIn(r)
  <2>1. q.matured_rex - rex \in Nat /\ q.rex_balance - rex \in Nat
    BY <1>1, <1>2, <1>5 DEF HeldIn
  <2>2. /\ r \in BalanceRows /\ r.rex_maturities = q.rex_maturities
        /\ r.matured_rex = q.matured_rex - rex /\ r.row = q.row /\ r.rex_balance = q.rex_balance - rex
    BY <1>3, <2>1 DEF BalanceRows
  <2> HIDE DEF r
  <2> QED
    BY <1>2, <1>5, <2>1, <2>2 DEF HeldIn
<1> HIDE DEF r
<1>7. /\ View(r, now).free = View(q, now).free - rex /\ View(r, now).locked = View(q, now).locked
      /\ View(r, now).saved = View(q, now).saved
  <2>1. rex <= q.matured_rex
    BY <1>1, <1>2, <1>5
  <2> QED
    BY <1>2, <1>3, <1>6, <2>1, ViewSells
<1>8. CASE rb' = r /\ in_order' = in_order
  <2>1. in_order' <= r.matured_rex
    BY <1>1, <1>2, <1>5, <1>6, <1>8
  <2>2. LockInv'
    BY <1>1, <1>2, <1>3, <1>5, <1>6, <1>8, <2>1, LockKept
  <2>3. /\ Lockup!Free' = Lockup!Free - rex /\ Lockup!Saved' = Lockup!Saved
        /\ Lockup!Locked' = Lockup!Locked
    BY <1>1, <1>4, <1>7, <1>8, Mapping, MappingNext
  <2>4. rex + in_order <= Lockup!Free
    BY <1>1, <1>2, <1>4, <1>5, Mapping
  <2> QED
    BY <1>1, <1>8, <2>2, <2>3, <2>4 DEF Lockup!Vesting!Sell
<1>9. CASE rb' = q /\ in_order' = in_order + rex
  <2>1. in_order' \in Nat /\ in_order' <= q.matured_rex
    BY <1>1, <1>2, <1>9
  <2>2. LockInv'
    BY <1>1, <1>2, <1>3, <1>5, <1>9, <2>1, LockKept
  <2>3. /\ Lockup!Free' = Lockup!Free /\ Lockup!Saved' = Lockup!Saved
        /\ Lockup!Locked' = Lockup!Locked
    BY <1>1, <1>4, <1>9, Mapping, MappingNext
  <2>4. rex + in_order <= Lockup!Free
    BY <1>1, <1>2, <1>4, <1>5, Mapping
  <2> QED
    BY <1>1, <1>9, <2>2, <2>3, <2>4 DEF Lockup!Vesting!Sell
<1> QED
  BY <1>1, <1>8, <1>9

\* The waiting order is filled: what waits leaves the REX that can be sold.
LEMMA LockFill ==
  ASSUME LockInv, Lockup!FillOrder
  PROVE  LockInv' /\ Lockup!Vesting!Fill
<1> DEFINE r == [rb EXCEPT !.rex_balance = @ - in_order, !.matured_rex = @ - in_order]
<1>1. rb' = r /\ in_order' = 0 /\ now' = now /\ in_order > 0
  BY DEF Lockup!FillOrder
<1>2. /\ now \in 0 .. MaxTime /\ rb \in BalanceRows /\ Ordered(rb.rex_maturities, now)
      /\ rb.rex_balance = HeldIn(rb) /\ in_order \in Nat /\ in_order <= rb.matured_rex
      /\ rb.matured_rex \in Nat /\ rb.rex_balance \in Nat /\ (~ rb.row => rb = NoBalance)
  BY LockParts
<1>3. InBuckets(rb.rex_maturities) \in Nat
  BY <1>2, BucketsNat DEF BalanceRows
<1>4. rb.row
  BY <1>1, <1>2 DEF NoBalance
<1>5. rb.matured_rex - in_order \in Nat /\ rb.rex_balance - in_order \in Nat
  BY <1>2, <1>3 DEF HeldIn
<1>6. /\ r \in BalanceRows /\ r.rex_maturities = rb.rex_maturities /\ r.row
      /\ r.matured_rex = rb.matured_rex - in_order /\ r.rex_balance = rb.rex_balance - in_order
  BY <1>2, <1>4, <1>5 DEF BalanceRows
<1> HIDE DEF r
<1>7. r.rex_balance = HeldIn(r) /\ r.matured_rex \in Nat
  BY <1>2, <1>3, <1>5, <1>6 DEF HeldIn
<1>8. LockInv'
  BY <1>1, <1>2, <1>6, <1>7, LockKept
<1>9. /\ View(r, now).free = View(rb, now).free - in_order
      /\ View(r, now).locked = View(rb, now).locked /\ View(r, now).saved = View(rb, now).saved
  BY <1>2, <1>6, ViewSells
<1>10. /\ Lockup!Free' = Lockup!Free - in_order /\ Lockup!Locked' = Lockup!Locked
       /\ Lockup!Saved' = Lockup!Saved
  BY <1>1, <1>9, Mapping, MappingNext
<1> QED
  BY <1>1, <1>8, <1>10 DEF Lockup!Vesting!Fill

\* A cancelled order leaves the row alone.
LEMMA LockCancel ==
  ASSUME LockInv, Lockup!cnclrexorder
  PROVE  LockInv' /\ Lockup!Vesting!Cancel
<1>1. in_order' = 0 /\ now' = now /\ rb' = rb
  BY DEF Lockup!cnclrexorder
<1>2. LockInv'
  BY <1>1, LockParts DEF LockInv
<1>3. Lockup!Free' = Lockup!Free /\ Lockup!Locked' = Lockup!Locked /\ Lockup!Saved' = Lockup!Saved
  BY <1>1, Mapping, MappingNext
<1> QED
  BY <1>1, <1>2, <1>3 DEF Lockup!Vesting!Cancel

\* To process the due buckets changes nothing of what the row promises.
LEMMA LockUpdate ==
  ASSUME LockInv, Lockup!updaterex
  PROVE  LockInv' /\ UNCHANGED Lockup!Vesting!vvars
<1> DEFINE r == process_rex_maturities(rb, now)
<1>1. rb' = r /\ in_order' = in_order /\ now' = now /\ rb.row
  BY SameProcess DEF Lockup!updaterex
<1>2. /\ now \in 0 .. MaxTime /\ now \in Nat /\ rb \in BalanceRows
      /\ Ordered(rb.rex_maturities, now) /\ rb.rex_balance = HeldIn(rb)
      /\ in_order \in Nat /\ in_order <= rb.matured_rex /\ rb.matured_rex \in Nat
  BY LockParts
<1>3. /\ r \in BalanceRows
      /\ r = [rb EXCEPT !.matured_rex = r.matured_rex, !.rex_maturities = r.rex_maturities]
      /\ r.matured_rex + InBuckets(r.rex_maturities) = rb.matured_rex + InBuckets(rb.rex_maturities)
      /\ rb.matured_rex <= r.matured_rex /\ Ordered(r.rex_maturities, now)
  BY <1>2, ProcessRow
<1>4. View(r, now) = View(rb, now)
  BY <1>2, ViewProcesses
<1> HIDE DEF r
<1>5. r.row = rb.row /\ r.rex_balance = HeldIn(r) /\ r.matured_rex \in Nat
  BY <1>2, <1>3 DEF BalanceRows, HeldIn
<1>6. in_order <= r.matured_rex
  BY <1>2, <1>3, <1>5
<1>7. LockInv'
  BY <1>1, <1>2, <1>3, <1>5, <1>6, LockKept
<1>8. Lockup!Free' = Lockup!Free /\ Lockup!Locked' = Lockup!Locked /\ Lockup!Saved' = Lockup!Saved
  BY <1>1, <1>4, Mapping, MappingNext
<1> QED
  BY <1>1, <1>7, <1>8 DEF Lockup!Vesting!vvars

\* Consolidation starts the maturity of all but the order and the savings
\* again.
LEMMA LockConsolidate ==
  ASSUME LockInv, Lockup!consolidate
  PROVE  LockInv' /\ Lockup!Vesting!Restart
<1> DEFINE r == consolidate_rex_balance(rb, in_order, now)
           all == View(rb, now).free - in_order + SumTo(View(rb, now).locked, Horizon)
<1>1. rb' = r /\ in_order' = in_order /\ now' = now /\ rb.row
  BY SameConsolidate DEF Lockup!consolidate
<1>2. /\ now \in 0 .. MaxTime /\ rb \in BalanceRows
      /\ Ordered(rb.rex_maturities, now) /\ rb.rex_balance = HeldIn(rb)
      /\ in_order \in Nat /\ in_order <= rb.matured_rex
  BY LockParts
<1>3. Rearranged(r, rb, now) /\ HeldIn(r) = HeldIn(rb) /\ r.matured_rex = in_order
  BY <1>2, RowConsolidates
<1>4. /\ View(r, now).free = in_order
      /\ View(r, now).locked = [u \in 1 .. Horizon |-> IF u = get_rex_maturity(now) THEN all ELSE 0]
      /\ View(r, now).saved = View(rb, now).saved
  BY <1>2, ViewConsolidates
<1> HIDE DEF r
<1>5. LockInv'
  <2>1. r \in BalanceRows /\ Ordered(r.rex_maturities, now) /\ r.row /\ r.rex_balance = HeldIn(r)
    BY <1>1, <1>2, <1>3 DEF Rearranged
  <2>2. in_order' \in Nat /\ in_order' <= r.matured_rex
    BY <1>1, <1>2, <1>3
  <2> QED
    BY <1>1, <2>1, <2>2, LockKept
<1>6. all = Lockup!Free - in_order + Lockup!Vesting!SumTo(Lockup!Locked, MaxTime + Buckets * Day)
  BY SameVestingSum, Mapping DEF Horizon
<1> HIDE DEF all
<1>7. /\ Lockup!Free' = in_order /\ Lockup!Saved' = Lockup!Saved
      /\ Lockup!Locked' = [u \in 1 .. Horizon |-> IF u = get_rex_maturity(now) THEN all ELSE 0]
  BY <1>1, <1>4, Mapping, MappingNext
<1> QED
  BY <1>1, <1>5, <1>6, <1>7, VestingTimes DEF Lockup!Vesting!Restart

\* Savings take the REX that matures last.
LEMMA LockSave ==
  ASSUME LockInv, NEW rex \in Nat, rex > 0, Lockup!mvtosavings(rex)
  PROVE  LockInv' /\ Lockup!Vesting!Save(rex)
<1> DEFINE r == MovedToSavings(rb, rex, now)
           V == View(rb, now)
           W == View(r, now)
           given == SumTo([u \in 1 .. Horizon |-> GivenUp(V.locked, u, rex)], Horizon)
           total == SumTo(V.locked, Horizon)
<1>1. /\ rb' = r /\ in_order' = in_order /\ now' = now /\ rb.row
      /\ rex + in_order + read_rex_savings(rb) <= rb.rex_balance /\ in_order <= r.matured_rex
  BY SameSavings, SameToSavings DEF Lockup!mvtosavings
<1>2. /\ now \in 0 .. MaxTime /\ now \in Nat /\ rb \in BalanceRows
      /\ Ordered(rb.rex_maturities, now) /\ rb.rex_balance = HeldIn(rb)
      /\ in_order \in Nat /\ in_order <= rb.matured_rex /\ rb.rex_balance \in Nat
  BY LockParts
<1>3. /\ V.free \in Nat /\ V.saved \in Nat /\ total \in Nat /\ V.saved = read_rex_savings(rb)
  BY <1>2, ViewTotal
<1>4. rex + read_rex_savings(rb) <= HeldIn(rb)
  BY <1>1, <1>2, <1>3
<1>5. Rearranged(r, rb, now) /\ HeldIn(r) = HeldIn(rb)
  BY <1>2, <1>4, RowSaves
<1>6. /\ given = IF rex > total THEN total ELSE rex
      /\ W.free = V.free - (rex - given)
      /\ W.locked = [u \in 1 .. Horizon |-> V.locked[u] - GivenUp(V.locked, u, rex)]
      /\ W.saved = V.saved + rex
  BY <1>2, <1>4, ViewSaves
<1>7. r \in BalanceRows /\ r.matured_rex \in Nat /\ r.matured_rex <= W.free
  <2>1. r \in BalanceRows /\ Ordered(r.rex_maturities, now)
    BY <1>5 DEF Rearranged
  <2> HIDE DEF r
  <2> QED
    BY <1>2, <2>1, ViewTotal DEF BalanceRows
<1> HIDE DEF r
<1>8. LockInv'
  BY <1>1, <1>2, <1>5, LockKept DEF Rearranged
<1>9. /\ Lockup!Free = V.free /\ Lockup!Saved = V.saved /\ Lockup!Locked = V.locked
      /\ Lockup!Free' = W.free /\ Lockup!Saved' = W.saved /\ Lockup!Locked' = W.locked
  BY <1>1, Mapping, MappingNext
<1>10. given = Lockup!Vesting!SumTo([u \in 1 .. Horizon |-> Lockup!Vesting!Given(u, rex)],
                                    MaxTime + Buckets * Day)
  BY <1>9, SameVestingSum, SameGiven DEF Horizon
<1>11. given \in Nat
  <2> HIDE DEF given, total
  <2> QED
    BY <1>3, <1>6
<1>12. Lockup!Locked' =
         [u \in 1 .. Horizon |-> Lockup!Locked[u] - Lockup!Vesting!Given(u, rex)]
  BY <1>6, <1>9, SameGiven
<1> HIDE DEF given, V, W
<1>13. rex - given <= Lockup!Free - in_order
  <2>1. W.free = V.free - (rex - given) /\ in_order <= r.matured_rex /\ r.matured_rex <= W.free
    BY <1>1, <1>6, <1>7
  <2>2. in_order \in Nat /\ V.free \in Nat /\ given \in Nat /\ r.matured_rex \in Nat
    BY <1>2, <1>3, <1>7, <1>11
  <2> DEFINE free == V.free
             left == W.free
             m    == r.matured_rex
  <2>3. Lockup!Free = free
    BY <1>9
  <2> HIDE DEF free, left, m
  <2>4. /\ left = free - (rex - given) /\ in_order <= m /\ m <= left
        /\ in_order \in Nat /\ free \in Nat /\ m \in Nat
    BY <2>1, <2>2 DEF free, left, m
  <2> QED
    BY <2>2, <2>3, <2>4
<1>14. Lockup!Free' = Lockup!Free - (rex - given) /\ Lockup!Saved' = Lockup!Saved + rex
  BY <1>6, <1>9
<1> QED
  BY <1>1, <1>8, <1>10, <1>12, <1>13, <1>14, VestingTimes DEF Lockup!Vesting!Save

\* What leaves the savings matures like what is bought.
LEMMA LockUnsave ==
  ASSUME LockInv, NEW rex \in Nat, Lockup!mvfrsavings(rex)
  PROVE  LockInv' /\ Lockup!Vesting!Unsave(rex)
<1> DEFINE r == MovedFromSavings(rb, rex, now)
<1>1. /\ rb' = r /\ in_order' = in_order /\ now' = now /\ rb.row
      /\ rex <= read_rex_savings(rb)
  BY SameSavings, SameFromSavings DEF Lockup!mvfrsavings
<1>2. /\ now \in 0 .. MaxTime /\ rb \in BalanceRows
      /\ Ordered(rb.rex_maturities, now) /\ rb.rex_balance = HeldIn(rb)
      /\ in_order \in Nat /\ in_order <= rb.matured_rex /\ rb.matured_rex \in Nat
  BY LockParts
<1>3. Rearranged(r, rb, now) /\ HeldIn(r) = HeldIn(rb) /\ rb.matured_rex <= r.matured_rex
  BY <1>1, <1>2, RowUnsaves
<1>4. /\ View(r, now).free = View(rb, now).free
      /\ View(r, now).locked = [View(rb, now).locked EXCEPT ![get_rex_maturity(now)] = @ + rex]
      /\ View(r, now).saved = View(rb, now).saved - rex
  BY <1>1, <1>2, ViewUnsaves
<1> HIDE DEF r
<1>5. r \in BalanceRows /\ Ordered(r.rex_maturities, now) /\ r.row
      /\ r.rex_balance = HeldIn(r) /\ r.matured_rex \in Nat
  BY <1>1, <1>2, <1>3 DEF Rearranged, BalanceRows
<1>6. in_order' \in Nat /\ in_order' <= r.matured_rex
  BY <1>1, <1>2, <1>3, <1>5
<1>7. LockInv'
  BY <1>1, <1>5, <1>6, LockKept
<1>8. /\ Lockup!Free' = Lockup!Free /\ Lockup!Saved' = Lockup!Saved - rex
      /\ Lockup!Locked' = [Lockup!Locked EXCEPT ![get_rex_maturity(now)] = @ + rex]
  BY <1>1, <1>4, Mapping, MappingNext
<1>9. rex <= Lockup!Saved
  BY <1>1, <1>2, Mapping, ViewTotal
<1> QED
  BY <1>1, <1>7, <1>8, <1>9, VestingTimes DEF Lockup!Vesting!Unsave

\* Only a row that holds nothing is closed.
LEMMA LockClose ==
  ASSUME LockInv, Lockup!closerex
  PROVE  LockInv' /\ UNCHANGED Lockup!Vesting!vvars
<1> DEFINE V == View(rb, now)
           zeros == [u \in 1 .. Horizon |-> 0]
<1>1. /\ rb' = NoBalance /\ in_order' = in_order /\ now' = now /\ rb.rex_balance = 0
  BY SameNoBalance DEF Lockup!closerex
<1>2. /\ now \in 0 .. MaxTime /\ now \in Nat /\ rb \in BalanceRows
      /\ Ordered(rb.rex_maturities, now) /\ rb.rex_balance = HeldIn(rb)
      /\ in_order \in Nat /\ in_order <= rb.matured_rex /\ rb.matured_rex \in Nat
  BY LockParts
<1>3. /\ V.free \in Nat /\ V.saved \in Nat /\ SumTo(V.locked, Horizon) \in Nat
      /\ V.locked \in [1 .. Horizon -> Nat]
      /\ V.free + SumTo(V.locked, Horizon) + V.saved = HeldIn(rb)
      /\ rb.matured_rex <= V.free
  BY <1>2, ViewTotal
<1> HIDE DEF V
<1>4. V.free = 0 /\ V.saved = 0 /\ SumTo(V.locked, Horizon) = 0 /\ in_order = 0
  BY <1>1, <1>2, <1>3
<1>5. V.locked = zeros
  <2>1. Horizon \in Nat
    BY <1>2, MaturityRange
  <2>2. \A u \in 1 .. Horizon : V.locked[u] = 0
    <3> TAKE u \in 1 .. Horizon
    <3>1. V.locked[u] \in Nat /\ V.locked[u] <= SumTo(V.locked, Horizon)
      BY <1>3, <2>1, SumToBoundsValue
    <3> QED
      BY <1>4, <3>1
  <2> QED
    BY <1>3, <2>2
<1>6. /\ NoBalance \in BalanceRows /\ RowOK(NoBalance, now) /\ NoBalance.matured_rex = 0
      /\ View(NoBalance, now).free = 0 /\ View(NoBalance, now).locked = zeros
      /\ View(NoBalance, now).saved = 0
  BY <1>2, ViewEmpty
<1>7. LockInv'
  BY <1>1, <1>2, <1>4, <1>6 DEF LockInv
<1>8. /\ Lockup!Free = V.free /\ Lockup!Saved = V.saved /\ Lockup!Locked = V.locked
      /\ Lockup!Free' = 0 /\ Lockup!Saved' = 0 /\ Lockup!Locked' = zeros
  <2>1. Lockup!Free = V.free /\ Lockup!Saved = V.saved /\ Lockup!Locked = V.locked
    BY Mapping DEF V
  <2>2. Lockup!Free' = 0 /\ Lockup!Saved' = 0 /\ Lockup!Locked' = zeros
    BY <1>1, <1>6, MappingNext
  <2> QED
    BY <2>1, <2>2
<1> QED
  BY <1>1, <1>4, <1>5, <1>7, <1>8 DEF Lockup!Vesting!vvars

\* What matures at the next moment can be sold from then on.
LEMMA LockTick ==
  ASSUME LockInv, Lockup!Tick
  PROVE  LockInv' /\ Lockup!Vesting!Tick
<1>1. /\ now < MaxTime /\ now' = now + 1 /\ rb' = rb /\ in_order' = in_order
  BY DEF Lockup!Tick
<1>2. /\ now \in 0 .. MaxTime /\ now \in Nat /\ rb \in BalanceRows
      /\ Ordered(rb.rex_maturities, now) /\ in_order \in Nat /\ in_order <= rb.matured_rex
      /\ rb.rex_balance = HeldIn(rb) /\ (~ rb.row => rb = NoBalance)
  BY LockParts
<1>3. now + 1 \in 0 .. MaxTime
  BY <1>1, <1>2, TimeAssumption
<1>4. rb.rex_maturities \in Seq(BucketRows)
  BY <1>2 DEF BalanceRows
<1>5. Ordered(rb.rex_maturities, now + 1)
  BY <1>2, <1>4, OrderedLater
<1>6. LockInv'
  BY <1>1, <1>2, <1>3, <1>5 DEF LockInv, RowOK, HeldIn
<1>7. /\ View(rb, now + 1).free = View(rb, now).free + View(rb, now).locked[now + 1]
      /\ View(rb, now + 1).locked = [View(rb, now).locked EXCEPT ![now + 1] = 0]
      /\ View(rb, now + 1).saved = View(rb, now).saved
  BY <1>2, <1>3, ViewTicks
<1>8. /\ Lockup!Free' = Lockup!Free + Lockup!Locked[now + 1] /\ Lockup!Saved' = Lockup!Saved
      /\ Lockup!Locked' = [Lockup!Locked EXCEPT ![now + 1] = 0]
  BY <1>1, <1>7, Mapping, MappingNext
<1> QED
  BY <1>1, <1>6, <1>8 DEF Lockup!Vesting!Tick

\* Every step of the row is a step of what it promises, or changes nothing of
\* it.
LEMMA LockStep ==
  ASSUME Amounts \subseteq Nat \ {0}, LockInv, [Lockup!Next]_(Lockup!vars)
  PROVE  LockInv' /\ [Lockup!Vesting!Next]_(Lockup!Vesting!vvars)
<1>1. CASE UNCHANGED Lockup!vars
  <2>1. now' = now /\ rb' = rb /\ in_order' = in_order
    BY <1>1 DEF Lockup!vars
  <2>2. LockInv'
    BY <2>1 DEF LockInv
  <2>3. Lockup!Free' = Lockup!Free /\ Lockup!Locked' = Lockup!Locked /\ Lockup!Saved' = Lockup!Saved
    BY <2>1, Mapping, MappingNext
  <2> QED
    BY <2>1, <2>2, <2>3 DEF Lockup!Vesting!vvars
<1>2. ASSUME NEW rex \in Amounts,
             Lockup!buyrex(rex) \/ Lockup!sellrex(rex) \/ Lockup!mvtosavings(rex) \/ Lockup!mvfrsavings(rex)
      PROVE  LockInv' /\ Lockup!Vesting!Next
  <2>1. rex \in Nat /\ rex > 0
    OBVIOUS
  <2>2. CASE Lockup!buyrex(rex)
    BY <2>1, <2>2, LockBuy DEF Lockup!Vesting!Next
  <2>3. CASE Lockup!sellrex(rex)
    BY <2>1, <2>3, LockSell DEF Lockup!Vesting!Next
  <2>4. CASE Lockup!mvtosavings(rex)
    BY <2>1, <2>4, LockSave DEF Lockup!Vesting!Next
  <2>5. CASE Lockup!mvfrsavings(rex)
    BY <2>1, <2>5, LockUnsave DEF Lockup!Vesting!Next
  <2> QED
    BY <1>2, <2>2, <2>3, <2>4, <2>5
<1>3. CASE Lockup!FillOrder
  BY <1>3, LockFill DEF Lockup!Vesting!Next
<1>4. CASE Lockup!cnclrexorder
  BY <1>4, LockCancel DEF Lockup!Vesting!Next
<1>5. CASE Lockup!updaterex
  BY <1>5, LockUpdate
<1>6. CASE Lockup!consolidate
  BY <1>6, LockConsolidate DEF Lockup!Vesting!Next
<1>7. CASE Lockup!closerex
  BY <1>7, LockClose
<1>8. CASE Lockup!Tick
  BY <1>8, LockTick DEF Lockup!Vesting!Next
<1> QED
  BY <1>1, <1>2, <1>3, <1>4, <1>5, <1>6, <1>7, <1>8 DEF Lockup!Next

\* However buyrex, sellrex, mvtosavings, mvfrsavings, consolidate and the lazy
\* process_rex_maturities rearrange a row's deque of buckets, the owner gets
\* what RexVesting promises: every share can be sold from its maturity on and
\* never before, savings excepted.
THEOREM RowVests ==
  ASSUME Amounts \subseteq Nat \ {0}
  PROVE  Lockup!Spec => Lockup!ImplementsVesting
<1>1. Lockup!Init => LockInv /\ Lockup!Vesting!Init
  BY LockInit
<1>2. LockInv /\ [Lockup!Next]_(Lockup!vars) => LockInv' /\ [Lockup!Vesting!Next]_(Lockup!Vesting!vvars)
  BY LockStep
<1> QED
  BY <1>1, <1>2, PTL DEF Lockup!Spec, Lockup!ImplementsVesting, Lockup!Vesting!Spec
=============================================================================
