--------------------------- MODULE RexMaturities ---------------------------
(***************************************************************************)
(* One row of the rexbal table: the REX an account owns, split into REX    *)
(* that can be sold (matured_rex), daily buckets that mature later, and a  *)
(* savings bucket that never does.  The buckets are the deque of the code, *)
(* a sequence of records in order of maturity whose last element may be    *)
(* the savings bucket.  The operators here are the helpers that rearrange  *)
(* a row; none of them touches the pool.                                   *)
(***************************************************************************)
EXTENDS Integers, Sequences, SequencesExt, FunSums

CONSTANTS Day,        \* length of a day (seconds_per_day)
          Buckets,    \* num_of_maturity_buckets
          EndOfDays   \* time_point_sec::maximum(), the maturity of savings

ASSUME DayAssumption == Day \in Nat \ {0}
ASSUME BucketsAssumption == Buckets \in Nat \ {0}

\* the row that the table does not have
NoBalance == [row |-> FALSE, vote_stake |-> 0, rex_balance |-> 0,
              matured_rex |-> 0, rex_maturities |-> << >>]

Bucket(maturity, rex) == [first |-> maturity, second |-> rex]

\* what all the buckets hold
InBuckets(buckets) == SumTo([i \in 1 .. Len(buckets) |-> buckets[i].second], Len(buckets))

\* what the buckets of one maturity hold
Maturing(buckets, maturity) ==
    SumTo([i \in 1 .. Len(buckets) |->
             IF buckets[i].first = maturity THEN buckets[i].second ELSE 0], Len(buckets))

\* mutant: a day too early
ADayEarly(now) == now - (now % Day) + (Buckets - 1) * Day

\* the maturity of what is bought at time now: the end of the day plus Buckets - 1 days
get_rex_maturity(now) == now - (now % Day) + Buckets * Day

-----------------------------------------------------------------------------
\* the last bucket matures at the given time
EndsAt(buckets, maturity) == buckets # << >> /\ Last(buckets).first = maturity

\* add to the last bucket if it has this maturity, else append a bucket
PutLast(buckets, maturity, rex) ==
    IF EndsAt(buckets, maturity)
    THEN Front(buckets) \o << Bucket(maturity, Last(buckets).second + rex) >>
    ELSE Append(buckets, Bucket(maturity, rex))

\* the buckets that are popped: the longest prefix whose maturity has passed
Mature(buckets, now) ==
    LET Due == {n \in 0 .. Len(buckets) : \A i \in 1 .. n : buckets[i].first <= now}
    IN  CHOOSE n \in Due : \A m \in Due : m <= n

process_rex_maturities(rb, now) ==
    LET n == Mature(rb.rex_maturities, now) IN
    [rb EXCEPT !.matured_rex = @ + InBuckets(SubSeq(rb.rex_maturities, 1, n)),
               !.rex_maturities = SubSeq(@, n + 1, Len(@))]

\* read_rex_savings returns the amount and takes the bucket away
read_rex_savings(rb) ==
    IF EndsAt(rb.rex_maturities, EndOfDays) THEN Last(rb.rex_maturities).second ELSE 0

WithoutSavings(rb) ==
    IF EndsAt(rb.rex_maturities, EndOfDays)
    THEN [rb EXCEPT !.rex_maturities = Front(@)]
    ELSE rb

put_rex_savings(rb, rex) ==
    IF rex = 0 THEN rb ELSE [rb EXCEPT !.rex_maturities = PutLast(@, EndOfDays, rex)]

-----------------------------------------------------------------------------
\* the end of add_to_rex_balance: bought REX joins the bucket of its maturity
AddToMaturities(rb, rex, now) ==
    LET rb1 == process_rex_maturities(WithoutSavings(rb), now)
        rb2 == [rb1 EXCEPT !.rex_maturities = PutLast(@, get_rex_maturity(now), rex)]
    IN  put_rex_savings(rb2, read_rex_savings(rb))

\* everything outside the open sell order and the savings becomes one bucket
consolidate_rex_balance(rb, in_order, now) ==
    LET rb1   == WithoutSavings(rb)
        total == rb1.matured_rex - in_order + InBuckets(rb1.rex_maturities)
        rb2   == [rb1 EXCEPT !.matured_rex = in_order,
                             !.rex_maturities =
                                IF total > 0 THEN << Bucket(get_rex_maturity(now), total) >>
                                             ELSE << >>]
    IN  put_rex_savings(rb2, read_rex_savings(rb))

\* rex units taken from the buckets, the latest maturity first: bucket i keeps
\* what the buckets after it leave to be taken; emptied buckets are popped
TakenFromBack(buckets, rex) ==
    LET after(i) == InBuckets(SubSeq(buckets, i + 1, Len(buckets)))
        kept(i)  == IF rex <= after(i) THEN buckets[i].second
                    ELSE IF rex >= after(i) + buckets[i].second THEN 0
                    ELSE buckets[i].second + after(i) - rex
        last     == {i \in 1 .. Len(buckets) : kept(i) > 0 \/ rex <= after(i)}
        n        == IF last = {} THEN 0 ELSE CHOOSE i \in last : \A j \in last : j <= i
    IN  [i \in 1 .. n |-> Bucket(buckets[i].first, kept(i))]

\* the loop of mvtosavings: the buckets first, then the matured REX
MovedToSavings(rb, rex, now) ==
    LET rb1    == process_rex_maturities(WithoutSavings(rb), now)
        inside == InBuckets(rb1.rex_maturities)
        rb2    == [rb1 EXCEPT !.rex_maturities = TakenFromBack(@, rex),
                              !.matured_rex = IF rex > inside THEN @ - (rex - inside) ELSE @]
    IN  put_rex_savings(rb2, read_rex_savings(rb) + rex)

\* the bucket changes of mvfrsavings
MovedFromSavings(rb, rex, now) ==
    LET rb1 == process_rex_maturities(WithoutSavings(rb), now)
        rb2 == [rb1 EXCEPT !.rex_maturities = PutLast(@, get_rex_maturity(now), rex)]
    IN  put_rex_savings(rb2, read_rex_savings(rb) - rex)
=============================================================================
