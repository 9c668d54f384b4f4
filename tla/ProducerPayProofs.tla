------------------------- MODULE ProducerPayProofs -------------------------
(***************************************************************************)
(* What holds of votes and pay for every number of voters and producers    *)
(* and however long the chain runs.                                        *)
(*                                                                         *)
(* Chains of proxies: an account is a registered proxy only while it names *)
(* no proxy itself, and a vote can only name a registered proxy.  A new    *)
(* link therefore ends a chain at once, so no cycle can close; this and    *)
(* that accounts without a row name nobody make NoProxyCycle inductive.    *)
(*                                                                         *)
(* Pay: the blocks of one producer are among all that wait, and its votes  *)
(* among all votes, so its part of a bucket is at most the bucket.         *)
(*                                                                         *)
(* Votes (VoteInv): the totals of votes are sums of last weights.  Within  *)
(* a vote they are so for every voter but the one that votes, which still  *)
(* counts with its old weight here and with its new one there: Matched     *)
(* says of any tables whom each voter counts for and lets one voter v      *)
(* count differently.  Each call of propagate_weight_change restores it    *)
(* for one voter and breaks it for the next in the chain of proxies, which *)
(* never comes back to v, because the new link closes no cycle; and the    *)
(* guard on small changes stops no change but 0, because weights are even  *)
(* (FactorAssumption).                                                     *)
(*                                                                         *)
(* Shares (ShareInv): the rate and the total are sums over the rows whose  *)
(* last update was within the days of the last claim (CountedRows), and    *)
(* every change of votes keeps that (Keeps), whatever rows leave the       *)
(* totals in it.  That a producer without a row has no votes is part of    *)
(* the invariant: regproducer adds the row to no total.                    *)
(***************************************************************************)
EXTENDS ProducerPay, FunSumsProofs, TLAPS

VoterRows ==
    [row : BOOLEAN, staked : Int, is_proxy : BOOLEAN, proxy : Voters \cup {Nobody},
     producers : SUBSET Producers]

VotersOK ==
    /\ voters \in [Voters -> VoterRows]
    /\ \A v \in Voters : ~voters[v].row \/ voters[v].is_proxy => voters[v].proxy = Nobody

ProxyInv == VotersOK /\ NoProxyCycle

\* At the start nobody names a proxy.
LEMMA ProxyInit == Init => ProxyInv
<1> SUFFICES ASSUME Init PROVE ProxyInv
  OBVIOUS
<1>1. VotersOK
  <2> DEFINE new == [NoVoter EXCEPT !.row = TRUE, !.staked = InitStake]
  <2>1. NoVoter \in VoterRows /\ InitStake \in Int
    BY StakesAssumption DEF NoVoter, VoterRows
  <2>2. new \in VoterRows /\ new.proxy = Nobody
    BY <2>1 DEF NoVoter, VoterRows
  <2>3. NoVoter.proxy = Nobody
    BY DEF NoVoter
  <2>4. \A v \in Voters : voters[v] \in {NoVoter, new} /\ voters = [w \in Voters |-> voters[w]]
    BY DEF Init
  <2> HIDE DEF new
  <2> QED
    BY <2>1, <2>2, <2>3, <2>4 DEF VotersOK, Init
<1>2. NoProxyCycle
  BY NobodyAssumption DEF Init, NoVoter, NoProxyCycle
<1> QED
  BY <1>1, <1>2 DEF ProxyInv

\* If no voter gets another proxy than before, no cycle closes.
LEMMA SameProxies ==
  ASSUME ProxyInv, \A v \in Voters : voters'[v].proxy = voters[v].proxy
  PROVE  NoProxyCycle'
BY DEF ProxyInv, NoProxyCycle

\* A vote makes one link at most, and to an account that has none.
LEMMA VoteStep ==
  ASSUME ProxyInv, NEW v \in Voters, NEW change \in Int, NEW proxy \in Voters \cup {Nobody},
         NEW producers \in SUBSET Producers, voteproducer(v, change, proxy, producers)
  PROVE  ProxyInv'
<1> DEFINE vs == [voters EXCEPT ![v].staked = @ + change]
<1>1. voters' = [vs EXCEPT ![v].proxy = proxy, ![v].producers = producers]
  BY DEF voteproducer
<1>2. VoteAllowed(vs, Tables, v, proxy, producers, TRUE)
  BY DEF voteproducer
<1>3. voters \in [Voters -> VoterRows]
  BY DEF ProxyInv, VotersOK
<1>4. vs \in [Voters -> VoterRows]
  <2>1. vs[v] = [voters[v] EXCEPT !.staked = @ + change]
    BY <1>3
  <2>2. voters[v].staked + change \in Int
    BY <1>3 DEF VoterRows
  <2>3. vs[v] \in VoterRows
    BY <1>3, <2>1, <2>2 DEF VoterRows
  <2> QED
    BY <1>3, <2>3
<1>5. voters' \in [Voters -> VoterRows]
  <2>1. voters'[v] = [vs[v] EXCEPT !.proxy = proxy, !.producers = producers]
    BY <1>1, <1>4
  <2>2. voters'[v] \in VoterRows
    BY <1>4, <2>1 DEF VoterRows
  <2> QED
    BY <1>1, <1>4, <2>2
<1>6. /\ voters'[v].proxy = proxy
      /\ voters'[v].row = voters[v].row /\ voters'[v].is_proxy = voters[v].is_proxy
      /\ \A w \in Voters \ {v} : voters'[w] = voters[w]
  BY <1>1, <1>3, <1>4 DEF VoterRows
<1>7. vs[v].row = voters[v].row /\ vs[v].is_proxy = voters[v].is_proxy
  BY <1>3 DEF VoterRows
<1>8. voters[v].row
  BY <1>2, <1>7 DEF VoteAllowed
<1>9. proxy # Nobody => proxy \in Voters \ {v} /\ ~voters[v].is_proxy /\ voters[proxy].is_proxy
  <2>1. proxy # Nobody => proxy # v /\ ~vs[v].is_proxy /\ vs[proxy].is_proxy
    BY <1>2 DEF VoteAllowed
  <2>2. \A w \in Voters \ {v} : vs[w] = voters[w]
    BY <1>3
  <2> QED
    BY <1>7, <2>1, <2>2
<1>10. VotersOK'
  BY <1>5, <1>6, <1>8, <1>9 DEF VotersOK, ProxyInv
<1>11. NoProxyCycle'
  <2> SUFFICES ASSUME NEW S \in SUBSET Voters, S # {}
               PROVE  \E w \in S : voters'[w].proxy \notin S
    BY DEF NoProxyCycle
  <2>1. CASE v \in S /\ proxy \notin S
    BY <2>1, <1>6
  <2>2. CASE v \in S /\ proxy \in S
    <3>1. proxy # Nobody
      BY <2>2, NobodyAssumption
    <3>2. voters'[proxy].proxy = Nobody
      BY <3>1, <1>6, <1>9 DEF ProxyInv, VotersOK
    <3> QED
      BY <2>2, <3>2, NobodyAssumption
  <2>3. CASE v \notin S
    <3>1. PICK w \in S : voters[w].proxy \notin S
      BY DEF ProxyInv, NoProxyCycle
    <3> QED
      BY <2>3, <3>1, <1>6
  <2> QED
    BY <2>1, <2>2, <2>3
<1> QED
  BY <1>10, <1>11 DEF ProxyInv

\* A proxy registers only when it names none, and keeps that when it unregisters.
LEMMA RegproxyStep ==
  ASSUME ProxyInv, NEW v \in Voters, NEW isproxy \in BOOLEAN, regproxy(v, isproxy)
  PROVE  ProxyInv'
<1>1. voters' = [voters EXCEPT ![v].row = TRUE, ![v].is_proxy = isproxy]
  BY DEF regproxy
<1>2. voters \in [Voters -> VoterRows]
  BY DEF ProxyInv, VotersOK
<1>3. voters' \in [Voters -> VoterRows]
  BY <1>1, <1>2 DEF VoterRows
<1>4. /\ voters'[v].is_proxy = isproxy
      /\ \A w \in Voters : voters'[w].proxy = voters[w].proxy
      /\ \A w \in Voters \ {v} : voters'[w] = voters[w]
  BY <1>1, <1>2 DEF VoterRows
<1>5. voters'[v].row
  BY <1>1, <1>2 DEF VoterRows
<1>6. isproxy => voters[v].proxy = Nobody
  BY DEF regproxy, ProxyInv, VotersOK
<1>7. VotersOK'
  BY <1>3, <1>4, <1>5, <1>6 DEF VotersOK, ProxyInv
<1> QED
  BY <1>4, <1>7, SameProxies DEF ProxyInv

\* A change of stake changes no proxy.
LEMMA PowerStep ==
  ASSUME ProxyInv, NEW v \in Voters, NEW change \in Int, update_voting_power(v, change)
  PROVE  ProxyInv'
<1>1. voters' = [voters EXCEPT ![v].row = TRUE, ![v].staked = @ + change]
  BY DEF update_voting_power
<1>2. voters \in [Voters -> VoterRows]
  BY DEF ProxyInv, VotersOK
<1>3. voters' \in [Voters -> VoterRows]
  <2>1. voters'[v] = [voters[v] EXCEPT !.row = TRUE, !.staked = @ + change]
    BY <1>1, <1>2
  <2>2. voters[v].staked + change \in Int
    BY <1>2 DEF VoterRows
  <2>3. voters'[v] \in VoterRows
    BY <1>2, <2>1, <2>2 DEF VoterRows
  <2> QED
    BY <1>1, <1>2, <2>3
<1>4. \A w \in Voters : /\ voters'[w].proxy = voters[w].proxy
                        /\ voters'[w].is_proxy = voters[w].is_proxy
                        /\ ~voters'[w].row => ~voters[w].row
  BY <1>1, <1>2 DEF VoterRows
<1>5. VotersOK'
  BY <1>3, <1>4 DEF VotersOK, ProxyInv
<1> QED
  BY <1>4, <1>5, SameProxies DEF ProxyInv

\* No step lets a chain of proxies come back to its start.
LEMMA ProxyStep == ProxyInv /\ [PayNext]_payvars => ProxyInv'
<1> SUFFICES ASSUME ProxyInv, [PayNext]_payvars PROVE ProxyInv'
  OBVIOUS
<1>1. ASSUME NEW v \in Voters, NEW isproxy \in BOOLEAN, regproxy(v, isproxy)
      PROVE  ProxyInv'
  BY <1>1, RegproxyStep
<1>2. ASSUME NEW v \in Voters, NEW change \in Stakes, update_voting_power(v, change)
      PROVE  ProxyInv'
  BY <1>2, PowerStep, StakesAssumption
<1>3. ASSUME NEW v \in Voters, NEW change \in Stakes \cup {0},
             NEW proxy \in Voters \cup {Nobody}, NEW producers \in SUBSET Producers,
             voteproducer(v, change, proxy, producers)
      PROVE  ProxyInv'
  BY <1>3, VoteStep, StakesAssumption
<1>4. ASSUME UNCHANGED voters PROVE ProxyInv'
  BY <1>4 DEF ProxyInv, VotersOK, NoProxyCycle
<1>5. CASE Vote
  BY <1>1, <1>2, <1>3, <1>5 DEF Vote
<1>6. CASE Register \/ Tick
  BY <1>4, <1>6 DEF Register, regproducer, unregprod, Tick
<1>7. CASE Pay
  BY <1>4, <1>7 DEF Pay, claimrewards, onblock, updtrevision, vars
<1>8. CASE UNCHANGED payvars
  BY <1>4, <1>8 DEF payvars, vars
<1> QED
  BY <1>5, <1>6, <1>7, <1>8 DEF PayNext, Next

\* No sequence of votes, registrations and changes of stake, by any number of
\* accounts, makes a cycle of proxies: the recursion of propagate_weight_change
\* ends.
THEOREM NoCycleOfProxies == PaySpec => []NoProxyCycle
<1>1. PayInit => ProxyInv
  BY ProxyInit DEF PayInit
<1>2. ProxyInv /\ [PayNext]_payvars => ProxyInv'
  BY ProxyStep
<1>3. ProxyInv => NoProxyCycle
  BY DEF ProxyInv
<1> QED
  BY <1>1, <1>2, <1>3, PTL DEF PaySpec

-----------------------------------------------------------------------------
PayOK ==
    /\ now \in Int
    /\ unpaid \in [Producers -> Nat]
    /\ DOMAIN pay = {"perblock_bucket", "pervote_bucket", "total_unpaid", "last_fill", "revision"}
    /\ pay.perblock_bucket \in Nat /\ pay.total_unpaid \in Nat /\ pay.last_fill \in Int
    /\ acct.bpay \in Int

PayInv == PayOK /\ BlockPayCovered

\* A part of a bucket, rounded down, is at most the bucket.
LEMMA PartOfBucket ==
  ASSUME NEW bucket \in Nat, NEW part \in Nat, NEW whole \in Nat, part <= whole, whole > 0
  PROVE  (bucket * part) \div whole \in 0 .. bucket
<1> DEFINE paid == (bucket * part) \div whole
<1>1. bucket * part \in Nat /\ bucket * whole \in Nat /\ bucket * part <= bucket * whole
  OBVIOUS
<1>2. paid \in Nat /\ paid * whole <= bucket * part
  BY <1>1
<1> HIDE DEF paid
<1>3. paid * whole <= bucket * whole
  BY <1>1, <1>2
<1>4. ASSUME paid >= bucket + 1 PROVE FALSE
  <2>1. paid * whole >= (bucket + 1) * whole
    BY <1>2, <1>4
  <2>2. (bucket + 1) * whole = bucket * whole + whole
    OBVIOUS
  <2> QED
    BY <1>1, <1>2, <1>3, <2>1, <2>2
<1> QED
  BY <1>2, <1>4 DEF paid

\* What is issued for blocks is never negative.
LEMMA IssuedType == PayOK => ToBlockPay \in Nat
<1> SUFFICES ASSUME PayOK PROVE ToBlockPay \in Nat
  OBVIOUS
<1>1. Issued \in Nat
  <2>1. CASE pay.last_fill # Never /\ now > pay.last_fill
    <3>1. now - pay.last_fill \in Nat
      BY <2>1 DEF PayOK
    <3> QED
      BY <2>1, <3>1, PayAssumption DEF Issued
  <2>2. CASE ~(pay.last_fill # Never /\ now > pay.last_fill)
    BY <2>2 DEF Issued
  <2> QED
    BY <2>1, <2>2
<1> QED
  BY <1>1 DEF ToProducers, ToBlockPay

\* At the start there is nothing to pay and nobody to pay it to.
LEMMA PayInvInit == PayInit => PayInv
<1> SUFFICES ASSUME PayInit PROVE PayInv
  OBVIOUS
<1>1. ProducerCount \in Nat
  BY ProducersAssumption
<1>2. SumTo(unpaid, ProducerCount) = 0
  BY <1>1, SumToAllZero DEF PayInit, Producers
<1> QED
  BY <1>2 DEF PayInit, Init, PayInv, PayOK, BlockPayCovered, Never

\* A block counts once for its producer and once for all.
LEMMA BlockStep ==
  ASSUME PayInv, NEW p \in 0 .. ProducerCount, NEW minute_passed \in BOOLEAN,
         NEW accepted \in BOOLEAN, onblock(p, minute_passed, accepted)
  PROVE  PayInv'
<1> DEFINE counts == IF p \in Producers THEN prods[p].row ELSE FALSE
<1>1. /\ pay' = [pay EXCEPT !.last_fill = IF @ = Never THEN now ELSE @,
                            !.total_unpaid = IF counts THEN @ + 1 ELSE @]
      /\ unpaid' = IF counts THEN [unpaid EXCEPT ![p] = @ + 1] ELSE unpaid
      /\ now' = now /\ acct' = acct
  BY DEF onblock, vars
<1>2. /\ DOMAIN pay' = DOMAIN pay
      /\ pay'.perblock_bucket = pay.perblock_bucket
      /\ pay'.last_fill = IF pay.last_fill = Never THEN now ELSE pay.last_fill
      /\ pay'.total_unpaid = IF counts THEN pay.total_unpaid + 1 ELSE pay.total_unpaid
  BY <1>1 DEF PayInv, PayOK
<1>3. unpaid \in [1 .. ProducerCount -> Nat] /\ unpaid \in [1 .. ProducerCount -> Int]
  BY DEF PayInv, PayOK, Producers
<1> HIDE DEF counts
<1>4. CASE counts
  <2>1. p \in 1 .. ProducerCount
    BY <1>4 DEF counts, Producers
  <2>2. unpaid[p] + 1 \in Nat /\ unpaid' = [unpaid EXCEPT ![p] = unpaid[p] + 1]
    BY <1>1, <1>3, <1>4, <2>1
  <2>3. SumTo(unpaid', ProducerCount) = SumTo(unpaid, ProducerCount) - unpaid[p] + (unpaid[p] + 1)
    <3>1. ProducerCount \in Nat /\ unpaid[p] + 1 \in Int
      BY <2>2, ProducersAssumption
    <3>2. SumTo([unpaid EXCEPT ![p] = unpaid[p] + 1], ProducerCount)
            = SumTo(unpaid, ProducerCount) - unpaid[p] + (unpaid[p] + 1)
      BY <1>3, <2>1, <3>1, SumToUpdate
    <3> QED
      BY <2>2, <3>2
  <2>4. unpaid' \in [Producers -> Nat]
    BY <1>3, <2>2 DEF Producers
  <2>5. SumTo(unpaid', ProducerCount) = pay.total_unpaid + 1
    BY <1>3, <2>1, <2>3 DEF PayInv, PayOK, BlockPayCovered
  <2> QED
    BY <1>1, <1>2, <1>4, <2>4, <2>5 DEF PayInv, PayOK, BlockPayCovered, Never
<1>5. CASE ~counts
  BY <1>1, <1>2, <1>5 DEF PayInv, PayOK, BlockPayCovered, Never
<1> QED
  BY <1>4, <1>5

\* A claim takes the blocks of the producer out of both counts, and from the
\* bucket at most what is in it.
LEMMA ClaimStep ==
  ASSUME PayInv, NEW p \in Producers, claimrewards(p)
  PROVE  PayInv'
<1> DEFINE bucket == pay.perblock_bucket + ToBlockPay
           paid == BlockPay(p, bucket)
<1>1. /\ DOMAIN pay' = DOMAIN pay
      /\ pay'.perblock_bucket = bucket - paid
      /\ pay'.total_unpaid = pay.total_unpaid - unpaid[p]
      /\ pay'.last_fill = IF pay.last_fill = Never THEN pay.last_fill ELSE now
      /\ acct'.bpay = acct.bpay + ToBlockPay - paid
      /\ unpaid' = [unpaid EXCEPT ![p] = 0]
      /\ now' = now
  BY DEF claimrewards, Paid, PayInv, PayOK
<1>2. unpaid \in [1 .. ProducerCount -> Nat] /\ unpaid \in [1 .. ProducerCount -> Int]
  BY DEF PayInv, PayOK, Producers
<1>3. ProducerCount \in Nat /\ p \in 1 .. ProducerCount
  BY ProducersAssumption DEF Producers
<1>4. unpaid[p] \in Nat /\ unpaid[p] <= pay.total_unpaid
  BY <1>2, <1>3, SumToBoundsValue DEF PayInv, BlockPayCovered
<1>5. ToBlockPay \in Nat /\ bucket \in Nat
  BY IssuedType DEF PayInv, PayOK
<1>6. paid \in 0 .. bucket
  <2>1. CASE pay.total_unpaid > 0
    BY <1>4, <1>5, <2>1, PartOfBucket DEF BlockPay, PayInv, PayOK
  <2>2. CASE ~(pay.total_unpaid > 0)
    BY <1>5, <2>2 DEF BlockPay
  <2> QED
    BY <2>1, <2>2
<1>7. SumTo(unpaid', ProducerCount) = pay.total_unpaid - unpaid[p]
  <2>1. SumTo(unpaid', ProducerCount) = SumTo(unpaid, ProducerCount) - unpaid[p] + 0
    <3>1. SumTo([unpaid EXCEPT ![p] = 0], ProducerCount)
            = SumTo(unpaid, ProducerCount) - unpaid[p] + 0
      <4>1. 0 \in Int
        OBVIOUS
      <4> HIDE DEF bucket, paid
      <4> QED
        BY <1>2, <1>3, <4>1, SumToUpdate
    <3> QED
      BY <1>1, <3>1
  <2> QED
    BY <1>4, <2>1 DEF PayInv, PayOK, BlockPayCovered
<1>8. unpaid' \in [Producers -> Nat]
  BY <1>1, <1>2 DEF Producers
<1> HIDE DEF paid, bucket
<1>9. bucket = pay.perblock_bucket + ToBlockPay
  BY DEF bucket
<1> QED
  BY <1>1, <1>4, <1>5, <1>6, <1>7, <1>8, <1>9 DEF PayInv, PayOK, BlockPayCovered

\* No step lets the counts of blocks or the bucket and its account part.
LEMMA PayStep == PayInv /\ [PayNext]_payvars => PayInv'
<1> SUFFICES ASSUME PayInv, [PayNext]_payvars PROVE PayInv'
  OBVIOUS
<1>1. ASSUME NEW p \in 0 .. ProducerCount, NEW minute_passed \in BOOLEAN,
             NEW accepted \in BOOLEAN, onblock(p, minute_passed, accepted)
      PROVE  PayInv'
  BY <1>1, BlockStep
<1>2. ASSUME NEW p \in Producers, claimrewards(p) PROVE PayInv'
  BY <1>2, ClaimStep
<1>3. ASSUME updtrevision PROVE PayInv'
  BY <1>3 DEF updtrevision, vars, PayInv, PayOK, BlockPayCovered
<1>4. ASSUME UNCHANGED <<unpaid, pay, acct>>, now' \in Int PROVE PayInv'
  BY <1>4 DEF PayInv, PayOK, BlockPayCovered
<1>5. CASE Pay
  BY <1>1, <1>2, <1>3, <1>5 DEF Pay
<1>6. CASE Next /\ UNCHANGED <<unpaid, pay, acct, schedule>>
  <2>1. now' \in Int
    <3>1. CASE Vote
      <4>1. ASSUME NEW v \in Voters, NEW isproxy \in BOOLEAN, regproxy(v, isproxy)
            PROVE  UNCHANGED now
        BY <4>1 DEF regproxy
      <4>2. ASSUME NEW v \in Voters, NEW change, update_voting_power(v, change)
            PROVE  UNCHANGED now
        BY <4>2 DEF update_voting_power
      <4>3. ASSUME NEW v \in Voters, NEW change, NEW proxy, NEW producers,
                   voteproducer(v, change, proxy, producers)
            PROVE  UNCHANGED now
        BY <4>3 DEF voteproducer
      <4>4. UNCHANGED now
        BY <3>1, <4>1, <4>2, <4>3 DEF Vote
      <4> QED
        BY <4>4 DEF PayInv, PayOK
    <3>2. CASE Register
      BY <1>6, <3>2 DEF Register, regproducer, unregprod, PayInv, PayOK
    <3>3. CASE Tick
      BY <1>6, <3>3 DEF Tick, PayInv, PayOK
    <3> QED
      BY <1>6, <3>1, <3>2, <3>3 DEF Next
  <2> QED
    BY <1>4, <1>6, <2>1
<1>7. CASE UNCHANGED payvars
  BY <1>4, <1>7 DEF payvars, vars, PayInv, PayOK
<1> QED
  BY <1>5, <1>6, <1>7 DEF PayNext

\* For any number of producers and any sequence of blocks, claims and
\* registrations, what producers are paid for blocks is in the account.
THEOREM BlockPayIsCovered == PaySpec => []BlockPayCovered
<1>1. PayInit => PayInv
  BY PayInvInit
<1>2. PayInv /\ [PayNext]_payvars => PayInv'
  BY PayStep
<1>3. PayInv => BlockPayCovered
  BY DEF PayInv
<1> QED
  BY <1>1, <1>2, <1>3, PTL DEF PaySpec

-----------------------------------------------------------------------------
(* Votes: the tables that the helpers map, and what the totals stand for.  *)

WeightRows == [last : Int, proxied : Int]

ProducerRows ==
    [row : BOOLEAN, row2 : BOOLEAN, is_active : BOOLEAN, total_votes : Int,
     last_claim_time : Int, votepay_share : Int, last_votepay_share_update : Int]

TotalRows ==
    [activated : Int, thresh_time : Int, vote_weight : Int, votepay_share : Int,
     change_rate : Int, last_vpay_state_update : Int]

TableSet == [ok : BOOLEAN, weight : [Voters -> WeightRows], prods : [Producers -> ProducerRows],
             totals : TotalRows]

VotesOf(s) == [p \in Producers |-> s.prods[p].total_votes]

Even(x) == \E k \in Int : x = 2 * k

WeightsOK(s) ==
    \A w \in Voters : s.weight[w].last \in Nat /\ Even(s.weight[w].last) /\ Even(s.weight[w].proxied)

\* The weight with which each voter counts: its last, but for one voter v in
\* the middle of its vote.
Counts(s, v, a) == [w \in Voters |-> IF w = v THEN a ELSE s.weight[w].last]

ProxiedMatch(s, v, to, a) ==
    \A x \in Voters : s.weight[x].proxied = SumOver(Counts(s, v, a), {w \in Voters : to[w] = x})

VotesMatch(s, v, for, b) ==
    \A p \in Producers :
       s.prods[p].total_votes = SumOver(Counts(s, v, b), {w \in Voters : p \in for[w]})

TotalMatch(s) == s.totals.vote_weight = SumOver(VotesOf(s), Producers)

\* The totals are right if each voter w is counted for the proxy to[w], where v
\* counts with a, and for the producers for[w], where v counts with b.
Matched(s, v, to, a, for, b) ==
    /\ s \in TableSet /\ WeightsOK(s)
    /\ ProxiedMatch(s, v, to, a) /\ VotesMatch(s, v, for, b) /\ TotalMatch(s)

Proxies == [Voters -> Voters \cup {Nobody}]
Approvals == [Voters -> SUBSET Producers]

\* Every subset of the voters and of the producers is finite.
LEMMA FinitePeople ==
  /\ \A S \in SUBSET Voters : IsFiniteSet(S)
  /\ \A S \in SUBSET Producers : IsFiniteSet(S)
<1>1. IsFiniteSet(Producers)
  BY ProducersAssumption, FS_Interval DEF Producers
<1> QED
  BY <1>1, VotersAssumption, FS_Subset

\* The fields of the tables have their types.
LEMMA TableFields ==
  ASSUME NEW s \in TableSet
  PROVE  /\ s.ok \in BOOLEAN /\ s.weight \in [Voters -> WeightRows]
         /\ s.prods \in [Producers -> ProducerRows] /\ s.totals \in TotalRows
         /\ \A w \in Voters : s.weight[w].last \in Int /\ s.weight[w].proxied \in Int
         /\ \A p \in Producers : s.prods[p] \in ProducerRows /\ s.prods[p].total_votes \in Int
         /\ s.totals.vote_weight \in Int
<1>1. /\ s.ok \in BOOLEAN /\ s.weight \in [Voters -> WeightRows]
      /\ s.prods \in [Producers -> ProducerRows] /\ s.totals \in TotalRows
  BY DEF TableSet
<1> QED
  BY <1>1 DEF WeightRows, ProducerRows, TotalRows

\* Sums, differences and multiples of even numbers are even; a small one is 0.
LEMMA EvenNumbers ==
  /\ Even(0)
  /\ \A x, y : Even(x) /\ Even(y) => Even(x + y) /\ Even(x - y)
  /\ \A x, k : Even(x) /\ k \in Int => Even(k * x)
  /\ \A x : Even(x) => x \in Int /\ (x \in -1 .. 1 => x = 0)
<1>1. Even(0)
  BY 0 = 2 * 0 DEF Even
<1>2. ASSUME NEW x, NEW y, Even(x), Even(y) PROVE Even(x + y) /\ Even(x - y)
  <2>1. PICK i \in Int : x = 2 * i
    BY <1>2 DEF Even
  <2>2. PICK j \in Int : y = 2 * j
    BY <1>2 DEF Even
  <2>3. x + y = 2 * (i + j) /\ x - y = 2 * (i - j) /\ i + j \in Int /\ i - j \in Int
    BY <2>1, <2>2
  <2> QED
    BY <2>3 DEF Even
<1>3. ASSUME NEW x, NEW k \in Int, Even(x) PROVE Even(k * x)
  <2>1. PICK i \in Int : x = 2 * i
    BY <1>3 DEF Even
  <2>2. k * x = 2 * (k * i) /\ k * i \in Int
    BY <2>1
  <2> QED
    BY <2>2 DEF Even
<1>4. ASSUME NEW x, Even(x) PROVE x \in Int /\ (x \in -1 .. 1 => x = 0)
  BY <1>4 DEF Even
<1> QED
  BY <1>1, <1>2, <1>3, <1>4

\* The weight of any stake is even.
LEMMA VoteIsEven ==
  ASSUME now \in Times, NEW staked \in Nat
  PROVE  stake2vote(staked) \in Nat /\ Even(stake2vote(staked))
<1>1. VoteFactor[now] \in Nat /\ VoteFactor[now] % 2 = 0
  BY FactorAssumption
<1>2. Even(VoteFactor[now])
  <2>1. VoteFactor[now] = 2 * (VoteFactor[now] \div 2) /\ VoteFactor[now] \div 2 \in Int
    BY <1>1
  <2> QED
    BY <2>1 DEF Even
<1>3. staked * VoteFactor[now] \in Nat
  BY <1>1
<1> QED
  BY <1>2, <1>3, EvenNumbers DEF stake2vote

\* Counts are naturals.
LEMMA CountsNat ==
  ASSUME NEW s \in TableSet, WeightsOK(s), NEW v, NEW a \in Nat
  PROVE  \A w \in Voters : Counts(s, v, a)[w] \in Nat
BY DEF Counts, WeightsOK

\* So are the sums that the totals stand for.
LEMMA MatchedNat ==
  ASSUME NEW s, NEW v, NEW to, NEW a \in Nat, NEW for, NEW b \in Nat, Matched(s, v, to, a, for, b)
  PROVE  /\ \A x \in Voters : s.weight[x].proxied \in Nat
         /\ \A p \in Producers : s.prods[p].total_votes \in Nat
         /\ \A p \in Producers : s.prods[p].total_votes <= s.totals.vote_weight
         /\ s.totals.vote_weight \in Nat
<1>1. s \in TableSet /\ WeightsOK(s)
  BY DEF Matched
<1>2. ASSUME NEW x \in Voters PROVE s.weight[x].proxied \in Nat
  <2> DEFINE S == {w \in Voters : to[w] = x}
  <2>1. IsFiniteSet(S) /\ \A w \in S : Counts(s, v, a)[w] \in Nat
    BY <1>1, CountsNat, FinitePeople
  <2> HIDE DEF S
  <2>2. SumOver(Counts(s, v, a), S) \in Nat
    BY <2>1, SumOverNat
  <2> QED
    BY <2>2 DEF S, Matched, ProxiedMatch
<1>3. ASSUME NEW p \in Producers PROVE s.prods[p].total_votes \in Nat
  <2> DEFINE S == {w \in Voters : p \in for[w]}
  <2>1. IsFiniteSet(S) /\ \A w \in S : Counts(s, v, b)[w] \in Nat
    BY <1>1, CountsNat, FinitePeople
  <2> HIDE DEF S
  <2>2. SumOver(Counts(s, v, b), S) \in Nat
    BY <2>1, SumOverNat
  <2> QED
    BY <2>2 DEF S, Matched, VotesMatch
<1>4. \A p \in Producers : VotesOf(s)[p] = s.prods[p].total_votes
  BY DEF VotesOf
<1>5. /\ SumOver(VotesOf(s), Producers) \in Nat
      /\ \A p \in Producers : VotesOf(s)[p] <= SumOver(VotesOf(s), Producers)
  BY <1>3, <1>4, FinitePeople, SumOverNat
<1> QED
  BY <1>2, <1>3, <1>4, <1>5 DEF Matched, TotalMatch

\* An update of the total share leaves all else alone.
LEMMA TotalShareUpdated ==
  ASSUME now \in Int, NEW s \in TableSet, NEW additional \in Int, NEW rate_delta \in Int
  PROVE  LET t == update_total_votepay_share(s, additional, rate_delta)
         IN /\ t \in TableSet
            /\ t.ok = s.ok /\ t.weight = s.weight /\ t.prods = s.prods
            /\ t.totals.activated = s.totals.activated
            /\ t.totals.thresh_time = s.totals.thresh_time
            /\ t.totals.vote_weight = s.totals.vote_weight
            /\ t.totals.votepay_share =
                 Greatest(0, s.totals.votepay_share
                             + s.totals.change_rate * (now - s.totals.last_vpay_state_update)
                             + additional)
            /\ t.totals.change_rate = Greatest(0, s.totals.change_rate + rate_delta)
            /\ t.totals.last_vpay_state_update = now
<1> DEFINE old == s.totals
           grown == old.change_rate * (now - old.last_vpay_state_update)
           share == Greatest(0, old.votepay_share + grown + additional)
           rate == Greatest(0, old.change_rate + rate_delta)
           new == [old EXCEPT !.votepay_share = share, !.change_rate = rate,
                              !.last_vpay_state_update = now]
           t == [s EXCEPT !.totals = new]
<1>1. old \in TotalRows
  BY TableFields
<1>2. grown \in Int
  <2>1. old.change_rate \in Int /\ now - old.last_vpay_state_update \in Int
    BY <1>1 DEF TotalRows
  <2> HIDE DEF old
  <2> QED
    BY <2>1
<1>3. share \in Int /\ rate \in Int
  <2>1. old.votepay_share \in Int /\ old.change_rate \in Int
    BY <1>1 DEF TotalRows
  <2> HIDE DEF old, grown
  <2> QED
    BY <1>2, <2>1 DEF Greatest
<1>4. update_total_votepay_share(s, additional, rate_delta) = t
  BY DEF update_total_votepay_share
<1> HIDE DEF share, rate, grown
<1>5. /\ new \in TotalRows /\ new.activated = old.activated
      /\ new.thresh_time = old.thresh_time /\ new.vote_weight = old.vote_weight
      /\ new.votepay_share = share /\ new.change_rate = rate /\ new.last_vpay_state_update = now
  <2> HIDE DEF old
  <2> QED
    BY <1>1, <1>3 DEF TotalRows
<1> HIDE DEF new
<1>6. /\ t \in TableSet /\ t.totals = new
      /\ t.ok = s.ok /\ t.weight = s.weight /\ t.prods = s.prods
  BY <1>5 DEF TableSet
<1> HIDE DEF t
<1> QED
  BY <1>4, <1>5, <1>6 DEF share, rate, grown

\* The rows that VotesChanged takes apart.
Paid2(s, C) == {p \in C : s.prods[p].row2}
Counted(s, C) == {p \in Paid2(s, C) : ~Crossed(s.prods[p])}
Leaving(s, C) == {p \in Paid2(s, C) \ Counted(s, C) : ~UpdatedAfter(s.prods[p])}

ChangedRow(s, C, delta, p) ==
    IF p \in C
    THEN [(IF p \in Paid2(s, C) THEN ShareUpdated(s.prods[p], p \in Leaving(s, C)) ELSE s.prods[p])
             EXCEPT !.total_votes = Greatest(0, @ + delta[p])]
    ELSE s.prods[p]

LeavingShare(s, C) ==
    SumOver([p \in Leaving(s, C) |-> NewShare(s.prods[p], s.prods[p].total_votes)], Leaving(s, C))
LeavingRate(s, C) == SumOver([p \in Leaving(s, C) |-> s.prods[p].total_votes], Leaving(s, C))

\* A new share is a number.
LEMMA ShareType ==
  ASSUME now \in Int, NEW p \in ProducerRows, NEW rate \in Int
  PROVE  NewShare(p, rate) \in Int
<1>1. p.votepay_share \in Int /\ p.last_votepay_share_update \in Int
  BY DEF ProducerRows
<1>2. now - p.last_votepay_share_update \in Int
  BY <1>1
<1>3. rate * (now - p.last_votepay_share_update) \in Int
  BY <1>2
<1> QED
  BY <1>1, <1>3 DEF NewShare

\* An update of a share changes it and its time only.
LEMMA ShareUpdatedType ==
  ASSUME now \in Int, NEW p \in ProducerRows, NEW reset \in BOOLEAN
  PROVE  LET q == ShareUpdated(p, reset)
         IN /\ q \in ProducerRows
            /\ q.row = p.row /\ q.row2 = p.row2 /\ q.is_active = p.is_active
            /\ q.total_votes = p.total_votes /\ q.last_claim_time = p.last_claim_time
            /\ q.votepay_share = (IF reset THEN 0 ELSE NewShare(p, ShareRate(p)))
            /\ q.last_votepay_share_update = now
<1>1. ShareRate(p) \in Int
  BY DEF ShareRate, ProducerRows
<1>2. NewShare(p, ShareRate(p)) \in Int
  BY <1>1, ShareType
<1> DEFINE new == IF reset THEN 0 ELSE NewShare(p, ShareRate(p))
<1>3. new \in Int
  BY <1>2
<1>4. ShareUpdated(p, reset) = [p EXCEPT !.votepay_share = new, !.last_votepay_share_update = now]
  BY DEF ShareUpdated
<1> HIDE DEF new
<1>5. /\ ShareUpdated(p, reset) \in ProducerRows
      /\ ShareUpdated(p, reset).row = p.row /\ ShareUpdated(p, reset).row2 = p.row2
      /\ ShareUpdated(p, reset).is_active = p.is_active
      /\ ShareUpdated(p, reset).total_votes = p.total_votes
      /\ ShareUpdated(p, reset).last_claim_time = p.last_claim_time
      /\ ShareUpdated(p, reset).votepay_share = new
      /\ ShareUpdated(p, reset).last_votepay_share_update = now
  BY <1>3, <1>4 DEF ProducerRows
<1> QED
  BY <1>5 DEF new

\* What a change of the votes of the producers in C leaves: the rows, the
\* weight of all votes, and the totals of the shares, which the producers that
\* leave them and the counted ones change.
LEMMA VotesChangedTables ==
  ASSUME now \in Int, NEW s \in TableSet, NEW C \in SUBSET Producers, NEW delta \in [C -> Int]
  PROVE  LET t == VotesChanged(s, delta)
         IN /\ t \in TableSet
            /\ t.ok = s.ok /\ t.weight = s.weight
            /\ t.prods = [p \in Producers |-> ChangedRow(s, C, delta, p)]
            /\ t.totals.activated = s.totals.activated
            /\ t.totals.thresh_time = s.totals.thresh_time
            /\ t.totals.vote_weight = s.totals.vote_weight + SumOver(delta, C)
            /\ t.totals.votepay_share =
                 Greatest(0, s.totals.votepay_share
                             + s.totals.change_rate * (now - s.totals.last_vpay_state_update)
                             + (- LeavingShare(s, C)))
            /\ t.totals.change_rate =
                 Greatest(0, s.totals.change_rate
                             + (SumOver(delta, Counted(s, C)) - LeavingRate(s, C)))
            /\ t.totals.last_vpay_state_update = now
<1> DEFINE rows == [p \in Producers |-> ChangedRow(s, C, delta, p)]
           sum == SumOver(delta, C)
           all == s.totals.vote_weight + sum
           tot == [s.totals EXCEPT !.vote_weight = all]
           mid == [s EXCEPT !.prods = rows, !.totals = tot]
           add == - LeavingShare(s, C)
           rd == SumOver(delta, Counted(s, C)) - LeavingRate(s, C)
<1>0. /\ s.totals \in TotalRows /\ s.prods \in [Producers -> ProducerRows]
      /\ \A p \in Producers : s.prods[p] \in ProducerRows /\ s.prods[p].total_votes \in Int
  BY TableFields
<1>1. /\ Paid2(s, C) \subseteq C /\ Counted(s, C) \subseteq C /\ Leaving(s, C) \subseteq C
      /\ IsFiniteSet(C) /\ IsFiniteSet(Counted(s, C)) /\ IsFiniteSet(Leaving(s, C))
  BY FinitePeople DEF Paid2, Counted, Leaving
<1>2. sum \in Int /\ SumOver(delta, Counted(s, C)) \in Int
  BY <1>1, SumOverRule
<1>3. LeavingShare(s, C) \in Int /\ LeavingRate(s, C) \in Int
  <2>1. \A p \in Leaving(s, C) : NewShare(s.prods[p], s.prods[p].total_votes) \in Int
    BY <1>0, <1>1, ShareType
  <2> DEFINE L == Leaving(s, C)
             sh == [p \in L |-> NewShare(s.prods[p], s.prods[p].total_votes)]
             ra == [p \in L |-> s.prods[p].total_votes]
  <2>2. \A p \in L : sh[p] \in Int /\ ra[p] \in Int
    BY <1>0, <1>1, <2>1
  <2>3. LeavingShare(s, C) = SumOver(sh, L) /\ LeavingRate(s, C) = SumOver(ra, L)
    BY DEF LeavingShare, LeavingRate
  <2>4. IsFiniteSet(L)
    BY <1>1
  <2> HIDE DEF sh, ra, L
  <2>5. SumOver(sh, L) \in Int /\ SumOver(ra, L) \in Int
    BY <2>2, <2>4, SumOverRule
  <2> QED
    BY <2>3, <2>5
<1>4. ASSUME NEW p \in Producers PROVE ChangedRow(s, C, delta, p) \in ProducerRows
  <2>1. CASE p \in C
    <3> DEFINE row == IF p \in Paid2(s, C) THEN ShareUpdated(s.prods[p], p \in Leaving(s, C))
                      ELSE s.prods[p]
               votes == Greatest(0, row.total_votes + delta[p])
    <3>1. row \in ProducerRows
      <4>1. (p \in Leaving(s, C)) \in BOOLEAN
        OBVIOUS
      <4>2. ShareUpdated(s.prods[p], p \in Leaving(s, C)) \in ProducerRows
        BY <1>0, <4>1, ShareUpdatedType
      <4> QED
        BY <1>0, <4>2
    <3>2. ChangedRow(s, C, delta, p) = [row EXCEPT !.total_votes = votes]
      BY <2>1, <3>1 DEF ChangedRow, ProducerRows
    <3> HIDE DEF row
    <3>3. votes \in Int
      BY <2>1, <3>1 DEF Greatest, ProducerRows
    <3> HIDE DEF votes
    <3> QED
      BY <3>1, <3>2, <3>3 DEF ProducerRows
  <2>2. CASE p \notin C
    BY <1>0, <2>2 DEF ChangedRow
  <2> QED
    BY <2>1, <2>2
<1>5. VotesChanged(s, delta) = update_total_votepay_share(mid, add, rd)
  <2>1. DOMAIN delta = C
    OBVIOUS
  <2>2. mid = [s EXCEPT !.prods = [p \in Producers |->
                                 IF p \in C
                                 THEN [(IF p \in Paid2(s, C)
                                        THEN ShareUpdated(s.prods[p], p \in Leaving(s, C))
                                        ELSE s.prods[p])
                                         EXCEPT !.total_votes = Greatest(0, @ + delta[p])]
                                 ELSE @[p]],
                    !.totals.vote_weight = @ + SumOver(delta, C)]
    BY DEF ChangedRow, TableSet
  <2> HIDE DEF mid
  <2> QED
    BY <2>1, <2>2 DEF VotesChanged, Paid2, Counted, Leaving, LeavingShare, LeavingRate
<1> HIDE DEF sum, add, rd
<1>6. tot \in TotalRows /\ tot.vote_weight = all /\ tot.activated = s.totals.activated
      /\ tot.thresh_time = s.totals.thresh_time
      /\ tot.votepay_share = s.totals.votepay_share /\ tot.change_rate = s.totals.change_rate
      /\ tot.last_vpay_state_update = s.totals.last_vpay_state_update
  <2>1. all \in Int
    BY <1>0, <1>2 DEF TotalRows
  <2> HIDE DEF all
  <2> QED
    BY <1>0, <2>1 DEF TotalRows
<1> HIDE DEF tot
<1>7. rows \in [Producers -> ProducerRows]
  BY <1>4
<1> HIDE DEF rows
<1>8. mid \in TableSet /\ mid.ok = s.ok /\ mid.weight = s.weight /\ mid.prods = rows
      /\ mid.totals = tot
  BY <1>6, <1>7 DEF TableSet
<1> HIDE DEF mid
<1>9. add \in Int /\ rd \in Int
  BY <1>2, <1>3 DEF add, rd
<1> DEFINE t == update_total_votepay_share(mid, add, rd)
<1>10. /\ t \in TableSet
       /\ t.ok = mid.ok /\ t.weight = mid.weight /\ t.prods = mid.prods
       /\ t.totals.activated = mid.totals.activated
       /\ t.totals.thresh_time = mid.totals.thresh_time
       /\ t.totals.vote_weight = mid.totals.vote_weight
       /\ t.totals.votepay_share =
            Greatest(0, mid.totals.votepay_share
                        + mid.totals.change_rate * (now - mid.totals.last_vpay_state_update)
                        + add)
       /\ t.totals.change_rate = Greatest(0, mid.totals.change_rate + rd)
       /\ t.totals.last_vpay_state_update = now
  BY <1>8, <1>9, TotalShareUpdated
<1> HIDE DEF t
<1>11. VotesChanged(s, delta) = t
  BY <1>5 DEF t
<1> QED
  BY <1>6, <1>8, <1>10, <1>11 DEF rows, all, sum, add, rd

-----------------------------------------------------------------------------
(* Shares: what the totals of the shares stand for.                        *)

\* The row counts in the totals of the shares.
IsCounted(p) == p.row2 /\ ~UpdatedAfter(p)

CountedRows(s) == {p \in Producers : IsCounted(s.prods[p])}

\* What the share of a counted row is at the time t, if nothing happens before.
ShareAt(p, t) == p.votepay_share + p.total_votes * (t - p.last_votepay_share_update)

SharesOf(s, t) == [p \in Producers |-> ShareAt(s.prods[p], t)]

RowOK(p, t) ==
    /\ p.row <=> p.row2
    /\ p.row2 => p.last_claim_time # Never
    /\ p.last_claim_time \in Nat /\ p.total_votes \in Nat /\ p.votepay_share \in Nat
    /\ p.last_votepay_share_update \in Int /\ p.last_votepay_share_update <= t
    /\ ~IsCounted(p) => p.votepay_share = 0

SharesMatch(s, t) ==
    /\ \A p \in Producers : RowOK(s.prods[p], t)
    /\ s.totals.change_rate = SumOver(VotesOf(s), CountedRows(s))
    /\ s.totals.votepay_share + s.totals.change_rate * (t - s.totals.last_vpay_state_update)
         = SumOver(SharesOf(s, t), CountedRows(s))

\* The activated stake reaches the minimum and the time of that is set, or
\* neither.
IsActive(s) == s.totals.activated >= MinActivated
ActivationOK(s) == s.totals.thresh_time # Never <=> IsActive(s)

\* From s to t an activation stays, and its time with it.
StaysActive(s, t) ==
    ActivationOK(s) => /\ ActivationOK(t)
                       /\ IsActive(s) => /\ IsActive(t)
                                         /\ t.totals.thresh_time = s.totals.thresh_time

\* From s to t the shares still add up if they did, no row comes or goes, and
\* an activation stays.
Keeps(s, t) ==
    /\ SharesMatch(s, now) => SharesMatch(t, now)
    /\ \A p \in Producers : t.prods[p].row = s.prods[p].row
    /\ StaysActive(s, t)

\* Keeping is transitive.
LEMMA KeepsChain ==
  ASSUME NEW s, NEW t, NEW u, Keeps(s, t), Keeps(t, u)
  PROVE  Keeps(s, u)
<1>1. StaysActive(s, u)
  BY DEF Keeps, StaysActive
<1> QED
  BY <1>1 DEF Keeps

\* Tables with the same rows and totals of shares keep if an activation stays.
LEMMA KeepsActivating ==
  ASSUME NEW s, NEW t, t.prods = s.prods, StaysActive(s, t),
         t.totals.votepay_share = s.totals.votepay_share,
         t.totals.change_rate = s.totals.change_rate,
         t.totals.last_vpay_state_update = s.totals.last_vpay_state_update
  PROVE  Keeps(s, t)
BY DEF Keeps, SharesMatch, VotesOf, SharesOf, CountedRows

\* An activation stays where its two records do.
LEMMA SameActivation ==
  ASSUME NEW s, NEW t, t.totals.activated = s.totals.activated,
         t.totals.thresh_time = s.totals.thresh_time
  PROVE  StaysActive(s, t)
BY DEF StaysActive, ActivationOK, IsActive

\* Tables with the same rows and totals keep.
LEMMA KeepsSame ==
  ASSUME NEW s, NEW t, t.prods = s.prods, t.totals = s.totals
  PROVE  Keeps(s, t)
BY SameActivation, KeepsActivating

\* The share of a row that has its types.
LEMMA ShareAtType ==
  ASSUME NEW t \in Int, NEW p, RowOK(p, t)
  PROVE  ShareAt(p, t) \in Nat
<1>1. t - p.last_votepay_share_update \in Nat /\ p.total_votes \in Nat /\ p.votepay_share \in Nat
  BY DEF RowOK
<1>2. p.total_votes * (t - p.last_votepay_share_update) \in Nat
  BY <1>1
<1> QED
  BY <1>1, <1>2 DEF ShareAt

\* What a change of votes does to one row: it stays counted, with the share it
\* has by now, unless it leaves the totals; then its share is reset.
LEMMA RowChanged ==
  ASSUME now \in Int, NEW s \in TableSet, NEW C \in SUBSET Producers, NEW delta \in [C -> Int],
         NEW p \in Producers, RowOK(s.prods[p], now),
         p \in C => s.prods[p].total_votes + delta[p] \in Nat
  PROVE  LET old == s.prods[p]
             q == ChangedRow(s, C, delta, p)
         IN /\ RowOK(q, now)
            /\ q.row = old.row
            /\ q.total_votes = old.total_votes + (IF p \in C THEN delta[p] ELSE 0)
            /\ IsCounted(q) <=> IsCounted(old) /\ p \notin Leaving(s, C)
            /\ p \in Counted(s, C) <=> p \in C /\ IsCounted(q)
            /\ p \in Leaving(s, C) => IsCounted(old)
            /\ IsCounted(q) => ShareAt(q, now) = ShareAt(old, now)
<1> DEFINE old == s.prods[p]
           q == ChangedRow(s, C, delta, p)
<1>0. old \in ProducerRows /\ RowOK(old, now) /\ PayDays \in Nat
  BY TableFields, TimeAssumption
<1>1. CASE p \notin C
  <2>1. q = old /\ p \notin Counted(s, C) /\ p \notin Leaving(s, C)
    BY <1>1 DEF ChangedRow, Counted, Leaving, Paid2
  <2>2. old.total_votes = old.total_votes + 0
    BY <1>0 DEF RowOK
  <2> HIDE DEF q, old
  <2>3. /\ RowOK(q, now) /\ q.row = old.row
        /\ q.total_votes = old.total_votes + (IF p \in C THEN delta[p] ELSE 0)
        /\ IsCounted(q) <=> IsCounted(old) /\ p \notin Leaving(s, C)
        /\ p \in Counted(s, C) <=> p \in C /\ IsCounted(q)
        /\ p \in Leaving(s, C) => IsCounted(old)
        /\ IsCounted(q) => ShareAt(q, now) = ShareAt(old, now)
    BY <1>0, <1>1, <2>1, <2>2
  <2> QED
    BY <2>3 DEF q, old
<1>2. CASE p \in C /\ ~old.row2
  <2> DEFINE votes == Greatest(0, old.total_votes + delta[p])
  <2>1. q = [old EXCEPT !.total_votes = votes] /\ p \notin Counted(s, C) /\ p \notin Leaving(s, C)
    BY <1>0, <1>2 DEF ChangedRow, Counted, Leaving, Paid2, ProducerRows
  <2>2. votes = old.total_votes + delta[p] /\ votes \in Nat
    BY <1>0, <1>2 DEF Greatest, RowOK
  <2> HIDE DEF q, old, votes
  <2>3. /\ q.row = old.row /\ q.row2 = old.row2 /\ q.total_votes = votes
        /\ q.last_claim_time = old.last_claim_time /\ q.votepay_share = old.votepay_share
        /\ q.last_votepay_share_update = old.last_votepay_share_update
    BY <1>0, <2>1 DEF ProducerRows
  <2>4. ~IsCounted(q) /\ ~IsCounted(old)
    BY <1>2, <2>3 DEF IsCounted
  <2>5. RowOK(q, now)
    BY <1>0, <1>2, <2>2, <2>3, <2>4 DEF RowOK
  <2> QED
    BY <1>2, <2>1, <2>2, <2>3, <2>4, <2>5 DEF q, old
<1>3. CASE p \in C /\ old.row2
  <2> DEFINE reset == p \in Leaving(s, C)
             up == ShareUpdated(old, reset)
             votes == Greatest(0, old.total_votes + delta[p])
  <2>0. reset \in BOOLEAN
    OBVIOUS
  <2>1. /\ p \in Counted(s, C) <=> ~Crossed(old)
        /\ reset <=> Crossed(old) /\ ~UpdatedAfter(old)
    BY <1>3 DEF Counted, Leaving, Paid2
  <2> HIDE DEF reset, old
  <2>2. /\ up \in ProducerRows
        /\ up.row = old.row /\ up.row2 = old.row2
        /\ up.total_votes = old.total_votes /\ up.last_claim_time = old.last_claim_time
        /\ up.votepay_share = (IF reset THEN 0 ELSE NewShare(old, ShareRate(old)))
        /\ up.last_votepay_share_update = now
    BY <1>0, <2>0, ShareUpdatedType
  <2>3. q = [up EXCEPT !.total_votes = votes]
    <3>1. p \in Paid2(s, C)
      BY <1>3 DEF Paid2, old
    <3>2. q = [up EXCEPT !.total_votes = Greatest(0, up.total_votes + delta[p])]
      <4>1. ChangedRow(s, C, delta, p)
              = [ShareUpdated(s.prods[p], p \in Leaving(s, C))
                   EXCEPT !.total_votes = Greatest(0, @ + delta[p])]
        BY <1>3, <3>1 DEF ChangedRow
      <4>2. ShareUpdated(s.prods[p], p \in Leaving(s, C)) = up
        BY DEF old, reset
      <4> HIDE DEF up
      <4> QED
        BY <2>2, <4>1, <4>2 DEF ProducerRows
    <3> HIDE DEF up, q
    <3> QED
      BY <2>2, <3>2
  <2>4. votes = old.total_votes + delta[p] /\ votes \in Nat
    <3>1. old.total_votes + delta[p] \in Nat
      BY <1>3 DEF old
    <3> QED
      BY <3>1 DEF Greatest
  <2> HIDE DEF q, up, votes
  <2>5. /\ q.row = old.row /\ q.row2 = old.row2 /\ q.total_votes = votes
        /\ q.last_claim_time = old.last_claim_time /\ q.votepay_share = up.votepay_share
        /\ q.last_votepay_share_update = now
    BY <2>2, <2>3 DEF ProducerRows
  <2>6. /\ old.last_claim_time \in Nat /\ old.total_votes \in Nat /\ old.votepay_share \in Nat
        /\ old.last_votepay_share_update \in Int /\ old.last_votepay_share_update <= now
        /\ old.row /\ old.last_claim_time # Never
    BY <1>0, <1>3 DEF RowOK
  <2>7. UpdatedAfter(q) <=> Crossed(old)
    BY <2>5 DEF UpdatedAfter, Crossed
  <2>8. UpdatedAfter(old) => Crossed(old)
    BY <1>0, <2>6 DEF UpdatedAfter, Crossed
  <2>9. IsCounted(old) <=> ~UpdatedAfter(old)
    BY <1>3 DEF IsCounted
  <2>10. IsCounted(q) <=> ~Crossed(old)
    BY <1>3, <2>5, <2>7 DEF IsCounted
  <2>11. NewShare(old, old.total_votes) = ShareAt(old, now) /\ ShareAt(old, now) \in Nat
    BY <1>0, ShareAtType DEF NewShare, ShareAt
  <2>12. IsCounted(q) => q.votepay_share = ShareAt(old, now)
    BY <2>1, <2>2, <2>5, <2>8, <2>10, <2>11 DEF ShareRate
  <2>13. ~IsCounted(q) => q.votepay_share = 0
    <3>1. CASE ~IsCounted(q) /\ reset
      BY <2>2, <2>5, <3>1
    <3>2. CASE ~IsCounted(q) /\ ~reset
      <4>1. UpdatedAfter(old) /\ ~IsCounted(old)
        BY <2>1, <2>9, <2>10, <3>2
      <4>2. old.votepay_share = 0
        BY <1>0, <4>1 DEF RowOK
      <4>3. NewShare(old, 0) = 0
        <5>1. now - old.last_votepay_share_update \in Int
          BY <2>6
        <5> QED
          BY <4>2, <5>1 DEF NewShare
      <4> QED
        BY <2>2, <2>5, <3>2, <4>1, <4>3 DEF ShareRate
    <3> QED
      BY <3>1, <3>2
  <2>14. RowOK(q, now)
    <3>1. q.votepay_share \in Nat
      BY <2>11, <2>12, <2>13
    <3> QED
      BY <1>3, <2>4, <2>5, <2>6, <2>13, <3>1 DEF RowOK
  <2>15. IsCounted(q) => ShareAt(q, now) = ShareAt(old, now)
    <3>1. votes * (now - now) = 0
      BY <2>4
    <3> QED
      BY <2>5, <2>11, <2>12, <3>1 DEF ShareAt
  <2>16. /\ IsCounted(q) <=> IsCounted(old) /\ p \notin Leaving(s, C)
         /\ p \in Counted(s, C) <=> p \in C /\ IsCounted(q)
         /\ p \in Leaving(s, C) => IsCounted(old)
    BY <1>3, <2>1, <2>8, <2>9, <2>10 DEF reset
  <2>17. q.row = old.row /\ q.total_votes = old.total_votes + (IF p \in C THEN delta[p] ELSE 0)
    BY <1>3, <2>4, <2>5
  <2> QED
    BY <2>14, <2>15, <2>16, <2>17 DEF q, old
<1> QED
  BY <1>1, <1>2, <1>3

\* A change of votes keeps the shares right: the producers that leave the totals
\* take their share and their votes out of them, and the votes of those that
\* stay change the rate by as much as their own.
LEMMA SharesKept ==
  ASSUME now \in Int, NEW s \in TableSet, NEW C \in SUBSET Producers, NEW delta \in [C -> Int],
         \A p \in C : s.prods[p].total_votes + delta[p] \in Nat
  PROVE  Keeps(s, VotesChanged(s, delta))
<1> DEFINE t == VotesChanged(s, delta)
           G == CountedRows(s)
           H == CountedRows(t)
           K == Counted(s, C)
           L == Leaving(s, C)
           f == VotesOf(s)
           g == VotesOf(t)
           h == SharesOf(s, now)
           k == SharesOf(t, now)
<1>1. /\ t \in TableSet
      /\ t.prods = [p \in Producers |-> ChangedRow(s, C, delta, p)]
      /\ t.totals.activated = s.totals.activated
      /\ t.totals.thresh_time = s.totals.thresh_time
      /\ t.totals.votepay_share =
           Greatest(0, s.totals.votepay_share
                       + s.totals.change_rate * (now - s.totals.last_vpay_state_update)
                       + (- LeavingShare(s, C)))
      /\ t.totals.change_rate =
           Greatest(0, s.totals.change_rate + (SumOver(delta, K) - LeavingRate(s, C)))
      /\ t.totals.last_vpay_state_update = now
  BY VotesChangedTables
<1> HIDE DEF t
<1>2. ASSUME NEW p \in Producers PROVE t.prods[p].row = s.prods[p].row
  <2>1. t.prods[p] = ChangedRow(s, C, delta, p) /\ s.prods[p] \in ProducerRows
    BY <1>1, TableFields
  <2>2. CASE p \notin C
    BY <2>1, <2>2 DEF ChangedRow
  <2>3. CASE p \in C
    <3> DEFINE row == IF p \in Paid2(s, C) THEN ShareUpdated(s.prods[p], p \in Leaving(s, C))
                      ELSE s.prods[p]
               votes == Greatest(0, row.total_votes + delta[p])
    <3>1. row \in ProducerRows /\ row.row = s.prods[p].row
      <4>1. (p \in Leaving(s, C)) \in BOOLEAN
        OBVIOUS
      <4> QED
        BY <2>1, <4>1, ShareUpdatedType
    <3>2. t.prods[p] = [row EXCEPT !.total_votes = votes]
      BY <2>1, <2>3, <3>1 DEF ChangedRow, ProducerRows
    <3> HIDE DEF row, votes
    <3> QED
      BY <3>1, <3>2 DEF ProducerRows
  <2> QED
    BY <2>2, <2>3
<1>15. StaysActive(s, t)
  BY <1>1, SameActivation
<1> SUFFICES ASSUME SharesMatch(s, now) PROVE SharesMatch(t, now)
  BY <1>2, <1>15 DEF Keeps, t
<1>3. \A p \in Producers : RowOK(s.prods[p], now) /\ s.prods[p].total_votes \in Nat
  BY DEF SharesMatch, RowOK
<1>4. ASSUME NEW p \in Producers
      PROVE  /\ RowOK(t.prods[p], now)
             /\ t.prods[p].total_votes = s.prods[p].total_votes + (IF p \in C THEN delta[p] ELSE 0)
             /\ IsCounted(t.prods[p]) <=> IsCounted(s.prods[p]) /\ p \notin L
             /\ p \in K <=> p \in C /\ IsCounted(t.prods[p])
             /\ p \in L => IsCounted(s.prods[p])
             /\ IsCounted(t.prods[p]) => ShareAt(t.prods[p], now) = ShareAt(s.prods[p], now)
  <2>1. t.prods[p] = ChangedRow(s, C, delta, p)
    BY <1>1
  <2>2. RowOK(s.prods[p], now)
    BY <1>3
  <2> HIDE DEF L, K
  <2> QED
    BY <2>1, <2>2, RowChanged DEF L, K
<1>5. /\ K \subseteq C /\ L \subseteq C /\ G \in SUBSET Producers /\ H \in SUBSET Producers
      /\ IsFiniteSet(G) /\ IsFiniteSet(H) /\ IsFiniteSet(K) /\ IsFiniteSet(L)
  <2>1. K \subseteq C /\ L \subseteq C
    BY DEF Counted, Leaving, Paid2
  <2>2. G \in SUBSET Producers /\ H \in SUBSET Producers
    BY DEF CountedRows
  <2> HIDE DEF G, H, K, L
  <2> QED
    BY <2>1, <2>2, FinitePeople
<1>6. L \subseteq G /\ H = G \ L /\ K \subseteq H
  <2>1. /\ \A p \in Producers : p \in G <=> IsCounted(s.prods[p])
        /\ \A p \in Producers : p \in H <=> IsCounted(t.prods[p])
    BY DEF CountedRows
  <2> HIDE DEF G, H, K, L
  <2> QED
    BY <1>4, <1>5, <2>1
<1>7. /\ \A p \in Producers : f[p] \in Nat /\ g[p] \in Nat /\ h[p] \in Nat /\ k[p] \in Nat
      /\ \A p \in K : delta[p] \in Int /\ g[p] = f[p] + delta[p]
      /\ \A p \in H \ K : g[p] = f[p]
      /\ \A p \in H : k[p] = h[p]
  <2>1. \A p \in Producers : /\ f[p] = s.prods[p].total_votes /\ g[p] = t.prods[p].total_votes
                             /\ h[p] = ShareAt(s.prods[p], now) /\ k[p] = ShareAt(t.prods[p], now)
    BY DEF VotesOf, SharesOf
  <2>2. \A p \in Producers : /\ ShareAt(s.prods[p], now) \in Nat /\ ShareAt(t.prods[p], now) \in Nat
                             /\ t.prods[p].total_votes \in Nat
    BY <1>3, <1>4, ShareAtType DEF RowOK
  <2>3. \A p \in H : IsCounted(t.prods[p])
    BY DEF CountedRows
  <2> HIDE DEF f, g, h, k, H, K, L, G
  <2>4. /\ \A p \in Producers : f[p] \in Nat /\ g[p] \in Nat /\ h[p] \in Nat /\ k[p] \in Nat
    BY <1>3, <2>1, <2>2
  <2>5. \A p \in K : delta[p] \in Int /\ g[p] = f[p] + delta[p]
    BY <1>4, <1>5, <2>1
  <2>6. ASSUME NEW p \in H \ K PROVE g[p] = f[p]
    <3>1. p \in Producers /\ p \notin C
      BY <1>4, <1>5, <2>3
    <3>2. t.prods[p].total_votes = s.prods[p].total_votes + 0
      BY <1>4, <3>1
    <3> QED
      BY <2>1, <2>4, <3>1, <3>2
  <2>7. \A p \in H : k[p] = h[p]
    BY <1>4, <1>5, <2>1, <2>3
  <2> QED
    BY <2>4, <2>5, <2>6, <2>7
<1>8. LeavingShare(s, C) = SumOver(h, L) /\ LeavingRate(s, C) = SumOver(f, L)
  <2> DEFINE sh == [p \in L |-> NewShare(s.prods[p], s.prods[p].total_votes)]
             ra == [p \in L |-> s.prods[p].total_votes]
  <2>1. LeavingShare(s, C) = SumOver(sh, L) /\ LeavingRate(s, C) = SumOver(ra, L)
    BY DEF LeavingShare, LeavingRate
  <2>2. \A p \in L : p \in Producers /\ sh[p] = h[p] /\ ra[p] = f[p]
    BY <1>5 DEF SharesOf, VotesOf, NewShare, ShareAt
  <2> HIDE DEF sh, ra, h, f, L
  <2>3. \A p \in L : h[p] \in Int /\ f[p] \in Int
    BY <1>7, <2>2
  <2> QED
    BY <1>5, <2>1, <2>2, <2>3, SumOverSame
<1>9. /\ s.totals.change_rate = SumOver(f, G)
      /\ s.totals.votepay_share
           + s.totals.change_rate * (now - s.totals.last_vpay_state_update) = SumOver(h, G)
  BY DEF SharesMatch
<1> HIDE DEF f, g, h, k, G, H, K, L
<1>10. /\ SumOver(f, G) = SumOver(f, L) + SumOver(f, H)
       /\ SumOver(h, G) = SumOver(h, L) + SumOver(h, H)
       /\ SumOver(f, L) \in Int /\ SumOver(f, H) \in Int
       /\ SumOver(h, L) \in Int /\ SumOver(h, H) \in Nat
  <2>1. \A p \in G : f[p] \in Int /\ h[p] \in Int
    BY <1>5, <1>7
  <2>2. /\ \A p \in L : f[p] \in Int /\ h[p] \in Int
        /\ \A p \in H : f[p] \in Int /\ h[p] \in Nat
    BY <1>5, <1>6, <1>7
  <2>3. /\ SumOver(f, G) = SumOver(f, L) + SumOver(f, G \ L)
        /\ SumOver(h, G) = SumOver(h, L) + SumOver(h, G \ L)
    BY <1>5, <1>6, <2>1, SumOverSplit
  <2>4. /\ SumOver(f, L) \in Int /\ SumOver(f, H) \in Int /\ SumOver(h, L) \in Int
    BY <1>5, <2>2, SumOverRule
  <2>5. SumOver(h, H) \in Nat
    BY <1>5, <2>2, SumOverNat
  <2> QED
    BY <1>6, <2>3, <2>4, <2>5
<1>11. /\ SumOver(g, H) = SumOver(f, H) + SumOver(delta, K) /\ SumOver(g, H) \in Nat
       /\ SumOver(delta, K) \in Int
       /\ SumOver(k, H) = SumOver(h, H)
  <2>1. /\ \A p \in H : f[p] \in Int /\ g[p] \in Nat /\ h[p] \in Int /\ k[p] = h[p]
        /\ K \in SUBSET H
    BY <1>5, <1>6, <1>7
  <2>2. SumOver(g, H) = SumOver(f, H) + SumOver(delta, K)
    BY <1>5, <1>7, <2>1, SumOverChange
  <2>3. SumOver(g, H) \in Nat
    BY <1>5, <2>1, SumOverNat
  <2>4. SumOver(delta, K) \in Int
    BY <1>5, <1>7, SumOverRule
  <2>5. SumOver(k, H) = SumOver(h, H)
    BY <1>5, <2>1, SumOverSame
  <2> QED
    BY <2>2, <2>3, <2>4, <2>5
<1>12. t.totals.change_rate = SumOver(g, H)
  <2>1. s.totals.change_rate + (SumOver(delta, K) - LeavingRate(s, C)) = SumOver(g, H)
    BY <1>8, <1>9, <1>10, <1>11
  <2> QED
    BY <1>1, <1>11, <2>1 DEF Greatest
<1>13. t.totals.votepay_share = SumOver(k, H)
  <2>1. s.totals.votepay_share
           + s.totals.change_rate * (now - s.totals.last_vpay_state_update)
           + (- LeavingShare(s, C)) = SumOver(h, H)
    BY <1>8, <1>9, <1>10
  <2> QED
    BY <1>1, <1>10, <1>11, <2>1 DEF Greatest
<1>14. t.totals.votepay_share + t.totals.change_rate * (now - t.totals.last_vpay_state_update)
         = SumOver(k, H)
  <2>1. SumOver(g, H) * (now - now) = 0
    BY <1>11
  <2> QED
    BY <1>1, <1>10, <1>11, <1>12, <1>13, <2>1
<1> QED
  BY <1>4, <1>12, <1>14 DEF SharesMatch, g, k, H

\* The weights without that of v, and the part of v.
Without(s, v, S) == SumOver(Counts(s, v, 0), S \ {v})

\* A sum of counts is the sum without v and what v counts.
LEMMA CountsApart ==
  ASSUME NEW s \in TableSet, NEW v \in Voters, NEW a \in Int, NEW S \in SUBSET Voters
  PROVE  /\ Without(s, v, S) \in Int
         /\ SumOver(Counts(s, v, a), S) = Without(s, v, S) + (IF v \in S THEN a ELSE 0)
<1> DEFINE f == Counts(s, v, a)
           g == Counts(s, v, 0)
<1>1. /\ \A w \in Voters : f[w] \in Int /\ g[w] \in Int
      /\ f[v] = a
      /\ \A w \in Voters \ {v} : g[w] = f[w]
  BY TableFields DEF Counts
<1>2. IsFiniteSet(S) /\ IsFiniteSet(S \ {v})
  BY FinitePeople
<1> HIDE DEF f, g
<1>3. SumOver(g, S \ {v}) = SumOver(f, S \ {v}) /\ SumOver(g, S \ {v}) \in Int
  <2>1. \A w \in S \ {v} : f[w] \in Int /\ g[w] = f[w] /\ g[w] \in Int
    BY <1>1
  <2> QED
    BY <1>2, <2>1, SumOverSame, SumOverRule
<1>4. CASE v \in S
  <2>1. SumOver(f, S) = f[v] + SumOver(f, S \ {v})
    BY <1>1, <1>2, <1>4, SumOverRule
  <2> QED
    BY <1>1, <1>3, <1>4, <2>1 DEF Without, f, g
<1>5. CASE v \notin S
  <2>1. S \ {v} = S
    BY <1>5
  <2> QED
    BY <1>3, <1>5, <2>1 DEF Without, f, g
<1> QED
  BY <1>4, <1>5

\* Another name in place of one voter's changes only what that voter counts for.
LEMMA WithoutSame ==
  ASSUME NEW s \in TableSet, NEW t \in TableSet, NEW v, NEW S \in SUBSET Voters,
         NEW R \in SUBSET Voters, S \ {v} = R \ {v},
         \A w \in Voters : t.weight[w].last = s.weight[w].last
  PROVE  Without(t, v, R) = Without(s, v, S)
<1>1. Counts(t, v, 0) = Counts(s, v, 0)
  BY DEF Counts
<1> QED
  BY <1>1 DEF Without

\* v names another proxy and counts with another weight, and what the old and
\* the new proxy vote for others is changed by that.
LEMMA ProxyRenamed ==
  ASSUME NEW v \in Voters, NEW s, NEW t \in TableSet,
         NEW to \in Proxies, NEW a \in Int, NEW for, NEW b, Matched(s, v, to, a, for, b),
         NEW to2 \in Proxies, NEW a2 \in Int, \A w \in Voters \ {v} : to2[w] = to[w],
         t.prods = s.prods, t.totals = s.totals,
         \A w \in Voters : t.weight[w].last = s.weight[w].last,
         \A x \in Voters :
            /\ t.weight[x].proxied = s.weight[x].proxied - (IF to[v] = x THEN a ELSE 0)
                                                         + (IF to2[v] = x THEN a2 ELSE 0)
            /\ Even(t.weight[x].proxied)
  PROVE  Matched(t, v, to2, a2, for, b)
<1>0. s \in TableSet
  BY DEF Matched
<1>1. WeightsOK(t)
  BY DEF Matched, WeightsOK
<1>2. VotesMatch(t, v, for, b)
  <2>1. Counts(t, v, b) = Counts(s, v, b)
    BY DEF Counts
  <2> QED
    BY <2>1 DEF Matched, VotesMatch
<1>3. TotalMatch(t)
  BY DEF Matched, TotalMatch, VotesOf
<1>4. ASSUME NEW x \in Voters
      PROVE  t.weight[x].proxied = SumOver(Counts(t, v, a2), {w \in Voters : to2[w] = x})
  <2> DEFINE S == {w \in Voters : to[w] = x}
             R == {w \in Voters : to2[w] = x}
  <2>1. S \in SUBSET Voters /\ R \in SUBSET Voters /\ S \ {v} = R \ {v}
        /\ (v \in S <=> to[v] = x) /\ (v \in R <=> to2[v] = x)
    OBVIOUS
  <2>2. s.weight[x].proxied = SumOver(Counts(s, v, a), S)
    BY DEF Matched, ProxiedMatch
  <2> HIDE DEF S, R
  <2>3. /\ Without(s, v, S) \in Int /\ Without(t, v, R) = Without(s, v, S)
        /\ SumOver(Counts(s, v, a), S) = Without(s, v, S) + (IF v \in S THEN a ELSE 0)
        /\ SumOver(Counts(t, v, a2), R) = Without(t, v, R) + (IF v \in R THEN a2 ELSE 0)
    BY <1>0, <2>1, CountsApart, WithoutSame
  <2>4. t.weight[x].proxied = SumOver(Counts(t, v, a2), R)
    BY <2>1, <2>2, <2>3
  <2> QED
    BY <2>4 DEF R
<1> QED
  BY <1>1, <1>2, <1>3, <1>4 DEF Matched, ProxiedMatch

\* At the start and the end of a vote the voter counts with its last weight.
LEMMA MatchedOfOne ==
  ASSUME NEW s, NEW v \in Voters, NEW to, NEW for
  PROVE  Matched(s, Nobody, to, 0, for, 0)
           <=> Matched(s, v, to, s.weight[v].last, for, s.weight[v].last)
<1>1. Counts(s, Nobody, 0) = Counts(s, v, s.weight[v].last)
  BY NobodyAssumption DEF Counts
<1> QED
  BY <1>1 DEF Matched, ProxiedMatch, VotesMatch

\* The votes of producers change by what is passed to VotesChanged, and their
\* sum changes by as much.
LEMMA VotesShifted ==
  ASSUME now \in Int, NEW s \in TableSet, NEW C \in SUBSET Producers, NEW delta \in [C -> Int],
         TotalMatch(s), NEW votes,
         \A p \in Producers :
            votes[p] \in Nat /\ votes[p] = s.prods[p].total_votes + (IF p \in C THEN delta[p] ELSE 0)
  PROVE  LET t == VotesChanged(s, delta)
         IN /\ t \in TableSet /\ t.weight = s.weight /\ t.ok = s.ok
            /\ t.totals.activated = s.totals.activated
            /\ TotalMatch(t) /\ Keeps(s, t)
            /\ \A p \in Producers : t.prods[p].total_votes = votes[p]
<1> DEFINE t == VotesChanged(s, delta)
<1>1. /\ t \in TableSet /\ t.ok = s.ok /\ t.weight = s.weight
      /\ t.totals.activated = s.totals.activated
      /\ t.prods = [p \in Producers |-> ChangedRow(s, C, delta, p)]
      /\ t.totals.vote_weight = s.totals.vote_weight + SumOver(delta, C)
  BY VotesChangedTables
<1>4. Keeps(s, t)
  <2>1. \A p \in C : s.prods[p].total_votes + delta[p] \in Nat
    OBVIOUS
  <2> QED
    BY <2>1, SharesKept
<1> HIDE DEF t
<1>2. ASSUME NEW p \in Producers PROVE t.prods[p].total_votes = votes[p]
  <2>1. t.prods[p] = ChangedRow(s, C, delta, p)
    BY <1>1
  <2>2. s.prods[p] \in ProducerRows /\ s.prods[p].total_votes \in Int
    BY TableFields
  <2>3. CASE p \in C
    <3> DEFINE row == IF p \in Paid2(s, C) THEN ShareUpdated(s.prods[p], p \in Leaving(s, C))
                      ELSE s.prods[p]
    <3>1. row \in ProducerRows /\ row.total_votes = s.prods[p].total_votes
      <4>1. (p \in Leaving(s, C)) \in BOOLEAN
        OBVIOUS
      <4> QED
        BY <2>2, <4>1, ShareUpdatedType
    <3>2. t.prods[p] = [row EXCEPT !.total_votes = Greatest(0, row.total_votes + delta[p])]
      BY <2>1, <2>3, <3>1 DEF ChangedRow, ProducerRows
    <3>3. Greatest(0, row.total_votes + delta[p]) = votes[p]
      BY <2>2, <2>3, <3>1 DEF Greatest
    <3> HIDE DEF row
    <3> QED
      BY <3>1, <3>2, <3>3 DEF ProducerRows
  <2>4. CASE p \notin C
    BY <2>1, <2>2, <2>4 DEF ChangedRow
  <2> QED
    BY <2>3, <2>4
<1>3. TotalMatch(t)
  <2> DEFINE f == VotesOf(s)
             g == VotesOf(t)
  <2>1. /\ \A p \in Producers : f[p] \in Int
        /\ \A p \in C : delta[p] \in Int /\ g[p] = f[p] + delta[p]
        /\ \A p \in Producers \ C : g[p] = f[p]
    BY <1>2, TableFields DEF VotesOf
  <2>2. IsFiniteSet(Producers)
    BY FinitePeople
  <2> HIDE DEF f, g
  <2>3. SumOver(g, Producers) = SumOver(f, Producers) + SumOver(delta, C)
    BY <2>1, <2>2, SumOverChange
  <2> QED
    BY <1>1, <2>3 DEF TotalMatch, f, g
<1> QED
  BY <1>1, <1>2, <1>3, <1>4 DEF t

\* Matched is about the weights, the producers and the totals only.
LEMMA MatchedFields ==
  ASSUME NEW s, NEW t \in TableSet, t.weight = s.weight, t.prods = s.prods, t.totals = s.totals,
         NEW v, NEW to, NEW a, NEW for, NEW b, Matched(s, v, to, a, for, b)
  PROVE  Matched(t, v, to, a, for, b)
<1>1. WeightsOK(t)
  BY DEF Matched, WeightsOK
<1>2. \A c : Counts(t, v, c) = Counts(s, v, c)
  BY DEF Counts
<1>3. ProxiedMatch(t, v, to, a) /\ VotesMatch(t, v, for, b)
  BY <1>2 DEF Matched, ProxiedMatch, VotesMatch
<1>4. TotalMatch(t)
  BY DEF Matched, TotalMatch, VotesOf
<1> QED
  BY <1>1, <1>3, <1>4 DEF Matched

\* The last weight of u alone changes: so does every sum that u is in.
LEMMA MovedSum ==
  ASSUME NEW s \in TableSet, NEW t \in TableSet, NEW u \in Voters, NEW v, u # v, NEW c \in Int,
         \A w \in Voters \ {u} : t.weight[w].last = s.weight[w].last,
         NEW S \in SUBSET Voters
  PROVE  SumOver(Counts(t, v, c), S)
           = SumOver(Counts(s, v, c), S)
             + (IF u \in S THEN t.weight[u].last - s.weight[u].last ELSE 0)
<1> DEFINE f == Counts(s, v, c)
           g == Counts(t, v, c)
<1>1. /\ \A w \in S : f[w] \in Int /\ g[w] \in Int
      /\ f[u] = s.weight[u].last /\ g[u] = t.weight[u].last
      /\ \A w \in S : w # u => g[w] = f[w]
  BY TableFields DEF Counts
<1>2. IsFiniteSet(S)
  BY FinitePeople
<1> HIDE DEF f, g
<1>3. CASE u \in S
  <2>1. SumOver(g, S) = SumOver(f, S) + (g[u] - f[u])
    BY <1>1, <1>2, <1>3, SumOverUpdate
  <2> QED
    BY <1>1, <1>3, <2>1 DEF f, g
<1>4. CASE u \notin S
  <2>1. SumOver(g, S) = SumOver(f, S) /\ SumOver(f, S) \in Int
    BY <1>1, <1>2, <1>4, SumOverSame, SumOverRule
  <2> QED
    BY <1>4, <2>1 DEF f, g
<1> QED
  BY <1>3, <1>4

\* A weight moves: what it changes by goes to the proxy and to the producers
\* that the voter u counts for.
LEMMA WeightMoved ==
  ASSUME NEW s, NEW t \in TableSet, NEW v, NEW to \in Proxies, NEW a \in Int,
         NEW for \in Approvals, NEW b \in Int, Matched(s, v, to, a, for, b),
         NEW u \in Voters, u # v, WeightsOK(t), TotalMatch(t),
         \A w \in Voters \ {u} : t.weight[w].last = s.weight[w].last,
         \A x \in Voters : t.weight[x].proxied =
            s.weight[x].proxied
            + (IF to[u] = x THEN t.weight[u].last - s.weight[u].last ELSE 0),
         \A p \in Producers : t.prods[p].total_votes =
            s.prods[p].total_votes
            + (IF p \in for[u] THEN t.weight[u].last - s.weight[u].last ELSE 0)
  PROVE  Matched(t, v, to, a, for, b)
<1>0. s \in TableSet
  BY DEF Matched
<1>1. ASSUME NEW x \in Voters
      PROVE  t.weight[x].proxied = SumOver(Counts(t, v, a), {w \in Voters : to[w] = x})
  <2> DEFINE S == {w \in Voters : to[w] = x}
  <2>1. S \in SUBSET Voters /\ (u \in S <=> to[u] = x)
    OBVIOUS
  <2>2. s.weight[x].proxied = SumOver(Counts(s, v, a), S)
    BY DEF Matched, ProxiedMatch
  <2> HIDE DEF S
  <2>3. SumOver(Counts(t, v, a), S) = SumOver(Counts(s, v, a), S)
             + (IF u \in S THEN t.weight[u].last - s.weight[u].last ELSE 0)
    BY <1>0, <2>1, MovedSum
  <2>4. t.weight[x].proxied = SumOver(Counts(t, v, a), S)
    BY <2>1, <2>2, <2>3
  <2> QED
    BY <2>4 DEF S
<1>2. ASSUME NEW p \in Producers
      PROVE  t.prods[p].total_votes = SumOver(Counts(t, v, b), {w \in Voters : p \in for[w]})
  <2> DEFINE S == {w \in Voters : p \in for[w]}
  <2>1. S \in SUBSET Voters /\ (u \in S <=> p \in for[u])
    OBVIOUS
  <2>2. s.prods[p].total_votes = SumOver(Counts(s, v, b), S)
    BY DEF Matched, VotesMatch
  <2> HIDE DEF S
  <2>3. SumOver(Counts(t, v, b), S) = SumOver(Counts(s, v, b), S)
             + (IF u \in S THEN t.weight[u].last - s.weight[u].last ELSE 0)
    BY <1>0, <2>1, MovedSum
  <2>4. t.prods[p].total_votes = SumOver(Counts(t, v, b), S)
    BY <2>1, <2>2, <2>3
  <2> QED
    BY <2>4 DEF S
<1> QED
  BY <1>1, <1>2 DEF Matched, ProxiedMatch, VotesMatch

\* The rows of voters that a step of the program works on.
VotersFor(vs) ==
    /\ vs \in [Voters -> VoterRows]
    /\ \A u \in Voters : /\ vs[u].staked \in Nat
                         /\ vs[u].proxy # Nobody => vs[u].producers = {}

\* The weight with which a voter votes is even and not negative.
LEMMA NewWeightType ==
  ASSUME now \in Times, NEW vs, VotersFor(vs), NEW u \in Voters,
         NEW s, NEW v, NEW to, NEW a \in Nat, NEW for, NEW b \in Nat, Matched(s, v, to, a, for, b)
  PROVE  NewWeight(vs, s, u) \in Nat /\ Even(NewWeight(vs, s, u))
<1>1. vs[u].staked \in Nat /\ vs[u].is_proxy \in BOOLEAN
  BY DEF VotersFor, VoterRows
<1>2. stake2vote(vs[u].staked) \in Nat /\ Even(stake2vote(vs[u].staked))
  BY <1>1, VoteIsEven
<1>3. s.weight[u].proxied \in Nat /\ Even(s.weight[u].proxied)
  BY MatchedNat DEF Matched, WeightsOK
<1> HIDE DEF Even
<1>4. Even(0) /\ Even(stake2vote(vs[u].staked) + s.weight[u].proxied)
  BY <1>2, <1>3, EvenNumbers
<1>5. CASE vs[u].is_proxy
  BY <1>2, <1>3, <1>4, <1>5 DEF NewWeight
<1>6. CASE ~vs[u].is_proxy
  BY <1>2, <1>6 DEF NewWeight
<1> QED
  BY <1>5, <1>6

\* The tables with another last weight of u, or with another weight that x
\* votes for others.
WithLast(s, u, new) == [s EXCEPT !.weight[u].last = new]
WithMore(s, x, change) == [s EXCEPT !.weight[x].proxied = @ + change]

\* Setting a last weight changes nothing else.
LEMMA LastSet ==
  ASSUME NEW s \in TableSet, NEW u \in Voters, NEW new \in Int
  PROVE  LET t == WithLast(s, u, new)
         IN /\ t \in TableSet /\ t.ok = s.ok /\ t.prods = s.prods /\ t.totals = s.totals
            /\ t.weight[u].last = new
            /\ \A w \in Voters \ {u} : t.weight[w].last = s.weight[w].last
            /\ \A w \in Voters : t.weight[w].proxied = s.weight[w].proxied
<1> DEFINE row == [s.weight[u] EXCEPT !.last = new]
           t == WithLast(s, u, new)
<1>1. s.weight \in [Voters -> WeightRows]
  BY TableFields
<1>2. row \in WeightRows /\ row.last = new /\ row.proxied = s.weight[u].proxied
  BY <1>1 DEF WeightRows
<1>3. t = [s EXCEPT !.weight = [s.weight EXCEPT ![u] = row]]
  BY DEF WithLast, TableSet
<1> HIDE DEF row, t
<1>4. /\ t \in TableSet /\ t.ok = s.ok /\ t.prods = s.prods /\ t.totals = s.totals
      /\ t.weight = [s.weight EXCEPT ![u] = row]
  BY <1>1, <1>2, <1>3 DEF TableSet
<1>5. t.weight[u] = row /\ \A w \in Voters \ {u} : t.weight[w] = s.weight[w]
  BY <1>1, <1>4
<1>6. \A w \in Voters : t.weight[w].proxied = s.weight[w].proxied
  BY <1>2, <1>5
<1> QED
  BY <1>2, <1>4, <1>5, <1>6 DEF t

\* Neither does adding to the weight that a proxy votes for others.
LEMMA ProxiedSet ==
  ASSUME NEW s \in TableSet, NEW x \in Voters, NEW change \in Int
  PROVE  LET t == WithMore(s, x, change)
         IN /\ t \in TableSet /\ t.ok = s.ok /\ t.prods = s.prods /\ t.totals = s.totals
            /\ t.weight[x].proxied = s.weight[x].proxied + change
            /\ \A w \in Voters \ {x} : t.weight[w].proxied = s.weight[w].proxied
            /\ \A w \in Voters : t.weight[w].last = s.weight[w].last
<1> DEFINE new == s.weight[x].proxied + change
           row == [s.weight[x] EXCEPT !.proxied = new]
           t == WithMore(s, x, change)
<1>1. s.weight \in [Voters -> WeightRows] /\ new \in Int
  BY TableFields
<1>2. row \in WeightRows /\ row.proxied = new /\ row.last = s.weight[x].last
  <2> HIDE DEF new
  <2> QED
    BY <1>1 DEF WeightRows
<1>3. t = [s EXCEPT !.weight = [s.weight EXCEPT ![x] = row]]
  BY DEF WithMore, TableSet
<1> HIDE DEF row, t, new
<1>4. /\ t \in TableSet /\ t.ok = s.ok /\ t.prods = s.prods /\ t.totals = s.totals
      /\ t.weight = [s.weight EXCEPT ![x] = row]
  BY <1>1, <1>2, <1>3 DEF TableSet
<1>5. t.weight[x] = row /\ \A w \in Voters \ {x} : t.weight[w] = s.weight[w]
  BY <1>1, <1>4
<1>6. \A w \in Voters : t.weight[w].last = s.weight[w].last
  BY <1>2, <1>5
<1> QED
  BY <1>2, <1>4, <1>5, <1>6 DEF t, new

\* A check changes ok only.
LEMMA CheckFields ==
  ASSUME NEW s \in TableSet, NEW condition \in BOOLEAN
  PROVE  /\ Check(s, condition) \in TableSet
         /\ Check(s, condition).weight = s.weight /\ Check(s, condition).prods = s.prods
         /\ Check(s, condition).totals = s.totals
BY DEF Check, TableSet

\* The weight of u that is passed on keeps the totals right.
LEMMA PassedOn ==
  ASSUME now \in Times, NEW vs, VotersFor(vs), NEW s, NEW v, NEW to \in Proxies, NEW a \in Nat,
         NEW for \in Approvals, NEW b \in Nat, Matched(s, v, to, a, for, b),
         NEW u \in Voters, u # v, to[u] = vs[u].proxy, for[u] = vs[u].producers
  PROVE  LET r == WeightPassedOn(vs, s, u)
         IN /\ Matched(r.tables, v, to, a, for, b)
            /\ r.next \in {Nobody, vs[u].proxy}
            /\ Keeps(s, r.tables)
<1> DEFINE new == NewWeight(vs, s, u)
           change == new - s.weight[u].last
           set == WithLast(s, u, new)
           small == change \in -1 .. 1
           cond == vs[u].proxy = Nobody \/ ~vs[u].is_proxy
           left == IF small THEN set
                   ELSE IF vs[u].proxy # Nobody
                        THEN WithMore(set, vs[u].proxy, change)
                        ELSE VotesChanged(set, [p \in vs[u].producers |-> change])
           r == WeightPassedOn(vs, s, u)
<1>1. r.next = (IF small THEN Nobody ELSE vs[u].proxy) /\ r.tables = Check(left, cond)
  BY DEF WeightPassedOn, WithLast, WithMore
<1>0. s \in TableSet /\ WeightsOK(s) /\ TotalMatch(s) /\ now \in Int
  BY DEF Matched, Times
<1>2. vs[u].proxy \in Voters \cup {Nobody} /\ vs[u].producers \in SUBSET Producers
      /\ cond \in BOOLEAN /\ (vs[u].proxy # Nobody => for[u] = {})
  BY DEF VotersFor, VoterRows
<1>3. new \in Nat /\ Even(new)
  BY NewWeightType
<1> HIDE DEF new, cond
<1>4. change \in Int /\ Even(change) /\ (small => change = 0)
      /\ change = new - s.weight[u].last
  <2>1. s.weight[u].last \in Int /\ Even(s.weight[u].last)
    BY <1>0 DEF WeightsOK
  <2> HIDE DEF Even
  <2>2. change \in Int /\ Even(change)
    BY <1>3, <2>1, EvenNumbers
  <2> QED
    BY <2>2, EvenNumbers
<1>5. /\ set \in TableSet /\ set.prods = s.prods /\ set.totals = s.totals
      /\ set.weight[u].last = new
      /\ \A w \in Voters \ {u} : set.weight[w].last = s.weight[w].last
      /\ \A w \in Voters : set.weight[w].proxied = s.weight[w].proxied
  BY <1>0, <1>3, LastSet
<1>6. WeightsOK(set) /\ TotalMatch(set)
  BY <1>0, <1>3, <1>5 DEF WeightsOK, TotalMatch, VotesOf
<1> HIDE DEF set, change, small
<1>7. ASSUME NEW t \in TableSet, t.totals = set.totals, t.prods = set.prods,
             \A w \in Voters : t.weight[w].last = set.weight[w].last,
             \A x \in Voters : /\ t.weight[x].proxied = s.weight[x].proxied
                                    + (IF to[u] = x THEN change ELSE 0)
                               /\ Even(t.weight[x].proxied),
             \A p \in Producers : t.prods[p].total_votes =
                s.prods[p].total_votes + (IF p \in for[u] THEN change ELSE 0)
      PROVE  Matched(t, v, to, a, for, b)
  <2>1. WeightsOK(t)
    BY <1>6, <1>7 DEF WeightsOK
  <2>2. TotalMatch(t)
    BY <1>6, <1>7 DEF TotalMatch, VotesOf
  <2>3. t.weight[u].last - s.weight[u].last = change
    BY <1>4, <1>5, <1>7
  <2>4. \A w \in Voters \ {u} : t.weight[w].last = s.weight[w].last
    BY <1>5, <1>7
  <2> QED
    BY <1>7, <2>1, <2>2, <2>3, <2>4, WeightMoved
<1>8. /\ left \in TableSet /\ Matched(left, v, to, a, for, b)
      /\ Keeps(s, left)
  <2>0. ASSUME NEW t, t.prods = set.prods, t.totals = set.totals PROVE Keeps(s, t)
    BY <1>5, <2>0, KeepsSame
  <2>1. CASE small
    <3>1. left = set /\ change = 0
      BY <1>4, <2>1
    <3>2. \A x \in Voters : /\ set.weight[x].proxied = s.weight[x].proxied
                                    + (IF to[u] = x THEN change ELSE 0)
                            /\ Even(set.weight[x].proxied)
      BY <1>5, <1>6, <3>1, TableFields DEF WeightsOK
    <3>3. \A p \in Producers : set.prods[p].total_votes =
                s.prods[p].total_votes + (IF p \in for[u] THEN change ELSE 0)
      BY <1>0, <1>5, <3>1, TableFields
    <3> QED
      BY <1>5, <1>7, <2>0, <3>1, <3>2, <3>3
  <2>2. CASE ~small /\ vs[u].proxy # Nobody
    <3> DEFINE x == vs[u].proxy
               t == WithMore(set, x, change)
    <3>1. x \in Voters /\ left = t
      BY <1>2, <2>2
    <3>2. /\ t \in TableSet /\ t.prods = set.prods /\ t.totals = set.totals
          /\ t.weight[x].proxied = set.weight[x].proxied + change
          /\ \A w \in Voters \ {x} : t.weight[w].proxied = set.weight[w].proxied
          /\ \A w \in Voters : t.weight[w].last = set.weight[w].last
      <4> HIDE DEF x
      <4>1. set \in TableSet /\ change \in Int /\ x \in Voters
        BY <1>4, <1>5, <3>1
      <4> QED
        BY ONLY <4>1, ProxiedSet
    <3> HIDE DEF t
    <3>3. ASSUME NEW y \in Voters
          PROVE  /\ t.weight[y].proxied = s.weight[y].proxied
                                    + (IF to[u] = y THEN change ELSE 0)
                 /\ Even(t.weight[y].proxied)
      <4>1. set.weight[y].proxied = s.weight[y].proxied /\ Even(set.weight[y].proxied)
            /\ s.weight[y].proxied \in Int
        BY <1>0, <1>5, <1>6, TableFields DEF WeightsOK
      <4> HIDE DEF Even
      <4>2. CASE y = x
        <5>1. t.weight[y].proxied = set.weight[y].proxied + change
          BY <3>2, <4>2
        <5>2. Even(set.weight[y].proxied + change)
          BY <1>4, <4>1, EvenNumbers
        <5> QED
          BY <4>1, <4>2, <5>1, <5>2
      <4>3. CASE y # x
        BY <3>2, <4>1, <4>3
      <4> QED
        BY <4>2, <4>3
    <3>4. \A p \in Producers : t.prods[p].total_votes =
                s.prods[p].total_votes + (IF p \in for[u] THEN change ELSE 0)
      BY <1>0, <1>2, <1>5, <2>2, <3>2, TableFields
    <3>5. Matched(t, v, to, a, for, b)
      BY <1>7, <3>2, <3>3, <3>4
    <3>6. Keeps(s, t)
      BY <2>0, <3>2
    <3> QED
      BY <3>1, <3>2, <3>5, <3>6
  <2>3. CASE ~small /\ vs[u].proxy = Nobody
    <3> DEFINE C == vs[u].producers
               delta == [p \in C |-> change]
               votes == [p \in Producers |-> s.prods[p].total_votes
                                               + (IF p \in C THEN change ELSE 0)]
               t == VotesChanged(set, delta)
    <3>1. left = t
      BY <2>3
    <3>2. ASSUME NEW p \in Producers
          PROVE  /\ votes[p] \in Nat
                 /\ votes[p] = set.prods[p].total_votes + (IF p \in C THEN delta[p] ELSE 0)
      <4> DEFINE S == {w \in Voters : p \in for[w]}
      <4>1. S \in SUBSET Voters /\ (u \in S <=> p \in C)
        OBVIOUS
      <4>2. s.prods[p].total_votes = SumOver(Counts(s, v, b), S)
        BY DEF Matched, VotesMatch
      <4> HIDE DEF S
      <4>3. SumOver(Counts(set, v, b), S) = SumOver(Counts(s, v, b), S)
             + (IF u \in S THEN set.weight[u].last - s.weight[u].last ELSE 0)
        BY <1>0, <1>5, <4>1, MovedSum
      <4>4. SumOver(Counts(set, v, b), S) \in Nat
        <5>1. IsFiniteSet(S) /\ \A w \in S : Counts(set, v, b)[w] \in Nat
          BY <1>5, <1>6, <4>1, CountsNat, FinitePeople
        <5> QED
          BY <5>1, SumOverNat
      <4>5. votes[p] = SumOver(Counts(set, v, b), S)
        BY <1>4, <1>5, <4>1, <4>2, <4>3
      <4> QED
        BY <1>5, <4>4, <4>5
    <3>3. C \in SUBSET Producers /\ delta \in [C -> Int]
      BY <1>2, <1>4
    <3> HIDE DEF C, delta, votes
    <3>4. /\ t \in TableSet /\ t.weight = set.weight /\ TotalMatch(t) /\ Keeps(set, t)
          /\ \A p \in Producers : t.prods[p].total_votes = votes[p]
      BY <1>0, <1>5, <1>6, <3>2, <3>3, VotesShifted
    <3> HIDE DEF t
    <3>5. WeightsOK(t) /\ t.weight[u].last - s.weight[u].last = change
          /\ \A w \in Voters \ {u} : t.weight[w].last = s.weight[w].last
      BY <1>4, <1>5, <1>6, <3>4 DEF WeightsOK
    <3>6. \A x \in Voters : t.weight[x].proxied = s.weight[x].proxied
                                    + (IF to[u] = x THEN t.weight[u].last - s.weight[u].last ELSE 0)
      <4>1. \A x \in Voters : x # to[u]
        BY <2>3, NobodyAssumption
      <4> QED
        BY <1>0, <1>5, <3>4, <4>1, TableFields
    <3>7. \A p \in Producers : t.prods[p].total_votes = s.prods[p].total_votes
                             + (IF p \in for[u] THEN t.weight[u].last - s.weight[u].last ELSE 0)
      BY <3>4, <3>5 DEF votes, C
    <3>8. Matched(t, v, to, a, for, b)
      BY <3>4, <3>5, <3>6, <3>7, WeightMoved
    <3>9. Keeps(s, t)
      BY <2>0, <3>4, KeepsChain
    <3> QED
      BY <3>1, <3>4, <3>8, <3>9
  <2> QED
    BY <2>1, <2>2, <2>3
<1> HIDE DEF left
<1>9. /\ r.tables \in TableSet /\ r.tables.weight = left.weight /\ r.tables.prods = left.prods
      /\ r.tables.totals = left.totals
  BY <1>1, <1>2, <1>8, CheckFields
<1>10. Matched(r.tables, v, to, a, for, b)
  BY <1>8, <1>9, MatchedFields
<1>11. r.next \in {Nobody, vs[u].proxy}
  BY <1>1
<1> HIDE DEF r
<1>12. Keeps(s, r.tables)
  BY <1>8, <1>9, KeepsSame, KeepsChain
<1> QED
  BY <1>10, <1>11, <1>12 DEF r

\* The calls of propagate_weight_change up to the n-th.
IsCalls(q, vs, s, u, n) ==
    q = [i \in 0 .. n |->
           IF i = 0 THEN [next |-> u, tables |-> s]
           ELSE IF q[i - 1].next = Nobody THEN q[i - 1]
           ELSE WeightPassedOn(vs, q[i - 1].tables, q[i - 1].next)]

\* The recursion of propagate_weight_change has a solution for any number of calls.
LEMMA CallsExist ==
  ASSUME NEW vs, NEW s, NEW u, NEW n \in Nat
  PROVE  \E q : IsCalls(q, vs, s, u, n)
<1> DEFINE S == {m \in Nat : \E q : IsCalls(q, vs, s, u, m)}
           Step(r) == IF r.next = Nobody THEN r ELSE WeightPassedOn(vs, r.tables, r.next)
<1>1. 0 \in S
  <2> DEFINE q == [i \in 0 .. 0 |-> [next |-> u, tables |-> s]]
  <2>1. q = [i \in 0 .. 0 |->
               IF i = 0 THEN [next |-> u, tables |-> s]
               ELSE IF q[i - 1].next = Nobody THEN q[i - 1]
               ELSE WeightPassedOn(vs, q[i - 1].tables, q[i - 1].next)]
    OBVIOUS
  <2> HIDE DEF q
  <2>2. \E p : IsCalls(p, vs, s, u, 0)
    BY <2>1 DEF IsCalls
  <2> QED
    BY <2>2
<1>2. ASSUME NEW m \in Nat, m \in S PROVE m + 1 \in S
  <2>1. PICK p : IsCalls(p, vs, s, u, m)
    BY <1>2
  <2> DEFINE q == [i \in 0 .. m + 1 |-> IF i = m + 1 THEN Step(p[m]) ELSE p[i]]
  <2>2. ASSUME NEW i \in 0 .. m + 1
        PROVE q[i] = IF i = 0 THEN [next |-> u, tables |-> s] ELSE Step(q[i - 1])
    <3> HIDE DEF Step
    <3>1. CASE i = m + 1
      BY <3>1
    <3>2. CASE i # m + 1
      <4>1. i \in 0 .. m BY <3>2
      <4>2. p[i] = IF i = 0 THEN [next |-> u, tables |-> s] ELSE Step(p[i - 1])
        BY <2>1, <4>1 DEF IsCalls, Step
      <4> QED BY <4>1, <4>2
    <3> QED BY <3>1, <3>2
  <2>3. IsCalls(q, vs, s, u, m + 1)
    <3>1. q = [i \in 0 .. m + 1 |-> q[i]]
      OBVIOUS
    <3> HIDE DEF q, Step
    <3>2. q = [i \in 0 .. m + 1 |-> IF i = 0 THEN [next |-> u, tables |-> s] ELSE Step(q[i - 1])]
      BY <3>1, <2>2
    <3> QED BY <3>2 DEF IsCalls, Step
  <2> HIDE DEF q, Step
  <2>4. \E r : IsCalls(r, vs, s, u, m + 1)
    BY <2>3
  <2> QED BY <2>4
<1> HIDE DEF S
<1>3. Nat \subseteq S
  BY <1>1, <1>2, NatSetInduction
<1> QED BY <1>3 DEF S

\* No set of voters is closed under the proxies g.
Acyclic(g) == \A S \in SUBSET Voters : S # {} => \E w \in S : g[w] \notin S

\* The recursion of propagate_weight_change keeps the totals right: it never
\* comes to the voter in the middle of its vote, for that would close a cycle.
LEMMA Propagated ==
  ASSUME now \in Times, NEW vs, VotersFor(vs), NEW s, NEW v, NEW to \in Proxies, NEW a \in Nat,
         NEW for \in Approvals, NEW b \in Nat, Matched(s, v, to, a, for, b),
         \A w \in Voters : w # v => to[w] = vs[w].proxy /\ for[w] = vs[w].producers,
         NEW u \in Voters, u # v,
         v \in Voters => Acyclic([w \in Voters |-> IF w = v THEN u ELSE vs[w].proxy])
  PROVE  /\ Matched(propagate_weight_change(vs, s, u), v, to, a, for, b)
         /\ Keeps(s, propagate_weight_change(vs, s, u))
<1> DEFINE N == Cardinality(Voters)
           q == CHOOSE q : IsCalls(q, vs, s, u, N)
           g == [w \in Voters |-> IF w = v THEN u ELSE vs[w].proxy]
           Behind(next) == \E S \in SUBSET Voters : v \in S /\ \A w \in S : g[w] \in S \cup {next}
           Right(r) == /\ Matched(r.tables, v, to, a, for, b) /\ Keeps(s, r.tables)
                       /\ r.next \in Voters \cup {Nobody}
                       /\ r.next # v \/ r.next = Nobody
                       /\ v \in Voters /\ r.next # Nobody => Behind(r.next)
           L == {i \in Nat : i <= N => Right(q[i])}
<1>0. N \in Nat
  BY VotersAssumption, FS_CardinalityType
<1> HIDE DEF N
<1>1. IsCalls(q, vs, s, u, N)
  BY <1>0, CallsExist
<1>2. propagate_weight_change(vs, s, u) = q[N].tables
  BY DEF propagate_weight_change, IsCalls, N
<1> HIDE DEF q
<1>3. 0 \in L
  <2>1. q[0] = [next |-> u, tables |-> s]
    BY <1>0, <1>1 DEF IsCalls
  <2>2. v \in Voters => Behind(u)
    <3> SUFFICES ASSUME v \in Voters PROVE Behind(u)
      OBVIOUS
    <3>1. {v} \in SUBSET Voters /\ v \in {v} /\ \A w \in {v} : g[w] \in {v} \cup {u}
      OBVIOUS
    <3> HIDE DEF g
    <3> QED
      BY <3>1
  <2> HIDE DEF Behind
  <2>4. Keeps(s, s)
    BY KeepsSame
  <2>3. Right(q[0])
    BY <2>1, <2>2, <2>4
  <2> HIDE DEF Right
  <2> QED
    BY <2>3
<1>4. ASSUME NEW n \in Nat, n \in L PROVE n + 1 \in L
  <2> SUFFICES ASSUME n + 1 <= N PROVE Right(q[n + 1])
    <3> HIDE DEF Right
    <3> QED
      BY <1>4
  <2>1. Right(q[n])
    <3> HIDE DEF Right
    <3> QED
      BY <1>0, <1>4
  <2>2. q[n + 1] = IF q[n].next = Nobody THEN q[n]
                   ELSE WeightPassedOn(vs, q[n].tables, q[n].next)
    <3>1. n + 1 \in 0 .. N /\ n + 1 # 0 /\ (n + 1) - 1 = n
      BY <1>0
    <3> QED
      BY <1>1, <3>1 DEF IsCalls
  <2>3. CASE q[n].next = Nobody
    <3> HIDE DEF Right
    <3> QED
      BY <2>1, <2>2, <2>3
  <2>4. CASE q[n].next # Nobody
    <3> DEFINE x == q[n].next
               r == WeightPassedOn(vs, q[n].tables, x)
    <3>1. /\ Matched(q[n].tables, v, to, a, for, b) /\ Keeps(s, q[n].tables)
          /\ x \in Voters /\ x # v
          /\ v \in Voters => Behind(x)
      <4> HIDE DEF Behind
      <4> QED
        BY <2>1, <2>4
    <3>2. to[x] = vs[x].proxy /\ for[x] = vs[x].producers
      BY <3>1
    <3> HIDE DEF x
    <3>3. /\ Matched(r.tables, v, to, a, for, b) /\ Keeps(s, r.tables)
          /\ r.next \in {Nobody, vs[x].proxy}
      <4> DEFINE y == q[n].tables
      <4>1. Matched(y, v, to, a, for, b) /\ Keeps(s, y) /\ r = WeightPassedOn(vs, y, x)
        BY <3>1
      <4> HIDE DEF y, r, Right, L, Behind, g
      <4> QED
        <5>1. Matched(WeightPassedOn(vs, y, x).tables, v, to, a, for, b)
          BY <3>1, <3>2, <4>1, PassedOn
        <5>2. WeightPassedOn(vs, y, x).next \in {Nobody, vs[x].proxy}
          BY DEF WeightPassedOn
        <5>3. Keeps(y, WeightPassedOn(vs, y, x).tables)
          BY <3>1, <3>2, <4>1, PassedOn
        <5>4. Keeps(s, WeightPassedOn(vs, y, x).tables)
          BY <4>1, <5>3, KeepsChain
        <5> QED
          BY <4>1, <5>1, <5>2, <5>4
    <3>4. q[n + 1] = r
      BY <2>2, <2>4 DEF x
    <3> HIDE DEF r
    <3>5. r.next \in Voters \cup {Nobody}
      BY <3>1, <3>3 DEF VotersFor, VoterRows
    <3>6. ASSUME v \in Voters, r.next # Nobody PROVE Behind(r.next) /\ r.next # v
      <4>1. PICK S \in SUBSET Voters : v \in S /\ \A w \in S : g[w] \in S \cup {x}
        BY <3>1, <3>6
      <4> DEFINE T == S \cup {x}
      <4>2. T \in SUBSET Voters /\ v \in T /\ g[x] = r.next
        BY <3>1, <3>3, <3>6, <4>1
      <4> HIDE DEF g
      <4>3. \A w \in T : g[w] \in T \cup {r.next}
        BY <4>1, <4>2
      <4>4. Behind(r.next)
        <5> HIDE DEF T
        <5> QED
          BY <4>2, <4>3
      <4>5. Acyclic(g)
        BY <3>6 DEF g
      <4>6. r.next # v
        <5> HIDE DEF T
        <5> QED
          BY <4>2, <4>3, <4>5 DEF Acyclic
      <4> QED
        BY <4>4, <4>6
    <3> HIDE DEF Behind
    <3>7. r.next # v \/ r.next = Nobody
      BY <3>5, <3>6
    <3>8. Right(r)
      BY <3>3, <3>5, <3>6, <3>7
    <3> HIDE DEF Right
    <3> QED
      BY <3>4, <3>8
  <2> QED
    BY <2>3, <2>4
<1>5. N \in L
  <2> HIDE DEF L
  <2>1. Nat \subseteq L
    BY <1>3, <1>4, NatSetInduction
  <2> QED
    BY <1>0, <2>1
<1>6. Right(q[N])
  <2> HIDE DEF Right
  <2> QED
    BY <1>0, <1>5
<1> QED
  BY <1>2, <1>6

\* delta takes the weight last from the producers old and gives new to producers.
IsDifference(delta, producers, new, old, last) ==
    /\ DOMAIN delta \in SUBSET Producers /\ delta \in [DOMAIN delta -> Int]
    /\ \A p \in Producers :
          (IF p \in DOMAIN delta THEN delta[p] ELSE 0)
            = (IF p \in producers THEN new ELSE 0) - (IF p \in old THEN last ELSE 0)

\* The producers of v's new vote get its weight, those of the old one lose the
\* weight it had, and v counts with the new one from then on.
LEMMA VoteStored ==
  ASSUME now \in Times, NEW s, NEW v \in Voters, NEW to \in Proxies, NEW new \in Nat, Even(new),
         NEW for \in Approvals, NEW last \in Nat, Matched(s, v, to, new, for, last),
         NEW producers \in SUBSET Producers, NEW delta,
         IsDifference(delta, producers, new, for[v], last)
  PROVE  /\ Matched(WithLast(VotesChanged(s, delta), v, new), Nobody, to, 0,
                    [for EXCEPT ![v] = producers], 0)
         /\ Keeps(s, WithLast(VotesChanged(s, delta), v, new))
<1> DEFINE C == DOMAIN delta
           mid == VotesChanged(s, delta)
           t == WithLast(mid, v, new)
           for2 == [for EXCEPT ![v] = producers]
           votes == [p \in Producers |-> s.prods[p].total_votes + (IF p \in C THEN delta[p] ELSE 0)]
<1>0. /\ s \in TableSet /\ WeightsOK(s) /\ TotalMatch(s) /\ now \in Int
      /\ C \in SUBSET Producers /\ delta \in [C -> Int]
      /\ \A p \in Producers :
            (IF p \in C THEN delta[p] ELSE 0)
              = (IF p \in producers THEN new ELSE 0) - (IF p \in for[v] THEN last ELSE 0)
  BY DEF Matched, Times, IsDifference
<1> HIDE DEF C
<1>1. for2 \in Approvals /\ for2[v] = producers /\ \A w \in Voters \ {v} : for2[w] = for[w]
  BY DEF Approvals
<1> HIDE DEF for2
<1>2. ASSUME NEW p \in Producers
      PROVE  /\ votes[p] \in Nat
             /\ votes[p] = SumOver(Counts(s, v, new), {w \in Voters : p \in for2[w]})
  <2> DEFINE S == {w \in Voters : p \in for[w]}
             R == {w \in Voters : p \in for2[w]}
  <2>1. S \in SUBSET Voters /\ R \in SUBSET Voters /\ S \ {v} = R \ {v}
        /\ (v \in S <=> p \in for[v]) /\ (v \in R <=> p \in producers)
    BY <1>1
  <2>2. s.prods[p].total_votes = SumOver(Counts(s, v, last), S)
    BY DEF Matched, VotesMatch
  <2> HIDE DEF S, R
  <2>3. /\ Without(s, v, S) \in Int /\ Without(s, v, R) = Without(s, v, S)
        /\ SumOver(Counts(s, v, last), S) = Without(s, v, S) + (IF v \in S THEN last ELSE 0)
        /\ SumOver(Counts(s, v, new), R) = Without(s, v, R) + (IF v \in R THEN new ELSE 0)
    BY <1>0, <2>1, CountsApart, WithoutSame
  <2>4. votes[p] = SumOver(Counts(s, v, new), R)
    BY <1>0, <2>1, <2>2, <2>3
  <2>5. IsFiniteSet(R) /\ \A w \in R : Counts(s, v, new)[w] \in Nat
    BY <1>0, <2>1, CountsNat, FinitePeople
  <2>6. SumOver(Counts(s, v, new), R) \in Nat
    BY <2>5, SumOverNat
  <2> QED
    BY <2>4, <2>6 DEF R
<1>3. \A p \in Producers : votes[p] = s.prods[p].total_votes + (IF p \in C THEN delta[p] ELSE 0)
  OBVIOUS
<1> HIDE DEF votes, t
<1>4. /\ mid \in TableSet /\ mid.weight = s.weight /\ TotalMatch(mid) /\ Keeps(s, mid)
      /\ \A p \in Producers : mid.prods[p].total_votes = votes[p]
  <2>1. \A p \in Producers :
            votes[p] \in Nat /\ votes[p] = s.prods[p].total_votes + (IF p \in C THEN delta[p] ELSE 0)
    BY <1>2, <1>3
  <2> QED
    BY <1>0, <2>1, VotesShifted
<1> HIDE DEF mid
<1>5. /\ t \in TableSet /\ t.prods = mid.prods /\ t.totals = mid.totals
      /\ t.weight[v].last = new
      /\ \A w \in Voters \ {v} : t.weight[w].last = s.weight[w].last
      /\ \A w \in Voters : t.weight[w].proxied = s.weight[w].proxied
  <2>1. new \in Int
    OBVIOUS
  <2>2. /\ t \in TableSet /\ t.prods = mid.prods /\ t.totals = mid.totals
        /\ t.weight[v].last = new
        /\ \A w \in Voters \ {v} : t.weight[w].last = mid.weight[w].last
        /\ \A w \in Voters : t.weight[w].proxied = mid.weight[w].proxied
    <3>1. mid \in TableSet /\ t = WithLast(mid, v, new)
      BY <1>4 DEF t
    <3> QED
      BY ONLY <2>1, <3>1, v \in Voters, LastSet
  <2> QED
    BY <1>4, <2>2
<1>6. WeightsOK(t) /\ TotalMatch(t)
  <2>1. WeightsOK(t)
    BY <1>0, <1>5 DEF WeightsOK
  <2>2. TotalMatch(t)
    BY <1>4, <1>5 DEF TotalMatch, VotesOf
  <2> QED
    BY <2>1, <2>2
<1>7. Counts(t, Nobody, 0) = Counts(s, v, new)
  BY <1>5, NobodyAssumption DEF Counts
<1>8. ProxiedMatch(t, Nobody, to, 0)
  BY <1>5, <1>7 DEF Matched, ProxiedMatch
<1>9. VotesMatch(t, Nobody, for2, 0)
  BY <1>2, <1>4, <1>5, <1>7 DEF VotesMatch
<1>10. Matched(t, Nobody, to, 0, for2, 0)
  BY <1>5, <1>6, <1>8, <1>9 DEF Matched
<1>11. Keeps(s, t)
  BY <1>4, <1>5, KeepsSame, KeepsChain
<1> QED
  BY <1>10, <1>11 DEF t, mid, for2

\* The stake that is activated is not in the totals of votes.
LEMMA ActivatedFields ==
  ASSUME now \in Times, NEW s, NEW v, NEW to, NEW a, NEW for, NEW b, NEW staked \in Nat,
         Matched(s, v, to, a, for, b)
  PROVE  /\ Matched(Activated(s, staked), v, to, a, for, b)
         /\ Activated(s, staked).weight = s.weight
         /\ Keeps(s, Activated(s, staked))
<1> DEFINE activated == Least(MinActivated, s.totals.activated + staked)
           thresh == IF activated >= MinActivated /\ s.totals.thresh_time = Never THEN now
                     ELSE s.totals.thresh_time
           tot == [s.totals EXCEPT !.activated = activated, !.thresh_time = thresh]
           t == [s EXCEPT !.totals = tot]
<1>0. s \in TableSet /\ s.totals \in TotalRows /\ now \in Int
  BY TableFields DEF Matched, Times
<1>1. Activated(s, staked) = t
  BY <1>0 DEF Activated, TableSet, TotalRows
<1>2. activated \in Int /\ thresh \in Int
  BY <1>0, ActivatedAssumption DEF Least, TotalRows
<1> HIDE DEF activated, thresh
<1>3. /\ tot \in TotalRows /\ tot.vote_weight = s.totals.vote_weight
      /\ tot.votepay_share = s.totals.votepay_share /\ tot.change_rate = s.totals.change_rate
      /\ tot.last_vpay_state_update = s.totals.last_vpay_state_update
  BY <1>0, <1>2 DEF TotalRows
<1> HIDE DEF tot
<1>4. t \in TableSet /\ t.weight = s.weight /\ t.prods = s.prods /\ t.totals = tot
  BY <1>0, <1>3 DEF TableSet
<1> HIDE DEF t
<1>5. WeightsOK(t)
  BY <1>4 DEF Matched, WeightsOK
<1>6. \A c : Counts(t, v, c) = Counts(s, v, c)
  BY <1>4 DEF Counts
<1>7. ProxiedMatch(t, v, to, a) /\ VotesMatch(t, v, for, b)
  BY <1>4, <1>6 DEF Matched, ProxiedMatch, VotesMatch
<1>8. TotalMatch(t)
  BY <1>3, <1>4 DEF Matched, TotalMatch, VotesOf
<1>9. StaysActive(s, t)
  <2>1. /\ now # Never /\ s.totals.activated \in Int /\ MinActivated \in Int
    BY <1>0, ActivatedAssumption DEF Times, Never, TotalRows
  <2>2. /\ t.totals.activated = activated /\ t.totals.thresh_time = thresh
        /\ activated \in Int
        /\ s.totals.activated >= MinActivated => activated >= MinActivated
        /\ thresh = IF activated >= MinActivated /\ s.totals.thresh_time = Never THEN now
                    ELSE s.totals.thresh_time
    BY <1>2, <1>4, <2>1 DEF activated, thresh, tot, Least
  <2> QED
    BY <2>1, <2>2 DEF StaysActive, ActivationOK, IsActive
<1>10. Keeps(s, t)
  BY <1>3, <1>4, <1>9, KeepsActivating
<1> QED
  BY <1>1, <1>4, <1>5, <1>7, <1>8, <1>10 DEF Matched

\* Proxies and approvals as the rows of voters have them.
ProxyOf(vs) == [w \in Voters |-> vs[w].proxy]
ApprovedBy(vs) == [w \in Voters |-> vs[w].producers]

\* One way to see a vote's graph: v's link is replaced.
LEMMA ProxyGraphs ==
  ASSUME NEW vs, VotersFor(vs), NEW v \in Voters, NEW proxy \in Voters \cup {Nobody}
  PROVE  /\ ProxyOf(vs) \in Proxies /\ ApprovedBy(vs) \in Approvals
         /\ [ProxyOf(vs) EXCEPT ![v] = proxy] \in Proxies
         /\ [ProxyOf(vs) EXCEPT ![v] = proxy]
              = [w \in Voters |-> IF w = v THEN proxy ELSE vs[w].proxy]
         /\ \A w \in Voters : ProxyOf(vs)[w] = vs[w].proxy /\ ApprovedBy(vs)[w] = vs[w].producers
<1>1. \A w \in Voters : vs[w].proxy \in Voters \cup {Nobody} /\ vs[w].producers \in SUBSET Producers
  BY DEF VotersFor, VoterRows
<1> QED
  BY <1>1 DEF ProxyOf, ApprovedBy, Proxies, Approvals

\* A vote first takes what v's last vote gave to its proxy back.
LEMMA TakenBackMatched ==
  ASSUME now \in Times, NEW vs, VotersFor(vs), NEW v \in Voters, NEW s,
         Matched(s, Nobody, ProxyOf(vs), 0, ApprovedBy(vs), 0), Acyclic(ProxyOf(vs)),
         vs[v].proxy # Nobody
  PROVE  /\ Matched(TakenBack(vs, s, v), v, [ProxyOf(vs) EXCEPT ![v] = Nobody], 0,
                    ApprovedBy(vs), s.weight[v].last)
         /\ Keeps(s, TakenBack(vs, s, v))
<1> DEFINE to == ProxyOf(vs)
           for == ApprovedBy(vs)
           to2 == [to EXCEPT ![v] = Nobody]
           last == s.weight[v].last
           x == vs[v].proxy
           mid == WithMore(s, x, - last)
<1>0. s \in TableSet /\ WeightsOK(s)
  BY DEF Matched
<1>1. /\ to \in Proxies /\ for \in Approvals /\ to2 \in Proxies /\ to2[v] = Nobody
      /\ \A w \in Voters : to[w] = vs[w].proxy /\ for[w] = vs[w].producers
      /\ \A w \in Voters \ {v} : to2[w] = to[w]
  BY ProxyGraphs
<1>2. x \in Voters /\ to[v] = x
  BY <1>1 DEF Proxies
<1>3. x # v
  <2> HIDE DEF to, x
  <2>1. {v} \in SUBSET Voters /\ {v} # {}
    OBVIOUS
  <2>2. to[v] \notin {v}
    BY <2>1 DEF Acyclic, to
  <2> QED
    BY <1>2, <2>2
<1>4. last \in Nat /\ Even(last) /\ - last \in Int
  BY <1>0 DEF WeightsOK
<1>5. Matched(s, v, to, last, for, last)
  BY MatchedOfOne
<1> HIDE DEF to, for, to2, last, x
<1>6. /\ mid \in TableSet /\ mid.prods = s.prods /\ mid.totals = s.totals
      /\ mid.weight[x].proxied = s.weight[x].proxied + (- last)
      /\ \A w \in Voters \ {x} : mid.weight[w].proxied = s.weight[w].proxied
      /\ \A w \in Voters : mid.weight[w].last = s.weight[w].last
  <2>1. s \in TableSet
    BY <1>0
  <2> QED
    BY ONLY <1>2, <1>4, <2>1, ProxiedSet
<1> HIDE DEF mid
<1>7. \A y \in Voters :
            /\ mid.weight[y].proxied = s.weight[y].proxied - (IF to[v] = y THEN last ELSE 0)
                                                           + (IF to2[v] = y THEN 0 ELSE 0)
            /\ Even(mid.weight[y].proxied)
  <2> SUFFICES ASSUME NEW y \in Voters
               PROVE  /\ mid.weight[y].proxied = s.weight[y].proxied - (IF to[v] = y THEN last ELSE 0)
                                                           + (IF to2[v] = y THEN 0 ELSE 0)
                      /\ Even(mid.weight[y].proxied)
    OBVIOUS
  <2>1. s.weight[y].proxied \in Int /\ Even(s.weight[y].proxied)
    BY <1>0, TableFields DEF WeightsOK
  <2> HIDE DEF Even
  <2>2. CASE y = x
    <3>1. mid.weight[y].proxied = s.weight[y].proxied - last
      BY <1>4, <1>6, <2>1, <2>2
    <3>2. Even(s.weight[y].proxied - last)
      BY <1>4, <2>1, EvenNumbers
    <3> QED
      BY <1>2, <1>4, <2>1, <2>2, <3>1, <3>2
  <2>3. CASE y # x
    BY <1>2, <1>6, <2>1, <2>3
  <2> QED
    BY <2>2, <2>3
<1>8. Matched(mid, v, to2, 0, for, last)
  <2>1. 0 \in Int /\ last \in Int
    BY <1>4
  <2> QED
    BY <1>1, <1>5, <1>6, <1>7, <2>1, ProxyRenamed
<1>9. [w \in Voters |-> IF w = v THEN x ELSE vs[w].proxy] = to
  BY <1>1, <1>2 DEF Proxies
<1>10. /\ Matched(propagate_weight_change(vs, mid, x), v, to2, 0, for, last)
       /\ Keeps(mid, propagate_weight_change(vs, mid, x))
  <2>1. \A w \in Voters : w # v => to2[w] = vs[w].proxy /\ for[w] = vs[w].producers
    BY <1>1
  <2>2. Acyclic([w \in Voters |-> IF w = v THEN x ELSE vs[w].proxy])
    BY <1>9 DEF to
  <2> QED
    BY <1>1, <1>2, <1>3, <1>4, <1>8, <2>1, <2>2, Propagated
<1>11. mid = [s EXCEPT !.weight[vs[v].proxy].proxied = @ - s.weight[v].last]
  <2>1. s.weight \in [Voters -> WeightRows] /\ s.weight[x].proxied \in Int
    BY <1>0, <1>2, TableFields
  <2>2. s.weight[x].proxied + (- last) = s.weight[x].proxied - last
    BY <1>4, <2>1
  <2> QED
    BY <1>0, <1>2, <2>1, <2>2 DEF mid, x, last, WithMore, TableSet
<1>12. TakenBack(vs, s, v) = propagate_weight_change(vs, mid, x)
  BY <1>11 DEF TakenBack, x
<1>13. Keeps(s, TakenBack(vs, s, v))
  BY <1>6, <1>10, <1>12, KeepsSame, KeepsChain
<1> QED
  BY <1>10, <1>12, <1>13 DEF to, to2, for, last

\* What v votes with goes to its new proxy.
LEMMA GivenMatched ==
  ASSUME now \in Times, NEW vs, VotersFor(vs), NEW v \in Voters, NEW s, NEW last \in Nat,
         Matched(s, v, [ProxyOf(vs) EXCEPT ![v] = Nobody], 0, ApprovedBy(vs), last),
         NEW new \in Nat, Even(new), NEW proxy \in Voters, proxy # v,
         Acyclic([ProxyOf(vs) EXCEPT ![v] = proxy])
  PROVE  LET t == propagate_weight_change(vs, WithMore(s, proxy, new), proxy)
         IN /\ Matched(t, v, [ProxyOf(vs) EXCEPT ![v] = proxy], new, ApprovedBy(vs), last)
            /\ Keeps(s, t)
<1> DEFINE for == ApprovedBy(vs)
           to == [ProxyOf(vs) EXCEPT ![v] = Nobody]
           to2 == [ProxyOf(vs) EXCEPT ![v] = proxy]
           mid == WithMore(s, proxy, new)
<1>0. s \in TableSet /\ WeightsOK(s)
  BY DEF Matched
<1>1. /\ to \in Proxies /\ for \in Approvals /\ to2 \in Proxies
      /\ to[v] = Nobody /\ to2[v] = proxy
      /\ \A w \in Voters \ {v} : to2[w] = to[w]
      /\ \A w \in Voters : w # v => to2[w] = vs[w].proxy /\ for[w] = vs[w].producers
      /\ to2 = [w \in Voters |-> IF w = v THEN proxy ELSE vs[w].proxy]
  <2>1. ProxyOf(vs) \in [Voters -> Voters \cup {Nobody}]
    BY ProxyGraphs DEF Proxies
  <2> QED
    BY <2>1, ProxyGraphs
<1> HIDE DEF to, to2, for
<1>2. /\ mid \in TableSet /\ mid.prods = s.prods /\ mid.totals = s.totals
      /\ mid.weight[proxy].proxied = s.weight[proxy].proxied + new
      /\ \A w \in Voters \ {proxy} : mid.weight[w].proxied = s.weight[w].proxied
      /\ \A w \in Voters : mid.weight[w].last = s.weight[w].last
  <2>1. new \in Int
    OBVIOUS
  <2> QED
    BY <1>0, <2>1, ProxiedSet
<1> HIDE DEF mid
<1>3. ASSUME NEW y \in Voters
      PROVE  /\ mid.weight[y].proxied = s.weight[y].proxied - (IF to[v] = y THEN 0 ELSE 0)
                                                            + (IF to2[v] = y THEN new ELSE 0)
             /\ Even(mid.weight[y].proxied)
  <2>1. s.weight[y].proxied \in Int /\ Even(s.weight[y].proxied)
    BY <1>0, TableFields DEF WeightsOK
  <2> HIDE DEF Even
  <2>2. CASE y = proxy
    <3>1. mid.weight[y].proxied = s.weight[y].proxied + new
      BY <1>2, <2>2
    <3>2. Even(s.weight[y].proxied + new)
      BY <2>1, EvenNumbers
    <3> QED
      BY <1>1, <2>1, <2>2, <3>1, <3>2
  <2>3. CASE y # proxy
    BY <1>1, <1>2, <2>1, <2>3
  <2> QED
    BY <2>2, <2>3
<1>4. Matched(mid, v, to2, new, for, last)
  <2>1. 0 \in Int /\ new \in Int /\ Matched(s, v, to, 0, for, last)
    BY DEF to, for
  <2> QED
    BY <1>1, <1>2, <1>3, <2>1, ProxyRenamed
<1>5. Acyclic([w \in Voters |-> IF w = v THEN proxy ELSE vs[w].proxy])
  BY <1>1 DEF to2
<1>6. /\ Matched(propagate_weight_change(vs, mid, proxy), v, to2, new, for, last)
      /\ Keeps(mid, propagate_weight_change(vs, mid, proxy))
  BY <1>1, <1>4, <1>5, Propagated
<1>7. Keeps(s, propagate_weight_change(vs, mid, proxy))
  BY <1>2, <1>6, KeepsSame, KeepsChain
<1> QED
  BY <1>6, <1>7 DEF mid, to2, for

\* The whole of update_votes keeps the totals right: afterwards v counts for the
\* proxy and the producers of its new vote, with the weight it has now.
LEMMA VoteUpdated ==
  ASSUME now \in Times, NEW vs, VotersFor(vs), NEW v \in Voters, NEW start,
         Matched(start, Nobody, ProxyOf(vs), 0, ApprovedBy(vs), 0), Acyclic(ProxyOf(vs)),
         NEW proxy \in Voters \cup {Nobody}, NEW producers \in SUBSET Producers, NEW voting,
         proxy # Nobody => producers = {} /\ proxy # v,
         Acyclic([ProxyOf(vs) EXCEPT ![v] = proxy])
  PROVE  LET t == update_votes(vs, start, v, proxy, producers, voting)
         IN /\ Matched(t, Nobody, [ProxyOf(vs) EXCEPT ![v] = proxy], 0,
                       [ApprovedBy(vs) EXCEPT ![v] = producers], 0)
            /\ Keeps(start, t)
<1> DEFINE last == start.weight[v].last
           new == NewWeight(vs, start, v)
           s1 == IF last <= 0 THEN Activated(start, vs[v].staked) ELSE start
           s2 == IF last > 0 /\ vs[v].proxy # Nobody THEN TakenBack(vs, s1, v) ELSE s1
           s3 == IF proxy # Nobody
                 THEN propagate_weight_change(vs, WithMore(s2, proxy, new), proxy)
                 ELSE s2
           old == IF last > 0 /\ vs[v].proxy = Nobody THEN vs[v].producers ELSE {}
           C == old \cup producers
           delta == [p \in C |->
                       (IF p \in producers THEN new ELSE 0) - (IF p \in old THEN last ELSE 0)]
           for == ApprovedBy(vs)
           to == ProxyOf(vs)
           to1 == [to EXCEPT ![v] = Nobody]
           to2 == [to EXCEPT ![v] = proxy]
<1>1. update_votes(vs, start, v, proxy, producers, voting)
        = WithLast(VotesChanged(s3, delta), v, new)
  BY DEF update_votes, WithMore, WithLast
<1>2. /\ to \in Proxies /\ for \in Approvals /\ to1 \in Proxies /\ to2 \in Proxies
      /\ to[v] = vs[v].proxy /\ for[v] = vs[v].producers
      /\ to1[v] = Nobody /\ to2[v] = proxy
      /\ \A w \in Voters \ {v} : to1[w] = to[w] /\ to2[w] = to1[w]
      /\ vs[v].proxy \in Voters \cup {Nobody} /\ vs[v].producers \in SUBSET Producers
  <2>1. ProxyOf(vs) \in [Voters -> Voters \cup {Nobody}]
    BY ProxyGraphs DEF Proxies
  <2>2. vs[v].proxy \in Voters \cup {Nobody} /\ vs[v].producers \in SUBSET Producers
    BY DEF VotersFor, VoterRows
  <2> QED
    BY <2>1, <2>2, ProxyGraphs
<1>3. last \in Nat /\ start \in TableSet /\ vs[v].staked \in Nat
  BY DEF Matched, WeightsOK, VotersFor
<1>4. new \in Nat /\ Even(new)
  <2>1. 0 \in Nat
    OBVIOUS
  <2> QED
    BY <2>1, NewWeightType
<1> HIDE DEF new, to, for, to1, to2
<1>5. /\ Matched(s1, Nobody, to, 0, for, 0) /\ s1.weight = start.weight
      /\ s1.weight[v].last = last /\ Keeps(start, s1)
  <2>1. Matched(start, Nobody, to, 0, for, 0)
    BY DEF to, for
  <2>2. /\ Matched(Activated(start, vs[v].staked), Nobody, to, 0, for, 0)
        /\ Activated(start, vs[v].staked).weight = start.weight
        /\ Keeps(start, Activated(start, vs[v].staked))
    <3> DEFINE k == vs[v].staked
    <3>1. k \in Nat
      BY <1>3
    <3> HIDE DEF k, last, s1
    <3>2. /\ Matched(Activated(start, k), Nobody, to, 0, for, 0)
          /\ Activated(start, k).weight = start.weight
          /\ Keeps(start, Activated(start, k))
      BY <2>1, <3>1, ActivatedFields
    <3> QED
      BY <3>2 DEF k
  <2>3. Keeps(start, start)
    BY KeepsSame
  <2> QED
    BY <2>1, <2>2, <2>3
<1> HIDE DEF s1
<1>6. Matched(s2, v, to1, 0, for, last) /\ Keeps(s1, s2)
  <2>1. CASE last > 0 /\ vs[v].proxy # Nobody
    <3>1. Matched(s1, Nobody, ProxyOf(vs), 0, ApprovedBy(vs), 0)
      BY <1>5 DEF to, for
    <3>2. /\ Matched(TakenBack(vs, s1, v), v, [ProxyOf(vs) EXCEPT ![v] = Nobody], 0,
                     ApprovedBy(vs), s1.weight[v].last)
          /\ Keeps(s1, TakenBack(vs, s1, v))
      BY <2>1, <3>1, TakenBackMatched
    <3> QED
      BY <1>5, <2>1, <3>2 DEF to, to1, for
  <2>2. CASE ~(last > 0 /\ vs[v].proxy # Nobody)
    <3>1. s2 = s1
      BY <2>2
    <3>2. Matched(s1, v, to, last, for, last)
      BY <1>5, MatchedOfOne
    <3>3. s1 \in TableSet /\ WeightsOK(s1)
      BY <1>5 DEF Matched
    <3>4. \A x \in Voters :
            /\ s1.weight[x].proxied = s1.weight[x].proxied - (IF to[v] = x THEN last ELSE 0)
                                                           + (IF to1[v] = x THEN 0 ELSE 0)
            /\ Even(s1.weight[x].proxied)
      <4>1. \A x \in Voters : s1.weight[x].proxied \in Int /\ Even(s1.weight[x].proxied)
        BY <3>3, TableFields DEF WeightsOK
      <4>2. last = 0 \/ \A x \in Voters : to[v] # x
        BY <1>2, <1>3, <2>2, NobodyAssumption
      <4> HIDE DEF last
      <4> QED
        BY <4>1, <4>2
    <3>5. 0 \in Int /\ last \in Int
      BY <1>3
    <3>6. Matched(s1, v, to1, 0, for, last)
      <4> HIDE DEF last
      <4> QED
        BY <1>2, <3>2, <3>3, <3>4, <3>5, ProxyRenamed
    <3>7. Keeps(s1, s1)
      BY KeepsSame
    <3> QED
      BY <3>1, <3>6, <3>7
  <2> QED
    BY <2>1, <2>2
<1> HIDE DEF s2
<1>7. Matched(s3, v, to2, new, for, last) /\ Keeps(s2, s3)
  <2>1. CASE proxy # Nobody
    <3>1. proxy \in Voters /\ proxy # v /\ s3 = propagate_weight_change(vs, WithMore(s2, proxy, new), proxy)
      BY <2>1
    <3>2. Matched(s2, v, [ProxyOf(vs) EXCEPT ![v] = Nobody], 0, ApprovedBy(vs), last)
      BY <1>6 DEF to, to1, for
    <3> HIDE DEF last
    <3>3. LET t == propagate_weight_change(vs, WithMore(s2, proxy, new), proxy)
          IN /\ Matched(t, v, [ProxyOf(vs) EXCEPT ![v] = proxy], new, ApprovedBy(vs), last)
             /\ Keeps(s2, t)
      BY <1>3, <1>4, <3>1, <3>2, GivenMatched
    <3> QED
      BY <3>1, <3>3 DEF to, to2, for
  <2>2. CASE proxy = Nobody
    <3>1. s3 = s2 /\ s2 \in TableSet /\ WeightsOK(s2)
      BY <1>6, <2>2 DEF Matched
    <3>2. \A x \in Voters :
            /\ s2.weight[x].proxied = s2.weight[x].proxied - (IF to1[v] = x THEN 0 ELSE 0)
                                                           + (IF to2[v] = x THEN new ELSE 0)
            /\ Even(s2.weight[x].proxied)
      <4>1. \A x \in Voters : s2.weight[x].proxied \in Int /\ Even(s2.weight[x].proxied)
        BY <3>1, TableFields DEF WeightsOK
      <4>2. \A x \in Voters : to2[v] # x
        BY <1>2, <2>2, NobodyAssumption
      <4> QED
        BY <4>1, <4>2
    <3>3. 0 \in Int /\ new \in Int
      BY <1>4
    <3>4. Matched(s2, v, to2, new, for, last)
      <4>1. /\ s2.prods = s2.prods /\ s2.totals = s2.totals
            /\ \A w \in Voters : s2.weight[w].last = s2.weight[w].last
            /\ to1 \in Proxies /\ to2 \in Proxies /\ \A w \in Voters \ {v} : to2[w] = to1[w]
        BY <1>2
      <4> HIDE DEF last, C, delta, s3, old
      <4> QED
        BY <1>6, <3>1, <3>2, <3>3, <4>1, ProxyRenamed
    <3>5. Keeps(s2, s2)
      BY KeepsSame
    <3> QED
      BY <3>1, <3>4, <3>5
  <2> QED
    BY <2>1, <2>2
<1> HIDE DEF s3
<1>8. /\ C \in SUBSET Producers /\ delta \in [C -> Int]
      /\ \A p \in Producers :
            (IF p \in C THEN delta[p] ELSE 0)
              = (IF p \in producers THEN new ELSE 0) - (IF p \in for[v] THEN last ELSE 0)
  <2>1. old \in SUBSET Producers
    BY <1>2
  <2>2. \A p \in Producers : p \in old \/ last = 0 <=> p \in for[v] \/ last = 0
    <3>1. vs[v].proxy # Nobody => for[v] = {}
      BY <1>2 DEF VotersFor
    <3> QED
      BY <1>2, <1>3, <3>1
  <2> HIDE DEF last, old
  <2>3. delta \in [C -> Int]
    BY <1>3, <1>4
  <2>4. ASSUME NEW p \in Producers
        PROVE (IF p \in C THEN delta[p] ELSE 0)
              = (IF p \in producers THEN new ELSE 0) - (IF p \in for[v] THEN last ELSE 0)
    BY <1>3, <1>4, <2>2
  <2> QED
    BY <2>1, <2>3, <2>4
<1>9. IsDifference(delta, producers, new, for[v], last)
  <2>1. DOMAIN delta = C
    OBVIOUS
  <2> HIDE DEF C, delta
  <2> QED
    BY <1>8, <2>1 DEF IsDifference
<1> HIDE DEF old, C, delta, last
<1> DEFINE t == WithLast(VotesChanged(s3, delta), v, new)
<1>10. /\ Matched(t, Nobody, to2, 0, [for EXCEPT ![v] = producers], 0)
       /\ Keeps(s3, t)
  BY <1>2, <1>3, <1>4, <1>7, <1>9, VoteStored
<1> HIDE DEF t
<1>11. Keeps(start, t)
  BY <1>5, <1>6, <1>7, <1>10, KeepsChain
<1>12. update_votes(vs, start, v, proxy, producers, voting) = t
  BY <1>1 DEF t
<1> QED
  BY <1>10, <1>11, <1>12 DEF to, to2, for

\* Matched keeps when neither the weights nor any votes change.
LEMMA MatchedVotes ==
  ASSUME NEW s, NEW t \in TableSet, t.weight = s.weight,
         \A p \in Producers : t.prods[p].total_votes = s.prods[p].total_votes,
         t.totals.vote_weight = s.totals.vote_weight,
         NEW v, NEW to, NEW a, NEW for, NEW b, Matched(s, v, to, a, for, b)
  PROVE  Matched(t, v, to, a, for, b)
<1>1. WeightsOK(t)
  BY DEF Matched, WeightsOK
<1>2. \A c : Counts(t, v, c) = Counts(s, v, c)
  BY DEF Counts
<1>3. ProxiedMatch(t, v, to, a) /\ VotesMatch(t, v, for, b)
  BY <1>2 DEF Matched, ProxiedMatch, VotesMatch
<1>4. VotesOf(t) = VotesOf(s)
  BY DEF VotesOf
<1>5. TotalMatch(t)
  BY <1>4 DEF Matched, TotalMatch
<1> QED
  BY <1>1, <1>3, <1>5 DEF Matched

\* The invariant: each voter counts with its last weight for the proxy or the
\* producers in its row.
VoteInv ==
    /\ now \in Times
    /\ ProxyInv /\ VotersFor(voters)
    /\ Matched(Tables, Nobody, ProxyOf(voters), 0, ApprovedBy(voters), 0)

\* The invariant makes the totals the sums of VotesAddUp.
LEMMA VoteInvAddsUp == VoteInv => VotesAddUp
<1> SUFFICES ASSUME VoteInv PROVE VotesAddUp
  OBVIOUS
<1> DEFINE f == [v \in Voters |-> weight[v].last]
<1>1. Counts(Tables, Nobody, 0) = f
  BY NobodyAssumption DEF Counts, Tables
<1>2. VotesOf(Tables) = [p \in Producers |-> prods[p].total_votes]
  BY DEF VotesOf, Tables
<1>3. Tables.prods = prods /\ Tables.weight = weight /\ Tables.totals = totals
  BY DEF Tables
<1>4. ASSUME NEW p \in Producers
      PROVE  prods[p].total_votes = LastWeights({v \in Voters : p \in voters[v].producers})
  <2>1. prods[p].total_votes = SumOver(f, {w \in Voters : p \in ApprovedBy(voters)[w]})
    BY <1>1, <1>3 DEF VoteInv, Matched, VotesMatch
  <2>2. {w \in Voters : p \in ApprovedBy(voters)[w]} = {v \in Voters : p \in voters[v].producers}
    BY DEF ApprovedBy
  <2> QED
    BY <2>1, <2>2 DEF LastWeights
<1>5. ASSUME NEW x \in Voters
      PROVE  weight[x].proxied = LastWeights({v \in Voters : voters[v].proxy = x})
  <2>1. weight[x].proxied = SumOver(f, {w \in Voters : ProxyOf(voters)[w] = x})
    BY <1>1, <1>3 DEF VoteInv, Matched, ProxiedMatch
  <2>2. {w \in Voters : ProxyOf(voters)[w] = x} = {v \in Voters : voters[v].proxy = x}
    BY DEF ProxyOf
  <2> QED
    BY <2>1, <2>2 DEF LastWeights
<1>6. totals.vote_weight = AllVotes
  BY <1>2, <1>3 DEF VoteInv, Matched, TotalMatch, AllVotes
<1> QED
  BY <1>4, <1>5, <1>6 DEF VotesAddUp

\* What a step commits is what the tables are after it.
LEMMA Committed ==
  ASSUME NEW s, Commit(s), NEW to, NEW for, Matched(s, Nobody, to, 0, for, 0)
  PROVE  Matched(Tables', Nobody, to, 0, for, 0)
<1>1. weight' = s.weight /\ prods' = s.prods /\ totals' = s.totals /\ s \in TableSet
  BY DEF Commit, Matched
<1>2. /\ Tables' \in TableSet /\ Tables'.weight = s.weight /\ Tables'.prods = s.prods
      /\ Tables'.totals = s.totals
  BY <1>1 DEF Tables, TableSet
<1> QED
  BY <1>2, MatchedFields

\* The invariant after a step, from its parts.
LEMMA VoteInvNext ==
  ASSUME now' \in Times, ProxyInv', VotersFor(voters'),
         Matched(Tables', Nobody, ProxyOf(voters'), 0, ApprovedBy(voters'), 0)
  PROVE  VoteInv'
BY DEF VoteInv, VotersFor, Matched, WeightsOK, ProxiedMatch, VotesMatch, TotalMatch, VotesOf,
       Counts, ProxyOf, ApprovedBy, Tables

\* Rows that differ in the row and in being a proxy only give the same proxies and approvals.
LEMMA SameGraphs ==
  ASSUME NEW vs, NEW us, \A w \in Voters : us[w].proxy = vs[w].proxy
                                        /\ us[w].producers = vs[w].producers
  PROVE  ProxyOf(us) = ProxyOf(vs) /\ ApprovedBy(us) = ApprovedBy(vs)
BY DEF ProxyOf, ApprovedBy

\* NoProxyCycle is about the proxies in the rows.
LEMMA AcyclicNow == (NoProxyCycle => Acyclic(ProxyOf(voters)))
                    /\ (NoProxyCycle' => Acyclic(ProxyOf(voters')))
BY DEF NoProxyCycle, Acyclic, ProxyOf

\* The step commits tables whose shares add up if they did before it.
SharesStay == \E s : Commit(s) /\ Keeps(Tables, s)

\* The step commits tables with the activation of those before it or a new one.
ActivationStays == \E s : Commit(s) /\ StaysActive(Tables, s)

\* A voter that becomes a proxy, or is one no more, passes its new weight on.
LEMMA RegproxyVotes ==
  ASSUME VoteInv, NEW v \in Voters, NEW isproxy \in BOOLEAN, regproxy(v, isproxy)
  PROVE  VoteInv' /\ SharesStay
<1> DEFINE vs == [voters EXCEPT ![v].row = TRUE, ![v].is_proxy = isproxy]
           s == IF voters[v].row THEN propagate_weight_change(vs, Tables, v) ELSE Tables
           to == ProxyOf(voters)
           for == ApprovedBy(voters)
<1>1. voters' = vs /\ Commit(s) /\ now' = now
  BY DEF regproxy
<1>2. ProxyInv'
  BY RegproxyStep DEF VoteInv
<1>3. voters \in [Voters -> VoterRows]
  BY DEF VoteInv, VotersFor
<1>4. /\ vs \in [Voters -> VoterRows]
      /\ \A w \in Voters : /\ vs[w].proxy = voters[w].proxy
                           /\ vs[w].producers = voters[w].producers
                           /\ vs[w].staked = voters[w].staked
  <2>1. vs[v] = [voters[v] EXCEPT !.row = TRUE, !.is_proxy = isproxy] /\ voters[v] \in VoterRows
    BY <1>3
  <2>2. /\ vs[v] \in VoterRows /\ vs[v].proxy = voters[v].proxy
        /\ vs[v].producers = voters[v].producers /\ vs[v].staked = voters[v].staked
    <3> HIDE DEF vs
    <3> QED
      BY <2>1 DEF VoterRows
  <2>3. \A w \in Voters \ {v} : vs[w] = voters[w]
    BY <1>3
  <2>4. vs \in [Voters -> VoterRows]
    BY <1>3, <2>2
  <2> HIDE DEF vs
  <2> QED
    BY <2>2, <2>3, <2>4
<1> HIDE DEF vs
<1>5. VotersFor(vs)
  BY <1>4 DEF VoteInv, VotersFor
<1>6. ProxyOf(vs) = to /\ ApprovedBy(vs) = for
  BY <1>4, SameGraphs
<1>7. Matched(Tables, Nobody, to, 0, for, 0)
  BY DEF VoteInv
<1>8. to \in Proxies /\ for \in Approvals
      /\ \A w \in Voters : to[w] = vs[w].proxy /\ for[w] = vs[w].producers
  <2>1. Nobody \in Voters \cup {Nobody}
    OBVIOUS
  <2> HIDE DEF to, for
  <2>2. /\ ProxyOf(vs) \in Proxies /\ ApprovedBy(vs) \in Approvals
        /\ \A w \in Voters : ProxyOf(vs)[w] = vs[w].proxy /\ ApprovedBy(vs)[w] = vs[w].producers
    BY ONLY <1>5, <2>1, v \in Voters, ProxyGraphs
  <2> QED
    BY <1>6, <2>2
<1> HIDE DEF to, for
<1>9. /\ Matched(propagate_weight_change(vs, Tables, v), Nobody, to, 0, for, 0)
      /\ Keeps(Tables, propagate_weight_change(vs, Tables, v))
  <2>1. now \in Times /\ v # Nobody /\ 0 \in Nat
    BY NobodyAssumption DEF VoteInv
  <2>2. Nobody \in Voters =>
          Acyclic([w \in Voters |-> IF w = Nobody THEN v ELSE vs[w].proxy])
    BY NobodyAssumption
  <2> QED
    BY <1>5, <1>7, <1>8, <2>1, <2>2, Propagated
<1>10. Matched(s, Nobody, to, 0, for, 0) /\ Keeps(Tables, s)
  BY <1>7, <1>9, KeepsSame
<1> HIDE DEF s
<1>11. Matched(Tables', Nobody, to, 0, for, 0)
  BY <1>1, <1>10, Committed
<1>12. ProxyOf(voters') = to /\ ApprovedBy(voters') = for /\ VotersFor(voters')
  BY <1>1, <1>5, <1>6
<1>13. VoteInv'
  BY <1>1, <1>2, <1>11, <1>12, VoteInvNext DEF VoteInv
<1>14. SharesStay
  BY <1>1, <1>10 DEF SharesStay
<1> QED
  BY <1>13, <1>14

\* A vote moves the weight of the voter from its old choice to its new one.
LEMMA VoteproducerVotes ==
  ASSUME VoteInv, NEW v \in Voters, NEW change \in Int, NEW proxy \in Voters \cup {Nobody},
         NEW producers \in SUBSET Producers, voteproducer(v, change, proxy, producers)
  PROVE  VoteInv' /\ SharesStay
<1> DEFINE vs == [voters EXCEPT ![v].staked = @ + change]
           s == update_votes(vs, Tables, v, proxy, producers, TRUE)
           to == ProxyOf(vs)
           for == ApprovedBy(vs)
           to2 == [to EXCEPT ![v] = proxy]
           for2 == [for EXCEPT ![v] = producers]
<1>1. /\ voters' = [vs EXCEPT ![v].proxy = proxy, ![v].producers = producers]
      /\ Commit(s) /\ now' = now
      /\ vs[v].staked \in 0 .. MaxStake
      /\ proxy # Nobody => producers = {} /\ proxy # v
  BY DEF voteproducer, VoteAllowed
<1>2. ProxyInv'
  BY VoteStep DEF VoteInv
<1>3. voters \in [Voters -> VoterRows]
  BY DEF VoteInv, VotersFor
<1>4. /\ vs \in [Voters -> VoterRows]
      /\ \A w \in Voters : /\ vs[w].proxy = voters[w].proxy
                           /\ vs[w].producers = voters[w].producers
      /\ \A w \in Voters \ {v} : vs[w] = voters[w]
      /\ vs[v].staked \in Nat
  <2>1. vs[v] = [voters[v] EXCEPT !.staked = voters[v].staked + change]
    BY <1>3
  <2>2. voters[v].staked + change \in Int
    BY <1>3 DEF VoterRows
  <2>3. /\ vs[v] \in VoterRows /\ vs[v].proxy = voters[v].proxy
        /\ vs[v].producers = voters[v].producers
    BY <1>3, <2>1, <2>2 DEF VoterRows
  <2>4. \A w \in Voters \ {v} : vs[w] = voters[w]
    BY <1>3
  <2>5. vs \in [Voters -> VoterRows]
    BY <1>3, <2>3
  <2>6. vs[v].staked \in Nat
    BY <1>1, StakesAssumption
  <2> HIDE DEF vs
  <2> QED
    BY <2>3, <2>4, <2>5, <2>6
<1> HIDE DEF vs
<1>5. VotersFor(vs)
  BY <1>4 DEF VoteInv, VotersFor
<1>6. ProxyOf(voters) = to /\ ApprovedBy(voters) = for
  BY <1>4, SameGraphs
<1>7. Matched(Tables, Nobody, to, 0, for, 0) /\ Acyclic(to)
  BY <1>6, AcyclicNow DEF VoteInv, ProxyInv
<1>8. /\ voters' \in [Voters -> VoterRows]
      /\ \A w \in Voters \ {v} : voters'[w] = vs[w]
      /\ voters'[v].proxy = proxy /\ voters'[v].producers = producers
      /\ voters'[v].staked = vs[v].staked
  <2>1. voters'[v] = [vs[v] EXCEPT !.proxy = proxy, !.producers = producers]
    BY <1>1, <1>4
  <2>2. vs[v] \in VoterRows
    BY <1>4
  <2>3. /\ voters'[v] \in VoterRows /\ voters'[v].proxy = proxy
        /\ voters'[v].producers = producers /\ voters'[v].staked = vs[v].staked
    BY <2>1, <2>2 DEF VoterRows
  <2>4. \A w \in Voters \ {v} : voters'[w] = vs[w]
    BY <1>1, <1>4
  <2>5. voters' \in [Voters -> VoterRows]
    BY <1>1, <1>4, <2>3
  <2> QED
    BY <2>3, <2>4, <2>5
<1>9. VotersFor(voters')
  BY <1>1, <1>5, <1>8 DEF VotersFor
<1>10. ProxyOf(voters') = to2 /\ ApprovedBy(voters') = for2
  BY <1>8 DEF ProxyOf, ApprovedBy
<1>11. Acyclic(to2)
  BY <1>2, <1>10, AcyclicNow DEF ProxyInv
<1>12. Matched(s, Nobody, to2, 0, for2, 0) /\ Keeps(Tables, s)
  <2>1. now \in Times
    BY DEF VoteInv
  <2> QED
    BY <1>1, <1>5, <1>7, <1>11, <2>1, VoteUpdated
<1> HIDE DEF s, to, for, to2, for2
<1>13. Matched(Tables', Nobody, to2, 0, for2, 0)
  BY <1>1, <1>12, Committed
<1>14. VoteInv'
  BY <1>1, <1>2, <1>9, <1>10, <1>13, VoteInvNext DEF VoteInv
<1>15. SharesStay
  BY <1>1, <1>12 DEF SharesStay
<1> QED
  BY <1>14, <1>15

\* A voter whose stake changes votes again for what it voted for.
LEMMA PowerVotes ==
  ASSUME VoteInv, NEW v \in Voters, NEW change \in Int, update_voting_power(v, change)
  PROVE  VoteInv' /\ SharesStay
<1> DEFINE vs == [voters EXCEPT ![v].row = TRUE, ![v].staked = @ + change]
           proxy == vs[v].proxy
           producers == vs[v].producers
           votes == proxy # Nobody \/ producers # {}
           s == IF votes THEN update_votes(vs, Tables, v, proxy, producers, FALSE) ELSE Tables
           to == ProxyOf(vs)
           for == ApprovedBy(vs)
<1>1. /\ voters' = vs /\ Commit(s) /\ now' = now
      /\ vs[v].staked \in 0 .. MaxStake
      /\ votes => (proxy # Nobody => producers = {} /\ proxy # v)
  BY DEF update_voting_power, VoteAllowed
<1>2. ProxyInv'
  BY PowerStep DEF VoteInv
<1>3. voters \in [Voters -> VoterRows]
  BY DEF VoteInv, VotersFor
<1>4. /\ vs \in [Voters -> VoterRows]
      /\ \A w \in Voters : /\ vs[w].proxy = voters[w].proxy
                           /\ vs[w].producers = voters[w].producers
      /\ \A w \in Voters \ {v} : vs[w] = voters[w]
      /\ vs[v].staked \in Nat
  <2>1. /\ vs[v] = [voters[v] EXCEPT !.row = TRUE, !.staked = voters[v].staked + change]
        /\ voters[v] \in VoterRows
    BY <1>3
  <2>2. voters[v].staked + change \in Int
    BY <2>1 DEF VoterRows
  <2>3. /\ vs[v] \in VoterRows /\ vs[v].proxy = voters[v].proxy
        /\ vs[v].producers = voters[v].producers
    <3> HIDE DEF vs
    <3> QED
      BY <2>1, <2>2 DEF VoterRows
  <2>4. \A w \in Voters \ {v} : vs[w] = voters[w]
    BY <1>3
  <2>5. vs \in [Voters -> VoterRows]
    BY <1>3, <2>3
  <2>6. vs[v].staked \in Nat
    <3> HIDE DEF vs
    <3> QED
      BY <1>1, StakesAssumption
  <2> HIDE DEF vs
  <2> QED
    BY <2>3, <2>4, <2>5, <2>6
<1> HIDE DEF vs
<1>5. VotersFor(vs)
  BY <1>4 DEF VoteInv, VotersFor
<1>6. ProxyOf(voters) = to /\ ApprovedBy(voters) = for
  BY <1>4, SameGraphs
<1>7. Matched(Tables, Nobody, to, 0, for, 0) /\ Acyclic(to)
  BY <1>6, AcyclicNow DEF VoteInv, ProxyInv
<1>8. /\ proxy \in Voters \cup {Nobody} /\ producers \in SUBSET Producers
      /\ [to EXCEPT ![v] = proxy] = to /\ [for EXCEPT ![v] = producers] = for
  BY <1>4 DEF VoterRows, ProxyOf, ApprovedBy
<1> HIDE DEF proxy, producers
<1>9. Matched(s, Nobody, to, 0, for, 0) /\ Keeps(Tables, s)
  <2>1. CASE votes
    <3>1. now \in Times /\ Acyclic([to EXCEPT ![v] = proxy])
          /\ (proxy # Nobody => producers = {} /\ proxy # v)
      BY <1>1, <1>7, <1>8, <2>1 DEF VoteInv
    <3>2. /\ Matched(update_votes(vs, Tables, v, proxy, producers, FALSE), Nobody,
                     [to EXCEPT ![v] = proxy], 0, [for EXCEPT ![v] = producers], 0)
          /\ Keeps(Tables, update_votes(vs, Tables, v, proxy, producers, FALSE))
      BY <1>5, <1>7, <1>8, <3>1, VoteUpdated
    <3> QED
      BY <1>8, <2>1, <3>2
  <2>2. CASE ~votes
    BY <1>7, <2>2, KeepsSame
  <2> QED
    BY <2>1, <2>2
<1> HIDE DEF s, to, for
<1>10. Matched(Tables', Nobody, to, 0, for, 0)
  BY <1>1, <1>9, Committed
<1>11. VotersFor(voters') /\ ProxyOf(voters') = to /\ ApprovedBy(voters') = for
  BY <1>1, <1>5 DEF to, for
<1>12. VoteInv'
  BY <1>1, <1>2, <1>10, <1>11, VoteInvNext DEF VoteInv
<1>13. SharesStay
  BY <1>1, <1>9 DEF SharesStay
<1> QED
  BY <1>12, <1>13

\* A row that is registered or claims keeps its votes.
LEMMA ProducerRowSet ==
  ASSUME NEW s \in TableSet, NEW p \in Producers, NEW row \in ProducerRows,
         row.total_votes = s.prods[p].total_votes
  PROVE  LET t == [s EXCEPT !.prods[p] = row]
         IN /\ t \in TableSet /\ t.weight = s.weight /\ t.totals = s.totals /\ t.ok = s.ok
            /\ t.prods = [s.prods EXCEPT ![p] = row]
            /\ \A q \in Producers : t.prods[q].total_votes = s.prods[q].total_votes
<1> DEFINE t == [s EXCEPT !.prods[p] = row]
<1>1. s.prods \in [Producers -> ProducerRows]
  BY TableFields
<1>2. /\ t \in TableSet /\ t.weight = s.weight /\ t.totals = s.totals /\ t.ok = s.ok
      /\ t.prods = [s.prods EXCEPT ![p] = row]
  BY <1>1 DEF TableSet
<1> HIDE DEF t
<1>3. t.prods[p] = row /\ \A q \in Producers \ {p} : t.prods[q] = s.prods[q]
  BY <1>1, <1>2
<1> QED
  BY <1>2, <1>3 DEF t

\* The row of a producer in the second table.
LEMMA Row2Type ==
  ASSUME now \in Int, NEW p \in ProducerRows
  PROVE  /\ Row2(p) \in ProducerRows /\ Row2(p).total_votes = p.total_votes
         /\ Row2(p).row = p.row /\ Row2(p).row2 = TRUE /\ Row2(p).is_active = p.is_active
         /\ Row2(p).last_claim_time = p.last_claim_time
         /\ Row2(p).votepay_share = 0 /\ Row2(p).last_votepay_share_update = now
<1> DEFINE q == Row2(p)
<1>1. q = [p EXCEPT !.row2 = TRUE, !.votepay_share = 0, !.last_votepay_share_update = now]
  BY DEF Row2
<1> HIDE DEF q
<1>2. /\ q.total_votes = p.total_votes /\ q.last_claim_time = p.last_claim_time
      /\ q.votepay_share = 0 /\ q.last_votepay_share_update = now
  BY <1>1 DEF ProducerRows
<1>3. q.row = p.row /\ q.is_active = p.is_active
  BY <1>1 DEF ProducerRows
<1>4. q.row2 = TRUE
  BY <1>1 DEF ProducerRows
<1>5. q \in ProducerRows
  <2>1. q = [row |-> p.row, row2 |-> TRUE, is_active |-> p.is_active,
             total_votes |-> p.total_votes, last_claim_time |-> p.last_claim_time,
             votepay_share |-> 0, last_votepay_share_update |-> now]
    BY <1>1 DEF ProducerRows
  <2>2. /\ p.row \in BOOLEAN /\ p.is_active \in BOOLEAN /\ p.total_votes \in Int
        /\ p.last_claim_time \in Int
    BY DEF ProducerRows
  <2> QED
    BY <2>1, <2>2 DEF ProducerRows
<1> QED
  BY <1>2, <1>3, <1>4, <1>5 DEF q

\* A step that keeps the voters, their weights and all votes keeps the invariant.
LEMMA SameVotes ==
  ASSUME VoteInv, NEW s \in TableSet, Commit(s), s.weight = weight,
         \A q \in Producers : s.prods[q].total_votes = prods[q].total_votes,
         s.totals.vote_weight = totals.vote_weight,
         voters' = voters, now' \in Times
  PROVE  VoteInv'
<1>1. Matched(s, Nobody, ProxyOf(voters), 0, ApprovedBy(voters), 0)
  <2>1. /\ s.weight = Tables.weight
        /\ \A q \in Producers : s.prods[q].total_votes = Tables.prods[q].total_votes
        /\ s.totals.vote_weight = Tables.totals.vote_weight
    BY DEF Tables
  <2>2. Matched(Tables, Nobody, ProxyOf(voters), 0, ApprovedBy(voters), 0)
    BY DEF VoteInv
  <2> QED
    BY <2>1, <2>2, MatchedVotes
<1>2. Matched(Tables', Nobody, ProxyOf(voters'), 0, ApprovedBy(voters'), 0)
  BY <1>1, Committed
<1>3. ProxyInv' /\ VotersFor(voters')
  BY DEF VoteInv, ProxyInv, VotersOK, NoProxyCycle
<1> QED
  BY <1>2, <1>3, VoteInvNext

\* The tables that the invariant describes have their types.
LEMMA TablesType ==
  ASSUME VoteInv
  PROVE  /\ Tables \in TableSet /\ now \in Int
         /\ Tables.weight = weight /\ Tables.prods = prods /\ Tables.totals = totals
         /\ \A p \in Producers : prods[p] \in ProducerRows
<1>1. Tables \in TableSet /\ now \in Int
  BY DEF VoteInv, Matched, Times
<1>2. Tables.weight = weight /\ Tables.prods = prods /\ Tables.totals = totals
  BY DEF Tables
<1> QED
  BY <1>1, <1>2, TableFields

\* A registration changes no votes.
LEMMA RegproducerVotes ==
  ASSUME VoteInv, NEW p \in Producers, regproducer(p)
  PROVE  VoteInv' /\ ActivationStays
<1> DEFINE old == prods[p]
           claim == IF old.last_claim_time = Never THEN now ELSE old.last_claim_time
           active == [old EXCEPT !.row = TRUE, !.is_active = TRUE, !.last_claim_time = claim]
           row == IF old.row2 THEN active ELSE Row2(active)
           mid == [Tables EXCEPT !.prods[p] = row]
           s == IF old.row /\ ~old.row2 THEN update_total_votepay_share(mid, 0, old.total_votes)
                ELSE mid
<1>1. Commit(s) /\ voters' = voters /\ now' = now
  BY DEF regproducer
<1>2. /\ Tables \in TableSet /\ now \in Int /\ old \in ProducerRows
      /\ Tables.weight = weight /\ Tables.prods = prods /\ Tables.totals = totals
  BY TablesType
<1> HIDE DEF old
<1>3. claim \in Int
  BY <1>2 DEF ProducerRows
<1> HIDE DEF claim
<1>4. active \in ProducerRows /\ active.total_votes = old.total_votes
  BY <1>2, <1>3 DEF ProducerRows
<1> HIDE DEF active
<1>5. row \in ProducerRows /\ row.total_votes = Tables.prods[p].total_votes
  BY <1>2, <1>4, Row2Type DEF old
<1> HIDE DEF row
<1>6. /\ mid \in TableSet /\ mid.weight = Tables.weight /\ mid.totals = Tables.totals
      /\ \A q \in Producers : mid.prods[q].total_votes = Tables.prods[q].total_votes
  BY <1>2, <1>5, ProducerRowSet
<1> HIDE DEF mid
<1>7. /\ s \in TableSet /\ s.weight = mid.weight /\ s.prods = mid.prods
      /\ s.totals.vote_weight = mid.totals.vote_weight
      /\ s.totals.activated = mid.totals.activated
      /\ s.totals.thresh_time = mid.totals.thresh_time
  <2>1. old.total_votes \in Int /\ 0 \in Int
    BY <1>2 DEF ProducerRows
  <2> DEFINE votes == old.total_votes
             u == update_total_votepay_share(mid, 0, votes)
  <2>2. s = IF old.row /\ ~old.row2 THEN u ELSE mid
    OBVIOUS
  <2>3. votes \in Int /\ 0 \in Int
    BY <2>1
  <2> HIDE DEF votes, s
  <2>4. /\ u \in TableSet /\ u.weight = mid.weight /\ u.prods = mid.prods
        /\ u.totals.vote_weight = mid.totals.vote_weight
        /\ u.totals.activated = mid.totals.activated
        /\ u.totals.thresh_time = mid.totals.thresh_time
    BY <1>2, <1>6, <2>3, TotalShareUpdated
  <2> HIDE DEF u
  <2> QED
    BY <1>6, <2>2, <2>4
<1> HIDE DEF s
<1>8. now' \in Times
  BY <1>1 DEF VoteInv
<1>9. ActivationStays
  <2>1. StaysActive(Tables, s)
    BY <1>6, <1>7, SameActivation
  <2> QED
    BY <1>1, <2>1 DEF ActivationStays
<1>10. VoteInv'
  BY <1>1, <1>2, <1>6, <1>7, <1>8, SameVotes
<1> QED
  BY <1>9, <1>10

\* Neither does the end of a registration.
LEMMA UnregprodVotes ==
  ASSUME VoteInv, NEW p \in Producers, unregprod(p)
  PROVE  VoteInv'
<1> DEFINE row == [prods[p] EXCEPT !.is_active = FALSE]
           s == [Tables EXCEPT !.prods[p] = row]
<1>1. /\ prods' = [prods EXCEPT ![p] = row]
      /\ weight' = weight /\ totals' = totals /\ voters' = voters /\ now' = now
  BY DEF unregprod
<1>2. /\ Tables \in TableSet /\ now \in Int /\ prods[p] \in ProducerRows
      /\ Tables.weight = weight /\ Tables.prods = prods /\ Tables.totals = totals
  BY TablesType
<1>3. row \in ProducerRows /\ row.total_votes = Tables.prods[p].total_votes
  BY <1>2 DEF ProducerRows
<1> HIDE DEF row
<1>4. /\ s \in TableSet /\ s.weight = Tables.weight /\ s.totals = Tables.totals /\ s.ok = Tables.ok
      /\ s.prods = [Tables.prods EXCEPT ![p] = row]
      /\ \A q \in Producers : s.prods[q].total_votes = Tables.prods[q].total_votes
  BY <1>2, <1>3, ProducerRowSet
<1>5. Tables.ok
  BY DEF Tables
<1> HIDE DEF s
<1>6. Commit(s)
  BY <1>1, <1>2, <1>4, <1>5 DEF Commit
<1>7. now' \in Times
  BY <1>1 DEF VoteInv
<1> QED
  BY <1>1, <1>2, <1>4, <1>6, <1>7, SameVotes

\* Nor a claim.
LEMMA ClaimVotes ==
  ASSUME VoteInv, NEW p \in Producers, claimrewards(p)
  PROVE  VoteInv' /\ ActivationStays
<1> DEFINE old == prods[p]
           row2 == IF old.row2 THEN old ELSE Row2(old)
           updated_after == ~old.row2 \/ UpdatedAfter(old)
           share == NewShare(row2, IF updated_after THEN 0 ELSE old.total_votes)
           back == IF updated_after THEN old.total_votes ELSE 0
           row == [ShareUpdated(row2, TRUE) EXCEPT !.last_claim_time = now]
           mid == [Tables EXCEPT !.prods[p] = row]
           s == update_total_votepay_share(mid, - share, back)
<1>1. Commit(s) /\ voters' = voters /\ now' = now
  BY DEF claimrewards
<1>2. /\ Tables \in TableSet /\ now \in Int /\ old \in ProducerRows
      /\ Tables.weight = weight /\ Tables.prods = prods /\ Tables.totals = totals
  BY TablesType
<1> HIDE DEF old
<1>3. row2 \in ProducerRows /\ row2.total_votes = old.total_votes /\ old.total_votes \in Int
  <2>1. old.total_votes \in Int
    BY <1>2 DEF ProducerRows
  <2> QED
    BY <1>2, <2>1, Row2Type
<1>4. - share \in Int /\ back \in Int
  <2>1. (IF updated_after THEN 0 ELSE old.total_votes) \in Int
    BY <1>3
  <2> HIDE DEF row2, updated_after
  <2>2. share \in Int
    BY <1>2, <1>3, <2>1, ShareType
  <2> HIDE DEF share
  <2> QED
    BY <1>3, <2>2
<1> HIDE DEF row2, share, back
<1>5. row \in ProducerRows /\ row.total_votes = Tables.prods[p].total_votes
  <2> DEFINE up == ShareUpdated(row2, TRUE)
  <2>1. TRUE \in BOOLEAN
    OBVIOUS
  <2>2. up \in ProducerRows /\ up.total_votes = row2.total_votes
    BY <1>2, <1>3, <2>1, ShareUpdatedType
  <2>3. row = [up EXCEPT !.last_claim_time = now]
    OBVIOUS
  <2> HIDE DEF up, row
  <2>4. row \in ProducerRows /\ row.total_votes = up.total_votes
    BY <1>2, <2>2, <2>3 DEF ProducerRows
  <2> QED
    BY <1>2, <1>3, <2>2, <2>4 DEF old
<1> HIDE DEF row
<1>6. /\ mid \in TableSet /\ mid.weight = Tables.weight /\ mid.totals = Tables.totals
      /\ \A q \in Producers : mid.prods[q].total_votes = Tables.prods[q].total_votes
  BY <1>2, <1>5, ProducerRowSet
<1> HIDE DEF mid
<1>7. /\ s \in TableSet /\ s.weight = mid.weight /\ s.prods = mid.prods
      /\ s.totals.vote_weight = mid.totals.vote_weight
      /\ s.totals.activated = mid.totals.activated
      /\ s.totals.thresh_time = mid.totals.thresh_time
  <2> DEFINE taken == - share
  <2>1. taken \in Int
    BY <1>4
  <2> HIDE DEF taken
  <2>2. LET t == update_total_votepay_share(mid, taken, back)
        IN /\ t \in TableSet /\ t.weight = mid.weight /\ t.prods = mid.prods
           /\ t.totals.vote_weight = mid.totals.vote_weight
           /\ t.totals.activated = mid.totals.activated
           /\ t.totals.thresh_time = mid.totals.thresh_time
    BY <1>2, <1>4, <1>6, <2>1, TotalShareUpdated
  <2> QED
    BY <2>2 DEF taken
<1> HIDE DEF s
<1>8. now' \in Times
  BY <1>1 DEF VoteInv
<1>9. ActivationStays
  <2>1. StaysActive(Tables, s)
    BY <1>6, <1>7, SameActivation
  <2> QED
    BY <1>1, <2>1 DEF ActivationStays
<1>10. VoteInv'
  BY <1>1, <1>2, <1>6, <1>7, <1>8, SameVotes
<1> QED
  BY <1>9, <1>10

\* Steps of the pay or of the clock alone keep the invariant.
LEMMA VoteInvUnchanged ==
  ASSUME VoteInv, voters' = voters, weight' = weight, prods' = prods, totals' = totals,
         now' \in Times
  PROVE  VoteInv'
<1>1. Commit(Tables)
  BY DEF Commit, Tables
<1>2. /\ Tables \in TableSet /\ Tables.weight = weight
      /\ \A q \in Producers : Tables.prods[q].total_votes = prods[q].total_votes
      /\ Tables.totals.vote_weight = totals.vote_weight
  BY TablesType
<1> QED
  BY <1>1, <1>2, SameVotes

\* At the start nobody has voted.
LEMMA VoteInvInit == PayInit => VoteInv
<1> SUFFICES ASSUME PayInit PROVE VoteInv
  OBVIOUS
<1>1. now = 1 /\ now \in Times
  BY TimeAssumption DEF PayInit, Init, Times
<1>2. ProxyInv
  BY ProxyInit DEF PayInit
<1>3. VotersFor(voters)
  <2>1. voters \in [Voters -> VoterRows]
    BY <1>2 DEF ProxyInv, VotersOK
  <2>2. \A u \in Voters : voters[u].staked \in Nat /\ voters[u].proxy = Nobody
    BY StakesAssumption DEF PayInit, Init, NoVoter
  <2> QED
    BY <2>1, <2>2 DEF VotersFor
<1>4. /\ \A v \in Voters : voters[v].proxy = Nobody /\ voters[v].producers = {}
      /\ weight = [v \in Voters |-> [last |-> 0, proxied |-> 0]]
  BY DEF PayInit, Init, NoVoter
<1>5. /\ prods \in [Producers -> ProducerRows]
      /\ \A p \in Producers : prods[p].total_votes = 0
  <2> DEFINE legacy == [NoProducer EXCEPT !.row = TRUE, !.is_active = TRUE, !.last_claim_time = 1]
  <2>1. NoProducer \in ProducerRows /\ NoProducer.total_votes = 0
    BY DEF NoProducer, ProducerRows, Never
  <2>2. legacy \in ProducerRows /\ legacy.total_votes = 0
    <3>1. legacy = [NoProducer EXCEPT !.row = TRUE, !.is_active = TRUE, !.last_claim_time = 1]
      OBVIOUS
    <3> HIDE DEF legacy
    <3>2. legacy.total_votes = NoProducer.total_votes
      BY <2>1, <3>1 DEF ProducerRows
    <3>3. legacy = [row |-> TRUE, row2 |-> NoProducer.row2, is_active |-> TRUE,
                    total_votes |-> NoProducer.total_votes, last_claim_time |-> 1,
                    votepay_share |-> NoProducer.votepay_share,
                    last_votepay_share_update |-> NoProducer.last_votepay_share_update]
      BY <2>1, <3>1 DEF ProducerRows
    <3>4. /\ NoProducer.row2 \in BOOLEAN /\ NoProducer.total_votes \in Int
          /\ NoProducer.votepay_share \in Int /\ NoProducer.last_votepay_share_update \in Int
      BY <2>1 DEF ProducerRows
    <3> QED
      BY <2>1, <3>2, <3>3, <3>4 DEF ProducerRows
  <2>3. prods = [p \in Producers |-> IF p \in Legacy THEN legacy ELSE NoProducer]
    BY DEF PayInit, Init
  <2> HIDE DEF legacy
  <2> QED
    BY <2>1, <2>2, <2>3
<1>6. totals \in TotalRows /\ totals.vote_weight = 0
  BY DEF PayInit, Init, TotalRows, Never
<1>7. weight \in [Voters -> WeightRows]
  BY <1>4 DEF WeightRows
<1>8. Tables \in TableSet /\ WeightsOK(Tables)
  <2>1. Tables \in TableSet
    BY <1>5, <1>6, <1>7 DEF Tables, TableSet
  <2>2. Even(0)
    BY EvenNumbers
  <2> HIDE DEF Even
  <2>3. \A w \in Voters : Tables.weight[w].last = 0 /\ Tables.weight[w].proxied = 0
    BY <1>4 DEF Tables
  <2> QED
    BY <2>1, <2>2, <2>3 DEF WeightsOK
<1>9. ASSUME NEW S \in SUBSET Voters PROVE SumOver(Counts(Tables, Nobody, 0), S) = 0
  <2>1. \A w \in S : Counts(Tables, Nobody, 0)[w] = 0
    BY <1>4 DEF Counts, Tables
  <2> QED
    BY <2>1, FinitePeople, SumOverZero
<1>10. ProxiedMatch(Tables, Nobody, ProxyOf(voters), 0)
  BY <1>4, <1>9 DEF ProxiedMatch, Tables
<1>11. VotesMatch(Tables, Nobody, ApprovedBy(voters), 0)
  BY <1>5, <1>9 DEF VotesMatch, Tables
<1>12. TotalMatch(Tables)
  <2>1. \A p \in Producers : VotesOf(Tables)[p] = 0
    BY <1>5 DEF VotesOf, Tables
  <2>2. SumOver(VotesOf(Tables), Producers) = 0
    BY <2>1, FinitePeople, SumOverZero
  <2> QED
    BY <1>6, <2>2 DEF TotalMatch, Tables
<1> QED
  BY <1>1, <1>2, <1>3, <1>8, <1>10, <1>11, <1>12 DEF VoteInv, Matched

\* No step makes the totals differ from what they stand for.
LEMMA VoteInvStep == VoteInv /\ [PayNext]_payvars => VoteInv'
<1> SUFFICES ASSUME VoteInv, [PayNext]_payvars PROVE VoteInv'
  OBVIOUS
<1>0. now \in Times
  BY DEF VoteInv
<1>1. ASSUME NEW v \in Voters, NEW isproxy \in BOOLEAN, regproxy(v, isproxy)
      PROVE  VoteInv'
  BY <1>1, RegproxyVotes
<1>2. ASSUME NEW v \in Voters, NEW change \in Stakes, update_voting_power(v, change)
      PROVE  VoteInv'
  BY <1>2, PowerVotes, StakesAssumption
<1>3. ASSUME NEW v \in Voters, NEW change \in Stakes \cup {0},
             NEW proxy \in Voters \cup {Nobody}, NEW producers \in SUBSET Producers,
             voteproducer(v, change, proxy, producers)
      PROVE  VoteInv'
  BY <1>3, VoteproducerVotes, StakesAssumption
<1>4. CASE Vote
  BY <1>1, <1>2, <1>3, <1>4 DEF Vote
<1>5. CASE Register
  BY <1>5, RegproducerVotes, UnregprodVotes DEF Register
<1>6. CASE Tick
  <2>1. now' \in Times
    BY <1>0, <1>6, TimeAssumption DEF Tick, Times
  <2> QED
    BY <1>6, <2>1, VoteInvUnchanged DEF Tick
<1>7. ASSUME NEW p \in Producers, claimrewards(p) PROVE VoteInv'
  BY <1>7, ClaimVotes
<1>8. ASSUME UNCHANGED vars PROVE VoteInv'
  BY <1>0, <1>8, VoteInvUnchanged DEF vars
<1>9. CASE Pay
  BY <1>7, <1>8, <1>9 DEF Pay, onblock, updtrevision
<1>10. CASE UNCHANGED payvars
  BY <1>8, <1>10 DEF payvars
<1> QED
  BY <1>4, <1>5, <1>6, <1>9, <1>10 DEF PayNext, Next

\* For any number of voters, proxies and producers and any sequence of votes,
\* registrations and changes of stake, the votes of the producers, the weights
\* that proxies vote for others and the weight of all votes, which update_votes
\* and propagate_weight_change keep by adding differences, are the sums of the
\* weights that they stand for.
THEOREM VotesAlwaysAddUp == PaySpec => []VotesAddUp
<1>1. PayInit => VoteInv
  BY VoteInvInit
<1>2. VoteInv /\ [PayNext]_payvars => VoteInv'
  BY VoteInvStep
<1>3. VoteInv => VotesAddUp
  BY VoteInvAddsUp
<1> QED
  BY <1>1, <1>2, <1>3, PTL DEF PaySpec

-----------------------------------------------------------------------------
(* The bucket of the vote pay.                                             *)

VotePayInv ==
    /\ PayInv /\ VoteInv
    /\ pay.pervote_bucket \in Nat /\ acct.vpay = pay.pervote_bucket

\* What is issued for votes is never negative.
LEMMA VoteIssuedType == PayOK => ToVotePay \in Nat
<1> SUFFICES ASSUME PayOK PROVE ToVotePay \in Nat
  OBVIOUS
<1>1. Issued \in Nat
  <2>1. CASE pay.last_fill # Never /\ now > pay.last_fill
    <3>1. now - pay.last_fill \in Nat
      BY <2>1 DEF PayOK
    <3> QED
      BY <2>1, <3>1, PayAssumption DEF Issued
  <2>2. CASE ~(pay.last_fill # Never /\ now > pay.last_fill)
    BY <2>2 DEF Issued
  <2> QED
    BY <2>1, <2>2
<1>2. ToProducers \in Nat
  BY <1>1 DEF ToProducers
<1> QED
  BY <1>2 DEF ToVotePay, ToBlockPay

\* A claim takes from the bucket of votes at most what is in it: before revision
\* 1 the votes of the producer are among all votes, after it the code caps the
\* part that the shares give.
LEMMA VotePayStep ==
  ASSUME VotePayInv, NEW p \in Producers, claimrewards(p)
  PROVE  /\ pay'.pervote_bucket \in Nat /\ acct'.vpay = pay'.pervote_bucket
<1> DEFINE old == prods[p]
           row2 == IF old.row2 THEN old ELSE Row2(old)
           updated_after == ~old.row2 \/ UpdatedAfter(old)
           share == NewShare(row2, IF updated_after THEN 0 ELSE old.total_votes)
           shared == update_total_votepay_share(Tables, 0, 0)
           bucket == pay.pervote_bucket + ToVotePay
           amount == IF pay.revision = 0 THEN PayByVotes(p, bucket)
                     ELSE IF Crossed(old) THEN 0
                     ELSE PayByShare(share, shared.totals.votepay_share, bucket)
           paid == EnoughToPay(amount)
<1>1. /\ pay'.pervote_bucket = bucket - paid
      /\ acct'.vpay = acct.vpay + ToVotePay - paid
  BY DEF claimrewards, VotePayInv, PayInv, PayOK
<1>2. bucket \in Nat /\ acct.vpay + ToVotePay = bucket
  BY VoteIssuedType DEF VotePayInv, PayInv, PayOK
<1>3. /\ Tables \in TableSet /\ now \in Int /\ old \in ProducerRows
      /\ Tables.weight = weight /\ Tables.prods = prods /\ Tables.totals = totals
  BY TablesType DEF VotePayInv
<1> HIDE DEF bucket
<1>4. PayByVotes(p, bucket) \in 0 .. bucket
  <2>1. /\ prods[p].total_votes \in Nat /\ totals.vote_weight \in Nat
        /\ prods[p].total_votes <= totals.vote_weight
    <3>1. Matched(Tables, Nobody, ProxyOf(voters), 0, ApprovedBy(voters), 0) /\ 0 \in Nat
      BY DEF VotePayInv, VoteInv
    <3>2. /\ Tables.prods[p].total_votes \in Nat
          /\ Tables.prods[p].total_votes <= Tables.totals.vote_weight
          /\ Tables.totals.vote_weight \in Nat
      BY <3>1, MatchedNat
    <3> QED
      BY <1>3, <3>2
  <2>2. CASE totals.vote_weight > 0
    BY <1>2, <2>1, <2>2, PartOfBucket DEF PayByVotes
  <2>3. CASE ~(totals.vote_weight > 0)
    BY <1>2, <2>3 DEF PayByVotes
  <2> QED
    BY <2>2, <2>3
<1>5. share \in Int /\ shared.totals.votepay_share \in Int
  <2>1. share \in Int
    <3>1. row2 \in ProducerRows
      BY <1>3, Row2Type
    <3>2. (IF updated_after THEN 0 ELSE old.total_votes) \in Int
      BY <1>3 DEF ProducerRows
    <3> HIDE DEF old, row2, updated_after
    <3> QED
      BY <1>3, <3>1, <3>2, ShareType
  <2>2. shared \in TableSet
    BY <1>3, TotalShareUpdated
  <2> HIDE DEF shared
  <2>3. shared.totals \in TotalRows
    BY <2>2, TableFields
  <2> QED
    BY <2>1, <2>3 DEF TotalRows
<1> HIDE DEF old, share, shared
<1>6. PayByShare(share, shared.totals.votepay_share, bucket) \in Int
      /\ PayByShare(share, shared.totals.votepay_share, bucket) <= bucket
  <2> DEFINE total == shared.totals.votepay_share
             part == (share * bucket) \div total
  <2>1. CASE total > 0
    <3>1. share * bucket \in Int
      BY <1>2, <1>5
    <3>2. part \in Int
      BY <1>5, <2>1, <3>1
    <3>3. PayByShare(share, total, bucket) = Least(bucket, part)
      BY <2>1 DEF PayByShare
    <3> HIDE DEF part
    <3> QED
      BY <1>2, <3>2, <3>3 DEF Least
  <2>2. CASE ~(total > 0)
    BY <1>2, <2>2 DEF PayByShare
  <2> QED
    BY <2>1, <2>2
<1>7. amount \in Int /\ amount <= bucket
  BY <1>2, <1>4, <1>6
<1> HIDE DEF amount
<1>8. paid \in 0 .. bucket
  BY <1>2, <1>7, PayAssumption DEF EnoughToPay
<1> HIDE DEF paid
<1>9. acct.vpay \in Nat /\ ToVotePay \in Nat
  BY VoteIssuedType DEF VotePayInv, PayInv
<1> QED
  BY <1>1, <1>2, <1>8, <1>9

\* Only a claim moves the bucket of votes.
LEMMA VotePayInvStep == VotePayInv /\ [PayNext]_payvars => VotePayInv'
<1> SUFFICES ASSUME VotePayInv, [PayNext]_payvars PROVE VotePayInv'
  OBVIOUS
<1>1. PayInv' /\ VoteInv'
  BY PayStep, VoteInvStep DEF VotePayInv
<1>2. ASSUME NEW p \in Producers, claimrewards(p) PROVE VotePayInv'
  BY <1>1, <1>2, VotePayStep DEF VotePayInv
<1>3. ASSUME NEW p \in 0 .. ProducerCount, NEW minute_passed \in BOOLEAN,
             NEW accepted \in BOOLEAN, onblock(p, minute_passed, accepted)
      PROVE  VotePayInv'
  <2>1. pay'.pervote_bucket = pay.pervote_bucket /\ acct' = acct
    BY <1>3 DEF onblock, VotePayInv, PayInv, PayOK
  <2> QED
    BY <1>1, <2>1 DEF VotePayInv
<1>4. ASSUME updtrevision PROVE VotePayInv'
  <2>1. pay'.pervote_bucket = pay.pervote_bucket /\ acct' = acct
    BY <1>4 DEF updtrevision, VotePayInv, PayInv, PayOK
  <2> QED
    BY <1>1, <2>1 DEF VotePayInv
<1>5. ASSUME UNCHANGED <<pay, acct>> PROVE VotePayInv'
  BY <1>1, <1>5 DEF VotePayInv
<1>6. CASE Pay
  BY <1>2, <1>3, <1>4, <1>6 DEF Pay
<1>7. CASE UNCHANGED payvars
  BY <1>5, <1>7 DEF payvars
<1>8. CASE Next /\ UNCHANGED <<unpaid, pay, acct, schedule>>
  BY <1>5, <1>8
<1> QED
  BY <1>6, <1>7, <1>8 DEF PayNext

\* For any votes, shares and claims, what producers are paid for votes is in
\* the account, before and after the revision.
THEOREM VotePayIsCovered == PaySpec => []VotePayCovered
<1>1. PayInit => VotePayInv
  <2>1. PayInit => PayInv /\ VoteInv
    BY PayInvInit, VoteInvInit
  <2>2. PayInit => pay.pervote_bucket = 0 /\ acct.vpay = 0
    BY DEF PayInit
  <2> QED
    BY <2>1, <2>2 DEF VotePayInv
<1>2. VotePayInv /\ [PayNext]_payvars => VotePayInv'
  BY VotePayInvStep
<1>3. VotePayInv => VotePayCovered
  BY DEF VotePayInv, VotePayCovered
<1> QED
  BY <1>1, <1>2, <1>3, PTL DEF PaySpec

-----------------------------------------------------------------------------
(* Shares: what registrations, claims and time do to them.                 *)

\* What a row counts for in the rate and in the total of the shares.
RateOf(p) == IF IsCounted(p) THEN p.total_votes ELSE 0
PartOf(p, t) == IF IsCounted(p) THEN ShareAt(p, t) ELSE 0

RatesOf(s) == [p \in Producers |-> RateOf(s.prods[p])]
PartsOf(s, t) == [p \in Producers |-> PartOf(s.prods[p], t)]

\* The sums over the counted rows are sums over all producers.
LEMMA SumsOfAll ==
  ASSUME NEW t \in Int, NEW s, \A p \in Producers : RowOK(s.prods[p], t)
  PROVE  /\ SumOver(VotesOf(s), CountedRows(s)) = SumOver(RatesOf(s), Producers)
         /\ SumOver(SharesOf(s, t), CountedRows(s)) = SumOver(PartsOf(s, t), Producers)
         /\ SumOver(RatesOf(s), Producers) \in Nat /\ SumOver(PartsOf(s, t), Producers) \in Nat
         /\ \A p \in Producers : RatesOf(s)[p] \in Nat /\ PartsOf(s, t)[p] \in Nat
<1> DEFINE G == CountedRows(s)
           f == VotesOf(s)
           h == SharesOf(s, t)
           r == RatesOf(s)
           k == PartsOf(s, t)
<1>1. G \in SUBSET Producers /\ IsFiniteSet(Producers)
  BY FinitePeople DEF CountedRows
<1>2. \A p \in Producers : s.prods[p].total_votes \in Nat /\ ShareAt(s.prods[p], t) \in Nat
  BY ShareAtType DEF RowOK
<1>3. \A p \in G : f[p] \in Int /\ h[p] \in Int /\ r[p] = f[p] /\ k[p] = h[p]
  BY <1>2 DEF CountedRows, VotesOf, SharesOf, RatesOf, PartsOf, RateOf, PartOf
<1>4. \A p \in Producers \ G : r[p] = 0 /\ k[p] = 0
  BY DEF CountedRows, RatesOf, PartsOf, RateOf, PartOf
<1>5. \A p \in Producers : r[p] \in Nat /\ k[p] \in Nat
  BY <1>2 DEF RatesOf, PartsOf, RateOf, PartOf
<1> HIDE DEF G, f, h, r, k
<1>6. SumOver(r, Producers) = SumOver(f, G) /\ SumOver(k, Producers) = SumOver(h, G)
  BY <1>1, <1>3, <1>4, SumOverPart
<1>7. SumOver(r, Producers) \in Nat /\ SumOver(k, Producers) \in Nat
  BY <1>1, <1>5, SumOverNat
<1> QED
  BY <1>5, <1>6, <1>7 DEF G, f, h, r, k

\* What the totals stand for.
RowsOK(s, t) == \A p \in Producers : RowOK(s.prods[p], t)
RateSum(s) == SumOver(VotesOf(s), CountedRows(s))
ShareSum(s, t) == SumOver(SharesOf(s, t), CountedRows(s))

\* If one row changes, the sums change by what it counts for.
LEMMA OneRowSums ==
  ASSUME NEW t \in Int, NEW s, NEW u, NEW p \in Producers, RowsOK(s, t), RowOK(u.prods[p], t),
         \A q \in Producers \ {p} : u.prods[q] = s.prods[q]
  PROVE  /\ RowsOK(u, t)
         /\ RateSum(u) = RateSum(s) + (RateOf(u.prods[p]) - RateOf(s.prods[p]))
         /\ ShareSum(u, t) = ShareSum(s, t) + (PartOf(u.prods[p], t) - PartOf(s.prods[p], t))
         /\ RateSum(u) \in Nat /\ ShareSum(u, t) \in Nat
<1>1. RowsOK(u, t)
  BY DEF RowsOK
<1>2. /\ RateSum(s) = SumOver(RatesOf(s), Producers)
      /\ ShareSum(s, t) = SumOver(PartsOf(s, t), Producers)
      /\ SumOver(RatesOf(s), Producers) \in Nat /\ SumOver(PartsOf(s, t), Producers) \in Nat
      /\ \A q \in Producers : RatesOf(s)[q] \in Nat /\ PartsOf(s, t)[q] \in Nat
  BY SumsOfAll DEF RowsOK, RateSum, ShareSum
<1>3. /\ RateSum(u) = SumOver(RatesOf(u), Producers)
      /\ ShareSum(u, t) = SumOver(PartsOf(u, t), Producers)
      /\ SumOver(RatesOf(u), Producers) \in Nat /\ SumOver(PartsOf(u, t), Producers) \in Nat
      /\ \A q \in Producers : RatesOf(u)[q] \in Nat /\ PartsOf(u, t)[q] \in Nat
  BY <1>1, SumsOfAll DEF RowsOK, RateSum, ShareSum
<1>4. /\ RatesOf(u)[p] = RateOf(u.prods[p]) /\ RatesOf(s)[p] = RateOf(s.prods[p])
      /\ PartsOf(u, t)[p] = PartOf(u.prods[p], t) /\ PartsOf(s, t)[p] = PartOf(s.prods[p], t)
      /\ \A q \in Producers : q # p => /\ RatesOf(u)[q] = RatesOf(s)[q]
                                       /\ PartsOf(u, t)[q] = PartsOf(s, t)[q]
  BY DEF RatesOf, PartsOf
<1>5. IsFiniteSet(Producers)
  BY FinitePeople
<1>6. SumOver(RatesOf(u), Producers)
        = SumOver(RatesOf(s), Producers) + (RatesOf(u)[p] - RatesOf(s)[p])
  BY <1>2, <1>3, <1>4, <1>5, SumOverUpdate
<1>7. SumOver(PartsOf(u, t), Producers)
        = SumOver(PartsOf(s, t), Producers) + (PartsOf(u, t)[p] - PartsOf(s, t)[p])
  BY <1>2, <1>3, <1>4, <1>5, SumOverUpdate
<1> QED
  BY <1>1, <1>2, <1>3, <1>4, <1>6, <1>7

\* SharesMatch in these terms.
LEMMA SharesMatchSums ==
  ASSUME NEW t, NEW s
  PROVE  SharesMatch(s, t) <=>
           /\ RowsOK(s, t) /\ s.totals.change_rate = RateSum(s)
           /\ s.totals.votepay_share + s.totals.change_rate * (t - s.totals.last_vpay_state_update)
                = ShareSum(s, t)
BY DEF SharesMatch, RowsOK, RateSum, ShareSum

\* p counts for as much as before.
CountsSame(s, u, p, t) ==
    RateOf(u.prods[p]) = RateOf(s.prods[p]) /\ PartOf(u.prods[p], t) = PartOf(s.prods[p], t)

\* A row that counts for as much as before needs no change of the totals.
LEMMA RowCountsSame ==
  ASSUME NEW t \in Int, NEW s, NEW u, NEW p \in Producers, SharesMatch(s, t), RowOK(u.prods[p], t),
         \A q \in Producers \ {p} : u.prods[q] = s.prods[q], u.totals = s.totals,
         CountsSame(s, u, p, t)
  PROVE  SharesMatch(u, t)
<1>1. RowsOK(s, t)
  BY SharesMatchSums
<1>2. /\ RowsOK(u, t)
      /\ RateSum(u) = RateSum(s) + (RateOf(u.prods[p]) - RateOf(s.prods[p]))
      /\ ShareSum(u, t) = ShareSum(s, t) + (PartOf(u.prods[p], t) - PartOf(s.prods[p], t))
      /\ RateSum(u) \in Nat /\ ShareSum(u, t) \in Nat
  BY <1>1, OneRowSums
<1>3. RateSum(s) \in Nat /\ ShareSum(s, t) \in Nat
  BY <1>1, SumsOfAll DEF RowsOK, RateSum, ShareSum
<1>4. RateOf(s.prods[p]) \in Int /\ PartOf(s.prods[p], t) \in Int
  BY <1>1, ShareAtType DEF RateOf, PartOf, RowOK, RowsOK
<1>5. RateSum(u) = RateSum(s) /\ ShareSum(u, t) = ShareSum(s, t)
  BY <1>2, <1>3, <1>4 DEF CountsSame
<1> QED
  BY <1>2, <1>5, SharesMatchSums

\* The totals are brought up to date and moved by what p counts for.
TotalsMoved(s, u, p) ==
    LET old == s.totals
        grown == old.change_rate * (now - old.last_vpay_state_update)
    IN /\ u.totals.change_rate =
            Greatest(0, old.change_rate + (RateOf(u.prods[p]) - RateOf(s.prods[p])))
       /\ u.totals.votepay_share =
            Greatest(0, old.votepay_share + grown
                          + (PartOf(u.prods[p], now) - PartOf(s.prods[p], now)))
       /\ u.totals.last_vpay_state_update = now

\* A row that counts for more or less moves the totals by as much; they are
\* sums of shares, so the guard against a negative total stops nothing.
LEMMA RowCountsAnew ==
  ASSUME now \in Int, NEW s \in TableSet, NEW u, NEW p \in Producers, SharesMatch(s, now),
         RowOK(u.prods[p], now), \A q \in Producers \ {p} : u.prods[q] = s.prods[q],
         TotalsMoved(s, u, p)
  PROVE  SharesMatch(u, now)
<1>1. /\ RowsOK(s, now) /\ s.totals.change_rate = RateSum(s)
      /\ s.totals.votepay_share + s.totals.change_rate * (now - s.totals.last_vpay_state_update)
           = ShareSum(s, now)
  BY SharesMatchSums
<1>2. /\ RowsOK(u, now)
      /\ RateSum(u) = RateSum(s) + (RateOf(u.prods[p]) - RateOf(s.prods[p]))
      /\ ShareSum(u, now) = ShareSum(s, now) + (PartOf(u.prods[p], now) - PartOf(s.prods[p], now))
      /\ RateSum(u) \in Nat /\ ShareSum(u, now) \in Nat
  BY <1>1, OneRowSums
<1>3. /\ u.totals.change_rate = Greatest(0, RateSum(u))
      /\ u.totals.votepay_share = Greatest(0, ShareSum(u, now))
      /\ u.totals.last_vpay_state_update = now
  BY <1>1, <1>2 DEF TotalsMoved
<1>4. u.totals.change_rate = RateSum(u) /\ u.totals.votepay_share = ShareSum(u, now)
  BY <1>2, <1>3 DEF Greatest
<1>5. u.totals.change_rate * (now - u.totals.last_vpay_state_update) = 0
  <2>1. now - u.totals.last_vpay_state_update = 0
    BY <1>3
  <2>2. RateSum(u) * 0 = 0
    BY <1>2
  <2> QED
    BY <1>4, <2>1, <2>2
<1>6. u.totals.votepay_share + u.totals.change_rate * (now - u.totals.last_vpay_state_update)
        = ShareSum(u, now)
  BY <1>2, <1>4, <1>5
<1> QED
  BY <1>2, <1>4, <1>6, SharesMatchSums

\* With time the total grows at the rate at which the shares do.
LEMMA SharesGrow ==
  ASSUME NEW t \in Int, NEW s \in TableSet, SharesMatch(s, t)
  PROVE  SharesMatch(s, t + 1)
<1> DEFINE G == CountedRows(s)
           f == VotesOf(s)
           h == SharesOf(s, t)
           k == SharesOf(s, t + 1)
           last == s.totals.last_vpay_state_update
           rate == s.totals.change_rate
           grown == rate * (t - last)
<1>1. /\ \A p \in Producers : RowOK(s.prods[p], t)
      /\ rate = SumOver(f, G) /\ s.totals.votepay_share + grown = SumOver(h, G)
  BY DEF SharesMatch
<1>2. G \in SUBSET Producers /\ IsFiniteSet(G)
  BY FinitePeople DEF CountedRows
<1>3. ASSUME NEW p \in Producers
      PROVE  /\ RowOK(s.prods[p], t + 1)
             /\ f[p] \in Int /\ h[p] \in Int /\ k[p] = h[p] + f[p]
  <2> DEFINE row == s.prods[p]
             d == t - row.last_votepay_share_update
  <2>1. RowOK(row, t)
    BY <1>1
  <2>2. /\ row.total_votes \in Nat /\ row.votepay_share \in Nat /\ d \in Int
        /\ row.last_votepay_share_update \in Int
    BY <2>1 DEF RowOK
  <2>3. RowOK(row, t + 1)
    BY <2>1 DEF RowOK
  <2>4. f[p] = row.total_votes /\ h[p] = ShareAt(row, t) /\ k[p] = ShareAt(row, t + 1)
    BY DEF VotesOf, SharesOf
  <2>5. ShareAt(row, t) \in Int
    BY <2>1, ShareAtType
  <2> HIDE DEF row
  <2>6. ShareAt(row, t) = row.votepay_share + row.total_votes * d
    BY DEF ShareAt
  <2>7. ShareAt(row, t + 1) = row.votepay_share + row.total_votes * (d + 1)
    <3>1. (t + 1) - row.last_votepay_share_update = d + 1
      BY <2>2
    <3> QED
      BY <3>1 DEF ShareAt
  <2> HIDE DEF d
  <2>8. row.total_votes * (d + 1) = row.total_votes * d + row.total_votes /\ row.total_votes * d \in Int
    BY <2>2
  <2>9. ShareAt(row, t + 1) = ShareAt(row, t) + row.total_votes
    BY <2>2, <2>6, <2>7, <2>8
  <2> HIDE DEF f, h, k
  <2> QED
    BY <2>2, <2>3, <2>4, <2>5, <2>9 DEF row
<1> HIDE DEF f, h, k, G
<1>4. SumOver(k, G) = SumOver(h, G) + SumOver(f, G)
  <2>1. \A p \in G : h[p] \in Int /\ f[p] \in Int /\ k[p] = h[p] + f[p]
    BY <1>2, <1>3
  <2>2. G \in SUBSET G /\ \A p \in G \ G : k[p] = h[p]
    OBVIOUS
  <2> QED
    BY <1>2, <2>1, <2>2, SumOverChange
<1>5. /\ rate \in Int /\ last \in Int /\ s.totals.votepay_share \in Int
  <2>1. s.totals \in TotalRows
    BY TableFields
  <2> QED
    BY <2>1 DEF TotalRows
<1>6. rate * ((t + 1) - last) = grown + rate /\ grown \in Int
  <2> HIDE DEF last, rate
  <2> DEFINE d == t - last
  <2>1. (t + 1) - last = d + 1 /\ d \in Int
    BY <1>5
  <2> HIDE DEF d
  <2>2. rate * (d + 1) = rate * d + rate /\ rate * d \in Int
    BY <1>5, <2>1
  <2> QED
    BY <2>1, <2>2 DEF d
<1>7. s.totals.votepay_share + rate * ((t + 1) - last) = SumOver(k, G)
  <2> HIDE DEF grown, last, rate
  <2> QED
    BY <1>1, <1>4, <1>5, <1>6
<1> QED
  BY <1>1, <1>3, <1>7 DEF SharesMatch, f, k, G

\* The invariant: the shares add up, and what a voter approves has a row, so a
\* producer that registers for the first time has no votes.
ApprovedHaveRows == \A v \in Voters : \A p \in voters[v].producers : prods[p].row

ShareInv == VoteInv /\ SharesMatch(Tables, now) /\ ApprovedHaveRows

\* Shares depend on the rows and the totals alone.
LEMMA SharesSame ==
  ASSUME NEW t, NEW s, NEW u, u.prods = s.prods, u.totals = s.totals, SharesMatch(s, t)
  PROVE  SharesMatch(u, t)
BY DEF SharesMatch, VotesOf, SharesOf, CountedRows

\* The invariant after a step, from its parts.
LEMMA ShareInvNext ==
  ASSUME VoteInv', SharesMatch(Tables', now'), ApprovedHaveRows'
  PROVE  ShareInv'
BY DEF ShareInv, SharesMatch, RowOK, IsCounted, UpdatedAfter, CountedRows, VotesOf, SharesOf,
       ShareAt, Tables

\* After a step that commits s the tables are those of s.
LEMMA SharesCommitted ==
  ASSUME NEW s, Commit(s), NEW t, SharesMatch(s, t)
  PROVE  SharesMatch(Tables', t)
<1>1. Tables'.prods = s.prods /\ Tables'.totals = s.totals
  BY DEF Commit, Tables
<1> HIDE DEF Tables
<1> QED
  BY <1>1, SharesSame

\* The shares after a vote.
LEMMA SharesStayed ==
  ASSUME SharesMatch(Tables, now), SharesStay, now' = now
  PROVE  /\ SharesMatch(Tables', now')
         /\ \A p \in Producers : prods'[p].row = prods[p].row
<1>1. PICK s : Commit(s) /\ Keeps(Tables, s)
  BY DEF SharesStay
<1>2. SharesMatch(s, now) /\ \A p \in Producers : s.prods[p].row = prods[p].row
  BY <1>1 DEF Keeps, Tables
<1>3. SharesMatch(Tables', now)
  BY <1>1, <1>2, SharesCommitted
<1>4. prods' = s.prods
  BY <1>1 DEF Commit
<1> QED
  BY <1>2, <1>3, <1>4

\* Votes keep the shares, and a vote names producers that have rows.
LEMMA VoteShares ==
  ASSUME ShareInv, Vote
  PROVE  ShareInv'
<1>0. VoteInv /\ SharesMatch(Tables, now) /\ ApprovedHaveRows /\ voters \in [Voters -> VoterRows]
  BY DEF ShareInv, VoteInv, VotersFor
<1>1. ASSUME VoteInv', SharesStay, now' = now,
             \A w \in Voters : \A p \in voters'[w].producers : p \in Producers /\ prods[p].row
      PROVE  ShareInv'
  <2>1. /\ SharesMatch(Tables', now')
        /\ \A p \in Producers : prods'[p].row = prods[p].row
    BY <1>0, <1>1, SharesStayed
  <2>2. ApprovedHaveRows'
    BY <1>1, <2>1 DEF ApprovedHaveRows
  <2> QED
    BY <1>1, <2>1, <2>2, ShareInvNext
<1>2. \A w \in Voters : \A p \in voters[w].producers : p \in Producers /\ prods[p].row
  BY <1>0 DEF ApprovedHaveRows, VoterRows
<1>3. ASSUME NEW v \in Voters, NEW isproxy \in BOOLEAN, regproxy(v, isproxy)
      PROVE  ShareInv'
  <2>1. VoteInv' /\ SharesStay
    BY <1>0, <1>3, RegproxyVotes
  <2>2. now' = now /\ voters' = [voters EXCEPT ![v].row = TRUE, ![v].is_proxy = isproxy]
    BY <1>3 DEF regproxy
  <2>3. \A w \in Voters : voters'[w].producers = voters[w].producers
    BY <1>0, <2>2 DEF VoterRows
  <2> QED
    BY <1>1, <1>2, <2>1, <2>2, <2>3
<1>4. ASSUME NEW v \in Voters, NEW change \in Stakes, update_voting_power(v, change)
      PROVE  ShareInv'
  <2>1. VoteInv' /\ SharesStay
    BY <1>0, <1>4, PowerVotes, StakesAssumption
  <2>2. now' = now /\ voters' = [voters EXCEPT ![v].row = TRUE, ![v].staked = @ + change]
    BY <1>4 DEF update_voting_power
  <2>3. \A w \in Voters : voters'[w].producers = voters[w].producers
    BY <1>0, <2>2 DEF VoterRows
  <2> QED
    BY <1>1, <1>2, <2>1, <2>2, <2>3
<1>5. ASSUME NEW v \in Voters, NEW change \in Stakes \cup {0},
             NEW proxy \in Voters \cup {Nobody}, NEW producers \in SUBSET Producers,
             voteproducer(v, change, proxy, producers)
      PROVE  ShareInv'
  <2> DEFINE vs == [voters EXCEPT ![v].staked = @ + change]
  <2>0. change \in Int
    BY StakesAssumption
  <2>1. VoteInv' /\ SharesStay
    <3> HIDE DEF vs
    <3> QED
      BY <1>0, <1>5, <2>0, VoteproducerVotes
  <2>2. /\ now' = now /\ voters' = [vs EXCEPT ![v].proxy = proxy, ![v].producers = producers]
        /\ \A p \in producers : prods[p].row
    BY <1>5 DEF voteproducer, VoteAllowed, Tables
  <2>3. /\ voters'[v].producers = producers
        /\ \A w \in Voters \ {v} : voters'[w].producers = voters[w].producers
    <3>1. /\ vs \in [Voters -> {vs[w] : w \in Voters}]
          /\ \A w \in Voters \ {v} : vs[w] = voters[w]
          /\ vs[v] = [voters[v] EXCEPT !.staked = @ + change]
      BY <1>0
    <3>2. DOMAIN vs[v] = DOMAIN voters[v] /\ "producers" \in DOMAIN voters[v]
      BY <1>0, <3>1 DEF VoterRows
    <3> HIDE DEF vs
    <3>3. voters'[v] = [vs[v] EXCEPT !.proxy = proxy, !.producers = producers]
      BY <2>2, <3>1
    <3>4. voters'[v].producers = producers
      BY <3>2, <3>3
    <3> QED
      BY <2>2, <3>1, <3>4
  <2>4. \A w \in Voters : \A p \in voters'[w].producers : p \in Producers /\ prods[p].row
    BY <1>2, <2>2, <2>3
  <2> QED
    BY <1>1, <2>1, <2>2, <2>4
<1> QED
  BY <1>3, <1>4, <1>5 DEF Vote

\* The end of a registration moves no shares.
LEMMA UnregprodShares ==
  ASSUME ShareInv, NEW p \in Producers, unregprod(p)
  PROVE  ShareInv'
<1> DEFINE old == prods[p]
           row == [old EXCEPT !.is_active = FALSE]
<1>1. /\ prods' = [prods EXCEPT ![p] = row]
      /\ totals' = totals /\ voters' = voters /\ now' = now
  BY DEF unregprod
<1>2. /\ VoteInv /\ SharesMatch(Tables, now) /\ ApprovedHaveRows /\ now \in Int
      /\ VotersFor(voters)
      /\ old \in ProducerRows /\ Tables.prods = prods /\ Tables.totals = totals
      /\ Tables \in TableSet
  BY TablesType DEF ShareInv, VoteInv
<1>3. VoteInv'
  BY <1>2, UnregprodVotes
<1>4. /\ Tables'.prods = prods' /\ Tables'.totals = totals'
      /\ prods \in [Producers -> ProducerRows]
  BY <1>2, TableFields DEF Tables
<1> HIDE DEF old
<1>5. /\ row.row = old.row /\ row.row2 = old.row2 /\ row.total_votes = old.total_votes
      /\ row.last_claim_time = old.last_claim_time /\ row.votepay_share = old.votepay_share
      /\ row.last_votepay_share_update = old.last_votepay_share_update
  BY <1>2 DEF ProducerRows
<1> HIDE DEF row
<1>6. prods'[p] = row /\ \A q \in Producers \ {p} : prods'[q] = prods[q]
  BY <1>1, <1>4
<1>7. RowOK(old, now)
  BY <1>2 DEF SharesMatch, old
<1>8. RowOK(row, now) /\ RateOf(row) = RateOf(old) /\ PartOf(row, now) = PartOf(old, now)
  BY <1>5, <1>7 DEF RowOK, RateOf, PartOf, IsCounted, UpdatedAfter, ShareAt
<1>9. SharesMatch(Tables', now)
  <2> DEFINE u == Tables'
  <2>1. /\ u.prods[p] = row /\ \A q \in Producers \ {p} : u.prods[q] = Tables.prods[q]
        /\ u.totals = Tables.totals /\ Tables.prods[p] = old
    BY <1>1, <1>2, <1>4, <1>6 DEF old
  <2> HIDE DEF u
  <2>2. CountsSame(Tables, u, p, now) /\ RowOK(u.prods[p], now)
    BY <1>8, <2>1 DEF CountsSame
  <2>3. SharesMatch(u, now)
    BY <1>2, <2>1, <2>2, RowCountsSame
  <2> QED
    BY <2>3 DEF u
<1>10. ApprovedHaveRows'
  <2>1. \A q \in Producers : prods'[q].row = prods[q].row
    BY <1>5, <1>6 DEF old
  <2>2. \A w \in Voters : voters[w].producers \subseteq Producers
    BY <1>2 DEF VotersFor, VoterRows
  <2> QED
    BY <1>1, <1>2, <2>1, <2>2 DEF ApprovedHaveRows
<1> QED
  BY <1>1, <1>3, <1>9, <1>10, ShareInvNext

\* A producer that nobody approves has no votes.
LEMMA NoVotesYet ==
  ASSUME ShareInv, NEW p \in Producers, ~prods[p].row
  PROVE  prods[p].total_votes = 0
<1> DEFINE S == {w \in Voters : p \in ApprovedBy(voters)[w]}
<1>1. prods[p].total_votes = SumOver(Counts(Tables, Nobody, 0), S)
  BY DEF ShareInv, VoteInv, Matched, VotesMatch, Tables
<1>2. S = {}
  BY DEF ShareInv, ApprovedHaveRows, ApprovedBy
<1>3. SumOver(Counts(Tables, Nobody, 0), {}) = 0
  <2>1. IsFiniteSet({}) /\ \A w \in {} : Counts(Tables, Nobody, 0)[w] = 0
    BY FS_EmptySet
  <2> QED
    BY <2>1, SumOverZero
<1> QED
  BY <1>1, <1>2, <1>3

\* A registration either finds both rows or makes both, of a producer without votes.
LEMMA RegproducerShares ==
  ASSUME ShareInv, NEW p \in Producers, regproducer(p)
  PROVE  ShareInv'
<1> DEFINE old == prods[p]
           claim == IF old.last_claim_time = Never THEN now ELSE old.last_claim_time
           active == [old EXCEPT !.row = TRUE, !.is_active = TRUE, !.last_claim_time = claim]
           row == IF old.row2 THEN active ELSE Row2(active)
           mid == [Tables EXCEPT !.prods[p] = row]
<1>1. /\ VoteInv /\ SharesMatch(Tables, now) /\ ApprovedHaveRows /\ now \in Times
      /\ VotersFor(voters) /\ now \in Int
      /\ old \in ProducerRows /\ Tables.prods = prods /\ Tables.totals = totals
      /\ Tables \in TableSet
  BY TablesType DEF ShareInv, VoteInv
<1>2. RowOK(old, now)
  BY <1>1 DEF SharesMatch
<1>3. ~(old.row /\ ~old.row2)
  BY <1>2 DEF RowOK
<1>4. Commit(mid) /\ voters' = voters /\ now' = now
  BY <1>3 DEF regproducer
<1>5. ~old.row => old.total_votes = 0
  BY NoVotesYet
<1>6. VoteInv'
  BY <1>1, RegproducerVotes
<1> HIDE DEF old
<1>7. claim \in Nat /\ claim # Never /\ (old.row2 => claim = old.last_claim_time)
  BY <1>1, <1>2 DEF RowOK, Times, Never
<1> HIDE DEF claim
<1>8. /\ active \in ProducerRows
      /\ active.row = TRUE /\ active.row2 = old.row2 /\ active.total_votes = old.total_votes
      /\ active.last_claim_time = claim /\ active.votepay_share = old.votepay_share
      /\ active.last_votepay_share_update = old.last_votepay_share_update
  <2>1. claim \in Int
    BY <1>7
  <2>2. active = [old EXCEPT !.row = TRUE, !.is_active = TRUE, !.last_claim_time = claim]
    OBVIOUS
  <2> HIDE DEF active
  <2>3. /\ active.row = TRUE /\ active.row2 = old.row2 /\ active.total_votes = old.total_votes
        /\ active.last_claim_time = claim
    BY <1>1, <2>2 DEF ProducerRows
  <2>4. /\ active.votepay_share = old.votepay_share
        /\ active.last_votepay_share_update = old.last_votepay_share_update
    BY <1>1, <2>2 DEF ProducerRows
  <2>5. active \in ProducerRows
    BY <1>1, <2>1, <2>2 DEF ProducerRows
  <2> QED
    BY <2>3, <2>4, <2>5
<1> HIDE DEF active
<1>9. row \in ProducerRows /\ row.row = TRUE /\ row.total_votes = old.total_votes
  BY <1>1, <1>8, Row2Type
<1>10. RowOK(row, now) /\ RateOf(row) = RateOf(old) /\ PartOf(row, now) = PartOf(old, now)
  <2>1. CASE old.row2
    <3>1. row = active
      BY <2>1
    <3> HIDE DEF row
    <3> QED
      BY <1>2, <1>7, <1>8, <2>1, <3>1 DEF RowOK, RateOf, PartOf, IsCounted, UpdatedAfter, ShareAt
  <2>2. CASE ~old.row2
    <3>1. /\ row.row = TRUE /\ row.row2 = TRUE /\ row.total_votes = old.total_votes
          /\ row.last_claim_time = claim
          /\ row.votepay_share = 0 /\ row.last_votepay_share_update = now
      BY <1>1, <1>8, <2>2, Row2Type
    <3> HIDE DEF row
    <3>2. row.total_votes = 0
      BY <1>3, <1>2, <1>5, <2>2, <3>1 DEF RowOK
    <3>3. RowOK(row, now)
      BY <1>1, <1>7, <3>1, <3>2 DEF RowOK
    <3>4. RateOf(old) = 0 /\ PartOf(old, now) = 0
      BY <2>2 DEF RateOf, PartOf, IsCounted
    <3>5. ShareAt(row, now) = 0
      <4>1. now - row.last_votepay_share_update = 0
        BY <1>1, <3>1
      <4> QED
        BY <3>1, <3>2, <4>1 DEF ShareAt
    <3>6. RateOf(row) = 0 /\ PartOf(row, now) = 0
      BY <3>2, <3>5 DEF RateOf, PartOf
    <3> QED
      BY <3>3, <3>4, <3>6
  <2> QED
    BY <2>1, <2>2
<1> HIDE DEF row
<1>11. /\ mid.totals = Tables.totals /\ mid.prods = [prods EXCEPT ![p] = row]
       /\ mid.prods[p] = row /\ \A q \in Producers \ {p} : mid.prods[q] = Tables.prods[q]
  <2>1. row.total_votes = Tables.prods[p].total_votes
    BY <1>1, <1>9 DEF old
  <2>2. mid.totals = Tables.totals /\ mid.prods = [Tables.prods EXCEPT ![p] = row]
    BY <1>1, <1>9, <2>1, ProducerRowSet
  <2>3. prods \in [Producers -> ProducerRows]
    BY <1>1, TableFields
  <2> HIDE DEF mid
  <2> QED
    BY <1>1, <2>2, <2>3
<1> HIDE DEF mid
<1>12. SharesMatch(mid, now)
  <2>1. Tables.prods[p] = old
    BY <1>1 DEF old
  <2>2. CountsSame(Tables, mid, p, now) /\ RowOK(mid.prods[p], now)
    BY <1>10, <1>11, <2>1 DEF CountsSame
  <2> QED
    BY <1>1, <1>11, <2>2, RowCountsSame
<1>13. SharesMatch(Tables', now)
  BY <1>4, <1>12, SharesCommitted
<1>14. ApprovedHaveRows'
  <2>1. prods' = mid.prods
    BY <1>4 DEF Commit
  <2>2. \A q \in Producers : prods[q].row => prods'[q].row
    BY <1>1, <1>9, <1>11, <2>1
  <2>3. \A w \in Voters : voters[w].producers \subseteq Producers
    BY <1>1 DEF VotersFor, VoterRows
  <2> QED
    BY <1>1, <1>4, <2>2, <2>3 DEF ApprovedHaveRows
<1> QED
  BY <1>4, <1>6, <1>13, <1>14, ShareInvNext

\* A claim takes the share of the producer out of the total, and lets a share
\* that had left it count again.
LEMMA ClaimShares ==
  ASSUME ShareInv, NEW p \in Producers, claimrewards(p)
  PROVE  ShareInv'
<1> DEFINE old == prods[p]
           after == UpdatedAfter(old)
           share == NewShare(old, IF after THEN 0 ELSE old.total_votes)
           back == IF after THEN old.total_votes ELSE 0
           up == ShareUpdated(old, TRUE)
           row == [up EXCEPT !.last_claim_time = now]
           mid == [Tables EXCEPT !.prods[p] = row]
           s == update_total_votepay_share(mid, - share, back)
<1>1. /\ VoteInv /\ SharesMatch(Tables, now) /\ ApprovedHaveRows /\ now \in Times
      /\ VotersFor(voters) /\ now \in Int
      /\ old \in ProducerRows /\ Tables.prods = prods /\ Tables.totals = totals
      /\ Tables \in TableSet
  BY TablesType DEF ShareInv, VoteInv
<1>2. RowOK(old, now)
  BY <1>1 DEF SharesMatch
<1>3. old.row /\ old.row2
  BY <1>2 DEF claimrewards, RowOK
<1>4. Commit(s) /\ voters' = voters /\ now' = now
  BY <1>3 DEF claimrewards
<1>5. VoteInv'
  BY <1>1, ClaimVotes
<1> HIDE DEF old
<1>6. /\ row \in ProducerRows /\ row.row = TRUE /\ row.row2 = TRUE
      /\ row.total_votes = old.total_votes /\ row.last_claim_time = now
      /\ row.votepay_share = 0 /\ row.last_votepay_share_update = now
  <2>1. TRUE \in BOOLEAN
    OBVIOUS
  <2>2. /\ up \in ProducerRows /\ up.row = old.row /\ up.row2 = old.row2
        /\ up.total_votes = old.total_votes
        /\ up.votepay_share = 0 /\ up.last_votepay_share_update = now
    BY <1>1, <2>1, ShareUpdatedType
  <2>3. row = [up EXCEPT !.last_claim_time = now]
    OBVIOUS
  <2> HIDE DEF up, row
  <2>4. /\ row.row = up.row /\ row.row2 = up.row2 /\ row.total_votes = up.total_votes
        /\ row.last_claim_time = now
    BY <2>2, <2>3 DEF ProducerRows
  <2>5. /\ row.votepay_share = up.votepay_share
        /\ row.last_votepay_share_update = up.last_votepay_share_update
    BY <2>2, <2>3 DEF ProducerRows
  <2>6. row \in ProducerRows
    BY <1>1, <2>2, <2>3 DEF ProducerRows
  <2>7. old.row = TRUE /\ old.row2 = TRUE
    BY <1>1, <1>3 DEF ProducerRows
  <2> QED
    BY <2>2, <2>4, <2>5, <2>6, <2>7
<1> HIDE DEF row, up
<1>7. old.total_votes \in Nat /\ IsCounted(row) /\ RowOK(row, now) /\ ShareAt(row, now) = 0
  <2>1. old.total_votes \in Nat
    BY <1>2 DEF RowOK
  <2>2. IsCounted(row)
    BY <1>1, <1>6, TimeAssumption DEF IsCounted, UpdatedAfter
  <2>3. RowOK(row, now)
    BY <1>1, <1>6, <2>1, <2>2 DEF RowOK, Times, Never
  <2>4. now - row.last_votepay_share_update = 0
    BY <1>1, <1>6
  <2>5. ShareAt(row, now) = 0
    BY <1>6, <2>1, <2>4 DEF ShareAt
  <2> QED
    BY <2>1, <2>2, <2>3, <2>5
<1>8. RateOf(row) = old.total_votes /\ PartOf(row, now) = 0
  BY <1>6, <1>7 DEF RateOf, PartOf
<1>9. /\ share \in Int /\ share = PartOf(old, now)
      /\ back = old.total_votes - RateOf(old) /\ back \in Int
  <2>1. CASE after
    <3>1. ~IsCounted(old) /\ old.votepay_share = 0 /\ old.last_votepay_share_update \in Int
      BY <1>2, <2>1 DEF IsCounted, RowOK
    <3>2. now - old.last_votepay_share_update \in Int
      BY <1>1, <3>1
    <3>3. share = 0
      BY <2>1, <3>1, <3>2 DEF NewShare
    <3>4. PartOf(old, now) = 0 /\ RateOf(old) = 0
      BY <3>1 DEF PartOf, RateOf
    <3> HIDE DEF share
    <3> QED
      BY <1>7, <2>1, <3>3, <3>4
  <2>2. CASE ~after
    <3>1. IsCounted(old)
      BY <1>3, <2>2 DEF IsCounted
    <3>2. share = ShareAt(old, now) /\ ShareAt(old, now) \in Nat
      BY <1>1, <1>2, <2>2, ShareAtType DEF NewShare, ShareAt
    <3>3. PartOf(old, now) = ShareAt(old, now) /\ RateOf(old) = old.total_votes
      BY <3>1 DEF PartOf, RateOf
    <3> HIDE DEF share
    <3> QED
      BY <1>7, <2>2, <3>2, <3>3
  <2> QED
    BY <2>1, <2>2
<1> HIDE DEF share, back
<1>10. /\ mid \in TableSet /\ mid.totals = Tables.totals
       /\ mid.prods = [prods EXCEPT ![p] = row]
       /\ mid.prods[p] = row /\ \A q \in Producers \ {p} : mid.prods[q] = Tables.prods[q]
  <2>1. row.total_votes = Tables.prods[p].total_votes
    BY <1>1, <1>6 DEF old
  <2>2. /\ mid \in TableSet /\ mid.totals = Tables.totals
        /\ mid.prods = [Tables.prods EXCEPT ![p] = row]
    BY <1>1, <1>6, <2>1, ProducerRowSet
  <2>3. prods \in [Producers -> ProducerRows]
    BY <1>1, TableFields
  <2> HIDE DEF mid
  <2> QED
    BY <1>1, <2>2, <2>3
<1> HIDE DEF mid
<1>11. /\ s.prods = mid.prods
       /\ s.totals.votepay_share =
            Greatest(0, mid.totals.votepay_share
                        + mid.totals.change_rate * (now - mid.totals.last_vpay_state_update)
                        + (- share))
       /\ s.totals.change_rate = Greatest(0, mid.totals.change_rate + back)
       /\ s.totals.last_vpay_state_update = now
  <2> DEFINE taken == - share
  <2>1. taken \in Int
    BY <1>9
  <2> HIDE DEF taken
  <2>2. LET t == update_total_votepay_share(mid, taken, back)
        IN /\ t.prods = mid.prods
           /\ t.totals.votepay_share =
                Greatest(0, mid.totals.votepay_share
                            + mid.totals.change_rate * (now - mid.totals.last_vpay_state_update)
                            + taken)
           /\ t.totals.change_rate = Greatest(0, mid.totals.change_rate + back)
           /\ t.totals.last_vpay_state_update = now
    BY <1>1, <1>9, <1>10, <2>1, TotalShareUpdated
  <2> QED
    BY <2>2 DEF taken
<1> HIDE DEF s
<1>12. Tables.prods[p] = old
  BY <1>1 DEF old
<1>13. TotalsMoved(Tables, s, p)
  <2>1. s.prods[p] = row /\ mid.totals = Tables.totals
    BY <1>10, <1>11
  <2>2. back = RateOf(row) - RateOf(old) /\ - share = PartOf(row, now) - PartOf(old, now)
    BY <1>8, <1>9
  <2> QED
    BY <1>11, <1>12, <2>1, <2>2 DEF TotalsMoved
<1>14. SharesMatch(s, now)
  <2>1. RowOK(s.prods[p], now) /\ \A q \in Producers \ {p} : s.prods[q] = Tables.prods[q]
    BY <1>7, <1>10, <1>11
  <2> QED
    BY <1>1, <1>13, <2>1, RowCountsAnew
<1>15. SharesMatch(Tables', now)
  BY <1>4, <1>14, SharesCommitted
<1>16. ApprovedHaveRows'
  <2>1. prods' = mid.prods
    BY <1>4, <1>11 DEF Commit
  <2>2. \A q \in Producers : prods[q].row => prods'[q].row
    BY <1>1, <1>6, <1>10, <2>1
  <2>3. \A w \in Voters : voters[w].producers \subseteq Producers
    BY <1>1 DEF VotersFor, VoterRows
  <2> QED
    BY <1>1, <1>4, <2>2, <2>3 DEF ApprovedHaveRows
<1> QED
  BY <1>4, <1>5, <1>15, <1>16, ShareInvNext

\* Steps that leave rows, totals and voters alone, and let time pass or not.
LEMMA TimeShares ==
  ASSUME ShareInv, VoteInv', UNCHANGED <<voters, prods, totals>>, now' \in {now, now + 1}
  PROVE  ShareInv'
<1>1. /\ SharesMatch(Tables, now) /\ ApprovedHaveRows /\ now \in Int /\ Tables \in TableSet
  BY TablesType DEF ShareInv
<1>2. SharesMatch(Tables, now')
  <2>1. CASE now' = now
    BY <1>1, <2>1
  <2>2. CASE now' = now + 1
    BY <1>1, <2>2, SharesGrow
  <2> QED
    BY <2>1, <2>2
<1>3. Tables'.prods = Tables.prods /\ Tables'.totals = Tables.totals
  BY DEF Tables
<1>4. SharesMatch(Tables', now')
  <2> HIDE DEF Tables
  <2> QED
    BY <1>2, <1>3, SharesSame
<1>5. ApprovedHaveRows'
  BY <1>1 DEF ApprovedHaveRows
<1> QED
  BY <1>4, <1>5, ShareInvNext

\* Without producers of the first version no row counts at the start.
LEMMA ShareInvInit ==
  ASSUME Legacy = {}, PayInit
  PROVE  ShareInv
<1>1. VoteInv
  BY VoteInvInit
<1>2. /\ \A p \in Producers : prods[p] = NoProducer
      /\ totals.change_rate = 0 /\ totals.votepay_share = 0 /\ totals.last_vpay_state_update = 0
      /\ \A v \in Voters : voters[v].producers = {}
  BY DEF PayInit, Init, Never, NoVoter
<1>3. ApprovedHaveRows
  BY <1>2 DEF ApprovedHaveRows
<1>4. Tables.prods = prods /\ Tables.totals = totals /\ now \in Times
  BY <1>1 DEF Tables, VoteInv
<1>5. \A p \in Producers : RowOK(prods[p], now) /\ ~IsCounted(prods[p])
  BY <1>2, <1>4 DEF RowOK, IsCounted, NoProducer, Never, Times
<1>6. CountedRows(Tables) = {}
  BY <1>4, <1>5 DEF CountedRows
<1>7. SumOver(VotesOf(Tables), {}) = 0 /\ SumOver(SharesOf(Tables, now), {}) = 0
  <2>1. /\ IsFiniteSet({}) /\ \A x \in {} : VotesOf(Tables)[x] = 0
        /\ \A x \in {} : SharesOf(Tables, now)[x] = 0
    BY FS_EmptySet
  <2> QED
    BY <2>1, SumOverZero
<1>8. 0 + 0 * (now - 0) = 0
  BY <1>4 DEF Times
<1>9. SharesMatch(Tables, now)
  BY <1>2, <1>4, <1>5, <1>6, <1>7, <1>8 DEF SharesMatch
<1> QED
  BY <1>1, <1>3, <1>9 DEF ShareInv

\* No step makes the shares differ from their totals.
LEMMA ShareInvStep == ShareInv /\ [PayNext]_payvars => ShareInv'
<1> SUFFICES ASSUME ShareInv, [PayNext]_payvars PROVE ShareInv'
  OBVIOUS
<1>1. VoteInv'
  BY VoteInvStep DEF ShareInv
<1>2. CASE Vote
  BY <1>2, VoteShares
<1>3. CASE Register
  BY <1>3, RegproducerShares, UnregprodShares DEF Register
<1>4. CASE Tick
  BY <1>1, <1>4, TimeShares DEF Tick
<1>5. ASSUME UNCHANGED vars PROVE ShareInv'
  BY <1>1, <1>5, TimeShares DEF vars
<1>6. ASSUME NEW p \in Producers, claimrewards(p) PROVE ShareInv'
  BY <1>6, ClaimShares
<1>7. CASE Pay
  BY <1>5, <1>6, <1>7 DEF Pay, onblock, updtrevision
<1>8. CASE UNCHANGED payvars
  BY <1>5, <1>8 DEF payvars
<1> QED
  BY <1>2, <1>3, <1>4, <1>7, <1>8 DEF PayNext, Next

\* The sums over the counted rows are those of SharesAddUp.
LEMMA ShareInvAddsUp == ShareInv => SharesAddUp
<1> SUFFICES ASSUME ShareInv PROVE SharesAddUp
  OBVIOUS
<1> DEFINE counted == {p \in Producers : prods[p].row2 /\ ~UpdatedAfter(prods[p])}
           rate == [p \in counted |-> prods[p].total_votes]
           share == [p \in counted |-> NewShare(prods[p], prods[p].total_votes)]
           f == VotesOf(Tables)
           h == SharesOf(Tables, now)
<1>1. /\ SharesMatch(Tables, now) /\ Tables.prods = prods /\ Tables.totals = totals /\ now \in Int
  BY TablesType DEF ShareInv
<1>2. counted = CountedRows(Tables) /\ counted \in SUBSET Producers
  BY <1>1 DEF CountedRows, IsCounted
<1>3. \A p \in Producers : /\ RowOK(prods[p], now)
                           /\ prods[p].total_votes \in Int /\ ShareAt(prods[p], now) \in Int
  BY <1>1, ShareAtType DEF SharesMatch, RowOK
<1>4. \A p \in counted : /\ rate[p] = f[p] /\ f[p] \in Int /\ share[p] = h[p] /\ h[p] \in Int
  BY <1>1, <1>2, <1>3 DEF VotesOf, SharesOf, ShareAt, NewShare
<1>5. /\ totals.change_rate = SumOver(f, CountedRows(Tables))
      /\ totals.votepay_share + totals.change_rate * (now - totals.last_vpay_state_update)
           = SumOver(h, CountedRows(Tables))
  BY <1>1 DEF SharesMatch
<1>6. \A p \in Producers \ counted : prods[p].votepay_share = 0
  BY <1>3 DEF RowOK, IsCounted
<1> HIDE DEF rate, share, f, h, counted
<1>7. SumOver(rate, counted) = SumOver(f, counted) /\ SumOver(share, counted) = SumOver(h, counted)
  BY <1>2, <1>4, FinitePeople, SumOverSame
<1> QED
  BY <1>2, <1>5, <1>6, <1>7 DEF SharesAddUp, rate, share, counted

\* The counted rows are some of all rows.
LEMMA ShareInvCountsOnce == ShareInv => VotesCountedOnce
<1> SUFFICES ASSUME ShareInv PROVE VotesCountedOnce
  OBVIOUS
<1> DEFINE f == VotesOf(Tables)
           G == CountedRows(Tables)
<1>1. /\ SharesMatch(Tables, now) /\ Tables.prods = prods /\ Tables.totals = totals
  BY TablesType DEF ShareInv
<1>2. G \in SUBSET Producers
  BY DEF CountedRows
<1>3. \A p \in Producers : f[p] \in Nat
  BY <1>1 DEF SharesMatch, RowOK, VotesOf
<1>4. totals.change_rate = SumOver(f, G)
  BY <1>1 DEF SharesMatch
<1>5. AllVotes = SumOver(f, Producers)
  BY <1>1 DEF AllVotes, VotesOf
<1> HIDE DEF f, G
<1>6. SumOver(f, G) \in Nat /\ SumOver(f, Producers \ G) \in Nat
  BY <1>2, <1>3, FinitePeople, SumOverNat
<1>7. SumOver(f, Producers) = SumOver(f, G) + SumOver(f, Producers \ G)
  <2>1. \A p \in Producers : f[p] \in Int
    BY <1>3
  <2>2. IsFiniteSet(Producers)
    BY FinitePeople
  <2> QED
    BY <1>2, <2>1, <2>2, SumOverSplit
<1> QED
  BY <1>4, <1>5, <1>6, <1>7 DEF VotesCountedOnce

\* If no producer was registered by the first version of the contract, the
\* shares of the producers and the totals kept apart from them agree for ever:
\* after any votes, claims and registrations and however much time passes
\* between them, each share grows in the total at the rate at which it grows in
\* its row, until both drop it.
THEOREM SharesAlwaysAddUp ==
  ASSUME Legacy = {}
  PROVE  PaySpec => []SharesAddUp
<1>1. PayInit => ShareInv
  BY ShareInvInit
<1>2. ShareInv /\ [PayNext]_payvars => ShareInv'
  BY ShareInvStep
<1>3. ShareInv => SharesAddUp
  BY ShareInvAddsUp
<1> QED
  BY <1>1, <1>2, <1>3, PTL DEF PaySpec

\* Without producers of the first version the rate at which the shares grow
\* counts no votes twice: the rows that regproducer adds to producers that had
\* none in producers2 are the only cause of the run that counts them twice.
THEOREM VotesAreCountedOnce ==
  ASSUME Legacy = {}
  PROVE  PaySpec => []VotesCountedOnce
<1>1. PayInit => ShareInv
  BY ShareInvInit
<1>2. ShareInv /\ [PayNext]_payvars => ShareInv'
  BY ShareInvStep
<1>3. ShareInv => VotesCountedOnce
  BY ShareInvCountsOnce
<1> QED
  BY <1>1, <1>2, <1>3, PTL DEF PaySpec

-----------------------------------------------------------------------------
(* The activation of the chain.                                            *)

\* A step that stays active in its tables does so in the state.
LEMMA ActivationCommitted ==
  ASSUME ActivationAgrees, ActivationStays
  PROVE  ActivationAgrees' /\ (Active => Active' /\ totals'.thresh_time = totals.thresh_time)
<1>1. PICK s : Commit(s) /\ StaysActive(Tables, s)
  BY DEF ActivationStays
<1>2. totals' = s.totals /\ Tables.totals = totals
  BY <1>1 DEF Commit, Tables
<1> QED
  BY <1>1, <1>2 DEF StaysActive, ActivationOK, IsActive, ActivationAgrees, Active

\* Every step stays active: votes add to the activated stake, and nothing else
\* touches it.
LEMMA ActivationStep ==
  ASSUME VoteInv, ActivationAgrees, [PayNext]_payvars
  PROVE  ActivationAgrees' /\ (Active => Active' /\ totals'.thresh_time = totals.thresh_time)
<1> DEFINE Goal == /\ ActivationAgrees'
                   /\ Active => Active' /\ totals'.thresh_time = totals.thresh_time
<1> SUFFICES Goal
  OBVIOUS
<1>1. ASSUME ActivationStays PROVE Goal
  BY <1>1, ActivationCommitted
<1>2. ASSUME totals' = totals PROVE Goal
  BY <1>2 DEF ActivationAgrees, Active
<1> HIDE DEF Goal
<1>3. ASSUME SharesStay PROVE Goal
  <2>1. ActivationStays
    BY <1>3 DEF SharesStay, ActivationStays, Keeps
  <2> QED
    BY <1>1, <2>1
<1>4. CASE Vote
  <2>1. ASSUME NEW v \in Voters, NEW isproxy \in BOOLEAN, regproxy(v, isproxy) PROVE Goal
    BY <1>3, <2>1, RegproxyVotes
  <2>2. ASSUME NEW v \in Voters, NEW change \in Stakes, update_voting_power(v, change)
        PROVE  Goal
    BY <1>3, <2>2, PowerVotes, StakesAssumption
  <2>3. ASSUME NEW v \in Voters, NEW change \in Stakes \cup {0},
               NEW proxy \in Voters \cup {Nobody}, NEW producers \in SUBSET Producers,
               voteproducer(v, change, proxy, producers)
        PROVE  Goal
    <3>1. change \in Int
      BY StakesAssumption
    <3>2. SharesStay
      BY <2>3, <3>1, VoteproducerVotes
    <3> QED
      BY <1>3, <3>2
  <2> QED
    BY <1>4, <2>1, <2>2, <2>3 DEF Vote
<1>5. CASE Register
  <2>1. ASSUME NEW p \in Producers, regproducer(p) PROVE Goal
    BY <1>1, <2>1, RegproducerVotes
  <2>2. ASSUME NEW p \in Producers, unregprod(p) PROVE Goal
    BY <1>2, <2>2 DEF unregprod
  <2> QED
    BY <1>5, <2>1, <2>2 DEF Register
<1>6. CASE Tick
  BY <1>2, <1>6 DEF Tick
<1>7. CASE Pay
  <2>1. ASSUME NEW p \in Producers, claimrewards(p) PROVE Goal
    BY <1>1, <2>1, ClaimVotes
  <2>2. ASSUME UNCHANGED vars PROVE Goal
    BY <1>2, <2>2 DEF vars
  <2> QED
    BY <1>7, <2>1, <2>2 DEF Pay, onblock, updtrevision
<1>8. CASE UNCHANGED payvars
  BY <1>2, <1>8 DEF payvars, vars
<1> QED
  BY <1>4, <1>5, <1>6, <1>7, <1>8 DEF PayNext, Next

\* If any stake is needed at all, the stake that counts as activated reaches the
\* minimum (what onblock, claimrewards and undelegatebw ask for) exactly when
\* the time of that is set (what the close of name auctions asks for), whoever
\* votes, in whatever order.
THEOREM ActivationsAgree ==
  ASSUME MinActivated # 0
  PROVE  PaySpec => []ActivationAgrees
<1>1. PayInit => VoteInv /\ ActivationAgrees
  <2>1. PayInit => ActivationAgrees
    BY ActivatedAssumption DEF PayInit, Init, ActivationAgrees, Active
  <2> QED
    BY <2>1, VoteInvInit
<1>2. VoteInv /\ ActivationAgrees /\ [PayNext]_payvars => (VoteInv /\ ActivationAgrees)'
  BY VoteInvStep, ActivationStep
<1> QED
  BY <1>1, <1>2, PTL DEF PaySpec

\* No step takes the activation back or sets its time again: the rule that looks
\* at last weights only may count a stake twice, but never less than before.
THEOREM ActivationIsFinal ==
  ASSUME MinActivated # 0
  PROVE  PaySpec => ActivatedForGood
<1>1. PayInit => VoteInv
  BY VoteInvInit
<1>2. VoteInv /\ [PayNext]_payvars => VoteInv'
  BY VoteInvStep
<1>3. VoteInv /\ ActivationAgrees /\ [PayNext]_payvars
        => [Active => Active' /\ totals'.thresh_time = totals.thresh_time]_payvars
  BY ActivationStep
<1> QED
  BY <1>1, <1>2, <1>3, ActivationsAgree, PTL DEF PaySpec, ActivatedForGood
=============================================================================
