---------------------------- MODULE ProducerPay ----------------------------
(***************************************************************************)
(* What producers are paid (producer_pay.cpp), on top of Voting.  Every    *)
(* block counts for its producer, and now and then lets the elected        *)
(* producers be proposed as the schedule.  A claim first issues the tokens *)
(* of the time since the last claim of anybody, to the savings and to two  *)
(* buckets, and then takes from one bucket by the blocks produced and from *)
(* the other by the votes: by the shares since revision 1, before that by  *)
(* the producer's part of all votes.  (The name auction that onblock       *)
(* closes is in NameAuction.)                                              *)
(***************************************************************************)
EXTENDS Voting

CONSTANTS MaxSchedule,     \* the 21 producers of a schedule
          ClaimDays,       \* a producer may claim when more days than this have passed
          DailyIssue,      \* tokens issued a day; bound: the supply counts as constant
          MinVotePay,      \* min_pervote_daily_pay
          MaxUnpaid        \* bound on the blocks that wait for pay

ASSUME PayAssumption == DailyIssue \in Nat /\ MinVotePay \in Nat /\ MaxUnpaid \in Nat

VARIABLES unpaid,     \* producer_info::unpaid_blocks
          pay,        \* the singletons: buckets, unpaid blocks, last fill, revision
          acct,       \* balances of eosio.saving, eosio.bpay and eosio.vpay
          schedule    \* the producers last proposed; none at first

payvars == <<vars, unpaid, pay, acct, schedule>>

PayInit ==
    /\ Init
    /\ unpaid = [p \in Producers |-> 0]
    /\ pay = [perblock_bucket |-> 0, pervote_bucket |-> 0, total_unpaid |-> 0,
              last_fill |-> Never, revision |-> 0]
    /\ acct = [saving |-> 0, bpay |-> 0, vpay |-> 0]
    /\ schedule = {}

Active == totals.activated >= MinActivated

\* The producers with the most votes, in the order of the index prototalvote.
Elected ==
    LET candidates == {p \in Producers : prods[p].is_active /\ prods[p].total_votes > 0}
        Before(p, q) == \/ prods[p].total_votes > prods[q].total_votes
                        \/ prods[p].total_votes = prods[q].total_votes /\ p < q
    IN {p \in candidates : Cardinality({q \in candidates : Before(q, p)}) < MaxSchedule}

\* update_elected_producers; the chain may decline a proposal
update_elected_producers(accepted) ==
    schedule' = IF accepted /\ Cardinality(Elected) >= Cardinality(schedule)
                THEN Elected ELSE schedule

\* A block of the producer p, or of a producer that is not registered; a
\* minute has passed since the last update of the schedule, or not.
onblock(p, minute_passed, accepted) ==
    LET counts == IF p \in Producers THEN prods[p].row ELSE FALSE IN
    /\ Active
    /\ counts => pay.total_unpaid < MaxUnpaid
    /\ pay' = [pay EXCEPT !.last_fill = IF @ = Never THEN now ELSE @,
                          !.total_unpaid = IF counts THEN @ + 1 ELSE @]
    /\ unpaid' = IF counts THEN [unpaid EXCEPT ![p] = @ + 1] ELSE unpaid
    /\ IF minute_passed THEN update_elected_producers(accepted) ELSE UNCHANGED schedule
    /\ UNCHANGED <<vars, acct>>

\* Of the tokens issued 4/5 are saved; 1/4 of the rest is for blocks.
Issued ==
    IF pay.last_fill # Never /\ now > pay.last_fill
    THEN DailyIssue * (now - pay.last_fill) ELSE 0
ToProducers == Issued \div 5
ToBlockPay == ToProducers \div 4
ToVotePay == ToProducers - ToBlockPay

BlockPay(p, bucket) ==
    IF pay.total_unpaid > 0 THEN (bucket * unpaid[p]) \div pay.total_unpaid ELSE 0

\* The vote pay before revision 1 and since
PayByVotes(p, bucket) ==
    IF totals.vote_weight > 0
    THEN (bucket * prods[p].total_votes) \div totals.vote_weight ELSE 0

PayByShare(share, total, bucket) ==
    IF total > 0 THEN Least(bucket, (share * bucket) \div total) ELSE 0

\* mutant: the minimum is paid out instead of being required
AtLeastMinimum(amount) == Greatest(amount, MinVotePay)

EnoughToPay(amount) == IF amount < MinVotePay THEN 0 ELSE amount

\* mutant: claimed blocks keep waiting
StillUnpaid(p) == unpaid

Paid(p) == [unpaid EXCEPT ![p] = 0]

claimrewards(p) ==
    LET old == prods[p]
        row2 == IF old.row2 THEN old ELSE Row2(old)
        updated_after == ~old.row2 \/ UpdatedAfter(old)
        share == NewShare(row2, IF updated_after THEN 0 ELSE old.total_votes)
        shared == update_total_votepay_share(Tables, 0, 0)
        block_bucket == pay.perblock_bucket + ToBlockPay
        vote_bucket == pay.pervote_bucket + ToVotePay
        block_pay == BlockPay(p, block_bucket)
        vote_pay == EnoughToPay(
                      IF pay.revision = 0 THEN PayByVotes(p, vote_bucket)
                      ELSE IF Crossed(old) THEN 0
                      ELSE PayByShare(share, shared.totals.votepay_share, vote_bucket))
    IN /\ old.row /\ old.is_active /\ Active
       /\ now - old.last_claim_time > ClaimDays
       /\ Commit(update_total_votepay_share(
                   [Tables EXCEPT !.prods[p] =
                       [ShareUpdated(row2, TRUE) EXCEPT !.last_claim_time = now]],
                   - share, IF updated_after THEN old.total_votes ELSE 0))
       /\ pay' = [pay EXCEPT !.perblock_bucket = block_bucket - block_pay,
                             !.pervote_bucket = vote_bucket - vote_pay,
                             !.total_unpaid = @ - unpaid[p],
                             !.last_fill = IF @ = Never THEN @ ELSE now]
       /\ unpaid' = Paid(p)
       /\ acct' = [saving |-> acct.saving + Issued - ToProducers,
                   bpay |-> acct.bpay + ToBlockPay - block_pay,
                   vpay |-> acct.vpay + ToVotePay - vote_pay]
       /\ UNCHANGED <<now, voters, schedule>>

updtrevision ==
    /\ pay.revision = 0
    /\ pay' = [pay EXCEPT !.revision = 1]
    /\ UNCHANGED <<vars, unpaid, acct, schedule>>

Pay ==
    \/ \E p \in Producers : claimrewards(p)
    \/ \E p \in 0 .. ProducerCount, minute_passed, accepted \in BOOLEAN :
          onblock(p, minute_passed, accepted)
    \/ updtrevision

PayNext == Pay \/ (Next /\ UNCHANGED <<unpaid, pay, acct, schedule>>)

PaySpec == PayInit /\ [][PayNext]_payvars

-----------------------------------------------------------------------------
(* Properties.                                                             *)

\* The bucket for blocks is in its account and no sequence of blocks and
\* claims overdraws it: the blocks that wait for pay, by which it is divided,
\* are those of all producers together.
BlockPayCovered ==
    /\ pay.total_unpaid = SumTo(unpaid, ProducerCount)
    /\ acct.bpay = pay.perblock_bucket /\ pay.perblock_bucket >= 0

\* The bucket for votes is in its account and no sequence of votes and claims
\* overdraws it, although what is paid to one producer is a part of totals
\* that are counted apart from the votes and shares of the producers.
VotePayCovered == acct.vpay = pay.pervote_bucket /\ pay.pervote_bucket >= 0

\* The chain is activated once and for good, and its two records of that agree:
\* onblock, claimrewards and undelegatebw ask for the stake, the close of name
\* auctions for the time at which that stake was reached.
ActivationAgrees == totals.thresh_time # Never <=> Active
ActivatedForGood == [][Active => Active' /\ totals'.thresh_time = totals.thresh_time]_payvars
=============================================================================
