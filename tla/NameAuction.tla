---------------------------- MODULE NameAuction ----------------------------
(***************************************************************************)
(* The auction of short account names: bidname, bidrefund and newaccount   *)
(* (eosio.system.cpp), and the close of one auction a day in onblock       *)
(* (producer_pay.cpp).  Bids are held by eosio.names.  Whoever is outbid   *)
(* gets a refund row and a deferred transaction that pays it; anybody may  *)
(* push the same action by hand.  The bid of a closed auction goes to the  *)
(* REX pool at the pool's next run if somebody holds REX at the close.     *)
(*                                                                         *)
(* As in the table name_bid, the sign of high_bid says whether an auction  *)
(* is open (positive) or closed and waiting to be claimed (negative).  Of  *)
(* time only what the conditions read is kept, as ages that stop growing   *)
(* once every condition on them holds.                                     *)
(***************************************************************************)
EXTENDS Integers, FunSums

CONSTANTS NameCount,    \* the names are 1 .. NameCount, in the order of the table
          BidderCount,  \* the bidders are 1 .. BidderCount
          Bids,         \* the amounts bid on every name
          InitOwn,      \* the liquid tokens of each bidder at the start
          Day,          \* blocks_per_day and useconds_per_day, in ticks
          Wait          \* the 14 days from the activation of the chain, in ticks

Names == 1 .. NameCount
Bidders == 1 .. BidderCount
Nobody == 0             \* no bidder, no owner
System == -1            \* the account eosio
Never == -1             \* the age of what has not happened

ASSUME CountAssumption == NameCount \in Nat /\ BidderCount \in Nat
ASSUME BidsAssumption == Bids \in [Names -> SUBSET (Nat \ {0})] /\ InitOwn \in Nat
ASSUME TimeAssumption == Day \in Nat \ {0} /\ Wait \in Nat \ {0}

VARIABLES bid,          \* namebids: high_bidder and high_bid of every name
          bid_age,      \* time since last_bid_time of the open auctions
          refund,       \* bidrefunds: refund[name][bidder], 0 without a row
          deferred,     \* the pending deferred bidrefunds, as <<name, bidder>>
          lost,         \* history: the refunds whose deferred transaction the chain gave up
          own,          \* the liquid tokens of the bidders
          names_balance,\* the tokens of eosio.names
          proceeds,     \* rex_pool::namebid_proceeds
          kept,         \* history: winning bids that no REX holder was there for
          owner,        \* who created the account of a name, or Nobody
          spent,        \* history: what a bidder paid for the names it created
          rex_available,\* somebody holds REX
          close_age,    \* time since last_name_close
          active_age    \* time since thresh_activated_stake_time, or Never

auction == <<bid, bid_age, close_age>>
payments == <<refund, deferred, lost, own, names_balance>>
rex == <<proceeds, kept, rex_available>>
accounts == <<owner, spent>>
vars == <<auction, payments, rex, accounts, active_age>>

NoBid == [high_bidder |-> Nobody, high_bid |-> 0]

Init ==
    /\ bid = [n \in Names |-> NoBid] /\ bid_age = [n \in Names |-> 0]
    /\ refund = [n \in Names |-> [a \in Bidders |-> 0]]
    /\ deferred = {} /\ lost = {}
    /\ own = [a \in Bidders |-> InitOwn] /\ names_balance = 0
    /\ proceeds = 0 /\ kept = 0 /\ rex_available = FALSE
    /\ owner = [n \in Names |-> Nobody] /\ spent = [a \in Bidders |-> 0]
    /\ close_age = Day + 1 /\ active_age = Never

-----------------------------------------------------------------------------
IsOpen(n) == bid[n].high_bid > 0
IsClosed(n) == bid[n].high_bid < 0

\* mutant: a closed auction takes bids
OutbidsAny(a, n, amount) ==
    /\ amount - bid[n].high_bid > bid[n].high_bid \div 10
    /\ bid[n].high_bidder # a

\* the bid is more than 10% over the highest one, which is somebody else's
Outbids(a, n, amount) ==
    /\ IsOpen(n)
    /\ amount - bid[n].high_bid > bid[n].high_bid \div 10
    /\ bid[n].high_bidder # a

\* mutant: an older refund of the same bidder is overwritten
RefundReplaced(n, a, amount) == [refund EXCEPT ![n] = [refund[n] EXCEPT ![a] = amount]]

\* the refund row of a bidder of this name, created or added to
Refunded(n, a, amount) == [refund EXCEPT ![n] = [refund[n] EXCEPT ![a] = refund[n][a] + amount]]

\* mutant: the transaction refunds the new bidder
SentToBidder(n, outbid, a) == deferred \cup {<<n, a>>}

\* cancel_deferred and send with the id of the name and the outbid bidder
Sent(n, outbid, a) == deferred \cup {<<n, outbid>>}

bidname(a, n, amount) ==
    LET current == bid[n] IN
    /\ owner[n] = Nobody
    /\ amount <= own[a]
    /\ own' = [own EXCEPT ![a] = own[a] - amount]
    /\ names_balance' = names_balance + amount
    /\ \/ /\ current = NoBid
          /\ UNCHANGED <<refund, deferred, lost>>
       \/ /\ current # NoBid
          /\ Outbids(a, n, amount)
          /\ refund' = Refunded(n, current.high_bidder, current.high_bid)
          /\ deferred' = Sent(n, current.high_bidder, a)
          /\ lost' = lost \ {<<n, current.high_bidder>>}
    /\ bid' = [bid EXCEPT ![n] = [high_bidder |-> a, high_bid |-> amount]]
    /\ bid_age' = [bid_age EXCEPT ![n] = 0]
    /\ UNCHANGED <<close_age, rex, accounts, active_age>>

\* pays the refund row and erases it; needs no authority of the bidder
PayRefund(a, n) ==
    /\ refund[n][a] > 0
    /\ refund[n][a] <= names_balance
    /\ own' = [own EXCEPT ![a] = own[a] + refund[n][a]]
    /\ names_balance' = names_balance - refund[n][a]
    /\ refund' = [refund EXCEPT ![n] = [refund[n] EXCEPT ![a] = 0]]
    /\ lost' = lost \ {<<n, a>>}
    /\ UNCHANGED <<auction, rex, accounts, active_age>>

bidrefund(a, n) == PayRefund(a, n) /\ UNCHANGED deferred

\* The chain runs a deferred transaction once, or gives it up, as it does when
\* the transaction fails for want of a row.
Deliver(a, n) ==
    /\ <<n, a>> \in deferred
    /\ deferred' = deferred \ {<<n, a>>}
    /\ PayRefund(a, n)

GiveUp(a, n) ==
    /\ <<n, a>> \in deferred
    /\ deferred' = deferred \ {<<n, a>>}
    /\ lost' = IF refund[n][a] > 0 THEN lost \cup {<<n, a>>} ELSE lost
    /\ UNCHANGED <<auction, refund, own, names_balance, rex, accounts, active_age>>

-----------------------------------------------------------------------------
\* mutant: closed auctions stand first in the index too
HighestOfAll(n) == IsOpen(n) /\ \A m \in Names \ {n} : bid[m] = NoBid

\* the first row of the index "highbid" that is open
Highest(n) ==
    /\ IsOpen(n)
    /\ \A m \in Names \ {n} : IsOpen(m) =>
          bid[n].high_bid > bid[m].high_bid \/ (bid[n].high_bid = bid[m].high_bid /\ n < m)

\* mutant: the proceeds are announced to a pool nobody holds
ToPoolAlways(amount) == proceeds' = proceeds + amount /\ UNCHANGED <<kept, rex_available>>

\* channel_namebid_to_rex
ToPool(amount) ==
    /\ IF rex_available THEN proceeds' = proceeds + amount /\ UNCHANGED kept
                        ELSE kept' = kept + amount /\ UNCHANGED proceeds
    /\ UNCHANGED rex_available

\* The close of an auction in onblock: only the highest bid is looked at, at
\* most once a day, and it must have stood for a day.
onblock(n) ==
    /\ active_age > Wait
    /\ close_age > Day
    /\ Highest(n)
    /\ bid_age[n] > Day
    /\ close_age' = 0
    /\ ToPool(bid[n].high_bid)
    /\ bid' = [bid EXCEPT ![n].high_bid = - bid[n].high_bid]
    /\ bid_age' = [bid_age EXCEPT ![n] = 0]
    /\ UNCHANGED <<payments, accounts, active_age>>

Claimable(creator, n) == IsClosed(n) /\ bid[n].high_bidder = creator

\* newaccount by the winner, who uses the bid up
newaccount(creator, n) ==
    /\ owner[n] = Nobody
    /\ Claimable(creator, n)
    /\ bid' = [bid EXCEPT ![n] = NoBid]
    /\ owner' = [owner EXCEPT ![n] = creator]
    /\ spent' = [spent EXCEPT ![creator] = spent[creator] - bid[n].high_bid]
    /\ UNCHANGED <<bid_age, close_age, payments, rex, active_age>>

\* newaccount by eosio, which does not look at the auction
SystemAccount(n) ==
    /\ owner[n] = Nobody
    /\ owner' = [owner EXCEPT ![n] = System]
    /\ UNCHANGED <<auction, payments, rex, spent, active_age>>

-----------------------------------------------------------------------------
\* what runrex takes from eosio.names for the pool
Channelled == IF rex_available THEN proceeds ELSE 0

\* runrex moves the proceeds from eosio.names to the pool
runrex ==
    /\ proceeds > 0
    /\ proceeds' = 0
    /\ names_balance' = names_balance - Channelled
    /\ UNCHANGED <<auction, refund, deferred, lost, own, kept, rex_available, accounts, active_age>>

\* The pool gets its first holder, or loses its last one; every action on the
\* pool moves the proceeds first, see NamebidsWaitForLenders in Rex.
PoolChanges ==
    /\ proceeds = 0
    /\ rex_available' = ~ rex_available
    /\ UNCHANGED <<auction, payments, proceeds, kept, accounts, active_age>>

\* update_votes: the votes cast reach min_activated_stake, for good
Activate ==
    /\ active_age = Never
    /\ active_age' = 0
    /\ UNCHANGED <<auction, payments, rex, accounts>>

Older(age, cap) == IF age = Never \/ age = cap THEN age ELSE age + 1

Tick ==
    /\ bid_age' = [n \in Names |-> IF IsOpen(n) THEN Older(bid_age[n], Day + 1) ELSE 0]
    /\ close_age' = Older(close_age, Day + 1)
    /\ active_age' = Older(active_age, Wait + 1)
    /\ UNCHANGED <<bid, payments, rex, accounts>>

CloseOne == \E n \in Names : onblock(n)

Next ==
    \/ \E a \in Bidders, n \in Names :
          \/ \E amount \in Bids[n] : bidname(a, n, amount)
          \/ bidrefund(a, n)
          \/ Deliver(a, n)
          \/ GiveUp(a, n)
          \/ newaccount(a, n)
    \/ \E n \in Names : SystemAccount(n)
    \/ CloseOne
    \/ runrex
    \/ PoolChanges
    \/ Activate
    \/ Tick

Spec == Init /\ [][Next]_vars

\* Time passes, and a block is produced when it has.
FairSpec == Spec /\ WF_vars(Tick) /\ WF_vars(CloseOne)

-----------------------------------------------------------------------------
SumBidders(f) == SumTo(f, BidderCount)
SumNames(f) == SumTo(f, NameCount)
Abs(x) == IF x < 0 THEN -x ELSE x

\* No balance, refund or amount to pay on is negative, and the ages stay within
\* their caps.
TypeOK ==
    /\ bid \in [Names -> [high_bidder : Bidders \cup {Nobody}, high_bid : Int]]
    /\ bid_age \in [Names -> 0 .. Day + 1]
    /\ refund \in [Names -> [Bidders -> Nat]]
    /\ deferred \subseteq Names \X Bidders /\ lost \subseteq Names \X Bidders
    /\ own \in [Bidders -> Nat] /\ names_balance \in Nat
    /\ proceeds \in Nat /\ kept \in Nat /\ rex_available \in BOOLEAN
    /\ owner \in [Names -> Bidders \cup {Nobody, System}] /\ spent \in [Bidders -> Nat]
    /\ close_age \in 0 .. Day + 1 /\ active_age \in 0 .. Wait + 1 \cup {Never}

\* eosio.names holds exactly the open bids, the refunds, the winning bids on
\* their way to the pool and those that had no pool to go to: a refund can
\* always be paid, and so can the transfer inside runrex, which would otherwise
\* fail every action on the pool.
NamesBacked ==
    names_balance = SumNames([n \in Names |-> IF IsOpen(n) THEN bid[n].high_bid ELSE 0])
                    + SumNames([n \in Names |-> SumBidders(refund[n])])
                    + proceeds + kept

\* Nobody pays for a name but its winner: what a bidder has, waits for in
\* refunds, leads or won with and paid for names it created is what it had,
\* however the bids, refunds and closes of several names interleave.
BiddersMadeWhole ==
    \A a \in Bidders :
       InitOwn = own[a] + spent[a]
                 + SumNames([n \in Names |-> refund[n][a]])
                 + SumNames([n \in Names |->
                      IF bid[n].high_bidder = a THEN Abs(bid[n].high_bid) ELSE 0])

\* Whoever was outbid has a refund transaction under way, unless the chain
\* gave it up: cancelling the older one never leaves a row without.
RefundUnderWay ==
    \A n \in Names, a \in Bidders :
       refund[n][a] > 0 => <<n, a>> \in deferred \/ <<n, a>> \in lost

\* A closed auction is final: its row changes only when its winner creates the
\* account.
WinnerKeepsName ==
    [][\A n \in Names : IsClosed(n) =>
          \/ bid'[n] = bid[n]
          \/ /\ bid'[n] = NoBid
             /\ owner[n] = Nobody /\ owner'[n] = bid[n].high_bidder]_vars

\* Once the chain is activated every auction is closed some day, though only
\* the highest bid of all names is looked at and every bid starts its day
\* again: the bidders run out of higher bids.
AuctionsClose == \A n \in Names : IsOpen(n) /\ active_age # Never ~> ~ IsOpen(n)
=============================================================================
