# Formal models of the eosio.contracts

TLA+ models of the system contracts in `src/contracts`, the TLC runs that check
them on small instances, and theorems about them that TLAPS proves for every
value of the constants. `PROJECT.json` lists the components, runs, mutants,
hazards and theorems, and maps every definition to the lines it models.

    tlc -config MCRex.cfg MCRex.tla         # a run: see "Runs" for the pairs
    tlapm EosioTokenProofs.tla              # a proof module

Paths below are under `src/contracts/`; "the system contract" is `eosio.system`.

## 1. The system

All contracts run on one chain. An action is a function of the contract's
tables and of the authorities it was signed with; its checks, its writes and the
inline actions it sends form one transaction that takes effect as a whole or not
at all. There is no concurrency inside a transaction. What is hard are the
*sequences* of transactions: anybody can push most actions at any time, so
actions of different users interleave in every order; work is done lazily by
whoever comes next (REX loans, sell orders, maturities); some work is handed to
*deferred transactions*, which the chain runs later, or never; and the same
quantity is kept in several tables that each action adjusts by a difference.

| component | state | operations | interacts with | what makes it correct |
|---|---|---|---|---|
| **eosio.token** (`eosio.token.cpp`) | `stat` (supply, maximum, issuer), `accounts` (balances, RAM payer) | create, issue, retire, transfer, open, close | every other component pays through inline transfers | supply = sum of balances; 0 <= supply <= maximum; tokens and RAM are taken only with the owner's authority |
| **REX** (`rex.cpp`) | pool totals, funds, REX balances with maturity buckets, CPU and NET loans, sell-order queue | deposit, withdraw, buyrex, unstaketorex, sellrex, cnclrexorder, rentcpu, rentnet, fund and defund loans, updaterex, setrex, rexexec, consolidate, mvtosavings, mvfrsavings, closerex | eosio.rex's tokens; `voter_info::staked`; resource weights; RAM fees and name bids come in | eosio.rex holds what is owed; totals match the tables; the price of REX never falls; an order is not overtaken by loans and is served at last; REX is locked as long as promised |
| **CPU and NET staking** (`delegate_bandwidth.cpp`) | `delband`, `userres`, `refunds`, `voter_info::staked`, resource limits, deferred refunds | delegatebw, undelegatebw, refund, the deferred refund, setacctnet, setacctcpu | eosio.stake's tokens, voting, REX (same `userres`) | eosio.stake holds what is owed; the three records of a stake agree; nothing is refunded before its delay; limits follow stake |
| **Name auction** (`eosio.system.cpp`, `producer_pay.cpp`) | `namebids`, `bidrefunds`, deferred refunds, `last_name_close` | bidname, bidrefund, the close in onblock, newaccount | eosio.names' tokens; REX receives winning bids | bidders are made whole; a closed auction is final; every auction closes |
| **eosio.msig** (`eosio.msig.cpp`) | `proposal`, `approvals2`, `invals` | propose, approve, unapprove, cancel, exec, invalidate | the chain's authorization check, deferred transactions | nothing runs without the standing consent, to that very transaction, of all it needs; no copy of a level is lost or doubled |
| **Voting and proxies** (`voting.cpp`) | `voters` (staked, last weight, proxied weight, proxy, producers), `producers`, totals | voteproducer, regproxy, regproducer, unregprod, update_elected_producers, refresh of votes by staking and REX | staking and REX change `staked`; pay uses the totals | a producer's votes are the sum of its voters' last weights, through proxies; no proxies in a circle; shares in the vote pay add up |
| **Producer pay** (`producer_pay.cpp`, `voting.cpp`) | unpaid blocks, per-block and per-vote buckets, vote-pay shares and rates | onblock, claimrewards | votes, token issue | buckets are covered by eosio.bpay and eosio.vpay; the blocks waiting are those of the producers |
| **RAM market** (`delegate_bandwidth.cpp`, `exchange_state.cpp`) | Bancor connectors, reserved bytes, quotas, RAM limits | init, buyram, buyrambytes, sellram, setram, setramrate, setalimits, setacctram | eosio.ram and eosio.ramfee; fees go to REX; staking touches the same rows and limits | all RAM is for sale or in quotas; eosio.ram covers what a sale can take; no round of trades drains the market; a quota can be used |
| **Chain parameters, eosio.bios, eosio.wrap, rex.results, native handlers** | parameters, ABI hashes | setparams, setpriv, setabi, exec, ... | | no state to relate: they store or forward what a privileged caller gives |

`PROJECT.json` names under `hazards` what in this code is hard to test, at its
line, with the properties aimed at it.

## 2. Modules

    FunSums                 sums over 1..n and over finite sets
    FunSumsProofs           lemmas about them
    EosioToken              MCEosioToken (TLC)   EosioTokenProofs
    RexMaturities           the deque of maturity buckets: operators on one row
    Rex                     every action of rex.cpp    EXTENDS RexMaturities
    MCRex                   two scenes of Rex (TLC)
    RexInvariant            the inductive invariant of Rex, with names for what
                            its lemmas speak of    EXTENDS Rex
    RexProofs               proofs about Rex and RexLockup    EXTENDS RexInvariant
    RexLockup               one owner's row over many days    EXTENDS RexMaturities
    RexVesting              what that row promises; RexLockup implements it
    DelegateBandwidth       DelegateBandwidthProofs
    Voting                  votes, proxies, registration, shares in the vote pay
    ProducerPay             blocks, claims, schedule     EXTENDS Voting
    MCProducerPay           three scenes of it (TLC)     ProducerPayProofs
    RamMarket               MCRamMarket (TLC)    RamMarketProofs
    NameAuction             MCNameAuction (TLC)  NameAuctionProofs
    Multisig                MCMultisig (TLC)     MultisigProofs

**EosioToken.** One action per action of the contract. The authorities are an
input, a set of signers; the history variable `auth`, who signed
the last action, lets the properties say who agreed. `issue` contains its inline transfer.

**Rex.** The helpers of `rex.cpp` are operators on a record of all tables that
return the record they leave (and clear `ok` when a `check` fails), so that an
action reads as the code does, including the order of its calls: for instance
`sellrex` runs the pool, processes maturities, tries to fill the order, queues
it if it cannot, collects what earlier fills left and refreshes the vote stake.
`Commit` is the transaction: all tables or none. `runrex` handles at most two
loans of each kind and two orders (`RunMax`), `rexexec` the number given. The
Bancor formula is the exact quotient rounded down, as the doubles of the code
give for the amounts used. RAM fees and winning bids come in by the actions
`ramfee` and `namebid`. `Next` is divided into groups of actions with their
amounts as parameters, of which MCRex chooses for each scene.

**RexLockup and RexVesting.** A row of `rexbal` alone, over days of several
ticks. RexVesting has no deque: each share matures by itself at its time.
RexLockup is shown to implement it (by rex_lockup, and by the theorem RowVests)
under the mapping that counts buckets that are due as free although the code
moves them only at the next action.

**DelegateBandwidth.** `changebw` with all of its branches: who pays, when the
refund row is used, its timer, and the deferred transaction that each change
cancels and possibly sends again. The chain's part is `Deliver` and `Drop`.

**Voting.** `voters` has what each voter has chosen; `weight` the weights that
count, `last_vote_weight` and `proxied_vote_weight`; `prods` both producer
tables; `totals` the singletons. As in Rex, the helpers of `voting.cpp` map the
tables to the tables they leave. `propagate_weight_change` calls itself along the
chain of proxies: `WeightPassedOn` is one call, with its own check and its own
guard against small changes, and names the next; there are no more calls than
voters. `VotesChanged`
is the loop over producers that `update_votes` and `propagate_weight_change`
both have: it changes votes, brings each producer's share up to date, and hands
the rate and the shares that leave to `update_total_votepay_share`. A weight is
stake times `VoteFactor[now]`, an even integer in place of the power of two: the
guard passes over changes up to 1 because doubles are rounded, and with even
numbers it passes over none but 0. The stake
of a voter changes by `update_voting_power` (staking, REX) or inside
`voteproducer` (the REX stake that is refreshed first).

**ProducerPay** extends Voting. `onblock` is one block, of a registered producer
or not, after which the schedule is updated or not; the chain may decline it.
`claimrewards` is the whole action: it issues tokens for the time since the last
claim of anybody, fills both buckets, pays from both and resets the share. The
pay by votes before revision 1 and the one by shares are both there, and the
row in `producers2` may still be missing (`Legacy`).

**RamMarket.** The exchange of `exchange_state.cpp` with both its conversions,
through RAMCORE, whose supply is a constant of each conversion: `convert` adds
what it issues and takes it back. The exponents are 1/2 and 2, so both
conversions are exact in integers, rounded down where the code casts;
`Issued` is the largest number that satisfies the inequality, computed in
advance for small amounts (`Table`). `update_ram_supply` is in all actions that
call it. `users` has, for every account, its row in `userres`, whether its
RAM is managed (`voters`), and its limit in the chain; `changebw` here is the part of
staking that concerns these. `limit` is -1 for an unlimited account.

**NameAuction.** As in the table, the sign of `high_bid` tells open from closed.
Time is kept as ages that saturate. REX appears as "somebody holds REX or not";
that its last holder does not leave while proceeds wait is the invariant
`NamebidsWaitForLenders` checked in Rex.

**Multisig.** The contract keeps the levels that `propose` is given in a list,
duplicates included, and moves one copy of a level per `approve` or `unapprove`
between two lists, the first that it finds. Here `requested` counts the copies of
each level, and `provided` has the times of the approved ones, in the order of
the list. The contract has none of the history variables: `asked` is what
`propose` was given; `consent` is what an actor's last approval under the name
was for (the hash it gave, or what it found without hash), until it calls
`invalidate`; `withdrawn` has the actors whose last word was `unapprove`.

**Mutants.** Each module also has, marked `\* mutant:`, the changed operators
with which every property of every run is shown to be violated, so that no
property holds just because of the form of the model.

## 3. Runs

| run | module, cfg | checks | bounds |
|---|---|---|---|
| token | MCEosioToken | SupplyIsSumOfBalances, Solvent, OwnersAuthorise, IssuerControlsSupply | three names of which two are accounts, one symbol, amounts -1..2 |
| rex_market | MCRex | PoolMatchesTables, SharesHaveValue, RexAccountBacked, NamebidsWaitForLenders, RowsAddUp, WeightIsBacked, HoldersVote, MaintenanceNeverFails, RexPriceNeverFalls, OrdersServed | one lender, one renter, one loan, 2 ticks. *market*: purchases of 1 to 3, sales in parts, both fees; the pool is emptied and opened again. *accounts*: deposits, savings, staked tokens moved to REX, changing votes, setrex |
| rex_lenders | Rex, RexLenders.cfg | NoLoanOvertakesOrder, StakeFollowsRex | two lenders, two loans of two ticks, 3 ticks: two queued orders, renewals, overlapping loans |
| rex_stake | Rex, RexStake.cfg | VoteStakeIsInVote: **violated** | see Findings |
| rex_lockup | RexLockup | ImplementsVesting | five days of two ticks, maturity after three days, at most 5 REX |
| bandwidth | DelegateBandwidth | StakeBacked, TablesAgree, LimitsFollowStake, B1Vests, DeferredNotEarly, RefundsWait | two accounts, one of them b1, amounts 0..1, delay 1, 3 ticks |
| bandwidth_deferred | DelegateBandwidthDeferred.cfg | RefundScheduled: **violated** | see Findings |
| pay | MCProducerPay | VotesAddUp, NoProxyCycle, SharesAddUp, BlockPayCovered, VotePayCovered | three voters with stakes 0..1, two producers, five days. *proxies*: all votes, proxies and stakes over two days. *shares*: one voter votes again and again, becomes a proxy, producers claim. *blocks*: one vote, then blocks, claims, registrations and the revision |
| pay_legacy | MCProducerPay, MCProducerPayLegacy.cfg | VotesCountedOnce: **violated** | see Findings |
| ram | MCRamMarket | RamAccounted, SalesArePaid, QuotaUsable, MarketNeverLoses | two accounts, 16 to 20 bytes and what blocks add. *trades*: purchases of 1, 3, 6 tokens and 2, 5 bytes, sales, rates 0 and 3, 3 slots. *limits*: single trades among staking, newaccount (one of the accounts is not there at the start), setalimits, setacctram |
| names | MCNameAuction | NamesBacked, BiddersMadeWhole, RefundUnderWay, WinnerKeepsName, AuctionsClose | two names, two bidders, bids 9 to 14 (so that the 10% rule rejects some) |
| msig | MCMultisig | ApprovalsComplete, ApprovalsMatch, ActsOnConsent | two accounts approving, two transactions. *one name*: one proposer, each level requested up to twice, 3 ticks. *two names*: both propose, two lists of levels, one with a level twice, 2 ticks |

The type invariants (`TypeOK`) are proved, see below; there the runs say nothing
more. A *scene* is a subset of the actions, chosen in the initial state, where
all actions together would have too many states.

*Why the bounds are enough.* They were chosen for the cases they reach, and the
cases were confirmed by asking TLC for states that have them. Rounding, the
numeric risk of REX, already shows in pools of a few tokens with a ratio of 2,
where a share is worth a fraction of a token. The pool reaches its second life
(all shares sold, bought again) in rex_market. Two loans and two lenders are the
least with which an order waits behind another and one loan expires while the
other runs; rex_lenders reaches open orders with two running loans, filled
beside open orders, and renewed loans. A maturity bucket per day and three days
suffice to have every order of buckets, merges and savings. In names, one bidder
is outbid twice on one name before its first refund is paid. In msig, times are
shared by several actions, so approvals and invalidations meet at the same time;
with a level requested twice, one copy is void or taken back while the other stands.

In pay, three voters are the least for a proxy that was unregistered and names a
proxy itself, while a voter still names it. The weight of a token is 2 on the
first day and 4 later: the last weights of different days differ, and 2 is the
least weight that passes the guard on changes up to 1. The days are those of the
code (a claim a day, shares for three days) with one tick a day, so that every
comparison of times meets its equality. `DailyIssue` is such that both buckets
are divided with a rest, and `MinVotePay` such that some pay is below it. The
total of activated stake is kept only up to the minimum, since the code compares
it with nothing else. In ram, RAMCORE has a supply of 4000 and sides of 12 to 40:
every conversion rounds. The product of slots and rate wraps at 8 in place of
2^32, so that an increase of 9 bytes wraps.

*Fairness.* Only OrdersServed (in rex_market) and names need it. `WF(Tick)` is
the passing of time. In rex_market the other assumption is
`<>[]WorkDue(max) => []<><<rexexec(max)>>`: `rexexec` needs no particular
authority, so whoever waits for an order pushes it; it is not assumed of anything
else, and not that any other user acts. `LastRent` ends new loans, since renters
who keep borrowing whenever the queue is empty are no concern of a queued order.
In names, `WF(CloseOne)` says blocks are produced: `onblock` is called in each.
That bids end is the finite set of bids; without it a more expensive auction
could always go first.

TLC checks for deadlock in all runs but pay, pay_legacy and ram, where time ends
and a scene may have nothing left to do.

## 4. Proofs

| module | theorems |
|---|---|
| FunSumsProofs | a sum changes by the changes of its values (`SumToUpdate`, `SumOverChange`), sums of parts, bounds |
| EosioTokenProofs | TypeCorrect, Conservation, Solvency, Capped, BalancesCapped, Authorised, IssuerControls |
| DelegateBandwidthProofs | TypeCorrect, Inductive, Backed, Agreement, LimitsFollow, NotEarly, Waits, Vests |
| RexProofs | Inductive, TotalsMatch, SharesAreBacked, AccountBacked, NamebidsWait, RowsAlwaysAddUp, WeightAlwaysBacked, HoldersAlwaysVote, MaintenanceRuns, PriceNeverFalls, NoLoanOvertakes, StakeFollows, RowVests |
| ProducerPayProofs | NoCycleOfProxies, VotesAlwaysAddUp, SharesAlwaysAddUp, VotesAreCountedOnce, BlockPayIsCovered, VotePayIsCovered, ActivationsAgree, ActivationIsFinal |
| RamMarketProofs | Inductive, Accounted, Paid, Usable, NeverLoses |
| NameAuctionProofs | TypeCorrect, Backed, MadeWhole, UnderWay, KeepsName |
| MultisigProofs | TypeCorrect, Inductive, Complete, Matches, Consented |

They hold for every number of accounts, every set of amounts, every delay, every
bound on time. The assumptions are the named `ASSUME`s of the modules. Most only
give the constants their types (and say that b1, if any, is an account); those
that say more are:

* `TimeAssumption` of Rex: the maturities of purchases, days ahead of any time,
  come before the end of time at which savings mature.
* `EndAssumption`, `AmountsAssumption` of RexLockup: the same, and the REX amounts
  of actions are positive, which each of them checks. RowVests repeats the latter
  as its hypothesis and takes the former from Rex.
* `RatioAssumption`, `RunAssumption` of Rex: the first purchase gets REX, and a
  limit on maintenance is not negative.
* `FactorAssumption` of Voting: weights are even, see above. With doubles a change
  of weight of at most 1 is not passed on, so the sums drift by as much; the
  theorem says that there is no other drift.
* `TimeAssumption` of Voting: time starts at 1, and shares grow for a positive
  number of days (three in the code).
* `Legacy = {}` in SharesAlwaysAddUp and VotesAreCountedOnce: no producer was
  registered before `producers2` existed. Without it both are false, see pay_legacy.

*Sums.* Conservation laws compare a counter with a sum over accounts. The sum is
a recursive function over 1..n, about which induction over n is done with a set
of those n for which the claim holds, so that no theorem with an operator
parameter is needed. The key lemma is `SumToUpdate`. Votes are sums over sets of
voters (`SumOver`, a fold of the community modules). The fold takes out an
element that CHOOSE picks; `SumsRemove` shows by induction over the subsets of
the set that any other element could be taken instead, and all else follows.

*Token.* The inductive invariant is the type invariant, conservation and
solvency together: a transfer keeps the sum only because neither balance goes
below zero, and a symbol that was never created has no supply; the cap then
bounds each single balance (`BalancesCapped`), so `add_balance` cannot overflow.

*Staking.* All actions but a few change the tables in the same way: a stake of
an owner for a receiver changes, and a payer or the refund row provides the
difference. One lemma (`Effect`) states what `changebw` does to the sums, and
the invariants follow from it; without `TablesAgree` neither the nonnegativity of
the totals nor b1's vesting would be inductive. For `RefundsWait` the invariant
is strengthened by the relation of three times (`Timers`): the last undelegation
of an account whose row waits is not later than the row's request time, and none
of them is in the future.

*Msig.* The table does not record that an approval is void, nor what it was given
for. The invariant adds that the approvals of an actor without consent are not
later than its last invalidation (`VoidIsInvalidated`; here the strict comparison
in exec is essential), that consent is to what is proposed (`ConsentIsCurrent`),
and that a level requested once is not approved after `unapprove`
(`OnceIsEnough`, which needs the count of copies in `ApprovalsComplete`). So an
approval that exec counts comes with consent (`StandingConsents`), which is
`ApprovalsMatch` and makes `ActsOnConsent` a property of steps.

*REX.* The inductive invariant `Inv` (module RexInvariant; TLC finds it to hold
in the scenes of rex_market) is
`Good(Tables, now, 0, {})`, where
`Good(s, t, extra, free)` says of any tables `s` that the pool's totals are the
sums of loans and rows, that eosio.rex holds what is owed plus `extra`, that
weights are what is delegated and rented, that rows add up and are in order, and
that every open order but those of the accounts in `free` is covered by matured
REX. The two last parameters are for the middle of an action: a payment that is
not yet spent is `extra`, and a seller whose order is about to be checked is in
`free`. Each helper of `rex.cpp` has a lemma that says what it does to `Good`,
each action is put together from them in the order of its calls, and a step that
ends in `Good(.., 0, {})` preserves `Inv`. The strengthening over the properties
is needed at these places:

* `sellrex` takes no more than has matured only because the open order is covered
  and buckets and matured REX add up; rows stay in order only because nothing but
  the savings matures later than what is bought now.
* A loan that is closed or renewed takes from the receiver's weight what it put
  there, so the check in `update_resource_limits` holds.
* The pool has shares exactly if it has lendable tokens; so no division is by zero.

As a result `runrex`, with which nearly all actions begin, cannot fail once the
pool is open (`MaintenanceNeverFails`): no loan or order, however small or
rounded, can block the actions of everybody. The three action properties come
from one description of steps (`Steps`), proved along with the invariant: the
price moves upwards only, nothing is lent while an order stays open, and the vote
stake of a row moves together with the stake of its voter. The proof covers the
exact, rounded-down quotient of the Bancor formula, for any amounts and ratio.

*Maturities.* `RowVests` says that RexLockup implements RexVesting, for any
length of a day, number of buckets, amounts and time. `View(rb, t)` is what a row
promises at time t: its savings, what has matured once the due buckets are moved,
and for each later time what matures then. One lemma per operator of
RexMaturities says what it does to the view: purchases and savings given up add to
one time (`ViewBuys`, `ViewUnsaves`), consolidation moves all but the order
(`ViewConsolidates`), moving due buckets changes nothing (`ViewProcesses`), a tick
frees what matures at it (`ViewTicks`). The hardest is `ViewSaves`: the code takes
from the back of the deque until it has enough, RexVesting takes from each
time what the later ones leave; `TakenMaturing` shows that both are the same, by
comparing what lies behind each bucket with what matures later (`AfterIsLater`).
The invariant needed is small: the row adds up, its buckets are in order (at most
one for a time, the savings last), and the open order is covered by `matured_rex`.

*Proxies.* `NoProxyCycle` says that every nonempty set of voters has a member
whose proxy is outside of it. A new edge is only added from an account that is no
proxy to one that is, and an account becomes a proxy only without a proxy of its
own. Neither is an invariant of the past: an account may unregister and name a
proxy while others still name it. What is inductive is the absence of a cycle
with `a registered proxy has no proxy`: a cycle through the new edge would
have to leave the new proxy, which has none. It holds for any stakes and weights.

*Votes.* `VotesAddUp` does not hold in the middle of a vote: the weight is taken
back from the old proxy first, then given to the new one, then moved between
producers and stored last. `Matched(s, v, to, a, for, b)` says of tables `s` that
every voter but `v` counts with its last weight for its proxy and its producers,
while `v` counts with `a` for its proxy and with `b` for its producers. Each part of `update_votes`
takes tables from one such statement to the next, and the last to one without
`v`. `propagate_weight_change` needs more: after each call the tables match but
for the next proxy in the chain, whose last weight is behind its proxied weight;
`NoProxyCycle` makes the chain end before it comes back to `v`, or to any
voter twice, within as many calls as there are voters.

*Shares.* `SharesAddUp` compares the rate and the total of the shares with sums
over the rows that count, those last updated within three days of their last
claim. `Keeps` says that a change of the tables keeps this; one lemma
(`SharesKept`) proves it of `VotesChanged`, the only place where votes change, and
uses that rows leave both sides together: a row crosses the three days in the
update that takes its share and its votes out of the totals. The invariant adds
that a voter only approves producers that have rows, so that a producer that registers
has no votes yet; and that shares are never negative, so the cut at 0 in
`update_total_votepay_share` never cuts.

*Activation.* The chain keeps two records of it: onblock, claimrewards and
undelegatebw compare the activated stake with the minimum, the close of name
auctions asks for the time at which it was reached. `ActivationAgrees` says that
one holds exactly when the other does, `ActivatedForGood` that neither is ever
taken back. Both are proved along with the shares: the relation `Keeps`, which
every part of a vote and every call of `propagate_weight_change` is shown to
have, contains `StaysActive`. NameAuction, whose action `Activate` happens once and
has no opposite, rests on this. The hypothesis `MinActivated # 0` says that there is
a stake to reach (150,000,000 tokens in the code).

*Vote pay.* Before revision 1 a producer gets its part of all votes, which
`VotesAddUp` bounds by the bucket; since then the code takes the minimum itself.

*Block pay.* The counter of unpaid blocks is the sum of the producers' counters
(`SumToUpdate` again), so the part of the bucket that one producer gets is at
most the bucket; the bucket and its account change by the same amounts.

*RAM.* That a sale is always paid (the last check of `sellram` never fails)
needs more than the balance of each step: after trades and growth the price may
be anything. The inductive invariant bounds the product of the sides from below
by `max * InitQuote`, the size of the RAM times the tokens at the start. Each
conversion rounds down, so no trade lowers the product; growth of the RAM adds
to the base side, which raises the product by at least as much as the bound
since the quote side never falls below its start. Selling everything sold makes
the base side `max` again, so at least `InitQuote` tokens remain. The proof covers
every supply of RAMCORE and every size; it is a proof about the exact formula.

*Names.* The sums over the names of the open bids and of the refunds are compared
with the balance of eosio.names, and for each bidder with what it had. Every
action changes the summands of one name, and two lemmas (`BackedStep`, `WholeStep`)
turn that into the change of the sums. The invariant adds that a nonzero bid has a
bidder and that proceeds wait only while somebody holds REX (`ProceedsHeld`):
without it a run could forget proceeds that eosio.names still holds, and
`NamesBacked` would fail.

*Only model-checked.* Liveness (`OrdersServed`, `AuctionsClose`), which the prover
cannot express; every other property of the passing runs is proved. The
cap on the supply (`SupplyCapped`, theorem Capped) and the activation are the
other way round: proved and in no run.

## 5. Findings

* **rex_stake** (`rex.cpp:111`). `unstaketorex` discards the change of the vote
  stake that `add_to_rex_balance` returns and passes 0 on, so the owner's
  `vote_stake` and its part of `voter_info::staked` differ from then on. The
  comment at `eosio.system.hpp:244` says that `vote_stake` is "the amount of
  CORE_SYMBOL currently included in owner's vote". `StakeFollowsRex` shows that
  all other actions (but closerex, which erases the row) keep the two in step.
* **bandwidth_deferred** (`delegate_bandwidth.cpp:404`). A `delegatebw` for
  another account cancels the owner's deferred refund without using the refund
  row, which then waits for somebody to push `refund`. The README of the system
  contract (line 45) says the tokens "are transferred to `from` liquid balance
  via a deferred transaction with a delay of 3 days".
* **pay_legacy** (`voting.cpp:58`). A producer registered before the table
  `producers2` existed may register again when its last claim is three days old
  or older. regproducer then creates the row with `last_votepay_share_update` =
  now and adds the producer's votes to the rate of all shares. Because of that
  time the row counts as updated after the threshold, and the producer's next
  claimrewards adds the same votes to the rate a second time. The comments
  (`voting.cpp:59`, `producer_pay.cpp:147`) mean the votes to be counted when the
  row is introduced, "for the first time". The total of the shares then grows
  too fast for good, which lowers everybody's vote pay; nothing is overdrawn.

Two more things that no run can show as a violation:

* **Shares without tokens do not occur** (`rex.cpp:1098`). The comment before the
  check "lendable REX pool is empty" says: "total_lendable > 0 if total_rex > 0
  except in a rare case and due to rounding errors". The code has no such case. A
  sale of `rex` shares of R0 takes `rex * S0 / R0` rounded down from S0 lendable
  tokens (`rex.cpp:824-828`), which is less than S0 whenever rex < R0: rounding
  leaves a token too many in the pool, never one too few. Purchases, fees and
  loan payments only add to `total_lendable`, and opening and closing loans moves
  tokens between its two parts. So the check cannot fail, and the comment is
  more cautious than the code. `SharesHaveValue` is checked in rex_market with
  roundings that leave a rest, its mutant rounds the proceeds up, and
  `SharesAreBacked` proves it for all amounts. (This is with amounts that fit
  their 64 bits, which the comment at `rex.cpp:1065` derives from the supply.)
* **One unapprove takes back one approval** (`eosio.msig.cpp:101-107`). `propose`
  accepts a level more than once and `approve` can then be called as often. After
  `propose([a, a])`, two calls of `approve` and one of `unapprove`, an approval of
  `a` remains and `exec` sends the transaction. The copy taken back is the oldest,
  so after an `invalidate` in between it may be a void one while the valid one
  remains. README line 24 of eosio.msig, "Revoke an approval of transaction", can
  be read either way. `ActsOnConsent` therefore promises that `unapprove` is heeded
  for levels requested once; without that condition TLC finds the four calls above.
  `invalidate` has no such limit: it voids every copy.

The models also show what a test says already (`tests/eosio.system_tests.cpp:3355`):
`buyrambytes` does not buy "an exact amount of ram" (`delegate_bandwidth.cpp:87`),
since the price it takes is without the fee and the growth of the supply.

## 6. What is left out

* The width of integers (the comment at `rex.cpp:1065` derives the bound on the
  supply under which REX amounts fit), doubles in the Bancor formulas.
* In Rex, the check of b1's vesting that `update_voting_power` makes
  (`delegate_bandwidth.cpp:436`), for instance in `unstaketorex`: b1 may do more in
  the model than in the code. That no sell order of b1 is queued (`rex.cpp:146`) is
  in `sellrexLater`, but no REX run has b1 among its accounts. The check of the vesting
  itself is in DelegateBandwidth, on what is delegated.
* In Rex, the producer votes inside `update_voting_power` (only `staked`
  changes); in Voting, the voting requirement for REX holders (it is in Rex).
* Vote weights and shares as doubles: Voting has integers, so the small negative
  numbers that the code cuts off at 0 do not arise.
* `total_activated_stake` beyond the minimum, and with it whose stake is in it
  (`voting.cpp:224`). The code takes a last weight of 0 for "their first vote":
  an account with stake that registers as a proxy has a last weight before it
  votes and is never counted, and a voter back at 0 is counted again. Voting keeps
  this rule; no property is about it.
* Doubles in the RAM market: RamMarket has exact numbers. Nor does any property say
  what the doubles of `get_bancor_output` (`rex.cpp:496`) round.
* setparams, setpriv, setabi, eosio.bios, eosio.wrap and rex.results: they store
  or forward what they are given and relate no two pieces of state.
* The limits that `update_resource_limits` passes on to the chain for loans (the
  weights they follow are in Rex; managed limits are in DelegateBandwidth).
* eosio.stake as owner or receiver in `delegatebw`, for which no tokens move.
* The old table of approvals of eosio.msig, in which no action creates rows.
* Token names, memos, ABI serialisation, RAM billing other than who pays.

## 7. Possible extensions

*Composition*: Rex, DelegateBandwidth and Voting share `voter_info::staked`. Each
has it in its own tables and takes what the others do to it as an input
(`update_voting_power` in Voting, `staked` in Rex). One module in which a stake is
the sum of what is delegated and the vote stake of REX, with the votes following
it, would check that the three agree; the theorems about each part would carry over.
