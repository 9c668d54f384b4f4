-------------------------------- MODULE Rex --------------------------------
(***************************************************************************)
(* The resource exchange of eosio.system (rex.cpp).  Token holders lend    *)
(* core tokens to a pool and hold REX shares of it; other accounts rent    *)
(* from the pool, for LoanTerm, CPU or NET weight at a price set by a      *)
(* Bancor formula.  Shares mature before they can be sold; an order that   *)
(* the pool cannot pay at once waits in a queue, and no loan is made or    *)
(* renewed while one waits.                                                *)
(*                                                                         *)
(* An action runs in one transaction: all its steps and inline transfers   *)
(* take effect or none.  The helpers of the code are operators on a record *)
(* s of all the tables; each returns the tables it leaves and clears s.ok  *)
(* where the code has a check that fails.  An action is a step only if ok  *)
(* is still set at its end.                                                *)
(***************************************************************************)
EXTENDS Integers, Sequences, FiniteSets, RexMaturities

CONSTANTS N,              \* the accounts are 1 .. N
          B1,             \* the account b1, or 0 if it is none of them
          RexRatio,       \* rex_ratio: REX per token in an empty pool
          InitTotalRent,  \* init_total_rent: the rent connector of an empty pool
          LoanTerm,       \* 30 days
          RunMax,         \* the argument of runrex inside the actions, 2
          MaxLoans,       \* bound: loan numbers are 1 .. MaxLoans
          MaxTime,        \* bound on the time
          LastRent,       \* bound: the last time at which a loan is made
          InitOwn,        \* liquid tokens of each account at the start,
          InitFund,       \*   the tokens it has deposited,
          InitStake,      \*   and what it has staked for itself, as much cpu as net
          Lenders,        \* the accounts that buy and sell REX,
          Renters,        \*   that rent,
          Savers,         \*   and that use the savings
          Votes,          \* whether votes meet the requirement for buying REX
          RexChoices,     \* which parts of a balance are sold or moved
          Deposits,       \* the amounts of deposit and withdraw
          Purchases,      \* the amounts of buyrex
          Unstakings,     \* the amounts of unstaketorex
          LoanPayments,   \* the loan payments
          LoanFunds,      \* the loan funds
          RentSettings,   \* the arguments of setrex
          FeeAmounts,     \* RAM fees and winning bids
          ExecMax         \* the arguments of rexexec

Names == 1 .. N
LoanIds == 1 .. MaxLoans
Kinds == {"cpu", "net"}

ASSUME NAssumption == N \in Nat
ASSUME MaxLoansAssumption == MaxLoans \in Nat
ASSUME ActorsAssumption == Lenders \cup Renters \cup Savers \subseteq Names
ASSUME RatioAssumption == RexRatio \in Nat \ {0} /\ InitTotalRent \in Nat
ASSUME InitAssumption == InitOwn \in Nat /\ InitFund \in Nat /\ InitStake \in Nat
ASSUME TimeAssumption ==
    MaxTime \in Nat /\ LoanTerm \in Nat /\ EndOfDays \in Nat /\ MaxTime + Buckets * Day < EndOfDays
ASSUME RunAssumption == RunMax \in Nat /\ ExecMax \subseteq Nat
ASSUME AmountsAssumption ==
    /\ Deposits \cup Purchases \cup Unstakings \cup LoanPayments \cup LoanFunds \subseteq Int
    /\ RentSettings \cup FeeAmounts \subseteq Int
    /\ RexChoices \subseteq {"all", "rest", "half", "unit"} /\ Votes \subseteq BOOLEAN

VARIABLES now,     \* current_time_point
          pool,    \* the row of rexpool
          fund,    \* rexfund: the balance of each account
          rexbal,  \* rexbal: the row of each account
          loans,   \* cpuloan and netloan, by loan number
          orders,  \* rexqueue, by owner
          staked,  \* voter_info::staked
          voting,  \* the account votes for a proxy or for 21 producers
          dbw,     \* delband: dbw[from][to][kind]
          weight,  \* userres: the cpu and net weight of each receiver
          own,     \* liquid token balances of the accounts
          acct     \* token balances of the system accounts

vars == <<now, pool, fund, rexbal, loans, orders, staked, voting, dbw, weight, own, acct>>

NoLoan == [kind |-> "none", from |-> 0, receiver |-> 0, payment |-> 0, balance |-> 0,
           total_staked |-> 0, expiration |-> 0]
NoOrder == [state |-> "none", rex_requested |-> 0, proceeds |-> 0, stake_change |-> 0,
            order_time |-> 0]

Init ==
    /\ now = 0
    /\ pool = [initialized |-> FALSE, total_lent |-> 0, total_unlent |-> 0, total_rent |-> 0,
               total_lendable |-> 0, total_rex |-> 0, namebid_proceeds |-> 0, loan_num |-> 0]
    /\ fund = [a \in Names |-> InitFund]
    /\ rexbal = [a \in Names |-> NoBalance]
    /\ loans = [k \in LoanIds |-> NoLoan]
    /\ orders = [a \in Names |-> NoOrder]
    /\ voting = [a \in Names |-> FALSE]
    /\ dbw = [a \in Names |-> [b \in Names |-> [kind \in Kinds |-> IF a = b THEN InitStake ELSE 0]]]
    /\ weight = [b \in Names |-> [kind \in Kinds |-> InitStake]]
    /\ staked = [a \in Names |-> 2 * InitStake]
    /\ own = [a \in Names |-> InitOwn]
    /\ acct = [rex |-> N * InitFund, stake |-> 2 * N * InitStake, names |-> 0, ramfee |-> 0]

\* The tables an action starts from, and the step that leaves the tables s.
Tables == [ok |-> TRUE, pool |-> pool, fund |-> fund, rexbal |-> rexbal, loans |-> loans,
           orders |-> orders, staked |-> staked, voting |-> voting, dbw |-> dbw,
           weight |-> weight, own |-> own, acct |-> acct]

Commit(tables) ==
    \E s \in {tables} :
       /\ s.ok
       /\ pool' = s.pool /\ fund' = s.fund /\ rexbal' = s.rexbal /\ loans' = s.loans
       /\ orders' = s.orders /\ staked' = s.staked /\ voting' = s.voting /\ dbw' = s.dbw
       /\ weight' = s.weight /\ own' = s.own /\ acct' = s.acct
       /\ UNCHANGED now

Check(s, condition) == [s EXCEPT !.ok = @ /\ condition]

-----------------------------------------------------------------------------
(* Funds, votes and resources.                                             *)

transfer_from_fund(s, owner, amount) ==
    Check([s EXCEPT !.fund[owner] = @ - amount], 0 < amount /\ amount <= s.fund[owner])

transfer_to_fund(s, owner, amount) ==
    Check([s EXCEPT !.fund[owner] = @ + amount], 0 < amount)

\* the part of update_voting_power that concerns the stake, without the check
\* of b1's vesting, which DelegateBandwidth has: b1 may do more here
update_voting_power(s, voter, delta) ==
    Check([s EXCEPT !.staked[voter] = @ + delta], 0 <= s.staked[voter] + delta)

check_voting_requirement(s, owner) == Check(s, s.voting[owner])

update_resource_limits(s, receiver, kind, delta) ==
    Check([s EXCEPT !.weight[receiver][kind] = @ + delta], 0 <= s.weight[receiver][kind] + delta)

rex_available(s) == s.pool.initialized /\ s.pool.total_rex > 0

\* mutant: loans are made while an order waits
LoansWhileOrdersWait(s) == rex_available(s)

rex_loans_available(s) ==
    rex_available(s) /\ \A a \in Names : s.orders[a].state # "open"

\* a filled order of the owner is paid and erased with the proceeds and the
\* stake change of the action itself; an open order stays
update_rex_account(s, owner, proceeds, delta_stake, force) ==
    LET order    == s.orders[owner]
        closed   == order.state = "closed"
        to_fund  == proceeds + (IF closed THEN order.proceeds ELSE 0)
        to_stake == delta_stake + (IF closed THEN order.stake_change ELSE 0)
        s1 == IF closed THEN [s EXCEPT !.orders[owner] = NoOrder] ELSE s
        s2 == IF to_fund > 0 THEN transfer_to_fund(s1, owner, to_fund) ELSE s1
    IN  IF force \/ to_stake # 0 THEN update_voting_power(s2, owner, to_stake) ELSE s2

\* the REX in an open order, which update_rex_account returns
RexInOrder(s, owner) ==
    IF s.orders[owner].state = "open" THEN s.orders[owner].rex_requested ELSE 0

\* the value in tokens of an amount of REX, and the row that records it as voting
StakeOf(s, rex) ==
    IF s.pool.total_rex > 0 THEN (rex * s.pool.total_lendable) \div s.pool.total_rex ELSE 0

update_rex_stake(s, voter) ==
    LET rb == s.rexbal[voter]
        current == StakeOf(s, rb.rex_balance)
    IN  IF rb.row /\ rex_available(s)
        THEN [s EXCEPT !.rexbal[voter].vote_stake = current,
                       !.staked[voter] = @ + current - rb.vote_stake]
        ELSE s

-----------------------------------------------------------------------------
(* The pool.                                                               *)

\* The code computes the quotient in doubles and truncates it.
get_bancor_output(conin, conout, in) ==
    IF in + conin = 0 THEN 0 ELSE (in * conout) \div (in + conin)

\* mutant: total_lendable is not recomputed
NotRebalanced(p) == p

\* total_lendable is always recomputed from its two parts
Rebalanced(p) == [p EXCEPT !.total_lendable = p.total_unlent + p.total_lent]

PoolWithLoan(p, payment, rented, new_loan) ==
    Rebalanced([p EXCEPT !.total_rent   = @ + payment,
                         !.total_unlent = @ - rented + payment,
                         !.total_lent   = @ + rented,
                         !.loan_num     = IF new_loan THEN @ + 1 ELSE @])

add_loan_to_rex_pool(s, payment, rented, new_loan) ==
    [s EXCEPT !.pool = PoolWithLoan(s.pool, payment, rented, new_loan)]

PoolWithoutLoan(p, loan) ==
    LET delta_rent == get_bancor_output(p.total_unlent, p.total_rent, loan.total_staked) IN
    Rebalanced([p EXCEPT !.total_rent   = @ - delta_rent,
                         !.total_unlent = @ + loan.total_staked,
                         !.total_lent   = @ - loan.total_staked])

remove_loan_from_rex_pool(s, loan) == [s EXCEPT !.pool = PoolWithoutLoan(s.pool, loan)]

\* fees of other parts of the system contract go to the lenders, if there are any
channel_to_rex(s, from, amount) ==
    IF rex_available(s)
    THEN [s EXCEPT !.pool.total_unlent = @ + amount, !.pool.total_lendable = @ + amount,
                   !.acct[from] = @ - amount, !.acct.rex = @ + amount]
    ELSE s

\* mutant: the proceeds are recorded though nobody lends
NamebidForNobody(s, highest_bid) == [s EXCEPT !.pool.namebid_proceeds = @ + highest_bid]

channel_namebid_to_rex(s, highest_bid) ==
    IF rex_available(s) THEN [s EXCEPT !.pool.namebid_proceeds = @ + highest_bid] ELSE s

\* mutant: the REX bought is rounded up
RexRoundedUp(s, payment) ==
    IF ~ rex_available(s) THEN payment * RexRatio
    ELSE (payment * s.pool.total_rex + s.pool.total_lendable - 1) \div s.pool.total_lendable

\* the tokens a new lender brings, and the REX they are worth
RexReceived(s, payment) ==
    IF ~ rex_available(s) THEN payment * RexRatio
    ELSE ((s.pool.total_lendable + payment) * s.pool.total_rex) \div s.pool.total_lendable
           - s.pool.total_rex

\* the first payment into an empty pool, and a payment into one that has shares
OpenedPool(p, payment) ==
    [p EXCEPT !.initialized = TRUE, !.total_lendable = payment, !.total_lent = 0,
              !.total_unlent = payment, !.total_rent = InitTotalRent,
              !.total_rex = payment * RexRatio]

JoinedPool(p, payment, rex) ==
    [p EXCEPT !.total_lendable = @ + payment, !.total_rex = @ + rex,
              !.total_unlent = p.total_lendable + payment - p.total_lent]

add_to_rex_pool(s, payment) ==
    IF ~ rex_available(s)
    THEN [s EXCEPT !.pool = OpenedPool(s.pool, payment)]
    ELSE IF s.pool.total_lendable = 0 THEN Check(s, FALSE)
    ELSE Check([s EXCEPT !.pool = JoinedPool(s.pool, payment, RexReceived(s, payment))],
               s.pool.total_lendable + payment - s.pool.total_lent >= 0)

\* s is the pool after add_to_rex_pool; a first purchase counts the payment as
\* stake, a later one the value of the whole balance
add_to_rex_balance(s, owner, payment, rex) ==
    LET rb  == s.rexbal[owner]
        rb1 == IF ~ rb.row
               THEN [NoBalance EXCEPT !.row = TRUE, !.vote_stake = payment, !.rex_balance = rex]
               ELSE [rb EXCEPT !.rex_balance = @ + rex,
                               !.vote_stake = StakeOf(s, rb.rex_balance + rex)]
    IN  [s EXCEPT !.rexbal[owner] = AddToMaturities(rb1, rex, now)]

\* what add_to_rex_balance returns
StakeBought(before, after, owner) ==
    after.rexbal[owner].vote_stake - before.rexbal[owner].vote_stake

\* mutants: the proceeds are rounded up; the last unlent token is not paid out
ProceedsRoundedUp(s, rex) ==
    (rex * s.pool.total_lendable + s.pool.total_rex - 1) \div s.pool.total_rex

NeverTheLastToken(s, rex) ==
    (rex * s.pool.total_lendable) \div s.pool.total_rex
        < s.pool.total_unlent - (2 * s.pool.total_lent) \div 10

\* the outcome of fill_rex_order: a fifth of what is lent stays in the pool
Proceeds(s, rex) == (rex * s.pool.total_lendable) \div s.pool.total_rex

Fillable(s, rex) ==
    Proceeds(s, rex) <= s.pool.total_unlent - (2 * s.pool.total_lent) \div 10

StakeChange(s, owner, rex) ==
    StakeOf(s, s.rexbal[owner].rex_balance) - Proceeds(s, rex) - s.rexbal[owner].vote_stake

PoolAfterSale(p, rex, proceeds) ==
    [p EXCEPT !.total_rex = @ - rex, !.total_lendable = @ - proceeds,
              !.total_unlent = p.total_lendable - proceeds - p.total_lent]

RowAfterSale(rb, rex, change) ==
    [rb EXCEPT !.vote_stake = @ + change, !.rex_balance = @ - rex, !.matured_rex = @ - rex]

fill_rex_order(s, owner, rex) ==
    [s EXCEPT !.pool = PoolAfterSale(s.pool, rex, Proceeds(s, rex)),
              !.rexbal[owner] = RowAfterSale(s.rexbal[owner], rex, StakeChange(s, owner, rex))]

-----------------------------------------------------------------------------
(* runrex: the maintenance that most actions start or end with.            *)

\* the loans of a kind in the order of the byexpr index
FirstLoan(s, kind) ==
    LET of_kind == {k \in LoanIds : s.loans[k].kind = kind} IN
    CHOOSE k \in of_kind : \A j \in of_kind :
        \/ s.loans[k].expiration < s.loans[j].expiration
        \/ s.loans[k].expiration = s.loans[j].expiration /\ k <= j

SomeExpired(s, kind) ==
    \E k \in LoanIds : s.loans[k].kind = kind /\ s.loans[k].expiration <= now

Renewed(loan, rented) ==
    [loan EXCEPT !.total_staked = rented, !.expiration = @ + LoanTerm, !.balance = @ - loan.payment]

\* mutant: the refund does not ask whether the balance is positive, and the
\* check in transfer_to_fund fails (the renewal is left out)
EmptyRefunded(s, k) ==
    LET loan == s.loans[k]
        s1   == [remove_loan_from_rex_pool(s, loan) EXCEPT !.loans[k] = NoLoan]
    IN  update_resource_limits(transfer_to_fund(s1, loan.from, loan.balance),
                               loan.receiver, loan.kind, -loan.total_staked)

\* an expired loan is renewed from its own balance if that still pays and no
\* order waits, else it is deleted and its balance refunded
process_expired_loan(s, k) ==
    LET loan   == s.loans[k]
        s1     == remove_loan_from_rex_pool(s, loan)
        rented == get_bancor_output(s1.pool.total_rent, s1.pool.total_unlent, loan.payment)
        renew  == /\ loan.payment <= loan.balance
                  /\ loan.payment < rented
                  /\ rex_loans_available(s1)
        s2 == [add_loan_to_rex_pool(s1, loan.payment, rented, FALSE) EXCEPT
                  !.loans[k] = Renewed(loan, rented)]
        s3 == [s1 EXCEPT !.loans[k] = NoLoan]
        s4 == IF loan.balance > 0 THEN transfer_to_fund(s3, loan.from, loan.balance) ELSE s3
    IN  IF renew
        THEN update_resource_limits(s2, loan.receiver, loan.kind, rented - loan.total_staked)
        ELSE update_resource_limits(s4, loan.receiver, loan.kind, -loan.total_staked)

\* at most max expired loans of a kind, the earliest first; one that is renewed
\* and still overdue comes up again
RunLoans(s, kind, max) ==
    LET run[i \in 0 .. max] ==
          IF i = 0 THEN s
          ELSE LET t == run[i - 1] IN
               IF SomeExpired(t, kind) THEN process_expired_loan(t, FirstLoan(t, kind)) ELSE t
    IN  run[max]

\* the owners of open orders in the order of the bytime index
OpenOrders(s) == {a \in Names : s.orders[a].state = "open"}

Before(s, a, b) ==
    \/ s.orders[a].order_time < s.orders[b].order_time
    \/ s.orders[a].order_time = s.orders[b].order_time /\ a < b

\* the owner of the earliest of some open orders
FirstOrder(s, owners) ==
    CHOOSE a \in owners : \A b \in owners : a = b \/ Before(s, a, b)

Closed(order, proceeds, change) ==
    [order EXCEPT !.state = "closed", !.proceeds = proceeds, !.stake_change = change]

\* mutant: the order forgets what the sale did to the vote stake
StakeForgotten(s, owner) ==
    LET rex == s.orders[owner].rex_requested IN
    IF s.rexbal[owner].row /\ Fillable(s, rex)
    THEN [fill_rex_order(s, owner, rex) EXCEPT
            !.orders[owner] = Closed(s.orders[owner], Proceeds(s, rex), 0)]
    ELSE s

close_order(s, owner) ==
    LET rex == s.orders[owner].rex_requested IN
    IF s.rexbal[owner].row /\ Fillable(s, rex)
    THEN [fill_rex_order(s, owner, rex) EXCEPT
            !.orders[owner] = Closed(s.orders[owner], Proceeds(s, rex), StakeChange(s, owner, rex))]
    ELSE s

\* the first max open orders are tried, each once, the earliest first
RunOrders(s, max) ==
    LET run[i \in 0 .. max] ==
          IF i = 0 THEN [tables |-> s, left |-> OpenOrders(s)]
          ELSE IF run[i - 1].left = {} THEN run[i - 1]
          ELSE LET first == FirstOrder(s, run[i - 1].left) IN
               [tables |-> close_order(run[i - 1].tables, first),
                left   |-> run[i - 1].left \ {first}]
    IN  run[max].tables

runrex(s, max) ==
    LET s1 == IF s.pool.namebid_proceeds > 0
              THEN [channel_to_rex(s, "names", s.pool.namebid_proceeds)
                       EXCEPT !.pool.namebid_proceeds = 0]
              ELSE s
        s2 == RunLoans(s1, "cpu", max)
        s3 == RunLoans(s2, "net", max)
    IN  IF s.pool.initialized THEN RunOrders(s3, max) ELSE Check(s, FALSE)

\* The tables after the run that most actions begin with, as a set of one.
AfterRun == {runrex(Tables, RunMax)}

-----------------------------------------------------------------------------
(* The actions of rex.cpp.                                                 *)

deposit(owner, amount) ==
    /\ 0 < amount /\ amount <= own[owner]
    /\ Commit(transfer_to_fund([Tables EXCEPT !.own[owner] = @ - amount,
                                              !.acct.rex = @ + amount], owner, amount))

\* mutant: a filled order is erased but not paid
OrderNotPaid(owner, amount) ==
    LET s1 == IF orders[owner].state = "closed" THEN [Tables EXCEPT !.orders[owner] = NoOrder]
              ELSE Tables
        s2 == transfer_from_fund(s1, owner, amount)
    IN  Commit([s2 EXCEPT !.own[owner] = @ + amount, !.acct.rex = @ - amount])

withdraw(owner, amount) ==
    LET s1 == update_rex_account(Tables, owner, 0, 0, FALSE)
        s2 == transfer_from_fund(s1, owner, amount)
    IN  Commit([s2 EXCEPT !.own[owner] = @ + amount, !.acct.rex = @ - amount])

buyrex(from, amount) ==
    LET s1 == check_voting_requirement(Tables, from)
        s2 == transfer_from_fund(s1, from, amount)
        s3 == add_to_rex_pool(s2, amount)
        s4 == add_to_rex_balance(s3, from, amount, RexReceived(s2, amount))
        s5 == runrex(s4, RunMax)
    IN  /\ s2.ok
        /\ Commit(update_rex_account(s5, from, 0, StakeBought(s3, s4, from), FALSE))

Unstaked(delegated, from_net, from_cpu) ==
    [kind \in Kinds |-> delegated[kind] - (IF kind = "net" THEN from_net ELSE from_cpu)]

\* mutant: the receiver keeps the weight
WeightKept(owner, receiver, from_net, from_cpu) ==
    LET payment == from_net + from_cpu
        s1 == [Tables EXCEPT !.acct.stake = @ - payment, !.acct.rex = @ + payment,
                 !.dbw[owner][receiver] = Unstaked(dbw[owner][receiver], from_net, from_cpu)]
        s2 == add_to_rex_pool(s1, payment)
        s3 == add_to_rex_balance(s2, owner, payment, RexReceived(s1, payment))
    IN  /\ voting[owner] /\ 0 < payment
        /\ from_net <= dbw[owner][receiver]["net"] /\ from_cpu <= dbw[owner][receiver]["cpu"]
        /\ Commit(runrex(s3, RunMax))

\* the change of the vote stake that the purchase makes is not passed on
unstaketorex(owner, receiver, from_net, from_cpu) ==
    LET payment == from_net + from_cpu
        s1 == check_voting_requirement(Tables, owner)
        s2 == [s1 EXCEPT !.dbw[owner][receiver] =
                            Unstaked(dbw[owner][receiver], from_net, from_cpu)]
        s3 == update_resource_limits(s2, receiver, "net", -from_net)
        s4 == update_resource_limits(s3, receiver, "cpu", -from_cpu)
        s5 == [s4 EXCEPT !.acct.stake = @ - payment, !.acct.rex = @ + payment]
        s6 == add_to_rex_pool(s5, payment)
        s7 == add_to_rex_balance(s6, owner, payment, RexReceived(s5, payment))
        s8 == runrex(s7, RunMax)
    IN  /\ 0 <= from_net /\ 0 <= from_cpu /\ 0 < payment
        /\ from_net <= dbw[owner][receiver]["net"]
        /\ from_cpu <= dbw[owner][receiver]["cpu"]
        /\ s4.ok
        /\ Commit(update_rex_account(s8, owner, 0, 0, TRUE))

\* the tables before the order of sellrex is tried
BeforeSale(from) ==
    {[s EXCEPT !.rexbal[from] = process_rex_maturities(@, now)] : s \in AfterRun}

CanSell(s, from, rex) ==
    s.ok /\ s.rexbal[from].row /\ 0 < rex /\ rex <= s.rexbal[from].matured_rex

sellrexNow(from, rex) ==
    \E s \in BeforeSale(from) :
    LET s1 == fill_rex_order(s, from, rex)
        s2 == update_rex_account(s1, from, Proceeds(s, rex), StakeChange(s, from, rex), FALSE)
    IN  /\ CanSell(s, from, rex)
        /\ Fillable(s, rex)
        /\ Proceeds(s, rex) # 0
        /\ RexInOrder(s1, from) <= s2.rexbal[from].matured_rex
        /\ Commit(s2)

\* an order that cannot be filled is queued, or added to the owner's order,
\* which keeps its place
Queued(order, rex) ==
    IF order.state = "open"
    THEN [order EXCEPT !.rex_requested = @ + rex]
    ELSE [NoOrder EXCEPT !.state = "open", !.rex_requested = rex, !.order_time = now]

sellrexLater(from, rex) ==
    \E s \in BeforeSale(from) :
    LET s1 == update_rex_account(s, from, 0, 0, FALSE)
        s2 == [s1 EXCEPT !.orders[from] = Queued(s1.orders[from], rex)]
    IN  /\ CanSell(s, from, rex)
        /\ ~ Fillable(s, rex)
        /\ from # B1
        /\ RexInOrder(s2, from) <= s2.rexbal[from].matured_rex
        /\ Commit(s2)

cnclrexorder(owner) ==
    /\ orders[owner].state = "open"
    /\ Commit([Tables EXCEPT !.orders[owner] = NoOrder])

\* rentcpu and rentnet
rent_rex(kind, from, receiver, payment, loan_fund) ==
    \E s1 \in AfterRun :
    LET s2 == Check(s1, rex_loans_available(s1) /\ 0 < payment /\ 0 <= loan_fund)
        s3 == transfer_from_fund(s2, from, payment + loan_fund)
        rented == get_bancor_output(s3.pool.total_rent, s3.pool.total_unlent, payment)
        s4 == add_loan_to_rex_pool(Check(s3, payment < rented), payment, rented, TRUE)
        s5 == [s4 EXCEPT !.loans[s4.pool.loan_num] =
                 [kind |-> kind, from |-> from, receiver |-> receiver, payment |-> payment,
                  balance |-> loan_fund, total_staked |-> rented, expiration |-> now + LoanTerm]]
    IN  /\ now <= LastRent
        /\ pool.loan_num < MaxLoans
        /\ s2.ok
        /\ Commit(update_resource_limits(s5, receiver, kind, rented))

OwnLoan(kind, from, k) ==
    loans[k].kind = kind /\ loans[k].from = from /\ loans[k].expiration > now

\* fundcpuloan and fundnetloan
fund_rex_loan(kind, from, k, payment) ==
    /\ OwnLoan(kind, from, k)
    /\ Commit([transfer_from_fund(Tables, from, payment) EXCEPT !.loans[k].balance = @ + payment])

\* defcpuloan and defnetloan
defund_rex_loan(kind, from, k, amount) ==
    /\ OwnLoan(kind, from, k)
    /\ loans[k].balance >= amount
    /\ Commit(transfer_to_fund([Tables EXCEPT !.loans[k].balance = @ - amount], from, amount))

updaterex(owner) ==
    \E s \in AfterRun :
    LET rb      == s.rexbal[owner]
        current == StakeOf(s, rb.rex_balance)
        s1 == [s EXCEPT !.rexbal[owner].vote_stake = current]
        s2 == update_rex_account(s1, owner, 0, current - rb.vote_stake, TRUE)
    IN  /\ rb.row
        /\ Commit([s2 EXCEPT !.rexbal[owner] = process_rex_maturities(@, now)])

setrex(balance) ==
    /\ 0 < balance
    /\ pool.initialized
    /\ Commit([Tables EXCEPT !.pool.total_rent = balance])

rexexec(max) == Commit(runrex(Tables, max))

consolidate(owner) ==
    \E s \in AfterRun :
    LET s1 == update_rex_account(s, owner, 0, 0, FALSE)
    IN  /\ s.rexbal[owner].row
        /\ Commit([s1 EXCEPT !.rexbal[owner] =
                     consolidate_rex_balance(@, RexInOrder(s, owner), now)])

\* mutant: the REX in an open order can be moved too
SavedFromOrder(owner, rex) ==
    \E s \in AfterRun :
    LET s1 == update_rex_account(s, owner, 0, 0, FALSE)
    IN  /\ s1.rexbal[owner].row /\ 0 < rex
        /\ rex + read_rex_savings(s1.rexbal[owner]) <= s1.rexbal[owner].rex_balance
        /\ Commit([s1 EXCEPT !.rexbal[owner] = MovedToSavings(@, rex, now)])

mvtosavings(owner, rex) ==
    \E s \in AfterRun :
    LET s1 == update_rex_account(s, owner, 0, 0, FALSE)
        rb == s1.rexbal[owner]
        s2 == [s1 EXCEPT !.rexbal[owner] = MovedToSavings(@, rex, now)]
    IN  /\ rb.row /\ 0 < rex
        /\ rex + RexInOrder(s, owner) + read_rex_savings(rb) <= rb.rex_balance
        /\ RexInOrder(s, owner) <= s2.rexbal[owner].matured_rex
        /\ Commit(s2)

mvfrsavings(owner, rex) ==
    \E s \in AfterRun :
    LET rb == s.rexbal[owner]
        s1 == [s EXCEPT !.rexbal[owner] = MovedFromSavings(@, rex, now)]
    IN  /\ rb.row /\ 0 < rex
        /\ rex <= read_rex_savings(rb)
        /\ Commit(update_rex_account(s1, owner, 0, 0, FALSE))

closerex(owner) ==
    \E s \in IF pool.initialized THEN AfterRun ELSE {Tables} :
    LET s1 == update_rex_account(s, owner, 0, 0, FALSE)
    IN  /\ s1.rexbal[owner].rex_balance = 0
        /\ Commit([s1 EXCEPT !.rexbal[owner] = NoBalance])

-----------------------------------------------------------------------------
(* What other parts of the contract do to these tables.                    *)

\* mutant: holding REX does not bind the vote
VoteAnyhow(voter, satisfied) ==
    Commit([update_rex_stake(Tables, voter) EXCEPT !.voting[voter] = satisfied])

\* voteproducer: satisfied says whether the new vote meets the requirement
voteproducer(voter, satisfied) ==
    /\ rexbal[voter].rex_balance > 0 => satisfied
    /\ Commit([update_rex_stake(Tables, voter) EXCEPT !.voting[voter] = satisfied])

\* the fee of buyram and sellram
ramfee(payer, fee) ==
    /\ 0 < fee /\ fee <= own[payer]
    /\ Commit(channel_to_rex([Tables EXCEPT !.own[payer] = @ - fee, !.acct.ramfee = @ + fee],
                             "ramfee", fee))

\* a name auction that onblock closes; the bid was paid to eosio.names
namebid(bidder, bid) ==
    /\ 0 < bid /\ bid <= own[bidder]
    /\ Commit(channel_namebid_to_rex([Tables EXCEPT !.own[bidder] = @ - bid,
                                                    !.acct.names = @ + bid], bid))

Tick ==
    /\ now < MaxTime
    /\ now' = now + 1
    /\ UNCHANGED <<pool, fund, rexbal, loans, orders, staked, voting, dbw, weight, own, acct>>

\* the REX amounts tried for a part of a row
RexAmounts(part, choices) ==
    {CASE choice = "all"  -> part
       [] choice = "rest" -> part - 1
       [] choice = "half" -> part \div 2
       [] choice = "unit" -> 1 : choice \in choices}

Funds ==
    \E a \in Names, amount \in Deposits : deposit(a, amount) \/ withdraw(a, amount)

Buy(amounts) == \E a \in Lenders, amount \in amounts : buyrex(a, amount)

Unstake ==
    \E a \in Lenders, receiver \in Names, net \in Unstakings, cpu \in Unstakings :
       unstaketorex(a, receiver, net, cpu)

Sell(choices) ==
    \E a \in Lenders :
       \E rex \in RexAmounts(process_rex_maturities(rexbal[a], now).matured_rex, choices) :
          sellrexNow(a, rex) \/ sellrexLater(a, rex)

Hold == \E a \in Lenders : cnclrexorder(a) \/ updaterex(a) \/ closerex(a)

Trade == Buy(Purchases) \/ Unstake \/ Sell(RexChoices) \/ Hold

Rent ==
    \E kind \in Kinds, from \in Renters :
       \/ \E receiver \in Names, payment \in LoanPayments, loan_fund \in LoanFunds :
             rent_rex(kind, from, receiver, payment, loan_fund)
       \/ \E k \in LoanIds, amount \in LoanFunds :
             fund_rex_loan(kind, from, k, amount) \/ defund_rex_loan(kind, from, k, amount)

Savings(choices) ==
    \E a \in Savers :
       \/ consolidate(a)
       \/ \E rex \in RexAmounts(rexbal[a].rex_balance, choices) : mvtosavings(a, rex)
       \/ \E rex \in RexAmounts(read_rex_savings(rexbal[a]), choices) : mvfrsavings(a, rex)

Execute == \E max \in ExecMax : rexexec(max)

Settings == \E balance \in RentSettings : setrex(balance)

Revote(satisfied) == \E a \in Lenders : voteproducer(a, satisfied)

Fees == \E a \in Names, fee \in FeeAmounts : ramfee(a, fee) \/ namebid(a, fee)

Next ==
    \/ Funds \/ Trade \/ Rent \/ Savings(RexChoices) \/ Execute \/ Settings \/ Fees \/ Tick
    \/ \E satisfied \in Votes : Revote(satisfied)

Spec == Init /\ [][Next]_vars

-----------------------------------------------------------------------------
(* Properties.                                                             *)

Sum(f) == SumTo(f, N)
LoanSum(f) == SumTo(f, MaxLoans)

\* The pool's totals agree with each other and none is negative: what is lent
\* is the stake of the open loans, and the shares are the balances of their
\* owners.  add_to_rex_pool, fill_rex_order and the loan helpers each update
\* some of the totals and recompute the others.
PoolMatchesTables ==
    /\ pool.total_lendable = pool.total_unlent + pool.total_lent
    /\ pool.total_unlent >= 0 /\ pool.total_lent >= 0 /\ pool.total_rent >= 0
    /\ pool.total_lent = LoanSum([k \in LoanIds |-> loans[k].total_staked])
    /\ pool.total_rex = Sum([a \in Names |-> rexbal[a].rex_balance])

\* The pool has shares exactly when it has tokens: shares never become
\* worthless by rounding, and the last sale takes out the last token, so that
\* reopening the pool with total_lent = 0 forgets no loan.  The comment at
\* rex.cpp:1098 allows for an exception: "total_lendable > 0 if total_rex > 0
\* except in a rare case and due to rounding errors".  There is none: a sale of
\* fewer than all shares pays rex * total_lendable / total_rex rounded down,
\* which is less than total_lendable, and no other step lowers total_lendable
\* or, with tokens in the pool, leaves it without shares.  So the check that
\* follows the comment never fails.
SharesHaveValue == (pool.total_rex = 0) <=> (pool.total_lendable = 0)

\* The balance of eosio.rex is what the contract owes: the lendable pool (lent
\* tokens never leave the account), the funds of the users, the funds of the
\* loans and the proceeds of filled orders that were not collected.
RexAccountBacked ==
    acct.rex = pool.total_lendable + Sum(fund)
               + LoanSum([k \in LoanIds |-> loans[k].balance])
               + Sum([a \in Names |-> orders[a].proceeds])

\* The proceeds of name auctions that wait for runrex are still in eosio.names,
\* and they only wait while there are lenders to receive them: otherwise runrex
\* would zero them without moving the tokens.
NamebidsWaitForLenders ==
    /\ 0 <= pool.namebid_proceeds /\ pool.namebid_proceeds <= acct.names
    /\ pool.namebid_proceeds > 0 => pool.total_rex > 0

\* A share is in exactly one place, matured or in one bucket; the buckets are
\* in order of maturity with the savings last; an open order is covered by
\* matured shares, so filling it cannot fail or overdraw the row.
RowsAddUp ==
    \A a \in Names :
       LET rb == rexbal[a] IN
       /\ rb.rex_balance = rb.matured_rex + InBuckets(rb.rex_maturities)
       /\ \A i \in 1 .. Len(rb.rex_maturities) - 1 :
             rb.rex_maturities[i].first < rb.rex_maturities[i + 1].first
       /\ \A i \in 1 .. Len(rb.rex_maturities) : rb.rex_maturities[i].second >= 0
       /\ RexInOrder(Tables, a) <= rb.matured_rex

\* The CPU and NET weight of an account is what is delegated to it and what is
\* rented for it, renewals included: an expired loan can always be taken back,
\* so the check in update_resource_limits never blocks runrex.
WeightIsBacked ==
    \A b \in Names, kind \in Kinds :
       weight[b][kind] =
          Sum([a \in Names |-> dbw[a][b][kind]])
          + LoanSum([k \in LoanIds |-> IF loans[k].kind = kind /\ loans[k].receiver = b
                                       THEN loans[k].total_staked ELSE 0])

\* Who holds REX votes for a proxy or for 21 producers, not only at the time of
\* the purchase.
HoldersVote == \A a \in Names : rexbal[a].rex_balance > 0 => voting[a]

\* Once the pool exists runrex never fails, whatever loans expire and whatever
\* orders it fills.  Most actions begin or end with it, so a check that failed
\* there (an empty refund, a weight below zero) would block them for everybody.
MaintenanceNeverFails ==
    pool.initialized => \A max \in ExecMax \cup {RunMax} : runrex(Tables, max).ok

\* A share is never worth less than before: purchases and sales round in
\* favour of the pool, and loans and fees only add to it.
RexPriceNeverFalls ==
    [][pool.total_rex > 0 /\ pool'.total_rex > 0 =>
          pool'.total_lendable * pool.total_rex >= pool.total_lendable * pool'.total_rex]_vars

\* While a sell order waits nothing more is lent: no loan is made, and an
\* expired loan is closed rather than renewed.
NoLoanOvertakesOrder ==
    [][(\E a \in Names : orders[a].state = "open" /\ orders'[a].state = "open"
                         /\ orders[a].order_time = orders'[a].order_time) =>
          /\ pool'.loan_num = pool.loan_num
          /\ \A k \in LoanIds : loans'[k].kind # "none" => loans'[k] \in
                {loans[k], [loans[k] EXCEPT !.balance = loans'[k].balance]}]_vars

\* The part of the voting stake that is neither delegated tokens nor recorded
\* REX; the change a filled order made to the row is added when it is collected.
UnexplainedStake(a) ==
    staked[a] + orders[a].stake_change - rexbal[a].vote_stake
      - Sum([b \in Names |-> dbw[a][b]["cpu"] + dbw[a][b]["net"]])

\* Whatever changes the vote stake of a REX balance passes the change on to
\* the voter, at once or when the filled order is collected.  The two actions
\* that do not are unstaketorex and closerex.
StakeFollowsRex ==
    [][\A a \in Names :
          UNCHANGED dbw /\ (rexbal[a].row => rexbal'[a].row) =>
             UnexplainedStake(a)' = UnexplainedStake(a)]_vars

\* The comment on rex_balance::vote_stake (eosio.system.hpp:244) says it is the
\* amount included in the owner's vote.
VoteStakeIsInVote == \A a \in Names : UnexplainedStake(a) = 0

-----------------------------------------------------------------------------
(* Liveness: orders are served if somebody runs rexexec now and then.      *)

\* rexexec(max) would close or renew a loan or fill an order
WorkDue(max) ==
    /\ pool.initialized
    /\ \/ \E kind \in Kinds : SomeExpired(Tables, kind)
       \/ \E a \in OpenOrders(Tables) :
             /\ Cardinality({b \in OpenOrders(Tables) : Before(Tables, b, a)}) < max
             /\ Fillable(Tables, orders[a].rex_requested)

\* Time passes, and rexexec, which any account may push, is pushed again and
\* again while there is work for it.
Fairness ==
    /\ WF_vars(Tick)
    /\ \A max \in ExecMax : <>[]WorkDue(max) => []<><<rexexec(max)>>_vars

LiveSpec == Spec /\ Fairness

\* A queued order is filled or cancelled at last: loans run out, they are not
\* renewed while the order waits, and without loans every order can be paid.
\* (Loans that run out after the bound on the time are left out.)
OrdersServed ==
    \A a \in Names :
       orders[a].state = "open" /\ (\A k \in LoanIds : loans[k].expiration <= MaxTime)
          ~> orders[a].state # "open"
=============================================================================
