---------------------------- MODULE RexInvariant ----------------------------
(***************************************************************************)
(* The inductive invariant of Rex, and what its steps may do.              *)
(*                                                                         *)
(* Inv says that Good, a conjunction of parts of which each is about some  *)
(* of the tables, holds of the tables between actions.  Within an action   *)
(* the tables are not always good: between the payment and the purchase    *)
(* eosio.rex holds more than it owes (extra), and between a sale and its   *)
(* check the order of the seller may not be covered (free).  Good says of  *)
(* tables in the middle of an action that all else holds.                  *)
(*                                                                         *)
(* The relations between the tables before and after a part of an action   *)
(* (LoanStep, OrderStep, RunStep, AccountStep, Quiet) lead to Steps, which *)
(* says of a whole action what the action properties are about.            *)
(*                                                                         *)
(* The last sections name what the proofs speak of: sums over a row's      *)
(* buckets, parts of actions, and the row as RexVesting sees it.           *)
(***************************************************************************)
EXTENDS Rex

-----------------------------------------------------------------------------
(* Types.                                                                  *)

PoolRows == [initialized : BOOLEAN, total_lent : Nat, total_unlent : Nat, total_rent : Nat,
             total_lendable : Nat, total_rex : Nat, namebid_proceeds : Nat, loan_num : Nat]

BucketRows == [first : Int, second : Nat]

BalanceRows == [row : BOOLEAN, vote_stake : Int, rex_balance : Nat, matured_rex : Nat,
                rex_maturities : Seq(BucketRows)]

LoanRows == [kind : Kinds \cup {"none"}, from : 0 .. N, receiver : 0 .. N, payment : Nat,
             balance : Nat, total_staked : Nat, expiration : Nat]

OrderRows == [state : {"none", "open", "closed"}, rex_requested : Nat, proceeds : Nat,
              stake_change : Int, order_time : Nat]

Delegations == [Names -> [Names -> [Kinds -> Nat]]]

Accounts == [rex : Int, stake : Int, names : Int, ramfee : Int]

TableSet ==
    [ok : {TRUE}, pool : PoolRows, fund : [Names -> Nat], rexbal : [Names -> BalanceRows],
     loans : [LoanIds -> LoanRows], orders : [Names -> OrderRows], staked : [Names -> Int],
     voting : [Names -> BOOLEAN], dbw : Delegations,
     weight : [Names -> [Kinds -> Nat]], own : [Names -> Nat], acct : Accounts]

-----------------------------------------------------------------------------
(* The parts of the inductive invariant, each on the tables it is about.   *)

\* the functions that are summed
StakedIn(lns) == [k \in LoanIds |-> lns[k].total_staked]
BalanceIn(lns) == [k \in LoanIds |-> lns[k].balance]
RentedIn(lns, kind, b) ==
    [k \in LoanIds |-> IF lns[k].kind = kind /\ lns[k].receiver = b THEN lns[k].total_staked ELSE 0]
SharesIn(rows) == [a \in Names |-> rows[a].rex_balance]
ProceedsIn(ords) == [a \in Names |-> ords[a].proceeds]
DelegatedIn(d, kind, b) == [a \in Names |-> d[a][b][kind]]

PoolOK(p) ==
    /\ p.total_lendable = p.total_unlent + p.total_lent
    /\ (p.total_rex = 0) <=> (p.total_lendable = 0)
    /\ p.total_rex > 0 => p.initialized
    /\ p.namebid_proceeds > 0 => p.total_rex > 0

LoansOK(p, lns) ==
    /\ p.total_lent = LoanSum(StakedIn(lns))
    /\ \A k \in LoanIds :
          /\ lns[k].kind = "none" => lns[k].total_staked = 0 /\ lns[k].balance = 0
          /\ lns[k].kind # "none" =>
                k <= p.loan_num /\ lns[k].from \in Names /\ lns[k].receiver \in Names

SharesOK(p, rows) == p.total_rex = Sum(SharesIn(rows))

\* extra is what the action has taken and not yet booked
BackedOK(accounts, p, fnd, lns, ords, extra) ==
    accounts.rex = p.total_lendable + Sum(fnd) + LoanSum(BalanceIn(lns)) + Sum(ProceedsIn(ords)) + extra

NamebidsOK(accounts, p) == p.namebid_proceeds <= accounts.names

WeightOK(wgt, d, lns) ==
    \A b \in Names, kind \in Kinds :
       wgt[b][kind] = Sum(DelegatedIn(d, kind, b)) + LoanSum(RentedIn(lns, kind, b))

VotesOK(rows, votes) == \A a \in Names : rows[a].rex_balance > 0 => votes[a]

\* the buckets are in order, and none but the savings matures later than what
\* is bought at time t
Ordered(buckets, t) ==
    /\ \A i, j \in 1 .. Len(buckets) : i < j => buckets[i].first < buckets[j].first
    /\ \A i \in 1 .. Len(buckets) :
          \/ buckets[i].first <= get_rex_maturity(t)
          \/ i = Len(buckets) /\ buckets[i].first = EndOfDays

RowOK(rb, t) ==
    /\ rb.rex_balance = rb.matured_rex + InBuckets(rb.rex_maturities)
    /\ Ordered(rb.rex_maturities, t)
    /\ ~ rb.row => rb = NoBalance

RowsOK(rows, t) == \A a \in Names : RowOK(rows[a], t)

OrderOK(order) ==
    /\ order.state = "open" => order.rex_requested > 0
    /\ order.state # "closed" => order.proceeds = 0 /\ order.stake_change = 0

\* every open order but those in free is covered by matured shares
OrdersOK(ords, rows, free) ==
    \A a \in Names :
       /\ OrderOK(ords[a])
       /\ ords[a].state = "open" /\ a \notin free => ords[a].rex_requested <= rows[a].matured_rex

Good(s, t, extra, free) ==
    /\ s \in TableSet
    /\ PoolOK(s.pool)
    /\ LoansOK(s.pool, s.loans)
    /\ SharesOK(s.pool, s.rexbal)
    /\ BackedOK(s.acct, s.pool, s.fund, s.loans, s.orders, extra)
    /\ NamebidsOK(s.acct, s.pool)
    /\ WeightOK(s.weight, s.dbw, s.loans)
    /\ VotesOK(s.rexbal, s.voting)
    /\ RowsOK(s.rexbal, t)
    /\ OrdersOK(s.orders, s.rexbal, free)

Inv == now \in 0 .. MaxTime /\ Good(Tables, now, 0, {})

-----------------------------------------------------------------------------
(* Rows of buckets in more detail.                                         *)

Increasing(buckets) ==
    \A i, j \in 1 .. Len(buckets) : i < j => buckets[i].first < buckets[j].first

\* buckets without savings
Plain(buckets, t) ==
    /\ buckets \in Seq(BucketRows)
    /\ Increasing(buckets)
    /\ \A i \in 1 .. Len(buckets) : buckets[i].first <= get_rex_maturity(t)

\* matured or in a bucket
HeldIn(rb) == rb.matured_rex + InBuckets(rb.rex_maturities)

\* the row r is rb rearranged: only where the REX is differs
Rearranged(r, rb, t) ==
    /\ r \in BalanceRows
    /\ r.row = rb.row /\ r.vote_stake = rb.vote_stake /\ r.rex_balance = rb.rex_balance
    /\ Ordered(r.rex_maturities, t)

-----------------------------------------------------------------------------
(* What the parts of an action, and a whole one, may do.                   *)

\* a share of q is worth at least what a share of p is
NotCheaper(p, q) == q.total_lendable * p.total_rex >= p.total_lendable * q.total_rex

\* What the maintenance before the orders leaves alone, and what it does to the rest.
LoanStep(s, t) ==
    /\ t.rexbal = s.rexbal /\ t.orders = s.orders /\ t.staked = s.staked
    /\ t.voting = s.voting /\ t.dbw = s.dbw /\ t.own = s.own
    /\ t.pool.initialized = s.pool.initialized /\ t.pool.total_rex = s.pool.total_rex
    /\ s.pool.namebid_proceeds = 0 => t.pool.namebid_proceeds = 0
    /\ t.pool.loan_num = s.pool.loan_num
    /\ t.pool.total_lendable >= s.pool.total_lendable
    /\ (\E a \in Names : s.orders[a].state = "open") =>
          \A k \in LoanIds : t.loans[k] \in {s.loans[k], NoLoan}

\* What the maintenance of orders leaves alone, and what it does to the rest.
OrderStep(s, t) ==
    /\ t.loans = s.loans /\ t.staked = s.staked /\ t.voting = s.voting
    /\ t.dbw = s.dbw /\ t.own = s.own
    /\ t.pool.initialized = s.pool.initialized /\ t.pool.loan_num = s.pool.loan_num
    /\ t.pool.namebid_proceeds = s.pool.namebid_proceeds
    /\ t.pool.total_rex <= s.pool.total_rex
    /\ t.pool.total_rex > 0 => NotCheaper(s.pool, t.pool)
    /\ \A a \in Names :
          /\ t.rexbal[a].row = s.rexbal[a].row
          /\ t.orders[a].stake_change - t.rexbal[a].vote_stake =
                s.orders[a].stake_change - s.rexbal[a].vote_stake
          /\ t.orders[a].state = "open" => s.orders[a].state = "open"
          /\ s.orders[a].state # "open" => t.rexbal[a] = s.rexbal[a] /\ t.orders[a] = s.orders[a]

\* What the maintenance leaves alone, and what it does to the rest.
RunStep(s, t) ==
    /\ t.staked = s.staked /\ t.voting = s.voting /\ t.dbw = s.dbw /\ t.own = s.own
    /\ t.pool.initialized = s.pool.initialized /\ t.pool.loan_num = s.pool.loan_num
    /\ t.pool.namebid_proceeds = 0
    /\ t.pool.total_rex <= s.pool.total_rex
    /\ t.pool.total_rex > 0 => NotCheaper(s.pool, t.pool)
    /\ \A a \in Names :
          /\ t.rexbal[a].row = s.rexbal[a].row
          /\ t.orders[a].stake_change - t.rexbal[a].vote_stake =
                s.orders[a].stake_change - s.rexbal[a].vote_stake
          /\ t.orders[a].state = "open" => s.orders[a].state = "open"
          /\ s.orders[a].state # "open" => t.rexbal[a] = s.rexbal[a] /\ t.orders[a] = s.orders[a]
    /\ (\E a \in Names : s.orders[a].state = "open") =>
          \A k \in LoanIds : t.loans[k] \in {s.loans[k], NoLoan}

\* What update_rex_account leaves alone, and what it does to the rest.
AccountStep(s, t, owner, delta) ==
    /\ t.pool = s.pool /\ t.loans = s.loans /\ t.rexbal = s.rexbal /\ t.voting = s.voting
    /\ t.dbw = s.dbw /\ t.own = s.own /\ t.weight = s.weight /\ t.acct = s.acct
    /\ \A b \in Names : b # owner => t.orders[b] = s.orders[b] /\ t.staked[b] = s.staked[b]
    /\ t.orders[owner] = IF s.orders[owner].state = "closed" THEN NoOrder ELSE s.orders[owner]
    /\ t.staked[owner] + t.orders[owner].stake_change =
          s.staked[owner] + s.orders[owner].stake_change + delta

\* the vote stake of an account that is not recorded as the value of its REX
Claim(s, a) == s.staked[a] + (s.orders[a].stake_change - s.rexbal[a].vote_stake)

\* A step that lends nothing, sells at the price of the pool, and passes every
\* change of a vote stake on.
Quiet(s, t) ==
    /\ t.pool.loan_num = s.pool.loan_num /\ t.loans = s.loans /\ t.dbw = s.dbw
    /\ t.pool.total_rex <= s.pool.total_rex
    /\ t.pool.total_rex > 0 => NotCheaper(s.pool, t.pool)
    /\ \A a \in Names :
          /\ t.rexbal[a].row => s.rexbal[a].row
          /\ (s.rexbal[a].row => t.rexbal[a].row) => Claim(t, a) = Claim(s, a)

\* The three parts of a step that the action properties are about.
PriceKept(s, t) ==
    s.pool.total_rex > 0 /\ t.pool.total_rex > 0 => NotCheaper(s.pool, t.pool)

NothingLent(s, t) ==
    (\E a \in Names : s.orders[a].state = "open" /\ t.orders[a].state = "open") =>
       /\ t.pool.loan_num = s.pool.loan_num
       /\ \A k \in LoanIds : t.loans[k].kind # "none" => t.loans[k] \in
             {s.loans[k], [s.loans[k] EXCEPT !.balance = t.loans[k].balance]}

ClaimsKept(s, t) ==
    \A a \in Names :
       t.dbw = s.dbw /\ (s.rexbal[a].row => t.rexbal[a].row) => Claim(t, a) = Claim(s, a)

Steps(s, t) == PriceKept(s, t) /\ NothingLent(s, t) /\ ClaimsKept(s, t)

\* A step that leaves good tables and keeps to the action properties.
Done == \E t : Commit(t) /\ Good(t, now, 0, {}) /\ Steps(Tables, t)

-----------------------------------------------------------------------------
(* Buckets: what they hold from one on, and what is due.                   *)

\* what the buckets after the i-th hold, and what the i-th keeps of rex to be taken
After(b, i) == InBuckets(SubSeq(b, i + 1, Len(b)))
Kept(b, rex, i) ==
    IF rex <= After(b, i) THEN b[i].second
    ELSE IF rex >= After(b, i) + b[i].second THEN 0
    ELSE b[i].second + After(b, i) - rex

\* no bucket is due
Fresh(buckets, t) == \A i \in 1 .. Len(buckets) : buckets[i].first > t

MaturingIn(buckets, u) ==
    [i \in 1 .. Len(buckets) |-> IF buckets[i].first = u THEN buckets[i].second ELSE 0]

-----------------------------------------------------------------------------
(* Parts of the actions.                                                   *)

\* One weight moves, and so does what is rented of one kind for one account.
WeightMoves(w, w2, b, kind, delta) ==
    \A c \in Names, x \in Kinds :
       w2[c][x] = IF c = b /\ x = kind THEN w[b][kind] + delta ELSE w[c][x]

RentMoves(lns, new, k, b, kind, delta) ==
    \A c \in Names, x \in Kinds :
       RentedIn(new, x, c)[k] - RentedIn(lns, x, c)[k] = IF c = b /\ x = kind THEN delta ELSE 0

\* channel_to_rex takes the fee from another account of the system.
Channeled(s, from, amount, left) ==
    [channel_to_rex(s, from, amount) EXCEPT !.pool.namebid_proceeds = left]

\* What a sale of the owner leaves alone, and what it does to the rest.
Sold(s, t, owner, rex) ==
    /\ t.loans = s.loans /\ t.orders = s.orders /\ t.staked = s.staked /\ t.voting = s.voting
    /\ t.dbw = s.dbw /\ t.own = s.own /\ t.weight = s.weight /\ t.fund = s.fund /\ t.acct = s.acct
    /\ t.pool.initialized = s.pool.initialized /\ t.pool.loan_num = s.pool.loan_num
    /\ t.pool.namebid_proceeds = s.pool.namebid_proceeds
    /\ t.pool.total_rex = s.pool.total_rex - rex
    /\ NotCheaper(s.pool, t.pool)
    /\ \A b \in Names : b # owner => t.rexbal[b] = s.rexbal[b]
    /\ t.rexbal[owner].row = s.rexbal[owner].row
    /\ t.rexbal[owner].rex_maturities = s.rexbal[owner].rex_maturities
    /\ t.rexbal[owner].matured_rex = s.rexbal[owner].matured_rex - rex
    /\ t.rexbal[owner].vote_stake = s.rexbal[owner].vote_stake + StakeChange(s, owner, rex)

\* the runs over the expired loans and over the open orders, turn by turn
LoanTurn(t, kind) ==
    IF SomeExpired(t, kind) THEN process_expired_loan(t, FirstLoan(t, kind)) ELSE t

IsLoanRun(r, s, kind, n) ==
    r = [i \in 0 .. n |-> IF i = 0 THEN s ELSE LoanTurn(r[i - 1], kind)]

OrderTurn(s, r) ==
    IF r.left = {} THEN r
    ELSE [tables |-> close_order(r.tables, FirstOrder(s, r.left)),
          left   |-> r.left \ {FirstOrder(s, r.left)}]

OrdersAtStart(s) == [tables |-> s, left |-> OpenOrders(s)]

IsOrderRun(r, s, n) ==
    r = [i \in 0 .. n |-> IF i = 0 THEN OrdersAtStart(s) ELSE OrderTurn(s, r[i - 1])]

\* A user pays one of the accounts of the system that are not eosio.rex.
PaidTo(s, payer, name, amount) ==
    [s EXCEPT !.own = [s.own EXCEPT ![payer] = s.own[payer] - amount],
              !.acct = [s.acct EXCEPT ![name] = s.acct[name] + amount]]

\* What a payment rents, the loan it makes and the pool it leaves.
Rentable(p, payment) == get_bancor_output(p.total_rent, p.total_unlent, payment)

LoanOf(kind, from, b, payment, loan_fund, rented, expiration) ==
    [kind |-> kind, from |-> from, receiver |-> b, payment |-> payment,
     balance |-> loan_fund, total_staked |-> rented, expiration |-> expiration]

LentPool(p, payment) == PoolWithLoan(p, payment, Rentable(p, payment), TRUE)

\* rent_rex from the tables a that runrex left.
AfterRent(a, kind, from, receiver, payment, loan_fund) ==
    LET s2 == Check(a, rex_loans_available(a) /\ 0 < payment /\ 0 <= loan_fund)
        s3 == transfer_from_fund(s2, from, payment + loan_fund)
        rented == get_bancor_output(s3.pool.total_rent, s3.pool.total_unlent, payment)
        s4 == add_loan_to_rex_pool(Check(s3, payment < rented), payment, rented, TRUE)
        s5 == [s4 EXCEPT !.loans[s4.pool.loan_num] =
                 [kind |-> kind, from |-> from, receiver |-> receiver, payment |-> payment,
                  balance |-> loan_fund, total_staked |-> rented, expiration |-> now + LoanTerm]]
    IN  /\ now <= LastRent
        /\ pool.loan_num < MaxLoans
        /\ s2.ok
        /\ Commit(update_resource_limits(s5, receiver, kind, rented))

\* What a purchase of the owner does to the tables the properties are about.
Purchased(s, t, owner) ==
    /\ t.loans = s.loans /\ t.orders = s.orders /\ t.staked = s.staked
    /\ t.pool.loan_num = s.pool.loan_num /\ t.pool.initialized /\ t.pool.total_rex > 0
    /\ s.pool.total_rex > 0 => NotCheaper(s.pool, t.pool)
    /\ \A b \in Names : b # owner => t.rexbal[b] = s.rexbal[b]

\* The row of the buyer before the new shares get their bucket.
RowBefore(s, owner, payment, rex) ==
    IF ~ s.rexbal[owner].row
    THEN [NoBalance EXCEPT !.row = TRUE, !.vote_stake = payment, !.rex_balance = rex]
    ELSE [s.rexbal[owner] EXCEPT
            !.rex_balance = s.rexbal[owner].rex_balance + rex,
            !.vote_stake = StakeOf(s, s.rexbal[owner].rex_balance + rex)]

\* The tables after a purchase, before the maintenance.
Purchase(s, owner, payment) ==
    add_to_rex_balance(add_to_rex_pool(s, payment), owner, payment, RexReceived(s, payment))

-----------------------------------------------------------------------------
(* A row as RexVesting sees it.                                            *)

Horizon == MaxTime + Buckets * Day

\* A row without savings and due buckets, and savings next to it, seen as
\* RexVesting.
FreshView(r, saved) ==
    [free |-> r.matured_rex,
     locked |-> [u \in 1 .. Horizon |-> Maturing(r.rex_maturities, u)],
     saved |-> saved]

\* A row at time t seen as RexVesting.
View(rb, t) == FreshView(process_rex_maturities(rb, t), read_rex_savings(rb))

\* Of n shares to save, those that time u gives up, the later times first.
GivenUp(locked, u, n) ==
    LET later == SumTo([w \in 1 .. Horizon |-> IF w > u THEN locked[w] ELSE 0], Horizon)
        left  == IF n > later THEN n - later ELSE 0
    IN  IF left < locked[u] THEN left ELSE locked[u]

\* what is locked in a row without savings and due buckets
LockedIn(b) == [u \in 1 .. Horizon |-> Maturing(b, u)]
=============================================================================
