------------------------- MODULE DelegateBandwidth -------------------------
(***************************************************************************)
(* Staking for CPU and NET (delegate_bandwidth.cpp).  delegatebw moves     *)
(* tokens of an account to eosio.stake; undelegatebw queues them in a      *)
(* refund row and sends a deferred transaction that pays the row out after *)
(* RefundDelay.  A row can also be paid by the action refund, and staking  *)
(* for oneself uses the row up before it takes liquid tokens.              *)
(*                                                                         *)
(* voter_info::staked is here the part that delband accounts for; what REX *)
(* adds to it is modelled in Rex.  eosio.stake does not delegate itself.   *)
(***************************************************************************)
EXTENDS Integers, FunSums

CONSTANTS N,            \* the accounts are 1 .. N
          Amounts,      \* the amounts staked and unstaked
          InitOwn,      \* the liquid tokens of each account at the start
          RefundDelay,  \* refund_delay_sec
          MaxTime,      \* bound on the time
          Limits,       \* the limits that setacctnet and setacctcpu set
          B1,           \* the account b1, or 0 if it is none of them
          B1Stake,      \* max_claimable: what b1 has staked for itself at the start
          B1Period      \* the ten years over which b1 may claim it

Names == 1 .. N
Kinds == {"net", "cpu"}
None == -1              \* no deferred transaction

ASSUME NAssumption == N \in Nat
ASSUME AmountsAssumption == Amounts \subseteq Nat /\ InitOwn \in Nat
ASSUME DelayAssumption == RefundDelay \in Nat /\ MaxTime \in Nat
ASSUME LimitsAssumption == Limits \subseteq Int
ASSUME B1Assumption == B1 \in 0 .. N /\ B1Stake \in Nat /\ B1Period \in Nat \ {0}

VARIABLES now,           \* current_time_point
          activated,     \* total_activated_stake has reached min_activated_stake
          own,           \* the liquid tokens of the accounts
          stake_balance, \* the tokens of eosio.stake
          dbw,           \* delband: dbw[kind][from][to]
          weight,        \* userres: weight[kind][owner]
          managed,       \* flags1: the accounts whose limit the chain sets, by kind
          limit,         \* the limits that set_resource_limits gave, by kind
          staked,        \* voter_info::staked
          refund_due,    \* refunds: refund_due[kind][owner], both 0 without a row
          request_time,  \* refund_request::request_time
          deferred,      \* when the deferred refund of an account is due, or None
          last_unstake   \* history: when an account last called undelegatebw

resources == <<dbw, weight, limit, staked>>
refunds == <<refund_due, request_time, deferred, last_unstake>>
vars == <<now, activated, own, stake_balance, resources, managed, refunds>>

Init ==
    /\ now = 0 /\ activated = FALSE
    /\ own = [a \in Names |-> InitOwn]
    /\ stake_balance = IF B1 = 0 THEN 0 ELSE 2 * B1Stake
    /\ dbw = [k \in Kinds |-> [a \in Names |-> [b \in Names |->
                IF a = B1 /\ b = B1 THEN B1Stake ELSE 0]]]
    /\ weight = [k \in Kinds |-> [b \in Names |-> IF b = B1 THEN B1Stake ELSE 0]]
    /\ limit = weight
    /\ managed = [k \in Kinds |-> {}]
    /\ staked = [a \in Names |-> IF a = B1 THEN 2 * B1Stake ELSE 0]
    /\ refund_due = [k \in Kinds |-> [a \in Names |-> 0]]
    /\ request_time = [a \in Names |-> 0]
    /\ deferred = [a \in Names |-> None]
    /\ last_unstake = [a \in Names |-> 0]

-----------------------------------------------------------------------------
\* validate_b1_vesting: what b1 has to keep staked
B1Locked == 2 * B1Stake - (2 * B1Stake * now) \div B1Period

\* mutant: the stake is checked before it changes
VestedBefore(owner, stake) == owner = B1 => B1Locked <= staked[owner]

Vested(owner, stake) == owner = B1 => B1Locked <= stake

HasRefund(a) == \E k \in Kinds : refund_due[k][a] > 0

\* mutant: what the refund row cannot pay is not taken from the account
NothingMissing(due, d) == 0

\* What the refund row keeps and what the account pays when the stake of one
\* kind changes by d: the row pays first, and takes what is unstaked.
Remaining(due, d) == IF due > d THEN due - d ELSE 0
Missing(due, d) == IF due < d THEN d - due ELSE 0

\* mutant: the deferred refund keeps the delay of the request it replaces
SameDelay(owner) == request_time[owner] + RefundDelay - 1

\* out.delay_sec
Due(owner) == now + RefundDelay

\* mutant: an undelegation joins the row without restarting its timer
TimerKept(owner, delta) == request_time[owner]

\* a new request, and one that is added to, starts the delay again
RequestTime(owner, delta) ==
    IF \E k \in Kinds : delta[k] < 0 THEN now ELSE request_time[owner]

\* mutant: the stake is recorded for its owner
StakedForSelf(k, owner, receiver, d) ==
    [dbw[k] EXCEPT ![owner] = [dbw[k][owner] EXCEPT ![owner] = dbw[k][owner][owner] + d]]

\* the delband rows of a kind with a change of d
NewDelband(k, owner, receiver, d) ==
    [dbw[k] EXCEPT ![owner] = [dbw[k][owner] EXCEPT ![receiver] = dbw[k][owner][receiver] + d]]

\* set_resource_limits leaves the limits that are managed
NewLimit(k, receiver, w) ==
    IF receiver \in managed[k] THEN limit[k] ELSE [limit[k] EXCEPT ![receiver] = w]

\* The stake of "owner" for "receiver" changes by delta; "payer" provides what
\* the refund row of the owner does not.
changebw(payer, owner, receiver, delta, transfer) ==
    LET uses_refund == \/ ~ transfer /\ owner = receiver
                       \/ delta["net"] + delta["cpu"] < 0
        keeps(k) == IF uses_refund THEN Remaining(refund_due[k][owner], delta[k])
                                   ELSE refund_due[k][owner]
        pays(k)  == IF uses_refund THEN Missing(refund_due[k][owner], delta[k]) ELSE delta[k]
        paid     == pays("net") + pays("cpu")
        total    == delta["net"] + delta["cpu"]
    IN
    /\ total # 0
    /\ \A k \in Kinds : 0 <= dbw[k][owner][receiver] + delta[k]
    /\ \A k \in Kinds : 0 <= weight[k][receiver] + delta[k]
    /\ 0 <= staked[owner] + total
    /\ Vested(owner, staked[owner] + total)
    /\ paid <= own[payer]
    /\ dbw' = [k \in Kinds |-> NewDelband(k, owner, receiver, delta[k])]
    /\ weight' = [k \in Kinds |-> [weight[k] EXCEPT ![receiver] = weight[k][receiver] + delta[k]]]
    /\ limit' = [k \in Kinds |-> NewLimit(k, receiver, weight[k][receiver] + delta[k])]
    /\ refund_due' = [k \in Kinds |-> [refund_due[k] EXCEPT ![owner] = keeps(k)]]
    /\ request_time' = IF uses_refund
                       THEN [request_time EXCEPT ![owner] = RequestTime(owner, delta)]
                       ELSE request_time
    /\ deferred' = [deferred EXCEPT ![owner] =
                      IF uses_refund /\ \E k \in Kinds : keeps(k) > 0 THEN Due(owner) ELSE None]
    /\ own' = [own EXCEPT ![payer] = own[payer] - paid]
    /\ stake_balance' = stake_balance + paid
    /\ staked' = [staked EXCEPT ![owner] = staked[owner] + total]
    /\ UNCHANGED <<now, activated, managed>>

\* with transfer the receiver owns the stake
delegatebw(from, receiver, net, cpu, transfer) ==
    /\ transfer => from # receiver
    /\ changebw(from, IF transfer THEN receiver ELSE from, receiver,
                [k \in Kinds |-> IF k = "net" THEN net ELSE cpu], transfer)
    /\ UNCHANGED last_unstake

undelegatebw(from, receiver, net, cpu) ==
    /\ activated
    /\ changebw(from, from, receiver, [k \in Kinds |-> IF k = "net" THEN -net ELSE -cpu], FALSE)
    /\ last_unstake' = [last_unstake EXCEPT ![from] = now]

\* pays out and erases the row
PayRefund(owner) ==
    LET amount == refund_due["net"][owner] + refund_due["cpu"][owner] IN
    /\ HasRefund(owner)
    /\ request_time[owner] + RefundDelay <= now
    /\ amount <= stake_balance
    /\ own' = [own EXCEPT ![owner] = own[owner] + amount]
    /\ stake_balance' = stake_balance - amount
    /\ refund_due' = [k \in Kinds |-> [refund_due[k] EXCEPT ![owner] = 0]]
    /\ UNCHANGED <<now, activated, resources, managed, request_time, last_unstake>>

refund(owner) == PayRefund(owner) /\ UNCHANGED deferred

\* The chain runs a deferred transaction some time after it is due, once; if
\* its refund fails, or it is not run before it expires, nothing else happens.
Deliver(owner) ==
    /\ deferred[owner] # None /\ deferred[owner] <= now
    /\ deferred' = [deferred EXCEPT ![owner] = None]
    /\ PayRefund(owner)

Drop(owner) ==
    /\ deferred[owner] # None /\ deferred[owner] <= now
    /\ deferred' = [deferred EXCEPT ![owner] = None]
    /\ UNCHANGED <<now, activated, own, stake_balance, resources, managed,
                   refund_due, request_time, last_unstake>>

\* setacctnet and setacctcpu with a limit
ManageLimit(k, account, value) ==
    /\ managed' = [managed EXCEPT ![k] = managed[k] \cup {account}]
    /\ limit' = [limit EXCEPT ![k] = [limit[k] EXCEPT ![account] = value]]
    /\ UNCHANGED <<now, activated, own, stake_balance, dbw, weight, staked, refunds>>

\* mutant: the managed limit stays
LimitStays(k, account) ==
    /\ account \in managed[k]
    /\ managed' = [managed EXCEPT ![k] = managed[k] \ {account}]
    /\ UNCHANGED <<now, activated, own, stake_balance, resources, refunds>>

\* and without one: the limit is again what is staked
UnmanageLimit(k, account) ==
    /\ account \in managed[k]
    /\ managed' = [managed EXCEPT ![k] = managed[k] \ {account}]
    /\ limit' = [limit EXCEPT ![k] = [limit[k] EXCEPT ![account] = weight[k][account]]]
    /\ UNCHANGED <<now, activated, own, stake_balance, dbw, weight, staked, refunds>>

\* the votes cast reach the threshold
Activate ==
    /\ ~ activated
    /\ activated' = TRUE
    /\ UNCHANGED <<now, own, stake_balance, resources, managed, refunds>>

Tick ==
    /\ now < MaxTime
    /\ now' = now + 1
    /\ UNCHANGED <<activated, own, stake_balance, resources, managed, refunds>>

Next ==
    \/ \E from \in Names, receiver \in Names, net \in Amounts, cpu \in Amounts :
          \/ \E transfer \in BOOLEAN : delegatebw(from, receiver, net, cpu, transfer)
          \/ undelegatebw(from, receiver, net, cpu)
    \/ \E owner \in Names : refund(owner) \/ Deliver(owner) \/ Drop(owner)
    \/ \E k \in Kinds, account \in Names :
          \/ \E value \in Limits : ManageLimit(k, account, value)
          \/ UnmanageLimit(k, account)
    \/ Activate
    \/ Tick

Spec == Init /\ [][Next]_vars

-----------------------------------------------------------------------------
Sum(f) == SumTo(f, N)

\* everything account a has delegated, and what its refund row holds
Delegated(a) == Sum(dbw["net"][a]) + Sum(dbw["cpu"][a])
InRefund(a) == refund_due["net"][a] + refund_due["cpu"][a]

\* No stake, refund or balance is negative.
TypeOK ==
    /\ now \in Nat /\ activated \in BOOLEAN
    /\ own \in [Names -> Nat] /\ stake_balance \in Nat
    /\ dbw \in [Kinds -> [Names -> [Names -> Nat]]]
    /\ weight \in [Kinds -> [Names -> Nat]]
    /\ managed \in [Kinds -> SUBSET Names]
    /\ limit \in [Kinds -> [Names -> Int]]
    /\ staked \in [Names -> Nat]
    /\ refund_due \in [Kinds -> [Names -> Nat]]
    /\ request_time \in [Names -> Nat] /\ last_unstake \in [Names -> Nat]
    /\ deferred \in [Names -> Nat \cup {None}]

\* eosio.stake holds exactly what is delegated and what waits to be refunded,
\* so every refund can be paid, whichever of the two ways pays it and however
\* often rows are topped up, drawn on or erased.
StakeBacked == stake_balance = Sum([a \in Names |-> Delegated(a) + InRefund(a)])

\* Three tables record the same stake by different keys: the resources of a
\* receiver are what all accounts delegate to it, and the stake of a voter is
\* what it delegates to all accounts, transferred stake included.
TablesAgree ==
    /\ \A k \in Kinds, b \in Names : weight[k][b] = Sum([a \in Names |-> dbw[k][a][b]])
    /\ \A a \in Names : staked[a] = Delegated(a)

\* Unless the chain's owner manages it, an account's limit is its stake, also
\* after it was managed and stake was moved meanwhile.
LimitsFollowStake ==
    \A k \in Kinds, b \in Names : b \notin managed[k] => limit[k][b] = weight[k][b]

\* b1 keeps delegated what it may not claim yet.
B1Vests == B1 \in Names => Delegated(B1) >= B1Locked

\* A pending deferred refund never comes before the row it pays is due, so it
\* is not lost to "refund is not available yet".
DeferredNotEarly ==
    \A a \in Names :
       deferred[a] # None /\ HasRefund(a) => deferred[a] >= request_time[a] + RefundDelay

\* An account gets no staked token back within RefundDelay of its last
\* undelegatebw: it cannot add to a row that is nearly due.
RefundsWait ==
    [][\A a \in Names : own'[a] > own[a] => now >= last_unstake[a] + RefundDelay]_vars

\* eosio.system/README.md:45 says unstaked tokens are transferred by a deferred
\* transaction: a row that waits has one.
RefundScheduled == \A a \in Names : HasRefund(a) /\ now < request_time[a] + RefundDelay => deferred[a] # None
=============================================================================
