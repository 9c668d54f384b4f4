------------------------------- MODULE Voting -------------------------------
(***************************************************************************)
(* Voting for block producers (voting.cpp).  A voter approves producers or *)
(* names a proxy; a proxy votes with its own weight and the weights of the *)
(* voters that named it.  A voter's weight is its stake times a factor     *)
(* that grows with time, and it counts as it was at the voter's last       *)
(* change: total_votes and proxied_vote_weight are never computed anew,    *)
(* each change only adds the difference to the weight that counted before. *)
(*                                                                         *)
(* Producers share in the per-vote pay by their votes integrated over the  *)
(* time since their last claim, until three days after it.  The sum of the *)
(* shares and its rate of change are kept apart from them, and every       *)
(* change of votes updates both sides (update_producer_votepay_share,      *)
(* update_total_votepay_share).                                            *)
(*                                                                         *)
(* What a voter has chosen is in voters; the weights and the producers are *)
(* in the tables that the helpers map to the tables they leave, with ok    *)
(* cleared where a check of the code fails.  Time is in days.              *)
(***************************************************************************)
EXTENDS Integers, FiniteSets, FunSums

CONSTANTS Voters,        \* the accounts that vote or are proxies
          Nobody,        \* no proxy
          ProducerCount, \* the producers are 1 .. ProducerCount, in the order of names
          Stakes,        \* the changes of a stake, by staking or in REX
          MaxStake,      \* bound on a stake
          InitStake,     \* the stake of each voter at the start
          Legacy,        \* producers registered before the table producers2 existed
          VoteFactor,    \* the weight of a staked token at each time
          MinActivated,  \* min_activated_stake
          PayDays,       \* the three days after which a share stops growing
          MaxTime        \* bound on the time

Producers == 1 .. ProducerCount
Times == 1 .. MaxTime
Never == 0               \* time_point()

ASSUME NobodyAssumption == Nobody \notin Voters
ASSUME VotersAssumption == IsFiniteSet(Voters)
ASSUME ProducersAssumption == ProducerCount \in Nat /\ Legacy \subseteq Producers
ASSUME StakesAssumption == Stakes \subseteq Int /\ InitStake \in Nat /\ MaxStake \in Nat
ASSUME TimeAssumption == MaxTime \in Nat \ {0} /\ PayDays \in Nat \ {0}
ASSUME ActivatedAssumption == MinActivated \in Nat

\* The unit of the weights is the half of one that the guard on small changes
\* lets pass: the guard is there for the rounding of doubles, and with integers
\* it stops no change but 0.
ASSUME FactorAssumption ==
    VoteFactor \in [Times -> Nat \ {0}] /\ \A t \in Times : VoteFactor[t] % 2 = 0

VARIABLES now,     \* current_time_point
          voters,  \* table voters: the choices and the stake of each voter
          weight,  \* table voters: last_vote_weight and proxied_vote_weight
          prods,   \* tables producers and producers2
          totals   \* the singletons: totals of votes, stake and shares

vars == <<now, voters, weight, prods, totals>>

NoVoter == [row |-> FALSE, staked |-> 0, is_proxy |-> FALSE, proxy |-> Nobody, producers |-> {}]
NoProducer == [row |-> FALSE, row2 |-> FALSE, is_active |-> FALSE, total_votes |-> 0,
               last_claim_time |-> Never, votepay_share |-> 0,
               last_votepay_share_update |-> Never]

Init ==
    /\ now = 1
    /\ voters = [v \in Voters |->
                   IF InitStake = 0 THEN NoVoter
                   ELSE [NoVoter EXCEPT !.row = TRUE, !.staked = InitStake]]
    /\ weight = [v \in Voters |-> [last |-> 0, proxied |-> 0]]
    /\ prods = [p \in Producers |->
                  IF p \in Legacy
                  THEN [NoProducer EXCEPT !.row = TRUE, !.is_active = TRUE, !.last_claim_time = 1]
                  ELSE NoProducer]
    /\ totals = [activated |-> 0, thresh_time |-> Never, vote_weight |-> 0,
                 votepay_share |-> 0, change_rate |-> 0, last_vpay_state_update |-> Never]

\* The tables an action starts from, and the step that leaves the tables s.
Tables == [ok |-> TRUE, weight |-> weight, prods |-> prods, totals |-> totals]

Commit(tables) ==
    \E s \in {tables} :
       /\ s.ok
       /\ weight' = s.weight /\ prods' = s.prods /\ totals' = s.totals

Check(s, condition) == [s EXCEPT !.ok = @ /\ condition]

Least(a, b) == IF a < b THEN a ELSE b
Greatest(a, b) == IF a > b THEN a ELSE b

-----------------------------------------------------------------------------
(* Shares in the per-vote pay.                                             *)

\* The share that p has when it is updated now at the given rate.
NewShare(p, rate) == p.votepay_share + rate * (now - p.last_votepay_share_update)

\* last_claim_plus_3days <= ct
Crossed(p) == p.last_claim_time + PayDays <= now

\* The share was updated after three days, so it was taken out of the total.
UpdatedAfter(p) == p.last_claim_time + PayDays <= p.last_votepay_share_update

ShareRate(p) == IF UpdatedAfter(p) THEN 0 ELSE p.total_votes

\* mutant: the share is not reset after three days or at a claim
ShareKept(p, reset) ==
    [p EXCEPT !.votepay_share = NewShare(p, ShareRate(p)),
              !.last_votepay_share_update = now]

\* update_producer_votepay_share
ShareUpdated(p, reset) ==
    [p EXCEPT !.votepay_share = IF reset THEN 0 ELSE NewShare(p, ShareRate(p)),
              !.last_votepay_share_update = now]

update_total_votepay_share(s, additional, rate_delta) ==
    LET t == s.totals
        grown == t.change_rate * (now - t.last_vpay_state_update)
    IN [s EXCEPT !.totals = [t EXCEPT
          !.votepay_share = Greatest(0, @ + grown + additional),
          !.change_rate = Greatest(0, @ + rate_delta),
          !.last_vpay_state_update = now]]

-----------------------------------------------------------------------------
(* Votes.                                                                  *)

stake2vote(staked) == staked * VoteFactor[now]

\* The votes of each producer in the domain of delta change by delta[p]: the
\* loops over producers in update_votes and propagate_weight_change.
VotesChanged(s, delta) ==
    LET changed == DOMAIN delta
        paid == {p \in changed : s.prods[p].row2}
        counted == {p \in paid : ~Crossed(s.prods[p])}
        leaving == {p \in paid \ counted : ~UpdatedAfter(s.prods[p])}
        Updated(p) == IF p \in paid THEN ShareUpdated(s.prods[p], p \in leaving) ELSE s.prods[p]
        share == [p \in leaving |-> NewShare(s.prods[p], s.prods[p].total_votes)]
        rate == [p \in leaving |-> s.prods[p].total_votes]
    IN update_total_votepay_share(
          [s EXCEPT !.prods = [p \in Producers |->
                                 IF p \in changed
                                 THEN [Updated(p) EXCEPT !.total_votes = Greatest(0, @ + delta[p])]
                                 ELSE @[p]],
                    !.totals.vote_weight = @ + SumOver(delta, changed)],
          - SumOver(share, leaving),
          SumOver(delta, counted) - SumOver(rate, leaving))

NewWeight(vs, s, v) ==
    stake2vote(vs[v].staked) + (IF vs[v].is_proxy THEN s.weight[v].proxied ELSE 0)

\* One call of propagate_weight_change without the call it makes: the change
\* goes to the proxy of v or to its producers, unless it is small.  The call it
\* makes is for next.
WeightPassedOn(vs, s, v) ==
    LET new == NewWeight(vs, s, v)
        change == new - s.weight[v].last
        set == [s EXCEPT !.weight[v].last = new]
        small == change \in -1 .. 1
    IN [next |-> IF small THEN Nobody ELSE vs[v].proxy,
        tables |->
           Check(IF small THEN set
                 ELSE IF vs[v].proxy # Nobody
                      THEN [set EXCEPT !.weight[vs[v].proxy].proxied = @ + change]
                      ELSE VotesChanged(set, [p \in vs[v].producers |-> change]),
                 vs[v].proxy = Nobody \/ ~vs[v].is_proxy)]

\* The recursion of propagate_weight_change, down the chain of proxies, which
\* is no longer than there are voters (NoProxyCycle).
propagate_weight_change(vs, s, v) ==
    LET step[n \in 0 .. Cardinality(Voters)] ==
          IF n = 0 THEN [next |-> v, tables |-> s]
          ELSE IF step[n - 1].next = Nobody THEN step[n - 1]
          ELSE WeightPassedOn(vs, step[n - 1].tables, step[n - 1].next)
    IN step[Cardinality(Voters)].tables

\* A voter without a weight votes for the first time: its stake is activated.
\* bound: the total is kept only up to min_activated_stake.
Activated(s, staked) ==
    LET activated == Least(MinActivated, s.totals.activated + staked)
    IN [s EXCEPT !.totals.activated = activated,
                 !.totals.thresh_time =
                     IF activated >= MinActivated /\ @ = Never THEN now ELSE @]

\* mutant: the account named as proxy need not be registered as one
AnyoneIsProxy(vs, s, v, proxy, producers, voting) ==
    /\ vs[v].row
    /\ proxy # Nobody => /\ producers = {} /\ proxy # v /\ ~vs[v].is_proxy
                         /\ vs[proxy].row
    /\ \A p \in producers : s.prods[p].row /\ (voting => s.prods[p].is_active)

VoteAllowed(vs, s, v, proxy, producers, voting) ==
    /\ vs[v].row
    /\ proxy # Nobody => /\ producers = {} /\ proxy # v /\ ~vs[v].is_proxy
                         /\ vs[proxy].row
                         /\ voting => vs[proxy].is_proxy
    /\ \A p \in producers : s.prods[p].row /\ (voting => s.prods[p].is_active)

\* mutant: the new weight is taken back from the proxy instead of the last
NewTakenBack(vs, s, v) ==
    propagate_weight_change(vs, [s EXCEPT !.weight[vs[v].proxy].proxied = @ - NewWeight(vs, s, v)],
                            vs[v].proxy)

\* What v's last vote gave to its proxy is taken back.
TakenBack(vs, s, v) ==
    propagate_weight_change(vs, [s EXCEPT !.weight[vs[v].proxy].proxied = @ - s.weight[v].last],
                            vs[v].proxy)

\* update_votes, but for the choice of v itself, which the callers store
update_votes(vs, start, v, proxy, producers, voting) ==
    LET last == start.weight[v].last
        new == NewWeight(vs, start, v)
        s1 == IF last <= 0 THEN Activated(start, vs[v].staked) ELSE start
        s2 == IF last > 0 /\ vs[v].proxy # Nobody THEN TakenBack(vs, s1, v) ELSE s1
        s3 == IF proxy # Nobody
              THEN propagate_weight_change(vs, [s2 EXCEPT !.weight[proxy].proxied = @ + new], proxy)
              ELSE s2
        old == IF last > 0 /\ vs[v].proxy = Nobody THEN vs[v].producers ELSE {}
        delta == [p \in old \cup producers |->
                    (IF p \in producers THEN new ELSE 0) - (IF p \in old THEN last ELSE 0)]
    IN [VotesChanged(s3, delta) EXCEPT !.weight[v].last = new]

-----------------------------------------------------------------------------
(* Actions.                                                                *)

\* The RAM-paying and signing details aside, rmvproducer does the same.
unregprod(p) ==
    /\ prods[p].row
    /\ prods' = [prods EXCEPT ![p].is_active = FALSE]
    /\ UNCHANGED <<now, voters, weight, totals>>

Row2(p) == [p EXCEPT !.row2 = TRUE, !.votepay_share = 0, !.last_votepay_share_update = now]

regproducer(p) ==
    LET old == prods[p]
        active == [old EXCEPT !.row = TRUE, !.is_active = TRUE,
                              !.last_claim_time = IF @ = Never THEN now ELSE @]
        tables == [Tables EXCEPT !.prods[p] = IF old.row2 THEN active ELSE Row2(active)]
    IN /\ Commit(IF old.row /\ ~old.row2
                 THEN update_total_votepay_share(tables, 0, old.total_votes)
                 ELSE tables)
       /\ UNCHANGED <<now, voters>>

regproxy(v, isproxy) ==
    LET vs == [voters EXCEPT ![v].row = TRUE, ![v].is_proxy = isproxy] IN
    /\ voters[v].row => isproxy # voters[v].is_proxy /\ (isproxy => voters[v].proxy = Nobody)
    /\ voters' = vs
    /\ Commit(IF voters[v].row THEN propagate_weight_change(vs, Tables, v) ELSE Tables)
    /\ UNCHANGED now

\* The stake of a voter with REX is first brought up to date (update_rex_stake).
voteproducer(v, change, proxy, producers) ==
    LET vs == [voters EXCEPT ![v].staked = @ + change] IN
    /\ vs[v].staked \in 0 .. MaxStake
    /\ VoteAllowed(vs, Tables, v, proxy, producers, TRUE)
    /\ Commit(update_votes(vs, Tables, v, proxy, producers, TRUE))
    /\ voters' = [vs EXCEPT ![v].proxy = proxy, ![v].producers = producers]
    /\ UNCHANGED now

\* delegatebw, undelegatebw and the actions of REX change a stake
update_voting_power(v, change) ==
    LET vs == [voters EXCEPT ![v].row = TRUE, ![v].staked = @ + change]
        proxy == vs[v].proxy
        producers == vs[v].producers
        votes == proxy # Nobody \/ producers # {}
    IN /\ vs[v].staked \in 0 .. MaxStake
       /\ votes => VoteAllowed(vs, Tables, v, proxy, producers, FALSE)
       /\ Commit(IF votes THEN update_votes(vs, Tables, v, proxy, producers, FALSE) ELSE Tables)
       /\ voters' = vs
       /\ UNCHANGED now

Tick ==
    /\ now < MaxTime
    /\ now' = now + 1
    /\ UNCHANGED <<voters, weight, prods, totals>>

Vote ==
    \E v \in Voters :
       \/ \E isproxy \in BOOLEAN : regproxy(v, isproxy)
       \/ \E change \in Stakes : update_voting_power(v, change)
       \/ \E change \in Stakes \cup {0}, proxy \in Voters \cup {Nobody},
             producers \in SUBSET Producers : voteproducer(v, change, proxy, producers)

Register == \E p \in Producers : regproducer(p) \/ unregprod(p)

Next == Vote \/ Register \/ Tick

Spec == Init /\ [][Next]_vars

-----------------------------------------------------------------------------
(* Properties.                                                             *)

LastWeights(S) == SumOver([v \in Voters |-> weight[v].last], S)
AllVotes == SumOver([p \in Producers |-> prods[p].total_votes], Producers)

\* The totals kept by differences are the sums they stand for: the votes of a
\* producer are the last weights of the voters that approve it, the weight that
\* a proxy votes for others is the last weights of those that named it, and
\* the total is the sum of the producers' votes.
VotesAddUp ==
    /\ \A p \in Producers :
          prods[p].total_votes = LastWeights({v \in Voters : p \in voters[v].producers})
    /\ \A x \in Voters :
          weight[x].proxied = LastWeights({v \in Voters : voters[v].proxy = x})
    /\ totals.vote_weight = AllVotes

\* No chain of proxies comes back to where it started, so the recursion of
\* propagate_weight_change ends, although proxies may unregister, name proxies
\* themselves and keep the voters that named them.
NoProxyCycle ==
    \A S \in SUBSET Voters : S # {} => \E v \in S : voters[v].proxy \notin S

\* The share of every producer grows in the total at the rate at which it
\* grows in the producer's row, until it is taken out of both, at the first
\* update after three days.
SharesAddUp ==
    LET counted == {p \in Producers : prods[p].row2 /\ ~UpdatedAfter(prods[p])}
        rate == [p \in counted |-> prods[p].total_votes]
        share == [p \in counted |-> NewShare(prods[p], prods[p].total_votes)]
    IN /\ totals.change_rate = SumOver(rate, counted)
       /\ totals.votepay_share + totals.change_rate * (now - totals.last_vpay_state_update)
            = SumOver(share, counted)
       /\ \A p \in Producers \ counted : prods[p].votepay_share = 0

\* The rate at which the shares grow counts the votes of a producer once, so it
\* is never more than all votes together.
VotesCountedOnce == totals.change_rate <= AllVotes
=============================================================================
