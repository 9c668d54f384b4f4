--------------------------- MODULE MCProducerPay ---------------------------
(***************************************************************************)
(* Three scenes of ProducerPay, one chosen at the start, that bound what   *)
(* would be too much together.  In "proxies" all voters vote, name and     *)
(* become proxies and change their stake, while the weight of a token      *)
(* doubles.  In "shares" one voter votes again and again or becomes a      *)
(* proxy, and producers claim, across the three days of the shares.  In    *)
(* "blocks" that voter votes once, and blocks, claims, the revision and    *)
(* registrations follow.                                                   *)
(***************************************************************************)
EXTENDS ProducerPay, TLC

CONSTANTS ProxyTime,      \* bound on the time in "proxies",
          ProxyProducers, \*   and the producers in it
          SharesRegTime,  \* the last time of registrations in "shares",
          BlocksRegTime,  \*   and in "blocks"
          BlocksVoteTime  \* the last time of the vote in "blocks"

VARIABLE scene

Scenes == {"proxies", "shares", "blocks"}

Changes == {1, -1}
Doubling == [t \in Times |-> IF t = 1 THEN 2 ELSE 4]
VoterSymmetry == Permutations(Voters)

\* v may vote if nobody else does
OnlyVoter(v) ==
    \A w \in Voters \ {v} :
       voters[w].proxy = Nobody /\ voters[w].producers = {} /\ ~voters[w].is_proxy

SimpleVote ==
    \E v \in Voters, producers \in SUBSET Producers :
       OnlyVoter(v) /\ voteproducer(v, 0, Nobody, producers)

BecomeProxy == \E v \in Voters : OnlyVoter(v) /\ regproxy(v, TRUE)

PayUnchanged == UNCHANGED <<unpaid, pay, acct, schedule>>

Proxies ==
    /\ \/ Vote
       \/ \E p \in ProxyProducers : regproducer(p) \/ unregprod(p)
       \/ now < ProxyTime /\ Tick
    /\ PayUnchanged

Shares ==
    \/ \E p \in Producers : claimrewards(p)
    \/ onblock(0, FALSE, FALSE)
    \/ /\ \/ SimpleVote
          \/ BecomeProxy
          \/ \E p \in Producers : (now <= SharesRegTime \/ p \in Legacy) /\ regproducer(p)
          \/ Tick
       /\ PayUnchanged

Blocks ==
    \/ Pay
    \/ /\ \/ now <= BlocksVoteTime /\ SimpleVote
          \/ now <= BlocksRegTime /\ Register
          \/ Tick
       /\ PayUnchanged

MCNext ==
    /\ UNCHANGED scene
    /\ \/ scene = "proxies" /\ Proxies
       \/ scene = "shares" /\ Shares
       \/ scene = "blocks" /\ Blocks

MCInit == PayInit /\ scene \in Scenes

MCSpec == MCInit /\ [][MCNext]_<<payvars, scene>>
============================================================================
