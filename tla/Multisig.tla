------------------------------ MODULE Multisig ------------------------------
(***************************************************************************)
(* eosio.msig.cpp: somebody proposes a transaction, the accounts it needs  *)
(* approve it, and anybody has it executed once they all have.  Approvals  *)
(* can be taken back one at a time, or all at once by invalidate, which    *)
(* only notes the time: exec compares it with the times of the approvals.  *)
(*                                                                         *)
(* A proposal is named by its proposer; two names of one proposer interact *)
(* no more than those of two.  A permission level is its actor.  The lists *)
(* of levels keep duplicates: one call of approve or unapprove moves one   *)
(* copy of a level, the first that it finds.  The order of different       *)
(* levels never matters, so requested counts the copies of each level and  *)
(* provided has their times, from the front of the list to its back.       *)
(* Of a transaction only the accounts it needs and its expiration count.   *)
(* The table of approvals without times (old_approvals) is left out: no    *)
(* action of this version creates a row in it.                             *)
(***************************************************************************)
EXTENDS Integers, Sequences

CONSTANTS Actors,       \* the accounts that propose and approve
          Proposers,    \* those of them that propose
          Trxs,         \* the transactions
          Required,     \* the actors whose authority a transaction needs
          Expiration,   \* when a transaction expires
          Requests,     \* the lists of levels a proposal may request: how often each
          MaxTime       \* bound on the time

ASSUME ActorsAssumption == Proposers \subseteq Actors
ASSUME TrxsAssumption == Required \in [Trxs -> SUBSET Actors] /\ Expiration \in [Trxs -> Nat]
ASSUME RequestsAssumption == Requests \subseteq [Actors -> Nat]
ASSUME TimeAssumption == MaxTime \in Nat

None == "none"          \* no transaction
Never == -1             \* the time of what has not happened
ASSUME NoneAssumption == None \notin Trxs

VARIABLES now,          \* current_time_point
          proposal,     \* proposals: the packed transaction, or None
          has_approvals,\* the proposers with a row in approvals
          requested,    \* requested_approvals of the row: the copies of a level
          provided,     \* provided_approvals: the times of the copies of a level
          invalidated,  \* invalidations: last_invalidation_time, or Never
          deferred,     \* the transaction sent under the proposal's name and not run yet
          asked,        \* history: how often the proposal asked for a level
          consent,      \* history: what an actor's last approval under that name was
                        \* for, or None if it has invalidated its approvals since
          withdrawn     \* history: the actors that called unapprove after approve

tables == <<proposal, has_approvals, requested, provided>>
history == <<asked, consent, withdrawn>>
vars == <<now, tables, invalidated, deferred, history>>

Init ==
    /\ now = 0
    /\ proposal = [p \in Proposers |-> None]
    /\ has_approvals = {}
    /\ requested = [p \in Proposers |-> [a \in Actors |-> 0]]
    /\ provided = [p \in Proposers |-> [a \in Actors |-> <<>>]]
    /\ invalidated = [a \in Actors |-> Never]
    /\ deferred = [p \in Proposers |-> None]
    /\ asked = [p \in Proposers |-> [a \in Actors |-> 0]]
    /\ consent = [p \in Proposers |-> [a \in Actors |-> None]]
    /\ withdrawn = [p \in Proposers |-> {}]

\* mutant: the approvals of the proposal before are still there
OldApprovals(p) == provided

\* a row without approvals
NoApprovals(p) == [provided EXCEPT ![p] = [a \in Actors |-> <<>>]]

-----------------------------------------------------------------------------
\* The chain's check_transaction_authorization
Authorised(trx, approvals) == Required[trx] \subseteq approvals

propose(p, requests, trx) ==
    /\ Expiration[trx] >= now
    /\ proposal[p] = None
    /\ Authorised(trx, {a \in Actors : requests[a] > 0})
    /\ p \notin has_approvals           \* emplace fails on an existing row
    /\ proposal' = [proposal EXCEPT ![p] = trx]
    /\ has_approvals' = has_approvals \cup {p}
    /\ requested' = [requested EXCEPT ![p] = requests]
    /\ provided' = NoApprovals(p)
    /\ asked' = [asked EXCEPT ![p] = requests]
    /\ UNCHANGED <<now, invalidated, deferred, consent, withdrawn>>

\* mutant: the hash is not compared
AnyHash(p, hash) == TRUE

\* assert_sha256, if the approval names a hash
HashMatches(p, hash) == hash # None => proposal[p] = hash

\* One copy of the level moves from the one list to the back of the other.
\* The hash names the transaction the actor has read; without one it consents
\* to whatever is proposed under the name by then.
approve(p, level, hash) ==
    /\ HashMatches(p, hash)
    /\ p \in has_approvals
    /\ requested[p][level] > 0
    /\ requested' = [requested EXCEPT ![p][level] = @ - 1]
    /\ provided' = [provided EXCEPT ![p][level] = Append(@, now)]
    /\ consent' = [consent EXCEPT ![p][level] = IF hash = None THEN proposal[p] ELSE hash]
    /\ withdrawn' = [withdrawn EXCEPT ![p] = @ \ {level}]
    /\ UNCHANGED <<now, proposal, has_approvals, invalidated, deferred, asked>>

\* mutant: the approval is taken back but not asked for again
NotRequested(p, level) == requested

\* one copy of the level is asked for again
Rerequested(p, level) == [requested EXCEPT ![p][level] = @ + 1]

\* The first copy of the level, that is its oldest approval, is taken back.
unapprove(p, level) ==
    /\ p \in has_approvals
    /\ provided[p][level] # <<>>
    /\ requested' = Rerequested(p, level)
    /\ provided' = [provided EXCEPT ![p][level] = Tail(@)]
    /\ withdrawn' = [withdrawn EXCEPT ![p] = @ \cup {level}]
    /\ UNCHANGED <<now, proposal, has_approvals, invalidated, deferred, asked, consent>>

\* both rows of the proposal are erased
Erase(p) ==
    /\ proposal' = [proposal EXCEPT ![p] = None]
    /\ has_approvals' = has_approvals \ {p}
    /\ requested' = [requested EXCEPT ![p] = [a \in Actors |-> 0]]
    /\ provided' = NoApprovals(p)
    /\ asked' = [asked EXCEPT ![p] = [a \in Actors |-> 0]]
    /\ consent' = [consent EXCEPT ![p] = [a \in Actors |-> None]]
    /\ withdrawn' = [withdrawn EXCEPT ![p] = {}]

cancel(p, canceler) ==
    /\ proposal[p] # None
    /\ canceler # p => Expiration[proposal[p]] < now
    /\ p \in has_approvals
    /\ Erase(p)
    /\ UNCHANGED <<now, invalidated, deferred>>

\* mutant: an approval given at the very time of the invalidation counts
StandingAtOnce(p) ==
    {a \in Actors : \E i \in DOMAIN provided[p][a] :
        invalidated[a] = Never \/ invalidated[a] <= provided[p][a][i]}

\* the levels with an approval later than the last invalidation of their actor
Standing(p) ==
    {a \in Actors : \E i \in DOMAIN provided[p][a] :
        invalidated[a] = Never \/ invalidated[a] < provided[p][a][i]}

\* send_deferred fails while a transaction is pending under the same id
exec(p) ==
    /\ proposal[p] # None
    /\ Expiration[proposal[p]] >= now
    /\ p \in has_approvals
    /\ Authorised(proposal[p], Standing(p))
    /\ deferred[p] = None
    /\ deferred' = [deferred EXCEPT ![p] = proposal[p]]
    /\ Erase(p)
    /\ UNCHANGED <<now, invalidated>>

invalidate(account) ==
    /\ invalidated' = [invalidated EXCEPT ![account] = now]
    /\ consent' = [p \in Proposers |-> [consent[p] EXCEPT ![account] = None]]
    /\ UNCHANGED <<now, tables, deferred, asked, withdrawn>>

\* the chain runs the deferred transaction, or drops it
Deliver(p) ==
    /\ deferred[p] # None
    /\ deferred' = [deferred EXCEPT ![p] = None]
    /\ UNCHANGED <<now, tables, invalidated, history>>

Tick ==
    /\ now < MaxTime
    /\ now' = now + 1
    /\ UNCHANGED <<tables, invalidated, deferred, history>>

Next ==
    \/ \E p \in Proposers :
          \/ \E requests \in Requests, trx \in Trxs : propose(p, requests, trx)
          \/ \E level \in Actors, hash \in Trxs \cup {None} : approve(p, level, hash)
          \/ \E level \in Actors : unapprove(p, level)
          \/ \E canceler \in Actors : cancel(p, canceler)
          \/ exec(p)
          \/ Deliver(p)
    \/ \E account \in Actors : invalidate(account)
    \/ Tick

Spec == Init /\ [][Next]_vars

-----------------------------------------------------------------------------
\* The tables keep their types, and no time in them is in the future.
TypeOK ==
    /\ now \in Nat
    /\ proposal \in [Proposers -> Trxs \cup {None}]
    /\ has_approvals \subseteq Proposers
    /\ requested \in [Proposers -> [Actors -> Nat]]
    /\ provided \in [Proposers -> [Actors -> Seq(0 .. now)]]
    /\ invalidated \in [Actors -> 0 .. now \cup {Never}]
    /\ deferred \in [Proposers -> Trxs \cup {None}]
    /\ asked \in [Proposers -> [Actors -> Nat]]
    /\ consent \in [Proposers -> [Actors -> Trxs \cup {None}]]
    /\ withdrawn \in [Proposers -> SUBSET Actors]

\* A proposal and its approvals come and go together, and no copy of a level
\* is lost or doubled on the way: each that was asked for is either asked for
\* still or approved.  Otherwise the name would be stuck, or the transaction
\* never be authorised.
ApprovalsComplete ==
    \A p \in Proposers :
       /\ p \in has_approvals <=> proposal[p] # None
       /\ \A a \in Actors : requested[p][a] + Len(provided[p][a]) = asked[p][a]

\* An approval that exec counts is for the transaction proposed now: given,
\* by its hash or under its name, since this very proposal was made and since
\* its actor last called invalidate.  None is left of a proposal that was
\* cancelled or executed under the same name before.
ApprovalsMatch ==
    \A p \in Proposers : \A a \in Standing(p) :
       proposal[p] # None /\ consent[p][a] = proposal[p]

\* A transaction is sent only with the consent of everyone it needs, to this
\* very transaction and not taken back since by unapprove or by invalidate,
\* whatever was proposed, cancelled, approved and invalidated meanwhile or at
\* the same time.  For unapprove this is so of levels that were requested
\* once: it takes back one copy, so a level that was requested and approved
\* twice still counts after one unapprove (eosio.msig.cpp:101-107), even if
\* the copy that is taken back was void already.
ActsOnConsent ==
    [][\A p \in Proposers : deferred'[p] # deferred[p] /\ deferred'[p] # None =>
          \A a \in Required[deferred'[p]] :
             /\ consent[p][a] = deferred'[p]
             /\ asked[p][a] = 1 => a \notin withdrawn[p]]_vars
=============================================================================
