--------------------------- MODULE MultisigProofs ---------------------------
(***************************************************************************)
(* What holds of eosio.msig for every set of accounts, proposers and       *)
(* transactions, however long it runs.                                     *)
(*                                                                         *)
(* The table never says that an approval was invalidated: exec finds out   *)
(* by comparing times.  The invariant Inv therefore adds, to what the runs *)
(* check, that no approval of an actor without consent is later than its   *)
(* last invalidation, and that a level requested once has no approval left *)
(* once its actor has called unapprove.                                    *)
(***************************************************************************)
EXTENDS Multisig, SequenceTheorems, TLAPS

\* An approval that its actor no longer consents to is void by time.
VoidIsInvalidated ==
    \A p \in Proposers, a \in Actors :
       consent[p][a] = None =>
          \A i \in DOMAIN provided[p][a] : provided[p][a][i] <= invalidated[a]

\* What an actor consents to is what is proposed now.
ConsentIsCurrent ==
    \A p \in Proposers, a \in Actors :
       consent[p][a] # None => consent[p][a] = proposal[p]

\* One call of unapprove takes back a level that was requested once.
OnceIsEnough ==
    \A p \in Proposers : \A a \in withdrawn[p] :
       asked[p][a] = 1 => provided[p][a] = <<>>

Inv ==
    TypeOK /\ ApprovalsComplete /\ ConsentIsCurrent /\ VoidIsInvalidated /\ OnceIsEnough

-----------------------------------------------------------------------------
\* What approve and unapprove do to the times of one level.
LEMMA Appended ==
    ASSUME NEW S, NEW s \in Seq(S), NEW e \in S
    PROVE  /\ Append(s, e) \in Seq(S)
           /\ Len(Append(s, e)) = Len(s) + 1
  OBVIOUS

LEMMA TakenBack ==
    ASSUME NEW S, NEW s \in Seq(S), s # <<>>
    PROVE  /\ Tail(s) \in Seq(S)
           /\ Len(Tail(s)) = Len(s) - 1
           /\ \A i \in DOMAIN Tail(s) : i + 1 \in DOMAIN s /\ Tail(s)[i] = s[i + 1]
  OBVIOUS

-----------------------------------------------------------------------------
\* The empty tables are of their types.
LEMMA InitType == Init => TypeOK
  BY TrxsAssumption DEF Init, TypeOK, Never

\* Every step keeps the types, and the times in the past.
LEMMA TypeStep == TypeOK /\ [Next]_vars => TypeOK'
<1> SUFFICES ASSUME TypeOK, [Next]_vars PROVE TypeOK'
  OBVIOUS
<1> USE DEF TypeOK, Never
<1>1. ASSUME NEW p \in Proposers, NEW requests \in Requests, NEW trx \in Trxs,
             propose(p, requests, trx)
      PROVE  TypeOK'
  <2>1. requests \in [Actors -> Nat]
    BY RequestsAssumption
  <2> QED
    BY <1>1, <2>1 DEF propose, NoApprovals
<1>2. ASSUME NEW p \in Proposers, NEW level \in Actors, NEW hash \in Trxs \cup {None},
             approve(p, level, hash)
      PROVE  TypeOK'
  <2>1. Append(provided[p][level], now) \in Seq(0 .. now)
    BY Appended
  <2>2. provided' \in [Proposers -> [Actors -> Seq(0 .. now)]]
    BY <1>2, <2>1 DEF approve
  <2>3. requested[p][level] - 1 \in Nat
    BY <1>2 DEF approve
  <2>4. requested' \in [Proposers -> [Actors -> Nat]]
    BY <1>2, <2>3 DEF approve
  <2> QED
    BY <1>2, <2>2, <2>4 DEF approve
<1>3. ASSUME NEW p \in Proposers, NEW level \in Actors, unapprove(p, level)
      PROVE  TypeOK'
  <2>1. Tail(provided[p][level]) \in Seq(0 .. now)
    BY <1>3, TakenBack DEF unapprove
  <2>2. provided' \in [Proposers -> [Actors -> Seq(0 .. now)]]
    BY <1>3, <2>1 DEF unapprove
  <2>3. requested' \in [Proposers -> [Actors -> Nat]]
    BY <1>3 DEF unapprove, Rerequested
  <2> QED
    BY <1>3, <2>2, <2>3 DEF unapprove
<1>4. ASSUME NEW p \in Proposers, Erase(p), UNCHANGED <<now, invalidated>>,
             deferred' \in [Proposers -> Trxs \cup {None}]
      PROVE  TypeOK'
  BY <1>4 DEF Erase, NoApprovals
<1>5. ASSUME NEW p \in Proposers, NEW canceler \in Actors, cancel(p, canceler)
      PROVE  TypeOK'
  BY <1>4, <1>5 DEF cancel
<1>6. ASSUME NEW p \in Proposers, exec(p) PROVE TypeOK'
  BY <1>4, <1>6 DEF exec
<1>7. ASSUME NEW p \in Proposers, Deliver(p) PROVE TypeOK'
  BY <1>7 DEF Deliver, tables, history
<1>8. ASSUME NEW account \in Actors, invalidate(account) PROVE TypeOK'
  BY <1>8 DEF invalidate, tables
<1>9. ASSUME Tick PROVE TypeOK'
  <2>1. 0 .. now \subseteq 0 .. now' /\ now' \in Nat
    BY <1>9 DEF Tick
  <2>2. ASSUME NEW t \in Seq(0 .. now) PROVE t \in Seq(0 .. now')
    BY <2>1, SeqMonotonic
  <2> QED
    BY <1>9, <2>1, <2>2 DEF Tick, tables, history
<1>10. ASSUME UNCHANGED vars PROVE TypeOK'
  BY <1>10 DEF vars, tables, history
<1> QED
  BY <1>1, <1>2, <1>3, <1>5, <1>6, <1>7, <1>8, <1>9, <1>10 DEF Next

-----------------------------------------------------------------------------
\* What a step changes for one level under one name: the rest stays.
Untouched(p, a) ==
    /\ requested'[p][a] = requested[p][a] /\ provided'[p][a] = provided[p][a]
    /\ consent'[p][a] = consent[p][a] /\ asked'[p][a] = asked[p][a]
    /\ a \in withdrawn'[p] <=> a \in withdrawn[p]

\* An approval moves one copy of the level and says what it is for.
LEMMA Approves ==
    ASSUME TypeOK, NEW p \in Proposers, NEW level \in Actors, NEW hash \in Trxs \cup {None},
           approve(p, level, hash)
    PROVE  /\ \A q \in Proposers, a \in Actors : <<q, a>> # <<p, level>> => Untouched(q, a)
           /\ requested'[p][level] = requested[p][level] - 1
           /\ provided'[p][level] = Append(provided[p][level], now)
           /\ Len(provided'[p][level]) = Len(provided[p][level]) + 1
           /\ consent'[p][level] = proposal[p]
           /\ asked' = asked
           /\ level \notin withdrawn'[p]
<1>1. Len(Append(provided[p][level], now)) = Len(provided[p][level]) + 1
  BY Appended DEF TypeOK
<1> QED
  BY <1>1, NoneAssumption DEF TypeOK, approve, Untouched, HashMatches

\* Taking an approval back moves the first copy of the level.
LEMMA Unapproves ==
    ASSUME TypeOK, NEW p \in Proposers, NEW level \in Actors, unapprove(p, level)
    PROVE  /\ \A q \in Proposers, a \in Actors : <<q, a>> # <<p, level>> => Untouched(q, a)
           /\ requested'[p][level] = requested[p][level] + 1
           /\ Len(provided'[p][level]) = Len(provided[p][level]) - 1
           /\ \A i \in DOMAIN provided'[p][level] :
                 /\ i + 1 \in DOMAIN provided[p][level]
                 /\ provided'[p][level][i] = provided[p][level][i + 1]
           /\ UNCHANGED <<asked, consent>>
<1>1. provided'[p][level] = Tail(provided[p][level])
  BY DEF TypeOK, unapprove
<1>2. /\ Len(Tail(provided[p][level])) = Len(provided[p][level]) - 1
      /\ \A i \in DOMAIN Tail(provided[p][level]) :
            /\ i + 1 \in DOMAIN provided[p][level]
            /\ Tail(provided[p][level])[i] = provided[p][level][i + 1]
  BY TakenBack DEF TypeOK, unapprove
<1> QED
  BY <1>1, <1>2 DEF TypeOK, unapprove, Rerequested, Untouched

\* Erasing a proposal leaves nothing of it, and the others as they are.
LEMMA Erases ==
    ASSUME TypeOK, NEW p \in Proposers, Erase(p)
    PROVE  /\ \A q \in Proposers, a \in Actors : q # p => Untouched(q, a)
           /\ \A a \in Actors : /\ requested'[p][a] = 0 /\ provided'[p][a] = <<>>
                                /\ consent'[p][a] = None /\ asked'[p][a] = 0
           /\ withdrawn'[p] = {} /\ proposal'[p] = None /\ p \notin has_approvals'
           /\ \A q \in Proposers \ {p} : /\ proposal'[q] = proposal[q]
                                         /\ q \in has_approvals' <=> q \in has_approvals
  BY DEF TypeOK, Erase, NoApprovals, Untouched

-----------------------------------------------------------------------------
\* What the one list loses the other gains.
LEMMA OneMoved ==
    \A r, l \in Nat : (r - 1) + (l + 1) = r + l /\ (r + 1) + (l - 1) = r + l
  OBVIOUS

\* Every step keeps a proposal together with all of its approvals.
LEMMA CompleteStep ==
    TypeOK /\ ApprovalsComplete /\ [Next]_vars => ApprovalsComplete'
<1> SUFFICES ASSUME TypeOK, ApprovalsComplete, [Next]_vars PROVE ApprovalsComplete'
  OBVIOUS
<1> USE DEF ApprovalsComplete
<1>1. ASSUME NEW p \in Proposers, NEW requests \in Requests, NEW trx \in Trxs,
             propose(p, requests, trx)
      PROVE  ApprovalsComplete'
  <2>1. requests \in [Actors -> Nat]
    BY RequestsAssumption
  <2> QED
    BY <1>1, <2>1, NoneAssumption DEF propose, NoApprovals, TypeOK
<1>2. ASSUME NEW p \in Proposers, NEW level \in Actors, NEW hash \in Trxs \cup {None},
             approve(p, level, hash)
      PROVE  ApprovalsComplete'
  <2>1. UNCHANGED <<proposal, has_approvals>>
    BY <1>2 DEF approve
  <2>2. requested[p][level] \in Nat /\ Len(provided[p][level]) \in Nat
    BY DEF TypeOK
  <2>3. ASSUME NEW q \in Proposers, NEW a \in Actors
        PROVE  requested'[q][a] + Len(provided'[q][a]) = asked'[q][a]
    <3>1. CASE q = p /\ a = level
      <4>1. /\ requested'[p][level] = requested[p][level] - 1
            /\ Len(provided'[p][level]) = Len(provided[p][level]) + 1
            /\ asked'[p][level] = asked[p][level]
        BY <1>2, Approves
      <4>2. requested[p][level] + Len(provided[p][level]) = asked[p][level]
        OBVIOUS
      <4> QED
        BY <2>2, <3>1, <4>1, <4>2, OneMoved, Zenon
    <3>2. CASE <<q, a>> # <<p, level>>
      BY <1>2, <3>2, Approves DEF Untouched
    <3> QED
      BY <3>1, <3>2
  <2> QED
    BY <2>1, <2>3
<1>3. ASSUME NEW p \in Proposers, NEW level \in Actors, unapprove(p, level)
      PROVE  ApprovalsComplete'
  <2>1. UNCHANGED <<proposal, has_approvals>>
    BY <1>3 DEF unapprove
  <2>2. requested[p][level] \in Nat /\ Len(provided[p][level]) \in Nat
    BY DEF TypeOK
  <2>3. ASSUME NEW q \in Proposers, NEW a \in Actors
        PROVE  requested'[q][a] + Len(provided'[q][a]) = asked'[q][a]
    <3>1. CASE q = p /\ a = level
      <4>1. /\ requested'[p][level] = requested[p][level] + 1
            /\ Len(provided'[p][level]) = Len(provided[p][level]) - 1
            /\ asked'[p][level] = asked[p][level]
        BY <1>3, Unapproves
      <4>2. requested[p][level] + Len(provided[p][level]) = asked[p][level]
        OBVIOUS
      <4> QED
        BY <2>2, <3>1, <4>1, <4>2, OneMoved, Zenon
    <3>2. CASE <<q, a>> # <<p, level>>
      BY <1>3, <3>2, Unapproves DEF Untouched
    <3> QED
      BY <3>1, <3>2
  <2> QED
    BY <2>1, <2>3
<1>4. ASSUME NEW p \in Proposers, Erase(p) PROVE ApprovalsComplete'
  <2>1. ASSUME NEW q \in Proposers PROVE q \in has_approvals' <=> proposal'[q] # None
    BY <1>4, Erases
  <2>2. ASSUME NEW q \in Proposers, NEW a \in Actors
        PROVE  requested'[q][a] + Len(provided'[q][a]) = asked'[q][a]
    <3>1. CASE q = p
      <4>1. requested'[p][a] = 0 /\ provided'[p][a] = <<>> /\ asked'[p][a] = 0
        BY <1>4, Erases
      <4> QED
        BY <3>1, <4>1, EmptySeq
    <3>2. CASE q # p
      BY <1>4, <3>2, Erases DEF Untouched
    <3> QED
      BY <3>1, <3>2
  <2> QED
    BY <2>1, <2>2
<1>5. ASSUME UNCHANGED <<tables, asked>> PROVE ApprovalsComplete'
  BY <1>5 DEF tables
<1> QED
  BY <1>1, <1>2, <1>3, <1>4, <1>5
  DEF Next, vars, history, cancel, exec, Deliver, invalidate, Tick

-----------------------------------------------------------------------------
\* Every step keeps the meaning of the approvals: they are for what is
\* proposed, or void because of an invalidation, and a level requested once
\* that its actor has taken back is not approved.
LEMMA ConsentStep ==
    Inv /\ [Next]_vars => (ConsentIsCurrent /\ VoidIsInvalidated /\ OnceIsEnough)'
<1> SUFFICES ASSUME Inv, [Next]_vars
             PROVE  (ConsentIsCurrent /\ VoidIsInvalidated /\ OnceIsEnough)'
  OBVIOUS
<1> USE NoneAssumption DEF Inv, ConsentIsCurrent, VoidIsInvalidated, OnceIsEnough
<1>1. ASSUME NEW p \in Proposers, NEW requests \in Requests, NEW trx \in Trxs,
             propose(p, requests, trx)
      PROVE  (ConsentIsCurrent /\ VoidIsInvalidated /\ OnceIsEnough)'
  <2>1. \A a \in Actors : consent[p][a] = None
    BY <1>1 DEF propose, TypeOK
  <2> QED
    BY <1>1, <2>1 DEF propose, NoApprovals, TypeOK
<1>2. ASSUME NEW p \in Proposers, NEW level \in Actors, NEW hash \in Trxs \cup {None},
             approve(p, level, hash)
      PROVE  (ConsentIsCurrent /\ VoidIsInvalidated /\ OnceIsEnough)'
  <2>1. UNCHANGED <<proposal, invalidated>> /\ proposal[p] # None
    BY <1>2 DEF approve, ApprovalsComplete
  <2>2. ConsentIsCurrent' /\ VoidIsInvalidated'
    BY <1>2, <2>1, Approves DEF Untouched
  <2>3. ASSUME NEW q \in Proposers, NEW a \in withdrawn'[q], asked'[q][a] = 1
        PROVE  provided'[q][a] = <<>>
    <3>0. a \in Actors
      BY TypeStep DEF TypeOK
    <3>1. CASE q = p /\ a = level
      BY <1>2, <3>1, <2>3, Approves
    <3>2. CASE <<q, a>> # <<p, level>>
      BY <1>2, <3>0, <3>2, <2>3, Approves DEF Untouched
    <3> QED
      BY <3>1, <3>2
  <2> QED
    BY <2>2, <2>3
<1>3. ASSUME NEW p \in Proposers, NEW level \in Actors, unapprove(p, level)
      PROVE  (ConsentIsCurrent /\ VoidIsInvalidated /\ OnceIsEnough)'
  <2>1. UNCHANGED <<proposal, invalidated>>
    BY <1>3 DEF unapprove
  <2>2. ConsentIsCurrent' /\ VoidIsInvalidated'
    BY <1>3, <2>1, Unapproves DEF Untouched
  <2>3. asked[p][level] = 1 => provided'[p][level] = <<>>
    <3>1. /\ requested[p][level] \in Nat /\ Len(provided[p][level]) \in Nat
          /\ provided'[p][level] \in Seq(0 .. now')
          /\ requested[p][level] + Len(provided[p][level]) = asked[p][level]
      BY TypeStep DEF TypeOK, ApprovalsComplete
    <3>2. Len(provided'[p][level]) = Len(provided[p][level]) - 1
      BY <1>3, Unapproves
    <3> QED
      BY <3>1, <3>2
  <2>4. ASSUME NEW q \in Proposers, NEW a \in withdrawn'[q], asked'[q][a] = 1
        PROVE  provided'[q][a] = <<>>
    <3>0. a \in Actors
      BY TypeStep DEF TypeOK
    <3>1. CASE q = p /\ a = level
      BY <1>3, <2>3, <3>1, <2>4, Unapproves
    <3>2. CASE <<q, a>> # <<p, level>>
      BY <1>3, <3>0, <3>2, <2>4, Unapproves DEF Untouched
    <3> QED
      BY <3>1, <3>2
  <2> QED
    BY <2>2, <2>4
<1>4. ASSUME NEW p \in Proposers, Erase(p), UNCHANGED invalidated
      PROVE  (ConsentIsCurrent /\ VoidIsInvalidated /\ OnceIsEnough)'
  <2>1. ASSUME NEW q \in Proposers, NEW a \in Actors
        PROVE  /\ consent'[q][a] # None => consent'[q][a] = proposal'[q]
               /\ consent'[q][a] = None =>
                     \A i \in DOMAIN provided'[q][a] : provided'[q][a][i] <= invalidated'[a]
               /\ a \in withdrawn'[q] /\ asked'[q][a] = 1 => provided'[q][a] = <<>>
    <3>1. CASE q = p
      BY <1>4, <3>1, Erases
    <3>2. CASE q # p
      BY <1>4, <3>2, Erases DEF Untouched
    <3> QED
      BY <3>1, <3>2
  <2>2. \A q \in Proposers : withdrawn'[q] \subseteq Actors
    BY TypeStep DEF TypeOK
  <2> QED
    BY <2>1, <2>2
<1>5. ASSUME NEW account \in Actors, invalidate(account)
      PROVE  (ConsentIsCurrent /\ VoidIsInvalidated /\ OnceIsEnough)'
  <2>1. \A p \in Proposers, a \in Actors : \A i \in DOMAIN provided[p][a] : provided[p][a][i] <= now
    BY DEF TypeOK
  <2> QED
    BY <1>5, <2>1 DEF invalidate, tables, TypeOK
<1>6. ASSUME UNCHANGED <<tables, invalidated, history>>
      PROVE  (ConsentIsCurrent /\ VoidIsInvalidated /\ OnceIsEnough)'
  BY <1>6 DEF tables, history
<1> QED
  BY <1>1, <1>2, <1>3, <1>4, <1>5, <1>6 DEF Next, vars, cancel, exec, Deliver, Tick

-----------------------------------------------------------------------------
\* The tables keep their types, and no time in them is in the future.
THEOREM TypeCorrect == Spec => []TypeOK
  BY InitType, TypeStep, PTL DEF Spec

\* The inductive invariant.
THEOREM Inductive == Spec => []Inv
<1>1. Init => Inv
  <2> SUFFICES ASSUME Init PROVE Inv
    OBVIOUS
  <2>1. TypeOK
    BY InitType
  <2>2. ApprovalsComplete
    BY DEF Init, ApprovalsComplete
  <2> QED
    BY <2>1, <2>2 DEF Init, Inv, ConsentIsCurrent, VoidIsInvalidated, OnceIsEnough
<1>2. Inv /\ [Next]_vars => Inv'
  BY TypeStep, CompleteStep, ConsentStep DEF Inv
<1> QED
  BY <1>1, <1>2, PTL DEF Spec

\* An actor whose approval stands has approved what is proposed, and has not
\* invalidated that approval.
LEMMA StandingConsents ==
    ASSUME Inv, NEW p \in Proposers, NEW a \in Standing(p)
    PROVE  /\ consent[p][a] # None /\ consent[p][a] = proposal[p]
           /\ asked[p][a] = 1 => a \notin withdrawn[p]
<1>1. PICK i \in DOMAIN provided[p][a] :
         invalidated[a] = Never \/ invalidated[a] < provided[p][a][i]
  BY DEF Standing
<1>2. /\ a \in Actors /\ provided[p][a][i] \in Nat /\ invalidated[a] \in Int
      /\ provided[p][a] # <<>>
  BY <1>1 DEF Standing, Inv, TypeOK, Never
<1>3. consent[p][a] # None
  BY <1>1, <1>2 DEF Inv, VoidIsInvalidated, Never
<1> QED
  BY <1>2, <1>3 DEF Inv, ConsentIsCurrent, OnceIsEnough

\* A proposal and its approvals come and go together and none is lost.
THEOREM Complete == Spec => []ApprovalsComplete
<1>1. Inv => ApprovalsComplete
  BY DEF Inv
<1> QED
  BY <1>1, Inductive, PTL

\* An approval that exec counts was given for the transaction proposed now,
\* and after its actor's last invalidation.
THEOREM Matches == Spec => []ApprovalsMatch
<1>1. Inv => ApprovalsMatch
  BY StandingConsents DEF ApprovalsMatch
<1> QED
  BY <1>1, Inductive, PTL

\* A transaction is sent only with the standing consent of all it needs.
THEOREM Consented == Spec => ActsOnConsent
<1>1. Inv /\ [Next]_vars =>
        [\A p \in Proposers : deferred'[p] # deferred[p] /\ deferred'[p] # None =>
            \A a \in Required[deferred'[p]] :
               /\ consent[p][a] = deferred'[p]
               /\ asked[p][a] = 1 => a \notin withdrawn[p]]_vars
  <2> SUFFICES ASSUME Inv, Next,
                      NEW p \in Proposers, deferred'[p] # deferred[p], deferred'[p] # None,
                      NEW a \in Required[deferred'[p]]
               PROVE  /\ consent[p][a] = deferred'[p]
                      /\ asked[p][a] = 1 => a \notin withdrawn[p]
    BY Zenon
  <2>1. exec(p)
    BY DEF Next, Inv, TypeOK, propose, approve, unapprove, cancel, exec, Deliver, invalidate, Tick
  <2>2. deferred'[p] = proposal[p] /\ proposal[p] \in Trxs
    BY <2>1 DEF exec, Inv, TypeOK
  <2>3. a \in Standing(p)
    BY <2>1, <2>2 DEF exec, Authorised
  <2> QED
    BY <2>2, <2>3, StandingConsents
<1> QED
  BY <1>1, Inductive, PTL DEF Spec, ActsOnConsent
=============================================================================
