---------------------- MODULE DelegateBandwidthProofs ----------------------
(***************************************************************************)
(* The invariants of staking, for any number of accounts and any amounts.  *)
(* Everything that moves stake goes through changebw, so the proof first   *)
(* says what a step of changebw does (Effect), and shows that an effect    *)
(* keeps each part of the invariant.                                       *)
(***************************************************************************)
EXTENDS DelegateBandwidth, FunSumsProofs

\* The deltas of delegatebw and undelegatebw.
Deltas == {d \in [Kinds -> Int] : (\A k \in Kinds : d[k] >= 0) \/ (\A k \in Kinds : d[k] <= 0)}

\* What changebw does to the tables: the refund row keeps "keeps", the payer
\* pays "pays", and together they absorb the change of the stake.
Effect(payer, owner, receiver, delta, keeps, pays) ==
    /\ \A k \in Kinds : keeps[k] - refund_due[k][owner] = pays[k] - delta[k]
    /\ \A k \in Kinds : 0 <= dbw[k][owner][receiver] + delta[k]
    /\ \A k \in Kinds : 0 <= weight[k][receiver] + delta[k]
    /\ 0 <= staked[owner] + (delta["net"] + delta["cpu"])
    /\ owner = B1 => B1Locked <= staked[owner] + (delta["net"] + delta["cpu"])
    /\ pays["net"] + pays["cpu"] <= own[payer]
    /\ dbw' = [k \in Kinds |-> [dbw[k] EXCEPT ![owner] =
                 [dbw[k][owner] EXCEPT ![receiver] = dbw[k][owner][receiver] + delta[k]]]]
    /\ weight' = [k \in Kinds |-> [weight[k] EXCEPT ![receiver] = weight[k][receiver] + delta[k]]]
    /\ limit' = [k \in Kinds |-> NewLimit(k, receiver, weight[k][receiver] + delta[k])]
    /\ refund_due' = [k \in Kinds |-> [refund_due[k] EXCEPT ![owner] = keeps[k]]]
    /\ own' = [own EXCEPT ![payer] = own[payer] - (pays["net"] + pays["cpu"])]
    /\ stake_balance' = stake_balance + (pays["net"] + pays["cpu"])
    /\ staked' = [staked EXCEPT ![owner] = staked[owner] + (delta["net"] + delta["cpu"])]
    /\ request_time' \in {request_time, [request_time EXCEPT ![owner] = now]}
    /\ (\E k \in Kinds : delta[k] < 0) => request_time' = [request_time EXCEPT ![owner] = now]
    /\ deferred' = [deferred EXCEPT ![owner] = Due(owner)] \/ deferred' = [deferred EXCEPT ![owner] = None]
    /\ UNCHANGED <<now, activated, managed>>

\* The refund row and the payer together cover the change of one kind of stake.
LEMMA RowAndPayer ==
  ASSUME NEW due \in Nat, NEW d \in Int
  PROVE  /\ Remaining(due, d) \in Nat /\ Missing(due, d) \in Nat
         /\ Remaining(due, d) - due = Missing(due, d) - d
BY DEF Remaining, Missing

\* Every step of changebw has such an effect.
LEMMA ChangebwEffect ==
  ASSUME TypeOK, NEW payer \in Names, NEW owner \in Names, NEW receiver \in Names,
         NEW delta \in Deltas, NEW transfer \in BOOLEAN,
         changebw(payer, owner, receiver, delta, transfer)
  PROVE  \E keeps \in [Kinds -> Nat], pays \in [Kinds -> Nat] :
            Effect(payer, owner, receiver, delta, keeps, pays)
<1> DEFINE uses_refund == \/ ~ transfer /\ owner = receiver
                          \/ delta["net"] + delta["cpu"] < 0
           keeps == [k \in Kinds |-> IF uses_refund THEN Remaining(refund_due[k][owner], delta[k])
                                     ELSE refund_due[k][owner]]
           pays == [k \in Kinds |-> IF uses_refund THEN Missing(refund_due[k][owner], delta[k])
                                    ELSE delta[k]]
<1>1. /\ \A k \in Kinds : refund_due[k][owner] \in Nat /\ delta[k] \in Int
      /\ "net" \in Kinds /\ "cpu" \in Kinds
  BY DEF TypeOK, Deltas, Kinds
<1>2. ~ uses_refund => \A k \in Kinds : delta[k] \in Nat
  BY <1>1 DEF Deltas, Kinds
<1>3. /\ keeps \in [Kinds -> Nat] /\ pays \in [Kinds -> Nat]
      /\ \A k \in Kinds : keeps[k] - refund_due[k][owner] = pays[k] - delta[k]
  <2>1. CASE uses_refund
    BY <2>1, <1>1, RowAndPayer
  <2>2. CASE ~ uses_refund
    BY <2>2, <1>1, <1>2
  <2> QED BY <2>1, <2>2
<1> DEFINE paid == (IF uses_refund THEN Missing(refund_due["net"][owner], delta["net"]) ELSE delta["net"])
                   + (IF uses_refund THEN Missing(refund_due["cpu"][owner], delta["cpu"]) ELSE delta["cpu"])
<1>4. pays["net"] + pays["cpu"] = paid
  BY <1>1
<1>5. (\E k \in Kinds : delta[k] < 0) => uses_refund
  BY <1>1, <1>2
<1>6. /\ own' = [own EXCEPT ![payer] = own[payer] - (pays["net"] + pays["cpu"])]
      /\ stake_balance' = stake_balance + (pays["net"] + pays["cpu"])
      /\ pays["net"] + pays["cpu"] <= own[payer]
  <2>1. /\ own' = [own EXCEPT ![payer] = own[payer] - paid]
        /\ stake_balance' = stake_balance + paid
        /\ paid <= own[payer]
    BY DEF changebw
  <2> HIDE DEF paid, pays
  <2> QED BY <1>4, <2>1
<1>7. refund_due' = [k \in Kinds |-> [refund_due[k] EXCEPT ![owner] = keeps[k]]]
  BY DEF changebw
<1>8. /\ \A k \in Kinds : 0 <= dbw[k][owner][receiver] + delta[k]
      /\ \A k \in Kinds : 0 <= weight[k][receiver] + delta[k]
      /\ 0 <= staked[owner] + (delta["net"] + delta["cpu"])
      /\ owner = B1 => B1Locked <= staked[owner] + (delta["net"] + delta["cpu"])
      /\ dbw' = [k \in Kinds |-> [dbw[k] EXCEPT ![owner] =
                   [dbw[k][owner] EXCEPT ![receiver] = dbw[k][owner][receiver] + delta[k]]]]
      /\ weight' = [k \in Kinds |-> [weight[k] EXCEPT ![receiver] = weight[k][receiver] + delta[k]]]
      /\ limit' = [k \in Kinds |-> NewLimit(k, receiver, weight[k][receiver] + delta[k])]
      /\ staked' = [staked EXCEPT ![owner] = staked[owner] + (delta["net"] + delta["cpu"])]
      /\ UNCHANGED <<now, activated, managed>>
  BY DEF changebw, NewDelband, Vested
<1>9. request_time' = IF uses_refund
                      THEN [request_time EXCEPT ![owner] = RequestTime(owner, delta)]
                      ELSE request_time
  BY DEF changebw
<1>10. /\ request_time' \in {request_time, [request_time EXCEPT ![owner] = now]}
       /\ (\E k \in Kinds : delta[k] < 0) => request_time' = [request_time EXCEPT ![owner] = now]
  <2> HIDE DEF uses_refund
  <2>1. RequestTime(owner, delta) = (IF \E k \in Kinds : delta[k] < 0 THEN now ELSE request_time[owner])
    BY DEF RequestTime
  <2>2. [request_time EXCEPT ![owner] = request_time[owner]] = request_time
    BY DEF TypeOK
  <2> QED BY <1>5, <1>9, <2>1, <2>2
<1>11. deferred' = [deferred EXCEPT ![owner] = Due(owner)] \/ deferred' = [deferred EXCEPT ![owner] = None]
  BY DEF changebw
<1> HIDE DEF keeps, pays
<1>12. Effect(payer, owner, receiver, delta, keeps, pays)
  BY <1>3, <1>6, <1>7, <1>8, <1>10, <1>11 DEF Effect
<1> QED BY <1>3, <1>12
-----------------------------------------------------------------------------
(* Types.                                                                  *)

\* An effect keeps the types; what undelegatebw records is its own matter.
LEMMA EffectKeepsTypes ==
  ASSUME TypeOK, last_unstake' \in [Names -> Nat],
         NEW payer \in Names, NEW owner \in Names, NEW receiver \in Names,
         NEW delta \in Deltas, NEW keeps \in [Kinds -> Nat], NEW pays \in [Kinds -> Nat],
         Effect(payer, owner, receiver, delta, keeps, pays)
  PROVE  TypeOK'
<1>1. /\ \A k \in Kinds : delta[k] \in Int /\ keeps[k] \in Nat /\ pays[k] \in Nat
      /\ "net" \in Kinds /\ "cpu" \in Kinds
  BY DEF Deltas, Kinds
<1>2. now' \in Nat /\ activated' \in BOOLEAN /\ managed' \in [Kinds -> SUBSET Names]
  BY DEF TypeOK, Effect
<1>3. own' \in [Names -> Nat] /\ stake_balance' \in Nat
  <2>1. own[payer] - (pays["net"] + pays["cpu"]) \in Nat
    BY <1>1 DEF TypeOK, Effect
  <2> QED BY <1>1, <2>1 DEF TypeOK, Effect
<1>4. dbw' \in [Kinds -> [Names -> [Names -> Nat]]]
  <2>1. \A k \in Kinds : dbw[k][owner][receiver] + delta[k] \in Nat
    BY <1>1 DEF TypeOK, Effect
  <2> QED BY <2>1 DEF TypeOK, Effect
<1>5. weight' \in [Kinds -> [Names -> Nat]]
  <2>1. \A k \in Kinds : weight[k][receiver] + delta[k] \in Nat
    BY <1>1 DEF TypeOK, Effect
  <2> QED BY <2>1 DEF TypeOK, Effect
<1>6. limit' \in [Kinds -> [Names -> Int]]
  <2>1. \A k \in Kinds : NewLimit(k, receiver, weight[k][receiver] + delta[k]) \in [Names -> Int]
    BY <1>1 DEF TypeOK, NewLimit
  <2> QED BY <2>1 DEF Effect
<1>7. staked' \in [Names -> Nat]
  <2>1. staked[owner] + (delta["net"] + delta["cpu"]) \in Nat
    BY <1>1 DEF TypeOK, Effect
  <2> QED BY <2>1 DEF TypeOK, Effect
<1>8. refund_due' \in [Kinds -> [Names -> Nat]]
  BY <1>1 DEF TypeOK, Effect
<1>9. request_time' \in [Names -> Nat]
  BY DEF TypeOK, Effect
<1>10. deferred' \in [Names -> Nat \cup {None}]
  <2>1. Due(owner) \in Nat
    BY DelayAssumption DEF TypeOK, Due
  <2> QED BY <2>1 DEF TypeOK, Effect
<1> QED BY <1>2, <1>3, <1>4, <1>5, <1>6, <1>7, <1>8, <1>9, <1>10 DEF TypeOK

\* Paying a refund row out keeps the types.
LEMMA PayRefundKeepsTypes ==
  ASSUME TypeOK, NEW owner \in Names, PayRefund(owner), deferred' \in [Names -> Nat \cup {None}]
  PROVE  TypeOK'
<1>1. /\ refund_due["net"][owner] \in Nat /\ refund_due["cpu"][owner] \in Nat
      /\ own[owner] \in Nat /\ stake_balance \in Nat
  BY DEF TypeOK, Kinds
<1>2. own' \in [Names -> Nat] /\ stake_balance' \in Nat
  BY <1>1 DEF TypeOK, PayRefund
<1>3. refund_due' \in [Kinds -> [Names -> Nat]]
  BY DEF TypeOK, PayRefund
<1> QED BY <1>2, <1>3 DEF TypeOK, PayRefund, resources

\* The deltas of the two actions are deltas that changebw accepts.
LEMMA DelegateDelta ==
  ASSUME NEW net \in Amounts, NEW cpu \in Amounts
  PROVE  /\ [k \in Kinds |-> IF k = "net" THEN net ELSE cpu] \in Deltas
         /\ [k \in Kinds |-> IF k = "net" THEN -net ELSE -cpu] \in Deltas
BY AmountsAssumption DEF Deltas, Kinds

\* The steps of the staking actions, with their effects.
LEMMA StakingSteps ==
  ASSUME TypeOK, NEW from \in Names, NEW receiver \in Names, NEW net \in Amounts, NEW cpu \in Amounts,
         NEW transfer \in BOOLEAN
  PROVE  /\ delegatebw(from, receiver, net, cpu, transfer) =>
               \E owner \in Names, delta \in Deltas, keeps \in [Kinds -> Nat], pays \in [Kinds -> Nat] :
                  Effect(from, owner, receiver, delta, keeps, pays) /\ UNCHANGED last_unstake
         /\ undelegatebw(from, receiver, net, cpu) =>
               \E delta \in Deltas, keeps \in [Kinds -> Nat], pays \in [Kinds -> Nat] :
                  /\ Effect(from, from, receiver, delta, keeps, pays)
                  /\ \E k \in Kinds : delta[k] < 0
                  /\ last_unstake' = [last_unstake EXCEPT ![from] = now]
<1> DEFINE owner == IF transfer THEN receiver ELSE from
           plus == [k \in Kinds |-> IF k = "net" THEN net ELSE cpu]
           minus == [k \in Kinds |-> IF k = "net" THEN -net ELSE -cpu]
<1>1. owner \in Names /\ plus \in Deltas /\ minus \in Deltas
  BY DelegateDelta
<1>2. ASSUME delegatebw(from, receiver, net, cpu, transfer)
      PROVE  \E keeps \in [Kinds -> Nat], pays \in [Kinds -> Nat] :
                Effect(from, owner, receiver, plus, keeps, pays) /\ UNCHANGED last_unstake
  <2>1. changebw(from, owner, receiver, plus, transfer) /\ UNCHANGED last_unstake
    BY <1>2 DEF delegatebw
  <2> HIDE DEF plus, owner
  <2> QED BY <1>1, <2>1, ChangebwEffect
<1>3. ASSUME undelegatebw(from, receiver, net, cpu)
      PROVE  /\ \E keeps \in [Kinds -> Nat], pays \in [Kinds -> Nat] :
                   Effect(from, from, receiver, minus, keeps, pays)
             /\ \E k \in Kinds : minus[k] < 0
             /\ last_unstake' = [last_unstake EXCEPT ![from] = now]
  <2>1. /\ changebw(from, from, receiver, minus, FALSE)
        /\ last_unstake' = [last_unstake EXCEPT ![from] = now]
    BY <1>3 DEF undelegatebw
  <2>2. minus["net"] + minus["cpu"] # 0
    BY <2>1 DEF changebw
  <2>3. \E k \in Kinds : minus[k] < 0
    <3>1. minus["net"] = -net /\ minus["cpu"] = -cpu /\ "net" \in Kinds /\ "cpu" \in Kinds
      BY DEF Kinds
    <3>2. net \in Nat /\ cpu \in Nat
      BY AmountsAssumption
    <3> HIDE DEF minus
    <3> QED BY <2>2, <3>1, <3>2
  <2> HIDE DEF minus
  <2> QED BY <1>1, <2>1, <2>3, ChangebwEffect
<1> HIDE DEF plus, minus, owner
<1> QED BY <1>1, <1>2, <1>3

\* Every table keeps its type, and no amount is ever negative.
THEOREM TypeCorrect == Spec => []TypeOK
<1>1. Init => TypeOK
  <2> SUFFICES ASSUME Init PROVE TypeOK
    OBVIOUS
  <2> USE AmountsAssumption, B1Assumption
  <2>1. own \in [Names -> Nat] /\ staked \in [Names -> Nat] /\ stake_balance \in Nat
    BY DEF Init
  <2>2. dbw \in [Kinds -> [Names -> [Names -> Nat]]]
    BY DEF Init
  <2>3. weight \in [Kinds -> [Names -> Nat]]
    BY DEF Init
  <2>4. limit \in [Kinds -> [Names -> Int]]
    <3>1. limit = weight
      BY DEF Init
    <3>2. \A k \in Kinds : weight[k] \in [Names -> Int]
      BY <2>3
    <3> QED BY <3>1, <3>2, <2>3
  <2>5. managed \in [Kinds -> SUBSET Names] /\ refund_due \in [Kinds -> [Names -> Nat]]
    BY DEF Init
  <2>6. request_time \in [Names -> Nat] /\ last_unstake \in [Names -> Nat]
        /\ deferred \in [Names -> Nat \cup {None}] /\ now \in Nat /\ activated \in BOOLEAN
    BY DEF Init
  <2> QED BY <2>1, <2>2, <2>3, <2>4, <2>5, <2>6 DEF TypeOK
<1>2. TypeOK /\ [Next]_vars => TypeOK'
  <2> SUFFICES ASSUME TypeOK, [Next]_vars PROVE TypeOK'
    OBVIOUS
  <2>1. CASE UNCHANGED vars
    BY <2>1 DEF TypeOK, vars, resources, refunds
  <2>2. ASSUME NEW from \in Names, NEW receiver \in Names, NEW net \in Amounts,
               NEW cpu \in Amounts, NEW transfer \in BOOLEAN,
               \/ delegatebw(from, receiver, net, cpu, transfer)
               \/ undelegatebw(from, receiver, net, cpu)
        PROVE  TypeOK'
    <3>1. PICK owner \in Names, delta \in Deltas, keeps \in [Kinds -> Nat], pays \in [Kinds -> Nat] :
             /\ Effect(from, owner, receiver, delta, keeps, pays)
             /\ last_unstake' \in {last_unstake, [last_unstake EXCEPT ![from] = now]}
      BY <2>2, StakingSteps
    <3>2. last_unstake' \in [Names -> Nat]
      BY <3>1 DEF TypeOK
    <3> QED BY <3>1, <3>2, EffectKeepsTypes
  <2>3. ASSUME NEW owner \in Names, refund(owner) \/ Deliver(owner) PROVE TypeOK'
    <3>1. PayRefund(owner) /\ deferred' \in {deferred, [deferred EXCEPT ![owner] = None]}
      BY <2>3 DEF refund, Deliver
    <3>2. deferred' \in [Names -> Nat \cup {None}]
      BY <3>1 DEF TypeOK
    <3> QED BY <3>1, <3>2, PayRefundKeepsTypes
  <2>4. ASSUME NEW owner \in Names, Drop(owner) PROVE TypeOK'
    BY <2>4 DEF TypeOK, Drop, resources
  <2>5. ASSUME NEW k \in Kinds, NEW account \in Names, NEW value \in Limits,
               ManageLimit(k, account, value)
        PROVE  TypeOK'
    BY <2>5, LimitsAssumption DEF TypeOK, ManageLimit, refunds
  <2>6. ASSUME NEW k \in Kinds, NEW account \in Names, UnmanageLimit(k, account) PROVE TypeOK'
    BY <2>6 DEF TypeOK, UnmanageLimit, refunds
  <2>7. CASE Activate
    BY <2>7 DEF TypeOK, Activate, resources, refunds
  <2>8. CASE Tick
    BY <2>8 DEF TypeOK, Tick, resources, refunds
  <2> QED BY <2>1, <2>2, <2>3, <2>4, <2>5, <2>6, <2>7, <2>8 DEF Next
<1> QED BY <1>1, <1>2, PTL DEF Spec

-----------------------------------------------------------------------------
(* Sums.                                                                   *)

\* A function to the naturals is one to the integers.
LEMMA NatsAreInts ==
  ASSUME NEW S, NEW f \in [S -> Nat]
  PROVE  f \in [S -> Int]
OBVIOUS

\* What a row of delband and a refund row add up to are numbers.
LEMMA SumsAreInts ==
  ASSUME TypeOK
  PROVE  /\ N \in Nat /\ Names = 1 .. N
         /\ \A a \in Names : Delegated(a) \in Int /\ InRefund(a) \in Int
<1>1. N \in Nat /\ Names = 1 .. N
  BY NAssumption DEF Names
<1>2. \A k \in Kinds, a \in Names : dbw[k][a] \in [1 .. N -> Int]
  <2>1. \A k \in Kinds, a \in Names : dbw[k][a] \in [1 .. N -> Nat]
    BY DEF TypeOK, Names
  <2> QED BY <2>1, NatsAreInts
<1>3. \A k \in Kinds, a \in Names : Sum(dbw[k][a]) \in Int
  BY <1>1, <1>2, SumToInt DEF Sum
<1>4. "net" \in Kinds /\ "cpu" \in Kinds
  BY DEF Kinds
<1>5. \A a \in Names : Delegated(a) \in Int
  BY <1>3, <1>4 DEF Delegated
<1>6. \A a \in Names : InRefund(a) \in Int
  BY <1>4 DEF InRefund, TypeOK
<1> QED BY <1>1, <1>5, <1>6

\* The same after a step.
LEMMA SumsAreIntsNext ==
  ASSUME TypeOK'
  PROVE  \A a \in Names : Delegated(a)' + InRefund(a)' \in Int
<1>1. N \in Nat /\ Names = 1 .. N /\ "net" \in Kinds /\ "cpu" \in Kinds
  BY NAssumption DEF Names, Kinds
<1>2. dbw' \in [Kinds -> [Names -> [Names -> Nat]]] /\ refund_due' \in [Kinds -> [Names -> Nat]]
  BY DEF TypeOK
<1>3. \A k \in Kinds, a \in Names : dbw'[k][a] \in [1 .. N -> Int]
  <2>1. \A k \in Kinds, a \in Names : dbw'[k][a] \in [1 .. N -> Nat]
    BY <1>1, <1>2
  <2> QED BY <2>1, NatsAreInts
<1>4. \A k \in Kinds, a \in Names : SumTo(dbw'[k][a], N) \in Int
  BY <1>1, <1>3, SumToInt
<1> SUFFICES ASSUME NEW a \in Names PROVE Delegated(a)' + InRefund(a)' \in Int
  OBVIOUS
<1>5. Delegated(a)' \in Int
  BY <1>1, <1>4 DEF Delegated, Sum
<1>6. InRefund(a)' \in Int
  <2>1. refund_due'["net"][a] \in Int /\ refund_due'["cpu"][a] \in Int
    BY <1>1, <1>2
  <2>2. InRefund(a)' = refund_due'["net"][a] + refund_due'["cpu"][a]
    BY DEF InRefund
  <2> QED BY <2>1, <2>2
<1> QED BY <1>5, <1>6

\* An effect changes what its owner delegates by delta, and nobody else's.
LEMMA EffectOnRows ==
  ASSUME TypeOK, TypeOK', NEW payer \in Names, NEW owner \in Names, NEW receiver \in Names,
         NEW delta \in Deltas, NEW keeps \in [Kinds -> Nat], NEW pays \in [Kinds -> Nat],
         Effect(payer, owner, receiver, delta, keeps, pays)
  PROVE  /\ Delegated(owner)' = Delegated(owner) + (delta["net"] + delta["cpu"])
         /\ \A a \in Names : a # owner => Delegated(a)' = Delegated(a)
<1>1. N \in Nat /\ Names = 1 .. N /\ "net" \in Kinds /\ "cpu" \in Kinds
  BY SumsAreInts DEF Kinds
<1>2. \A k \in Kinds : delta[k] \in Int
  BY DEF Deltas
<1>3. \A k \in Kinds, a \in Names : dbw[k][a] \in [1 .. N -> Int] /\ dbw'[k][a] \in [1 .. N -> Int]
  <2>1. \A k \in Kinds, a \in Names : dbw[k][a] \in [1 .. N -> Nat]
    <3>1. dbw \in [Kinds -> [Names -> [Names -> Nat]]]
      BY DEF TypeOK
    <3> QED BY <3>1, <1>1
  <2>2. \A k \in Kinds, a \in Names : dbw'[k][a] \in [1 .. N -> Nat]
    <3>1. dbw' \in [Kinds -> [Names -> [Names -> Nat]]]
      BY DEF TypeOK
    <3> QED BY <3>1, <1>1
  <2> QED BY <2>1, <2>2, NatsAreInts
<1>4. \A k \in Kinds, a \in Names : a # owner => dbw'[k][a] = dbw[k][a]
  BY DEF TypeOK, Effect
<1>5. \A k \in Kinds : /\ dbw'[k][owner][receiver] = dbw[k][owner][receiver] + delta[k]
                       /\ \A b \in Names : b # receiver => dbw'[k][owner][b] = dbw[k][owner][b]
  BY DEF TypeOK, Effect
<1>6. \A k \in Kinds : SumTo(dbw'[k][owner], N) = SumTo(dbw[k][owner], N) + delta[k]
  <2> SUFFICES ASSUME NEW k \in Kinds
               PROVE  SumTo(dbw'[k][owner], N) = SumTo(dbw[k][owner], N) + delta[k]
    OBVIOUS
  <2> DEFINE f == dbw[k][owner]  g == dbw'[k][owner]
  <2>1. /\ f \in [1 .. N -> Int] /\ g \in [1 .. N -> Int] /\ receiver \in 1 .. N
        /\ delta[k] \in Int /\ g[receiver] = f[receiver] + delta[k]
        /\ \A b \in 1 .. N : b # receiver => g[b] = f[b]
    BY <1>1, <1>2, <1>3, <1>5
  <2> HIDE DEF f, g
  <2>2. SumTo(g, N) = SumTo(f, N) + delta[k]
    BY <1>1, <2>1, SumToAdd
  <2> QED BY <2>2 DEF f, g
<1>7. \A k \in Kinds : SumTo(dbw[k][owner], N) \in Int
  BY <1>1, <1>3, SumToInt
<1>8. Delegated(owner)' = SumTo(dbw'["net"][owner], N) + SumTo(dbw'["cpu"][owner], N)
  BY DEF Delegated, Sum
<1>9. Delegated(owner) = SumTo(dbw["net"][owner], N) + SumTo(dbw["cpu"][owner], N)
  BY DEF Delegated, Sum
<1>10. Delegated(owner)' = Delegated(owner) + (delta["net"] + delta["cpu"])
  <2>1. delta["net"] \in Int /\ delta["cpu"] \in Int
    BY <1>1, <1>2
  <2>2. /\ SumTo(dbw'["net"][owner], N) = SumTo(dbw["net"][owner], N) + delta["net"]
        /\ SumTo(dbw'["cpu"][owner], N) = SumTo(dbw["cpu"][owner], N) + delta["cpu"]
        /\ SumTo(dbw["net"][owner], N) \in Int /\ SumTo(dbw["cpu"][owner], N) \in Int
    BY <1>1, <1>6, <1>7
  <2> QED BY <1>8, <1>9, <2>1, <2>2
<1>11. \A a \in Names : a # owner => Delegated(a)' = Delegated(a)
  BY <1>1, <1>4 DEF Delegated, Sum
<1> QED BY <1>10, <1>11

\* The three records of the stake stay equal.
LEMMA EffectKeepsTablesAgree ==
  ASSUME TypeOK, TypeOK', TablesAgree,
         NEW payer \in Names, NEW owner \in Names, NEW receiver \in Names,
         NEW delta \in Deltas, NEW keeps \in [Kinds -> Nat], NEW pays \in [Kinds -> Nat],
         Effect(payer, owner, receiver, delta, keeps, pays)
  PROVE  TablesAgree'
<1>1. N \in Nat /\ Names = 1 .. N
  BY SumsAreInts
<1>2. ASSUME NEW k \in Kinds, NEW b \in Names
      PROVE  weight'[k][b] = SumTo([a \in Names |-> dbw'[k][a][b]], N)
  <2> DEFINE column == [a \in Names |-> dbw[k][a][b]]
             column2 == [a \in Names |-> dbw'[k][a][b]]
  <2>1. column \in [1 .. N -> Int] /\ column2 \in [1 .. N -> Int] /\ delta[k] \in Int
    <3>1. \A a \in Names : dbw[k][a][b] \in Int /\ dbw'[k][a][b] \in Int
      BY DEF TypeOK
    <3> QED BY <1>1, <3>1 DEF Deltas
  <2>2. weight[k][b] = SumTo(column, N)
    BY DEF TablesAgree, Sum
  <2>3. \A a \in Names : a # owner => column2[a] = column[a]
    BY DEF TypeOK, Effect
  <2>4. CASE b = receiver
    <3>1. column2[owner] = column[owner] + delta[k]
      BY <2>4 DEF TypeOK, Effect
    <3>2. weight'[k][b] = weight[k][b] + delta[k]
      BY <2>4 DEF TypeOK, Effect
    <3> HIDE DEF column, column2
    <3>3. SumTo(column2, N) = SumTo(column, N) + delta[k]
      BY <1>1, <2>1, <2>3, <3>1, SumToAdd
    <3> QED BY <2>2, <3>2, <3>3 DEF column2
  <2>5. CASE b # receiver
    <3>1. column2[owner] = column[owner]
      BY <2>5 DEF TypeOK, Effect
    <3>2. weight'[k][b] = weight[k][b]
      BY <2>5 DEF TypeOK, Effect
    <3> HIDE DEF column, column2
    <3>3. SumTo(column2, N) = SumTo(column, N)
      BY <1>1, <2>1, <2>3, <3>1, SumToSame
    <3> QED BY <2>2, <3>2, <3>3 DEF column2
  <2> QED BY <2>4, <2>5
<1>3. ASSUME NEW a \in Names PROVE staked'[a] = Delegated(a)'
  <2>1. staked[a] = Delegated(a) /\ Delegated(a) \in Int
    BY SumsAreInts DEF TablesAgree
  <2>2. /\ a = owner => staked'[a] = staked[a] + (delta["net"] + delta["cpu"])
        /\ a # owner => staked'[a] = staked[a]
    BY DEF TypeOK, Effect
  <2> QED BY <2>1, <2>2, EffectOnRows
<1> QED BY <1>2, <1>3 DEF TablesAgree, Sum

\* The tokens of eosio.stake follow what is delegated and what is refunded.
LEMMA EffectKeepsBacked ==
  ASSUME TypeOK, TypeOK', StakeBacked,
         NEW payer \in Names, NEW owner \in Names, NEW receiver \in Names,
         NEW delta \in Deltas, NEW keeps \in [Kinds -> Nat], NEW pays \in [Kinds -> Nat],
         Effect(payer, owner, receiver, delta, keeps, pays)
  PROVE  StakeBacked'
<1> DEFINE f == [a \in Names |-> Delegated(a) + InRefund(a)]
           g == [a \in Names |-> Delegated(a)' + InRefund(a)']
           paid == pays["net"] + pays["cpu"]
<1>1. N \in Nat /\ Names = 1 .. N /\ "net" \in Kinds /\ "cpu" \in Kinds
  BY SumsAreInts DEF Kinds
<1>2. \A a \in Names : Delegated(a) \in Int /\ InRefund(a) \in Int
  BY SumsAreInts
<1>3. \A a \in Names : a # owner => Delegated(a)' = Delegated(a) /\ InRefund(a)' = InRefund(a)
  <2>1. \A k \in Kinds, a \in Names : a # owner => refund_due'[k][a] = refund_due[k][a]
    BY DEF TypeOK, Effect
  <2>2. \A a \in Names : a # owner => InRefund(a)' = InRefund(a)
    BY <1>1, <2>1 DEF InRefund
  <2> QED BY <2>2, EffectOnRows
<1>4. Delegated(owner)' + InRefund(owner)' = (Delegated(owner) + InRefund(owner)) + paid
  <2>1. Delegated(owner)' = Delegated(owner) + (delta["net"] + delta["cpu"])
    BY EffectOnRows
  <2>2. InRefund(owner)' = keeps["net"] + keeps["cpu"]
    <3>1. \A k \in Kinds : refund_due'[k][owner] = keeps[k]
      BY DEF TypeOK, Effect
    <3> QED BY <1>1, <3>1 DEF InRefund
  <2>3. /\ keeps["net"] - refund_due["net"][owner] = pays["net"] - delta["net"]
        /\ keeps["cpu"] - refund_due["cpu"][owner] = pays["cpu"] - delta["cpu"]
    BY <1>1 DEF Effect
  <2>4. /\ delta["net"] \in Int /\ delta["cpu"] \in Int
        /\ keeps["net"] \in Nat /\ keeps["cpu"] \in Nat /\ pays["net"] \in Nat /\ pays["cpu"] \in Nat
        /\ refund_due["net"][owner] \in Nat /\ refund_due["cpu"][owner] \in Nat
    BY <1>1 DEF TypeOK, Deltas
  <2>5. InRefund(owner) = refund_due["net"][owner] + refund_due["cpu"][owner]
    BY DEF InRefund
  <2> QED BY <1>2, <2>1, <2>2, <2>3, <2>4, <2>5
<1>5. f \in [1 .. N -> Int] /\ paid \in Int
  <2>1. paid \in Int
    BY <1>1
  <2>2. \A a \in Names : Delegated(a) + InRefund(a) \in Int
    BY <1>2
  <2> QED BY <1>1, <2>1, <2>2
<1>6. g \in [1 .. N -> Int] /\ g[owner] = f[owner] + paid /\ \A a \in 1 .. N : a # owner => g[a] = f[a]
  <2>1. \A a \in Names : Delegated(a)' + InRefund(a)' \in Int
    BY SumsAreIntsNext, Zenon
  <2>2. g \in [1 .. N -> Int]
    BY <1>1, <2>1
  <2>3. g[owner] = f[owner] + paid
    BY <1>4
  <2>4. \A a \in 1 .. N : a # owner => g[a] = f[a]
    BY <1>1, <1>3
  <2> QED BY <2>2, <2>3, <2>4
<1>7. stake_balance' = stake_balance + paid
  BY DEF Effect
<1>8. stake_balance = SumTo(f, N) /\ (StakeBacked' <=> stake_balance' = SumTo(g, N))
  BY DEF StakeBacked, Sum
<1> HIDE DEF f, g, paid
<1>9. SumTo(g, N) = SumTo(f, N) + paid
  BY <1>1, <1>5, <1>6, SumToAdd
<1> QED BY <1>7, <1>8, <1>9

\* Paying a refund row out takes from eosio.stake what the row held.
LEMMA PayRefundKeepsBacked ==
  ASSUME TypeOK, StakeBacked, NEW owner \in Names, PayRefund(owner)
  PROVE  StakeBacked'
<1> DEFINE f == [a \in Names |-> Delegated(a) + InRefund(a)]
           g == [a \in Names |-> Delegated(a)' + InRefund(a)']
           paid == - InRefund(owner)
<1>1. N \in Nat /\ Names = 1 .. N /\ "net" \in Kinds /\ "cpu" \in Kinds
  BY SumsAreInts DEF Kinds
<1>2. \A a \in Names : Delegated(a) \in Int /\ InRefund(a) \in Int
  BY SumsAreInts
<1>3. \A a \in Names : Delegated(a)' = Delegated(a)
  BY DEF PayRefund, resources, Delegated, Sum
<1>4. \A a \in Names : InRefund(a)' = IF a = owner THEN 0 ELSE InRefund(a)
  <2>1. \A k \in Kinds, a \in Names : refund_due'[k][a] = IF a = owner THEN 0 ELSE refund_due[k][a]
    BY DEF TypeOK, PayRefund
  <2> QED BY <1>1, <2>1 DEF InRefund
<1>5. f \in [1 .. N -> Int] /\ paid \in Int
  BY <1>1, <1>2
<1>6. g \in [1 .. N -> Int] /\ g[owner] = f[owner] + paid /\ \A a \in 1 .. N : a # owner => g[a] = f[a]
  BY <1>1, <1>2, <1>3, <1>4
<1>7. stake_balance' = stake_balance + paid /\ stake_balance \in Int
  BY <1>1, <1>2 DEF PayRefund, InRefund, TypeOK
<1>8. stake_balance = SumTo(f, N) /\ (StakeBacked' <=> stake_balance' = SumTo(g, N))
  BY DEF StakeBacked, Sum
<1> HIDE DEF f, g, paid
<1>9. SumTo(g, N) = SumTo(f, N) + paid
  BY <1>1, <1>5, <1>6, SumToAdd
<1> QED BY <1>7, <1>8, <1>9

-----------------------------------------------------------------------------
(* The invariant: the tables agree with each other and with the tokens of  *)
(* eosio.stake, and the timers are in order.                               *)

\* A request is never older than the last undelegation, and never in the future.
Timers == \A a \in Names : last_unstake[a] <= request_time[a] /\ request_time[a] <= now

Inv == StakeBacked /\ TablesAgree /\ LimitsFollowStake /\ Timers /\ DeferredNotEarly

\* At the start only b1 has stake, and it has it with itself.
LEMMA InitSums ==
  ASSUME Init
  PROVE  /\ \A k \in Kinds, a \in Names : Sum(dbw[k][a]) = IF a = B1 THEN B1Stake ELSE 0
         /\ \A k \in Kinds, b \in Names :
               Sum([a \in Names |-> dbw[k][a][b]]) = IF b = B1 THEN B1Stake ELSE 0
<1>1. N \in Nat /\ Names = 1 .. N /\ B1Stake \in Int
  BY NAssumption, B1Assumption DEF Names
<1>2. \A k \in Kinds, a \in Names, b \in Names :
         dbw[k][a][b] = IF a = B1 /\ b = B1 THEN B1Stake ELSE 0
  BY DEF Init
<1>3. \A k \in Kinds, a \in Names : dbw[k][a] \in [1 .. N -> Int]
  BY <1>1 DEF Init
<1>4. ASSUME NEW k \in Kinds, NEW a \in Names
      PROVE  Sum(dbw[k][a]) = IF a = B1 THEN B1Stake ELSE 0
  <2> DEFINE row == dbw[k][a]
  <2>1. /\ \A b \in 1 .. N : row[b] = IF a = B1 /\ b = B1 THEN B1Stake ELSE 0
        /\ row \in [1 .. N -> Int] /\ a \in 1 .. N
    BY <1>1, <1>2, <1>3
  <2> HIDE DEF row
  <2>2. CASE a = B1
    <3>1. row[a] = B1Stake /\ \A b \in 1 .. N : b # a => row[b] = 0
      BY <2>1, <2>2
    <3>2. SumTo(row, N) = B1Stake
      BY <1>1, <2>1, <3>1, SumToSingle
    <3> QED BY <2>2, <3>2 DEF Sum, row
  <2>3. CASE a # B1
    <3>1. SumTo(row, N) = 0
      BY <1>1, <2>1, <2>3, SumToAllZero
    <3> QED BY <2>3, <3>1 DEF Sum, row
  <2> QED BY <2>2, <2>3
<1>5. ASSUME NEW k \in Kinds, NEW b \in Names
      PROVE  Sum([a \in Names |-> dbw[k][a][b]]) = IF b = B1 THEN B1Stake ELSE 0
  <2> DEFINE column == [a \in Names |-> dbw[k][a][b]]
  <2>1. \A a \in 1 .. N : column[a] = IF a = B1 /\ b = B1 THEN B1Stake ELSE 0
    BY <1>1, <1>2
  <2>2. column \in [1 .. N -> Int]
    <3>1. \A a \in Names : dbw[k][a][b] \in Int
      BY <1>1, <1>2
    <3> QED BY <1>1, <3>1
  <2> HIDE DEF column
  <2>3. CASE b = B1
    <3>1. column[b] = B1Stake /\ b \in 1 .. N /\ \A a \in 1 .. N : a # b => column[a] = 0
      BY <1>1, <2>1, <2>3
    <3>2. SumTo(column, N) = B1Stake
      BY <1>1, <2>2, <3>1, SumToSingle
    <3> QED BY <2>3, <3>2 DEF Sum, column
  <2>4. CASE b # B1
    <3>1. SumTo(column, N) = 0
      BY <1>1, <2>1, <2>4, SumToAllZero
    <3> QED BY <2>4, <3>1 DEF Sum, column
  <2> QED BY <2>3, <2>4
<1> QED BY <1>4, <1>5

\* The invariant holds at the start.
LEMMA InitInv ==
  ASSUME Init
  PROVE  Inv
<1>1. /\ N \in Nat /\ Names = 1 .. N /\ B1Stake \in Int /\ "net" \in Kinds /\ "cpu" \in Kinds
      /\ B1 \in 0 .. N
  BY NAssumption, B1Assumption DEF Names, Kinds
<1>2. \A a \in Names : Delegated(a) = IF a = B1 THEN 2 * B1Stake ELSE 0
  BY <1>1, InitSums DEF Delegated
<1>3. \A a \in Names : InRefund(a) = 0
  BY <1>1 DEF Init, InRefund
<1>4. StakeBacked
  <2> DEFINE f == [a \in Names |-> Delegated(a) + InRefund(a)]
  <2>1. \A a \in 1 .. N : f[a] = IF a = B1 THEN 2 * B1Stake ELSE 0
    BY <1>1, <1>2, <1>3
  <2>2. f \in [1 .. N -> Int]
    <3>1. \A a \in Names : Delegated(a) + InRefund(a) \in Int
      BY <1>1, <1>2, <1>3
    <3> QED BY <1>1, <3>1
  <2> HIDE DEF f
  <2>3. CASE B1 = 0
    <3>1. SumTo(f, N) = 0
      BY <1>1, <2>1, <2>3, SumToAllZero
    <3> QED BY <2>3, <3>1 DEF Init, StakeBacked, Sum, f
  <2>4. CASE B1 # 0
    <3>1. B1 \in 1 .. N /\ 2 * B1Stake \in Int
      BY <1>1, <2>4
    <3>2. SumTo(f, N) = 2 * B1Stake
      BY <1>1, <2>1, <2>2, <3>1, SumToSingle
    <3> QED BY <2>4, <3>2 DEF Init, StakeBacked, Sum, f
  <2> QED BY <2>3, <2>4
<1>5. TablesAgree
  <2>1. \A k \in Kinds, b \in Names : weight[k][b] = IF b = B1 THEN B1Stake ELSE 0
    BY DEF Init
  <2>2. \A a \in Names : staked[a] = IF a = B1 THEN 2 * B1Stake ELSE 0
    BY DEF Init
  <2> QED BY <1>2, <2>1, <2>2, InitSums DEF TablesAgree
<1>6. LimitsFollowStake
  BY DEF Init, LimitsFollowStake
<1>7. Timers /\ DeferredNotEarly
  BY DEF Init, Timers, DeferredNotEarly, HasRefund
<1> QED BY <1>4, <1>5, <1>6, <1>7 DEF Inv

\* An effect keeps every limit at its stake, unless the chain manages it.
LEMMA EffectKeepsLimits ==
  ASSUME TypeOK, LimitsFollowStake,
         NEW payer \in Names, NEW owner \in Names, NEW receiver \in Names,
         NEW delta \in Deltas, NEW keeps \in [Kinds -> Nat], NEW pays \in [Kinds -> Nat],
         Effect(payer, owner, receiver, delta, keeps, pays)
  PROVE  LimitsFollowStake'
<1> SUFFICES ASSUME NEW k \in Kinds, NEW b \in Names, b \notin managed[k]
             PROVE  limit'[k][b] = weight'[k][b]
  BY DEF LimitsFollowStake, Effect
<1>1. limit[k][b] = weight[k][b]
  BY DEF LimitsFollowStake
<1>2. limit'[k] = NewLimit(k, receiver, weight[k][receiver] + delta[k])
  BY DEF Effect
<1>3. limit'[k][b] = IF b = receiver THEN weight[k][receiver] + delta[k] ELSE limit[k][b]
  BY <1>2 DEF NewLimit, TypeOK
<1>4. weight'[k][b] = IF b = receiver THEN weight[k][receiver] + delta[k] ELSE weight[k][b]
  BY DEF Effect, TypeOK
<1> QED BY <1>1, <1>3, <1>4

\* An effect keeps the timers in order: an undelegation sets both to now.
LEMMA EffectKeepsTimers ==
  ASSUME TypeOK, TypeOK', Timers, DeferredNotEarly,
         NEW payer \in Names, NEW owner \in Names, NEW receiver \in Names,
         NEW delta \in Deltas, NEW keeps \in [Kinds -> Nat], NEW pays \in [Kinds -> Nat],
         Effect(payer, owner, receiver, delta, keeps, pays),
         \/ UNCHANGED last_unstake
         \/ /\ last_unstake' = [last_unstake EXCEPT ![owner] = now]
            /\ \E k \in Kinds : delta[k] < 0
  PROVE  Timers' /\ DeferredNotEarly'
<1>1. now' = now /\ now \in Nat /\ RefundDelay \in Nat
  BY DelayAssumption DEF TypeOK, Effect
<1>2. \A a \in Names : /\ a # owner => request_time'[a] = request_time[a]
                       /\ request_time'[owner] \in {request_time[owner], now}
  BY DEF TypeOK, Effect
<1>3. ASSUME NEW a \in Names PROVE last_unstake'[a] <= request_time'[a] /\ request_time'[a] <= now
  <2>1. /\ last_unstake[a] <= request_time[a] /\ request_time[a] <= now
        /\ last_unstake[a] \in Nat /\ request_time[a] \in Nat
    BY DEF Timers, TypeOK
  <2>2. CASE a # owner
    <3>1. last_unstake'[a] = last_unstake[a]
      BY <2>2 DEF TypeOK
    <3> QED BY <1>2, <2>1, <2>2, <3>1
  <2>3. CASE a = owner /\ UNCHANGED last_unstake
    BY <1>1, <1>2, <2>1, <2>3
  <2>4. CASE /\ a = owner /\ \E k \in Kinds : delta[k] < 0
             /\ last_unstake' = [last_unstake EXCEPT ![owner] = now]
    <3>1. request_time'[a] = now
      BY <2>4 DEF Effect, TypeOK
    <3>2. last_unstake'[a] = now
      BY <2>4 DEF TypeOK
    <3> QED BY <1>1, <3>1, <3>2
  <2> QED BY <2>2, <2>3, <2>4
<1>4. ASSUME NEW a \in Names, deferred'[a] # None, HasRefund(a)'
      PROVE  deferred'[a] >= request_time'[a] + RefundDelay
  <2>1. CASE a # owner
    <3>1. deferred'[a] = deferred[a] /\ request_time'[a] = request_time[a]
      BY <1>2, <2>1 DEF Effect, TypeOK
    <3>2. HasRefund(a)
      BY <1>4, <2>1 DEF HasRefund, Effect, TypeOK
    <3> QED BY <1>4, <3>1, <3>2 DEF DeferredNotEarly
  <2>2. CASE a = owner
    <3>1. deferred'[a] = now + RefundDelay
      BY <1>4, <2>2 DEF Effect, TypeOK, Due
    <3>2. request_time'[a] <= now /\ request_time'[a] \in Nat
      BY <1>3 DEF TypeOK
    <3> QED BY <1>1, <3>1, <3>2
  <2> QED BY <2>1, <2>2
<1> QED BY <1>1, <1>3, <1>4 DEF Timers, DeferredNotEarly

\* Paying a refund row out keeps the invariant: the row and what waits for it are gone.
LEMMA PayRefundKeepsInv ==
  ASSUME TypeOK, Inv, NEW owner \in Names, PayRefund(owner),
         deferred' \in {deferred, [deferred EXCEPT ![owner] = None]}
  PROVE  Inv'
<1>1. StakeBacked'
  BY PayRefundKeepsBacked DEF Inv
<1>2. TablesAgree'
  BY DEF Inv, TablesAgree, PayRefund, resources, Delegated, Sum
<1>3. LimitsFollowStake'
  BY DEF Inv, LimitsFollowStake, PayRefund, resources
<1>4. Timers'
  BY DEF Inv, Timers, PayRefund
<1>5. DeferredNotEarly'
  <2> SUFFICES ASSUME NEW a \in Names, deferred'[a] # None, HasRefund(a)'
               PROVE  deferred'[a] >= request_time'[a] + RefundDelay
    BY DEF DeferredNotEarly
  <2>1. \A k \in Kinds : refund_due'[k][a] = IF a = owner THEN 0 ELSE refund_due[k][a]
    BY DEF TypeOK, PayRefund
  <2>2. a # owner
    BY <2>1 DEF HasRefund
  <2>3. deferred'[a] = deferred[a] /\ request_time'[a] = request_time[a]
    BY <2>2 DEF TypeOK, PayRefund
  <2>4. HasRefund(a)
    BY <2>1, <2>2 DEF HasRefund
  <2> QED BY <2>3, <2>4 DEF Inv, DeferredNotEarly
<1> QED BY <1>1, <1>2, <1>3, <1>4, <1>5 DEF Inv

\* Every step keeps the invariant.
LEMMA NextKeepsInv ==
  ASSUME TypeOK, TypeOK', Inv, [Next]_vars
  PROVE  Inv'
<1> USE DEF Inv
<1>1. CASE UNCHANGED vars
  BY <1>1 DEF vars, resources, refunds, StakeBacked, TablesAgree, LimitsFollowStake, Timers,
              DeferredNotEarly, HasRefund, Delegated, InRefund, Sum
<1>2. ASSUME NEW from \in Names, NEW receiver \in Names, NEW net \in Amounts,
             NEW cpu \in Amounts, NEW transfer \in BOOLEAN,
             \/ delegatebw(from, receiver, net, cpu, transfer)
             \/ undelegatebw(from, receiver, net, cpu)
      PROVE  Inv'
  <2>1. PICK owner \in Names, delta \in Deltas, keeps \in [Kinds -> Nat], pays \in [Kinds -> Nat] :
           /\ Effect(from, owner, receiver, delta, keeps, pays)
           /\ \/ UNCHANGED last_unstake
              \/ /\ last_unstake' = [last_unstake EXCEPT ![owner] = now]
                 /\ \E k \in Kinds : delta[k] < 0
    BY <1>2, StakingSteps
  <2>2. StakeBacked'
    BY <2>1, EffectKeepsBacked
  <2>3. TablesAgree'
    BY <2>1, EffectKeepsTablesAgree
  <2>4. LimitsFollowStake'
    BY <2>1, EffectKeepsLimits
  <2>5. Timers' /\ DeferredNotEarly'
    BY <2>1, EffectKeepsTimers
  <2> QED BY <2>2, <2>3, <2>4, <2>5
<1>3. ASSUME NEW owner \in Names, refund(owner) \/ Deliver(owner) PROVE Inv'
  BY <1>3, PayRefundKeepsInv DEF refund, Deliver
<1>4. ASSUME NEW owner \in Names, Drop(owner) PROVE Inv'
  <2>1. StakeBacked' /\ TablesAgree' /\ LimitsFollowStake' /\ Timers'
    BY <1>4 DEF Drop, resources, StakeBacked, TablesAgree, LimitsFollowStake, Timers, Delegated, InRefund, Sum
  <2>2. DeferredNotEarly'
    BY <1>4 DEF Drop, DeferredNotEarly, HasRefund, TypeOK
  <2> QED BY <2>1, <2>2
<1>5. ASSUME NEW k \in Kinds, NEW account \in Names, NEW value \in Limits,
             ManageLimit(k, account, value)
      PROVE  Inv'
  <2>1. StakeBacked' /\ TablesAgree' /\ Timers' /\ DeferredNotEarly'
    BY <1>5 DEF ManageLimit, refunds, StakeBacked, TablesAgree, Timers, DeferredNotEarly, HasRefund,
                Delegated, InRefund, Sum
  <2>2. LimitsFollowStake'
    BY <1>5 DEF ManageLimit, LimitsFollowStake, TypeOK
  <2> QED BY <2>1, <2>2
<1>6. ASSUME NEW k \in Kinds, NEW account \in Names, UnmanageLimit(k, account) PROVE Inv'
  <2>1. StakeBacked' /\ TablesAgree' /\ Timers' /\ DeferredNotEarly'
    BY <1>6 DEF UnmanageLimit, refunds, StakeBacked, TablesAgree, Timers, DeferredNotEarly, HasRefund,
                Delegated, InRefund, Sum
  <2>2. LimitsFollowStake'
    BY <1>6 DEF UnmanageLimit, LimitsFollowStake, TypeOK
  <2> QED BY <2>1, <2>2
<1>7. CASE Activate
  BY <1>7 DEF Activate, resources, refunds, StakeBacked, TablesAgree, LimitsFollowStake, Timers,
              DeferredNotEarly, HasRefund, Delegated, InRefund, Sum
<1>8. CASE Tick
  <2>1. StakeBacked' /\ TablesAgree' /\ LimitsFollowStake' /\ DeferredNotEarly'
    BY <1>8 DEF Tick, resources, refunds, StakeBacked, TablesAgree, LimitsFollowStake,
                DeferredNotEarly, HasRefund, Delegated, InRefund, Sum
  <2>2. Timers'
    BY <1>8 DEF Tick, refunds, Timers, TypeOK
  <2> QED BY <2>1, <2>2
<1> QED BY <1>1, <1>2, <1>3, <1>4, <1>5, <1>6, <1>7, <1>8 DEF Next

\* The invariant is inductive, given the types.
THEOREM Inductive == Spec => []Inv
<1>1. Init => Inv
  BY InitInv
<1>2. TypeOK /\ TypeOK' /\ Inv /\ [Next]_vars => Inv'
  BY NextKeepsInv
<1> QED BY <1>1, <1>2, TypeCorrect, PTL DEF Spec

\* Every refund can be paid: eosio.stake holds what is delegated and what waits.
THEOREM Backed == Spec => []StakeBacked
<1>1. Inv => StakeBacked
  BY DEF Inv
<1> QED BY <1>1, Inductive, PTL

\* The three records of the same stake agree.
THEOREM Agreement == Spec => []TablesAgree
<1>1. Inv => TablesAgree
  BY DEF Inv
<1> QED BY <1>1, Inductive, PTL

\* A limit that the chain does not manage is its account's stake.
THEOREM LimitsFollow == Spec => []LimitsFollowStake
<1>1. Inv => LimitsFollowStake
  BY DEF Inv
<1> QED BY <1>1, Inductive, PTL

\* A deferred refund never comes before its row is due.
THEOREM NotEarly == Spec => []DeferredNotEarly
<1>1. Inv => DeferredNotEarly
  BY DEF Inv
<1> QED BY <1>1, Inductive, PTL

\* Nobody gets staked tokens back sooner than RefundDelay after the last undelegatebw.
THEOREM Waits == Spec => RefundsWait
<1>1. TypeOK /\ TypeOK' /\ Inv /\ [Next]_vars =>
        [\A a \in Names : own'[a] > own[a] => now >= last_unstake[a] + RefundDelay]_vars
  <2> SUFFICES ASSUME TypeOK, TypeOK', Inv, [Next]_vars, NEW a \in Names, own'[a] > own[a]
               PROVE  now >= last_unstake[a] + RefundDelay
    OBVIOUS
  <2>1. own'[a] # own[a] /\ own[a] \in Nat
    BY DEF TypeOK
  <2>2. ASSUME NEW owner \in Names, PayRefund(owner) PROVE now >= last_unstake[a] + RefundDelay
    <3>1. a = owner
      BY <2>1, <2>2 DEF PayRefund, TypeOK
    <3>2. request_time[a] + RefundDelay <= now
      BY <2>2, <3>1 DEF PayRefund
    <3>3. last_unstake[a] <= request_time[a]
      BY DEF Inv, Timers
    <3>4. last_unstake[a] \in Nat /\ request_time[a] \in Nat /\ now \in Nat /\ RefundDelay \in Nat
      BY DelayAssumption DEF TypeOK
    <3> QED BY <3>2, <3>3, <3>4
  <2>3. ASSUME NEW payer \in Names, NEW owner \in Names, NEW receiver \in Names,
               NEW delta \in Deltas, NEW keeps \in [Kinds -> Nat], NEW pays \in [Kinds -> Nat],
               Effect(payer, owner, receiver, delta, keeps, pays)
        PROVE  FALSE
    <3>1. pays["net"] \in Nat /\ pays["cpu"] \in Nat
      BY DEF Kinds
    <3>2. own'[a] = IF a = payer THEN own[a] - (pays["net"] + pays["cpu"]) ELSE own[a]
      BY <2>3 DEF Effect, TypeOK
    <3> QED BY <2>1, <3>1, <3>2
  <2>4. ASSUME NEW from \in Names, NEW receiver \in Names, NEW net \in Amounts,
               NEW cpu \in Amounts, NEW transfer \in BOOLEAN,
               \/ delegatebw(from, receiver, net, cpu, transfer)
               \/ undelegatebw(from, receiver, net, cpu)
        PROVE  FALSE
    BY <2>3, <2>4, StakingSteps
  <2>5. ASSUME NEW owner \in Names, refund(owner) \/ Deliver(owner)
        PROVE  now >= last_unstake[a] + RefundDelay
    BY <2>2, <2>5 DEF refund, Deliver
  <2>6. /\ \A owner \in Names : ~ Drop(owner)
        /\ \A k \in Kinds, account \in Names :
              ~ UnmanageLimit(k, account) /\ \A value \in Limits : ~ ManageLimit(k, account, value)
        /\ ~ Activate /\ ~ Tick /\ ~ UNCHANGED vars
    BY <2>1 DEF Drop, UnmanageLimit, ManageLimit, Activate, Tick, vars
  <2> QED BY <2>4, <2>5, <2>6 DEF Next
<1> QED BY <1>1, TypeCorrect, Inductive, PTL DEF Spec, RefundsWait

-----------------------------------------------------------------------------
(* What b1 has to keep.                                                    *)

\* Division keeps the order.
LEMMA DivMonotone ==
  ASSUME NEW x \in Nat, NEW y \in Nat, x <= y, NEW p \in Nat \ {0}
  PROVE  0 <= x \div p /\ x \div p <= y \div p /\ x \div p \in Int /\ y \div p \in Int
<1> DEFINE q == x \div p
           r == y \div p
<1>1. q \in Int /\ r \in Int /\ q * p <= x /\ y < (r + 1) * p /\ 0 <= q
  BY SMTT(30)
<1> HIDE DEF q, r
<1>2. SUFFICES ASSUME q > r PROVE FALSE
  BY <1>1 DEF q, r
<1>3. q >= r + 1
  BY <1>1, <1>2
<1>4. q * p >= (r + 1) * p
  BY <1>1, <1>3, SMTT(30)
<1>5. q * p \in Int /\ (r + 1) * p \in Int
  BY <1>1
<1> QED BY <1>1, <1>4, <1>5

\* Time only lowers what b1 has to keep, and never above what it had.
LEMMA LockedFalls ==
  ASSUME NEW t \in Nat, NEW u \in Nat, t <= u
  PROVE  /\ 2 * B1Stake - (2 * B1Stake * t) \div B1Period \in Int
         /\ 2 * B1Stake - (2 * B1Stake * t) \div B1Period <= 2 * B1Stake
         /\ 2 * B1Stake - (2 * B1Stake * u) \div B1Period
               <= 2 * B1Stake - (2 * B1Stake * t) \div B1Period
<1> DEFINE c == 2 * B1Stake
<1>1. c \in Nat /\ B1Period \in Nat \ {0}
  BY B1Assumption
<1> HIDE DEF c
<1>2. c * t \in Nat /\ c * u \in Nat /\ c * t <= c * u
  BY <1>1, SMTT(30)
<1>3. /\ 0 <= (c * t) \div B1Period /\ (c * t) \div B1Period <= (c * u) \div B1Period
      /\ (c * t) \div B1Period \in Int /\ (c * u) \div B1Period \in Int
  BY <1>1, <1>2, DivMonotone
<1>4. /\ c - (c * t) \div B1Period \in Int
      /\ c - (c * t) \div B1Period <= c
      /\ c - (c * u) \div B1Period <= c - (c * t) \div B1Period
  <2> DEFINE x == (c * t) \div B1Period
             y == (c * u) \div B1Period
  <2> HIDE DEF x, y
  <2>1. 0 <= x /\ x <= y /\ x \in Int /\ y \in Int
    BY <1>3 DEF x, y
  <2>2. c - x \in Int /\ c - x <= c /\ c - y <= c - x
    BY <1>1, <2>1
  <2> QED BY <2>2 DEF x, y
<1> QED BY <1>4 DEF c

KeepsLocked == B1 \in Names => staked[B1] >= B1Locked

\* b1 keeps delegated what it may not claim yet.
THEOREM Vests == Spec => []B1Vests
<1>1. Init => KeepsLocked
  <2> SUFFICES ASSUME Init, B1 \in Names PROVE staked[B1] >= B1Locked
    BY DEF KeepsLocked
  <2>1. now = 0 /\ now \in Nat /\ staked[B1] = 2 * B1Stake
    BY DEF Init
  <2> QED BY <2>1, LockedFalls DEF B1Locked
<1>2. TypeOK /\ KeepsLocked /\ [Next]_vars => KeepsLocked'
  <2> SUFFICES ASSUME TypeOK, KeepsLocked, [Next]_vars, B1 \in Names
               PROVE  staked'[B1] >= B1Locked'
    BY DEF KeepsLocked
  <2>1. staked[B1] >= B1Locked
    BY DEF KeepsLocked
  <2>2. UNCHANGED <<now, staked>> => staked'[B1] >= B1Locked'
    BY <2>1 DEF B1Locked
  <2>3. ASSUME NEW from \in Names, NEW receiver \in Names, NEW net \in Amounts,
               NEW cpu \in Amounts, NEW transfer \in BOOLEAN,
               \/ delegatebw(from, receiver, net, cpu, transfer)
               \/ undelegatebw(from, receiver, net, cpu)
        PROVE  staked'[B1] >= B1Locked'
    <3>1. PICK owner \in Names, delta \in Deltas, keeps \in [Kinds -> Nat], pays \in [Kinds -> Nat] :
             Effect(from, owner, receiver, delta, keeps, pays)
      BY <2>3, StakingSteps
    <3>2. B1Locked' = B1Locked
      BY <3>1 DEF Effect, B1Locked
    <3>3. CASE owner = B1
      <4>1. /\ staked' = [staked EXCEPT ![owner] = staked[owner] + (delta["net"] + delta["cpu"])]
            /\ B1Locked <= staked[owner] + (delta["net"] + delta["cpu"])
        BY <3>1, <3>3 DEF Effect
      <4>2. staked'[B1] = staked[B1] + (delta["net"] + delta["cpu"])
        BY <3>3, <4>1 DEF TypeOK
      <4>3. delta["net"] \in Int /\ delta["cpu"] \in Int /\ staked[B1] \in Int /\ B1Locked \in Int
        BY LockedFalls DEF Deltas, Kinds, TypeOK, B1Locked
      <4> QED BY <3>2, <3>3, <4>1, <4>2, <4>3
    <3>4. CASE owner # B1
      <4>1. staked'[B1] = staked[B1]
        BY <3>1, <3>4 DEF Effect, TypeOK
      <4> QED BY <2>1, <3>2, <4>1
    <3> QED BY <3>3, <3>4
  <2>4. ASSUME NEW owner \in Names, refund(owner) \/ Deliver(owner) \/ Drop(owner)
        PROVE  UNCHANGED <<now, staked>>
    BY <2>4 DEF refund, Deliver, PayRefund, Drop, resources
  <2>5. ASSUME NEW k \in Kinds, NEW account \in Names,
               UnmanageLimit(k, account) \/ \E value \in Limits : ManageLimit(k, account, value)
        PROVE  UNCHANGED <<now, staked>>
    BY <2>5 DEF UnmanageLimit, ManageLimit
  <2>6. Activate \/ UNCHANGED vars => UNCHANGED <<now, staked>>
    BY DEF Activate, vars, resources
  <2>7. CASE Tick
    <3>1. now' = now + 1 /\ staked' = staked /\ now \in Nat /\ now' \in Nat /\ now <= now'
      BY <2>7 DEF Tick, resources, TypeOK
    <3>2. B1Locked' <= B1Locked /\ B1Locked \in Int /\ B1Locked' \in Int
      BY <3>1, LockedFalls DEF B1Locked
    <3>3. staked[B1] \in Int
      BY DEF TypeOK
    <3> QED BY <2>1, <3>1, <3>2, <3>3
  <2> QED BY <2>2, <2>3, <2>4, <2>5, <2>6, <2>7 DEF Next
<1>3. Inv /\ KeepsLocked => B1Vests
  BY DEF Inv, TablesAgree, KeepsLocked, B1Vests
<1> QED BY <1>1, <1>2, <1>3, TypeCorrect, Inductive, PTL DEF Spec

=============================================================================
