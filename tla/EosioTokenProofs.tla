-------------------------- MODULE EosioTokenProofs --------------------------
(***************************************************************************)
(* The invariants of eosio.token, for any number of names and symbols.     *)
(*                                                                         *)
(* SupplyIsSumOfBalances is inductive together with the types.  Solvent    *)
(* and SupplyCapped are then inductive together with it.                   *)
(***************************************************************************)
EXTENDS EosioToken, FunSumsProofs

\* A transfer between two rows leaves the sum of the balances as it was.
LEMMA MovedKeepsSum ==
  ASSUME NEW f \in [Names -> Int], NEW from \in Names, NEW to \in Names,
         from # to, NEW value \in Int
  PROVE  /\ Moved(f, from, to, value) \in [Names -> Int]
         /\ SumTo(Moved(f, from, to, value), N) = SumTo(f, N)
<1> DEFINE g == [f EXCEPT ![from] = f[from] - value]
           h == [g EXCEPT ![to] = f[to] + value]
<1>1. N \in Nat /\ Names = 1 .. N
  BY NAssumption DEF Names
<1>2. f[from] \in Int /\ f[to] \in Int /\ f[from] - value \in Int /\ f[to] + value \in Int
  OBVIOUS
<1>3. g \in [1 .. N -> Int] /\ g[to] = f[to]
  BY <1>1
<1>4. SumTo(g, N) = SumTo(f, N) - f[from] + (f[from] - value)
  BY <1>1, <1>2, SumToUpdate
<1>5. SumTo(f, N) \in Int /\ SumTo(g, N) \in Int
  <2> HIDE DEF g
  <2> QED BY <1>1, <1>3, SumToInt
<1>6. SumTo(h, N) = SumTo(g, N) - g[to] + (f[to] + value)
  <2> HIDE DEF g
  <2> QED BY <1>1, <1>2, <1>3, SumToUpdate
<1>7. SumTo(h, N) = SumTo(f, N)
  <2> HIDE DEF g, h
  <2> QED BY <1>2, <1>3, <1>4, <1>5, <1>6
<1>8. Moved(f, from, to, value) = h /\ h \in [Names -> Int]
  BY <1>1, <1>2 DEF Moved
<1> QED BY <1>7, <1>8

\* Adding to one row adds as much to the sum.
LEMMA AddedToSum ==
  ASSUME NEW f \in [Names -> Int], NEW a \in Names, NEW value \in Int
  PROVE  /\ [f EXCEPT ![a] = f[a] + value] \in [Names -> Int]
         /\ SumTo([f EXCEPT ![a] = f[a] + value], N) = SumTo(f, N) + value
         /\ SumTo(f, N) \in Int
<1>1. N \in Nat /\ Names = 1 .. N
  BY NAssumption DEF Names
<1>2. f[a] \in Int /\ f[a] + value \in Int
  OBVIOUS
<1>3. SumTo([f EXCEPT ![a] = f[a] + value], N) = SumTo(f, N) - f[a] + (f[a] + value)
  BY <1>1, <1>2, SumToUpdate
<1>4. SumTo(f, N) \in Int
  BY <1>1, SumToInt
<1> QED BY <1>2, <1>3, <1>4

\* Charging a new row to an account keeps the type of the payers.
LEMMA PaidByType ==
  ASSUME NEW pay \in [Names -> Existing \cup {NoOne}], NEW a \in Names, NEW p \in Existing
  PROVE  PaidBy(pay, a, p) \in [Names -> Existing \cup {NoOne}]
BY DEF PaidBy

\* Every row of every table keeps its type.
THEOREM TypeCorrect == Spec => []TypeOK
<1>1. Init => TypeOK
  BY SelfAssumption, ExistingAssumption DEF Init, TypeOK, Names, NoOne
<1>2. TypeOK /\ [Next]_vars => TypeOK'
  <2> SUFFICES ASSUME TypeOK, [Next]_vars PROVE TypeOK'
    OBVIOUS
  <2> USE AmountsAssumption, ExistingAssumption
  <2>1. CASE UNCHANGED vars
    BY <2>1 DEF TypeOK, vars
  <2>2. ASSUME NEW who \in SUBSET Existing, NEW s \in Symbols, NEW iss \in Names,
               NEW max \in Amounts, create(who, s, iss, max)
        PROVE TypeOK'
    BY <2>2 DEF TypeOK, create, accounts
  <2>3. ASSUME NEW who \in SUBSET Existing, NEW s \in Symbols, NEW to \in Names,
               NEW q \in Amounts, issue(who, to, s, q)
        PROVE TypeOK'
    <3>1. issuer[s] \in Names
      BY DEF TypeOK
    <3>2. supply' \in [Symbols -> Int]
      BY <2>3 DEF TypeOK, issue
    <3>3. balance' \in [Symbols -> [Names -> Int]]
      <4>1. balance' = [balance EXCEPT ![s] = [balance[s] EXCEPT ![to] = balance[s][to] + q]]
        BY <2>3 DEF issue
      <4>2. balance \in [Symbols -> [Names -> Int]] /\ q \in Int
        BY DEF TypeOK
      <4>3. [balance[s] EXCEPT ![to] = balance[s][to] + q] \in [Names -> Int]
        BY <4>2
      <4> QED BY <4>1, <4>2, <4>3
    <3>4. payer' \in [Symbols -> [Names -> Existing \cup {NoOne}]]
      <4>1. payer[s] \in [Names -> Existing \cup {NoOne}]
        BY DEF TypeOK
      <4>2. [payer[s] EXCEPT ![issuer[s]] = issuer[s]] \in [Names -> Existing \cup {NoOne}]
        BY <2>3, <3>1, <4>1 DEF issue
      <4>3. PICK pay \in [Names -> Existing \cup {NoOne}] : payer' = [payer EXCEPT ![s] = pay]
        BY <2>3, <3>1, <4>1, <4>2, PaidByType DEF issue
      <4> QED BY <4>3 DEF TypeOK
    <3> QED BY <2>3, <3>2, <3>3, <3>4 DEF TypeOK, issue
  <2>4. ASSUME NEW who \in SUBSET Existing, NEW s \in Symbols, NEW q \in Amounts,
               retire(who, s, q)
        PROVE TypeOK'
    BY <2>4 DEF TypeOK, retire
  <2>5. ASSUME NEW who \in SUBSET Existing, NEW s \in Symbols, NEW from \in Names,
               NEW to \in Names, NEW q \in Amounts, transfer(who, from, to, s, q)
        PROVE TypeOK'
    <3>1. balance' \in [Symbols -> [Names -> Int]]
      BY <2>5 DEF TypeOK, transfer, Moved
    <3>2. payer' \in [Symbols -> [Names -> Existing \cup {NoOne}]]
      BY <2>5 DEF TypeOK, transfer, PaidBy
    <3> QED BY <2>5, <3>1, <3>2 DEF TypeOK, transfer, stat
  <2>6. ASSUME NEW who \in SUBSET Existing, NEW s \in Symbols, NEW owner \in Names,
               NEW p \in Names, open(who, owner, s, p)
        PROVE TypeOK'
    BY <2>6 DEF TypeOK, open, stat, PaidBy
  <2>7. ASSUME NEW who \in SUBSET Existing, NEW s \in Symbols, NEW owner \in Names,
               close(who, owner, s)
        PROVE TypeOK'
    BY <2>7 DEF TypeOK, close, stat
  <2> QED BY <2>1, <2>2, <2>3, <2>4, <2>5, <2>6, <2>7 DEF Next
<1> QED BY <1>1, <1>2, PTL DEF Spec

-----------------------------------------------------------------------------
\* What a step of the contract does to the supply and the balances of one
\* symbol: nothing, the same change to both, or a move between two rows.
LedgerStep(s) ==
    \/ supply'[s] = supply[s] /\ balance'[s] = balance[s]
    \/ \E a \in Names, d \in Int :
          /\ supply'[s] = supply[s] + d
          /\ balance'[s] = [balance[s] EXCEPT ![a] = balance[s][a] + d]
    \/ \E from \in Names, to \in Names, d \in Int :
          /\ from # to
          /\ supply'[s] = supply[s]
          /\ balance'[s] = Moved(balance[s], from, to, d)

\* The supply of a symbol that was never created is that of the initial state.
UncreatedIsEmpty == \A s \in Symbols \ created : supply[s] = 0 /\ max_supply[s] = 0

\* SupplyCapped without its lower bound, for all symbols at once.
WithinMax == \A s \in Symbols : supply[s] <= max_supply[s]

IInv == TypeOK /\ SupplyIsSumOfBalances /\ Solvent /\ UncreatedIsEmpty /\ WithinMax

\* Every action is a step of the ledger of every symbol.
LEMMA NextIsLedgerStep ==
  ASSUME TypeOK, UncreatedIsEmpty, [Next]_vars, NEW t \in Symbols
  PROVE  LedgerStep(t)
<1> USE AmountsAssumption, ExistingAssumption
<1>1. CASE UNCHANGED vars
  BY <1>1 DEF LedgerStep, vars
<1>2. ASSUME NEW who \in SUBSET Existing, NEW s \in Symbols, NEW iss \in Names,
             NEW max \in Amounts, create(who, s, iss, max)
      PROVE LedgerStep(t)
  <2>1. supply'[t] = supply[t]
    BY <1>2 DEF TypeOK, UncreatedIsEmpty, create
  <2> QED BY <1>2, <2>1 DEF LedgerStep, create, accounts
<1>3. ASSUME NEW who \in SUBSET Existing, NEW s \in Symbols, NEW to \in Names,
             NEW q \in Amounts, issue(who, to, s, q)
      PROVE LedgerStep(t)
  <2>1. CASE t = s
    <3>1. supply'[t] = supply[t] + q
      BY <1>3, <2>1 DEF TypeOK, issue
    <3>2. balance'[t] = [balance[t] EXCEPT ![to] = balance[t][to] + q]
      <4>1. balance' = [balance EXCEPT ![s] = [balance[s] EXCEPT ![to] = balance[s][to] + q]]
        BY <1>3 DEF issue
      <4>2. s \in DOMAIN balance
        BY DEF TypeOK
      <4> QED BY <2>1, <4>1, <4>2
    <3> QED BY <3>1, <3>2 DEF LedgerStep
  <2>2. CASE t # s
    BY <1>3, <2>2 DEF TypeOK, issue, LedgerStep
  <2> QED BY <2>1, <2>2
<1>4. ASSUME NEW who \in SUBSET Existing, NEW s \in Symbols, NEW q \in Amounts,
             retire(who, s, q)
      PROVE LedgerStep(t)
  <2>1. CASE t = s
    <3>1. issuer[t] \in Names /\ -q \in Int
      BY DEF TypeOK
    <3>2. supply'[t] = supply[t] + (-q)
      BY <1>4, <2>1 DEF TypeOK, retire
    <3>3. balance'[t] = [balance[t] EXCEPT ![issuer[t]] = balance[t][issuer[t]] + (-q)]
      <4>1. balance[t][issuer[t]] - q = balance[t][issuer[t]] + (-q)
        BY <3>1 DEF TypeOK
      <4> QED BY <1>4, <2>1, <4>1 DEF TypeOK, retire
    <3> QED BY <3>1, <3>2, <3>3 DEF LedgerStep
  <2>2. CASE t # s
    BY <1>4, <2>2 DEF TypeOK, retire, LedgerStep
  <2> QED BY <2>1, <2>2
<1>5. ASSUME NEW who \in SUBSET Existing, NEW s \in Symbols, NEW from \in Names,
             NEW to \in Names, NEW q \in Amounts, transfer(who, from, to, s, q)
      PROVE LedgerStep(t)
  <2>1. CASE t = s
    BY <1>5, <2>1 DEF TypeOK, transfer, stat, LedgerStep
  <2>2. CASE t # s
    BY <1>5, <2>2 DEF TypeOK, transfer, stat, LedgerStep
  <2> QED BY <2>1, <2>2
<1>6. ASSUME NEW who \in SUBSET Existing, NEW s \in Symbols, NEW owner \in Names,
             NEW p \in Names, open(who, owner, s, p)
      PROVE LedgerStep(t)
  BY <1>6 DEF open, stat, LedgerStep
<1>7. ASSUME NEW who \in SUBSET Existing, NEW s \in Symbols, NEW owner \in Names,
             close(who, owner, s)
      PROVE LedgerStep(t)
  <2>1. balance' = balance
    BY <1>7 DEF TypeOK, close
  <2> QED BY <1>7, <2>1 DEF close, stat, LedgerStep
<1> QED BY <1>1, <1>2, <1>3, <1>4, <1>5, <1>6, <1>7 DEF Next

\* A step of the ledger keeps the supply equal to the sum of the balances.
LEMMA LedgerStepConserves ==
  ASSUME TypeOK, NEW s \in Symbols, LedgerStep(s), supply[s] = SumTo(balance[s], N)
  PROVE  supply'[s] = SumTo(balance'[s], N)
<1>1. balance[s] \in [Names -> Int] /\ supply[s] \in Int
  BY DEF TypeOK
<1>2. CASE supply'[s] = supply[s] /\ balance'[s] = balance[s]
  BY <1>2
<1>3. ASSUME NEW a \in Names, NEW d \in Int, supply'[s] = supply[s] + d,
             balance'[s] = [balance[s] EXCEPT ![a] = balance[s][a] + d]
      PROVE supply'[s] = SumTo(balance'[s], N)
  BY <1>1, <1>3, AddedToSum
<1>4. ASSUME NEW from \in Names, NEW to \in Names, NEW d \in Int, from # to,
             supply'[s] = supply[s], balance'[s] = Moved(balance[s], from, to, d)
      PROVE supply'[s] = SumTo(balance'[s], N)
  BY <1>1, <1>4, MovedKeepsSum
<1> QED BY <1>2, <1>3, <1>4 DEF LedgerStep

\* No step overdraws a row or leaves money outside the table.
LEMMA NextKeepsSolvent ==
  ASSUME TypeOK, Solvent, [Next]_vars
  PROVE  Solvent'
<1> USE AmountsAssumption, ExistingAssumption
<1>1. CASE UNCHANGED vars
  BY <1>1 DEF Solvent, HasRow, vars
<1>2. ASSUME NEW who \in SUBSET Existing, NEW s \in Symbols, NEW iss \in Names,
             NEW max \in Amounts, create(who, s, iss, max)
      PROVE Solvent'
  BY <1>2 DEF Solvent, HasRow, create, accounts
<1>3. ASSUME NEW who \in SUBSET Existing, NEW s \in Symbols, NEW to \in Names,
             NEW q \in Amounts, issue(who, to, s, q)
      PROVE Solvent'
  <2>1. issuer[s] \in Names /\ NoOne \notin Names /\ q > 0 /\ q \in Int
    BY <1>3 DEF TypeOK, issue, Names, NoOne
  <2> SUFFICES ASSUME NEW t \in Symbols, NEW a \in Names
               PROVE balance'[t][a] >= 0 /\ (balance'[t][a] # 0 => payer'[t][a] # NoOne)
    BY DEF Solvent, HasRow
  <2>2. balance[t][a] \in Int /\ balance[t][a] >= 0 /\ (balance[t][a] # 0 => payer[t][a] # NoOne)
    BY DEF Solvent, HasRow, TypeOK
  <2>3. balance'[t][a] = IF t = s /\ a = to THEN balance[t][a] + q ELSE balance[t][a]
    BY <1>3 DEF TypeOK, issue
  <2>4. payer'[t][a] = IF t = s /\ a = to /\ payer[t][a] = NoOne THEN issuer[s]
                       ELSE IF t = s /\ a = issuer[s] /\ to # issuer[s] THEN issuer[s]
                       ELSE payer[t][a]
    BY <1>3, <2>1 DEF TypeOK, issue, PaidBy
  <2> QED BY <2>1, <2>2, <2>3, <2>4
<1>4. ASSUME NEW who \in SUBSET Existing, NEW s \in Symbols, NEW q \in Amounts,
             retire(who, s, q)
      PROVE Solvent'
  <2>1. issuer[s] \in Names /\ NoOne \notin Names
    BY DEF TypeOK, Names, NoOne
  <2> QED BY <1>4, <2>1 DEF Solvent, HasRow, TypeOK, retire, CanSub
<1>5. ASSUME NEW who \in SUBSET Existing, NEW s \in Symbols, NEW from \in Names,
             NEW to \in Names, NEW q \in Amounts, transfer(who, from, to, s, q)
      PROVE Solvent'
  <2>1. NoOne \notin Names /\ q \in Int /\ q > 0 /\ from # to
    BY <1>5 DEF transfer, Names, NoOne
  <2> SUFFICES ASSUME NEW t \in Symbols, NEW a \in Names
               PROVE balance'[t][a] >= 0 /\ (balance'[t][a] # 0 => payer'[t][a] # NoOne)
    BY DEF Solvent, HasRow
  <2>2. balance[t][a] \in Int /\ balance[t][a] >= 0 /\ (balance[t][a] # 0 => payer[t][a] # NoOne)
    BY DEF Solvent, HasRow, TypeOK
  <2>3. t = s /\ a = from => balance[t][a] >= q
    BY <1>5 DEF transfer, CanSub
  <2>4. balance'[t][a] = IF t = s /\ a = to THEN balance[t][a] + q
                         ELSE IF t = s /\ a = from THEN balance[t][a] - q
                         ELSE balance[t][a]
    BY <1>5, <2>1 DEF TypeOK, transfer, Moved
  <2>5. t = s /\ a \in {from, to} => payer'[t][a] # NoOne
    BY <1>5, <2>1 DEF TypeOK, transfer, PaidBy
  <2>6. ~ (t = s /\ a \in {from, to}) => payer'[t][a] = payer[t][a]
    BY <1>5, <2>1 DEF TypeOK, transfer, PaidBy
  <2> QED BY <2>1, <2>2, <2>3, <2>4, <2>5, <2>6
<1>6. ASSUME NEW who \in SUBSET Existing, NEW s \in Symbols, NEW owner \in Names,
             NEW p \in Names, open(who, owner, s, p)
      PROVE Solvent'
  <2>1. NoOne \notin Names
    BY DEF Names, NoOne
  <2> QED BY <1>6, <2>1 DEF Solvent, HasRow, TypeOK, open, PaidBy
<1>7. ASSUME NEW who \in SUBSET Existing, NEW s \in Symbols, NEW owner \in Names,
             close(who, owner, s)
      PROVE Solvent'
  <2>1. balance' = balance
    BY <1>7 DEF TypeOK, close
  <2> QED BY <1>7, <2>1 DEF Solvent, HasRow, TypeOK, close
<1> QED BY <1>1, <1>2, <1>3, <1>4, <1>5, <1>6, <1>7 DEF Next

\* No step takes the supply of a symbol past its maximum.
LEMMA NextKeepsMax ==
  ASSUME TypeOK, UncreatedIsEmpty, WithinMax, [Next]_vars
  PROVE  UncreatedIsEmpty' /\ WithinMax'
<1> USE AmountsAssumption DEF TypeOK, UncreatedIsEmpty, WithinMax
<1>1. CASE UNCHANGED vars
  BY <1>1 DEF vars
<1>2. ASSUME NEW who \in SUBSET Existing, NEW s \in Symbols, NEW iss \in Names,
             NEW max \in Amounts, create(who, s, iss, max)
      PROVE UncreatedIsEmpty' /\ WithinMax'
  BY <1>2 DEF create
<1>3. ASSUME NEW who \in SUBSET Existing, NEW s \in Symbols, NEW to \in Names,
             NEW q \in Amounts, issue(who, to, s, q)
      PROVE UncreatedIsEmpty' /\ WithinMax'
  BY <1>3 DEF issue
<1>4. ASSUME NEW who \in SUBSET Existing, NEW s \in Symbols, NEW q \in Amounts,
             retire(who, s, q)
      PROVE UncreatedIsEmpty' /\ WithinMax'
  BY <1>4 DEF retire
<1>5. ASSUME UNCHANGED stat
      PROVE UncreatedIsEmpty' /\ WithinMax'
  BY <1>5 DEF stat
<1>6. ASSUME NEW who \in SUBSET Existing, NEW s \in Symbols,
             \/ \E from \in Names, to \in Names, q \in Amounts : transfer(who, from, to, s, q)
             \/ \E owner \in Names, p \in Names : open(who, owner, s, p)
             \/ \E owner \in Names : close(who, owner, s)
      PROVE UNCHANGED stat
  BY <1>6 DEF transfer, open, close
<1> HIDE DEF TypeOK, UncreatedIsEmpty, WithinMax
<1> QED BY <1>1, <1>2, <1>3, <1>4, <1>5, <1>6 DEF Next

\* What the invariant says of the rows of one symbol.
LEMMA RowsAreNaturals ==
  ASSUME TypeOK, Solvent, NEW s \in Symbols
  PROVE  balance[s] \in [1 .. N -> Nat]
<1>1. balance[s] \in [1 .. N -> Int]
  BY DEF TypeOK, Names
<1>2. \A a \in 1 .. N : balance[s][a] \in Nat
  BY <1>1, NAssumption DEF Solvent, Names
<1>3. balance[s] = [a \in 1 .. N |-> balance[s][a]]
  BY <1>1
<1> QED BY <1>2, <1>3

\* The supply of every symbol is the sum of its balances, no row is overdrawn
\* and no supply passes its maximum: the invariant is inductive.
THEOREM Inductive == Spec => []IInv
<1>1. Init => IInv
  <2> SUFFICES ASSUME Init PROVE IInv
    OBVIOUS
  <2>1. TypeOK
    BY SelfAssumption, ExistingAssumption DEF Init, TypeOK, Names, NoOne
  <2>2. SupplyIsSumOfBalances
    BY NAssumption, SumToAllZero DEF Init, SupplyIsSumOfBalances, Names
  <2>3. Solvent /\ UncreatedIsEmpty /\ WithinMax
    BY DEF Init, Solvent, UncreatedIsEmpty, WithinMax
  <2> QED BY <2>1, <2>2, <2>3 DEF IInv
<1>2. IInv /\ TypeOK' /\ [Next]_vars => IInv'
  <2> SUFFICES ASSUME IInv, TypeOK', [Next]_vars PROVE IInv'
    OBVIOUS
  <2> USE DEF IInv
  <2>1. SupplyIsSumOfBalances'
    BY NextIsLedgerStep, LedgerStepConserves DEF SupplyIsSumOfBalances
  <2>2. Solvent'
    BY NextKeepsSolvent
  <2>3. UncreatedIsEmpty' /\ WithinMax'
    BY NextKeepsMax
  <2> QED BY <2>1, <2>2, <2>3
<1> QED BY <1>1, <1>2, TypeCorrect, PTL DEF Spec

\* Tokens are conserved: the supply is always the sum of the balances.
THEOREM Conservation == Spec => []SupplyIsSumOfBalances
<1>1. IInv => SupplyIsSumOfBalances
  BY DEF IInv
<1> QED BY <1>1, Inductive, PTL

\* No account is ever overdrawn and no money is in an erased row.
THEOREM Solvency == Spec => []Solvent
<1>1. IInv => Solvent
  BY DEF IInv
<1> QED BY <1>1, Inductive, PTL

\* The supply stays within its maximum, and is not negative because it is a
\* sum of balances that are not.
THEOREM Capped == Spec => []SupplyCapped
<1>1. IInv => SupplyCapped
  <2> SUFFICES ASSUME IInv, NEW s \in created
               PROVE 0 <= supply[s] /\ supply[s] <= max_supply[s]
    BY DEF SupplyCapped
  <2>1. s \in Symbols /\ balance[s] \in [1 .. N -> Nat]
    BY RowsAreNaturals DEF IInv, TypeOK
  <2>2. SumTo(balance[s], N) \in Nat
    BY <2>1, NAssumption, SumToNat
  <2> QED BY <2>1, <2>2 DEF IInv, SupplyIsSumOfBalances, WithinMax
<1> QED BY <1>1, Inductive, PTL

\* No balance exceeds the maximum supply of its symbol, so no addition to a
\* row can pass the maximum that create accepted.
THEOREM BalancesCapped ==
  Spec => [](\A s \in created : \A a \in Names : balance[s][a] <= max_supply[s])
<1>1. IInv => \A s \in created : \A a \in Names : balance[s][a] <= max_supply[s]
  <2> SUFFICES ASSUME IInv, NEW s \in created, NEW a \in Names
               PROVE balance[s][a] <= max_supply[s]
    OBVIOUS
  <2>1. s \in Symbols /\ balance[s] \in [1 .. N -> Nat] /\ a \in 1 .. N
    BY RowsAreNaturals DEF IInv, TypeOK, Names
  <2>2. balance[s][a] <= SumTo(balance[s], N)
    BY <2>1, NAssumption, SumToBoundsValue
  <2>3. supply[s] = SumTo(balance[s], N) /\ supply[s] <= max_supply[s]
    BY <2>1 DEF IInv, SupplyIsSumOfBalances, WithinMax
  <2>4. supply[s] \in Int /\ max_supply[s] \in Int /\ balance[s][a] \in Int
    BY <2>1 DEF IInv, TypeOK
  <2> QED BY <2>2, <2>3, <2>4
<1> QED BY <1>1, Inductive, PTL
-----------------------------------------------------------------------------
\* A step only takes tokens from, and only charges RAM to, accounts that
\* authorised it (the rows that issue, transfer and open write).
THEOREM Authorised == Spec => OwnersAuthorise
<1> DEFINE Fair(s, a) == /\ balance'[s][a] < balance[s][a] => a \in auth'
                         /\ payer'[s][a] \notin {payer[s][a], NoOne} => payer'[s][a] \in auth'
<1>1. TypeOK /\ [Next]_vars => [\A s \in Symbols : \A a \in Names : Fair(s, a)]_vars
  <2> SUFFICES ASSUME TypeOK, Next, NEW t \in Symbols, NEW b \in Names PROVE Fair(t, b)
    OBVIOUS
  <2> USE AmountsAssumption, ExistingAssumption
  <2>0. balance[t][b] \in Int /\ balance[t] \in [Names -> Int] /\ balance \in [Symbols -> [Names -> Int]]
    BY DEF TypeOK
  <2>1. payer \in [Symbols -> [Names -> Existing \cup {NoOne}]]
    BY DEF TypeOK
  <2>2. ASSUME NEW who \in SUBSET Existing, NEW s \in Symbols, NEW iss \in Names,
               NEW max \in Amounts, create(who, s, iss, max)
        PROVE Fair(t, b)
    BY <2>2, <2>0 DEF create, accounts
  <2>3. ASSUME NEW who \in SUBSET Existing, NEW s \in Symbols, NEW to \in Names,
               NEW q \in Amounts, issue(who, to, s, q)
        PROVE Fair(t, b)
    <3>1. issuer[s] \in Names /\ issuer[s] \in who /\ q > 0 /\ q \in Int /\ auth' = who
      BY <2>3 DEF TypeOK, issue
    <3>2. ~ (balance'[t][b] < balance[t][b])
      <4>1. CASE to = issuer[s]
        BY <2>3, <2>0, <3>1, <4>1 DEF issue
      <4>2. CASE to # issuer[s]
        BY <2>3, <2>0, <3>1, <4>2 DEF issue
      <4> QED BY <4>1, <4>2
    <3>3. payer'[t][b] \in {payer[t][b], issuer[s]}
      BY <2>3, <2>1, <3>1 DEF issue, PaidBy
    <3> QED BY <3>1, <3>2, <3>3
  <2>4. ASSUME NEW who \in SUBSET Existing, NEW s \in Symbols, NEW q \in Amounts,
               retire(who, s, q)
        PROVE Fair(t, b)
    BY <2>4, <2>0, <2>1 DEF retire
  <2>5. ASSUME NEW who \in SUBSET Existing, NEW s \in Symbols, NEW from \in Names,
               NEW to \in Names, NEW q \in Amounts, transfer(who, from, to, s, q)
        PROVE Fair(t, b)
    <3>1. from \in who /\ q > 0 /\ q \in Int /\ auth' = who /\ from # to
      BY <2>5 DEF transfer
    <3>2. balance'[t][b] < balance[t][b] => b = from
      BY <2>5, <2>0, <3>1 DEF transfer, Moved
    <3>3. payer'[t][b] \in {payer[t][b], from} \/ (payer'[t][b] = to /\ to \in who)
      BY <2>5, <2>1 DEF transfer, PaidBy
    <3> QED BY <3>1, <3>2, <3>3
  <2>6. ASSUME NEW who \in SUBSET Existing, NEW s \in Symbols, NEW owner \in Names,
               NEW p \in Names, open(who, owner, s, p)
        PROVE Fair(t, b)
    BY <2>6, <2>0, <2>1 DEF open, PaidBy
  <2>7. ASSUME NEW who \in SUBSET Existing, NEW s \in Symbols, NEW owner \in Names,
               close(who, owner, s)
        PROVE Fair(t, b)
    BY <2>7, <2>0, <2>1 DEF close
  <2> QED BY <2>2, <2>3, <2>4, <2>5, <2>6, <2>7 DEF Next
<1> QED BY <1>1, TypeCorrect, PTL DEF Spec, OwnersAuthorise

\* A symbol keeps its issuer and its maximum, and its supply changes only in
\* a step that its issuer authorised.
THEOREM IssuerControls == Spec => IssuerControlsSupply
<1> DEFINE Kept(s) == /\ s \in created' /\ issuer'[s] = issuer[s] /\ max_supply'[s] = max_supply[s]
                      /\ supply'[s] # supply[s] => issuer[s] \in auth'
<1>1. TypeOK /\ [Next]_vars => [\A s \in created : Kept(s)]_vars
  <2> SUFFICES ASSUME TypeOK, Next, NEW t \in created PROVE Kept(t)
    OBVIOUS
  <2>1. t \in Symbols /\ issuer \in [Symbols -> Names] /\ supply \in [Symbols -> Int]
        /\ max_supply \in [Symbols -> Int]
    BY DEF TypeOK
  <2>2. ASSUME NEW who, NEW s \in Symbols, NEW iss, NEW max, create(who, s, iss, max)
        PROVE Kept(t)
    BY <2>2, <2>1 DEF create
  <2>3. ASSUME NEW who, NEW s \in Symbols, NEW to, NEW q, issue(who, to, s, q)
        PROVE Kept(t)
    BY <2>3, <2>1 DEF issue
  <2>4. ASSUME NEW who, NEW s \in Symbols, NEW q, retire(who, s, q)
        PROVE Kept(t)
    BY <2>4, <2>1 DEF retire
  <2>5. CASE UNCHANGED stat
    BY <2>5, <2>1 DEF stat
  <2>6. ASSUME NEW who, NEW s, NEW from, NEW to, NEW q, transfer(who, from, to, s, q)
        PROVE UNCHANGED stat
    BY <2>6 DEF transfer
  <2>7. ASSUME NEW who, NEW s, NEW owner, NEW p, open(who, owner, s, p)
        PROVE UNCHANGED stat
    BY <2>7 DEF open
  <2>8. ASSUME NEW who, NEW s, NEW owner, close(who, owner, s)
        PROVE UNCHANGED stat
    BY <2>8 DEF close
  <2> QED BY <2>2, <2>3, <2>4, <2>5, <2>6, <2>7, <2>8 DEF Next
<1> QED BY <1>1, TypeCorrect, PTL DEF Spec, IssuerControlsSupply
=============================================================================
