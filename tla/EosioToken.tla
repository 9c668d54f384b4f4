----------------------------- MODULE EosioToken -----------------------------
(***************************************************************************)
(* The eosio.token contract: the stat table (one row per symbol) and the   *)
(* accounts table (one row per symbol and owner).  An action of the        *)
(* contract runs inside one transaction: it takes all its steps, the       *)
(* inline transfer of issue included, or none, so each is one step here.   *)
(*                                                                         *)
(* Names are the numbers 1 .. N (a name is a uint64 in the code).  A       *)
(* symbol stands for a code with its precision, a quantity for a positive, *)
(* zero or negative amount of it.                                          *)
(***************************************************************************)
EXTENDS Integers, FunSums

CONSTANTS N,         \* the names are 1 .. N
          Existing,  \* the names that are accounts of the chain
          Self,      \* the account the contract is deployed on
          Symbols,   \* the symbols that may be created
          Amounts    \* the amounts actions are called with

Names == 1 .. N
NoOne == 0           \* the "payer" of a row that is not in the table

ASSUME NAssumption == N \in Nat
ASSUME ExistingAssumption == Existing \subseteq Names
ASSUME SelfAssumption == Self \in Existing
ASSUME AmountsAssumption == Amounts \subseteq Int

VARIABLES created,     \* the symbols with a row in the stat table
          supply,      \* currency_stats::supply
          max_supply,  \* currency_stats::max_supply
          issuer,      \* currency_stats::issuer
          balance,     \* account::balance, 0 where there is no row
          payer,       \* who pays the RAM of the row, NoOne without a row
          auth         \* the accounts that authorised the last action

stat == <<created, supply, max_supply, issuer>>
accounts == <<balance, payer>>
vars == <<created, supply, max_supply, issuer, balance, payer, auth>>

\* Rows keep their types.
TypeOK ==
    /\ created \in SUBSET Symbols
    /\ supply \in [Symbols -> Int]
    /\ max_supply \in [Symbols -> Int]
    /\ issuer \in [Symbols -> Names]
    /\ balance \in [Symbols -> [Names -> Int]]
    /\ payer \in [Symbols -> [Names -> Existing \cup {NoOne}]]
    /\ auth \in SUBSET Existing

Init ==
    /\ created = {}
    /\ supply = [s \in Symbols |-> 0]
    /\ max_supply = [s \in Symbols |-> 0]
    /\ issuer = [s \in Symbols |-> Self]
    /\ balance = [s \in Symbols |-> [a \in Names |-> 0]]
    /\ payer = [s \in Symbols |-> [a \in Names |-> NoOne]]
    /\ auth = {}

HasRow(s, a) == payer[s][a] # NoOne

-----------------------------------------------------------------------------
(* The tables of one symbol, as the helpers of the contract change them.   *)

\* mutants: the balance is not checked; nothing is taken from the sender; a new
\* row is charged to its owner
RowIsEnough(s, owner, value) == HasRow(s, owner)
NotTaken(bal, from, to, value) == [bal EXCEPT ![to] = bal[to] + value]
PaidByOwner(pay, owner, ram_payer) ==
    [pay EXCEPT ![owner] = IF pay[owner] = NoOne THEN owner ELSE pay[owner]]

\* sub_balance: the row must exist and cover the value; its owner pays from then on
CanSub(s, owner, value) == HasRow(s, owner) /\ balance[s][owner] >= value

\* the balances of one symbol after sub_balance(from) and add_balance(to)
Moved(bal, from, to, value) ==
    [[bal EXCEPT ![from] = bal[from] - value] EXCEPT ![to] = bal[to] + value]

\* the payers after add_balance(owner): a new row is charged to ram_payer
PaidBy(pay, owner, ram_payer) ==
    [pay EXCEPT ![owner] = IF pay[owner] = NoOne THEN ram_payer ELSE pay[owner]]

-----------------------------------------------------------------------------
\* mutant: a symbol can be created again
CreateAgain(who, s, iss, max) ==
    /\ Self \in who /\ max > 0
    /\ created' = created \cup {s}
    /\ supply' = [supply EXCEPT ![s] = 0]
    /\ max_supply' = [max_supply EXCEPT ![s] = max]
    /\ issuer' = [issuer EXCEPT ![s] = iss]
    /\ auth' = who
    /\ UNCHANGED accounts

create(who, s, iss, max) ==
    /\ Self \in who
    /\ max > 0
    /\ s \notin created
    /\ created' = created \cup {s}
    /\ supply' = [supply EXCEPT ![s] = 0]
    /\ max_supply' = [max_supply EXCEPT ![s] = max]
    /\ issuer' = [issuer EXCEPT ![s] = iss]
    /\ auth' = who
    /\ UNCHANGED accounts

\* issue adds to the issuer's balance and, for another account, transfers it
\* on by an inline action with the authority of the issuer alone
issue(who, to, s, q) ==
    LET iss == issuer[s] IN
    /\ s \in created
    /\ iss \in who
    /\ q > 0
    /\ q <= max_supply[s] - supply[s]
    /\ to # iss => to \in Existing
    /\ supply' = [supply EXCEPT ![s] = supply[s] + q]
    /\ IF to = iss
         THEN /\ balance' = [balance EXCEPT ![s] = [balance[s] EXCEPT ![iss] = balance[s][iss] + q]]
              /\ payer' = [payer EXCEPT ![s] = PaidBy(payer[s], iss, iss)]
         ELSE /\ balance' = [balance EXCEPT ![s] = [balance[s] EXCEPT ![to] = balance[s][to] + q]]
              /\ payer' = [payer EXCEPT ![s] = PaidBy([payer[s] EXCEPT ![iss] = iss], to, iss)]
    /\ auth' = who
    /\ UNCHANGED <<created, max_supply, issuer>>

retire(who, s, q) ==
    LET iss == issuer[s] IN
    /\ s \in created
    /\ iss \in who
    /\ q > 0
    /\ CanSub(s, iss, q)
    /\ supply' = [supply EXCEPT ![s] = supply[s] - q]
    /\ balance' = [balance EXCEPT ![s] = [balance[s] EXCEPT ![iss] = balance[s][iss] - q]]
    /\ payer' = [payer EXCEPT ![s] = [payer[s] EXCEPT ![iss] = iss]]
    /\ auth' = who
    /\ UNCHANGED <<created, max_supply, issuer>>

transfer(who, from, to, s, q) ==
    /\ from # to
    /\ from \in who
    /\ to \in Existing
    /\ s \in created
    /\ q > 0
    /\ CanSub(s, from, q)
    /\ balance' = [balance EXCEPT ![s] = Moved(balance[s], from, to, q)]
    /\ payer' = [payer EXCEPT ![s] =
                   PaidBy([payer[s] EXCEPT ![from] = from], to, IF to \in who THEN to ELSE from)]
    /\ auth' = who
    /\ UNCHANGED stat

open(who, owner, s, ram_payer) ==
    /\ ram_payer \in who
    /\ s \in created
    /\ payer' = [payer EXCEPT ![s] = PaidBy(payer[s], owner, ram_payer)]
    /\ auth' = who
    /\ UNCHANGED <<stat, balance>>

close(who, owner, s) ==
    /\ owner \in who
    /\ HasRow(s, owner)
    /\ balance[s][owner] = 0
    /\ balance' = [balance EXCEPT ![s] = [balance[s] EXCEPT ![owner] = 0]]
    /\ payer' = [payer EXCEPT ![s] = [payer[s] EXCEPT ![owner] = NoOne]]
    /\ auth' = who
    /\ UNCHANGED stat

Next ==
    \E who \in SUBSET Existing, s \in Symbols :
       \/ \E iss \in Names, max \in Amounts : create(who, s, iss, max)
       \/ \E to \in Names, q \in Amounts : issue(who, to, s, q)
       \/ \E q \in Amounts : retire(who, s, q)
       \/ \E from \in Names, to \in Names, q \in Amounts : transfer(who, from, to, s, q)
       \/ \E owner \in Names, p \in Names : open(who, owner, s, p)
       \/ \E owner \in Names : close(who, owner, s)

Spec == Init /\ [][Next]_vars

-----------------------------------------------------------------------------
\* Every token in circulation is in somebody's balance and no balance holds a
\* token that was never issued: the supply row that issue and retire maintain
\* is the sum of the accounts rows that transfer, open and close maintain.
SupplyIsSumOfBalances == \A s \in Symbols : supply[s] = SumTo(balance[s], N)

\* No account is overdrawn, and the contract never holds money in a row that
\* is not in the table (a balance erased by close would be lost).
Solvent ==
    \A s \in Symbols : \A a \in Names :
        balance[s][a] >= 0 /\ (balance[s][a] # 0 => HasRow(s, a))

\* The supply stays between zero and the maximum that create fixed: since it
\* also bounds every balance, the additions of add_balance cannot overflow.
SupplyCapped ==
    \A s \in created : 0 <= supply[s] /\ supply[s] <= max_supply[s]

\* A balance only falls in a transaction its owner authorised, and the RAM of
\* a row is only charged to an account that authorised the transaction: an
\* inline transfer made by issue carries no authority but the issuer's.
OwnersAuthorise ==
    [][\A s \in Symbols : \A a \in Names :
          /\ balance'[s][a] < balance[s][a] => a \in auth'
          /\ payer'[s][a] \notin {payer[s][a], NoOne} => payer'[s][a] \in auth']_vars

\* Once a symbol exists its issuer and maximum are fixed, and only the issuer
\* changes its supply.
IssuerControlsSupply ==
    [][\A s \in created :
          /\ s \in created' /\ issuer'[s] = issuer[s] /\ max_supply'[s] = max_supply[s]
          /\ supply'[s] # supply[s] => issuer[s] \in auth']_vars
=============================================================================
