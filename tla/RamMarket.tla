----------------------------- MODULE RamMarket -----------------------------
(***************************************************************************)
(* The market for RAM (delegate_bandwidth.cpp, exchange_state.cpp,         *)
(* eosio.system.cpp).  The system contract holds what is not sold of the   *)
(* RAM and trades it for tokens, through a token of the market itself      *)
(* (RAMCORE) against which each side has a weight of 1/2.  The RAM that an *)
(* account may use, its limit, is what it bought and a gift, unless the    *)
(* account is managed.  The RAM for sale grows with every block, and is    *)
(* brought up to date lazily.                                              *)
(*                                                                         *)
(* The doubles of the conversions are modelled as exact numbers, rounded   *)
(* down where the code rounds.                                             *)
(***************************************************************************)
EXTENDS Integers, FunSums

CONSTANTS N,            \* the accounts are 1 .. N
          Genesis,      \* the accounts that exist before the contract is set up
          InitRam,      \* max_ram_size when init is called
          InitQuote,    \* a thousandth of the token supply when init is called
          Supply,       \* the supply of RAMCORE
          TableSize,    \* the conversions up to this amount are computed in advance
          Word,         \* block slots and their product with the rate wrap here (2^32)
          Rates,        \* the rates of setramrate, in bytes per block
          RamSizes,     \* the sizes of setram
          InitTokens,   \* the tokens of each account
          Payments,     \* the amounts of buyram
          Bytes,        \* the amounts of buyrambytes and sellram
          Managed,      \* the limits of setacctram
          Gift,         \* ram_gift_bytes
          MaxStaked,    \* bound on the stake of an account
          MaxSlot       \* bound on the time, in block slots

Accounts == 1 .. N
Unlimited == -1

ASSUME AccountsAssumption == N \in Nat /\ Genesis \subseteq Accounts
ASSUME MarketAssumption ==
    /\ InitRam \in Nat \ {0} /\ InitQuote \in Nat \ {0} /\ Supply \in Nat \ {0}
    /\ Word \in Nat \ {0} /\ Rates \subseteq Nat /\ RamSizes \subseteq Nat
ASSUME AmountsAssumption ==
    /\ InitTokens \in Nat /\ Payments \subseteq Nat /\ Bytes \subseteq Nat
    /\ Managed \subseteq Int /\ Gift \in Nat

VARIABLES slot,    \* current_block_time
          market,  \* table rammarket: base is RAM, quote is tokens
          ram,     \* the singletons: size, RAM and tokens traded, rate of increase
          users,   \* table userres of each account, and its limit in the chain
          tokens,  \* liquid tokens of each account
          bank     \* the balance of eosio.ram; fees leave the market for good

vars == <<slot, market, ram, users, tokens, bank>>

NoUser == [exists |-> FALSE, row |-> FALSE, quota |-> 0, staked |-> 0,
           managed |-> FALSE, limit |-> Unlimited]

Init ==
    /\ slot = 0
    /\ market = [base |-> InitRam, quote |-> InitQuote]
    /\ ram = [max |-> InitRam, reserved |-> 0, stake |-> 0, rate |-> 0, last_increase |-> 0]
    /\ users = [a \in Accounts |->
                  IF a \in Genesis THEN [NoUser EXCEPT !.exists = TRUE] ELSE NoUser]
    /\ tokens = [a \in Accounts |-> InitTokens]
    /\ bank = 0

-----------------------------------------------------------------------------
(* The exchange.                                                           *)

\* What in adds to the supply when it is paid into a side that holds balance:
\* supply * ((1 + in / (balance + in)) ^ (1/2) - 1), rounded down.
IsIssued(e, balance, in) ==
    (Supply + e) * (Supply + e) * (balance + in) <= Supply * Supply * (balance + 2 * in)

Issued(balance, in) ==
    CHOOSE e \in 0 .. Supply : IsIssued(e, balance, in) /\ ~IsIssued(e + 1, balance, in)

\* The amounts up to TableSize are computed once.
Table == [balance \in 1 .. TableSize |-> [in \in 1 .. TableSize |-> Issued(balance, in)]]

convert_to_exchange(balance, in) ==
    IF balance \in 1 .. TableSize /\ in \in 1 .. TableSize
    THEN Table[balance][in] ELSE Issued(balance, in)

\* mutant: rounded up
RoundedUp(balance, e) == (balance * (2 * e * Supply + e * e)) \div (Supply * Supply) + 1

\* What e gives back of a side that holds balance:
\* balance * ((1 + e / supply) ^ 2 - 1), rounded down.
convert_from_exchange(balance, e) ==
    (balance * (2 * e * Supply + e * e)) \div (Supply * Supply)

Converted(from, to, in) == convert_from_exchange(to, convert_to_exchange(from, in))

\* mutant: only what was sold comes to be for sale
Grown(state, new) == [state EXCEPT !.ram.max = @ + new]

Increased(state, new) == [state EXCEPT !.ram.max = @ + new, !.market.base = @ + new]

\* update_ram_supply, from and to [market |-> ..., ram |-> ...]
update_ram_supply ==
    LET state == [market |-> market, ram |-> ram]
        new_ram == ((slot - ram.last_increase) * ram.rate) % Word
    IN IF slot <= ram.last_increase THEN state
       ELSE [Increased(state, new_ram) EXCEPT !.ram.last_increase = slot]

Fee(amount) == (amount + 199) \div 200

\* The limit after a trade
WithLimit(user) == IF user.managed THEN user ELSE [user EXCEPT !.limit = user.quota + Gift]

-----------------------------------------------------------------------------
(* Actions.                                                                *)

buyram(payer, receiver, quant) ==
    LET start == update_ram_supply
        paid == quant - Fee(quant)
        bytes_out == Converted(start.market.quote, start.market.base, paid)
        user == [users[receiver] EXCEPT !.row = TRUE, !.quota = @ + bytes_out]
    IN /\ users[payer].exists /\ users[receiver].exists
       /\ quant <= tokens[payer]
       /\ paid > 0 /\ bytes_out > 0
       /\ market' = [base |-> start.market.base - bytes_out, quote |-> start.market.quote + paid]
       /\ ram' = [start.ram EXCEPT !.reserved = @ + bytes_out, !.stake = @ + paid]
       /\ users' = [users EXCEPT ![receiver] = WithLimit(user)]
       /\ tokens' = [tokens EXCEPT ![payer] = @ - quant]
       /\ bank' = bank + paid
       /\ UNCHANGED slot

\* The price is taken from the market as it was last updated.
buyrambytes(payer, receiver, bytes) ==
    buyram(payer, receiver, Converted(market.base, market.quote, bytes))

SaleProceeds(start, bytes) == Converted(start.market.base, start.market.quote, bytes)

sellram(account, bytes) ==
    LET start == update_ram_supply
        tokens_out == SaleProceeds(start, bytes)
        user == [users[account] EXCEPT !.quota = @ - bytes]
    IN /\ bytes > 0 /\ users[account].row /\ users[account].quota >= bytes
       /\ tokens_out > 1
       /\ market' = [base |-> start.market.base + bytes,
                     quote |-> start.market.quote - tokens_out]
       /\ ram' = [start.ram EXCEPT !.reserved = @ - bytes, !.stake = @ - tokens_out]
       /\ ram'.stake >= 0
       /\ users' = [users EXCEPT ![account] = WithLimit(user)]
       /\ tokens' = [tokens EXCEPT ![account] = @ + tokens_out - Fee(tokens_out)]
       /\ bank' = bank - tokens_out
       /\ UNCHANGED slot

setram(max_ram_size) ==
    /\ ram.max < max_ram_size /\ max_ram_size > ram.reserved
    /\ market' = [market EXCEPT !.base = @ + (max_ram_size - ram.max)]
    /\ ram' = [ram EXCEPT !.max = max_ram_size]
    /\ UNCHANGED <<slot, users, tokens, bank>>

setramrate(bytes_per_block) ==
    LET start == update_ram_supply IN
    /\ market' = start.market
    /\ ram' = [start.ram EXCEPT !.rate = bytes_per_block]
    /\ UNCHANGED <<slot, users, tokens, bank>>

tables == <<slot, market, ram, tokens, bank>>

newaccount(a) ==
    /\ ~users[a].exists
    /\ users' = [users EXCEPT ![a].exists = TRUE, ![a].row = TRUE, ![a].limit = 0]
    /\ UNCHANGED tables

\* The part of delegatebw and undelegatebw (changebw) that concerns the row and
\* the RAM limit of the receiver; both_managed: its NET and CPU limits are set
\* by the chain.  What REX does to the row (update_resource_limits) leaves the
\* RAM limit alone as well.
changebw(a, change, both_managed) ==
    LET user == [users[a] EXCEPT !.row = TRUE, !.staked = @ + change]
        least == user.quota + Gift
        limited == IF both_managed \/ user.managed \/ user.limit >= least
                   THEN user ELSE [user EXCEPT !.limit = least]
    IN /\ users[a].exists /\ user.staked \in 0 .. MaxStaked
       /\ users' = [users EXCEPT ![a] =
                      [limited EXCEPT !.row = user.staked > 0 \/ user.quota > 0]]
       /\ UNCHANGED tables

\* mutant: an account with a row may be set, too
AnyAccount(a) == users[a].exists /\ ~users[a].managed

OnlyUnlimited(a) == users[a].exists /\ ~users[a].row /\ ~users[a].managed

setalimits(a, limit) ==
    /\ OnlyUnlimited(a)
    /\ users' = [users EXCEPT ![a].limit = limit]
    /\ UNCHANGED tables

\* setacctram with a limit, and without
setacctram(a, bytes) ==
    /\ users[a].exists /\ bytes >= 0
    /\ users' = [users EXCEPT ![a].managed = TRUE, ![a].limit = bytes]
    /\ UNCHANGED tables

unsetacctram(a) ==
    /\ users[a].managed
    /\ users' = [users EXCEPT ![a].managed = FALSE, ![a].limit = Gift + users[a].quota]
    /\ UNCHANGED tables

NextSlot ==
    /\ slot < MaxSlot
    /\ slot' = slot + 1
    /\ UNCHANGED <<market, ram, users, tokens, bank>>

Trade(payments, amounts) ==
    \E a \in Accounts :
       \/ \E receiver \in Accounts, quant \in payments : buyram(a, receiver, quant)
       \/ \E receiver \in Accounts, bytes \in amounts : buyrambytes(a, receiver, bytes)
       \/ \E bytes \in amounts : sellram(a, bytes)

Limits ==
    \E a \in Accounts :
       \/ newaccount(a)
       \/ \E change \in {1, -1}, both_managed \in BOOLEAN : changebw(a, change, both_managed)
       \/ \E limit \in Managed \cup {Unlimited} : setalimits(a, limit)
       \/ \E bytes \in Managed : setacctram(a, bytes)
       \/ unsetacctram(a)

Grow ==
    \/ \E size \in RamSizes : setram(size)
    \/ \E rate \in Rates : setramrate(rate)
    \/ NextSlot

Next == Trade(Payments, Bytes) \/ Limits \/ Grow

Spec == Init /\ [][Next]_vars

-----------------------------------------------------------------------------
(* Properties.                                                             *)

\* All RAM is either for sale or sold to some account, after any trades,
\* increases of the size and wrapped products of slots and rate.
RamAccounted ==
    /\ market.base + ram.reserved = ram.max
    /\ LET quota == [a \in Accounts |-> users[a].quota] IN ram.reserved = SumTo(quota, N)

\* The tokens that were paid for RAM are in eosio.ram and in the quote side of
\* the market, and no sale that an account can afford takes more than them:
\* the last check of sellram ("this shouldn't happen") never fails.
SalesArePaid ==
    /\ bank = ram.stake /\ market.quote = InitQuote + ram.stake
    /\ \A bytes \in 1 .. ram.reserved :
          SaleProceeds(update_ram_supply, bytes) <= ram.stake

\* The RAM that an account bought and was given is what it may use, unless its
\* limit is managed, whatever was done before with its stakes and limits.
QuotaUsable ==
    \A a \in Accounts :
       users[a].quota > 0 /\ ~users[a].managed => users[a].limit = users[a].quota + Gift

\* No trade lowers the product of the two sides of the market, so no round of
\* trades, of any accounts, takes out of it more than was paid in.
MarketNeverLoses ==
    [][market'.base * market'.quote >= market.base * market.quote]_vars
============================================================================
