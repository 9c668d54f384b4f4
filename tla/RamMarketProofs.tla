-------------------------- MODULE RamMarketProofs --------------------------
(***************************************************************************)
(* What holds of the RAM market for any number of accounts, any amounts    *)
(* and any growth of the RAM.                                              *)
(*                                                                         *)
(* That every sale can be paid is not inductive by itself.  What is: the   *)
(* product of the sides of the market is at least the product of all the   *)
(* RAM there is and the tokens the market was set up with.  A conversion   *)
(* rounds against the trader twice and so never lowers the left side, and  *)
(* RAM that is added raises it by a price that is at least the first one.  *)
(* Were all RAM sold back, the market would still hold the first tokens.   *)
(***************************************************************************)
EXTENDS RamMarket, FunSumsProofs, TLAPS

\* Factors keep and reflect the order of naturals.
LEMMA TimesKeepsOrder ==
  ASSUME NEW x \in Int, NEW y \in Int, NEW c \in Nat, x <= y
  PROVE  x * c <= y * c
OBVIOUS

LEMMA TimesReflectsOrder ==
  ASSUME NEW x \in Int, NEW y \in Int, NEW c \in Nat \ {0}, x * c <= y * c
  PROVE  x <= y
<1> SUFFICES ASSUME y + 1 <= x PROVE FALSE
  OBVIOUS
<1>1. (y + 1) * c <= x * c
  BY TimesKeepsOrder
<1>2. (y + 1) * c = y * c + c /\ x * c \in Int /\ y * c \in Int
  OBVIOUS
<1> QED
  BY <1>1, <1>2

\* A quotient times its divisor is at most what was divided.
LEMMA Quotient ==
  ASSUME NEW x \in Nat, NEW d \in Nat \ {0}
  PROVE  x \div d \in Nat /\ (x \div d) * d <= x
OBVIOUS

\* What an amount adds to the supply is defined.
LEMMA IssuedExists ==
  ASSUME NEW balance \in Nat \ {0}, NEW in \in Nat
  PROVE  Issued(balance, in) \in 0 .. Supply /\ IsIssued(Issued(balance, in), balance, in)
<1> DEFINE S == {e \in Nat : IsIssued(e, balance, in)}
           P(e) == IsIssued(e, balance, in) /\ ~IsIssued(e + 1, balance, in)
<1>1. Supply \in Nat \ {0}
  BY MarketAssumption
<1>2. 0 \in S
  <2>1. Supply * Supply \in Nat /\ balance + in \in Nat /\ balance + 2 * in \in Nat
    BY <1>1
  <2>2. (balance + in) * (Supply * Supply) <= (balance + 2 * in) * (Supply * Supply)
    BY <2>1, TimesKeepsOrder
  <2>3. (Supply + 0) * (Supply + 0) = Supply * Supply
    BY <1>1
  <2> QED
    BY <2>1, <2>2, <2>3 DEF IsIssued
<1>3. Supply \notin S
  <2>1. /\ Supply * Supply \in Nat \ {0}
        /\ (Supply + Supply) * (Supply + Supply) = 4 * (Supply * Supply)
    BY <1>1
  <2> DEFINE r == Supply * Supply
  <2> HIDE DEF r
  <2>2. ASSUME (4 * r) * (balance + in) <= r * (balance + 2 * in) PROVE FALSE
    <3>1. r \in Nat \ {0}
      BY <2>1 DEF r
    <3>2. (4 * r) * (balance + in) = (4 * balance + 4 * in) * r
      BY <3>1
    <3>3. r * (balance + 2 * in) = (balance + 2 * in) * r
      BY <3>1
    <3>4. 4 * balance + 4 * in <= balance + 2 * in
      BY <2>2, <3>1, <3>2, <3>3, TimesReflectsOrder
    <3> QED
      BY <3>4
  <2> QED
    BY <2>1, <2>2 DEF IsIssued, r
<1>4. \E e \in 0 .. Supply : P(e)
  <2> SUFFICES ASSUME \A e \in 0 .. Supply : ~P(e) PROVE FALSE
    OBVIOUS
  <2> DEFINE T == {n \in Nat : n <= Supply => n \in S}
  <2>1. 0 \in T
    BY <1>2
  <2>2. \A n \in Nat : n \in T => n + 1 \in T
    <3> SUFFICES ASSUME NEW n \in Nat, n \in T, n + 1 <= Supply PROVE n + 1 \in S
      OBVIOUS
    <3>1. n \in 0 .. Supply /\ n \in S
      BY <1>1
    <3>2. ~P(n) /\ IsIssued(n, balance, in)
      BY <3>1
    <3>3. IsIssued(n + 1, balance, in)
      BY <3>2
    <3> QED
      BY <3>3
  <2> HIDE DEF T
  <2>3. Nat \subseteq T
    BY <2>1, <2>2, NatSetInduction
  <2>4. Supply \in T
    BY <1>1, <2>3
  <2> QED
    BY <1>1, <1>3, <2>4 DEF T
<1> HIDE DEF P
<1>5. Issued(balance, in) = CHOOSE e \in 0 .. Supply : P(e)
  BY DEF Issued, P
<1>6. Issued(balance, in) \in 0 .. Supply /\ P(Issued(balance, in))
  BY <1>4, <1>5
<1> QED
  BY <1>6 DEF P

LEMMA ToExchange ==
  ASSUME NEW balance \in Nat \ {0}, NEW in \in Nat
  PROVE  convert_to_exchange(balance, in) = Issued(balance, in)
<1>1. ASSUME balance \in 1 .. TableSize, in \in 1 .. TableSize
      PROVE  Table[balance][in] = Issued(balance, in)
  BY <1>1 DEF Table
<1> QED
  BY <1>1 DEF convert_to_exchange

\* A conversion of in, paid into a side that holds from, gives at most the part
\* in / (from + in) of the other side.
LEMMA ConvertedBound ==
  ASSUME NEW from \in Nat \ {0}, NEW to \in Nat, NEW in \in Nat
  PROVE  Converted(from, to, in) \in Nat /\ Converted(from, to, in) * (from + in) <= to * in
<1> DEFINE e == Issued(from, in)
           r == Supply * Supply
           m == 2 * e * Supply + e * e
           out == (to * m) \div r
<1>1. e \in Nat /\ IsIssued(e, from, in)
  BY IssuedExists
<1>2. Converted(from, to, in) = out
  BY ToExchange DEF Converted, convert_from_exchange
<1>3. Supply \in Nat \ {0} /\ r \in Nat \ {0}
  BY MarketAssumption
<1> HIDE DEF e
<1>4. m \in Nat /\ (Supply + e) * (Supply + e) = r + m
  BY <1>1, <1>3
<1>5. (r + m) * (from + in) <= r * (from + 2 * in)
  BY <1>1, <1>4 DEF IsIssued
<1> HIDE DEF m, r
<1>6. m * (from + in) <= in * r
  <2>1. (r + m) * (from + in) = r * from + r * in + m * (from + in)
    BY <1>3, <1>4
  <2>2. r * (from + 2 * in) = r * from + r * in + r * in
    BY <1>3
  <2>3. /\ r * from \in Int /\ r * in \in Int /\ m * (from + in) \in Int
        /\ r * in = in * r
    BY <1>3, <1>4
  <2> QED
    BY <1>5, <2>1, <2>2, <2>3
<1>7. out \in Nat /\ out * r <= to * m
  <2>1. to * m \in Nat
    BY <1>4
  <2> QED
    BY <1>3, <2>1, Quotient
<1> HIDE DEF out
<1>8. (out * (from + in)) * r <= (to * in) * r
  <2>1. (out * r) * (from + in) <= (to * m) * (from + in)
    <3>1. out * r \in Int /\ to * m \in Int /\ from + in \in Nat
      BY <1>3, <1>4, <1>7
    <3> QED
      BY <1>7, <3>1, TimesKeepsOrder
  <2>2. (m * (from + in)) * to <= (in * r) * to
    <3>1. m * (from + in) \in Int /\ in * r \in Int
      BY <1>3, <1>4
    <3> QED
      BY <1>6, <3>1, TimesKeepsOrder
  <2>3. /\ (out * r) * (from + in) = (out * (from + in)) * r
        /\ (to * m) * (from + in) = (m * (from + in)) * to
        /\ (in * r) * to = (to * in) * r
    BY <1>3, <1>4, <1>7
  <2>4. /\ (out * (from + in)) * r \in Int /\ (m * (from + in)) * to \in Int
        /\ (to * in) * r \in Int
    BY <1>3, <1>4, <1>7
  <2> QED
    BY <2>1, <2>2, <2>3, <2>4
<1>9. out * (from + in) \in Int /\ to * in \in Int
  BY <1>7
<1> QED
  BY <1>2, <1>3, <1>7, <1>8, <1>9, TimesReflectsOrder

-----------------------------------------------------------------------------
MarketType == [base : Nat, quote : Nat]

RamType == [max : Nat, reserved : Nat, stake : Int, rate : Nat, last_increase : Nat]

\* The market m and the singletons r fit together.
Balanced(m, r) ==
    /\ m \in MarketType /\ r \in RamType
    /\ m.base >= 1 /\ m.base + r.reserved = r.max
    /\ m.quote = InitQuote + r.stake
    /\ r.max * InitQuote <= m.base * m.quote

\* A market that is balanced holds at least the tokens it was set up with.
LEMMA FirstTokensStay ==
  ASSUME NEW m, NEW r, Balanced(m, r)
  PROVE  InitQuote <= m.quote /\ r.stake >= 0
<1>1. /\ m.base \in Nat \ {0} /\ m.quote \in Nat /\ r.max \in Nat /\ InitQuote \in Nat
      /\ m.base <= r.max /\ r.stake \in Int
  BY MarketAssumption DEF Balanced, MarketType, RamType
<1>2. m.base * InitQuote <= r.max * InitQuote
  BY <1>1, TimesKeepsOrder
<1>3. InitQuote * m.base <= m.quote * m.base
  <2>1. /\ m.base * InitQuote = InitQuote * m.base /\ m.base * m.quote = m.quote * m.base
        /\ InitQuote * m.base \in Int /\ m.quote * m.base \in Int /\ r.max * InitQuote \in Int
    BY <1>1
  <2> QED
    BY <1>2, <2>1 DEF Balanced
<1>4. InitQuote <= m.quote
  BY <1>1, <1>3, TimesReflectsOrder
<1> QED
  BY <1>1, <1>4 DEF Balanced

\* RAM that is added for sale raises the product by its price.
LEMMA GrowthKeepsBalance ==
  ASSUME NEW m, NEW r, Balanced(m, r), NEW d \in Nat, NEW m2, NEW r2 \in RamType,
         m2 = [m EXCEPT !.base = @ + d], r2.max = r.max + d,
         r2.reserved = r.reserved, r2.stake = r.stake
  PROVE  /\ Balanced(m2, r2)
         /\ m.base * m.quote <= m2.base * m2.quote
<1>1. /\ m.base \in Nat \ {0} /\ m.quote \in Nat /\ r.max \in Nat /\ InitQuote \in Nat
      /\ r.reserved \in Nat
  BY MarketAssumption DEF Balanced, MarketType, RamType
<1>2. m2 \in MarketType /\ m2.base = m.base + d /\ m2.quote = m.quote
  BY DEF Balanced, MarketType
<1>3. d * InitQuote <= d * m.quote
  <2>1. InitQuote * d <= m.quote * d
    BY <1>1, FirstTokensStay, TimesKeepsOrder
  <2>2. InitQuote * d = d * InitQuote /\ m.quote * d = d * m.quote
    BY <1>1
  <2> QED
    BY <2>1, <2>2
<1>4. /\ m2.base * m2.quote = m.base * m.quote + d * m.quote
      /\ r2.max * InitQuote = r.max * InitQuote + d * InitQuote
  BY <1>1, <1>2
<1>5. /\ m.base * m.quote \in Nat /\ d * m.quote \in Nat
      /\ r.max * InitQuote \in Nat /\ d * InitQuote \in Nat
  BY <1>1
<1>6. r.max * InitQuote <= m.base * m.quote
  BY DEF Balanced
<1>7. r2.max * InitQuote <= m2.base * m2.quote /\ m.base * m.quote <= m2.base * m2.quote
  BY <1>3, <1>4, <1>5, <1>6
<1> QED
  BY <1>1, <1>2, <1>7 DEF Balanced

\* A conversion does not lower the product of the sides, nor empty one.
LEMMA ConversionKeepsProduct ==
  ASSUME NEW from \in Nat \ {0}, NEW to \in Nat \ {0}, NEW in \in Nat
  PROVE  /\ Converted(from, to, in) \in Nat
         /\ to - Converted(from, to, in) \in Nat \ {0}
         /\ from * to <= (from + in) * (to - Converted(from, to, in))
<1> DEFINE out == Converted(from, to, in)
<1>1. out \in Nat /\ out * (from + in) <= to * in
  BY ConvertedBound
<1> HIDE DEF out
<1>2. (from + in) * (to - out) = from * to + to * in - out * (from + in)
  BY <1>1
<1>3. from * to <= (from + in) * (to - out)
  <2>1. from * to \in Int /\ to * in \in Int /\ out * (from + in) \in Int
    BY <1>1
  <2> QED
    BY <1>1, <1>2, <2>1
<1>4. to - out >= 1
  <2> SUFFICES ASSUME to - out <= 0 PROVE FALSE
    BY <1>1
  <2>1. (to - out) * (from + in) <= 0 * (from + in)
    BY <1>1, TimesKeepsOrder
  <2>2. (to - out) * (from + in) = (from + in) * (to - out) /\ 0 * (from + in) = 0
    BY <1>1
  <2>3. from * to >= 1
    OBVIOUS
  <2>4. (from + in) * (to - out) \in Int /\ from * to \in Int
    BY <1>1
  <2> QED
    BY <1>3, <2>1, <2>2, <2>3, <2>4
<1> QED
  BY <1>1, <1>3, <1>4 DEF out

\* Buying RAM keeps the balance.
LEMMA BuyKeepsBalance ==
  ASSUME NEW m, NEW r, Balanced(m, r), NEW paid \in Nat, NEW out,
         out = Converted(m.quote, m.base, paid), NEW m2, NEW r2, NEW reserved, NEW stake,
         m2.base = m.base - out, m2.quote = m.quote + paid,
         m2 = [base |-> m2.base, quote |-> m2.quote],
         reserved = r.reserved + out, stake = r.stake + paid,
         r2 = [max |-> r.max, reserved |-> reserved, stake |-> stake, rate |-> r.rate,
               last_increase |-> r.last_increase]
  PROVE  /\ out \in Nat
         /\ Balanced(m2, r2)
         /\ m.base * m.quote <= m2.base * m2.quote
<1>1. /\ m.base \in Nat \ {0} /\ m.quote \in Nat \ {0} /\ r \in RamType
      /\ r.max \in Nat /\ InitQuote \in Nat \ {0} /\ r.stake \in Int /\ r.reserved \in Nat
  <2>1. InitQuote \in Nat \ {0} /\ InitQuote <= m.quote
    BY MarketAssumption, FirstTokensStay
  <2> QED
    BY <2>1 DEF Balanced, MarketType, RamType
<1>2. /\ out \in Nat /\ m.base - out \in Nat \ {0}
      /\ m.quote * m.base <= (m.quote + paid) * (m.base - out)
  BY <1>1, ConversionKeepsProduct
<1>3. m2 = [base |-> m.base - out, quote |-> m.quote + paid]
  OBVIOUS
<1>4. /\ m2 \in MarketType /\ m2.base = m.base - out /\ m2.quote = m.quote + paid
      /\ r2 \in RamType /\ r2.max = r.max /\ r2.reserved = r.reserved + out
      /\ r2.stake = r.stake + paid
  <2>2. reserved \in Nat /\ stake \in Int
    BY <1>1, <1>2
  <2>3. /\ r2 \in RamType /\ r2.max = r.max /\ r2.reserved = r.reserved + out
        /\ r2.stake = r.stake + paid
    BY <1>1, <2>2 DEF RamType
  <2>4. m2.base \in Nat /\ m2.quote \in Nat
    BY <1>1, <1>2, <1>3
  <2> QED
    BY <1>3, <2>3, <2>4 DEF MarketType
<1>5. m.base * m.quote <= m2.base * m2.quote
  <2>1. m.quote * m.base = m.base * m.quote /\ m2.quote * m2.base = m2.base * m2.quote
    BY <1>1, <1>2, <1>4
  <2> QED
    BY <1>2, <1>4, <2>1
<1>6. r2.max * InitQuote <= m2.base * m2.quote
  <2>1. r2.max * InitQuote \in Int /\ m.base * m.quote \in Int /\ m2.base * m2.quote \in Int
    BY <1>1, <1>2, <1>4
  <2> QED
    BY <1>4, <1>5, <2>1 DEF Balanced
<1>7. m2.base + r2.reserved = r2.max /\ m2.quote = InitQuote + r2.stake /\ m2.base >= 1
  BY <1>1, <1>2, <1>4 DEF Balanced
<1> QED
  BY <1>2, <1>4, <1>5, <1>6, <1>7 DEF Balanced

\* Selling RAM that was sold before keeps the balance, and takes no more than
\* what was paid for RAM.
LEMMA SaleKeepsBalance ==
  ASSUME NEW m, NEW r, Balanced(m, r), NEW bytes \in Nat, bytes <= r.reserved, NEW out,
         out = Converted(m.base, m.quote, bytes), NEW m2, NEW r2, NEW reserved, NEW stake,
         m2.base = m.base + bytes, m2.quote = m.quote - out,
         m2 = [base |-> m2.base, quote |-> m2.quote],
         reserved = r.reserved - bytes, stake = r.stake - out,
         r2 = [max |-> r.max, reserved |-> reserved, stake |-> stake, rate |-> r.rate,
               last_increase |-> r.last_increase]
  PROVE  /\ out \in Nat
         /\ out <= r.stake
         /\ Balanced(m2, r2)
         /\ m.base * m.quote <= m2.base * m2.quote
<1>1. /\ m.base \in Nat \ {0} /\ m.quote \in Nat \ {0} /\ r \in RamType
      /\ r.max \in Nat /\ InitQuote \in Nat \ {0} /\ r.stake \in Int /\ r.reserved \in Nat
  <2>1. InitQuote \in Nat \ {0} /\ InitQuote <= m.quote
    BY MarketAssumption, FirstTokensStay
  <2> QED
    BY <2>1 DEF Balanced, MarketType, RamType
<1>2. /\ out \in Nat /\ m.quote - out \in Nat \ {0}
      /\ m.base * m.quote <= (m.base + bytes) * (m.quote - out)
  BY <1>1, ConversionKeepsProduct
<1>3. m2 = [base |-> m.base + bytes, quote |-> m.quote - out]
  OBVIOUS
<1>4. /\ m2 \in MarketType /\ m2.base = m.base + bytes /\ m2.quote = m.quote - out
      /\ r2 \in RamType /\ r2.max = r.max /\ r2.reserved = r.reserved - bytes
      /\ r2.stake = r.stake - out
  <2>2. reserved \in Nat /\ stake \in Int
    BY <1>1, <1>2
  <2>3. /\ r2 \in RamType /\ r2.max = r.max /\ r2.reserved = r.reserved - bytes
        /\ r2.stake = r.stake - out
    BY <1>1, <2>2 DEF RamType
  <2>4. m2.base \in Nat /\ m2.quote \in Nat
    BY <1>1, <1>2, <1>3
  <2> QED
    BY <1>3, <2>3, <2>4 DEF MarketType
<1>5. m.base * m.quote <= m2.base * m2.quote
  BY <1>2, <1>4
<1>6. r2.max * InitQuote <= m2.base * m2.quote
  <2>1. r2.max * InitQuote \in Int /\ m.base * m.quote \in Int /\ m2.base * m2.quote \in Int
    BY <1>1, <1>2, <1>4
  <2> QED
    BY <1>4, <1>5, <2>1 DEF Balanced
<1>7. m2.base + r2.reserved = r2.max /\ m2.quote = InitQuote + r2.stake /\ m2.base >= 1
  BY <1>1, <1>2, <1>4 DEF Balanced
<1>8. Balanced(m2, r2)
  BY <1>4, <1>6, <1>7 DEF Balanced
<1>9. r2.stake >= 0
  BY <1>8, FirstTokensStay
<1>10. out <= r.stake
  BY <1>1, <1>2, <1>4, <1>9
<1> QED
  BY <1>2, <1>5, <1>8, <1>10

\* Bringing the RAM for sale up to date keeps the balance, wrapped or not.
LEMMA UpdateKeepsBalance ==
  ASSUME slot \in Nat, Balanced(market, ram)
  PROVE  LET new == update_ram_supply IN
         /\ Balanced(new.market, new.ram)
         /\ new.ram.reserved = ram.reserved /\ new.ram.stake = ram.stake
         /\ market.base * market.quote <= new.market.base * new.market.quote
<1> DEFINE state == [market |-> market, ram |-> ram]
           new_ram == ((slot - ram.last_increase) * ram.rate) % Word
<1>1. market \in MarketType /\ ram \in RamType
  BY DEF Balanced
<1>2. CASE slot <= ram.last_increase
  <2>1. update_ram_supply = state
    BY <1>2 DEF update_ram_supply
  <2>2. market.base * market.quote \in Int
    BY <1>1 DEF MarketType
  <2> QED
    BY <2>1, <2>2
<1>3. CASE ~(slot <= ram.last_increase)
  <2>1. new_ram \in Nat
    <3>1. (slot - ram.last_increase) * ram.rate \in Int
      BY <1>1 DEF RamType
    <3>2. Word \in Nat \ {0}
      BY MarketAssumption
    <3> QED
      BY <3>1, <3>2
  <2>2. update_ram_supply = [Increased(state, new_ram) EXCEPT !.ram.last_increase = slot]
    BY <1>3 DEF update_ram_supply
  <2> HIDE DEF new_ram
  <2>3. /\ update_ram_supply.market = [market EXCEPT !.base = @ + new_ram]
        /\ update_ram_supply.ram = [ram EXCEPT !.max = @ + new_ram, !.last_increase = slot]
    BY <2>2 DEF Increased
  <2>4. /\ update_ram_supply.ram \in RamType
        /\ update_ram_supply.ram.max = ram.max + new_ram
        /\ update_ram_supply.ram.reserved = ram.reserved
        /\ update_ram_supply.ram.stake = ram.stake
    <3>1. ram.max + new_ram \in Nat
      BY <1>1, <2>1 DEF RamType
    <3>2. update_ram_supply.ram
            = [ram EXCEPT !.max = ram.max + new_ram, !.last_increase = slot]
      BY <1>1, <2>3 DEF RamType
    <3> QED
      BY <1>1, <3>1, <3>2 DEF RamType
  <2>5. update_ram_supply.market = [market EXCEPT !.base = @ + new_ram]
    BY <2>3
  <2> HIDE DEF new_ram
  <2> QED
    BY <2>1, <2>4, <2>5, GrowthKeepsBalance
<1> QED
  BY <1>2, <1>3

-----------------------------------------------------------------------------
UserType == [exists : BOOLEAN, row : BOOLEAN, quota : Nat, staked : Int,
             managed : BOOLEAN, limit : Int]

Quotas == [a \in Accounts |-> users[a].quota]

UsersOK ==
    /\ users \in [Accounts -> UserType]
    /\ \A a \in Accounts : ~users[a].exists \/ ~users[a].row => users[a].quota = 0
    /\ QuotaUsable

MarketOK == slot \in Nat /\ Balanced(market, ram) /\ bank = ram.stake

Inv == UsersOK /\ MarketOK /\ ram.reserved = SumTo(Quotas, N)

ProductKept == market.base * market.quote <= market'.base * market'.quote

LEMMA InitInv == Init => Inv
<1> SUFFICES ASSUME Init PROVE Inv
  OBVIOUS
<1>1. UsersOK
  <2>1. NoUser \in UserType /\ NoUser.quota = 0
    BY DEF NoUser, UserType, Unlimited
  <2>2. \A a \in Accounts : users[a] \in UserType /\ users[a].quota = 0
    <3>1. [NoUser EXCEPT !.exists = TRUE] \in UserType
      BY <2>1 DEF NoUser, UserType, Unlimited
    <3>2. [NoUser EXCEPT !.exists = TRUE].quota = 0
      BY DEF NoUser
    <3> QED
      BY <2>1, <3>1, <3>2 DEF Init
  <2>3. users = [a \in Accounts |-> users[a]]
    BY DEF Init
  <2>4. users \in [Accounts -> UserType]
    BY <2>2, <2>3
  <2> QED
    BY <2>2, <2>4 DEF UsersOK, QuotaUsable
<1>2. MarketOK
  <2>1. market \in MarketType /\ ram \in RamType
    BY MarketAssumption DEF Init, MarketType, RamType
  <2> QED
    BY <2>1, MarketAssumption DEF Init, MarketOK, Balanced
<1>3. SumTo(Quotas, N) = 0
  <2>1. \A a \in 1 .. N : Quotas[a] = 0
    BY DEF Quotas, Init, NoUser, Accounts
  <2> QED
    BY <2>1, AccountsAssumption, SumToAllZero
<1> QED
  BY <1>1, <1>2, <1>3 DEF Inv, Init

\* What a trade does to the row and the limit of an account keeps them in order.
LEMMA TradeKeepsUsers ==
  ASSUME UsersOK, NEW a \in Accounts, NEW quota \in Nat, NEW user,
         user.quota = quota, user \in UserType, user.exists, user.row,
         users' = [users EXCEPT ![a] = WithLimit(user)]
  PROVE  UsersOK' /\ Quotas' = [Quotas EXCEPT ![a] = quota]
<1> DEFINE new == WithLimit(user)
<1>1. /\ new \in UserType /\ new.quota = quota /\ new.exists /\ new.row
      /\ new.managed = user.managed /\ (~new.managed => new.limit = quota + Gift)
  <2>1. CASE user.managed
    BY <2>1 DEF WithLimit
  <2>2. CASE ~user.managed
    <3>1. new = [user EXCEPT !.limit = quota + Gift]
      BY <2>2 DEF WithLimit
    <3>2. quota + Gift \in Int
      BY AmountsAssumption
    <3> HIDE DEF new
    <3> QED
      BY <3>1, <3>2 DEF UserType
  <2> QED
    BY <2>1, <2>2
<1> HIDE DEF new
<1>2. /\ users' \in [Accounts -> UserType]
      /\ users'[a] = new /\ \A b \in Accounts \ {a} : users'[b] = users[b]
  BY <1>1 DEF UsersOK, new
<1>3. UsersOK'
  BY <1>1, <1>2 DEF UsersOK, QuotaUsable
<1>4. Quotas' = [Quotas EXCEPT ![a] = quota]
  BY <1>1, <1>2 DEF Quotas
<1> QED
  BY <1>3, <1>4

\* One account's quota and the reserved RAM change by the same amount.
LEMMA ReservedFollows ==
  ASSUME UsersOK, NEW a \in Accounts, NEW quota \in Nat,
         Quotas' = [Quotas EXCEPT ![a] = quota]
  PROVE  SumTo(Quotas, N)' = SumTo(Quotas, N) - users[a].quota + quota
<1>1. Quotas \in [1 .. N -> Int] /\ Quotas[a] = users[a].quota /\ a \in 1 .. N
  BY DEF Quotas, UsersOK, UserType, Accounts
<1>2. SumTo([Quotas EXCEPT ![a] = quota], N) = SumTo(Quotas, N) - Quotas[a] + quota
  <2>1. quota \in Int /\ N \in Nat
    BY AccountsAssumption
  <2> QED
    BY <1>1, <2>1, SumToUpdate
<1> QED
  BY <1>1, <1>2

\* A purchase, whoever pays.
LEMMA BuyStep ==
  ASSUME Inv, NEW payer \in Accounts, NEW receiver \in Accounts, NEW quant \in Int,
         buyram(payer, receiver, quant)
  PROVE  Inv' /\ ProductKept
<1> DEFINE start == update_ram_supply
           paid == quant - Fee(quant)
           out == Converted(start.market.quote, start.market.base, paid)
           quota == users[receiver].quota + out
           user == [users[receiver] EXCEPT !.row = TRUE, !.quota = @ + out]
<1>1. /\ market' = [base |-> start.market.base - out, quote |-> start.market.quote + paid]
      /\ ram' = [start.ram EXCEPT !.reserved = @ + out, !.stake = @ + paid]
      /\ users' = [users EXCEPT ![receiver] = WithLimit(user)]
      /\ bank' = bank + paid /\ slot' = slot
      /\ paid > 0 /\ users[receiver].exists
  BY DEF buyram
<1>2. /\ Balanced(start.market, start.ram)
      /\ start.ram.reserved = ram.reserved /\ start.ram.stake = ram.stake
      /\ market.base * market.quote <= start.market.base * start.market.quote
  BY UpdateKeepsBalance DEF Inv, MarketOK
<1>3. paid \in Nat
  BY <1>1 DEF Fee
<1> HIDE DEF start, paid
<1>11. out = Converted(start.market.quote, start.market.base, paid)
  OBVIOUS
<1> HIDE DEF out
<1>4. /\ out \in Nat /\ Balanced(market', ram')
      /\ start.market.base * start.market.quote <= market'.base * market'.quote
  <2>1. /\ market'.base = start.market.base - out
        /\ market'.quote = start.market.quote + paid
        /\ market' = [base |-> market'.base, quote |-> market'.quote]
    BY <1>1
  <2>2. ram' = [max |-> start.ram.max, reserved |-> start.ram.reserved + out,
                stake |-> start.ram.stake + paid, rate |-> start.ram.rate,
                last_increase |-> start.ram.last_increase]
    BY <1>1, <1>2 DEF Balanced, RamType
  <2> QED
    BY <1>2, <1>3, <1>11, <2>1, <2>2, BuyKeepsBalance
<1>5. /\ user \in UserType /\ user.quota = quota
      /\ user.exists /\ user.row /\ quota \in Nat
  <2>1. users[receiver] \in UserType
    BY DEF Inv, UsersOK
  <2>2. users[receiver].quota + out \in Nat
    BY <1>4, <2>1 DEF UserType
  <2>3. user = [users[receiver] EXCEPT !.row = TRUE, !.quota = users[receiver].quota + out]
    BY <2>1 DEF UserType
  <2> QED
    BY <1>1, <2>1, <2>2, <2>3 DEF UserType
<1> HIDE DEF user, quota
<1>6. UsersOK' /\ Quotas' = [Quotas EXCEPT ![receiver] = quota]
  BY <1>1, <1>5, TradeKeepsUsers DEF Inv
<1>7. ram'.reserved = ram.reserved + out /\ ram'.stake = ram.stake + paid
  BY <1>1, <1>2 DEF Balanced, RamType
<1>8. ram'.reserved = SumTo(Quotas, N)'
  <2>1. SumTo(Quotas, N)' = SumTo(Quotas, N) - users[receiver].quota + quota
    BY <1>5, <1>6, ReservedFollows DEF Inv
  <2>2. users[receiver].quota \in Nat /\ ram.reserved \in Nat
    BY DEF Inv, MarketOK, Balanced, RamType, UsersOK, UserType
  <2> QED
    BY <1>4, <1>7, <2>1, <2>2 DEF Inv, quota
<1>9. MarketOK'
  BY <1>1, <1>4, <1>7 DEF Inv, MarketOK
<1>10. ProductKept
  <2>1. /\ market.base * market.quote \in Int /\ start.market.base * start.market.quote \in Int
        /\ market'.base * market'.quote \in Int
    BY <1>2, <1>4 DEF Inv, MarketOK, Balanced, MarketType
  <2> QED
    BY <1>2, <1>4, <2>1 DEF ProductKept
<1> QED
  BY <1>6, <1>8, <1>9, <1>10 DEF Inv

\* A sale of RAM that the account bought.
LEMMA SellStep ==
  ASSUME Inv, NEW account \in Accounts, NEW bytes \in Nat, sellram(account, bytes)
  PROVE  Inv' /\ ProductKept
<1> DEFINE start == update_ram_supply
           out == SaleProceeds(start, bytes)
           quota == users[account].quota - bytes
           user == [users[account] EXCEPT !.quota = @ - bytes]
<1>1. /\ market' = [base |-> start.market.base + bytes, quote |-> start.market.quote - out]
      /\ ram' = [start.ram EXCEPT !.reserved = @ - bytes, !.stake = @ - out]
      /\ users' = [users EXCEPT ![account] = WithLimit(user)]
      /\ bank' = bank - out /\ slot' = slot
      /\ bytes > 0 /\ users[account].row /\ users[account].quota >= bytes
  BY DEF sellram
<1>2. /\ Balanced(start.market, start.ram)
      /\ start.ram.reserved = ram.reserved /\ start.ram.stake = ram.stake
      /\ market.base * market.quote <= start.market.base * start.market.quote
  BY UpdateKeepsBalance DEF Inv, MarketOK
<1> HIDE DEF start
<1>3. out = Converted(start.market.base, start.market.quote, bytes)
  BY DEF SaleProceeds
<1> HIDE DEF out
<1>4. /\ users[account] \in UserType /\ users[account].quota \in Nat /\ ram.reserved \in Nat
      /\ users[account].exists
  BY <1>1 DEF Inv, UsersOK, UserType, MarketOK, Balanced, RamType
<1>5. bytes <= ram.reserved
  <2>1. Quotas \in [1 .. N -> Nat] /\ Quotas[account] = users[account].quota
        /\ account \in 1 .. N
    BY DEF Quotas, Inv, UsersOK, UserType, Accounts
  <2>2. Quotas[account] <= SumTo(Quotas, N)
    BY <2>1, AccountsAssumption, SumToBoundsValue
  <2> QED
    BY <1>1, <1>4, <2>1, <2>2 DEF Inv
<1>6. /\ out \in Nat /\ Balanced(market', ram')
      /\ start.market.base * start.market.quote <= market'.base * market'.quote
  <2>1. /\ market'.base = start.market.base + bytes
        /\ market'.quote = start.market.quote - out
        /\ market' = [base |-> market'.base, quote |-> market'.quote]
    BY <1>1
  <2>2. ram' = [max |-> start.ram.max, reserved |-> start.ram.reserved - bytes,
                stake |-> start.ram.stake - out, rate |-> start.ram.rate,
                last_increase |-> start.ram.last_increase]
    BY <1>1, <1>2 DEF Balanced, RamType
  <2> QED
    BY <1>2, <1>3, <1>5, <2>1, <2>2, SaleKeepsBalance
<1>7. /\ user \in UserType /\ user.quota = quota
      /\ user.exists /\ user.row /\ quota \in Nat
  <2>1. quota \in Nat
    BY <1>1, <1>4
  <2>2. user = [users[account] EXCEPT !.quota = quota]
    BY <1>4 DEF UserType
  <2> HIDE DEF quota
  <2> QED
    BY <1>1, <1>4, <2>1, <2>2 DEF UserType
<1> HIDE DEF user, quota
<1>8. UsersOK' /\ Quotas' = [Quotas EXCEPT ![account] = quota]
  BY <1>1, <1>7, TradeKeepsUsers DEF Inv
<1>9. ram'.reserved = ram.reserved - bytes /\ ram'.stake = ram.stake - out
  BY <1>1, <1>2 DEF Balanced, RamType
<1>10. ram'.reserved = SumTo(Quotas, N)'
  <2>1. SumTo(Quotas, N)' = SumTo(Quotas, N) - users[account].quota + quota
    BY <1>7, <1>8, ReservedFollows DEF Inv
  <2> QED
    BY <1>4, <1>9, <2>1 DEF Inv, quota
<1>11. MarketOK'
  BY <1>1, <1>6, <1>9 DEF Inv, MarketOK
<1>12. ProductKept
  <2>1. /\ market.base * market.quote \in Int /\ start.market.base * start.market.quote \in Int
        /\ market'.base * market'.quote \in Int
    BY <1>2, <1>6 DEF Inv, MarketOK, Balanced, MarketType
  <2> QED
    BY <1>2, <1>6, <2>1 DEF ProductKept
<1> QED
  BY <1>8, <1>10, <1>11, <1>12 DEF Inv

\* The RAM grows at once or at a new rate, or a block passes.
LEMMA GrowStep == Inv /\ Grow => Inv' /\ ProductKept
<1> SUFFICES ASSUME Inv, Grow PROVE Inv' /\ ProductKept
  OBVIOUS
<1>1. /\ market \in MarketType /\ ram \in RamType /\ slot \in Nat
      /\ market.base * market.quote \in Nat
  BY DEF Inv, MarketOK, Balanced, MarketType
<1>2. ASSUME UNCHANGED <<users, bank>>, slot' \in Nat, Balanced(market', ram'),
             ram'.reserved = ram.reserved, ram'.stake = ram.stake
      PROVE  Inv'
  BY <1>2 DEF Inv, UsersOK, QuotaUsable, MarketOK, Quotas
<1>3. ASSUME NEW size \in RamSizes, setram(size) PROVE Inv' /\ ProductKept
  <2>1. /\ ram.max < size /\ market' = [market EXCEPT !.base = @ + (size - ram.max)]
        /\ ram' = [ram EXCEPT !.max = size] /\ UNCHANGED <<slot, users, tokens, bank>>
    BY <1>3 DEF setram
  <2>2. size \in Nat /\ ram.max \in Nat /\ size - ram.max \in Nat
    BY <1>1, <2>1, MarketAssumption DEF RamType
  <2>3. /\ ram' \in RamType /\ ram'.max = ram.max + (size - ram.max)
        /\ ram'.reserved = ram.reserved /\ ram'.stake = ram.stake
    BY <1>1, <2>1, <2>2 DEF RamType
  <2>4. Balanced(market', ram') /\ ProductKept
    BY <2>1, <2>2, <2>3, GrowthKeepsBalance DEF Inv, MarketOK, ProductKept
  <2> QED
    BY <1>1, <1>2, <2>1, <2>3, <2>4
<1>4. ASSUME NEW rate \in Rates, setramrate(rate) PROVE Inv' /\ ProductKept
  <2> DEFINE start == update_ram_supply
  <2>1. /\ market' = start.market /\ ram' = [start.ram EXCEPT !.rate = rate]
        /\ UNCHANGED <<slot, users, tokens, bank>>
    BY <1>4 DEF setramrate
  <2>2. /\ Balanced(start.market, start.ram)
        /\ start.ram.reserved = ram.reserved /\ start.ram.stake = ram.stake
        /\ market.base * market.quote <= start.market.base * start.market.quote
    BY UpdateKeepsBalance DEF Inv, MarketOK
  <2> HIDE DEF start
  <2>3. start.ram \in RamType /\ rate \in Nat
    BY <2>2, MarketAssumption DEF Balanced
  <2>4. /\ ram' \in RamType /\ ram'.max = start.ram.max
        /\ ram'.reserved = start.ram.reserved /\ ram'.stake = start.ram.stake
    BY <2>1, <2>3 DEF RamType
  <2>5. Balanced(market', ram') /\ ProductKept
    BY <2>1, <2>2, <2>4 DEF Balanced, ProductKept
  <2> QED
    BY <1>1, <1>2, <2>1, <2>2, <2>4, <2>5
<1>5. ASSUME NextSlot PROVE Inv' /\ ProductKept
  BY <1>1, <1>2, <1>5 DEF NextSlot, Inv, MarketOK, ProductKept
<1> QED
  BY <1>3, <1>4, <1>5 DEF Grow

\* Whatever keeps the quota of an account, and its limit if it bought RAM, keeps
\* everything.
LEMMA QuotaKept ==
  ASSUME Inv, NEW a \in Accounts, NEW user \in UserType,
         users' = [users EXCEPT ![a] = user], UNCHANGED tables,
         user.quota = users[a].quota,
         ~user.exists \/ ~user.row => user.quota = 0,
         user.quota > 0 /\ ~user.managed => user.limit = user.quota + Gift
  PROVE  Inv' /\ ProductKept
<1>1. users \in [Accounts -> UserType]
  BY DEF Inv, UsersOK
<1>2. /\ users' \in [Accounts -> UserType] /\ users'[a] = user
      /\ \A b \in Accounts \ {a} : users'[b] = users[b]
  BY <1>1
<1>3. UsersOK'
  BY <1>2 DEF Inv, UsersOK, QuotaUsable
<1>4. Quotas' = Quotas
  BY <1>2 DEF Quotas
<1>5. market.base * market.quote \in Int
  BY DEF Inv, MarketOK, Balanced, MarketType
<1> QED
  BY <1>3, <1>4, <1>5 DEF Inv, MarketOK, tables, ProductKept

\* Creating, staking for and managing accounts changes no quota.
LEMMA LimitsStep == Inv /\ Limits => Inv' /\ ProductKept
<1> SUFFICES ASSUME Inv, NEW a \in Accounts,
                    \/ newaccount(a)
                    \/ \E change \in {1, -1}, both_managed \in BOOLEAN :
                          changebw(a, change, both_managed)
                    \/ \E limit \in Managed \cup {Unlimited} : setalimits(a, limit)
                    \/ \E bytes \in Managed : setacctram(a, bytes)
                    \/ unsetacctram(a)
             PROVE  Inv' /\ ProductKept
  BY DEF Limits
<1> DEFINE old == users[a]
<1>1. /\ users \in [Accounts -> UserType] /\ old \in UserType
      /\ ~old.exists \/ ~old.row => old.quota = 0
      /\ old.quota > 0 /\ ~old.managed => old.limit = old.quota + Gift
      /\ old.quota \in Nat /\ Gift \in Nat /\ Managed \subseteq Int
  BY AmountsAssumption DEF Inv, UsersOK, UserType, QuotaUsable
<1>2. CASE newaccount(a)
  <2> DEFINE user == [old EXCEPT !.exists = TRUE, !.row = TRUE, !.limit = 0]
  <2>1. users' = [users EXCEPT ![a] = user] /\ UNCHANGED tables /\ ~old.exists
    BY <1>1, <1>2 DEF newaccount
  <2>2. user \in UserType /\ user.quota = old.quota /\ user.exists /\ user.row
    <3> DEFINE new == [old EXCEPT !.exists = TRUE]
               row == [new EXCEPT !.row = TRUE]
    <3>1. new \in UserType /\ new.quota = old.quota /\ new.exists
      BY <1>1 DEF UserType
    <3>2. user = [row EXCEPT !.limit = 0]
      OBVIOUS
    <3> HIDE DEF new
    <3>3. row \in UserType /\ row.quota = old.quota /\ row.exists /\ row.row
      BY <3>1 DEF UserType
    <3> HIDE DEF row, user
    <3> QED
      BY <3>2, <3>3 DEF UserType
  <2>3. user.quota = 0
    BY <1>1, <2>1, <2>2
  <2> HIDE DEF user
  <2> QED
    <3>1. /\ user.quota = users[a].quota
          /\ ~user.exists \/ ~user.row => user.quota = 0
          /\ user.quota > 0 /\ ~user.managed => user.limit = user.quota + Gift
      BY <2>2, <2>3
    <3> QED
      BY <2>1, <2>2, <3>1, QuotaKept
<1>3. ASSUME NEW change \in {1, -1}, NEW both_managed \in BOOLEAN,
             changebw(a, change, both_managed)
      PROVE  Inv' /\ ProductKept
  <2> DEFINE staked == [old EXCEPT !.row = TRUE, !.staked = @ + change]
             least == staked.quota + Gift
             limited == IF both_managed \/ staked.managed \/ staked.limit >= least
                        THEN staked ELSE [staked EXCEPT !.limit = least]
             user == [limited EXCEPT !.row = staked.staked > 0 \/ staked.quota > 0]
  <2>1. users' = [users EXCEPT ![a] = user] /\ UNCHANGED tables /\ old.exists
    BY <1>3 DEF changebw
  <2>2. /\ staked \in UserType /\ staked.quota = old.quota /\ staked.exists
        /\ staked.managed = old.managed /\ staked.limit = old.limit
    <3>1. old.staked + change \in Int
      BY <1>1 DEF UserType
    <3>2. staked = [old EXCEPT !.row = TRUE, !.staked = old.staked + change]
      BY <1>1 DEF UserType
    <3> QED
      BY <1>1, <2>1, <3>1, <3>2 DEF UserType
  <2> HIDE DEF staked
  <2>3. /\ limited \in UserType /\ limited.quota = old.quota /\ limited.exists
        /\ limited.managed = old.managed
        /\ old.quota > 0 /\ ~old.managed => limited.limit = old.quota + Gift
    <3>1. least \in Int
      BY <1>1, <2>2
    <3>2. CASE both_managed \/ staked.managed \/ staked.limit >= least
      BY <1>1, <2>2, <3>2
    <3>3. CASE ~(both_managed \/ staked.managed \/ staked.limit >= least)
      <4>1. limited = [staked EXCEPT !.limit = least]
        BY <3>3
      <4> QED
        BY <2>2, <3>1, <4>1 DEF UserType
    <3> QED
      BY <3>2, <3>3
  <2> HIDE DEF limited
  <2>4. /\ user \in UserType /\ user.quota = old.quota /\ user.exists
        /\ user.managed = old.managed /\ user.limit = limited.limit
        /\ ~user.row => user.quota = 0
    <3>1. CASE staked.staked > 0 \/ staked.quota > 0
      <4>1. user = [limited EXCEPT !.row = TRUE]
        BY <2>3, <3>1 DEF UserType
      <4> HIDE DEF user
      <4> QED
        BY <2>3, <4>1 DEF UserType
    <3>2. CASE ~(staked.staked > 0 \/ staked.quota > 0)
      <4>1. user = [limited EXCEPT !.row = FALSE]
        BY <2>3, <3>2 DEF UserType
      <4>2. old.quota = 0
        BY <1>1, <2>2, <3>2
      <4> HIDE DEF user
      <4> QED
        BY <2>3, <4>1, <4>2 DEF UserType
    <3> QED
      BY <3>1, <3>2
  <2> HIDE DEF user
  <2> QED
    BY <2>1, <2>3, <2>4, QuotaKept
<1>4. ASSUME NEW limit \in Managed \cup {Unlimited}, setalimits(a, limit)
      PROVE  Inv' /\ ProductKept
  <2> DEFINE user == [old EXCEPT !.limit = limit]
  <2>1. users' = [users EXCEPT ![a] = user] /\ UNCHANGED tables /\ ~old.row
    BY <1>1, <1>4 DEF setalimits, OnlyUnlimited
  <2>2. limit \in Int
    BY <1>1 DEF Unlimited
  <2>3. /\ user \in UserType /\ user.quota = old.quota
    BY <1>1, <2>2 DEF UserType
  <2>4. old.quota = 0
    BY <1>1, <2>1
  <2> HIDE DEF user
  <2> QED
    <3>1. /\ user.quota = users[a].quota
          /\ ~user.exists \/ ~user.row => user.quota = 0
          /\ user.quota > 0 /\ ~user.managed => user.limit = user.quota + Gift
      BY <2>3, <2>4
    <3> QED
      BY <2>1, <2>3, <3>1, QuotaKept
<1>5. ASSUME NEW bytes \in Managed, setacctram(a, bytes) PROVE Inv' /\ ProductKept
  <2> DEFINE user == [old EXCEPT !.managed = TRUE, !.limit = bytes]
  <2>1. users' = [users EXCEPT ![a] = user] /\ UNCHANGED tables
    BY <1>1, <1>5 DEF setacctram
  <2>2. /\ user \in UserType /\ user.quota = old.quota /\ user.managed
        /\ user.exists = old.exists /\ user.row = old.row
    BY <1>1 DEF UserType
  <2> HIDE DEF user
  <2> QED
    BY <1>1, <2>1, <2>2, QuotaKept
<1>6. CASE unsetacctram(a)
  <2> DEFINE user == [old EXCEPT !.managed = FALSE, !.limit = Gift + old.quota]
  <2>1. users' = [users EXCEPT ![a] = user] /\ UNCHANGED tables
    BY <1>1, <1>6 DEF unsetacctram
  <2>2. Gift + old.quota \in Int /\ Gift + old.quota = old.quota + Gift
    BY <1>1
  <2>3. /\ user \in UserType /\ user.quota = old.quota /\ user.limit = Gift + old.quota
        /\ user.exists = old.exists /\ user.row = old.row
    BY <1>1, <2>2 DEF UserType
  <2> HIDE DEF user
  <2> QED
    BY <1>1, <2>1, <2>2, <2>3, QuotaKept
<1> QED
  BY <1>2, <1>3, <1>4, <1>5, <1>6

\* No step leaves the invariant or lowers the product of the market.
LEMMA InvStep == Inv /\ [Next]_vars => Inv' /\ (ProductKept \/ UNCHANGED vars)
<1> SUFFICES ASSUME Inv, [Next]_vars PROVE Inv' /\ (ProductKept \/ UNCHANGED vars)
  OBVIOUS
<1>1. ASSUME NEW a \in Accounts, NEW receiver \in Accounts, NEW quant \in Payments,
             buyram(a, receiver, quant)
      PROVE  Inv' /\ ProductKept
  BY <1>1, BuyStep, AmountsAssumption
<1>2. ASSUME NEW a \in Accounts, NEW receiver \in Accounts, NEW bytes \in Bytes,
             buyrambytes(a, receiver, bytes)
      PROVE  Inv' /\ ProductKept
  <2>1. /\ market.base \in Nat \ {0} /\ market.quote \in Nat /\ bytes \in Nat
    BY AmountsAssumption DEF Inv, MarketOK, Balanced, MarketType
  <2>2. Converted(market.base, market.quote, bytes) \in Int
    BY <2>1, ConvertedBound
  <2> QED
    BY <1>2, <2>2, BuyStep DEF buyrambytes
<1>3. ASSUME NEW a \in Accounts, NEW bytes \in Bytes, sellram(a, bytes)
      PROVE  Inv' /\ ProductKept
  BY <1>3, SellStep, AmountsAssumption
<1>4. CASE Trade(Payments, Bytes)
  BY <1>1, <1>2, <1>3, <1>4 DEF Trade
<1>5. CASE Limits \/ Grow
  BY <1>5, LimitsStep, GrowStep
<1>6. CASE UNCHANGED vars
  BY <1>6 DEF vars, Inv, UsersOK, QuotaUsable, MarketOK, Quotas
<1> QED
  BY <1>4, <1>5, <1>6 DEF Next

THEOREM Inductive == Spec => []Inv
<1>1. Init => Inv
  BY InitInv
<1>2. Inv /\ [Next]_vars => Inv'
  BY InvStep
<1> QED
  BY <1>1, <1>2, PTL DEF Spec

-----------------------------------------------------------------------------
\* The RAM of all accounts and the RAM for sale are all the RAM there is.
THEOREM Accounted == Spec => []RamAccounted
<1>1. Inv => RamAccounted
  BY DEF Inv, MarketOK, Balanced, Quotas, RamAccounted
<1> QED
  BY <1>1, Inductive, PTL

\* However the market was traded and grew, it can pay for every sale.
THEOREM Paid == Spec => []SalesArePaid
<1>1. Inv => SalesArePaid
  <2> SUFFICES ASSUME Inv PROVE SalesArePaid
    OBVIOUS
  <2> DEFINE start == update_ram_supply
  <2>1. /\ Balanced(start.market, start.ram)
        /\ start.ram.reserved = ram.reserved /\ start.ram.stake = ram.stake
    BY UpdateKeepsBalance DEF Inv, MarketOK
  <2>2. ram.reserved \in Nat
    BY DEF Inv, MarketOK, Balanced, RamType
  <2>3. ASSUME NEW bytes \in 1 .. ram.reserved
        PROVE  SaleProceeds(start, bytes) <= ram.stake
    <3> HIDE DEF start
    <3> DEFINE out == Converted(start.market.base, start.market.quote, bytes)
               reserved == start.ram.reserved - bytes
               stake == start.ram.stake - out
               m2 == [base |-> start.market.base + bytes, quote |-> start.market.quote - out]
               r2 == [max |-> start.ram.max, reserved |-> reserved, stake |-> stake,
                      rate |-> start.ram.rate, last_increase |-> start.ram.last_increase]
    <3>1. bytes \in Nat /\ bytes <= start.ram.reserved
      BY <2>1, <2>2
    <3>2. /\ m2.base = start.market.base + bytes /\ m2.quote = start.market.quote - out
          /\ m2 = [base |-> m2.base, quote |-> m2.quote]
      OBVIOUS
    <3>3. out <= start.ram.stake
      <4> HIDE DEF out, m2
      <4>1. out = Converted(start.market.base, start.market.quote, bytes)
        BY DEF out
      <4> QED
        BY <2>1, <3>1, <3>2, <4>1, SaleKeepsBalance
    <3> QED
      BY <2>1, <3>3 DEF SaleProceeds
  <2> QED
    BY <2>3 DEF Inv, MarketOK, Balanced, SalesArePaid
<1> QED
  BY <1>1, Inductive, PTL

\* What an account bought and was given is what it may use.
THEOREM Usable == Spec => []QuotaUsable
<1>1. Inv => QuotaUsable
  BY DEF Inv, UsersOK
<1> QED
  BY <1>1, Inductive, PTL

\* No round of trades takes more out of the market than was paid in.
THEOREM NeverLoses == Spec => MarketNeverLoses
<1>1. Inv /\ [Next]_vars => [market'.base * market'.quote >= market.base * market.quote]_vars
  <2>1. Inv /\ Inv' /\ ProductKept => market'.base * market'.quote >= market.base * market.quote
    <3> SUFFICES ASSUME Inv, Inv', ProductKept
                 PROVE  market'.base * market'.quote >= market.base * market.quote
      OBVIOUS
    <3>1. market.base * market.quote \in Int /\ market'.base * market'.quote \in Int
      BY DEF Inv, MarketOK, Balanced, MarketType
    <3> QED
      BY <3>1 DEF ProductKept
  <2> QED
    BY <2>1, InvStep
<1> QED
  BY <1>1, Inductive, PTL DEF Spec, MarketNeverLoses
============================================================================
