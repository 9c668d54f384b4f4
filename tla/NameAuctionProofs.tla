------------------------- MODULE NameAuctionProofs -------------------------
(***************************************************************************)
(* What holds of the name auctions for every number of names and bidders,  *)
(* all bids and any order of bids, closes, claims and refunds.             *)
(*                                                                         *)
(* The balance of eosio.names and the money of each bidder are compared    *)
(* with sums over the names; every step changes the summands of one name,  *)
(* and SumToAdd turns that into the change of the sum.                     *)
(***************************************************************************)
EXTENDS NameAuction, FunSumsProofs, TLAPS

\* Who leads in an auction or has won it is a bidder.
BidsOK == \A n \in Names : bid[n].high_bid # 0 => bid[n].high_bidder \in Bidders

\* Proceeds wait only while somebody holds REX.
ProceedsHeld == proceeds > 0 => rex_available

Types == TypeOK /\ BidsOK /\ ProceedsHeld

\* The summands of NamesBacked and BiddersMadeWhole.
OpenBids == [n \in Names |-> IF IsOpen(n) THEN bid[n].high_bid ELSE 0]
Refunds == [n \in Names |-> SumBidders(refund[n])]
RefundsTo(a) == [n \in Names |-> refund[n][a]]
BidsOf(a) == [n \in Names |-> IF bid[n].high_bidder = a THEN Abs(bid[n].high_bid) ELSE 0]

Whole(a) == InitOwn = own[a] + spent[a] + SumNames(RefundsTo(a)) + SumNames(BidsOf(a))

Inv == Types /\ NamesBacked /\ BiddersMadeWhole /\ RefundUnderWay

LEMMA NamesBackedDef ==
  NamesBacked <=> names_balance = SumNames(OpenBids) + SumNames(Refunds) + proceeds + kept
BY DEF NamesBacked, OpenBids, Refunds

LEMMA WholeDef == BiddersMadeWhole <=> \A a \in Bidders : Whole(a)
BY DEF BiddersMadeWhole, Whole, RefundsTo, BidsOf

\* The sums are over functions of the right type.
LEMMA SumTypes ==
  TypeOK =>
     /\ OpenBids \in [Names -> Nat] /\ Refunds \in [Names -> Nat]
     /\ SumNames(OpenBids) \in Nat /\ SumNames(Refunds) \in Nat
     /\ \A a \in Bidders :
           /\ RefundsTo(a) \in [Names -> Nat] /\ BidsOf(a) \in [Names -> Nat]
           /\ SumNames(RefundsTo(a)) \in Nat /\ SumNames(BidsOf(a)) \in Nat
<1> SUFFICES ASSUME TypeOK
    PROVE  /\ OpenBids \in [Names -> Nat] /\ Refunds \in [Names -> Nat]
           /\ SumNames(OpenBids) \in Nat /\ SumNames(Refunds) \in Nat
           /\ \A a \in Bidders :
                 /\ RefundsTo(a) \in [Names -> Nat] /\ BidsOf(a) \in [Names -> Nat]
                 /\ SumNames(RefundsTo(a)) \in Nat /\ SumNames(BidsOf(a)) \in Nat
  OBVIOUS
<1>1. OpenBids \in [Names -> Nat]
  BY DEF TypeOK, OpenBids, IsOpen
<1>2. ASSUME NEW n \in Names PROVE SumBidders(refund[n]) \in Nat
  <2>1. refund[n] \in [1 .. BidderCount -> Nat]
    BY DEF TypeOK, Bidders
  <2> QED
    BY <2>1, CountAssumption, SumToNat DEF SumBidders
<1>3. Refunds \in [Names -> Nat]
  BY <1>2 DEF Refunds
<1>4. ASSUME NEW a \in Bidders PROVE RefundsTo(a) \in [Names -> Nat] /\ BidsOf(a) \in [Names -> Nat]
  BY <1>4 DEF TypeOK, RefundsTo, BidsOf, Abs
<1>5. ASSUME NEW f \in [Names -> Nat] PROVE SumNames(f) \in Nat
  BY <1>5, CountAssumption, SumToNat DEF SumNames, Names
<1> QED
  BY <1>1, <1>3, <1>4, <1>5

LEMMA SumTypesNext ==
  TypeOK' =>
     /\ OpenBids' \in [Names -> Nat] /\ Refunds' \in [Names -> Nat]
     /\ \A a \in Bidders : RefundsTo(a)' \in [Names -> Nat] /\ BidsOf(a)' \in [Names -> Nat]
<1> SUFFICES ASSUME TypeOK'
    PROVE  /\ OpenBids' \in [Names -> Nat] /\ Refunds' \in [Names -> Nat]
           /\ \A a \in Bidders : RefundsTo(a)' \in [Names -> Nat] /\ BidsOf(a)' \in [Names -> Nat]
  OBVIOUS
<1>1. OpenBids' \in [Names -> Nat]
  BY DEF TypeOK, OpenBids, IsOpen
<1>2. ASSUME NEW n \in Names PROVE SumBidders(refund'[n]) \in Nat
  <2>1. refund'[n] \in [1 .. BidderCount -> Nat]
    BY DEF TypeOK, Bidders
  <2> QED
    BY <2>1, CountAssumption, SumToNat DEF SumBidders
<1>3. Refunds' \in [Names -> Nat]
  BY <1>2 DEF Refunds, SumBidders
<1>4. ASSUME NEW a \in Bidders PROVE RefundsTo(a)' \in [Names -> Nat] /\ BidsOf(a)' \in [Names -> Nat]
  BY <1>4 DEF TypeOK, RefundsTo, BidsOf, Abs
<1> QED
  BY <1>1, <1>3, <1>4

\* A sum over the names changes by the change of one summand.
LEMMA NamesAdd ==
  ASSUME NEW f \in [Names -> Nat], NEW g \in [Names -> Nat], NEW k \in Names, NEW d \in Int,
         g[k] = f[k] + d, \A n \in Names : n # k => g[n] = f[n]
  PROVE  SumNames(g) = SumNames(f) + d
<1>1. f \in [1 .. NameCount -> Int] /\ g \in [1 .. NameCount -> Int] /\ k \in 1 .. NameCount
  BY DEF Names
<1> QED
  BY <1>1, CountAssumption, SumToAdd DEF SumNames, Names

\* The refunds of one name change by the change of one bidder's.
LEMMA RefundsAdd ==
  ASSUME TypeOK, NEW n \in Names, NEW a \in Bidders, NEW d \in Int, refund[n][a] + d \in Nat
  PROVE  SumBidders([refund[n] EXCEPT ![a] = refund[n][a] + d]) = SumBidders(refund[n]) + d
<1> DEFINE f == refund[n]
           g == [f EXCEPT ![a] = f[a] + d]
<1>1. f \in [1 .. BidderCount -> Int] /\ a \in 1 .. BidderCount
  BY DEF TypeOK, Bidders
<1>2. f[a] \in Int /\ f[a] + d \in Int
  BY DEF TypeOK
<1>3. g \in [1 .. BidderCount -> Int] /\ g[a] = f[a] + d
      /\ \A i \in 1 .. BidderCount : i # a => g[i] = f[i]
  BY <1>1, <1>2
<1>4. BidderCount \in Nat
  BY CountAssumption
<1> HIDE DEF f, g
<1>5. SumTo(g, BidderCount) = SumTo(f, BidderCount) + d
  BY <1>1, <1>3, <1>4, SumToAdd
<1> QED
  BY <1>5 DEF f, g, SumBidders

-----------------------------------------------------------------------------
LEMMA InitInv == Init => Inv
<1> SUFFICES ASSUME Init PROVE Inv
  OBVIOUS
<1>1. Types
  <2>1. Day \in Nat \ {0} /\ Wait \in Nat \ {0} /\ InitOwn \in Nat
    BY BidsAssumption, TimeAssumption
  <2>2. bid \in [Names -> [high_bidder : Bidders \cup {Nobody}, high_bid : Int]]
    BY DEF Init, NoBid
  <2>3. bid_age \in [Names -> 0 .. Day + 1] /\ close_age \in 0 .. Day + 1
    BY <2>1 DEF Init
  <2>4. refund \in [Names -> [Bidders -> Nat]]
    BY DEF Init
  <2>5. own \in [Bidders -> Nat] /\ spent \in [Bidders -> Nat]
    BY <2>1 DEF Init
  <2>6. owner \in [Names -> Bidders \cup {Nobody, System}]
    BY DEF Init
  <2>7. deferred \subseteq Names \X Bidders /\ lost \subseteq Names \X Bidders
    BY DEF Init
  <2>8. /\ names_balance \in Nat /\ proceeds \in Nat /\ kept \in Nat
        /\ rex_available \in BOOLEAN /\ active_age \in 0 .. Wait + 1 \cup {Never}
    BY DEF Init
  <2>9. TypeOK
    BY <2>2, <2>3, <2>4, <2>5, <2>6, <2>7, <2>8 DEF TypeOK
  <2> QED
    BY <2>9 DEF Init, Types, BidsOK, ProceedsHeld, NoBid
<1>2. \A n \in Names : OpenBids[n] = 0 /\ Refunds[n] = 0
  <2>1. ASSUME NEW n \in Names PROVE SumBidders(refund[n]) = 0
    <3>1. \A i \in 1 .. BidderCount : refund[n][i] = 0
      BY DEF Init, Bidders
    <3> QED
      BY <3>1, CountAssumption, SumToAllZero DEF SumBidders
  <2> QED
    BY <2>1 DEF Init, OpenBids, Refunds, IsOpen, NoBid
<1>3. ASSUME NEW f, \A n \in Names : f[n] = 0 PROVE SumNames(f) = 0
  BY <1>3, CountAssumption, SumToAllZero DEF SumNames, Names
<1>4. NamesBacked
  BY <1>2, <1>3, NamesBackedDef DEF Init
<1>5. BiddersMadeWhole
  <2>1. ASSUME NEW a \in Bidders PROVE Whole(a)
    <3>1. \A n \in Names : RefundsTo(a)[n] = 0 /\ BidsOf(a)[n] = 0
      BY DEF Init, RefundsTo, BidsOf, Abs, NoBid
    <3> QED
      BY <1>3, <3>1, BidsAssumption DEF Init, Whole
  <2> QED
    BY <2>1, WholeDef
<1>6. RefundUnderWay
  BY DEF Init, RefundUnderWay
<1> QED
  BY <1>1, <1>4, <1>5, <1>6 DEF Inv

-----------------------------------------------------------------------------
\* NamesBacked after a step that changes one open bid and the refunds of one
\* name, or neither.
LEMMA BackedStep ==
  ASSUME TypeOK, TypeOK', NamesBacked, NEW k \in Names, NEW d \in Int, NEW e \in Int,
         OpenBids'[k] = OpenBids[k] + d,
         \A n \in Names : n # k => OpenBids'[n] = OpenBids[n],
         Refunds'[k] = Refunds[k] + e,
         \A n \in Names : n # k => Refunds'[n] = Refunds[n],
         names_balance' = names_balance + d + e + (proceeds' - proceeds) + (kept' - kept)
  PROVE  NamesBacked'
<1>1. /\ OpenBids \in [Names -> Nat] /\ Refunds \in [Names -> Nat]
      /\ SumNames(OpenBids) \in Nat /\ SumNames(Refunds) \in Nat
  BY SumTypes
<1>2. OpenBids' \in [Names -> Nat] /\ Refunds' \in [Names -> Nat]
  BY SumTypesNext
<1>3. SumNames(OpenBids') = SumNames(OpenBids) + d
  BY <1>1, <1>2, NamesAdd
<1>4. SumNames(Refunds') = SumNames(Refunds) + e
  BY <1>1, <1>2, NamesAdd
<1>5. names_balance = SumNames(OpenBids) + SumNames(Refunds) + proceeds + kept
  BY NamesBackedDef
<1>6. names_balance' = SumNames(OpenBids') + SumNames(Refunds') + proceeds' + kept'
  BY <1>1, <1>3, <1>4, <1>5 DEF TypeOK
<1>7. NamesBacked' <=> names_balance' = SumNames(OpenBids)' + SumNames(Refunds)' + proceeds' + kept'
  BY DEF NamesBacked, OpenBids, Refunds, SumNames
<1> QED
  BY <1>6, <1>7 DEF SumNames

LEMMA BackedSame ==
  ASSUME TypeOK, TypeOK', NamesBacked, UNCHANGED <<bid, refund>>,
         names_balance' = names_balance + (proceeds' - proceeds) + (kept' - kept)
  PROVE  NamesBacked'
<1>1. OpenBids' = OpenBids /\ Refunds' = Refunds
  BY DEF OpenBids, Refunds, IsOpen
<1>2. SumNames(OpenBids) \in Nat /\ SumNames(Refunds) \in Nat
  BY SumTypes
<1>3. names_balance = SumNames(OpenBids) + SumNames(Refunds) + proceeds + kept
  BY NamesBackedDef
<1>4. names_balance' = SumNames(OpenBids') + SumNames(Refunds') + proceeds' + kept'
  BY <1>1, <1>2, <1>3 DEF TypeOK
<1>5. NamesBacked' <=> names_balance' = SumNames(OpenBids)' + SumNames(Refunds)' + proceeds' + kept'
  BY DEF NamesBacked, OpenBids, Refunds, SumNames
<1> QED
  BY <1>4, <1>5 DEF SumNames

\* What a bidder has in all after a step that changes its refund of one name
\* and what it leads or won that name with.
LEMMA WholeStep ==
  ASSUME TypeOK, TypeOK', NEW a \in Bidders, Whole(a),
         NEW k \in Names, NEW d \in Int, NEW e \in Int,
         refund'[k][a] = refund[k][a] + d,
         \A n \in Names : n # k => refund'[n][a] = refund[n][a],
         BidsOf(a)'[k] = BidsOf(a)[k] + e,
         \A n \in Names : n # k => bid'[n] = bid[n],
         own'[a] + spent'[a] + d + e = own[a] + spent[a]
  PROVE  Whole(a)'
<1>1. /\ RefundsTo(a) \in [Names -> Nat] /\ BidsOf(a) \in [Names -> Nat]
      /\ SumNames(RefundsTo(a)) \in Nat /\ SumNames(BidsOf(a)) \in Nat
  BY SumTypes
<1>2. RefundsTo(a)' \in [Names -> Nat] /\ BidsOf(a)' \in [Names -> Nat]
  <2>1. \A b \in Bidders : RefundsTo(b)' \in [Names -> Nat] /\ BidsOf(b)' \in [Names -> Nat]
    BY SumTypesNext
  <2> QED
    BY <2>1
<1>3. SumNames(RefundsTo(a)') = SumNames(RefundsTo(a)) + d
  <2>1. /\ RefundsTo(a)'[k] = RefundsTo(a)[k] + d
        /\ \A n \in Names : n # k => RefundsTo(a)'[n] = RefundsTo(a)[n]
    BY DEF RefundsTo
  <2> QED
    BY <1>1, <1>2, <2>1, NamesAdd
<1>4. SumNames(BidsOf(a)') = SumNames(BidsOf(a)) + e
  <2>1. \A n \in Names : n # k => BidsOf(a)'[n] = BidsOf(a)[n]
    BY DEF BidsOf
  <2> QED
    BY <1>1, <1>2, <2>1, NamesAdd
<1>5. /\ own[a] \in Nat /\ spent[a] \in Nat /\ own'[a] \in Nat /\ spent'[a] \in Nat
      /\ InitOwn \in Nat
  BY BidsAssumption DEF TypeOK
<1>6. InitOwn = own'[a] + spent'[a] + SumNames(RefundsTo(a)') + SumNames(BidsOf(a)')
  BY <1>1, <1>3, <1>4, <1>5 DEF Whole
<1> QED
  BY <1>6 DEF Whole, SumNames

LEMMA WholeSame ==
  ASSUME BiddersMadeWhole, UNCHANGED <<bid, refund, own, spent>>
  PROVE  BiddersMadeWhole'
BY DEF BiddersMadeWhole, SumNames

-----------------------------------------------------------------------------
\* A bid: the bidder pays it in, and the bid it tops becomes a refund.
LEMMA BidTypes ==
  ASSUME Types, NEW a \in Bidders, NEW n \in Names, NEW amount \in Bids[n], bidname(a, n, amount)
  PROVE  /\ Types' /\ amount \in Nat /\ amount > 0 /\ own[a] \in Nat /\ bid[n].high_bid \in Nat
         /\ bid[n].high_bid > 0 => bid[n].high_bidder \in Bidders \ {a}
         /\ bid'[n] = [high_bidder |-> a, high_bid |-> amount]
         /\ \A m \in Names : m # n => bid'[m] = bid[m]
<1>1. amount \in Nat \ {0} /\ own[a] \in Nat /\ amount <= own[a]
  BY BidsAssumption DEF bidname, Types, TypeOK
<1>2. bid'[n] = [high_bidder |-> a, high_bid |-> amount] /\ \A m \in Names : m # n => bid'[m] = bid[m]
  BY DEF bidname, Types, TypeOK
<1>3. bid[n] = NoBid \/ Outbids(a, n, amount)
  BY DEF bidname
<1>4. bid[n].high_bid \in Nat /\ (bid[n].high_bid > 0 => bid[n].high_bidder \in Bidders \ {a})
  BY <1>3 DEF NoBid, Outbids, IsOpen, Types, TypeOK, BidsOK
<1>5. refund' \in [Names -> [Bidders -> Nat]] /\ deferred' \subseteq Names \X Bidders
      /\ lost' \subseteq Names \X Bidders
  <2>1. CASE bid[n] = NoBid
    BY <2>1 DEF bidname, Types, TypeOK
  <2>2. CASE bid[n] # NoBid
    <3> DEFINE b == bid[n].high_bidder
    <3>1. b \in Bidders /\ bid[n].high_bid \in Nat /\ refund[n][b] + bid[n].high_bid \in Nat
      BY <2>2, <1>3, <1>4 DEF Outbids, IsOpen, Types, TypeOK
    <3>2. refund' = Refunded(n, b, bid[n].high_bid) /\ deferred' = Sent(n, b, a) /\ lost' = lost \ {<<n, b>>}
      BY <2>2 DEF bidname
    <3> QED
      BY <3>1, <3>2 DEF Refunded, Sent, Types, TypeOK
  <2> QED
    BY <2>1, <2>2
<1>6. bid' \in [Names -> [high_bidder : Bidders \cup {Nobody}, high_bid : Int]]
  BY <1>1 DEF bidname, Types, TypeOK
<1>7. own' \in [Bidders -> Nat] /\ names_balance' \in Nat
  BY <1>1 DEF bidname, Types, TypeOK
<1>8. bid_age' \in [Names -> 0 .. Day + 1]
  BY TimeAssumption DEF bidname, Types, TypeOK
<1>9. TypeOK'
  BY <1>5, <1>6, <1>7, <1>8 DEF bidname, Types, TypeOK, rex, accounts
<1>10. BidsOK' /\ ProceedsHeld'
  BY <1>2 DEF bidname, Types, BidsOK, ProceedsHeld, rex
<1> QED
  BY <1>1, <1>2, <1>4, <1>9, <1>10 DEF Types

LEMMA BidBacked ==
  ASSUME Inv, NEW a \in Bidders, NEW n \in Names, NEW amount \in Bids[n], bidname(a, n, amount)
  PROVE  NamesBacked'
<1> DEFINE h == bid[n].high_bid
           b == bid[n].high_bidder
<1>1. /\ Types' /\ amount \in Nat /\ amount > 0 /\ h \in Nat
      /\ (h > 0 => b \in Bidders \ {a})
      /\ bid'[n] = [high_bidder |-> a, high_bid |-> amount]
      /\ \A m \in Names : m # n => bid'[m] = bid[m]
  BY BidTypes DEF Inv
<1>2. OpenBids'[n] = OpenBids[n] + (amount - h) /\ \A m \in Names : m # n => OpenBids'[m] = OpenBids[m]
  BY <1>1 DEF OpenBids, IsOpen
<1>3. Refunds'[n] = Refunds[n] + h /\ \A m \in Names : m # n => Refunds'[m] = Refunds[m]
  <2>1. CASE bid[n] = NoBid
    <3>1. refund' = refund /\ h = 0
      BY <2>1 DEF bidname, NoBid
    <3>2. SumBidders(refund[n]) \in Nat
      BY SumTypes DEF Inv, Types, Refunds
    <3> QED
      BY <3>1, <3>2 DEF Refunds, SumBidders
  <2>2. CASE bid[n] # NoBid
    <3>1. refund' = [refund EXCEPT ![n] = [refund[n] EXCEPT ![b] = refund[n][b] + h]] /\ b \in Bidders
      BY <2>2, <1>1 DEF bidname, Outbids, IsOpen, Refunded
    <3>2. refund'[n] = [refund[n] EXCEPT ![b] = refund[n][b] + h] /\ \A m \in Names : m # n => refund'[m] = refund[m]
      BY <3>1 DEF Inv, Types, TypeOK
    <3>3. refund[n][b] + h \in Nat /\ h \in Int
      BY <1>1, <3>1 DEF Inv, Types, TypeOK
    <3>4. SumBidders([refund[n] EXCEPT ![b] = refund[n][b] + h]) = SumBidders(refund[n]) + h
      BY <3>1, <3>3, RefundsAdd DEF Inv, Types
    <3> QED
      BY <3>2, <3>4 DEF Refunds, SumBidders
  <2> QED
    BY <2>1, <2>2
<1>4. names_balance' = names_balance + (amount - h) + h + (proceeds' - proceeds) + (kept' - kept)
  BY <1>1 DEF bidname, rex, Inv, Types, TypeOK
<1>5. amount - h \in Int /\ h \in Int
  BY <1>1
<1> HIDE DEF h, b
<1> QED
  BY <1>1, <1>2, <1>3, <1>4, <1>5, BackedStep DEF Inv, Types

LEMMA BidWhole ==
  ASSUME Inv, NEW a \in Bidders, NEW n \in Names, NEW amount \in Bids[n], bidname(a, n, amount)
  PROVE  BiddersMadeWhole'
<1> SUFFICES ASSUME NEW c \in Bidders PROVE Whole(c)'
  BY DEF BiddersMadeWhole, Whole, RefundsTo, BidsOf, SumNames
<1> DEFINE h == bid[n].high_bid
           b == bid[n].high_bidder
           d == IF bid[n] # NoBid /\ c = b THEN h ELSE 0
           e == (IF c = a THEN amount ELSE 0) - d
<1>1. /\ Types' /\ amount \in Nat /\ h \in Nat /\ (h > 0 => b \in Bidders \ {a})
      /\ bid'[n] = [high_bidder |-> a, high_bid |-> amount]
      /\ \A m \in Names : m # n => bid'[m] = bid[m]
  BY BidTypes DEF Inv
<1>2. bid[n] # NoBid => h > 0
  BY DEF bidname, Outbids, IsOpen
<1>3. bid[n] = NoBid => h = 0
  BY DEF NoBid
<1>4. d \in Nat /\ e \in Int
  BY <1>1
<1>5. refund'[n][c] = refund[n][c] + d /\ \A m \in Names : m # n => refund'[m][c] = refund[m][c]
  <2>1. CASE bid[n] = NoBid
    BY <2>1 DEF bidname, Inv, Types, TypeOK
  <2>2. CASE bid[n] # NoBid
    <3>1. refund' = [refund EXCEPT ![n] = [refund[n] EXCEPT ![b] = refund[n][b] + h]]
      BY <2>2 DEF bidname, Refunded
    <3> QED
      BY <2>2, <3>1 DEF Inv, Types, TypeOK
  <2> QED
    BY <2>1, <2>2
<1>6. BidsOf(c)'[n] = BidsOf(c)[n] + e
  <2>1. BidsOf(c)'[n] = IF c = a THEN amount ELSE 0
    BY <1>1 DEF BidsOf, Abs
  <2>2. BidsOf(c)[n] = d
    BY <1>1, <1>2, <1>3 DEF BidsOf, Abs
  <2>3. d \in Int
    BY <1>4
  <2> HIDE DEF d
  <2> QED
    BY <2>1, <2>2, <2>3, <1>1
<1>7. own'[c] + spent'[c] + d + e = own[c] + spent[c]
  <2>1. own'[c] = IF c = a THEN own[c] - amount ELSE own[c]
    BY DEF bidname, Inv, Types, TypeOK
  <2>2. spent' = spent /\ own[c] \in Nat /\ spent[c] \in Nat
    BY DEF bidname, accounts, Inv, Types, TypeOK
  <2> HIDE DEF d
  <2> QED
    BY <1>1, <1>4, <2>1, <2>2
<1>8. Whole(c)
  BY WholeDef DEF Inv
<1> HIDE DEF d, e
<1> QED
  BY <1>1, <1>4, <1>5, <1>6, <1>7, <1>8, WholeStep DEF Inv, Types

LEMMA BidUnderWay ==
  ASSUME Inv, NEW a \in Bidders, NEW n \in Names, NEW amount \in Bids[n], bidname(a, n, amount)
  PROVE  RefundUnderWay'
<1>1. CASE bid[n] = NoBid
  BY <1>1 DEF bidname, Inv, RefundUnderWay
<1>2. CASE bid[n] # NoBid
  BY <1>2 DEF bidname, Refunded, Sent, Inv, Types, TypeOK, RefundUnderWay
<1> QED
  BY <1>1, <1>2

-----------------------------------------------------------------------------
\* A refund that is paid moves from the sum of the refunds to its bidder.
LEMMA RefundStep ==
  ASSUME Inv, NEW a \in Bidders, NEW n \in Names, PayRefund(a, n),
         deferred' = deferred \/ deferred' = deferred \ {<<n, a>>}
  PROVE  Inv'
<1> DEFINE r == refund[n][a]
<1>1. r \in Nat /\ r > 0 /\ r <= names_balance /\ names_balance \in Nat
  BY DEF PayRefund, Inv, Types, TypeOK
<1>2. /\ refund' = [refund EXCEPT ![n] = [refund[n] EXCEPT ![a] = 0]]
      /\ refund'[n] = [refund[n] EXCEPT ![a] = 0]
      /\ \A m \in Names : m # n => refund'[m] = refund[m]
  BY DEF PayRefund, Inv, Types, TypeOK
<1>3. own'[a] = own[a] + r /\ \A c \in Bidders : c # a => own'[c] = own[c]
  BY DEF PayRefund, Inv, Types, TypeOK
<1>4. names_balance' = names_balance - r /\ UNCHANGED <<auction, rex, accounts, active_age>>
  BY DEF PayRefund
<1>5. Types'
  <2>1. refund' \in [Names -> [Bidders -> Nat]]
    BY <1>2 DEF Inv, Types, TypeOK
  <2>2. own' \in [Bidders -> Nat] /\ names_balance' \in Nat
    BY <1>1, <1>4 DEF PayRefund, Inv, Types, TypeOK
  <2>3. deferred' \subseteq Names \X Bidders /\ lost' \subseteq Names \X Bidders
    BY DEF PayRefund, Inv, Types, TypeOK
  <2> QED
    BY <1>4, <2>1, <2>2, <2>3
    DEF Inv, Types, TypeOK, BidsOK, ProceedsHeld, auction, rex, accounts
<1>6. NamesBacked'
  <2>1. SumBidders(refund'[n]) = SumBidders(refund[n]) + (-r)
    <3>1. SumBidders([refund[n] EXCEPT ![a] = refund[n][a] + (-r)]) = SumBidders(refund[n]) + (-r)
      BY <1>1, RefundsAdd DEF Inv, Types
    <3>2. refund[n][a] + (-r) = 0
      BY <1>1
    <3> QED
      BY <1>2, <3>1, <3>2
  <2>2. Refunds'[n] = Refunds[n] + (-r) /\ \A m \in Names : m # n => Refunds'[m] = Refunds[m]
    BY <1>2, <2>1 DEF Refunds, SumBidders
  <2>3. OpenBids'[n] = OpenBids[n] + 0 /\ \A m \in Names : m # n => OpenBids'[m] = OpenBids[m]
    BY <1>4 DEF auction, OpenBids, IsOpen, Inv, Types, TypeOK
  <2>4. names_balance' = names_balance + 0 + (-r) + (proceeds' - proceeds) + (kept' - kept)
    BY <1>1, <1>4 DEF rex, Inv, Types, TypeOK
  <2>5. -r \in Int /\ 0 \in Int
    BY <1>1
  <2> HIDE DEF r
  <2> QED
    BY <1>5, <2>2, <2>3, <2>4, <2>5, BackedStep DEF Inv, Types
<1>7. BiddersMadeWhole'
  <2> SUFFICES ASSUME NEW c \in Bidders PROVE Whole(c)'
    BY DEF BiddersMadeWhole, Whole, RefundsTo, BidsOf, SumNames
  <2> DEFINE d == IF c = a THEN -r ELSE 0
  <2>1. d \in Int
    BY <1>1
  <2>2. refund'[n][c] = refund[n][c] + d /\ \A m \in Names : m # n => refund'[m][c] = refund[m][c]
    BY <1>1, <1>2 DEF Inv, Types, TypeOK
  <2>3. BidsOf(c)'[n] = BidsOf(c)[n] + 0 /\ \A m \in Names : m # n => bid'[m] = bid[m]
    <3>1. BidsOf(c)[n] \in Nat
      BY SumTypes DEF Inv, Types
    <3> QED
      BY <1>4, <3>1 DEF auction, BidsOf
  <2>4. own'[c] + spent'[c] + d + 0 = own[c] + spent[c]
    <3>1. own[c] \in Nat /\ spent[c] \in Nat /\ spent' = spent
      BY <1>4 DEF accounts, Inv, Types, TypeOK
    <3> QED
      BY <1>1, <1>3, <3>1
  <2>5. Whole(c)
    BY WholeDef DEF Inv
  <2> HIDE DEF d
  <2> QED
    BY <1>5, <2>1, <2>2, <2>3, <2>4, <2>5, WholeStep DEF Inv, Types
<1>8. RefundUnderWay'
  BY <1>2 DEF PayRefund, Inv, Types, TypeOK, RefundUnderWay
<1> QED
  BY <1>5, <1>6, <1>7, <1>8 DEF Inv

LEMMA GiveUpStep ==
  ASSUME Inv, NEW a \in Bidders, NEW n \in Names, GiveUp(a, n)
  PROVE  Inv'
<1>1. Types'
  BY DEF GiveUp, Inv, Types, TypeOK, BidsOK, ProceedsHeld, auction, rex, accounts
<1>2. NamesBacked'
  <2>1. names_balance' = names_balance + (proceeds' - proceeds) + (kept' - kept)
    BY DEF GiveUp, rex, Inv, Types, TypeOK
  <2> QED
    BY <1>1, <2>1, BackedSame DEF GiveUp, auction, Inv, Types
<1>3. BiddersMadeWhole'
  BY WholeSame DEF GiveUp, auction, accounts, Inv
<1>4. RefundUnderWay'
  BY DEF GiveUp, Inv, RefundUnderWay
<1> QED
  BY <1>1, <1>2, <1>3, <1>4 DEF Inv

-----------------------------------------------------------------------------
\* The close of an auction: the bid becomes negative and goes to the pool's
\* proceeds, or stays where it is.
LEMMA CloseStep ==
  ASSUME Inv, NEW n \in Names, onblock(n)
  PROVE  Inv'
<1> DEFINE h == bid[n].high_bid
<1>1. h \in Nat /\ h > 0 /\ bid[n].high_bidder \in Bidders
  BY DEF onblock, Highest, IsOpen, Inv, Types, TypeOK, BidsOK
<1>2. /\ bid'[n].high_bid = -h /\ bid'[n].high_bidder = bid[n].high_bidder
      /\ \A m \in Names : m # n => bid'[m] = bid[m]
      /\ bid' \in [Names -> [high_bidder : Bidders \cup {Nobody}, high_bid : Int]]
  <2>1. /\ bid \in [Names -> [high_bidder : Bidders \cup {Nobody}, high_bid : Int]]
        /\ bid' = [bid EXCEPT ![n].high_bid = - bid[n].high_bid]
    BY DEF onblock, Inv, Types, TypeOK
  <2>2. bid[n] \in [high_bidder : Bidders \cup {Nobody}, high_bid : Int] /\ - h \in Int
    BY <1>1, <2>1
  <2>3. /\ bid'[n] = [bid[n] EXCEPT !.high_bid = - h]
        /\ \A m \in Names : m # n => bid'[m] = bid[m]
    BY <2>1
  <2> HIDE DEF h
  <2>4. /\ bid'[n].high_bid = -h /\ bid'[n].high_bidder = bid[n].high_bidder
        /\ bid'[n] \in [high_bidder : Bidders \cup {Nobody}, high_bid : Int]
    BY <2>2, <2>3
  <2>5. DOMAIN bid' = Names /\ bid' = [m \in Names |-> bid'[m]]
    BY <2>1
  <2> QED
    BY <2>1, <2>3, <2>4, <2>5
<1>3. UNCHANGED <<refund, deferred, lost, own, names_balance, owner, spent, active_age>>
  BY DEF onblock, payments, accounts
<1>4. /\ proceeds' \in Nat /\ kept' \in Nat /\ rex_available' = rex_available
      /\ (proceeds' - proceeds) + (kept' - kept) = h
      /\ proceeds' > 0 => rex_available
  BY <1>1 DEF onblock, ToPool, Inv, Types, TypeOK, ProceedsHeld
<1>5. Types'
  <2>1. close_age' \in 0 .. Day + 1 /\ bid_age' \in [Names -> 0 .. Day + 1]
    BY TimeAssumption DEF onblock, Inv, Types, TypeOK
  <2>2. TypeOK'
    BY <1>2, <1>3, <1>4, <2>1 DEF Inv, Types, TypeOK
  <2>3. BidsOK'
    BY <1>1, <1>2 DEF Inv, Types, BidsOK
  <2> QED
    BY <1>4, <2>2, <2>3 DEF Types, ProceedsHeld
<1>6. NamesBacked'
  <2>1. OpenBids'[n] = OpenBids[n] + (-h) /\ \A m \in Names : m # n => OpenBids'[m] = OpenBids[m]
    BY <1>1, <1>2 DEF OpenBids, IsOpen
  <2>2. Refunds'[n] = Refunds[n] + 0 /\ \A m \in Names : m # n => Refunds'[m] = Refunds[m]
    <3>1. Refunds[n] \in Nat /\ Refunds' = Refunds
      BY <1>3, SumTypes DEF Inv, Types, Refunds, SumBidders
    <3> QED
      BY <3>1
  <2>3. names_balance' = names_balance + (-h) + 0 + (proceeds' - proceeds) + (kept' - kept)
    BY <1>1, <1>3, <1>4 DEF Inv, Types, TypeOK
  <2>4. -h \in Int /\ 0 \in Int
    BY <1>1
  <2> HIDE DEF h
  <2> QED
    BY <1>5, <2>1, <2>2, <2>3, <2>4, BackedStep DEF Inv, Types
<1>7. BiddersMadeWhole'
  <2> SUFFICES ASSUME NEW c \in Bidders PROVE Whole(c)'
    BY DEF BiddersMadeWhole, Whole, RefundsTo, BidsOf, SumNames
  <2>1. refund'[n][c] = refund[n][c] + 0 /\ \A m \in Names : m # n => refund'[m][c] = refund[m][c]
    BY <1>3 DEF Inv, Types, TypeOK
  <2>2. BidsOf(c)'[n] = BidsOf(c)[n] + 0
    BY <1>1, <1>2 DEF BidsOf, Abs
  <2>3. own'[c] + spent'[c] + 0 + 0 = own[c] + spent[c]
    BY <1>3 DEF Inv, Types, TypeOK
  <2>4. Whole(c)
    BY WholeDef DEF Inv
  <2> QED
    BY <1>2, <1>5, <2>1, <2>2, <2>3, <2>4, WholeStep DEF Inv, Types
<1>8. RefundUnderWay'
  BY <1>3 DEF Inv, RefundUnderWay
<1> QED
  BY <1>5, <1>6, <1>7, <1>8 DEF Inv

-----------------------------------------------------------------------------
\* The winner uses its bid up: what it led with is now spent.
LEMMA AccountStep ==
  ASSUME Inv, NEW a \in Bidders, NEW n \in Names, newaccount(a, n)
  PROVE  Inv'
<1> DEFINE h == -bid[n].high_bid
<1>1. h \in Nat /\ h > 0 /\ bid[n].high_bid = -h /\ bid[n].high_bidder = a /\ a # Nobody
  BY DEF newaccount, Claimable, IsClosed, Inv, Types, TypeOK, Bidders, Nobody
<1>2. bid'[n] = NoBid /\ \A m \in Names : m # n => bid'[m] = bid[m]
  BY DEF newaccount, Inv, Types, TypeOK
<1>3. UNCHANGED <<bid_age, close_age, payments, rex, active_age>>
  BY DEF newaccount
<1>4. spent'[a] = spent[a] + h /\ \A c \in Bidders : c # a => spent'[c] = spent[c]
  BY <1>1 DEF newaccount, Inv, Types, TypeOK
<1>5. Types'
  <2>1. bid' \in [Names -> [high_bidder : Bidders \cup {Nobody}, high_bid : Int]]
    BY DEF newaccount, NoBid, Inv, Types, TypeOK
  <2>2. spent' \in [Bidders -> Nat]
    BY <1>1 DEF newaccount, Inv, Types, TypeOK
  <2>3. owner' \in [Names -> Bidders \cup {Nobody, System}]
    BY DEF newaccount, Inv, Types, TypeOK
  <2>4. TypeOK'
    BY <1>3, <2>1, <2>2, <2>3 DEF Inv, Types, TypeOK, payments, rex
  <2>5. BidsOK'
    BY <1>2 DEF Inv, Types, BidsOK, NoBid
  <2> QED
    BY <1>3, <2>4, <2>5 DEF Inv, Types, ProceedsHeld, rex
<1>6. NamesBacked'
  <2>1. OpenBids'[n] = OpenBids[n] + 0 /\ \A m \in Names : m # n => OpenBids'[m] = OpenBids[m]
    BY <1>1, <1>2 DEF OpenBids, IsOpen, NoBid
  <2>2. Refunds'[n] = Refunds[n] + 0 /\ \A m \in Names : m # n => Refunds'[m] = Refunds[m]
    <3>1. Refunds[n] \in Nat /\ Refunds' = Refunds
      BY <1>3, SumTypes DEF Inv, Types, Refunds, SumBidders, payments
    <3> QED
      BY <3>1
  <2>3. names_balance' = names_balance + 0 + 0 + (proceeds' - proceeds) + (kept' - kept)
    BY <1>3 DEF payments, rex, Inv, Types, TypeOK
  <2> QED
    BY <1>5, <2>1, <2>2, <2>3, BackedStep DEF Inv, Types
<1>7. BiddersMadeWhole'
  <2> SUFFICES ASSUME NEW c \in Bidders PROVE Whole(c)'
    BY DEF BiddersMadeWhole, Whole, RefundsTo, BidsOf, SumNames
  <2> DEFINE e == IF c = a THEN -h ELSE 0
  <2>1. e \in Int
    BY <1>1
  <2>2. refund'[n][c] = refund[n][c] + 0 /\ \A m \in Names : m # n => refund'[m][c] = refund[m][c]
    BY <1>3 DEF payments, Inv, Types, TypeOK
  <2>3. BidsOf(c)'[n] = BidsOf(c)[n] + e
    <3>1. BidsOf(c)'[n] = 0
      BY <1>2 DEF BidsOf, NoBid, Abs, Bidders, Nobody
    <3>2. BidsOf(c)[n] = IF c = a THEN h ELSE 0
      BY <1>1 DEF BidsOf, Abs
    <3> QED
      BY <1>1, <3>1, <3>2
  <2>4. own'[c] + spent'[c] + 0 + e = own[c] + spent[c]
    <3>1. own[c] \in Nat /\ spent[c] \in Nat /\ own' = own
      BY <1>3 DEF payments, Inv, Types, TypeOK
    <3> HIDE DEF h
    <3> QED
      BY <1>1, <1>4, <3>1
  <2>5. Whole(c)
    BY WholeDef DEF Inv
  <2> HIDE DEF e
  <2> QED
    BY <1>2, <1>5, <2>1, <2>2, <2>3, <2>4, <2>5, WholeStep DEF Inv, Types
<1>8. RefundUnderWay'
  BY <1>3 DEF payments, Inv, RefundUnderWay
<1> QED
  BY <1>5, <1>6, <1>7, <1>8 DEF Inv

LEMMA SystemStep ==
  ASSUME Inv, NEW n \in Names, SystemAccount(n)
  PROVE  Inv'
<1>1. Types'
  BY DEF SystemAccount, Inv, Types, TypeOK, BidsOK, ProceedsHeld, auction, payments, rex
<1>2. NamesBacked'
  BY DEF SystemAccount, Inv, NamesBacked, IsOpen, SumNames, SumBidders, auction, payments, rex
<1>3. BiddersMadeWhole'
  BY WholeSame DEF SystemAccount, auction, payments, Inv
<1>4. RefundUnderWay'
  BY DEF SystemAccount, Inv, RefundUnderWay, payments
<1> QED
  BY <1>1, <1>2, <1>3, <1>4 DEF Inv

-----------------------------------------------------------------------------
\* The pool takes its proceeds, which eosio.names holds.
LEMMA RunStep ==
  ASSUME Inv, runrex
  PROVE  Inv'
<1>1. /\ UNCHANGED <<auction, refund, deferred, lost, own, kept, rex_available, accounts, active_age>>
      /\ proceeds' = 0 /\ proceeds \in Nat /\ names_balance' = names_balance - proceeds
  BY DEF runrex, Channelled, Inv, Types, TypeOK, ProceedsHeld
<1>2. names_balance - proceeds \in Nat
  <2>1. SumNames(OpenBids) \in Nat /\ SumNames(Refunds) \in Nat /\ kept \in Nat
    BY SumTypes DEF Inv, Types, TypeOK
  <2>2. names_balance = SumNames(OpenBids) + SumNames(Refunds) + proceeds + kept
    BY NamesBackedDef DEF Inv
  <2> QED
    BY <1>1, <2>1, <2>2
<1>3. Types'
  BY <1>1, <1>2 DEF Inv, Types, TypeOK, BidsOK, ProceedsHeld, auction, accounts
<1>4. NamesBacked'
  <2>1. names_balance' = names_balance + (proceeds' - proceeds) + (kept' - kept)
    BY <1>1 DEF Inv, Types, TypeOK
  <2> QED
    BY <1>1, <1>3, <2>1, BackedSame DEF auction, Inv, Types
<1>5. BiddersMadeWhole'
  BY <1>1, WholeSame DEF auction, accounts, Inv
<1>6. RefundUnderWay'
  BY <1>1 DEF Inv, RefundUnderWay
<1> QED
  BY <1>3, <1>4, <1>5, <1>6 DEF Inv

\* Steps that move no tokens and touch no bid: the pool gains or loses its
\* holders, the chain is activated, time passes.
LEMMA QuietStep ==
  ASSUME Inv, PoolChanges \/ Activate \/ Tick
  PROVE  Inv'
<1>1. UNCHANGED <<bid, refund, deferred, lost, own, names_balance, proceeds, kept, owner, spent>>
  BY DEF PoolChanges, Activate, Tick, auction, payments, rex, accounts
<1>2. Types'
  <2>1. rex_available' \in BOOLEAN /\ (proceeds' > 0 => rex_available')
    <3>1. CASE PoolChanges
      <4>1. rex_available' = ~ rex_available /\ proceeds' = 0
        BY <1>1, <3>1 DEF PoolChanges
      <4> QED
        BY <4>1
    <3>2. CASE Activate \/ Tick
      <4>1. rex_available' = rex_available /\ proceeds' = proceeds
        BY <3>2 DEF Activate, Tick, rex
      <4> QED
        BY <4>1 DEF Inv, Types, TypeOK, ProceedsHeld
    <3> QED
      BY <3>1, <3>2
  <2>2. active_age' \in 0 .. Wait + 1 \cup {Never}
    BY TimeAssumption DEF PoolChanges, Activate, Tick, Older, Never, Inv, Types, TypeOK
  <2>3. close_age' \in 0 .. Day + 1
    BY TimeAssumption DEF PoolChanges, Activate, Tick, Older, Never, auction, Inv, Types, TypeOK
  <2>4. bid_age' \in [Names -> 0 .. Day + 1]
    <3>1. CASE PoolChanges \/ Activate
      BY <3>1 DEF PoolChanges, Activate, auction, Inv, Types, TypeOK
    <3>2. CASE Tick
      <4>1. ASSUME NEW n \in Names PROVE Older(bid_age[n], Day + 1) \in 0 .. Day + 1
        <5>1. bid_age[n] \in 0 .. Day + 1 /\ Day \in Nat
          BY TimeAssumption DEF Inv, Types, TypeOK
        <5>2. Older(bid_age[n], Day + 1) = IF bid_age[n] = Day + 1 THEN bid_age[n] ELSE bid_age[n] + 1
          BY <5>1 DEF Older, Never
        <5> QED
          BY <5>1, <5>2
      <4>2. 0 \in 0 .. Day + 1
        BY TimeAssumption
      <4> QED
        BY <3>2, <4>1, <4>2 DEF Tick
    <3> QED
      BY <3>1, <3>2
  <2> QED
    BY <1>1, <2>1, <2>2, <2>3, <2>4 DEF Inv, Types, TypeOK, BidsOK, ProceedsHeld
<1>3. NamesBacked'
  BY <1>1 DEF Inv, NamesBacked, IsOpen, SumNames, SumBidders
<1>4. BiddersMadeWhole'
  BY <1>1, WholeSame DEF Inv
<1>5. RefundUnderWay'
  BY <1>1 DEF Inv, RefundUnderWay
<1> QED
  BY <1>2, <1>3, <1>4, <1>5 DEF Inv

LEMMA StutterStep ==
  ASSUME Inv, UNCHANGED vars
  PROVE  Inv'
<1>1. Types'
  BY DEF vars, auction, payments, rex, accounts, Inv, Types, TypeOK, BidsOK, ProceedsHeld
<1>2. NamesBacked'
  BY DEF vars, auction, payments, rex, Inv, NamesBacked, IsOpen, SumNames, SumBidders
<1>3. BiddersMadeWhole' /\ RefundUnderWay'
  BY WholeSame DEF vars, auction, payments, accounts, Inv, RefundUnderWay
<1> QED
  BY <1>1, <1>2, <1>3 DEF Inv

-----------------------------------------------------------------------------
LEMMA NextInv == Inv /\ [Next]_vars => Inv'
<1> SUFFICES ASSUME Inv, [Next]_vars PROVE Inv'
  OBVIOUS
<1>1. CASE UNCHANGED vars
  BY <1>1, StutterStep
<1>2. ASSUME NEW a \in Bidders, NEW n \in Names, NEW amount \in Bids[n], bidname(a, n, amount)
      PROVE  Inv'
  BY <1>2, BidTypes, BidBacked, BidWhole, BidUnderWay DEF Inv
<1>3. ASSUME NEW a \in Bidders, NEW n \in Names, bidrefund(a, n) \/ Deliver(a, n) PROVE Inv'
  BY <1>3, RefundStep DEF bidrefund, Deliver
<1>4. ASSUME NEW a \in Bidders, NEW n \in Names, GiveUp(a, n) PROVE Inv'
  BY <1>4, GiveUpStep
<1>5. ASSUME NEW a \in Bidders, NEW n \in Names, newaccount(a, n) PROVE Inv'
  BY <1>5, AccountStep
<1>6. ASSUME NEW n \in Names, SystemAccount(n) \/ onblock(n) PROVE Inv'
  BY <1>6, SystemStep, CloseStep
<1>7. CASE runrex \/ PoolChanges \/ Activate \/ Tick
  BY <1>7, RunStep, QuietStep
<1> QED
  BY <1>1, <1>2, <1>3, <1>4, <1>5, <1>6, <1>7 DEF Next, CloseOne

LEMMA Inductive == Spec => []Inv
BY InitInv, NextInv, PTL DEF Spec

\* Every row, age and balance has its type: no balance of the bidders or of
\* eosio.names is ever negative, so no transfer of an action that passed its
\* checks overdraws.
THEOREM TypeCorrect == Spec => []TypeOK
<1>1. Inv => TypeOK
  BY DEF Inv, Types
<1> QED
  BY <1>1, Inductive, PTL

\* eosio.names holds exactly the open bids, the refunds and the winning bids
\* that have not left it (bidname, bidrefund, onblock, runrex).
THEOREM Backed == Spec => []NamesBacked
<1>1. Inv => NamesBacked
  BY DEF Inv
<1> QED
  BY <1>1, Inductive, PTL

\* Only the winner pays: every bidder has its first tokens back but what it
\* leads or won with, waits for, or paid for names it created.
THEOREM MadeWhole == Spec => []BiddersMadeWhole
<1>1. Inv => BiddersMadeWhole
  BY DEF Inv
<1> QED
  BY <1>1, Inductive, PTL

\* Every refund row has its deferred transaction under way, or the chain gave
\* that up (cancel_deferred and send in bidname).
THEOREM UnderWay == Spec => []RefundUnderWay
<1>1. Inv => RefundUnderWay
  BY DEF Inv
<1> QED
  BY <1>1, Inductive, PTL

\* A closed auction stays its winner's until the winner creates the account:
\* no bid, refund or later close touches the row.
THEOREM KeepsName == Spec => WinnerKeepsName
<1> DEFINE Final == \A n \in Names : IsClosed(n) =>
                       \/ bid'[n] = bid[n]
                       \/ /\ bid'[n] = NoBid
                          /\ owner[n] = Nobody /\ owner'[n] = bid[n].high_bidder
<1>1. TypeOK /\ [Next]_vars => [Final]_vars
  <2> SUFFICES ASSUME TypeOK, Next, NEW k \in Names, IsClosed(k)
      PROVE  \/ bid'[k] = bid[k]
             \/ /\ bid'[k] = NoBid
                /\ owner[k] = Nobody /\ owner'[k] = bid[k].high_bidder
    BY DEF vars
  <2>1. ASSUME NEW a \in Bidders, NEW n \in Names, NEW amount \in Bids[n], bidname(a, n, amount)
        PROVE  bid'[k] = bid[k]
    <3>1. n # k
      BY <2>1 DEF bidname, Outbids, IsOpen, IsClosed, NoBid, TypeOK
    <3> QED
      BY <2>1, <3>1 DEF bidname, TypeOK
  <2>2. ASSUME NEW a \in Bidders, NEW n \in Names,
               bidrefund(a, n) \/ Deliver(a, n) \/ GiveUp(a, n)
        PROVE  bid'[k] = bid[k]
    BY <2>2 DEF bidrefund, Deliver, GiveUp, PayRefund, auction
  <2>3. ASSUME NEW a \in Bidders, NEW n \in Names, newaccount(a, n)
        PROVE  \/ bid'[k] = bid[k]
               \/ /\ bid'[k] = NoBid
                  /\ owner[k] = Nobody /\ owner'[k] = bid[k].high_bidder
    BY <2>3 DEF newaccount, Claimable, TypeOK
  <2>4. ASSUME NEW n \in Names, SystemAccount(n) PROVE bid'[k] = bid[k]
    BY <2>4 DEF SystemAccount, auction
  <2>5. ASSUME NEW n \in Names, onblock(n) PROVE bid'[k] = bid[k]
    BY <2>5 DEF onblock, Highest, IsOpen, IsClosed, TypeOK
  <2>6. CASE runrex \/ PoolChanges \/ Activate \/ Tick
    BY <2>6 DEF runrex, PoolChanges, Activate, Tick, auction
  <2> QED
    BY <2>1, <2>2, <2>3, <2>4, <2>5, <2>6 DEF Next, CloseOne
<1> QED
  BY <1>1, TypeCorrect, PTL DEF Spec, WinnerKeepsName
============================================================================
