------------------------------- MODULE MCRex --------------------------------
(***************************************************************************)
(* Two scenes of Rex with one lender and one renter, one chosen at the     *)
(* start.  In "market" the pool is bought, sold in parts, emptied and      *)
(* opened again, and fees come in.  In "accounts" tokens move between      *)
(* liquid balances, stakes, savings and the pool, votes change, and setrex *)
(* changes the rent.                                                       *)
(***************************************************************************)
EXTENDS Rex

CONSTANTS MarketPurchases, AccountPurchases  \* the amounts of buyrex in each scene

VARIABLE scene

Market == scene = "market"

MCInit == Init /\ scene \in {"market", "accounts"}

\* One disjunct for each kind of action.
MCNext ==
    \/ Rent /\ UNCHANGED scene
    \/ Hold /\ UNCHANGED scene
    \/ Execute /\ UNCHANGED scene
    \/ Tick /\ UNCHANGED scene
    \/ Buy(IF Market THEN MarketPurchases ELSE AccountPurchases) /\ UNCHANGED scene
    \/ Sell(IF Market THEN RexChoices ELSE {"all"}) /\ UNCHANGED scene
    \/ Market /\ Revote(TRUE) /\ UNCHANGED scene
    \/ Market /\ Fees /\ UNCHANGED scene
    \/ ~Market /\ (\E satisfied \in Votes : Revote(satisfied)) /\ UNCHANGED scene
    \/ ~Market /\ Funds /\ UNCHANGED scene
    \/ ~Market /\ Unstake /\ UNCHANGED scene
    \/ ~Market /\ Savings({"all"}) /\ UNCHANGED scene
    \/ ~Market /\ Settings /\ UNCHANGED scene

MCSpec == MCInit /\ [][MCNext]_<<vars, scene>> /\ Fairness
=============================================================================
