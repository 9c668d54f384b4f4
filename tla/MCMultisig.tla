----------------------------- MODULE MCMultisig -----------------------------
(***************************************************************************)
(* Two accounts that propose and approve; a transaction that needs both    *)
(* and expires late, and one that needs one of them and expires early.     *)
(* Two scenes, one chosen at the start.  Under "one name" everything is    *)
(* proposed by one account, with each level requested up to twice.  Under  *)
(* "two names" both propose, what invalidate voids at once; the lists of   *)
(* levels are fewer and so are the times.                                  *)
(***************************************************************************)
EXTENDS Multisig

VARIABLE scene

TwoTrxs == {"both", "one"}
Needs == [t \in TwoTrxs |-> IF t = "both" THEN {1, 2} ELSE {2}]
Expires == [t \in TwoTrxs |-> IF t = "both" THEN 2 ELSE 1]
UpToTwice == [{1, 2} -> 0 .. 2]
NoLevel == <<0, 0>>
Few == {NoLevel, <<1, 1>>, <<0, 2>>}

MCInit == Init /\ scene \in {"one name", "two names"}

MCNext ==
    /\ Next
    /\ scene = "one name" => asked'[2] = NoLevel
    /\ scene = "two names" => now' < MaxTime /\ \A p \in Proposers : asked'[p] \in Few
    /\ UNCHANGED scene

MCSpec == MCInit /\ [][MCNext]_<<vars, scene>>
=============================================================================
