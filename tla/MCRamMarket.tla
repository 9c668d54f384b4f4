---------------------------- MODULE MCRamMarket ----------------------------
(***************************************************************************)
(* Two scenes of RamMarket, one chosen at the start.  In "trades" RAM is   *)
(* bought and sold in several amounts while its size grows.  In "limits"   *)
(* accounts are staked for and managed between single trades, and the one  *)
(* that is not there from the start is created.                            *)
(***************************************************************************)
EXTENDS RamMarket

CONSTANTS Payment, Amount  \* what is paid and traded in "limits"

VARIABLE scene

MCNext ==
    \/ scene = "trades" /\ (Trade(Payments, Bytes) \/ Grow) /\ UNCHANGED scene
    \/ scene = "limits" /\ (Trade({Payment}, {Amount}) \/ Limits) /\ UNCHANGED scene

MCInit == Init /\ scene \in {"trades", "limits"}

MCSpec == MCInit /\ [][MCNext]_<<vars, scene>>
============================================================================
