--------------------------- MODULE MCNameAuction ---------------------------
(***************************************************************************)
(* Two names: one that two bidders can outbid each other on three times,   *)
(* the first of them twice, and one whose bids stand between those.        *)
(***************************************************************************)
EXTENDS NameAuction

BidsOnNames == <<{9, 10, 12, 14}, {11, 13}>>
============================================================================
