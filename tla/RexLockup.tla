----------------------------- MODULE RexLockup -----------------------------
(***************************************************************************)
(* One owner's rexbal row over many days: REX is bought, sold, moved in    *)
(* and out of savings and consolidated by the operators of RexMaturities,  *)
(* with the guards of the actions of rex.cpp.  The pool, and with it the   *)
(* price, is left out: Rex models it with short maturities, this module    *)
(* follows every share through several days and buckets, and shows that    *)
(* the lazily processed deque implements RexVesting.                       *)
(***************************************************************************)
EXTENDS RexMaturities

CONSTANTS MaxTime,  \* bound on the time
          Amounts,  \* the REX amounts of an action
          MaxRex    \* bound on the REX held

ASSUME MaxTimeAssumption == MaxTime \in Nat
ASSUME EndAssumption == EndOfDays \in Nat /\ MaxTime + Buckets * Day < EndOfDays
ASSUME AmountsAssumption == Amounts \subseteq Nat \ {0}

VARIABLES now,       \* current_time_point
          rb,        \* the row of rexbal
          in_order   \* the REX in the owner's open sell order

vars == <<now, rb, in_order>>

Init == now = 0 /\ rb = NoBalance /\ in_order = 0

\* buyrex and unstaketorex
buyrex(rex) ==
    /\ rb.rex_balance + rex <= MaxRex
    /\ rb' = AddToMaturities([rb EXCEPT !.row = TRUE, !.rex_balance = @ + rex], rex, now)
    /\ UNCHANGED <<now, in_order>>

\* sellrex: the order is filled at once, or it waits with what waits already
sellrex(rex) ==
    LET rb1 == process_rex_maturities(rb, now) IN
    /\ rb.row
    /\ in_order + rex <= rb1.matured_rex
    /\ \/ /\ rb' = [rb1 EXCEPT !.rex_balance = @ - rex, !.matured_rex = @ - rex]
          /\ UNCHANGED in_order
       \/ rb' = rb1 /\ in_order' = in_order + rex
    /\ UNCHANGED now

\* runrex fills the waiting order
FillOrder ==
    /\ in_order > 0
    /\ rb' = [rb EXCEPT !.rex_balance = @ - in_order, !.matured_rex = @ - in_order]
    /\ in_order' = 0
    /\ UNCHANGED now

cnclrexorder ==
    /\ in_order > 0
    /\ in_order' = 0
    /\ UNCHANGED <<now, rb>>

updaterex ==
    /\ rb.row
    /\ rb' = process_rex_maturities(rb, now)
    /\ UNCHANGED <<now, in_order>>

consolidate ==
    /\ rb.row
    /\ rb' = consolidate_rex_balance(rb, in_order, now)
    /\ UNCHANGED <<now, in_order>>

mvtosavings(rex) ==
    LET rb1 == MovedToSavings(rb, rex, now) IN
    /\ rb.row
    /\ rex + in_order + read_rex_savings(rb) <= rb.rex_balance
    /\ in_order <= rb1.matured_rex
    /\ rb' = rb1
    /\ UNCHANGED <<now, in_order>>

mvfrsavings(rex) ==
    /\ rb.row
    /\ rex <= read_rex_savings(rb)
    /\ rb' = MovedFromSavings(rb, rex, now)
    /\ UNCHANGED <<now, in_order>>

closerex ==
    /\ rb.row /\ rb.rex_balance = 0
    /\ rb' = NoBalance
    /\ UNCHANGED <<now, in_order>>

Tick ==
    /\ now < MaxTime
    /\ now' = now + 1
    /\ UNCHANGED <<rb, in_order>>

Next ==
    \/ \E rex \in Amounts : buyrex(rex) \/ sellrex(rex) \/ mvtosavings(rex) \/ mvfrsavings(rex)
    \/ FillOrder \/ cnclrexorder \/ updaterex \/ consolidate \/ closerex \/ Tick

Spec == Init /\ [][Next]_vars

-----------------------------------------------------------------------------
\* The row seen as RexVesting: due buckets count as free before the code moves
\* them.
DueRow == process_rex_maturities(rb, now)

Free == DueRow.matured_rex
Locked == [t \in 1 .. MaxTime + Buckets * Day |-> Maturing(DueRow.rex_maturities, t)]
Saved == read_rex_savings(rb)

Vesting == INSTANCE RexVesting WITH free <- Free, locked <- Locked, saved <- Saved

\* Every share can be sold from its maturity on and never before, however the
\* deque was rearranged in between: the row implements RexVesting.
ImplementsVesting == Vesting!Spec
=============================================================================
