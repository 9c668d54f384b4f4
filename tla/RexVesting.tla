----------------------------- MODULE RexVesting -----------------------------
(***************************************************************************)
(* What the rexbal table promises an owner and the lenders: REX that is    *)
(* bought, or taken out of savings, cannot be sold before the end of the   *)
(* day plus Buckets - 1 days, and can be sold from then on; REX in savings *)
(* cannot be sold at all; moving REX to savings takes the REX that matures *)
(* last.  Here every share matures by itself at its time; the code keeps a *)
(* deque of buckets and moves the due ones when the row is next used.      *)
(***************************************************************************)
EXTENDS Integers, FunSums

CONSTANTS Day, Buckets, MaxTime, Amounts

VARIABLES now,
          free,      \* the REX that can be sold
          locked,    \* the REX that can be sold from each time on
          saved,     \* the REX in savings
          in_order   \* the part of free that waits in a sell order

vvars == <<now, free, locked, saved, in_order>>

Times == 1 .. MaxTime + Buckets * Day
Maturity == now - (now % Day) + Buckets * Day

Init ==
    /\ now = 0 /\ free = 0 /\ saved = 0 /\ in_order = 0
    /\ locked = [t \in Times |-> 0]

Buy(n) ==
    /\ locked' = [locked EXCEPT ![Maturity] = @ + n]
    /\ UNCHANGED <<now, free, saved, in_order>>

Sell(n) ==
    /\ n + in_order <= free
    /\ \/ free' = free - n /\ UNCHANGED in_order
       \/ in_order' = in_order + n /\ UNCHANGED free
    /\ UNCHANGED <<now, locked, saved>>

Fill ==
    /\ free' = free - in_order /\ in_order' = 0
    /\ UNCHANGED <<now, locked, saved>>

Cancel == in_order' = 0 /\ UNCHANGED <<now, free, locked, saved>>

\* of the n shares to save, those that time t gives up
Given(t, n) ==
    LET later == SumTo([u \in Times |-> IF u > t THEN locked[u] ELSE 0], MaxTime + Buckets * Day)
        left  == IF n > later THEN n - later ELSE 0
    IN  IF left < locked[t] THEN left ELSE locked[t]

Save(n) ==
    LET given == SumTo([t \in Times |-> Given(t, n)], MaxTime + Buckets * Day) IN
    /\ n - given <= free - in_order
    /\ locked' = [t \in Times |-> locked[t] - Given(t, n)]
    /\ free' = free - (n - given)
    /\ saved' = saved + n
    /\ UNCHANGED <<now, in_order>>

Unsave(n) ==
    /\ n <= saved
    /\ saved' = saved - n
    /\ locked' = [locked EXCEPT ![Maturity] = @ + n]
    /\ UNCHANGED <<now, free, in_order>>

\* everything but the order and the savings starts to mature again
Restart ==
    LET all == free - in_order + SumTo(locked, MaxTime + Buckets * Day) IN
    /\ locked' = [t \in Times |-> IF t = Maturity THEN all ELSE 0]
    /\ free' = in_order
    /\ UNCHANGED <<now, saved, in_order>>

Tick ==
    /\ now < MaxTime
    /\ now' = now + 1
    /\ free' = free + locked[now + 1]
    /\ locked' = [locked EXCEPT ![now + 1] = 0]
    /\ UNCHANGED <<saved, in_order>>

Next ==
    \/ \E n \in Amounts : Buy(n) \/ Sell(n) \/ Save(n) \/ Unsave(n)
    \/ Fill \/ Cancel \/ Restart \/ Tick

Spec == Init /\ [][Next]_vvars
=============================================================================
