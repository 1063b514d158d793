---------------------------- MODULE TokenBucket ----------------------------
(***************************************************************************)
(* What token buckets promise: each gains one unit with every tick of the    *)
(* clock, up to its capacity, and a call takes its cost from one bucket or    *)
(* nothing.                                                                  *)
(***************************************************************************)
EXTENDS Integers

CONSTANTS Bucket, Capacity, Cost

VARIABLE level

vars == <<level>>

Init == level = [b \in Bucket |-> Capacity]

Refill ==
    level' = [b \in Bucket |-> IF level[b] < Capacity THEN level[b] + 1 ELSE level[b]]

Take(b) == level[b] >= Cost /\ level' = [level EXCEPT ![b] = @ - Cost]

Next == Refill \/ \E b \in Bucket : Take(b)

Spec == Init /\ [][Next]_vars
=============================================================================
