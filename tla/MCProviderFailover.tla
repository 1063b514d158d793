------------------------- MODULE MCProviderFailover -------------------------
(***************************************************************************)
(* Two loops on the bucket of one model; one of them has a second model to   *)
(* fail over to, of another provider.                                       *)
(***************************************************************************)
EXTENDS ProviderFailover, TLC

CONSTANTS l1, l2, m1, m2, p1, p2

MCProviderOf == (m1 :> p1) @@ (m2 :> p2)

MCRoute == [l \in Loop |-> IF l = l1 THEN <<m1, m2>> ELSE <<m1>>]
=============================================================================
