--------------------------- MODULE MCCoordinator ---------------------------
(***************************************************************************)
(* Three tasks and two workers.  t1 is an ordinary task for either worker; *)
(* t2 outranks it, needs lead's approval and has a budget of its own; t3   *)
(* is denied to w1 by the security policy and exceeds what t2 leaves of    *)
(* the session budget.                                                     *)
(***************************************************************************)
EXTENDS Coordinator

CONSTANTS t1, t2, t3, w1, w2, lead, other

MCApprovers == [t \in Task |-> IF t = t2 THEN {lead} ELSE {}]
MCSuits == Worker \X Task
MCDenied == {<<w1, t3>>}
MCPriority == [t \in Task |-> IF t = t2 THEN 20 ELSE 10]
MCAge == [t \in Task |-> CASE t = t1 -> 1 [] t = t2 -> 2 [] t = t3 -> 3]
MCCost == [t \in Task |-> CASE t = t1 -> 0 [] t = t2 -> 2 [] t = t3 -> 3]
=============================================================================
