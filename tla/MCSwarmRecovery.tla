-------------------------- MODULE MCSwarmRecovery --------------------------
(***************************************************************************)
(* The last lines a live run leaves in the journal when its process dies.  *)
(* A stage the loop has not reached shows its task: "running" once         *)
(* dispatched, "awaiting_approval" while blocked, both with no attempt.    *)
(***************************************************************************)
EXTENDS SwarmRecovery

Show(status, p, e, r) == [status |-> status, stages |-> <<p, e, r>>]
At(status, attempts) == [status |-> status, attempts |-> attempts]

Dispatched == At("running", 0)
Blocked == At("awaiting_approval", 0)

(* Died after startObjective, in the plan stage, after the plan failed, and   *)
(* while waiting for the approval.                                           *)
LeftGated ==
    {Show("running", Dispatched, Blocked, Dispatched),
     Show("running", At("running", 1), Blocked, Dispatched),
     Show("failed", At("failed", 1), Blocked, Dispatched),
     Show("running", At("completed", 1), Blocked, Dispatched)}

(* Died in the execute stage, after the review failed, after completion, and   *)
(* after a cancellation in the execute stage.                                *)
LeftPlain ==
    {Show("running", At("completed", 1), At("running", 1), Dispatched),
     Show("failed", At("completed", 1), At("completed", 1), At("failed", 1)),
     Show("completed", At("completed", 1), At("completed", 1), At("completed", 1)),
     Show("cancelled", At("completed", 1), At("running", 1), At("cancelled", 0))}

LeftBehind == LeftGated \cup LeftPlain
=============================================================================
