--------------------------- MODULE MCToolApproval ---------------------------
(***************************************************************************)
(* Two replies: the same call twice, which a session rule lets through the  *)
(* second time, and a call that a policy denies while it is on display.    *)
(***************************************************************************)
EXTENDS ToolApproval

CONSTANTS call, denied

MCSignature == {call, denied}
MCRefused == {denied}
MCBatch == {<<denied>>, <<call, call>>}
=============================================================================
