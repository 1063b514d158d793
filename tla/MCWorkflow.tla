----------------------------- MODULE MCWorkflow -----------------------------
(***************************************************************************)
(* Five steps: plan; then an approval by the lead, before build, and, next *)
(* to them, lint; verify needs build and lint.  Build and lint may be tried *)
(* twice.  The budget covers every step once.                              *)
(***************************************************************************)
EXTENDS WorkflowEngine, TLC

CONSTANTS plan, approval, lint, build, verify, lead, other

MCStep == {plan, approval, lint, build, verify}
MCDependsOn ==
    [s \in MCStep |->
        CASE s = plan -> {}
          [] s \in {approval, lint} -> {plan}
          [] s = build -> {approval}
          [] s = verify -> {build, lint}]
MCPlace ==
    [s \in MCStep |->
        CASE s = verify -> 1 [] s = plan -> 2 [] s = lint -> 3
          [] s = approval -> 4 [] s = build -> 5]
MCMaxAttempts == [s \in MCStep |-> IF s \in {lint, build} THEN 2 ELSE 1]
MCApprovers == [s \in MCStep |-> IF s = approval THEN {lead} ELSE {}]
MCCost == [s \in MCStep |-> IF s \in {build, lint, verify} THEN 1 ELSE 0]
Alike == Permutations(Activation)
MCCatalog == {{plan, lint, build, verify}, {plan}}
=============================================================================
