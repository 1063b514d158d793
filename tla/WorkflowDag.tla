----------------------------- MODULE WorkflowDag -----------------------------
(***************************************************************************)
(* What the workflow engine (src/workflow/engine.ts) promises of a run,      *)
(* without copies, stores, attempts, budgets or crashes: work on a step      *)
(* starts, and a step is done, only when all it depends on is done; only     *)
(* handlers that were called finish tasks; and the run may say that it is    *)
(* completed only when every step is done.                                   *)
(***************************************************************************)
CONSTANTS
    Step,
    Approval,       \* the steps a person finishes; a handler does the others
    DependsOn       \* [Step -> SUBSET Step]

VARIABLES
    started,        \* the steps whose handler was ever called
    done,           \* the steps whose handler returned, or that were approved
    reported        \* whether anything says that the run is completed

dagVars == <<started, done, reported>>

DagInit == started = {} /\ done = {} /\ reported = FALSE

DependenciesDone(s) == DependsOn[s] \subseteq done

Start(s) ==
    /\ s \notin Approval /\ DependenciesDone(s)
    /\ started' = started \cup {s}
    /\ UNCHANGED <<done, reported>>

Finish(s) ==
    /\ s \in started \cup Approval /\ DependenciesDone(s)
    /\ done' = done \cup {s}
    /\ UNCHANGED <<started, reported>>

(* Said by a copy of the run that may be overwritten, or die with its process. *)
Report ==
    /\ done = Step
    /\ reported' = ~reported
    /\ UNCHANGED <<started, done>>

DagNext == Report \/ \E s \in Step : Start(s) \/ Finish(s)

DagSpec == DagInit /\ [][DagNext]_dagVars
=============================================================================
