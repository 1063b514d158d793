--------------------------- MODULE WorkflowEngine ---------------------------
(***************************************************************************)
(* One run of the workflow engine (src/workflow/engine.ts) over its store,  *)
(* with the callers that the runtime runner and the recipe runtime give it.  *)
(*                                                                         *)
(* Every operation loads the run, works on the copy it got and saves it.    *)
(* Nothing keeps two operations on one run apart.  The copy is private, so  *)
(* what happens between two saves or handler calls is one step, taken with  *)
(* the await before it.  Runs of the engine share only the budget.          *)
(*                                                                         *)
(* A run lives in files (JsonWorkflowStore, with a budget policy) or in     *)
(* memory (MemoryWorkflowStore, as WorkflowRecipeRuntime does: no budget,   *)
(* saves that cannot fail, and a cancellation; gone with the process).      *)
(***************************************************************************)
EXTENDS Integers, Sequences, FiniteSets

CONSTANTS
    Step,
    Approval,       \* the steps of kind "approval"; the others are tasks
    DependsOn,      \* [Step -> SUBSET Step]
    Place,          \* a step's place in the definition
    MaxAttempts,    \* [Step -> positive]
    Person,
    Approvers,      \* who may approve a step: one person if one is required
    Cost,           \* a step's estimated tokens; 0: no budget of its own
    Limit,          \* the budget's token limit; 0: none
    Catalog,        \* the sets of steps that callers bring handlers for
    NoStep,
    Activation,     \* operations that may be under way at the same time
    MaxBegun,       \* bound: operations begun
    MaxFaults       \* bound: crashes and failed saves

Task == Step \ Approval

(* topologicalOrder: of the steps that are ready, the first one defined.     *)
Listed(before) == {before[i] : i \in DOMAIN before}

Ready(before) ==
    {s \in Step \ Listed(before) : DependsOn[s] \subseteq Listed(before)}

FirstDefined(steps) == CHOOSE s \in steps : \A r \in steps : Place[s] <= Place[r]

Extended(before) ==
    IF Ready(before) = {} THEN before ELSE Append(before, FirstDefined(Ready(before)))

Kahn[n \in 0..Cardinality(Step)] == IF n = 0 THEN <<>> ELSE Extended(Kahn[n - 1])

Order == Kahn[Cardinality(Step)]

(* validateWorkflowDefinition finds no error: no cycle, and limits above 0.  *)
ASSUME ValidDefinition ==
    /\ IsFiniteSet(Step) /\ Step # {} /\ NoStep \notin Step
    /\ DependsOn \in [Step -> SUBSET Step] /\ Place \in [Step -> Nat]
    /\ Len(Order) = Cardinality(Step)
    /\ MaxAttempts \in [Step -> Nat \ {0}]

ASSUME WorkflowConstants ==
    /\ Approval \subseteq Step
    /\ Approvers \in [Step -> SUBSET Person]
    /\ Cost \in [Step -> Nat] /\ Limit \in Nat
    /\ Catalog \subseteq SUBSET Task
    /\ MaxBegun \in Nat /\ MaxFaults \in Nat

VARIABLES
    durable,     \* the run is kept in files, not in memory
    stored,      \* the run as the store has it
    act,         \* the operations under way
    spent,       \* the budget's total
    begun,       \* bounded: operations so far
    faults,      \* bounded: crashes and failed saves so far
    calls,       \* history: handler calls of a step, counted to one too many
    done,        \* history: steps whose handler returned, or that were approved
    returned,    \* history: the status runUntilBlocked last returned
    disturbed    \* history: "overlap", "crash", "rejection", "cancel"

vars == <<durable, stored, act, spent, begun, faults, calls, done, returned, disturbed>>

StepStatuses == {"pending", "running", "awaiting_approval", "completed", "failed"}
RunStatuses == {"pending", "running", "paused", "completed", "failed"}

Run ==
    {r \in [status : RunStatuses,
            steps : [Step -> [status : StepStatuses, attempts : Nat]]] :
        \A s \in Step : r.steps[s].attempts <= MaxAttempts[s]}

(* start *)
Fresh ==
    [status |-> "pending",
     steps |-> [s \in Step |-> [status |-> "pending", attempts |-> 0]]]

(* An operation waits for a save, to go on as "next" says, or for a handler.  *)
Nexts == {"proceed", "call", "settle", "retry", "return", "reply"}

Idle == [pc |-> "idle", run |-> Fresh, step |-> NoStep, handlers |-> {}, next |-> "reply"]

Operation ==
    [pc : {"idle", "saving", "calling"}, run : Run, step : Step \cup {NoStep},
     handlers : Catalog \cup {{}}, next : Nexts]

Saving(op, run, s, next) ==
    [pc |-> "saving", run |-> run, step |-> s, handlers |-> op.handlers, next |-> next]

Init ==
    /\ durable \in BOOLEAN
    /\ stored = Fresh
    /\ act = [a \in Activation |-> Idle]
    /\ spent = 0
    /\ begun = 0 /\ faults = 0
    /\ calls = [s \in Step |-> 0]
    /\ done = {}
    /\ returned = "none"
    /\ disturbed = {}

-----------------------------------------------------------------------------
(* What the engine makes of its copy. *)

Status(run, s) == run.steps[s].status

Marked(run, s, status) == [run EXCEPT !.steps[s].status = status]

(* A mistake: one completed dependency is taken for all of them. *)
RunnableEarly(run) ==
    {s \in Step : /\ Status(run, s) = "pending"
                  /\ DependsOn[s] # {} => \E d \in DependsOn[s] : Status(run, d) = "completed"}

Runnable(run) ==
    {s \in Step : /\ Status(run, s) = "pending"
                  /\ \A d \in DependsOn[s] : Status(run, d) = "completed"}

Earlier(s, r) ==
    \E i, j \in DOMAIN Order : i <= j /\ Order[i] = s /\ Order[j] = r

(* _nextRunnableStep *)
NextRunnable(run) ==
    {s \in Runnable(run) : \A r \in Runnable(run) : Earlier(s, r)}

(* A mistake: with nothing pending and nothing failed, all is completed. *)
AllStepsSettled(run) ==
    \A s \in Step : Status(run, s) \notin {"pending", "failed"}

AllStepsCompleted(run) == \A s \in Step : Status(run, s) = "completed"

(* After the while loop. *)
Closed(run) ==
    IF AllStepsCompleted(run) THEN [run EXCEPT !.status = "completed"] ELSE run

Paused(run, s) == [Marked(run, s, "awaiting_approval") EXCEPT !.status = "paused"]

(* A mistake: the step fails, the run is left running. *)
FailedStepOnly(run, s) == Marked(run, s, "failed")

Failed(run, s) == [Marked(run, s, "failed") EXCEPT !.status = "failed"]

Budgeted(s) == durable /\ Cost[s] > 0 /\ Limit > 0

(* A mistake: the estimate is left out of the projection. *)
DeniedAfterwards(s) == Budgeted(s) /\ spent > Limit

(* _evaluateStepBudget and canSpend *)
Denied(s) == Budgeted(s) /\ spent + Cost[s] > Limit

(* A mistake: attempts are not counted. *)
AttemptUncounted(run, s) == Marked(run, s, "running")

(* A mistake: the step stays pending while its handler runs. *)
AttemptUnmarked(run, s) == [run EXCEPT !.steps[s].attempts = @ + 1]

AttemptBegun(run, s) ==
    [run EXCEPT !.steps[s] = [status |-> "running", attempts |-> @.attempts + 1]]

(* _executeTaskStep, from the head of its loop to the save before the call.   *)
(* A pending step has attempts left (TypeOK), so the  *)
(* loop is entered and is never left by its condition.                       *)
Attempt(op, s) ==
    IF Denied(s) THEN Saving(op, Failed(op.run, s), s, "return")
    ELSE Saving(op, AttemptBegun(op.run, s), s, "call")

(* runUntilBlocked, from the head of its loop to the next save.              *)
Proceed(op) ==
    IF Runnable(op.run) = {}
    THEN {Saving(op, Closed(op.run), NoStep, "return")}
    ELSE {IF s \in Approval THEN Saving(op, Paused(op.run, s), s, "return")
          ELSE IF s \notin op.handlers THEN Saving(op, Failed(op.run, s), s, "return")
          ELSE Attempt(op, s) : s \in NextRunnable(op.run)}

(* A mistake: the limit is compared with the attempts before this one. *)
ExhaustedLate(run, s) == run.steps[s].attempts > MaxAttempts[s]

Exhausted(run, s) == run.steps[s].attempts >= MaxAttempts[s]

(* The catch clause: a handler threw, or the save after it was rejected.     *)
Caught(op) ==
    IF Exhausted(op.run, op.step)
    THEN Saving(op, Failed(op.run, op.step), op.step, "return")
    ELSE Saving(op, Marked(op.run, op.step, "pending"), op.step, "retry")

-----------------------------------------------------------------------------
(* The operations. *)

(* An operation loads the run and comes to its first save.                   *)
Begin(a, run, handlers, next) ==
    /\ act[a].pc = "idle"
    /\ begun < MaxBegun
    /\ begun' = begun + 1
    /\ act' = [act EXCEPT ![a] =
                  Saving([Idle EXCEPT !.handlers = handlers], run, NoStep, next)]

Overlap == IF \E b \in Activation : act[b].pc # "idle" THEN {"overlap"} ELSE {}

(* A mistake: a failed run is taken up again. *)
RestableAfterFailure(run) == run.status \in {"completed", "paused"}

(* runUntilBlocked returns such a run as it is. *)
Restable(run) == run.status \in {"completed", "failed", "paused"}

RunUntilBlocked(a, handlers) ==
    /\ ~Restable(stored)
    /\ Begin(a, [stored EXCEPT !.status = "running"], handlers, "proceed")
    /\ disturbed' = disturbed \cup Overlap
    /\ UNCHANGED <<durable, stored, spent, faults, calls, done, returned>>

(* It looks at the step, not at the status of the run. *)
ApproveStep(a, s, p) ==
    /\ s \in Approval
    /\ Status(stored, s) = "awaiting_approval"
    /\ p \in Approvers[s]
    /\ Begin(a, [Marked(stored, s, "completed") EXCEPT !.status = "running"], {}, "reply")
    /\ done' = done \cup {s}
    /\ disturbed' = disturbed \cup Overlap
    /\ UNCHANGED <<durable, stored, spent, faults, calls, returned>>

(* WorkflowRecipeRuntime.cancel: the run, whatever its state, is failed.     *)
Cancel(a) ==
    /\ ~durable
    /\ Begin(a, [stored EXCEPT !.status = "failed"], {}, "reply")
    /\ disturbed' = disturbed \cup Overlap \cup {"cancel"}
    /\ UNCHANGED <<durable, stored, spent, faults, calls, done, returned>>

-----------------------------------------------------------------------------
(* The awaits. *)

SaveReturns(a, next) ==
    /\ act[a].pc = "saving" /\ act[a].next = next
    /\ stored' = act[a].run
    /\ UNCHANGED <<durable, spent, begun, faults, done, disturbed>>

(* The first save, or the one after a completed step: on to the next step.   *)
ProceedAfterSave(a) ==
    /\ \E next \in {"proceed", "settle"} : SaveReturns(a, next)
    /\ \E op \in Proceed(act[a]) : act' = [act EXCEPT ![a] = op]
    /\ UNCHANGED <<calls, returned>>

(* The step is running in the store: its handler is called. *)
CallAfterSave(a) ==
    /\ SaveReturns(a, "call")
    /\ act' = [act EXCEPT ![a].pc = "calling"]
    /\ calls' = [calls EXCEPT ![act[a].step] =
                    IF @ > MaxAttempts[act[a].step] THEN @ ELSE @ + 1]
    /\ UNCHANGED returned

RetryAfterSave(a) ==
    /\ SaveReturns(a, "retry")
    /\ act' = [act EXCEPT ![a] = Attempt(act[a], act[a].step)]
    /\ UNCHANGED <<calls, returned>>

ReturnAfterSave(a) ==
    /\ SaveReturns(a, "return")
    /\ act' = [act EXCEPT ![a] = Idle]
    /\ returned' = act[a].run.status
    /\ UNCHANGED calls

ReplyAfterSave(a) ==
    /\ SaveReturns(a, "reply")
    /\ act' = [act EXCEPT ![a] = Idle]
    /\ UNCHANGED <<calls, returned>>

(* A save is rejected, and with it the operation, unless the save stands in  *)
(* the try clause.  Saves that overlap share their temporary file, and the   *)
(* rename of one may bring the other's record in place.                      *)
SaveFails(a) ==
    /\ durable
    /\ act[a].pc = "saving"
    /\ faults < MaxFaults
    /\ faults' = faults + 1
    /\ \/ UNCHANGED stored
       \/ (\E b \in Activation \ {a} : act[b].pc # "idle") /\ stored' = act[a].run
    /\ act' = [act EXCEPT ![a] = IF @.next = "settle" THEN Caught(@) ELSE Idle]
    /\ disturbed' = disturbed \cup {"rejection"}
    /\ UNCHANGED <<durable, spent, begun, calls, done, returned>>

(* _completeTaskStep and _recordStepBudgetSpend. *)
HandlerReturns(a) ==
    LET s == act[a].step
    IN  /\ act[a].pc = "calling"
        /\ act' = [act EXCEPT ![a] = Saving(@, Marked(@.run, s, "completed"), s, "settle")]
        /\ spent' = IF durable THEN spent + Cost[s] ELSE spent
        /\ done' = done \cup {s}
        /\ UNCHANGED <<durable, stored, begun, faults, calls, returned, disturbed>>

HandlerThrows(a) ==
    /\ act[a].pc = "calling"
    /\ act' = [act EXCEPT ![a] = Caught(@)]
    /\ UNCHANGED <<durable, stored, spent, begun, faults, calls, done, returned, disturbed>>

(* The process dies: the file stays, the budget starts anew with the next.   *)
Crash ==
    /\ durable
    /\ faults < MaxFaults
    /\ faults' = faults + 1
    /\ act' = [a \in Activation |-> Idle]
    /\ spent' = 0
    /\ disturbed' = disturbed \cup {"crash"}
    /\ UNCHANGED <<durable, stored, begun, calls, done, returned>>

Next ==
    \/ Crash
    \/ \E a \in Activation :
          \/ \E handlers \in Catalog : RunUntilBlocked(a, handlers)
          \/ \E s \in Step, p \in Person : ApproveStep(a, s, p)
          \/ Cancel(a)
          \/ ProceedAfterSave(a) \/ CallAfterSave(a) \/ RetryAfterSave(a)
          \/ ReturnAfterSave(a) \/ ReplyAfterSave(a) \/ SaveFails(a)
          \/ HandlerReturns(a) \/ HandlerThrows(a)

Spec == Init /\ [][Next]_vars

-----------------------------------------------------------------------------
Copies == {stored} \cup {act[a].run : a \in Activation}

(* Type invariant of the store and of the copies of the run: no step begins     *)
(* more attempts than it may, and a pending one has an attempt left, so that  *)
(* _executeTaskStep never returns without having tried.                      *)
TypeOK ==
    /\ durable \in BOOLEAN
    /\ stored \in Run
    /\ act \in [Activation -> Operation]
    /\ \A run \in Copies, s \in Step : Status(run, s) = "pending" => ~Exhausted(run, s)
    /\ spent \in Nat /\ begun \in 0..MaxBegun /\ faults \in 0..MaxFaults
    /\ calls \in [Step -> Nat] /\ done \subseteq Step
    /\ returned \in RunStatuses \cup {"none"}
    /\ disturbed \subseteq {"overlap", "crash", "rejection", "cancel"}

(* The engine as a walk of the graph. *)
Called == {s \in Step : calls[s] > 0}

Dag == INSTANCE WorkflowDag WITH
    started <- Called,
    reported <- \E run \in Copies : run.status = "completed"

(* The engine implements WorkflowDag, whatever overlaps, fails, is cancelled or *)
(* dies: no handler is called and no approval counts before what the step     *)
(* depends on is done, and no copy of the run, in the store or in an          *)
(* operation, says completed before every task succeeded and every approval   *)
(* was given (runUntilBlocked, approveStep).                                 *)
WalksTheGraph == Dag!DagSpec

Calling(a, s) == act[a].pc = "calling" /\ act[a].step = s

(* Whatever overlaps, fails, is cancelled or dies: a handler is called only     *)
(* when each dependency of its step has had its own handler return or, for an *)
(* approval step, was approved by one of its approvers.                      *)
DependenciesFirst ==
    \A a \in Activation, s \in Step : Calling(a, s) => DependsOn[s] \subseteq done

(* No copy of a run, in the store or in an operation, says completed unless     *)
(* every task succeeded and every approval was given.                        *)
CompletionHonest ==
    \A run \in Copies : run.status = "completed" => done = Step

(* maxAttempts counts across crashes, retries and resumptions: while operations *)
(* on the run do not overlap, no handler is called more often.                *)
AttemptsBounded ==
    "overlap" \notin disturbed => \A s \in Step : calls[s] <= MaxAttempts[s]

(* A handler that returned is not called again, crashes included: the store     *)
(* learns that the step is running before the call.  A rejected save of the   *)
(* result is taken for a failure of the handler, and overlapping operations   *)
(* repeat each other's work; both are left out.                              *)
SucceedsOnce ==
    [][disturbed' \cap {"overlap", "rejection"} = {} =>
         \A a \in Activation, s \in done : Calling(a, s)' => Calling(a, s)]_vars

(* The session budget: what the steps of the run were charged stays within the  *)
(* limit, retried and repeated charges included.                             *)
BudgetKept == Limit > 0 /\ "overlap" \notin disturbed => spent <= Limit

(* runUntilBlocked returns a run that is settled or waits for an approval,      *)
(* which is all its callers know to handle (_fireTerminalHook), while the     *)
(* process lives and saves arrive.                                           *)
ReturnsBlocked ==
    disturbed \cap {"overlap", "crash", "rejection"} = {} =>
        returned \in {"none", "paused", "completed", "failed"}

(* A completed or failed run keeps its status and its steps, whoever calls the  *)
(* engine and whether or not it was restarted, unless operations overlap.  A  *)
(* cancelled run is left out: one that awaits an approval can be approved     *)
(* still, and then goes on.                                                  *)
SettledStays ==
    [][(/\ disturbed' \cap {"overlap", "cancel"} = {}
        /\ stored.status \in {"completed", "failed"}) => UNCHANGED stored]_vars

(* docs/PARITY_EXECUTION_BOARD.md: "phase-20 coverage locks DAG validation,     *)
(* crash-resume from durable store, approval pause/resume, retry count        *)
(* persistence, and artifact capture."  A run whose process died is carried   *)
(* on to its next approval or to its end by the next runUntilBlocked.         *)
CrashedRunResumes ==
    disturbed \subseteq {"crash"} =>
        returned \in {"none", "paused", "completed", "failed"}
=============================================================================
