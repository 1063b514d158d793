----------------------------- MODULE Coordinator -----------------------------
(***************************************************************************)
(* ColonyCoordinator with its ColonyAgentRegistry, used by callers that    *)
(* may call any public operation in any order                              *)
(* (src/orchestrator/coordinator.ts, src/agents/registry.ts).              *)
(*                                                                         *)
(* Every operation is synchronous, so an operation is one action; the loop *)
(* of dispatchFanOutExecution over its workers is one claim per step, and  *)
(* nothing else runs while it is under way.  Workers start and complete    *)
(* tasks through the coordinator only, as everywhere in src/.              *)
(***************************************************************************)
EXTENDS CoordinatorOps, Sequences, FiniteSets

CONSTANTS
    Execution,     \* identifiers of fan-out executions
    NoExecution,
    MaxListed      \* bound: workers named in one dispatch

ASSUME NoExecutionIsNone == NoExecution \notin Execution
ASSUME MaxListedIsNat == MaxListed \in Nat

VARIABLES
    workers,      \* ColonyAgentRegistry._workers
    tasks,        \* _tasks
    executions,   \* _executions: status and taskIds
    spent,        \* SessionBudget._totalTokens
    dispatch      \* the dispatch under way: its execution and remaining workers

vars == <<workers, tasks, executions, spent, dispatch>>

NoDispatch == [exec |-> NoExecution, left |-> <<>>]

Idle == dispatch = NoDispatch

Existing == {t \in Task : tasks[t].status # "absent"}

(* Tasks come into being in the order of Age. *)
IsNextBatch(S) ==
    /\ S \cap Existing = {}
    /\ \A t \in S, u \in Task \ (S \cup Existing) : Age[t] < Age[u]

-----------------------------------------------------------------------------
Init ==
    /\ workers = [w \in Worker |-> Absent]
    /\ tasks = [t \in Task |-> AbsentTask]
    /\ executions = [x \in Execution |-> [status |-> "absent", taskIds |-> {}]]
    /\ spent = 0
    /\ dispatch = NoDispatch

-----------------------------------------------------------------------------
(* The registry's own operations. *)

SpawnWorker(w) ==
    /\ Idle
    /\ workers[w] = Absent
    /\ workers' = [workers EXCEPT ![w] = Spawned]
    /\ UNCHANGED <<tasks, executions, spent, dispatch>>

(* markReady, pauseWorker, resumeWorker, stopWorker on an existing worker *)
ChangeWorker(w) ==
    /\ Idle
    /\ workers[w] # Absent
    /\ \E next \in {MarkReady(workers[w]), Pause(workers[w]),
                    Resume(workers[w]), Stop(workers[w])} :
          workers' = [workers EXCEPT ![w] = next]
    /\ UNCHANGED <<tasks, executions, spent, dispatch>>

-----------------------------------------------------------------------------
(* The coordinator's operations. *)

EnqueueTask(t) ==
    /\ Idle
    /\ IsNextBatch({t})
    /\ tasks' = [tasks EXCEPT ![t] = QueuedTask]
    /\ UNCHANGED <<workers, executions, spent, dispatch>>

(* startFanOutExecution: an execution without children is completed. *)
StartFanOutExecution(x, children) ==
    /\ Idle
    /\ executions[x].status = "absent"
    /\ IsNextBatch(children)
    /\ tasks' = [t \in Task |-> IF t \in children THEN QueuedTask ELSE tasks[t]]
    /\ executions' = [executions EXCEPT
          ![x] = [status |-> IF children = {} THEN "completed" ELSE "running",
                  taskIds |-> children]]
    /\ UNCHANGED <<workers, spent, dispatch>>

(* _claimNextQueuedTask: evaluates the policies on the candidates in order,   *)
(* settles those it turns down, and assigns the first that passes.           *)
ClaimNext(w, scope) ==
    IF Retired(workers[w]) THEN UNCHANGED <<workers, tasks, spent>>
    ELSE /\ tasks' = ClaimTasks(tasks, spent, w, scope)
         /\ workers' = ClaimWorkers(workers, tasks, spent, w, scope)
         /\ spent' = ClaimSpend(tasks, spent, w, scope)

ClaimNextTask(w) ==
    /\ Idle
    /\ ClaimNext(w, Task)
    /\ UNCHANGED <<executions, dispatch>>

(* dispatchFanOutExecution with the given worker ids: nothing happens unless  *)
(* the execution is running.                                                *)
DispatchFanOutExecution(x, ws) ==
    /\ Idle
    /\ executions[x].status = "running"
    /\ ws # <<>>
    /\ dispatch' = [exec |-> x, left |-> ws]
    /\ UNCHANGED <<workers, tasks, executions, spent>>

DispatchStep ==
    /\ ~Idle
    /\ ClaimNext(Head(dispatch.left), executions[dispatch.exec].taskIds)
    /\ dispatch' = IF Len(dispatch.left) = 1 THEN NoDispatch
                   ELSE [dispatch EXCEPT !.left = Tail(@)]
    /\ UNCHANGED executions

ApproveTask(t, p) ==
    /\ Idle
    /\ t \in Existing
    /\ tasks' = [tasks EXCEPT ![t] = Approved(@, t, p)]
    /\ UNCHANGED <<workers, executions, spent, dispatch>>

CompleteTask(t, w) ==
    /\ Idle
    /\ t \in Existing
    /\ tasks' = CompleteTasks(tasks, t, w)
    /\ workers' = CompleteWorkers(workers, tasks, t, w)
    /\ UNCHANGED <<executions, spent, dispatch>>

(* failTask on a task that does not exist still takes the worker down. *)
FailTask(t, w) ==
    /\ Idle
    /\ tasks' = IF t \in Existing THEN FailTasks(tasks, t) ELSE tasks
    /\ workers' = FailWorkers(workers, w)
    /\ UNCHANGED <<executions, spent, dispatch>>

CancelExecution(x) ==
    /\ Idle
    /\ executions[x].status # "absent"
    /\ tasks' = CancelTasks(tasks, executions[x].taskIds)
    /\ workers' = CancelWorkers(workers, tasks, executions[x].taskIds)
    /\ executions' = [executions EXCEPT ![x].status = "cancelled"]
    /\ UNCHANGED <<spent, dispatch>>

CollectFanIn(x) ==
    /\ Idle
    /\ executions[x].status # "absent"
    /\ executions' = [executions EXCEPT
          ![x].status = FanInStatus(tasks, executions[x].taskIds)]
    /\ UNCHANGED <<workers, tasks, spent, dispatch>>

(* The orders in which a caller may list its workers. *)
WorkerLists == UNION {[1..n -> Worker] : n \in 1..MaxListed}

Next ==
    \/ \E w \in Worker : SpawnWorker(w) \/ ChangeWorker(w) \/ ClaimNextTask(w)
    \/ \E t \in Task : EnqueueTask(t)
    \/ \E t \in Task, p \in Person : ApproveTask(t, p)
    \/ \E t \in Task, w \in Worker : CompleteTask(t, w) \/ FailTask(t, w)
    \/ \E x \in Execution, children \in SUBSET Task :
          StartFanOutExecution(x, children)
    \/ \E x \in Execution, ws \in WorkerLists : DispatchFanOutExecution(x, ws)
    \/ \E x \in Execution : CancelExecution(x) \/ CollectFanIn(x)
    \/ DispatchStep

Spec == Init /\ [][Next]_vars

-----------------------------------------------------------------------------
(* Type invariant of the worker, task and execution maps. *)
TypeOK ==
    /\ workers \in [Worker -> WorkerRecord]
    /\ tasks \in [Task -> TaskRecord]
    /\ executions \in
          [Execution -> [status : ExecutionStatuses, taskIds : SUBSET Task]]
    /\ spent \in Nat
    /\ \/ Idle
       \/ dispatch \in [exec : Execution, left : Seq(Worker) \ {<<>>}]

(* Every worker that is not running or paused has let go of its task. *)
OnlyBusyWorkersHold ==
    \A w \in Worker :
        workers[w].state \in {"running", "paused"} <=> workers[w].task # NoTask

(* A task that is assigned is in somebody's hands: its assignee works on this *)
(* very task, or has failed or been stopped.  No sequence of claims,          *)
(* completions by the wrong worker, late completions, approvals and           *)
(* cancellations leaves an assigned task with a worker that went on to        *)
(* something else (claimNextTask, completeTask, failTask, cancelExecution).   *)
AssignedIsHeld ==
    \A t \in Task, w \in Worker :
        IsAssignedTo(tasks, t, w) =>
            workers[w].task = t \/ workers[w].state \in {"failed", "stopped"}

(* A task with an approval policy is assigned only after one of its approvers *)
(* approved it, and is never assigned, or waiting in the queue, while its      *)
(* request for approval is shown as open (approveTask, claimNextTask).        *)
ApprovalGate ==
    \A t \in Task :
        /\ NeedsApproval(t) /\ tasks[t].assignee # NoWorker
              => tasks[t].approvedBy \in Approvers[t]
        /\ tasks[t].awaiting
              => tasks[t].status \in {"blocked", "failed", "cancelled"}

(* A task without an approval policy is in the hands of at most one worker,   *)
(* its assignee, and of nobody once it is cancelled.  (An approval puts a     *)
(* task back into the queue even while a worker runs it.)                     *)
PlainTaskHolder ==
    \A w \in Worker :
        LET t == workers[w].task
        IN  t # NoTask /\ ~NeedsApproval(t) =>
                tasks[t].assignee = w /\ tasks[t].status # "cancelled"

(* The tokens recorded for claims never exceed the session budget, however     *)
(* often tasks are queued again and claimed again.                            *)
BudgetKept == MaxTokens > 0 => spent <= MaxTokens

(* An execution that fan-in ever reported completed has had every child        *)
(* assigned to a worker: denied, cancelled or foreign-failed children never    *)
(* count as completed ones.                                                   *)
CompletedExecutionRan ==
    \A x \in Execution :
        executions[x].status = "completed" =>
            \A t \in executions[x].taskIds : tasks[t].assignee # NoWorker

(* Workers retire for good: a failed or stopped worker never holds a task or   *)
(* becomes available again.                                                   *)
RetiredForGood ==
    [][\A w \in Worker :
          workers[w].state \in {"failed", "stopped"} =>
              /\ workers'[w].state \in {"failed", "stopped"}
              /\ workers'[w].task = NoTask]_vars

(* A task without an approval policy is settled once: it is not queued,        *)
(* assigned or blocked again, and if it failed or was cancelled no late or     *)
(* duplicate completion makes it completed.                                   *)
PlainTaskSettlesOnce ==
    [][\A t \in Task :
          ~NeedsApproval(t) /\ Terminal(tasks[t].status) =>
              /\ Terminal(tasks'[t].status)
              /\ tasks'[t].status = "completed" => tasks[t].status = "completed"]_vars
=============================================================================
