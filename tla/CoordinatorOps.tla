--------------------------- MODULE CoordinatorOps ---------------------------
(***************************************************************************)
(* The operations of ColonyCoordinator (src/orchestrator/coordinator.ts)   *)
(* as functions of its task map, its worker registry and its budget.       *)
(*                                                                         *)
(* What a task is created with never changes, so it is given by constants: *)
(* who may approve it (nobody: no approval policy), which workers have its *)
(* required role, which workers the security policy denies it to, its      *)
(* priority, its place in the order of creation and its token estimate.    *)
(***************************************************************************)
EXTENDS AgentRegistry, Integers

CONSTANTS
    Worker, NoWorker,   \* worker identifiers
    Person, Nobody,     \* names passed to approveTask
    Approvers,          \* task -> the persons whose approval it accepts
    Suits,              \* pairs <<worker, task>> with matching roles
    Denied,             \* pairs <<worker, task>> the security policy denies
    Priority, Age,      \* task -> priority, task -> order of creation
    Cost,               \* task -> estimatedTokens, 0 without a budget
    MaxTokens           \* the session budget's limit, 0 without one

ASSUME CoordinatorConstants ==
    /\ NoWorker \notin Worker
    /\ Nobody \notin Person
    /\ Approvers \in [Task -> SUBSET Person]
    /\ Suits \subseteq Worker \X Task
    /\ Denied \subseteq Worker \X Task
    /\ Priority \in [Task -> Int]
    /\ Age \in [Task -> Nat]
    /\ \A t, u \in Task : Age[t] = Age[u] => t = u
    /\ Cost \in [Task -> Nat]
    /\ MaxTokens \in Nat

TaskStatuses ==
    {"absent", "queued", "assigned", "blocked", "completed", "failed", "cancelled"}

ExecutionStatuses == {"absent", "running", "completed", "failed", "cancelled"}

(* approvedBy: the allowed "approval" entry of policyDecisions;             *)
(* awaiting: whether awaitingApproval is set.                               *)
TaskRecord ==
    [status : TaskStatuses, assignee : Worker \cup {NoWorker},
     approvedBy : Person \cup {Nobody}, awaiting : BOOLEAN]

AbsentTask ==
    [status |-> "absent", assignee |-> NoWorker, approvedBy |-> Nobody,
     awaiting |-> FALSE]

(* enqueueTask *)
QueuedTask == [AbsentTask EXCEPT !.status = "queued"]

Terminal(s) == s \in {"completed", "failed", "cancelled"}

NeedsApproval(t) == Approvers[t] # {}

-----------------------------------------------------------------------------
(* Plausible slips in the claim, each caught by a property of a module that *)
(* uses it.                                                                 *)

(* The approval policy is looked at only while a request is open. *)
ApprovalOKWhenNotAwaiting(ts, t) == ~ts[t].awaiting

(* The budget compares what is already spent, not what will be. *)
BudgetOKStale(spent, t) == Cost[t] = 0 \/ MaxTokens = 0 \/ spent <= MaxTokens

(* The claim does not look at the worker's lifecycle state at all. *)
ClaimedWorkerForced(w, ready) ==
    IF ready = {} THEN w ELSE [state |-> "running", task |-> CHOOSE t \in ready : TRUE]

(* Fan-in takes any settled child for a completed one. *)
FanInStatusSettled(ts, children) ==
    IF \A t \in children : Terminal(ts[t].status) THEN "completed" ELSE "running"

(* completeTask trusts the caller. *)
IsAssignedToUnchecked(ts, t, w) == TRUE

(* cancelExecution forgets the workers of tasks it cancels. *)
CancelledWorkerForgotten(w, tasksOfWorker) == w

(* recordSpend refunds the estimate. *)
ClaimSpendRefund(ts, spent, w, scope) == spent - 1

-----------------------------------------------------------------------------
(* claimNextTask *)

(* The sort of the candidates: priority first, then creation. *)
Before(t, u) ==
    \/ Priority[t] > Priority[u]
    \/ Priority[t] = Priority[u] /\ Age[t] < Age[u]

Candidates(ts, w, scope) ==
    {t \in scope : ts[t].status = "queued" /\ <<w, t>> \in Suits}

(* _evaluateApprovalPolicy *)
ApprovalOK(ts, t) == NeedsApproval(t) => ts[t].approvedBy # Nobody

(* _evaluateBudgetPolicy with SessionBudget.canSpend *)
BudgetOK(spent, t) ==
    Cost[t] = 0 \/ MaxTokens = 0 \/ spent + Cost[t] <= MaxTokens

(* _evaluateSecurityPolicy *)
SecurityOK(w, t) == <<w, t>> \notin Denied

(* _prepareTaskForAssignment succeeds *)
Prepared(ts, spent, w, t) ==
    ApprovalOK(ts, t) /\ BudgetOK(spent, t) /\ SecurityOK(w, t)

(* The candidate .find settles on: at most one. *)
Chosen(ts, spent, w, scope) ==
    {t \in Candidates(ts, w, scope) :
        /\ Prepared(ts, spent, w, t)
        /\ \A u \in Candidates(ts, w, scope) \ {t} :
              Prepared(ts, spent, w, u) => Before(t, u)}

(* The candidates .find turned down on its way. *)
Examined(ts, spent, w, scope) ==
    {t \in Candidates(ts, w, scope) :
        /\ ~Prepared(ts, spent, w, t)
        /\ \A u \in Chosen(ts, spent, w, scope) : Before(t, u)}

(* Turned down for want of an approval, or denied by budget or security. *)
TurnedDown(ts, t) ==
    IF ApprovalOK(ts, t)
    THEN [ts[t] EXCEPT !.status = "failed"]
    ELSE [ts[t] EXCEPT !.status = "blocked", !.awaiting = TRUE]

ClaimTasks(ts, spent, w, scope) ==
    [t \in Task |->
        IF t \in Chosen(ts, spent, w, scope)
        THEN [ts[t] EXCEPT !.status = "assigned", !.assignee = w]
        ELSE IF t \in Examined(ts, spent, w, scope) THEN TurnedDown(ts, t)
        ELSE ts[t]]

(* startWorkerTask for the chosen task, if there is one *)
ClaimedWorker(w, ready) ==
    IF ready = {} THEN w ELSE StartTask(w, CHOOSE t \in ready : TRUE)

ClaimWorkers(ws, ts, spent, w, scope) ==
    [ws EXCEPT ![w] = ClaimedWorker(@, Chosen(ts, spent, w, scope))]

(* _recordBudgetSpend with SessionBudget.recordSpend *)
ClaimSpend(ts, spent, w, scope) ==
    IF Chosen(ts, spent, w, scope) = {} THEN spent
    ELSE spent + Cost[CHOOSE t \in Chosen(ts, spent, w, scope) : TRUE]

-----------------------------------------------------------------------------
(* approveTask: whatever the task's status, a wrong name blocks it and a      *)
(* right one queues it.                                                      *)
Approved(task, t, p) ==
    IF ~NeedsApproval(t) THEN task
    ELSE IF p \in Approvers[t]
    THEN [task EXCEPT !.status = "queued", !.approvedBy = p, !.awaiting = FALSE]
    ELSE [task EXCEPT !.status = "blocked"]

(* _assignedTaskOrFailed finds the task assigned to the caller *)
IsAssignedTo(ts, t, w) == ts[t].status = "assigned" /\ ts[t].assignee = w

(* completeTask: anybody but the assignee fails the task, and a task that is *)
(* no longer assigned fails too.                                            *)
CompleteTasks(ts, t, w) ==
    [ts EXCEPT ![t].status =
        IF IsAssignedTo(ts, t, w) THEN "completed" ELSE "failed"]

CompleteWorkers(ws, ts, t, w) ==
    IF IsAssignedTo(ts, t, w) THEN [ws EXCEPT ![w] = FinishTask(@)] ELSE ws

(* failTask: the task fails whoever asks, and the caller's worker goes        *)
(* through pauseWorker, completeWorkerTask and stopWorker.                   *)
FailTasks(ts, t) == [ts EXCEPT ![t].status = "failed"]

FailedWorker(w) == Stop(FinishTask(Pause(w)))

FailWorkers(ws, w) == [ws EXCEPT ![w] = FailedWorker(@)]

(* cancelExecution: unsettled children are cancelled, their workers stopped. *)
CancelTasks(ts, children) ==
    [t \in Task |->
        IF t \in children /\ ~Terminal(ts[t].status)
        THEN [ts[t] EXCEPT !.status = "cancelled"] ELSE ts[t]]

CancelledWorker(w, tasksOfWorker) == IF tasksOfWorker = {} THEN w ELSE Stop(w)

CancelWorkers(ws, ts, children) ==
    [w \in Worker |->
        CancelledWorker(ws[w],
            {t \in children : ~Terminal(ts[t].status) /\ ts[t].assignee = w})]

(* collectFanIn: cancelled before failed before all completed. *)
FanInStatus(ts, children) ==
    LET Some(s) == \E t \in children : ts[t].status = s
    IN  CASE Some("cancelled") -> "cancelled"
          [] ~Some("cancelled") /\ Some("failed") -> "failed"
          [] \A t \in children : ts[t].status = "completed" -> "completed"
          [] OTHER -> "running"
=============================================================================
