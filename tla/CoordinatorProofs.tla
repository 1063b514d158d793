-------------------------- MODULE CoordinatorProofs --------------------------
(***************************************************************************)
(* The coordinator for every set of tasks, workers, persons and executions *)
(* and every policy, priority and budget.                                  *)
(***************************************************************************)
EXTENDS Coordinator, SequenceTheorems, TLAPS

(* Only a worker that runs or pauses a task has one. *)
BusyHolds == OnlyBusyWorkersHold

(* A plain task somebody holds is assigned to him, or was failed over his     *)
(* head; in particular it is not in the queue, where others could claim it.   *)
PlainHeldStatus ==
    \A w \in Worker :
        LET t == workers[w].task
        IN  t # NoTask /\ ~NeedsApproval(t) =>
                tasks[t].assignee = w /\ tasks[t].status \in {"assigned", "failed"}

(* Only approvers are recorded as approving. *)
ApprovalsGenuine ==
    \A t \in Task : tasks[t].approvedBy # Nobody => tasks[t].approvedBy \in Approvers[t]

(* A task that is assigned or completed has an assignee; one that is not yet   *)
(* created has none.                                                         *)
AssigneeKnown ==
    \A t \in Task :
        /\ tasks[t].status \in {"assigned", "completed"} => tasks[t].assignee # NoWorker
        /\ tasks[t].status = "absent" => tasks[t] = AbsentTask

HoldInv == AssignedIsHeld /\ BusyHolds /\ PlainHeldStatus

GateInv == ApprovalGate /\ ApprovalsGenuine

CoordInv ==
    /\ TypeOK
    /\ HoldInv
    /\ GateInv
    /\ AssigneeKnown
    /\ BudgetKept
    /\ CompletedExecutionRan

-----------------------------------------------------------------------------
(* What the registry's methods do to a worker. *)

LEMMA RegistryTypes ==
  ASSUME NEW w \in WorkerRecord, NEW t \in Task
  PROVE  /\ MarkReady(w) \in WorkerRecord
         /\ StartTask(w, t) \in WorkerRecord
         /\ Pause(w) \in WorkerRecord
         /\ Resume(w) \in WorkerRecord
         /\ FinishTask(w) \in WorkerRecord
         /\ Stop(w) \in WorkerRecord
BY DEF MarkReady, StartTask, Pause, Resume, FinishTask, Stop, MoveFrom, Failed,
       WorkerRecord, WorkerStates

(* The order of the claim is total and strict. *)
LEMMA BeforeAsymmetric ==
  ASSUME NEW t \in Task, NEW u \in Task, Before(t, u)
  PROVE  ~Before(u, t)
BY CoordinatorConstants DEF Before

(* .find settles on one candidate at most. *)
LEMMA ChosenUnique ==
  ASSUME NEW ts, NEW sp, NEW w, NEW scope \in SUBSET Task,
         NEW t \in Chosen(ts, sp, w, scope), NEW u \in Chosen(ts, sp, w, scope)
  PROVE  t = u
<1> SUFFICES ASSUME t # u PROVE FALSE
  OBVIOUS
<1>1. t \in Task /\ u \in Task
  BY DEF Chosen, Candidates
<1>2. Before(t, u) /\ Before(u, t)
  BY DEF Chosen
<1>3. QED
  BY <1>1, <1>2, BeforeAsymmetric

(* A candidate that is turned down was queued and leaves the queue unassigned. *)
TurnedDownAt(t) ==
    /\ tasks[t].status = "queued"
    /\ \/ /\ NeedsApproval(t) /\ tasks[t].approvedBy = Nobody
          /\ tasks'[t] = [tasks[t] EXCEPT !.status = "blocked", !.awaiting = TRUE]
       \/ tasks'[t] = [tasks[t] EXCEPT !.status = "failed"]

(* The claim assigns c to w. *)
Assigns(w, c) ==
    /\ c \in Task
    /\ tasks[c].status = "queued"
    /\ ApprovalOK(tasks, c) /\ BudgetOK(spent, c)
    /\ tasks'[c] = [tasks[c] EXCEPT !.status = "assigned", !.assignee = w]
    /\ workers' = [workers EXCEPT ![w] = StartTask(@, c)]
    /\ spent' = spent + Cost[c]

(* A claim assigns one task or none; every other task stays or is turned down. *)
LEMMA ClaimEffect ==
  ASSUME TypeOK, NEW w \in Worker, NEW scope \in SUBSET Task,
         ~Retired(workers[w]), ClaimNext(w, scope)
  PROVE  /\ tasks' \in [Task -> TaskRecord]
         /\ \/ /\ workers' = workers /\ spent' = spent
               /\ \A t \in Task : tasks'[t] = tasks[t] \/ TurnedDownAt(t)
            \/ \E c \in Task :
                  /\ Assigns(w, c)
                  /\ \A t \in Task \ {c} : tasks'[t] = tasks[t] \/ TurnedDownAt(t)
<1> DEFINE ch == Chosen(tasks, spent, w, scope)
           ex == Examined(tasks, spent, w, scope)
<1>1. /\ tasks' = ClaimTasks(tasks, spent, w, scope)
      /\ workers' = ClaimWorkers(workers, tasks, spent, w, scope)
      /\ spent' = ClaimSpend(tasks, spent, w, scope)
  BY DEF ClaimNext
<1>2. \A t \in ch : /\ t \in Task /\ tasks[t].status = "queued"
                    /\ ApprovalOK(tasks, t) /\ BudgetOK(spent, t)
  BY DEF Chosen, Candidates, Prepared
<1>3. \A t \in ex : t \in Task /\ tasks[t].status = "queued"
  BY DEF Examined, Candidates
<1>4. ASSUME NEW t \in Task PROVE tasks'[t] \in TaskRecord
  <2>1. tasks[t] \in TaskRecord
    BY DEF TypeOK
  <2>2. CASE t \in ch
    BY <1>1, <2>1, <2>2 DEF ClaimTasks, TaskRecord, TaskStatuses
  <2>3. CASE t \notin ch
    BY <1>1, <2>1, <2>3 DEF ClaimTasks, TurnedDown, TaskRecord, TaskStatuses
  <2>4. QED
    BY <2>2, <2>3
<1>5. tasks' \in [Task -> TaskRecord]
  BY <1>1, <1>4 DEF ClaimTasks
<1>6. ASSUME NEW t \in Task, t \notin ch
      PROVE  tasks'[t] = tasks[t] \/ TurnedDownAt(t)
  <2>1. CASE t \in ex
    BY <1>1, <1>3, <1>6, <2>1 DEF ClaimTasks, TurnedDown, TurnedDownAt, ApprovalOK
  <2>2. CASE t \notin ex
    BY <1>1, <1>6, <2>2 DEF ClaimTasks
  <2>3. QED
    BY <2>1, <2>2
<1>7. CASE ch = {}
  <2>1. workers' = workers /\ spent' = spent
    BY <1>1, <1>7 DEF ClaimWorkers, ClaimedWorker, ClaimSpend, TypeOK
  <2>2. QED
    BY <1>5, <1>6, <1>7, <2>1
<1>8. CASE ch # {}
  <2> DEFINE c == CHOOSE t \in ch : TRUE
  <2>1. c \in ch /\ c \in Task
    BY <1>2, <1>8
  <2>2. \A t \in ch : t = c
    BY <2>1, ChosenUnique
  <2>3. tasks'[c] = [tasks[c] EXCEPT !.status = "assigned", !.assignee = w]
    BY <1>1, <2>1 DEF ClaimTasks
  <2>4. workers' = [workers EXCEPT ![w] = StartTask(@, c)] /\ spent' = spent + Cost[c]
    BY <1>1, <1>8 DEF ClaimWorkers, ClaimedWorker, ClaimSpend
  <2>5. Assigns(w, c)
    BY <1>2, <2>1, <2>3, <2>4 DEF Assigns
  <2>6. QED
    BY <1>5, <1>6, <2>1, <2>2, <2>5
<1>9. QED
  BY <1>7, <1>8

(* A claim keeps the invariant: the part about who holds what, ... *)
LEMMA ClaimHoldInv ==
  ASSUME CoordInv, NEW w \in Worker, NEW scope \in SUBSET Task,
         ~Retired(workers[w]), ClaimNext(w, scope)
  PROVE  HoldInv'
<1> USE DEF CoordInv
<1>1. \A t \in Task : TurnedDownAt(t) =>
          /\ tasks[t].status = "queued" /\ tasks'[t].status \in {"blocked", "failed"}
          /\ tasks'[t].assignee = tasks[t].assignee
  BY DEF TurnedDownAt, TypeOK, TaskRecord
<1>2. CASE /\ workers' = workers
           /\ \A t \in Task : tasks'[t] = tasks[t] \/ TurnedDownAt(t)
  <2>1. AssignedIsHeld'
    BY <1>1, <1>2 DEF HoldInv, AssignedIsHeld, IsAssignedTo
  <2>2. BusyHolds'
    BY <1>2 DEF HoldInv, BusyHolds, OnlyBusyWorkersHold
  <2>3. PlainHeldStatus'
    BY <1>1, <1>2 DEF HoldInv, PlainHeldStatus, TypeOK, WorkerRecord
  <2>4. QED
    BY <2>1, <2>2, <2>3 DEF HoldInv
<1>3. ASSUME NEW c \in Task, Assigns(w, c),
             \A t \in Task \ {c} : tasks'[t] = tasks[t] \/ TurnedDownAt(t)
      PROVE  HoldInv'
  <2>1. /\ tasks[c].status = "queued"
        /\ tasks'[c].status = "assigned" /\ tasks'[c].assignee = w
    BY <1>3 DEF Assigns, TypeOK, TaskRecord
  <2>2. \A v \in Worker \ {w} : workers'[v] = workers[v]
    BY <1>3 DEF Assigns
  <2>3. workers[w].state \in {"spawned", "idle", "running", "paused"}
        /\ workers[w] \in WorkerRecord
    BY DEF Retired, TypeOK, WorkerRecord, WorkerStates
  <2>4. workers'[w] = StartTask(workers[w], c)
    BY <1>3 DEF Assigns, TypeOK
  <2>5. CASE workers[w].state \in {"spawned", "idle"}
    <3>1. workers'[w] = [state |-> "running", task |-> c]
      BY <2>4, <2>5 DEF StartTask, MoveFrom
    <3>2. \A t \in Task : ~IsAssignedTo(tasks, t, w)
      BY <2>5, NoTaskIsNoTask DEF HoldInv, AssignedIsHeld, BusyHolds, OnlyBusyWorkersHold
    <3>3. AssignedIsHeld'
      <4> SUFFICES ASSUME NEW t \in Task, NEW v \in Worker, IsAssignedTo(tasks', t, v)
                   PROVE  workers'[v].task = t \/ workers'[v].state \in {"failed", "stopped"}
        BY DEF AssignedIsHeld, IsAssignedTo
      <4>1. CASE t = c
        BY <2>1, <3>1, <4>1 DEF IsAssignedTo
      <4>2. CASE t # c
        <5>1. IsAssignedTo(tasks, t, v)
          BY <1>1, <1>3, <4>2 DEF IsAssignedTo
        <5>2. v # w
          BY <3>2, <5>1
        <5>3. QED
          BY <2>2, <5>1, <5>2 DEF HoldInv, AssignedIsHeld
      <4>3. QED
        BY <4>1, <4>2
    <3>4. BusyHolds'
      BY <2>2, <3>1, NoTaskIsNoTask DEF HoldInv, BusyHolds, OnlyBusyWorkersHold
    <3>5. PlainHeldStatus'
      <4> SUFFICES ASSUME NEW v \in Worker, workers'[v].task # NoTask,
                          ~NeedsApproval(workers'[v].task)
                   PROVE  /\ tasks'[workers'[v].task].assignee = v
                          /\ tasks'[workers'[v].task].status \in {"assigned", "failed"}
        BY DEF PlainHeldStatus, NeedsApproval
      <4>1. CASE v = w
        BY <2>1, <3>1, <4>1
      <4>2. CASE v # w
        <5>1. workers'[v] = workers[v] /\ workers[v].task \in Task
          BY <2>2, <4>2 DEF TypeOK, WorkerRecord
        <5>2. /\ tasks[workers[v].task].assignee = v
              /\ tasks[workers[v].task].status \in {"assigned", "failed"}
          BY <5>1 DEF HoldInv, PlainHeldStatus
        <5>3. QED
          BY <1>1, <1>3, <2>1, <5>1, <5>2
      <4>3. QED
        BY <4>1, <4>2
    <3>6. QED
      BY <3>3, <3>4, <3>5 DEF HoldInv
  <2>6. CASE workers[w].state \in {"running", "paused"}
    <3>1. workers'[w] = Failed
      BY <2>4, <2>6 DEF StartTask, MoveFrom
    <3>2. AssignedIsHeld'
      <4> SUFFICES ASSUME NEW t \in Task, NEW v \in Worker, IsAssignedTo(tasks', t, v), v # w
                   PROVE  workers'[v].task = t \/ workers'[v].state \in {"failed", "stopped"}
        BY <3>1 DEF AssignedIsHeld, IsAssignedTo, Failed
      <4>1. IsAssignedTo(tasks, t, v)
        BY <1>1, <1>3, <2>1 DEF IsAssignedTo
      <4>2. QED
        BY <2>2, <4>1 DEF HoldInv, AssignedIsHeld
    <3>3. BusyHolds'
      BY <2>2, <3>1 DEF HoldInv, BusyHolds, OnlyBusyWorkersHold, Failed
    <3>4. PlainHeldStatus'
      <4> SUFFICES ASSUME NEW v \in Worker, workers'[v].task # NoTask,
                          ~NeedsApproval(workers'[v].task)
                   PROVE  /\ tasks'[workers'[v].task].assignee = v
                          /\ tasks'[workers'[v].task].status \in {"assigned", "failed"}
        BY DEF PlainHeldStatus, NeedsApproval
      <4>1. v # w
        BY <3>1 DEF Failed
      <4>2. workers'[v] = workers[v] /\ workers[v].task \in Task
        BY <2>2, <4>1 DEF TypeOK, WorkerRecord
      <4>3. /\ tasks[workers[v].task].assignee = v
            /\ tasks[workers[v].task].status \in {"assigned", "failed"}
        BY <4>2 DEF HoldInv, PlainHeldStatus
      <4>4. QED
        BY <1>1, <1>3, <2>1, <4>2, <4>3
    <3>5. QED
      BY <3>2, <3>3, <3>4 DEF HoldInv
  <2>7. QED
    BY <2>3, <2>5, <2>6
<1>4. QED
  BY <1>2, <1>3, ClaimEffect

(* ... and the parts about approvals, assignees, the budget and fan-in. *)
LEMMA ClaimRestInv ==
  ASSUME CoordInv, NEW w \in Worker, NEW scope \in SUBSET Task,
         ~Retired(workers[w]), ClaimNext(w, scope), UNCHANGED executions
  PROVE  /\ GateInv' /\ AssigneeKnown' /\ BudgetKept' /\ CompletedExecutionRan'
         /\ tasks' \in [Task -> TaskRecord]
         /\ workers' \in [Worker -> WorkerRecord]
         /\ spent' \in Nat
<1> USE DEF CoordInv
<1>1. tasks' \in [Task -> TaskRecord]
  BY ClaimEffect
<1>2. ASSUME NEW t \in Task, TurnedDownAt(t)
      PROVE  /\ tasks[t].status = "queued"
             /\ tasks'[t].status \in {"blocked", "failed"}
             /\ tasks'[t].assignee = tasks[t].assignee
             /\ tasks'[t].approvedBy = tasks[t].approvedBy
             /\ tasks'[t].awaiting => tasks'[t].status = "blocked" \/ tasks[t].awaiting
  BY <1>2 DEF TurnedDownAt, TypeOK, TaskRecord
<1>3. ASSUME NEW c \in Task, Assigns(w, c)
      PROVE  /\ tasks[c].status = "queued"
             /\ tasks'[c].status = "assigned" /\ tasks'[c].assignee = w
             /\ tasks'[c].approvedBy = tasks[c].approvedBy
             /\ tasks'[c].awaiting = tasks[c].awaiting
             /\ NeedsApproval(c) => tasks[c].approvedBy # Nobody
  BY <1>3 DEF Assigns, ApprovalOK, TypeOK, TaskRecord
<1> DEFINE Moves(t) ==
      tasks'[t] = tasks[t] \/ TurnedDownAt(t) \/ Assigns(w, t)
<1>4. \A t \in Task : Moves(t)
  BY ClaimEffect
<1>5. ApprovalGate'
  BY <1>2, <1>3, <1>4 DEF GateInv, ApprovalGate, ApprovalsGenuine, NeedsApproval
<1>6. ApprovalsGenuine'
  BY <1>2, <1>3, <1>4 DEF GateInv, ApprovalsGenuine
<1>7. AssigneeKnown'
  BY <1>2, <1>3, <1>4, CoordinatorConstants DEF AssigneeKnown
<1>8. workers' \in [Worker -> WorkerRecord] /\ spent' \in Nat /\ BudgetKept'
  <2>1. CASE workers' = workers /\ spent' = spent
    BY <2>1 DEF TypeOK, BudgetKept
  <2>2. ASSUME NEW c \in Task, Assigns(w, c)
        PROVE  workers' \in [Worker -> WorkerRecord] /\ spent' \in Nat /\ BudgetKept'
    <3>1. Cost[c] \in Nat /\ MaxTokens \in Nat
      BY CoordinatorConstants
    <3>2. spent' \in Nat /\ BudgetKept'
      BY <2>2, <3>1 DEF Assigns, BudgetOK, BudgetKept, TypeOK
    <3>3. StartTask(workers[w], c) \in WorkerRecord
      BY RegistryTypes DEF TypeOK
    <3>4. QED
      BY <2>2, <3>2, <3>3 DEF Assigns, TypeOK
  <2>3. QED
    BY <2>1, <2>2, ClaimEffect
<1>9. CompletedExecutionRan'
  <2>1. \A t \in Task : tasks[t].assignee # NoWorker => tasks'[t].assignee # NoWorker
    BY <1>2, <1>3, <1>4, CoordinatorConstants
  <2>2. QED
    BY <2>1 DEF CompletedExecutionRan, TypeOK
<1>10. QED
  BY <1>1, <1>5, <1>6, <1>7, <1>8, <1>9 DEF GateInv

-----------------------------------------------------------------------------
(* Steps that hand out no task. *)

(* The worker keeps its task or retires, and a retired one stays retired. *)
LetsGo(w) ==
    /\ workers'[w].task = workers[w].task \/ workers'[w].state \in {"failed", "stopped"}
    /\ workers[w].state \in {"failed", "stopped"} =>
          workers'[w].state \in {"failed", "stopped"}
    /\ workers'[w].state \in {"running", "paused"} <=> workers'[w].task # NoTask
    /\ workers'[w].task \in {workers[w].task, NoTask}

(* The task keeps its assignee, is not assigned or completed by this step, and  *)
(* gains approvals from approvers only.                                       *)
Ages(t) ==
    /\ tasks'[t].assignee = tasks[t].assignee
    /\ tasks'[t].status = "assigned" => tasks[t].status = "assigned"
    /\ tasks'[t].status = "completed" => tasks[t].status \in {"assigned", "completed"}
    /\ tasks'[t].status = "absent" => tasks'[t] = tasks[t]
    /\ tasks'[t].approvedBy \in Approvers[t] \cup {tasks[t].approvedBy}
    /\ tasks[t].approvedBy # Nobody => tasks'[t].approvedBy # Nobody
    /\ tasks'[t].awaiting =>
          tasks[t].awaiting /\ tasks'[t].status \in {"blocked", "failed", "cancelled"}

LEMMA HoldInvLetGo ==
  ASSUME CoordInv,
         \A w \in Worker : LetsGo(w),
         \A t \in Task : Ages(t),
         \A w \in Worker :
            LET t == workers'[w].task
            IN  t # NoTask /\ ~NeedsApproval(t) => tasks'[t].status \in {"assigned", "failed"}
  PROVE  HoldInv'
<1> USE DEF CoordInv
<1>1. AssignedIsHeld'
  <2> SUFFICES ASSUME NEW t \in Task, NEW w \in Worker, IsAssignedTo(tasks', t, w)
               PROVE  workers'[w].task = t \/ workers'[w].state \in {"failed", "stopped"}
    BY DEF AssignedIsHeld, IsAssignedTo
  <2>1. IsAssignedTo(tasks, t, w)
    BY DEF Ages, IsAssignedTo
  <2>2. workers[w].task = t \/ workers[w].state \in {"failed", "stopped"}
    BY <2>1 DEF HoldInv, AssignedIsHeld
  <2>3. QED
    BY <2>2 DEF LetsGo
<1>2. BusyHolds'
  BY DEF BusyHolds, OnlyBusyWorkersHold, LetsGo
<1>3. PlainHeldStatus'
  <2> SUFFICES ASSUME NEW w \in Worker, workers'[w].task # NoTask,
                      ~NeedsApproval(workers'[w].task)
               PROVE  /\ tasks'[workers'[w].task].assignee = w
                      /\ tasks'[workers'[w].task].status \in {"assigned", "failed"}
    BY DEF PlainHeldStatus, NeedsApproval
  <2>1. workers'[w].task = workers[w].task /\ workers[w].task \in Task
    BY DEF LetsGo, TypeOK, WorkerRecord
  <2>2. tasks[workers[w].task].assignee = w
    BY <2>1 DEF HoldInv, PlainHeldStatus
  <2>3. QED
    BY <2>1, <2>2 DEF Ages
<1>4. QED
  BY <1>1, <1>2, <1>3 DEF HoldInv

LEMMA RestInvAges ==
  ASSUME CoordInv,
         \A t \in Task : Ages(t)
  PROVE  /\ GateInv' /\ AssigneeKnown'
         /\ UNCHANGED executions => CompletedExecutionRan'
         /\ UNCHANGED spent => BudgetKept'
<1> USE DEF CoordInv
<1>1. ApprovalGate'
  BY DEF GateInv, ApprovalGate, ApprovalsGenuine, Ages, NeedsApproval
<1>2. ApprovalsGenuine'
  BY DEF GateInv, ApprovalsGenuine, Ages
<1>3. AssigneeKnown'
  BY DEF AssigneeKnown, Ages
<1>4. UNCHANGED executions => CompletedExecutionRan'
  BY DEF CompletedExecutionRan, Ages, TypeOK
<1>5. UNCHANGED spent => BudgetKept'
  BY DEF BudgetKept
<1>6. QED
  BY <1>1, <1>2, <1>3, <1>4, <1>5 DEF GateInv

(* A task that does not change ages trivially, and a plain task in somebody's   *)
(* hands has a status that allows it.                                         *)
LEMMA UnchangedAges ==
  ASSUME CoordInv, NEW t \in Task, tasks'[t] = tasks[t]
  PROVE  Ages(t)
BY DEF Ages, CoordInv, GateInv, ApprovalGate

LEMMA HeldStatusNow ==
  ASSUME CoordInv, NEW w \in Worker, workers[w].task # NoTask,
         ~NeedsApproval(workers[w].task)
  PROVE  /\ workers[w].task \in Task
         /\ tasks[workers[w].task].status \in {"assigned", "failed"}
         /\ tasks[workers[w].task].assignee = w
BY DEF CoordInv, HoldInv, PlainHeldStatus, TypeOK, WorkerRecord

LEMMA UnchangedLetsGo ==
  ASSUME CoordInv, NEW w \in Worker, workers'[w] = workers[w]
  PROVE  LetsGo(w)
BY DEF LetsGo, CoordInv, HoldInv, BusyHolds, OnlyBusyWorkersHold

-----------------------------------------------------------------------------
LEMMA InitCoordInv == Init => CoordInv
<1> SUFFICES ASSUME Init PROVE CoordInv
  OBVIOUS
<1> USE DEF Init
<1>1. TypeOK
  BY DEF TypeOK, WorkerRecord, WorkerStates, Absent, TaskRecord, TaskStatuses,
         AbsentTask, ExecutionStatuses, Idle
<1>2. HoldInv
  BY DEF HoldInv, AssignedIsHeld, BusyHolds, OnlyBusyWorkersHold, PlainHeldStatus,
         IsAssignedTo, AbsentTask, Absent
<1>3. GateInv
  BY DEF GateInv, ApprovalGate, ApprovalsGenuine, AbsentTask
<1>4. AssigneeKnown /\ BudgetKept /\ CompletedExecutionRan
  BY CoordinatorConstants DEF AssigneeKnown, BudgetKept, CompletedExecutionRan, AbsentTask
<1>5. QED
  BY <1>1, <1>2, <1>3, <1>4 DEF CoordInv

(* The registry's own operations. *)
LEMMA WorkerStepInv ==
  ASSUME CoordInv, NEW w \in Worker, SpawnWorker(w) \/ ChangeWorker(w)
  PROVE  CoordInv'
<1>1. PICK n \in WorkerRecord :
         /\ workers' = [workers EXCEPT ![w] = n]
         /\ \/ n = Spawned /\ workers[w] = Absent
            \/ n \in {MarkReady(workers[w]), Pause(workers[w]), Resume(workers[w]), Stop(workers[w])}
  <2>1. Spawned \in WorkerRecord
    BY DEF Spawned, WorkerRecord, WorkerStates
  <2>2. workers[w] \in WorkerRecord
    BY DEF CoordInv, TypeOK
  <2>3. \A n \in {MarkReady(workers[w]), Pause(workers[w]), Resume(workers[w]), Stop(workers[w])} :
           n \in WorkerRecord
    BY <2>2 DEF MarkReady, Pause, Resume, Stop, MoveFrom, Failed, WorkerRecord, WorkerStates
  <2>4. CASE SpawnWorker(w)
    BY <2>1, <2>4 DEF SpawnWorker
  <2>5. CASE ChangeWorker(w)
    BY <2>3, <2>5 DEF ChangeWorker
  <2>6. QED
    BY <2>4, <2>5
<1>2. UNCHANGED <<tasks, executions, spent, dispatch>>
  BY DEF SpawnWorker, ChangeWorker
<1>3. LetsGo(w)
  <2>1. workers'[w] = n
    BY <1>1 DEF CoordInv, TypeOK
  <2>2. /\ workers[w] \in WorkerRecord
        /\ workers[w].state \in {"running", "paused"} <=> workers[w].task # NoTask
    BY DEF CoordInv, TypeOK, HoldInv, BusyHolds, OnlyBusyWorkersHold
  <2>3. QED
    BY <1>1, <2>1, <2>2
       DEF LetsGo, Spawned, Absent, MarkReady, Pause, Resume, Stop, MoveFrom, Failed, WorkerRecord
<1>4. \A v \in Worker : LetsGo(v)
  <2> SUFFICES ASSUME NEW v \in Worker, v # w PROVE LetsGo(v)
    BY <1>3
  <2>1. workers'[v] = workers[v]
    BY <1>1 DEF CoordInv, TypeOK
  <2>2. QED
    BY <2>1, UnchangedLetsGo
<1>5. \A t \in Task : Ages(t)
  BY <1>2, UnchangedAges
<1>6. \A v \in Worker :
         LET t == workers'[v].task
         IN  t # NoTask /\ ~NeedsApproval(t) => tasks'[t].status \in {"assigned", "failed"}
  BY <1>2, <1>4, HeldStatusNow DEF LetsGo
<1>7. HoldInv'
  BY <1>4, <1>5, <1>6, HoldInvLetGo
<1>8. TypeOK'
  BY <1>1, <1>2 DEF CoordInv, TypeOK, Idle
<1>9. QED
  BY <1>2, <1>5, <1>7, <1>8, RestInvAges DEF CoordInv

(* enqueueTask and startFanOutExecution *)
LEMMA CreateTasksInv ==
  ASSUME CoordInv, NEW S \in SUBSET Task, S \cap Existing = {},
         tasks' = [t \in Task |-> IF t \in S THEN QueuedTask ELSE tasks[t]],
         UNCHANGED <<workers, spent, dispatch>>,
         executions' \in [Execution -> [status : ExecutionStatuses, taskIds : SUBSET Task]],
         \A x \in Execution : executions'[x].status = "completed" =>
              executions'[x] = executions[x] \/ executions'[x].taskIds = {}
  PROVE  CoordInv'
<1>1. ASSUME NEW t \in Task PROVE Ages(t)
  <2>1. CASE t \in S
    <3>1. tasks[t] = AbsentTask /\ tasks'[t] = QueuedTask
      BY <2>1 DEF CoordInv, AssigneeKnown, Existing
    <3>2. QED
      BY <3>1 DEF Ages, QueuedTask, AbsentTask
  <2>2. CASE t \notin S
    BY <2>2, UnchangedAges
  <2>3. QED
    BY <2>1, <2>2
<1>2. \A w \in Worker : LetsGo(w)
  BY UnchangedLetsGo
<1>3. \A w \in Worker :
         LET t == workers'[w].task
         IN  t # NoTask /\ ~NeedsApproval(t) => tasks'[t].status \in {"assigned", "failed"}
  <2> SUFFICES ASSUME NEW w \in Worker, workers[w].task # NoTask,
                      ~NeedsApproval(workers[w].task)
               PROVE  tasks'[workers[w].task].status \in {"assigned", "failed"}
    BY DEF NeedsApproval
  <2>1. workers[w].task \in Task /\ tasks[workers[w].task].status \in {"assigned", "failed"}
    BY HeldStatusNow
  <2>2. workers[w].task \notin S
    BY <2>1 DEF Existing
  <2>3. QED
    BY <2>1, <2>2
<1>4. HoldInv'
  BY <1>1, <1>2, <1>3, HoldInvLetGo
<1>5. TypeOK'
  <2>1. QueuedTask \in TaskRecord
    BY DEF QueuedTask, AbsentTask, TaskRecord, TaskStatuses
  <2>2. QED
    BY <2>1 DEF CoordInv, TypeOK, Idle
<1>6. CompletedExecutionRan'
  <2> SUFFICES ASSUME NEW x \in Execution, executions'[x].status = "completed",
                      NEW t \in executions'[x].taskIds
               PROVE  tasks'[t].assignee # NoWorker
    BY DEF CompletedExecutionRan
  <2>1. executions'[x] = executions[x] /\ t \in Task
    BY DEF CoordInv, TypeOK
  <2>2. tasks[t].assignee # NoWorker
    BY <2>1 DEF CoordInv, CompletedExecutionRan
  <2>3. QED
    BY <1>1, <2>1, <2>2 DEF Ages
<1>7. QED
  BY <1>1, <1>4, <1>5, <1>6, RestInvAges DEF CoordInv

(* approveTask *)
LEMMA ApproveTaskInv ==
  ASSUME CoordInv, NEW t \in Task, NEW p \in Person, ApproveTask(t, p)
  PROVE  CoordInv'
<1>1. /\ tasks' = [tasks EXCEPT ![t] = Approved(@, t, p)]
      /\ UNCHANGED <<workers, executions, spent, dispatch>>
      /\ tasks[t].status # "absent" /\ tasks[t] \in TaskRecord
  BY DEF ApproveTask, Existing, CoordInv, TypeOK
<1>2. tasks'[t] = Approved(tasks[t], t, p)
  BY <1>1 DEF CoordInv, TypeOK
<1>3. Ages(t)
  <2>1. CASE ~NeedsApproval(t)
    BY <1>2, <2>1, UnchangedAges DEF Approved
  <2>2. CASE NeedsApproval(t) /\ p \in Approvers[t]
    <3>1. tasks'[t] = [tasks[t] EXCEPT !.status = "queued", !.approvedBy = p, !.awaiting = FALSE]
      BY <1>2, <2>2 DEF Approved
    <3>2. /\ tasks'[t].status = "queued" /\ tasks'[t].approvedBy = p
          /\ tasks'[t].awaiting = FALSE /\ tasks'[t].assignee = tasks[t].assignee
      BY <1>1, <3>1 DEF TaskRecord
    <3>3. QED
      BY <2>2, <3>2, CoordinatorConstants DEF Ages
  <2>3. CASE NeedsApproval(t) /\ p \notin Approvers[t]
    <3>1. tasks'[t] = [tasks[t] EXCEPT !.status = "blocked"]
      BY <1>2, <2>3 DEF Approved
    <3>2. /\ tasks'[t].status = "blocked" /\ tasks'[t].approvedBy = tasks[t].approvedBy
          /\ tasks'[t].awaiting = tasks[t].awaiting
          /\ tasks'[t].assignee = tasks[t].assignee
      BY <1>1, <3>1 DEF TaskRecord
    <3>3. QED
      BY <3>2 DEF Ages
  <2>4. QED
    BY <2>1, <2>2, <2>3
<1>4. \A u \in Task : Ages(u)
  BY <1>1, <1>3, UnchangedAges DEF CoordInv, TypeOK
<1>5. \A w \in Worker : LetsGo(w)
  BY <1>1, UnchangedLetsGo
<1>6. \A w \in Worker :
         LET u == workers'[w].task
         IN  u # NoTask /\ ~NeedsApproval(u) => tasks'[u].status \in {"assigned", "failed"}
  <2> SUFFICES ASSUME NEW w \in Worker, workers[w].task # NoTask,
                      ~NeedsApproval(workers[w].task)
               PROVE  tasks'[workers[w].task].status \in {"assigned", "failed"}
    BY <1>1 DEF NeedsApproval
  <2>1. tasks'[workers[w].task] = tasks[workers[w].task]
    BY <1>1, <1>2, HeldStatusNow DEF Approved, CoordInv, TypeOK
  <2>2. QED
    BY <2>1, HeldStatusNow
<1>7. HoldInv'
  BY <1>4, <1>5, <1>6, HoldInvLetGo
<1>8. TypeOK'
  <2>1. Approved(tasks[t], t, p) \in TaskRecord
    BY <1>1 DEF Approved, TaskRecord, TaskStatuses
  <2>2. QED
    BY <1>1, <2>1 DEF CoordInv, TypeOK, Idle
<1>9. QED
  BY <1>1, <1>4, <1>7, <1>8, RestInvAges DEF CoordInv

(* completeTask: the assignee gives the task back; anybody else fails it. *)
LEMMA CompleteTaskInv ==
  ASSUME CoordInv, NEW t \in Task, NEW w \in Worker, CompleteTask(t, w)
  PROVE  CoordInv'
<1>1. /\ tasks' = CompleteTasks(tasks, t, w)
      /\ workers' = CompleteWorkers(workers, tasks, t, w)
      /\ UNCHANGED <<executions, spent, dispatch>>
      /\ tasks[t].status # "absent"
      /\ tasks[t] \in TaskRecord /\ workers[w] \in WorkerRecord
  BY DEF CompleteTask, Existing, CoordInv, TypeOK
<1>2. /\ tasks'[t] = [tasks[t] EXCEPT !.status =
            IF IsAssignedTo(tasks, t, w) THEN "completed" ELSE "failed"]
      /\ \A u \in Task \ {t} : tasks'[u] = tasks[u]
  BY <1>1 DEF CompleteTasks, CoordInv, TypeOK
<1>3. /\ tasks'[t].status = IF IsAssignedTo(tasks, t, w) THEN "completed" ELSE "failed"
      /\ tasks'[t].assignee = tasks[t].assignee
      /\ tasks'[t].approvedBy = tasks[t].approvedBy
      /\ tasks'[t].awaiting = tasks[t].awaiting
  BY <1>1, <1>2 DEF TaskRecord
<1>4. Ages(t)
  BY <1>3 DEF Ages, IsAssignedTo, CoordInv, GateInv, ApprovalGate
<1>5. \A u \in Task : Ages(u)
  BY <1>2, <1>4, UnchangedAges
<1>6. TypeOK'
  <2>1. tasks'[t] \in TaskRecord /\ FinishTask(workers[w]) \in WorkerRecord
    BY <1>1, <1>2 DEF TaskRecord, TaskStatuses, FinishTask, MoveFrom, Failed,
                      WorkerRecord, WorkerStates
  <2>2. tasks' \in [Task -> TaskRecord]
    BY <1>1, <1>2, <2>1 DEF CompleteTasks, CoordInv, TypeOK
  <2>3. workers' \in [Worker -> WorkerRecord]
    BY <1>1, <2>1 DEF CompleteWorkers, CoordInv, TypeOK
  <2>4. QED
    BY <1>1, <2>2, <2>3 DEF CoordInv, TypeOK, Idle
<1>7. CASE ~IsAssignedTo(tasks, t, w)
  <2>1. workers' = workers
    BY <1>1, <1>7 DEF CompleteWorkers
  <2>2. \A v \in Worker : LetsGo(v)
    BY <2>1, UnchangedLetsGo
  <2>3. \A v \in Worker :
           LET u == workers'[v].task
           IN  u # NoTask /\ ~NeedsApproval(u) => tasks'[u].status \in {"assigned", "failed"}
    BY <1>2, <1>3, <1>7, <2>1, HeldStatusNow DEF NeedsApproval
  <2>4. HoldInv'
    BY <1>5, <2>2, <2>3, HoldInvLetGo
  <2>5. QED
    BY <1>1, <1>5, <1>6, <2>4, RestInvAges DEF CoordInv
<1>8. CASE IsAssignedTo(tasks, t, w)
  <2>1. /\ workers'[w] = FinishTask(workers[w])
        /\ \A v \in Worker \ {w} : workers'[v] = workers[v]
    BY <1>1, <1>8 DEF CompleteWorkers, CoordInv, TypeOK
  <2>2. /\ workers[w].task = t \/ workers[w].state \in {"failed", "stopped"}
        /\ workers[w].state \in {"running", "paused"} <=> workers[w].task # NoTask
    BY <1>8 DEF CoordInv, HoldInv, AssignedIsHeld, BusyHolds, OnlyBusyWorkersHold
  <2>3. /\ workers'[w].task = NoTask /\ workers'[w].state \in {"idle", "failed"}
        /\ workers'[w].state = "idle" => workers[w].task = t
    BY <1>1, <2>1, <2>2, NoTaskIsNoTask DEF FinishTask, MoveFrom, Failed, WorkerRecord
  <2>4. AssignedIsHeld'
    <3> SUFFICES ASSUME NEW u \in Task, NEW v \in Worker, IsAssignedTo(tasks', u, v)
                 PROVE  workers'[v].task = u \/ workers'[v].state \in {"failed", "stopped"}
      BY DEF AssignedIsHeld, IsAssignedTo
    <3>1. u # t
      BY <1>3, <1>8 DEF IsAssignedTo
    <3>2. IsAssignedTo(tasks, u, v)
      BY <1>2, <3>1 DEF IsAssignedTo
    <3>3. workers[v].task = u \/ workers[v].state \in {"failed", "stopped"}
      BY <3>2 DEF CoordInv, HoldInv, AssignedIsHeld
    <3>4. CASE v = w
      BY <2>2, <2>3, <3>1, <3>3, <3>4, NoTaskIsNoTask
    <3>5. CASE v # w
      BY <2>1, <3>3, <3>5
    <3>6. QED
      BY <3>4, <3>5
  <2>5. BusyHolds'
    BY <2>1, <2>3 DEF BusyHolds, OnlyBusyWorkersHold, CoordInv, HoldInv
  <2>6. PlainHeldStatus'
    <3> SUFFICES ASSUME NEW v \in Worker, workers'[v].task # NoTask,
                        ~NeedsApproval(workers'[v].task)
                 PROVE  /\ tasks'[workers'[v].task].assignee = v
                        /\ tasks'[workers'[v].task].status \in {"assigned", "failed"}
      BY DEF PlainHeldStatus, NeedsApproval
    <3>1. v # w /\ workers'[v] = workers[v]
      BY <2>1, <2>3
    <3>2. /\ workers[v].task \in Task /\ tasks[workers[v].task].assignee = v
          /\ tasks[workers[v].task].status \in {"assigned", "failed"}
      BY <3>1, HeldStatusNow
    <3>3. workers[v].task # t
      BY <1>8, <3>1, <3>2 DEF IsAssignedTo
    <3>4. QED
      BY <1>2, <3>1, <3>2, <3>3
  <2>7. QED
    BY <1>1, <1>5, <1>6, <2>4, <2>5, <2>6, RestInvAges DEF CoordInv, HoldInv
<1>9. QED
  BY <1>7, <1>8

(* failTask: the worker ends failed or stopped. *)
LEMMA FailTaskInv ==
  ASSUME CoordInv, NEW t \in Task, NEW w \in Worker, FailTask(t, w)
  PROVE  CoordInv'
<1>1. /\ tasks' = IF t \in Existing THEN FailTasks(tasks, t) ELSE tasks
      /\ workers' = FailWorkers(workers, w)
      /\ UNCHANGED <<executions, spent, dispatch>>
      /\ tasks[t] \in TaskRecord /\ workers[w] \in WorkerRecord
  BY DEF FailTask, CoordInv, TypeOK
<1>2. /\ \A u \in Task \ {t} : tasks'[u] = tasks[u]
      /\ tasks'[t] = tasks[t] \/ tasks'[t] = [tasks[t] EXCEPT !.status = "failed"]
  BY <1>1 DEF FailTasks, CoordInv, TypeOK
<1>3. Ages(t)
  <2>1. CASE tasks'[t] = tasks[t]
    BY <2>1, UnchangedAges
  <2>2. CASE tasks'[t] = [tasks[t] EXCEPT !.status = "failed"]
    <3>1. /\ tasks'[t].status = "failed" /\ tasks'[t].assignee = tasks[t].assignee
          /\ tasks'[t].approvedBy = tasks[t].approvedBy
          /\ tasks'[t].awaiting = tasks[t].awaiting
      BY <1>1, <2>2 DEF TaskRecord
    <3>2. QED
      BY <3>1 DEF Ages
  <2>3. QED
    BY <1>2, <2>1, <2>2
<1>4. \A u \in Task : Ages(u)
  BY <1>2, <1>3, UnchangedAges
<1>5. /\ workers'[w] = FailedWorker(workers[w])
      /\ \A v \in Worker \ {w} : workers'[v] = workers[v]
  BY <1>1 DEF FailWorkers, CoordInv, TypeOK
<1>6. FailedWorker(workers[w]) \in WorkerRecord /\ LetsGo(w)
  <2>1. workers[w].state \in {"running", "paused"} <=> workers[w].task # NoTask
    BY DEF CoordInv, HoldInv, BusyHolds, OnlyBusyWorkersHold
  <2>2. /\ FailedWorker(workers[w]).task \in {workers[w].task, NoTask}
        /\ FailedWorker(workers[w]).state \in {"absent", "stopped", "failed"}
        /\ FailedWorker(workers[w]).state = "absent" => FailedWorker(workers[w]) = workers[w]
        /\ workers[w].state = "absent" => FailedWorker(workers[w]) = workers[w]
        /\ FailedWorker(workers[w]).state # "absent" => FailedWorker(workers[w]).task = NoTask
        /\ FailedWorker(workers[w]) \in WorkerRecord
    BY <1>1, <2>1 DEF FailedWorker, Pause, FinishTask, Stop, MoveFrom, Failed,
                      WorkerRecord, WorkerStates
  <2>3. QED
    BY <1>5, <2>1, <2>2 DEF LetsGo
<1>7. \A v \in Worker : LetsGo(v)
  BY <1>5, <1>6, UnchangedLetsGo
<1>8. \A v \in Worker :
         LET u == workers'[v].task
         IN  u # NoTask /\ ~NeedsApproval(u) => tasks'[u].status \in {"assigned", "failed"}
  <2> SUFFICES ASSUME NEW v \in Worker, workers'[v].task # NoTask,
                      ~NeedsApproval(workers'[v].task)
               PROVE  tasks'[workers'[v].task].status \in {"assigned", "failed"}
    BY DEF NeedsApproval
  <2>1. workers'[v].task = workers[v].task
    BY <1>7 DEF LetsGo
  <2>2. workers[v].task \in Task /\ tasks[workers[v].task].status \in {"assigned", "failed"}
    BY <2>1, HeldStatusNow
  <2>3. tasks'[workers[v].task].status \in {tasks[workers[v].task].status, "failed"}
    BY <1>1, <1>2, <2>2 DEF TaskRecord
  <2>4. QED
    BY <2>1, <2>2, <2>3
<1>9. HoldInv'
  BY <1>4, <1>7, <1>8, HoldInvLetGo
<1>10. TypeOK'
  <2>1. tasks' \in [Task -> TaskRecord]
    BY <1>1 DEF FailTasks, CoordInv, TypeOK, TaskRecord, TaskStatuses
  <2>2. workers' \in [Worker -> WorkerRecord]
    BY <1>1, <1>6 DEF FailWorkers, CoordInv, TypeOK
  <2>3. QED
    BY <1>1, <2>1, <2>2 DEF CoordInv, TypeOK, Idle
<1>11. QED
  BY <1>1, <1>4, <1>9, <1>10, RestInvAges DEF CoordInv

(* cancelExecution: whoever holds an unsettled child of it is stopped. *)
LEMMA CancelExecutionInv ==
  ASSUME CoordInv, NEW x \in Execution, CancelExecution(x)
  PROVE  CoordInv'
<1> DEFINE ch == executions[x].taskIds
<1>1. /\ tasks' = CancelTasks(tasks, ch)
      /\ workers' = CancelWorkers(workers, tasks, ch)
      /\ executions' = [executions EXCEPT ![x].status = "cancelled"]
      /\ UNCHANGED <<spent, dispatch>>
      /\ executions[x].status # "absent" /\ ch \in SUBSET Task
  BY DEF CancelExecution, CoordInv, TypeOK
<1>2. ASSUME NEW t \in Task
      PROVE  /\ Ages(t) /\ tasks'[t] \in TaskRecord
             /\ tasks'[t] = tasks[t] \/ (t \in ch /\ ~Terminal(tasks[t].status))
  <2>1. tasks[t] \in TaskRecord
    BY DEF CoordInv, TypeOK
  <2>2. CASE t \in ch /\ ~Terminal(tasks[t].status)
    <3>1. tasks'[t] = [tasks[t] EXCEPT !.status = "cancelled"]
      BY <1>1, <2>2 DEF CancelTasks
    <3>2. /\ tasks'[t].status = "cancelled" /\ tasks'[t].assignee = tasks[t].assignee
          /\ tasks'[t].approvedBy = tasks[t].approvedBy
          /\ tasks'[t].awaiting = tasks[t].awaiting
          /\ tasks'[t] \in TaskRecord
      BY <2>1, <3>1 DEF TaskRecord, TaskStatuses
    <3>3. QED
      BY <2>2, <3>2 DEF Ages
  <2>3. CASE ~(t \in ch /\ ~Terminal(tasks[t].status))
    <3>1. tasks'[t] = tasks[t]
      BY <1>1, <2>3 DEF CancelTasks
    <3>2. Ages(t)
      BY <3>1, UnchangedAges
    <3>3. QED
      BY <2>1, <3>1, <3>2
  <2>4. QED
    BY <2>2, <2>3
<1>3. ASSUME NEW w \in Worker
      PROVE  /\ LetsGo(w) /\ workers'[w] \in WorkerRecord
             /\ workers'[w].task # NoTask =>
                   \A t \in ch : ~Terminal(tasks[t].status) => tasks[t].assignee # w
  <2> DEFINE mine == {t \in ch : ~Terminal(tasks[t].status) /\ tasks[t].assignee = w}
  <2>1. /\ workers[w] \in WorkerRecord
        /\ workers[w].state \in {"running", "paused"} <=> workers[w].task # NoTask
    BY DEF CoordInv, TypeOK, HoldInv, BusyHolds, OnlyBusyWorkersHold
  <2>2. workers'[w] = IF mine = {} THEN workers[w] ELSE Stop(workers[w])
    BY <1>1 DEF CancelWorkers, CancelledWorker
  <2>3. CASE mine = {}
    <3>1. workers'[w] = workers[w]
      BY <2>2, <2>3
    <3>2. QED
      BY <2>1, <2>3, <3>1, UnchangedLetsGo
  <2>4. CASE mine # {}
    <3>1. workers'[w] = Stop(workers[w])
      BY <2>2, <2>4
    <3>2. workers'[w].task = NoTask /\ workers'[w] \in WorkerRecord
      BY <2>1, <3>1 DEF Stop, WorkerRecord, WorkerStates
    <3>3. LetsGo(w)
      BY <2>1, <3>1 DEF Stop, LetsGo, WorkerRecord
    <3>4. QED
      BY <3>2, <3>3
  <2>5. QED
    BY <2>3, <2>4
<1>4. \A w \in Worker :
         LET t == workers'[w].task
         IN  t # NoTask /\ ~NeedsApproval(t) => tasks'[t].status \in {"assigned", "failed"}
  <2> SUFFICES ASSUME NEW w \in Worker, workers'[w].task # NoTask,
                      ~NeedsApproval(workers'[w].task)
               PROVE  tasks'[workers'[w].task].status \in {"assigned", "failed"}
    BY DEF NeedsApproval
  <2>1. workers'[w].task = workers[w].task
    BY <1>3 DEF LetsGo
  <2>2. /\ workers[w].task \in Task /\ tasks[workers[w].task].assignee = w
        /\ tasks[workers[w].task].status \in {"assigned", "failed"}
    BY <2>1, HeldStatusNow
  <2>3. tasks'[workers[w].task] = tasks[workers[w].task]
    BY <1>2, <1>3, <2>2
  <2>4. QED
    BY <2>1, <2>2, <2>3
<1>5. HoldInv'
  BY <1>2, <1>3, <1>4, HoldInvLetGo
<1>6. TypeOK'
  <2>1. tasks' \in [Task -> TaskRecord] /\ workers' \in [Worker -> WorkerRecord]
    BY <1>1, <1>2, <1>3 DEF CancelTasks, CancelWorkers
  <2>2. executions' \in [Execution -> [status : ExecutionStatuses, taskIds : SUBSET Task]]
    BY <1>1 DEF CoordInv, TypeOK, ExecutionStatuses
  <2>3. QED
    BY <1>1, <2>1, <2>2 DEF CoordInv, TypeOK, Idle
<1>7. CompletedExecutionRan'
  <2> SUFFICES ASSUME NEW y \in Execution, executions'[y].status = "completed",
                      NEW t \in executions'[y].taskIds
               PROVE  tasks'[t].assignee # NoWorker
    BY DEF CompletedExecutionRan
  <2>1. executions'[y] = executions[y] /\ t \in Task
    BY <1>1 DEF CoordInv, TypeOK
  <2>2. tasks[t].assignee # NoWorker
    BY <2>1 DEF CoordInv, CompletedExecutionRan
  <2>3. QED
    BY <1>2, <2>1, <2>2 DEF Ages
<1>8. QED
  BY <1>1, <1>2, <1>5, <1>6, <1>7, RestInvAges DEF CoordInv

(* collectFanIn: completed only if every child is, and those have assignees. *)
LEMMA CollectFanInInv ==
  ASSUME CoordInv, NEW x \in Execution, CollectFanIn(x)
  PROVE  CoordInv'
<1> DEFINE ch == executions[x].taskIds
<1>1. /\ executions' = [executions EXCEPT ![x].status = FanInStatus(tasks, ch)]
      /\ UNCHANGED <<workers, tasks, spent, dispatch>>
      /\ ch \in SUBSET Task
  BY DEF CollectFanIn, CoordInv, TypeOK
<1>2. FanInStatus(tasks, ch) \in ExecutionStatuses
  BY DEF FanInStatus, ExecutionStatuses
<1>3. FanInStatus(tasks, ch) = "completed" => \A t \in ch : tasks[t].status = "completed"
  BY DEF FanInStatus
<1>4. \A t \in Task : Ages(t)
  BY <1>1, UnchangedAges
<1>5. \A w \in Worker : LetsGo(w)
  BY <1>1, UnchangedLetsGo
<1>6. \A w \in Worker :
         LET t == workers'[w].task
         IN  t # NoTask /\ ~NeedsApproval(t) => tasks'[t].status \in {"assigned", "failed"}
  BY <1>1, HeldStatusNow
<1>7. HoldInv'
  BY <1>4, <1>5, <1>6, HoldInvLetGo
<1>8. TypeOK'
  BY <1>1, <1>2 DEF CoordInv, TypeOK, Idle
<1>9. CompletedExecutionRan'
  <2> SUFFICES ASSUME NEW y \in Execution, executions'[y].status = "completed",
                      NEW t \in executions'[y].taskIds
               PROVE  tasks[t].assignee # NoWorker
    BY <1>1 DEF CompletedExecutionRan
  <2>1. CASE y = x
    <3>1. executions'[x].taskIds = ch /\ executions'[x].status = FanInStatus(tasks, ch)
      BY <1>1 DEF CoordInv, TypeOK
    <3>2. QED
      BY <1>1, <1>3, <2>1, <3>1 DEF CoordInv, AssigneeKnown
  <2>2. CASE y # x
    <3>1. executions'[y] = executions[y]
      BY <1>1, <2>2 DEF CoordInv, TypeOK
    <3>2. QED
      BY <3>1 DEF CoordInv, CompletedExecutionRan
  <2>3. QED
    BY <2>1, <2>2
<1>10. QED
  BY <1>1, <1>4, <1>7, <1>8, <1>9, RestInvAges DEF CoordInv

(* A step that changes nothing but the dispatch under way. *)
LEMMA DispatchOnlyInv ==
  ASSUME CoordInv, UNCHANGED <<workers, tasks, executions, spent>>,
         \/ dispatch' = NoDispatch
         \/ dispatch' \in [exec : Execution, left : Seq(Worker) \ {<<>>}]
  PROVE  CoordInv'
<1>1. TypeOK'
  BY DEF CoordInv, TypeOK, Idle
<1>2. HoldInv'
  BY DEF CoordInv, HoldInv, AssignedIsHeld, IsAssignedTo, BusyHolds,
         OnlyBusyWorkersHold, PlainHeldStatus
<1>3. \A t \in Task : Ages(t)
  BY UnchangedAges
<1>4. QED
  BY <1>1, <1>2, <1>3, RestInvAges DEF CoordInv

(* One claim, by itself or as a step of a dispatch. *)
LEMMA ClaimInv ==
  ASSUME CoordInv, NEW w \in Worker, NEW scope \in SUBSET Task,
         ClaimNext(w, scope), UNCHANGED executions,
         \/ dispatch' = dispatch
         \/ dispatch' = NoDispatch
         \/ dispatch' \in [exec : Execution, left : Seq(Worker) \ {<<>>}]
  PROVE  CoordInv'
<1>1. \/ dispatch' = NoDispatch
      \/ dispatch' \in [exec : Execution, left : Seq(Worker) \ {<<>>}]
  BY DEF CoordInv, TypeOK, Idle
<1>2. CASE Retired(workers[w])
  BY <1>1, <1>2, DispatchOnlyInv DEF ClaimNext
<1>3. CASE ~Retired(workers[w])
  <2>1. HoldInv'
    BY <1>3, ClaimHoldInv
  <2>2. /\ GateInv' /\ AssigneeKnown' /\ BudgetKept' /\ CompletedExecutionRan'
        /\ tasks' \in [Task -> TaskRecord]
        /\ workers' \in [Worker -> WorkerRecord]
        /\ spent' \in Nat
    BY <1>3, ClaimRestInv
  <2>3. TypeOK'
    BY <1>1, <2>2 DEF CoordInv, TypeOK, Idle
  <2>4. QED
    BY <2>1, <2>2, <2>3 DEF CoordInv
<1>4. QED
  BY <1>2, <1>3

LEMMA DispatchStepInv ==
  ASSUME CoordInv, DispatchStep
  PROVE  CoordInv'
<1> DEFINE l == dispatch.left
<1>1. dispatch \in [exec : Execution, left : Seq(Worker) \ {<<>>}]
  BY DEF DispatchStep, CoordInv, TypeOK
<1>2. l \in Seq(Worker) /\ l # <<>>
  BY <1>1
<1>3. Head(l) \in Worker /\ Tail(l) \in Seq(Worker) /\ Len(Tail(l)) = Len(l) - 1
  BY <1>2, HeadTailProperties
<1>4. executions[dispatch.exec].taskIds \in SUBSET Task
  BY <1>1 DEF CoordInv, TypeOK
<1>5. \/ dispatch' = NoDispatch
      \/ dispatch' \in [exec : Execution, left : Seq(Worker) \ {<<>>}]
  <2>1. CASE Len(l) = 1
    BY <2>1 DEF DispatchStep
  <2>2. CASE Len(l) # 1
    <3>1. dispatch' = [dispatch EXCEPT !.left = Tail(@)]
      BY <2>2 DEF DispatchStep
    <3>2. Tail(l) # <<>>
      <4>1. Len(l) \in Nat
        BY <1>2, LenProperties
      <4>2. Len(Tail(l)) # 0
        BY <1>3, <2>2, <4>1
      <4>3. QED
        BY <1>3, <4>2, EmptySeq
    <3>3. QED
      BY <1>1, <1>3, <3>1, <3>2
  <2>3. QED
    BY <2>1, <2>2
<1>6. QED
  BY <1>3, <1>4, <1>5, ClaimInv DEF DispatchStep

LEMMA DispatchStartInv ==
  ASSUME CoordInv, NEW x \in Execution, NEW ws \in WorkerLists,
         DispatchFanOutExecution(x, ws)
  PROVE  CoordInv'
<1>1. PICK n \in 1..MaxListed : ws \in [1..n -> Worker]
  BY DEF WorkerLists
<1>2. ws \in Seq(Worker) /\ ws # <<>>
  BY <1>1, MaxListedIsNat DEF DispatchFanOutExecution
<1>3. dispatch' \in [exec : Execution, left : Seq(Worker) \ {<<>>}]
  BY <1>2 DEF DispatchFanOutExecution
<1>4. QED
  BY <1>3, DispatchOnlyInv DEF DispatchFanOutExecution

LEMMA CreateInv ==
  ASSUME CoordInv,
         \/ \E t \in Task : EnqueueTask(t)
         \/ \E x \in Execution, children \in SUBSET Task : StartFanOutExecution(x, children)
  PROVE  CoordInv'
<1>1. ASSUME NEW t \in Task, EnqueueTask(t) PROVE CoordInv'
  <2>1. {t} \cap Existing = {}
    BY <1>1 DEF EnqueueTask, IsNextBatch
  <2>2. tasks' = [u \in Task |-> IF u \in {t} THEN QueuedTask ELSE tasks[u]]
    BY <1>1 DEF EnqueueTask, CoordInv, TypeOK
  <2>3. /\ UNCHANGED <<workers, executions, spent, dispatch>>
        /\ executions' \in [Execution -> [status : ExecutionStatuses, taskIds : SUBSET Task]]
    BY <1>1 DEF EnqueueTask, CoordInv, TypeOK
  <2>4. QED
    BY <2>1, <2>2, <2>3, CreateTasksInv
<1>2. ASSUME NEW x \in Execution, NEW children \in SUBSET Task,
             StartFanOutExecution(x, children)
      PROVE  CoordInv'
  <2>1. /\ children \cap Existing = {}
        /\ tasks' = [t \in Task |-> IF t \in children THEN QueuedTask ELSE tasks[t]]
        /\ UNCHANGED <<workers, spent, dispatch>>
    BY <1>2 DEF StartFanOutExecution, IsNextBatch
  <2>2. executions' = [executions EXCEPT
            ![x] = [status |-> IF children = {} THEN "completed" ELSE "running",
                    taskIds |-> children]]
    BY <1>2 DEF StartFanOutExecution
  <2>3. executions' \in [Execution -> [status : ExecutionStatuses, taskIds : SUBSET Task]]
    BY <2>2 DEF CoordInv, TypeOK, ExecutionStatuses
  <2>4. \A y \in Execution : executions'[y].status = "completed" =>
            executions'[y] = executions[y] \/ executions'[y].taskIds = {}
    BY <2>2 DEF CoordInv, TypeOK
  <2>5. QED
    BY <2>1, <2>3, <2>4, CreateTasksInv
<1>3. QED
  BY <1>1, <1>2

LEMMA NextCoordInv == CoordInv /\ [Next]_vars => CoordInv'
<1> SUFFICES ASSUME CoordInv, [Next]_vars PROVE CoordInv'
  OBVIOUS
<1>1. CASE \E w \in Worker : SpawnWorker(w) \/ ChangeWorker(w)
  BY <1>1, WorkerStepInv
<1>2. CASE \E w \in Worker : ClaimNextTask(w)
  BY <1>2, ClaimInv DEF ClaimNextTask
<1>3. CASE \/ \E t \in Task : EnqueueTask(t)
           \/ \E x \in Execution, children \in SUBSET Task : StartFanOutExecution(x, children)
  BY <1>3, CreateInv
<1>4. CASE \E t \in Task, p \in Person : ApproveTask(t, p)
  BY <1>4, ApproveTaskInv
<1>5. CASE \E t \in Task, w \in Worker : CompleteTask(t, w)
  BY <1>5, CompleteTaskInv
<1>6. CASE \E t \in Task, w \in Worker : FailTask(t, w)
  BY <1>6, FailTaskInv
<1>7. CASE \E x \in Execution, ws \in WorkerLists : DispatchFanOutExecution(x, ws)
  BY <1>7, DispatchStartInv
<1>8. CASE \E x \in Execution : CancelExecution(x)
  BY <1>8, CancelExecutionInv
<1>9. CASE \E x \in Execution : CollectFanIn(x)
  BY <1>9, CollectFanInInv
<1>10. CASE DispatchStep
  BY <1>10, DispatchStepInv
<1>11. CASE UNCHANGED vars
  BY <1>11, DispatchOnlyInv DEF vars, CoordInv, TypeOK, Idle
<1>12. QED
  BY <1>1, <1>2, <1>3, <1>4, <1>5, <1>6, <1>7, <1>8, <1>9, <1>10, <1>11 DEF Next

-----------------------------------------------------------------------------
(* Whatever callers do with the coordinator and the registry, in whatever     *)
(* order, the maps keep their types and the invariants below hold together.   *)
THEOREM CoordinatorInvariant == Spec => []CoordInv
BY InitCoordInv, NextCoordInv, PTL DEF Spec

(* The worker, task and execution maps keep their types. *)
THEOREM CoordinatorTypeOK == Spec => []TypeOK
<1>1. CoordInv => TypeOK
  BY DEF CoordInv
<1>2. QED
  BY <1>1, CoordinatorInvariant, PTL

(* An assigned task is in the hands of its assignee, unless he retired. *)
THEOREM AssignedTasksAreHeld == Spec => []AssignedIsHeld
<1>1. CoordInv => AssignedIsHeld
  BY DEF CoordInv, HoldInv
<1>2. QED
  BY <1>1, CoordinatorInvariant, PTL

(* No task with an approval policy is handed out before one of its approvers  *)
(* approved it.                                                              *)
THEOREM ApprovalGateHolds == Spec => []ApprovalGate
<1>1. CoordInv => ApprovalGate
  BY DEF CoordInv, GateInv
<1>2. QED
  BY <1>1, CoordinatorInvariant, PTL

(* A task without an approval policy is in at most one worker's hands, and in  *)
(* nobody's once cancelled.                                                   *)
THEOREM PlainTaskHasOneHolder == Spec => []PlainTaskHolder
<1>1. CoordInv => PlainTaskHolder
  BY DEF CoordInv, HoldInv, PlainHeldStatus, PlainTaskHolder
<1>2. QED
  BY <1>1, CoordinatorInvariant, PTL

(* Claims never take the session over its token budget. *)
THEOREM BudgetIsKept == Spec => []BudgetKept
<1>1. CoordInv => BudgetKept
  BY DEF CoordInv
<1>2. QED
  BY <1>1, CoordinatorInvariant, PTL

(* Fan-in reports no execution completed whose children were not all handed   *)
(* out.                                                                      *)
THEOREM CompletedExecutionsRan == Spec => []CompletedExecutionRan
<1>1. CoordInv => CompletedExecutionRan
  BY DEF CoordInv
<1>2. QED
  BY <1>1, CoordinatorInvariant, PTL

-----------------------------------------------------------------------------
(* The action properties.  What a step does to a retired worker and to a       *)
(* settled plain task: *)

StaysRetired(w) ==
    workers[w].state \in {"failed", "stopped"} =>
        workers'[w].state \in {"failed", "stopped"} /\ workers'[w].task = NoTask

StaysSettled(t) ==
    ~NeedsApproval(t) /\ Terminal(tasks[t].status) =>
        /\ Terminal(tasks'[t].status)
        /\ tasks'[t].status = "completed" => tasks[t].status = "completed"

StepKeeps ==
    /\ \A w \in Worker : StaysRetired(w)
    /\ \A t \in Task : StaysSettled(t)

(* No method of the registry brings a retired worker back. *)
LEMMA RegistryRetires ==
  ASSUME NEW w \in WorkerRecord, w.state \in {"failed", "stopped"}, w.task = NoTask,
         NEW t \in Task,
         NEW n \in {w, MarkReady(w), StartTask(w, t), Pause(w), Resume(w), FinishTask(w),
                    Stop(w), FailedWorker(w)}
  PROVE  n.state \in {"failed", "stopped"} /\ n.task = NoTask
<1>1. CASE w.state = "failed"
  <2>1. /\ MarkReady(w) = w /\ StartTask(w, t) = w /\ Pause(w) = w /\ Resume(w) = w
        /\ FinishTask(w) = w /\ Stop(w) = w
    BY <1>1 DEF MarkReady, StartTask, Pause, Resume, FinishTask, Stop, MoveFrom
  <2>2. FailedWorker(w) = w
    BY <2>1 DEF FailedWorker
  <2>3. QED
    BY <2>1, <2>2
<1>2. CASE w.state = "stopped"
  <2>1. /\ MarkReady(w) = Failed /\ StartTask(w, t) = Failed /\ Pause(w) = Failed
        /\ Resume(w) = Failed /\ FinishTask(w) = Failed /\ Stop(w) = w
    BY <1>2 DEF MarkReady, StartTask, Pause, Resume, FinishTask, Stop, MoveFrom
  <2>2. FinishTask(Failed) = Failed /\ Stop(Failed) = Failed
    BY DEF FinishTask, Stop, MoveFrom, Failed
  <2>3. FailedWorker(w) = Failed
    BY <2>1, <2>2 DEF FailedWorker
  <2>4. QED
    BY <2>1, <2>3 DEF Failed
<1>3. QED
  BY <1>1, <1>2

LEMMA RetiredHoldsNone ==
  ASSUME CoordInv, NEW w \in Worker, workers[w].state \in {"failed", "stopped"}
  PROVE  workers[w] \in WorkerRecord /\ workers[w].task = NoTask
BY DEF CoordInv, TypeOK, HoldInv, BusyHolds, OnlyBusyWorkersHold

LEMMA UnchangedKeeps ==
  ASSUME CoordInv
  PROVE  /\ \A w \in Worker : workers'[w] = workers[w] => StaysRetired(w)
         /\ \A t \in Task : tasks'[t] = tasks[t] => StaysSettled(t)
BY RetiredHoldsNone DEF StaysRetired, StaysSettled

LEMMA WorkerStepKeeps ==
  ASSUME CoordInv, NEW w \in Worker, SpawnWorker(w) \/ ChangeWorker(w)
  PROVE  StepKeeps
<1>1. /\ UNCHANGED tasks
      /\ workers \in [Worker -> WorkerRecord]
  BY DEF SpawnWorker, ChangeWorker, CoordInv, TypeOK
<1>2. PICK n : /\ workers' = [workers EXCEPT ![w] = n]
               /\ \/ workers[w] = Absent
                  \/ n \in {MarkReady(workers[w]), Pause(workers[w]), Resume(workers[w]),
                            Stop(workers[w])}
  BY DEF SpawnWorker, ChangeWorker
<1>3. workers'[w] = n /\ \A v \in Worker \ {w} : workers'[v] = workers[v]
  BY <1>1, <1>2
<1>4. StaysRetired(w)
  <2> SUFFICES ASSUME workers[w].state \in {"failed", "stopped"}
               PROVE  n.state \in {"failed", "stopped"} /\ n.task = NoTask
    BY <1>3 DEF StaysRetired
  <2>1. n \in {MarkReady(workers[w]), Pause(workers[w]), Resume(workers[w]), Stop(workers[w])}
    BY <1>2 DEF Absent
  <2>2. workers[w] \in WorkerRecord /\ workers[w].task = NoTask
    BY RetiredHoldsNone
  <2>3. QED
    BY <2>1, <2>2 DEF MarkReady, Pause, Resume, Stop, MoveFrom, Failed
<1>5. QED
  BY <1>1, <1>3, <1>4, UnchangedKeeps DEF StepKeeps

LEMMA ClaimKeeps ==
  ASSUME CoordInv, NEW w \in Worker, NEW scope \in SUBSET Task, ClaimNext(w, scope)
  PROVE  StepKeeps
<1>1. CASE Retired(workers[w])
  BY <1>1, UnchangedKeeps DEF ClaimNext, StepKeeps
<1>2. CASE ~Retired(workers[w])
  <2>1. \A t \in Task : tasks'[t] = tasks[t] \/ tasks[t].status = "queued"
    BY <1>2, ClaimEffect DEF CoordInv, TurnedDownAt, Assigns
  <2>2. \A t \in Task : StaysSettled(t)
    BY <2>1, UnchangedKeeps DEF StaysSettled, Terminal
  <2>3. \A v \in Worker \ {w} : workers'[v] = workers[v]
    <3>1. workers' = ClaimWorkers(workers, tasks, spent, w, scope)
      BY <1>2 DEF ClaimNext
    <3>2. QED
      BY <3>1 DEF ClaimWorkers, CoordInv, TypeOK
  <2>4. StaysRetired(w)
    BY <1>2 DEF StaysRetired, Retired
  <2>5. QED
    BY <2>2, <2>3, <2>4, UnchangedKeeps DEF StepKeeps
<1>3. QED
  BY <1>1, <1>2

(* Only the creation of a task gives a status to an absent one. *)
LEMMA CreateKeeps ==
  ASSUME CoordInv,
         \/ \E t \in Task : EnqueueTask(t)
         \/ \E x \in Execution, children \in SUBSET Task : StartFanOutExecution(x, children)
  PROVE  StepKeeps
<1>1. /\ UNCHANGED workers
      /\ \A t \in Task : tasks'[t] = tasks[t] \/ tasks[t].status = "absent"
  BY DEF EnqueueTask, StartFanOutExecution, IsNextBatch, Existing, CoordInv, TypeOK
<1>2. \A t \in Task : StaysSettled(t)
  BY <1>1, UnchangedKeeps DEF StaysSettled, Terminal
<1>3. QED
  BY <1>1, <1>2, UnchangedKeeps DEF StepKeeps

LEMMA SettleKeeps ==
  ASSUME CoordInv, NEW t \in Task, NEW w \in Worker, CompleteTask(t, w) \/ FailTask(t, w)
  PROVE  StepKeeps
<1>1. tasks[t] \in TaskRecord /\ workers[w] \in WorkerRecord
  BY DEF CoordInv, TypeOK
<1>2. /\ \A u \in Task \ {t} : tasks'[u] = tasks[u]
      /\ \/ tasks'[t] = tasks[t]
         \/ tasks'[t] = [tasks[t] EXCEPT !.status = "failed"]
         \/ /\ tasks[t].status = "assigned"
            /\ tasks'[t] = [tasks[t] EXCEPT !.status = "completed"]
  <2>1. CASE CompleteTask(t, w)
    BY <2>1 DEF CompleteTask, CompleteTasks, IsAssignedTo, CoordInv, TypeOK
  <2>2. CASE FailTask(t, w)
    BY <2>2 DEF FailTask, FailTasks, CoordInv, TypeOK
  <2>3. QED
    BY <2>1, <2>2
<1>3. StaysSettled(t)
  <2>1. \/ tasks'[t] = tasks[t]
        \/ tasks'[t].status = "failed"
        \/ tasks[t].status = "assigned"
    BY <1>1, <1>2 DEF TaskRecord
  <2>2. QED
    BY <2>1, UnchangedKeeps DEF StaysSettled, Terminal
<1>4. /\ \A v \in Worker \ {w} : workers'[v] = workers[v]
      /\ workers'[w] \in {workers[w], FinishTask(workers[w]), FailedWorker(workers[w])}
  <2>1. CASE CompleteTask(t, w)
    BY <2>1 DEF CompleteTask, CompleteWorkers, CoordInv, TypeOK
  <2>2. CASE FailTask(t, w)
    BY <2>2 DEF FailTask, FailWorkers, CoordInv, TypeOK
  <2>3. QED
    BY <2>1, <2>2
<1>5. StaysRetired(w)
  BY <1>1, <1>4, RetiredHoldsNone, RegistryRetires DEF StaysRetired
<1>6. QED
  BY <1>2, <1>3, <1>4, <1>5, UnchangedKeeps DEF StepKeeps

LEMMA ApproveKeeps ==
  ASSUME CoordInv, NEW t \in Task, NEW p \in Person, ApproveTask(t, p)
  PROVE  StepKeeps
<1>1. /\ UNCHANGED workers
      /\ \A u \in Task : tasks'[u] = tasks[u] \/ NeedsApproval(u)
  BY DEF ApproveTask, Approved, CoordInv, TypeOK
<1>2. QED
  BY <1>1, UnchangedKeeps DEF StepKeeps, StaysSettled

LEMMA CancelKeeps ==
  ASSUME CoordInv, NEW x \in Execution, CancelExecution(x)
  PROVE  StepKeeps
<1>1. /\ tasks' = CancelTasks(tasks, executions[x].taskIds)
      /\ workers' = CancelWorkers(workers, tasks, executions[x].taskIds)
  BY DEF CancelExecution
<1>2. \A t \in Task : tasks'[t] = tasks[t] \/ ~Terminal(tasks[t].status)
  BY <1>1 DEF CancelTasks
<1>3. \A w \in Worker : workers'[w] \in {workers[w], Stop(workers[w])}
  BY <1>1 DEF CancelWorkers, CancelledWorker
<1>4. \A w \in Worker : StaysRetired(w)
  BY <1>3, RetiredHoldsNone DEF StaysRetired, Stop
<1>5. QED
  BY <1>2, <1>4, UnchangedKeeps DEF StepKeeps, StaysSettled

LEMMA NextKeeps == CoordInv /\ [Next]_vars => StepKeeps
<1> SUFFICES ASSUME CoordInv, [Next]_vars PROVE StepKeeps
  OBVIOUS
<1>1. CASE \E w \in Worker : SpawnWorker(w) \/ ChangeWorker(w)
  BY <1>1, WorkerStepKeeps
<1>2. CASE \E w \in Worker : ClaimNextTask(w)
  BY <1>2, ClaimKeeps DEF ClaimNextTask
<1>3. CASE \/ \E t \in Task : EnqueueTask(t)
           \/ \E x \in Execution, children \in SUBSET Task : StartFanOutExecution(x, children)
  BY <1>3, CreateKeeps
<1>4. CASE \E t \in Task, p \in Person : ApproveTask(t, p)
  BY <1>4, ApproveKeeps
<1>5. CASE \E t \in Task, w \in Worker : CompleteTask(t, w) \/ FailTask(t, w)
  BY <1>5, SettleKeeps
<1>6. CASE \E x \in Execution : CancelExecution(x)
  BY <1>6, CancelKeeps
<1>7. CASE DispatchStep
  <2>1. dispatch \in [exec : Execution, left : Seq(Worker) \ {<<>>}]
    BY <1>7 DEF DispatchStep, CoordInv, TypeOK
  <2>2. Head(dispatch.left) \in Worker
    BY <2>1, HeadTailProperties
  <2>3. executions[dispatch.exec].taskIds \in SUBSET Task
    BY <2>1 DEF CoordInv, TypeOK
  <2>4. ClaimNext(Head(dispatch.left), executions[dispatch.exec].taskIds)
    BY <1>7 DEF DispatchStep
  <2>5. QED
    BY <2>2, <2>3, <2>4, ClaimKeeps
<1>8. CASE \/ \E x \in Execution, ws \in WorkerLists : DispatchFanOutExecution(x, ws)
           \/ \E x \in Execution : CollectFanIn(x)
           \/ UNCHANGED vars
  <2>1. UNCHANGED <<workers, tasks>>
    BY <1>8 DEF DispatchFanOutExecution, CollectFanIn, vars
  <2>2. QED
    BY <2>1, UnchangedKeeps DEF StepKeeps
<1>9. QED
  BY <1>1, <1>2, <1>3, <1>4, <1>5, <1>6, <1>7, <1>8 DEF Next

(* Whoever claims, completes, approves or cancels, a failed or stopped worker  *)
(* never holds a task or becomes available again.                            *)
THEOREM RetiredWorkersStayAway == Spec => RetiredForGood
<1>1. CoordInv /\ [Next]_vars =>
        [\A w \in Worker : workers[w].state \in {"failed", "stopped"} =>
              /\ workers'[w].state \in {"failed", "stopped"}
              /\ workers'[w].task = NoTask]_vars
  BY NextKeeps DEF StepKeeps, StaysRetired
<1>2. QED
  BY <1>1, CoordinatorInvariant, PTL DEF Spec, RetiredForGood

(* A plain task is settled once; no late or duplicate completion turns its      *)
(* failure or cancellation into a success.                                    *)
THEOREM PlainTasksSettleOnce == Spec => PlainTaskSettlesOnce
<1>1. CoordInv /\ [Next]_vars =>
        [\A t \in Task : ~NeedsApproval(t) /\ Terminal(tasks[t].status) =>
              /\ Terminal(tasks'[t].status)
              /\ tasks'[t].status = "completed" => tasks[t].status = "completed"]_vars
  BY NextKeeps DEF StepKeeps, StaysSettled
<1>2. QED
  BY <1>1, CoordinatorInvariant, PTL DEF Spec, PlainTaskSettlesOnce

-----------------------------------------------------------------------------
(* Whoever a task is in the hands of, or was last assigned to, has the role it  *)
(* requires and is not denied it by the security policy (claimNextTask): no    *)
(* approval, late completion or second claim hands a task to anybody else.    *)
HandsSuit ==
    \A w \in Worker, t \in Task :
        tasks[t].assignee = w \/ workers[w].task = t => <<w, t>> \in Suits \ Denied

(* A step gives a task only to a worker that suits it. *)
Hands ==
    /\ \A t \in Task : \/ tasks'[t].assignee \in {tasks[t].assignee, NoWorker}
                       \/ <<tasks'[t].assignee, t>> \in Suits \ Denied
    /\ \A w \in Worker : \/ workers'[w].task \in {workers[w].task, NoTask}
                         \/ <<w, workers'[w].task>> \in Suits \ Denied

LEMMA ClaimHands ==
  ASSUME TypeOK, NEW w \in Worker, NEW scope \in SUBSET Task, ClaimNext(w, scope)
  PROVE  Hands
<1> DEFINE ch == Chosen(tasks, spent, w, scope)
<1>1. CASE Retired(workers[w])
  BY <1>1 DEF ClaimNext, Hands
<1>2. CASE ~Retired(workers[w])
  <2>1. /\ tasks' = ClaimTasks(tasks, spent, w, scope)
        /\ workers' = ClaimWorkers(workers, tasks, spent, w, scope)
    BY <1>2 DEF ClaimNext
  <2>2. \A t \in ch : t \in Task /\ <<w, t>> \in Suits \ Denied
    BY DEF Chosen, Candidates, Prepared, SecurityOK
  <2>3. ASSUME NEW t \in Task
        PROVE  \/ tasks'[t].assignee = tasks[t].assignee
               \/ <<tasks'[t].assignee, t>> \in Suits \ Denied
    <3>1. tasks[t] \in TaskRecord
      BY DEF TypeOK
    <3>2. CASE t \in ch
      <4>1. PICK rec : rec = [tasks[t] EXCEPT !.status = "assigned", !.assignee = w]
        OBVIOUS
      <4>2. rec.assignee = w
        BY <3>1, <4>1 DEF TaskRecord
      <4>3. tasks'[t] = rec
        BY <2>1, <3>2, <4>1 DEF ClaimTasks
      <4>4. QED
        BY <2>2, <3>2, <4>2, <4>3
    <3>3. CASE t \notin ch
      <4>1. tasks'[t] \in {tasks[t], TurnedDown(tasks, t)}
        BY <2>1, <3>3 DEF ClaimTasks
      <4>2. TurnedDown(tasks, t).assignee = tasks[t].assignee
        BY <3>1 DEF TurnedDown, TaskRecord
      <4>3. QED
        BY <4>1, <4>2
    <3>4. QED
      BY <3>2, <3>3
  <2>4. ASSUME NEW v \in Worker
        PROVE  \/ workers'[v].task \in {workers[v].task, NoTask}
               \/ <<v, workers'[v].task>> \in Suits \ Denied
    <3>1. workers[w] \in WorkerRecord
      BY DEF TypeOK
    <3>2. CASE v # w
      BY <2>1, <3>2 DEF ClaimWorkers, TypeOK
    <3>3. PICK c : c = CHOOSE t \in ch : TRUE
      OBVIOUS
    <3>4. CASE v = w
      <4>1. workers'[w] = workers[w] \/ (ch # {} /\ workers'[w] = StartTask(workers[w], c))
        BY <2>1, <3>3 DEF ClaimWorkers, ClaimedWorker, TypeOK
      <4>2. StartTask(workers[w], c).task \in {workers[w].task, NoTask, c}
        BY DEF StartTask, MoveFrom, Failed
      <4>3. ch # {} => <<w, c>> \in Suits \ Denied
        BY <2>2, <3>3
      <4>4. QED
        BY <3>4, <4>1, <4>2, <4>3
    <3>5. QED
      BY <3>2, <3>4
  <2>5. QED
    BY <2>3, <2>4 DEF Hands
<1>3. QED
  BY <1>1, <1>2

(* Apart from a claim, methods of the registry keep a worker's task or drop it. *)
LEMMA RegistryDrops ==
  ASSUME NEW w \in WorkerRecord,
         NEW n \in {w, MarkReady(w), Pause(w), Resume(w), FinishTask(w), Stop(w),
                    FailedWorker(w)}
  PROVE  n.task \in {w.task, NoTask}
<1>1. ASSUME NEW v \in WorkerRecord
      PROVE  /\ MarkReady(v).task \in {v.task, NoTask} /\ Pause(v).task \in {v.task, NoTask}
             /\ Resume(v).task \in {v.task, NoTask} /\ Stop(v).task \in {v.task, NoTask}
             /\ FinishTask(v).task \in {v.task, NoTask}
  BY DEF MarkReady, Pause, Resume, FinishTask, Stop, MoveFrom, Failed, WorkerRecord
<1>2. Pause(w) \in WorkerRecord
  BY DEF Pause, MoveFrom, Failed, WorkerRecord, WorkerStates
<1>3. FinishTask(Pause(w)) \in WorkerRecord
  BY <1>2 DEF FinishTask, MoveFrom, Failed, WorkerRecord, WorkerStates
<1>4. FailedWorker(w).task \in {w.task, NoTask}
  BY <1>1, <1>2, <1>3 DEF FailedWorker
<1>5. QED
  BY <1>1, <1>4

LEMMA HandsStep ==
  ASSUME TypeOK, [Next]_vars
  PROVE  Hands
<1>0. /\ workers \in [Worker -> WorkerRecord] /\ tasks \in [Task -> TaskRecord]
  BY DEF TypeOK
<1>1. ASSUME NEW w \in Worker, SpawnWorker(w) \/ ChangeWorker(w)
      PROVE  Hands
  <2>1. PICK n : /\ workers' = [workers EXCEPT ![w] = n] /\ UNCHANGED tasks
                 /\ \/ n = Spawned
                    \/ n \in {MarkReady(workers[w]), Pause(workers[w]), Resume(workers[w]),
                              Stop(workers[w])}
    BY <1>1 DEF SpawnWorker, ChangeWorker
  <2>2. n.task \in {workers[w].task, NoTask}
    BY <1>0, <2>1, RegistryDrops DEF Spawned
  <2>3. QED
    BY <1>0, <2>1, <2>2 DEF Hands
<1>2. ASSUME NEW w \in Worker, ClaimNextTask(w)
      PROVE  Hands
  BY <1>2, ClaimHands DEF ClaimNextTask
<1>3. ASSUME \/ \E t \in Task : EnqueueTask(t)
             \/ \E x \in Execution, children \in SUBSET Task : StartFanOutExecution(x, children)
      PROVE  Hands
  <2>1. /\ UNCHANGED workers
        /\ \A t \in Task : tasks'[t] = tasks[t] \/ tasks'[t] = QueuedTask
    BY <1>0, <1>3 DEF EnqueueTask, StartFanOutExecution
  <2>2. QueuedTask.assignee = NoWorker
    BY DEF QueuedTask, AbsentTask
  <2>3. QED
    BY <2>1, <2>2 DEF Hands
<1>4. ASSUME NEW t \in Task, NEW p \in Person, ApproveTask(t, p)
      PROVE  Hands
  <2>1. /\ UNCHANGED workers
        /\ tasks'[t] = Approved(tasks[t], t, p)
        /\ \A u \in Task \ {t} : tasks'[u] = tasks[u]
    BY <1>0, <1>4 DEF ApproveTask
  <2>2. tasks[t] \in TaskRecord
    BY <1>0
  <2>3. Approved(tasks[t], t, p).assignee = tasks[t].assignee
    BY <2>2 DEF Approved, TaskRecord
  <2>4. QED
    BY <2>1, <2>3 DEF Hands
<1>5. ASSUME NEW t \in Task, NEW w \in Worker, CompleteTask(t, w) \/ FailTask(t, w)
      PROVE  Hands
  <2>1. PICK status : tasks' = [tasks EXCEPT ![t].status = status] \/ tasks' = tasks
    BY <1>5 DEF CompleteTask, FailTask, CompleteTasks, FailTasks
  <2>2. PICK rec : rec = [tasks[t] EXCEPT !.status = status]
    OBVIOUS
  <2>3. rec.assignee = tasks[t].assignee
    BY <1>0, <2>2 DEF TaskRecord
  <2>4. tasks' = [tasks EXCEPT ![t] = rec] \/ tasks' = tasks
    BY <2>1, <2>2
  <2>5. \A u \in Task : tasks'[u].assignee = tasks[u].assignee
    BY <1>0, <2>3, <2>4
  <2>6. PICK n \in {workers[w], FinishTask(workers[w]), FailedWorker(workers[w])} :
            workers' = [workers EXCEPT ![w] = n]
    BY <1>0, <1>5 DEF CompleteTask, FailTask, CompleteWorkers, FailWorkers
  <2>7. n.task \in {workers[w].task, NoTask}
    BY <1>0, <2>6, RegistryDrops
  <2>8. QED
    BY <1>0, <2>5, <2>6, <2>7 DEF Hands
<1>6. ASSUME NEW x \in Execution, CancelExecution(x)
      PROVE  Hands
  <2>1. /\ tasks' = CancelTasks(tasks, executions[x].taskIds)
        /\ workers' = CancelWorkers(workers, tasks, executions[x].taskIds)
    BY <1>6 DEF CancelExecution
  <2>2. ASSUME NEW t \in Task
        PROVE  tasks'[t].assignee = tasks[t].assignee
    <3>1. tasks[t] \in TaskRecord
      BY <1>0
    <3>2. QED
      BY <2>1, <3>1 DEF CancelTasks, TaskRecord
  <2>3. ASSUME NEW w \in Worker
        PROVE  workers'[w].task \in {workers[w].task, NoTask}
    <3>1. workers'[w] \in {workers[w], Stop(workers[w])}
      BY <2>1 DEF CancelWorkers, CancelledWorker
    <3>2. QED
      BY <1>0, <3>1, RegistryDrops
  <2>4. QED
    BY <2>2, <2>3 DEF Hands
<1>7. CASE DispatchStep
  <2>1. dispatch \in [exec : Execution, left : Seq(Worker) \ {<<>>}]
    BY <1>7 DEF DispatchStep, TypeOK
  <2>2. Head(dispatch.left) \in Worker
    BY <2>1, HeadTailProperties
  <2>3. executions[dispatch.exec].taskIds \in SUBSET Task
    BY <2>1 DEF TypeOK
  <2>4. QED
    BY <1>7, <2>2, <2>3, ClaimHands DEF DispatchStep
<1>8. CASE \/ \E x \in Execution, ws \in WorkerLists : DispatchFanOutExecution(x, ws)
           \/ \E x \in Execution : CollectFanIn(x)
           \/ UNCHANGED vars
  <2>1. UNCHANGED <<workers, tasks>>
    BY <1>8 DEF DispatchFanOutExecution, CollectFanIn, vars
  <2>2. QED
    BY <2>1 DEF Hands
<1>9. QED
  BY <1>1, <1>2, <1>3, <1>4, <1>5, <1>6, <1>7, <1>8 DEF Next

THEOREM TasksGoToWhoSuits == Spec => []HandsSuit
<1>1. Init => HandsSuit
  BY CoordinatorConstants, NoTaskIsNoTask DEF Init, HandsSuit, Absent, AbsentTask
<1>2. TypeOK /\ HandsSuit /\ [Next]_vars => HandsSuit'
  <2> SUFFICES ASSUME TypeOK, HandsSuit, Hands PROVE HandsSuit'
    BY HandsStep
  <2>1. QED
    BY CoordinatorConstants, NoTaskIsNoTask DEF HandsSuit, Hands
<1>3. QED
  BY <1>1, <1>2, CoordinatorTypeOK, PTL DEF Spec

-----------------------------------------------------------------------------
(***************************************************************************)
(* Fan-in is collected again whenever a caller likes, and cancelExecution     *)
(* overwrites what it reported; what it said of a failure still stands.       *)
(***************************************************************************)
Lost(x) ==
    \E t \in executions[x].taskIds :
        ~NeedsApproval(t) /\ tasks[t].status \in {"failed", "cancelled"}

Plain(x) == \A t \in executions[x].taskIds : ~NeedsApproval(t)

ReportedIsLost ==
    \A x \in Execution :
        /\ executions[x].status = "absent" => executions[x].taskIds = {}
        /\ executions[x].status = "failed" /\ Plain(x) => Lost(x)

(* What a step does to one execution: only startFanOutExecution gives it its   *)
(* children, and only fan-in reports that it completed or failed.             *)
LEMMA ExecutionSteps ==
  ASSUME CoordInv, [Next]_vars, NEW x \in Execution
  PROVE  \/ executions'[x] = executions[x]
         \/ executions[x].status = "absent" /\ executions'[x].status \in {"running", "completed"}
         \/ /\ executions[x].status # "absent"
            /\ executions'[x].taskIds = executions[x].taskIds
            /\ \/ executions'[x].status = "cancelled"
               \/ /\ tasks' = tasks
                  /\ executions'[x].status = FanInStatus(tasks, executions[x].taskIds)
<1>0. executions \in [Execution -> [status : ExecutionStatuses, taskIds : SUBSET Task]]
  BY DEF CoordInv, TypeOK
<1>1. ASSUME NEW y \in Execution, NEW children \in SUBSET Task, StartFanOutExecution(y, children)
      PROVE  \/ executions'[x] = executions[x]
             \/ executions[x].status = "absent"
                /\ executions'[x].status \in {"running", "completed"}
  BY <1>0, <1>1 DEF StartFanOutExecution
<1>2. ASSUME NEW y \in Execution, CancelExecution(y) \/ CollectFanIn(y)
      PROVE  \/ executions'[x] = executions[x]
             \/ /\ executions[x].status # "absent"
                /\ executions'[x].taskIds = executions[x].taskIds
                /\ \/ executions'[x].status = "cancelled"
                   \/ /\ tasks' = tasks
                      /\ executions'[x].status = FanInStatus(tasks, executions[x].taskIds)
  <2>1. PICK status : /\ executions' = [executions EXCEPT ![y].status = status]
                      /\ executions[y].status # "absent"
                      /\ \/ status = "cancelled"
                         \/ /\ tasks' = tasks
                            /\ status = FanInStatus(tasks, executions[y].taskIds)
    BY <1>2 DEF CancelExecution, CollectFanIn
  <2>2. PICK rec : rec = [executions[y] EXCEPT !.status = status]
    OBVIOUS
  <2>3. rec.status = status /\ rec.taskIds = executions[y].taskIds
    BY <1>0, <2>2
  <2>4. executions' = [executions EXCEPT ![y] = rec]
    BY <2>1, <2>2
  <2>5. QED
    BY <1>0, <2>1, <2>3, <2>4
<1>3. CASE UNCHANGED executions
  BY <1>3
<1>4. CASE ~UNCHANGED executions
  <2>1. \/ \E y \in Execution, children \in SUBSET Task : StartFanOutExecution(y, children)
        \/ \E y \in Execution : CancelExecution(y) \/ CollectFanIn(y)
    BY <1>4 DEF Next, vars, SpawnWorker, ChangeWorker, ClaimNextTask, EnqueueTask, ApproveTask,
           CompleteTask, FailTask, DispatchFanOutExecution, DispatchStep
  <2>2. QED
    BY <1>1, <1>2, <2>1
<1>5. QED
  BY <1>3, <1>4

LEMMA FanInOfLost ==
  ASSUME NEW x \in Execution, Lost(x)
  PROVE  FanInStatus(tasks, executions[x].taskIds) # "completed"
BY DEF FanInStatus, Lost

LEMMA FanInFailed ==
  ASSUME NEW x \in Execution, Plain(x), FanInStatus(tasks, executions[x].taskIds) = "failed"
  PROVE  Lost(x)
BY DEF FanInStatus, Lost, Plain

LEMMA LostStep ==
  ASSUME CoordInv, ReportedIsLost, [Next]_vars, NEW x \in Execution, Lost(x)
  PROVE  /\ Lost(x)'
         /\ executions'[x].status = "completed" => executions[x].status = "completed"
<1>1. PICK t \in executions[x].taskIds :
          ~NeedsApproval(t) /\ tasks[t].status \in {"failed", "cancelled"}
  BY DEF Lost
<1>2. t \in Task /\ tasks' \in [Task -> TaskRecord]
  BY NextCoordInv DEF CoordInv, TypeOK
<1>3. tasks'[t].status \in {"failed", "cancelled"}
  BY <1>1, <1>2, NextKeeps DEF StepKeeps, StaysSettled, Terminal
<1>4. executions[x].status # "absent"
  BY <1>1 DEF ReportedIsLost
<1>5. executions'[x].taskIds = executions[x].taskIds
  BY <1>4, ExecutionSteps
<1>6. Lost(x)'
  BY <1>1, <1>3, <1>5 DEF Lost, NeedsApproval
<1>7. ASSUME executions'[x].status = "completed"
      PROVE  executions[x].status = "completed"
  BY <1>4, <1>7, ExecutionSteps, FanInOfLost
<1>8. QED
  BY <1>6, <1>7

LEMMA ReportedStep == CoordInv /\ ReportedIsLost /\ [Next]_vars => ReportedIsLost'
<1> SUFFICES ASSUME CoordInv, ReportedIsLost, [Next]_vars, NEW x \in Execution
             PROVE  /\ executions'[x].status = "absent" => executions'[x].taskIds = {}
                    /\ executions'[x].status = "failed" /\ Plain(x)' => Lost(x)'
  BY DEF ReportedIsLost
<1>1. executions'[x].status = "absent" => executions'[x].taskIds = {}
  <2>1. FanInStatus(tasks, executions[x].taskIds) # "absent"
    BY DEF FanInStatus
  <2>2. QED
    BY <2>1, ExecutionSteps DEF ReportedIsLost
<1>2. ASSUME executions'[x].status = "failed", Plain(x)'
      PROVE  Lost(x)'
  <2>1. executions'[x].taskIds = executions[x].taskIds
    BY <1>2, ExecutionSteps
  <2>2. Plain(x)
    BY <1>2, <2>1 DEF Plain, NeedsApproval
  <2>3. CASE executions[x].status = "failed"
    <3>1. Lost(x)
      BY <2>2, <2>3 DEF ReportedIsLost
    <3>2. QED
      BY <3>1, LostStep
  <2>4. CASE executions[x].status # "failed"
    <3>1. FanInStatus(tasks, executions[x].taskIds) = "failed"
      BY <1>2, <2>4, ExecutionSteps
    <3>2. Lost(x)
      BY <2>2, <3>1, FanInFailed
    <3>3. QED
      BY <3>2, LostStep
  <2>5. QED
    BY <2>3, <2>4
<1>3. QED
  BY <1>1, <1>2

(* An execution a child of which failed or was cancelled stays so and is never  *)
(* reported completed afterwards, whatever is claimed, completed late,          *)
(* cancelled or collected again (collectFanIn, cancelExecution); and one that   *)
(* fan-in reported failed is such an execution.  Children that need an          *)
(* approval are left out: an approval puts a failed task back into the queue.  *)
LostStays ==
    [][\A x \in Execution : Lost(x) =>
          /\ Lost(x)'
          /\ executions'[x].status = "completed" => executions[x].status = "completed"]_vars

THEOREM FailedExecutionsStayFailed == Spec => []ReportedIsLost /\ LostStays
<1>1. Init => ReportedIsLost
  BY DEF Init, ReportedIsLost
<1>2. CoordInv /\ ReportedIsLost /\ [Next]_vars =>
        [\A x \in Execution : Lost(x) =>
          /\ Lost(x)'
          /\ executions'[x].status = "completed" => executions[x].status = "completed"]_vars
  BY LostStep
<1>3. QED
  BY <1>1, <1>2, ReportedStep, CoordinatorInvariant, PTL DEF Spec, LostStays
=============================================================================
