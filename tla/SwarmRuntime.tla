---------------------------- MODULE SwarmRuntime ----------------------------
(***************************************************************************)
(* The runs ColonySwarmRuntime keeps in memory: startObjective, cancelRun, *)
(* resumeRun, retryStage and the stage loop _runLlmStages they start       *)
(* (src/orchestrator/swarm.ts), on top of the coordinator, the worker      *)
(* registry and the run semaphore.                                         *)
(*                                                                         *)
(* A loop is one activation of _runLlmStages.  Between two awaits a loop   *)
(* runs alone: at pc "head" it is in the middle of such a section, and     *)
(* everything else waits (Quiet).  Operators may call anything at any      *)
(* other moment, so several loops may be at work on one run.               *)
(*                                                                         *)
(* Runs are in "llm" mode and a stage runner is configured.  Titles,       *)
(* summaries, artifacts, timestamps and retry history are left out.        *)
(***************************************************************************)
EXTENDS Integers, Sequences, FiniteSets

CONSTANTS
    NRuns,              \* bound: how many runs are started
    MaxCalls,           \* bound: calls of the other operations
    GatedRuns,          \* runs started with approvalRequired
    Loop,               \* activations of _runLlmStages that may coexist
    RequestedMax,       \* maxConcurrentRuns
    MaxAttempts,        \* maxAttempts of every run, clamped to 1..5
    RetryLimit,         \* MANUAL_RETRY_ATTEMPT_LIMIT
    Person, Nobody,     \* who calls approveTask
    RequiredApprovers,  \* requiredApprover alone, or Person without one
    NoTask, NoWorker

Run == 1..NRuns

(* SWARM_STAGE_ORDER *)
Plan == 1
Execute == 2
Review == 3
Stage == Plan..Review

(* Every stage of a run has a task, and a worker of the task's role. *)
StageTask == Run \X Stage

ASSUME SwarmConstants ==
    /\ NRuns \in Nat /\ MaxCalls \in Nat
    /\ GatedRuns \subseteq Run
    /\ IsFiniteSet(Loop)
    /\ RequestedMax \in Int
    /\ MaxAttempts \in 1..5
    /\ RetryLimit \in Nat \ {0}
    /\ Nobody \notin Person
    /\ RequiredApprovers \subseteq Person /\ RequiredApprovers # {}
    /\ NoTask \notin StageTask /\ NoWorker \notin StageTask

VARIABLES
    workers, tasks,     \* the registry's and the coordinator's maps
    execution,          \* run -> status of its fan-out execution
    stages,             \* run -> its map from stages to status and attempts
    loops,              \* the activations of _runLlmStages
    activeRunCount, runQueue, slot,   \* the semaphore
    calls,              \* bounded: operations called on started runs
    succeeded           \* history: run -> stages whose runner ever returned

coordVars == <<workers, tasks, execution>>
slotVars == <<activeRunCount, runQueue, slot>>
vars == <<workers, tasks, execution, stages, loops, activeRunCount, runQueue,
          slot, calls, succeeded>>

Slots == INSTANCE RunSemaphore WITH Caller <- Loop

Coord == INSTANCE CoordinatorOps WITH
    Task <- StageTask,
    Worker <- StageTask,
    Approvers <- [t \in StageTask |->
                    IF t[1] \in GatedRuns /\ t[2] = Execute
                    THEN RequiredApprovers ELSE {}],
    Suits <- {p \in StageTask \X StageTask : p[1][2] = p[2][2]},
    Denied <- {},
    Priority <- [t \in StageTask |-> 10 * (4 - t[2])],
    Age <- [t \in StageTask |-> 3 * t[1] + t[2]],
    Cost <- [t \in StageTask |-> 0],
    MaxTokens <- 0

StageStatuses ==
    {"pending", "running", "awaiting_approval", "completed", "failed", "cancelled"}

(* initialStageSnapshot *)
InitialStage == [status |-> "pending", attempts |-> 0]

IdleLoop == [pc |-> "idle", run |-> 0, from |-> Plan, at |-> Plan,
             retry |-> FALSE, attempt |-> 0, assignee |-> NoWorker]

Started == {r \in Run : execution[r] # "absent"}

(* No synchronous section is under way. *)
Quiet == \A l \in Loop : loops[l].pc # "head"

TasksOf(r) == {r} \X Stage

(* The highest attempt number the loops may give. *)
MostAttempts == IF RetryLimit > MaxAttempts THEN RetryLimit ELSE MaxAttempts

(* An operator calls something for a run that was started. *)
Call(r) == Quiet /\ r \in Started /\ calls < MaxCalls /\ calls' = calls + 1

-----------------------------------------------------------------------------
Init ==
    /\ workers = [w \in StageTask |-> Coord!Absent]
    /\ tasks = [t \in StageTask |-> Coord!AbsentTask]
    /\ execution = [r \in Run |-> "absent"]
    /\ stages = [r \in Run |-> [s \in Stage |-> InitialStage]]
    /\ loops = [l \in Loop |-> IdleLoop]
    /\ Slots!SemInit
    /\ calls = 0
    /\ succeeded = [r \in Run |-> {}]

-----------------------------------------------------------------------------
(* What the operators do. *)

(* dispatchFanOutExecution for the planner, the worker, the reviewer. *)
Dispatched(ts, ws, r) ==
    LET ts1 == Coord!ClaimTasks(ts, 0, <<r, Plan>>, TasksOf(r))
        ws1 == Coord!ClaimWorkers(ws, ts, 0, <<r, Plan>>, TasksOf(r))
        ts2 == Coord!ClaimTasks(ts1, 0, <<r, Execute>>, TasksOf(r))
        ws2 == Coord!ClaimWorkers(ws1, ts1, 0, <<r, Execute>>, TasksOf(r))
    IN  [tasks |-> Coord!ClaimTasks(ts2, 0, <<r, Review>>, TasksOf(r)),
         workers |-> Coord!ClaimWorkers(ws2, ts2, 0, <<r, Review>>, TasksOf(r))]

(* startObjective up to the save of the first snapshot *)
StartObjective(l, r) ==
    /\ Quiet
    /\ loops[l] = IdleLoop
    /\ r \notin Started /\ 1..(r - 1) \subseteq Started
    /\ LET ready == [w \in StageTask |-> IF w[1] = r THEN Coord!MarkReady(Coord!Spawned)
                                         ELSE workers[w]]
           queued == [t \in StageTask |-> IF t[1] = r THEN Coord!QueuedTask ELSE tasks[t]]
           after == Dispatched(queued, ready, r)
       IN  tasks' = after.tasks /\ workers' = after.workers
    /\ execution' = [execution EXCEPT ![r] = "running"]
    /\ loops' = [loops EXCEPT ![l] = [IdleLoop EXCEPT !.pc = "starting", !.run = r]]
    /\ UNCHANGED <<stages, slotVars, calls, succeeded>>

(* The loop l asks for a slot to work on r. *)
Launch(l, r, from, retry) ==
    /\ loops' = [loops EXCEPT ![l] =
          [IdleLoop EXCEPT !.pc = "waiting", !.run = r, !.from = from, !.retry = retry]]
    /\ Slots!Acquire(l)

(* startObjective goes on once its first snapshot is saved, ... *)
StartSaved(l) ==
    /\ Quiet
    /\ loops[l].pc = "starting"
    /\ Launch(l, loops[l].run, Plan, FALSE)
    /\ UNCHANGED <<coordVars, stages, calls, succeeded>>

(* ... and rejects if the store does. *)
StartNotSaved(l) ==
    /\ Quiet
    /\ loops[l].pc = "starting"
    /\ loops' = [loops EXCEPT ![l] = IdleLoop]
    /\ UNCHANGED <<coordVars, stages, slotVars, calls, succeeded>>

(* resumeRun: no question asked about the run's state. *)
ResumeRun(l, r) ==
    /\ Call(r)
    /\ loops[l] = IdleLoop
    /\ Launch(l, r, Plan, FALSE)
    /\ UNCHANGED <<coordVars, stages, succeeded>>

(* resetStageAndDependents: only the stage itself keeps its attempts. *)
Reset(st, from) ==
    [s \in Stage |->
        CASE s < from -> st[s]
          [] s = from -> [InitialStage EXCEPT !.attempts = st[s].attempts]
          [] s > from -> InitialStage]

RetryStage(l, r, s) ==
    /\ Call(r)
    /\ loops[l] = IdleLoop
    /\ stages' = [stages EXCEPT ![r] = Reset(@, s)]
    /\ Launch(l, r, s, TRUE)
    /\ UNCHANGED <<coordVars, succeeded>>

(* cancelRun: the execution is cancelled, the loops are not told. *)
CancelRun(r) ==
    /\ Call(r)
    /\ tasks' = Coord!CancelTasks(tasks, TasksOf(r))
    /\ workers' = Coord!CancelWorkers(workers, tasks, TasksOf(r))
    /\ execution' = [execution EXCEPT ![r] = "cancelled"]
    /\ UNCHANGED <<stages, loops, slotVars, succeeded>>

(* coordinator.approveTask for the run's execute task *)
ApproveExecute(r, p) ==
    /\ Call(r)
    /\ tasks' = [tasks EXCEPT ![<<r, Execute>>] = Coord!Approved(@, <<r, Execute>>, p)]
    /\ UNCHANGED <<workers, execution, stages, loops, slotVars, succeeded>>

-----------------------------------------------------------------------------
(* The stage loop. *)

(* The last save settles either way, and the finally block frees the slot. *)
EndLoop(l) ==
    /\ Quiet
    /\ loops[l].pc = "ending"
    /\ loops' = [loops EXCEPT ![l] = IdleLoop]
    /\ Slots!Release(l)
    /\ UNCHANGED <<coordVars, stages, calls, succeeded>>

(* The awaited slot is granted. *)
EnterLoop(l) ==
    /\ Quiet
    /\ loops[l].pc = "waiting"
    /\ Slots!Enter(l)
    /\ loops' = [loops EXCEPT ![l].pc = "head", ![l].at = loops[l].from]
    /\ UNCHANGED <<coordVars, stages, calls, succeeded>>

(* The mistakes below are each caught by a property at the end. *)

(* A stage that another loop has marked running counts as taken care of. *)
OpenUnlessRunning(l) ==
    {s \in loops[l].at..Review :
        stages[loops[l].run][s].status \notin {"completed", "running"}}

(* The loop looks at the stage map, which a retry resets, for the approval. *)
AwaitsApprovalByStage(r, s) == stages[r][s].status = "awaiting_approval"

(* A failing stage leaves its task and worker to somebody else. *)
FailStageOnly(r, s, assignee) ==
    /\ stages' = [stages EXCEPT ![r][s].status = "failed"]
    /\ UNCHANGED <<tasks, workers, execution>>

(* The exception of a failed save passes by the release of the slot. *)
StageNotSavedKeepsSlot(l) ==
    /\ Quiet
    /\ loops[l].pc = "saving"
    /\ loops' = [loops EXCEPT ![l] = IdleLoop]
    /\ UNCHANGED <<coordVars, slotVars, stages, calls, succeeded>>

(* The limit is compared with the attempts made instead of the next one. *)
ExhaustedLate(l, s) ==
    stages[loops[l].run][s].attempts > (IF loops[l].retry THEN RetryLimit ELSE MaxAttempts)

-----------------------------------------------------------------------------
(* Where the for statement stops next: completed stages are skipped. *)
Open(l) == {s \in loops[l].at..Review : stages[loops[l].run][s].status # "completed"}

IsNext(l, s) == s \in Open(l) /\ \A o \in Open(l) : s <= o

AttemptLimit(l) == IF loops[l].retry THEN RetryLimit ELSE MaxAttempts

Exhausted(l, s) == stages[loops[l].run][s].attempts + 1 > AttemptLimit(l)

(* collectFanIn on the tasks as they are now *)
FanIn(r, ts) ==
    execution' = [execution EXCEPT ![r] = Coord!FanInStatus(ts, TasksOf(r))]

(* markRunStageFailure, failTask for the worker the loop found assigned, and  *)
(* collectFanIn.                                                             *)
FailStage(r, s, assignee) ==
    LET t == <<r, s>>
        failed == IF assignee = NoWorker THEN tasks ELSE Coord!FailTasks(tasks, t)
    IN  /\ stages' = [stages EXCEPT ![r][s].status = "failed"]
        /\ tasks' = failed
        /\ workers' = IF assignee = NoWorker THEN workers
                      ELSE Coord!FailWorkers(workers, assignee)
        /\ FanIn(r, failed)

GiveUp(l, s) ==
    LET r == loops[l].run
    IN  /\ loops[l].pc = "head" /\ IsNext(l, s)
        /\ Exhausted(l, s)
        /\ FailStage(r, s, tasks[<<r, s>>].assignee)
        /\ loops' = [loops EXCEPT ![l].pc = "ending"]
        /\ UNCHANGED <<slotVars, calls, succeeded>>

AwaitsApproval(r, s) == tasks[<<r, s>>].awaiting

StopForApproval(l, s) ==
    LET r == loops[l].run
    IN  /\ loops[l].pc = "head" /\ IsNext(l, s)
        /\ ~Exhausted(l, s)
        /\ AwaitsApproval(r, s)
        /\ stages' = [stages EXCEPT ![r][s].status = "awaiting_approval"]
        /\ loops' = [loops EXCEPT ![l].pc = "ending"]
        /\ UNCHANGED <<coordVars, slotVars, calls, succeeded>>

(* The stage is marked running, and its snapshot is being saved. *)
BeginStage(l, s) ==
    LET r == loops[l].run
        attempt == stages[r][s].attempts + 1
    IN  /\ loops[l].pc = "head" /\ IsNext(l, s)
        /\ ~Exhausted(l, s)
        /\ ~AwaitsApproval(r, s)
        /\ stages' = [stages EXCEPT ![r][s] = [status |-> "running", attempts |-> attempt]]
        /\ loops' = [loops EXCEPT ![l] =
              [loops[l] EXCEPT !.pc = "saving", !.at = s, !.attempt = attempt,
                               !.assignee = tasks[<<r, s>>].assignee]]
        /\ UNCHANGED <<coordVars, slotVars, calls, succeeded>>

(* Every stage is completed. *)
FinishStages(l) ==
    /\ loops[l].pc = "head" /\ Open(l) = {}
    /\ FanIn(loops[l].run, tasks)
    /\ loops' = [loops EXCEPT ![l].pc = "ending"]
    /\ UNCHANGED <<workers, tasks, stages, slotVars, calls, succeeded>>

(* The save of the running stage settles: the runner is called, ... *)
CallRunner(l) ==
    /\ Quiet
    /\ loops[l].pc = "saving"
    /\ loops' = [loops EXCEPT ![l].pc = "calling"]
    /\ UNCHANGED <<coordVars, stages, slotVars, calls, succeeded>>

(* ... or the exception leaves the loop through its finally block. *)
StageNotSaved(l) ==
    /\ Quiet
    /\ loops[l].pc = "saving"
    /\ loops' = [loops EXCEPT ![l] = IdleLoop]
    /\ Slots!Release(l)
    /\ UNCHANGED <<coordVars, stages, calls, succeeded>>

(* runStage returns: the stage is completed with this loop's attempt, whatever  *)
(* happened to the run meanwhile, and so is its task.                         *)
StageSucceeds(l) ==
    LET r == loops[l].run
        s == loops[l].at
        w == loops[l].assignee
    IN  /\ Quiet
        /\ loops[l].pc = "calling"
        /\ stages' = [stages EXCEPT
              ![r][s] = [status |-> "completed", attempts |-> loops[l].attempt]]
        /\ tasks' = IF w = NoWorker THEN tasks
                    ELSE Coord!CompleteTasks(tasks, <<r, s>>, w)
        /\ workers' = IF w = NoWorker THEN workers
                      ELSE Coord!CompleteWorkers(workers, tasks, <<r, s>>, w)
        /\ succeeded' = [succeeded EXCEPT ![r] = @ \cup {s}]
        /\ loops' = [loops EXCEPT ![l].pc = "head", ![l].at = s + 1]
        /\ UNCHANGED <<execution, slotVars, calls>>

StageFails(l) ==
    /\ Quiet
    /\ loops[l].pc = "calling"
    /\ FailStage(loops[l].run, loops[l].at, loops[l].assignee)
    /\ loops' = [loops EXCEPT ![l].pc = "ending"]
    /\ UNCHANGED <<slotVars, calls, succeeded>>

-----------------------------------------------------------------------------
OperatorStep ==
    \/ \E l \in Loop, r \in Run : StartObjective(l, r) \/ ResumeRun(l, r)
    \/ \E l \in Loop, r \in Run, s \in Stage : RetryStage(l, r, s)
    \/ \E r \in Run : CancelRun(r)
    \/ \E r \in Run, p \in Person : ApproveExecute(r, p)

LoopStep(l) ==
    \/ StartSaved(l) \/ StartNotSaved(l)
    \/ EnterLoop(l)
    \/ \E s \in Stage : GiveUp(l, s) \/ StopForApproval(l, s) \/ BeginStage(l, s)
    \/ FinishStages(l)
    \/ CallRunner(l) \/ StageNotSaved(l)
    \/ StageSucceeds(l) \/ StageFails(l)
    \/ EndLoop(l)

Next == OperatorStep \/ \E l \in Loop : LoopStep(l)

Spec == Init /\ [][Next]_vars

(***************************************************************************)
(* Awaited saves and runner calls settle, and the event loop resumes what  *)
(* they resume.  Nothing is assumed of the operators.                      *)
(***************************************************************************)
FairSpec == Spec /\ \A l \in Loop : WF_vars(LoopStep(l))

-----------------------------------------------------------------------------
(* stageSnapshotForTask with taskStatusToStageStatus: a stage the loop has not *)
(* touched shows its task's status.                                          *)
MergedStatus(r, s) ==
    LET task == tasks[<<r, s>>].status
    IN  CASE stages[r][s].status # "pending" -> stages[r][s].status
          [] stages[r][s].status = "pending" /\ task = "assigned" -> "running"
          [] stages[r][s].status = "pending" /\ task = "blocked" -> "awaiting_approval"
          [] stages[r][s].status = "pending" /\ Coord!Terminal(task) -> task
          [] OTHER -> "pending"

(* statusFromStages *)
RunStatus(r) ==
    LET Some(st) == \E s \in Stage : MergedStatus(r, s) = st
    IN  CASE Some("cancelled") -> "cancelled"
          [] ~Some("cancelled") /\ Some("failed") -> "failed"
          [] \A s \in Stage : MergedStatus(r, s) = "completed" -> "completed"
          [] OTHER -> IF execution[r] \in {"failed", "cancelled"} THEN execution[r]
                      ELSE "running"

(* The loops past the semaphore. *)
Inside == {l \in Loop : loops[l].pc \in {"head", "saving", "calling", "ending"}}

(* The loops about to call, or calling, the runner. *)
AtStage(r, s) ==
    {l \in Loop : loops[l].pc \in {"saving", "calling"} /\ loops[l].run = r /\ loops[l].at = s}

(* Type invariant of the runs, their loops and the coordinator's maps; no      *)
(* stage counts more attempts than an explicit retry may reach.              *)
TypeOK ==
    /\ workers \in [StageTask -> Coord!WorkerRecord]
    /\ tasks \in [StageTask -> Coord!TaskRecord]
    /\ execution \in [Run -> Coord!ExecutionStatuses]
    /\ stages \in [Run -> [Stage -> [status : StageStatuses, attempts : 0..MostAttempts]]]
    /\ loops \in [Loop ->
          [pc : {"idle", "starting", "waiting", "head", "saving", "calling", "ending"},
           run : 0..NRuns, from : Stage, at : Plan..(Review + 1), retry : BOOLEAN,
           attempt : 0..MostAttempts, assignee : StageTask \cup {NoWorker}]]
    /\ calls \in 0..MaxCalls
    /\ succeeded \in [Run -> SUBSET Stage]
    /\ Slots!TypeOK

(* The approval gate of a run started with approvalRequired: whatever sequence *)
(* of cancellations, resumptions, retries and approvals by others, the runner  *)
(* is not called for its execute stage before a required approver approved it, *)
(* and until then the stage shows that it waits, or that it was cancelled      *)
(* (startObjective, _runLlmStages, approveTask).                              *)
ApprovalGate ==
    \A r \in GatedRuns \cap Started :
        tasks[<<r, Execute>>].approvedBy \notin RequiredApprovers =>
            /\ AtStage(r, Execute) = {}
            /\ MergedStatus(r, Execute) \in {"awaiting_approval", "cancelled"}

(* Stages run in order: a loop calls the runner for a stage only after the     *)
(* runner has succeeded for every stage from the one the loop began with, even *)
(* while other loops reset and repeat stages of the same run.                 *)
StagesInOrder ==
    \A l \in Loop :
        loops[l].pc \in {"saving", "calling"} =>
            loops[l].from..(loops[l].at - 1) \subseteq succeeded[loops[l].run]

(* A run, or its execution, that reports completion has had every stage         *)
(* succeed: neither the coordinator's tasks nor the stage map claims more.     *)
CompletionHonest ==
    \A r \in Run :
        RunStatus(r) = "completed" \/ execution[r] = "completed" =>
            succeeded[r] = Stage

(* No worker is left with the task of a stage that was settled: failures,       *)
(* exhausted attempts, late successes after a cancellation and stages run by   *)
(* several loops at once all give the worker back or retire it.                *)
SettledStageFreesWorker ==
    \A r \in Run, s \in Stage :
        stages[r][s].status \in {"completed", "failed"} =>
            workers[<<r, s>>].task = NoTask

(* The concurrency limit: never more loops between entry and end than the       *)
(* semaphore has slots, and each of them holds one (_runLlmStages).            *)
LoopsBounded ==
    /\ Cardinality(Inside) <= Slots!MaxConcurrentRuns
    /\ \A l \in Loop : l \in Inside <=> slot[l] = "holding"

(* Every call comes back: a loop that was started ends, whether its saves and   *)
(* runner calls succeed or fail, so no slot is kept for ever.                  *)
EveryLoopEnds == \A l \in Loop : loops[l].pc # "idle" ~> loops[l].pc = "idle"

(* documentation/swarm.md, Cancellation: "Tools in-flight finish their current *)
(* operation, then the run stops without proceeding to the next task."        *)
(* A loop that has run a stage of a cancelled run begins no further one.       *)
CancelledRunStops ==
    [][\A l \in Loop, s \in Stage :
          BeginStage(l, s) /\ loops[l].at > loops[l].from =>
              execution[loops[l].run] # "cancelled"]_vars
=============================================================================
