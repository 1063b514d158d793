# Verification of Colony's orchestration

TLA+ models, TLC runs and TLAPS proofs for the part of Colony (`src/`) that
decides what happens when several agents, operators and failures meet: the
coordinator and its worker registry, the swarm runtime that drives runs through
their stages, the journal the runs survive a restart in, the workflow engine with
its store, the approval of tool calls in the terminal console, and the failing
over of model calls between rate-limited providers.

`PROJECT.json` lists the components, runs, mutants, hazards, findings, theorems
and, for every definition that models code, the lines it models.

## 1. The system

Colony is a single-process TypeScript program: no threads, but every `await` is
a point where other activations run. The components that keep state of their
own:

| component | state | operations | works with |
|---|---|---|---|
| worker registry (`agents/registry.ts`) | worker id → lifecycle state, current task | spawn, ready, start, pause, resume, complete, stop; an illegal transition fails the worker | called by coordinator and swarm |
| coordinator (`orchestrator/coordinator.ts`) | tasks (status, assignee, approval), fan-out executions, inter-agent messages | enqueue, claim, approve, complete, fail, fan-out, dispatch, cancel, fan-in, send, read | registry; budget and security policy |
| session budget (`llm/budget-gate.ts`) | tokens and dollars spent | canSpend, recordSpend | coordinator, workflow policy |
| swarm runtime, live runs (`orchestrator/swarm.ts`) | run → stage map (status, attempts), semaphore | startObjective, cancelRun, resumeRun, retryStage, the loop `_runLlmStages` | coordinator, registry, stage runner, store |
| swarm runtime, persisted runs (`orchestrator/swarm.ts`) | `_persistedSnapshots`, the journal file | loadPersistedRuns, cancel, resume, retry, `_runPersistedLlmStages` | stage runner, file system |
| workflow engine (`workflow/`) | run record per file: step statuses, attempts, checkpoints | start, approveStep, runUntilBlocked, the recipes' cancel | handlers, budget policy, file system |
| provider failover (`llm/failover-executor.ts`, `circuit-breaker.ts`) | breaker per provider, one set per agent loop | complete, stream | providers, rate limiter; called by the agent loop |
| rate limiter (`llm/rate-limiter.ts`) | token bucket per model, shared by all loops | tryConsume, waitForAvailability | provider failover |
| approval flow (`runtime/approval.ts`, `runtime/loop.ts`, `ui/use-colony-loop.ts`) | the request on display, one resolve function, rules per session, the kill switch of each loop | createRequest, evaluate, requestApproval, resolveApproval | agent loop, terminal UI, swarm stages |
| terminal UI (`ui/use-colony-loop.ts`) | active run, interrupt request, loop reference, queued prompt | submit, queue, cancel, clear, resume, the finally block | agent loop, approval flow, message queue |
| sidecar supervisor (`mcp/plugin-sidecar-supervisor.ts`) | record per server, restart count | start, stop, recordFailure, restart | child processes |
| audit trail (`security/audit-trail.ts`) | hash chain, file | append, verify | file system |
| message queue, sessions, the rest of the agent loop (`runtime/`) | queues, histories | – | UI, LLM, tools |
| daemon, gateway, channels, MCP, memory | – | I/O, parsing, rendering | all of the above |

How they interact in a swarm run: `startObjective` spawns three workers
(planner, worker, reviewer), starts a fan-out execution with one task per stage
and dispatches it, which assigns each task to the worker of its role, or blocks
the execute task if the run needs an approval. The stage loop takes a slot of
the semaphore and, stage after stage, saves the run, awaits the runner and
completes or fails the stage's task. Operators (the terminal UI at
`ui/use-colony-loop.ts:1018-1051`, the web UI at `daemon/web-ui.ts:207,243`) may
cancel, resume, retry and approve at any moment, also while loops are at work.
Every save appends a snapshot to the journal, from which a new process reloads
what the old one left.

In a console run, the UI builds an agent loop for the prompt and reads its events.
The loop calls the model through the failover executor, which waits for tokens of
the shared rate limiter, looks at the provider's circuit and tries the candidates
in order. For each tool call of the reply the loop asks for a decision: a rule of
the session gives it, or the operator through the dialog. The dialog and its
resolve function exist once, but swarm stages run agent loops too and take the
same resolve function without showing anything.

What is hard about it:

* **interleaving at awaits** – a loop reads task, worker and attempt before it
  awaits the runner and uses them afterwards; resume and retry start further
  loops on the same run; a load replaces the in-memory map by what it read
  before its await;
* **protocol sequences** – approvals re-queue tasks in any status, completions
  come late, twice or from the wrong worker, claims are made by busy workers;
* **partial failure** – any save or runner call may reject, and the slot must be
  released all the same;
* **crash and restart** – runs live on as journal lines, with operations the live
  run had (approval) missing;
* **shared references** – one resolve function, one loop reference and one interrupt
  flag for runs, stages and sessions that come and go at awaits;
* **time** – circuits and buckets are brought up to date only when somebody looks,
  and callers wait on timers of their own for tokens others may take;
* **limits** – concurrency slots, attempts, session budget, tokens.

What makes each component correct is stated by the properties of section 3; the
hazards behind them, at their lines, are in `PROJECT.json`.

## 2. Modules

| module | models |
|---|---|
| `RunSemaphore` | `_acquireRunSlot`, `_releaseRunSlot` and their callers; the state between the hand-over of a slot and the resumption of its new owner |
| `RunSemaphoreProofs` | its theorems |
| `AgentRegistry` | the registry's methods as functions on one worker's record |
| `CoordinatorOps` | the coordinator's operations as functions of task map, worker map and budget; task data that never changes are constants |
| `Coordinator`, `MCCoordinator` | the coordinator with its registry as a state machine: every public operation in any order |
| `CoordinatorProofs` | its theorems |
| `SwarmRuntime` | live runs: operators and up to `Loop` activations of `_runLlmStages`; composes `RunSemaphore` (as `Slots`) and `CoordinatorOps` (as `Coord`) |
| `SwarmProofs` | the theorems of `SwarmRuntime`; instantiates `RunSemaphoreProofs` |
| `SwarmRecovery`, `MCSwarmRecovery` | a persisted run: journal, memory, operations under way, crashes |
| `RecoveryProofs` | the theorems of `SwarmRecovery` |
| `WorkflowEngine`, `MCWorkflow` | a run of a workflow: its store, operations under way on copies of it, handlers, budget, crashes |
| `WorkflowDag` | abstract specification: a walk of the graph of steps, which `WorkflowEngine` implements |
| `WorkflowProofs` | its theorems for operations that may overlap, and the bound on attempts |
| `WorkflowSerialProofs` | its theorems for operations that do not overlap, the refinement of `WorkflowDag`, and what becomes of steps a process died on |
| `ToolApproval`, `MCToolApproval` | console runs and stage loops, tool batches, requests, the dialog, session rules, cancellation, the queued prompt, clearing and resuming sessions |
| `ToolApprovalProofs` | its theorems |
| `ProviderFailover`, `MCProviderFailover` | concurrent calls of loops: candidates, breakers, retries with backoff, streams, token buckets, time |
| `CircuitBreaker`, `TokenBucket` | abstract specifications: an eager circuit per loop and provider, an eager bucket, which `ProviderFailover` implements |
| `FailoverProofs` | the theorems of `ProviderFailover` |

Conventions. Ids are model values or numbers; texts, timestamps, summaries,
artifacts and logs are left out. "absent" is an id with no map entry. Operators
whose comment calls them a slip or a mistake are the mutants: plausible bugs,
each placed before the definition it would replace and used by nothing else.

**Atomicity.** JavaScript runs to completion between awaits, so a synchronous
method is one action. `dispatchFanOutExecution` claims once per listed worker;
it is one step per claim, with every other action disabled (`Idle`) until the
last. In `SwarmRuntime` a loop at pc `head` is inside a synchronous section
that may pass several stages; every other action waits for it (`Quiet`).

**RunSemaphore.** `slot[c]` is where caller `c` is: `idle`, `queued` (promise in
`_runQueue`), `granted` (counted in `_activeRunCount`, not resumed yet),
`holding`. `Acquire`, `Enter` and `Release` are the three moments of the code.

**Coordinator.** `tasks[t]` has status, assignee, `approvedBy` (the allowed
approval decision) and `awaiting` (`awaitingApproval` is set). Constants give a
task's approvers (`{}`: no approval policy; everybody: an approval policy without
`requiredApprover`), the workers of its role, the security policy's denials, its
priority, creation order and token estimate. A claim is computed as the code's
filter, sort and find do: the candidates the find passes over are blocked or
failed on the way (`Examined`, `TurnedDown`), the one it settles on is assigned
(`Chosen`) and charged.

**SwarmRuntime.** pc of a loop: `starting` (first save), `waiting` (for a slot),
`head`, `saving` (the running stage's snapshot), `calling` (runner), `ending`
(last save, then the finally block). Saves and runner calls succeed or fail by
choice. `calls` bounds what operators do; `succeeded` is a history variable that
remembers for which stages the runner returned.

**SwarmRecovery.** `journal` is the last line of the run, which is all a load
keeps; `memory` its entry in `_persistedSnapshots`; `act[c]` an operation under
way with the snapshot it works on. `Left` gives the snapshots a live run can
leave behind; `LeftHonest` assumes that one of them calls the run completed only
if its stages are, which is how `statusFromStages` computes a live run's status. A crash clears memory and operations, and may leave a line half
written, after which every load throws. `gate` and `succeeded` are history.

**WorkflowEngine.** `stored` is the run as a load returns it; `act[a]` an operation
(`runUntilBlocked`, `approveStep`, the recipes' `cancel`) with the copy it works on,
waiting for a save or for a handler; `next` says where the code goes on after the
save. Between two of these awaits an operation touches nothing but its copy (and
reads the budget), so the code in between is one step: `Proceed` is the way from
the head of the loop in `runUntilBlocked` to its next save, `Attempt` the same for
`_executeTaskStep`, `Caught` its catch clause. Validation is the assumption
`ValidDefinition`; `Kahn` is the topological order, one round (`Extended`) for each step. `durable` chooses between a run
in files (saves may be rejected, the process may die, a budget policy) and one in
memory (`WorkflowRecipeRuntime`, which adds the cancellation). `calls`, `done`,
`returned` and `disturbed` are history. `Dag` maps all this to `WorkflowDag`: a step is
started once its handler was called, and completion is reported while any copy of the
run, in the store or in an operation, says so.

**ToolApproval.** `loops[l].pc` is where the loop of a run or of a stage is: `preparing`
(the UI awaits the memory context), `thinking` (the model is called), `asking` (the
operator is), `recording` (the decision is being written to the audit trail),
`running` (tools), `capturing` and `final` (the finally block before and after its
await), `lost`. A run is lost when the memory context, saving it or the last capture of
the session is rejected (`PrepareFails`, `CaptureFails`): the first two awaits stand
before the try, the third inside the finally block, so what is left of that block never
runs, and the store keeps the run. The caller drops the promise (`void submit`), and the
model assumes that the process survives the unhandled rejection. `activeRun`, `storeRun`, `interrupted`, `loopRef`, `queued` are the references
and store fields of `useColonyLoop`; `pending` is what the dialog shows, `resolver`
whose answer it gives. A run's events reach the UI twice, and `told` and `settled`
are the ids it has handled. Each agent loop is its run's: a second prompt while one is
at work is queued. `seen`, `stopped`, `granted` and `strayed` are history: the requests
approved while they were themselves on display, whether an answer cancelled the run, the
signatures approved for a session in that way, and those that became a rule although
something else was on display, because a stage loop had taken the resolve function.
`Answer` fills `rules` as the code does, whatever was shown, and the history by what was.

**ProviderFailover.** Each loop has its own executor and therefore its own breakers;
the rate limiter is shared. `calls[l]` is the call under way: its place in the route
of candidates, its attempt, and what is left of its timer. Time is a `Tick` that moves
what is left of timers and cooldowns and what has passed since a refill; absolute times
never matter. Breakers and buckets are brought up to date by whoever looks (`Looked`,
`Refill`), which is what the refinement mappings of `Breakers` and `Buckets` undo.
`streak` is history: failures of a provider since its last answer.

## 3. Runs

Passing runs, with the distinct states TLC finds:

| run | bounds | properties | states |
|---|---|---|---|
| `RunSemaphore` | 2 slots, 4 callers that come back for ever | TypeOK, SlotBound, WorkConserving, NoOvertaking, EveryQueuedRunStarts | 129 |
| `Coordinator` | 3 tasks (plain; approved by lead, cost 2; denied to w1, cost 3), 2 workers, 1 execution, budget 4, dispatches of up to 2 workers | TypeOK, AssignedIsHeld, ApprovalGate, PlainTaskHolder, BudgetKept, CompletedExecutionRan, PlainTaskSettlesOnce | 916 434 |
| `Swarm` | 1 run behind an approval, 2 loops, 1 slot, 4 operator calls, fairness | TypeOK, ApprovalGate, StagesInOrder, LoopsBounded, CompletionHonest, SettledStageFreesWorker, EveryLoopEnds | 248 784 |
| `Recovery` | 8 left-behind snapshots, 2 operations at once, 4 calls or crashes | TypeOK, GateOpensOnlyByRetry, CompletionHonest, CancelIsFinal | 487 541 |
| `Workflow` | 4 tasks and an approval, 2 operations at once, 5 in all, 2 crashes or failed saves, budget for each step once | TypeOK, DependenciesFirst, AttemptsBounded, BudgetKept, ReturnsBlocked, SucceedsOnce, SettledStays, WalksTheGraph | 2 081 665 |
| `ToolApproval` | 2 runs, 1 stage loop, batches of 1 or 2 calls, 1 signature denied, 1 further session, fairness | TypeOK, Consent, CancelAnswerStops, EveryRunEnds, StopsForGood | 803 922 |
| `Failover` | 2 loops on one bucket, one streams, one retries and fails over; threshold 2, cooldown 2, 1 retry, buckets of 2, fairness | TypeOK, BreakerSpec, BucketSpec, EveryCallEnds | 155 431 |

What they show:

* **RunSemaphore** – the limit holds at every moment of a hand-over, a free slot
  is never withheld from a waiter, hand-overs are in order of arrival, nobody
  starves.
* **Coordinator** – whatever is called in whatever order: an assigned task is in
  its assignee's hands or its assignee is retired; no task passes its approval
  gate unapproved; a plain task has one holder, is settled once, and no late or
  foreign completion makes a failed one completed; the budget holds although
  approvals queue tasks again and every claim is charged again; an execution
  fan-in calls completed had all its children assigned.
* **Swarm** – with loops of one run overlapping as
  resume and retry allow: the execute stage waits for its approver, stages run
  in order, attempts stay within the larger limit, completion is never claimed
  before every stage succeeded, a settled stage leaves no worker with its task,
  the concurrency limit holds, and every loop ends and gives its slot back.
* **Recovery** – loads, saves and loops of a persisted run may overlap and
  overwrite each other, and the process may die again; still the approval wait
  is only ever lost by a retry of the plan stage, no snapshot claims completion
  without it, attempts stay bounded, and a cancellation that was saved with
  nothing else under way is final.
* **Workflow** – whatever overlaps, dies or is rejected, the engine walks the graph as
  `WorkflowDag` says: handlers wait for their dependencies and approvals, approvals for
  theirs, and no copy of a run claims completion before it is due. While operations do not overlap, attempts are bounded across crashes, the
  budget covers repeated charges, and settled runs stay settled; without rejected
  saves no handler that returned is called again, crashes included; with neither
  crash nor rejected save, `runUntilBlocked` returns only runs that are settled or
  await an approval. The conditions are not slack: overlapping operations do lose
  updates, run a step twice and overspend; the save of a completed step stands
  inside the try clause, so its rejection counts as a failure of the handler, which
  is called and charged again; and a cancelled run that was awaiting an approval
  goes on when the approval is given, since `approveStep` asks only about the step.
* **ToolApproval** – no answer to one call of a run lets another call of a run
  through: a run executes a call only if it was shown and approved as shown, or its
  signature was so approved for the session, or (the run `ToolConsent` below) became
  a rule because a stage loop had taken the resolve function when the operator
  answered something else. The resolve function always belongs to the request its
  loop awaits; a cancelling answer in the middle of a batch ends its run although the
  rest of the batch is still asked for and run; a cancellation that comes once the
  loop is built is heard, and a loop told to stop stays told; undisturbed runs end,
  or are lost by a rejection. The conditions are real. Once sessions were resumed
  while prompts were on their way, two runs may be at work, and an answer to one may
  go to the other (three runs and two resumptions are enough, without a stage loop);
  `Consent` speaks of the time before. A stage loop that takes the resolve function
  leaves the run it took it from waiting (`Disturbed`). A cancellation while the
  memory context is awaited finds no loop to kill, although the run is active and
  `documentation/cli.md:17` says `/cancel` cancels the active run: it is forgotten, and
  the run calls the model (`Built` in `StopsForGood` leaves it out).
* **Failover** – the lazy circuits and buckets cannot be told from eager ones,
  however calls overlap: a circuit opens at the threshold or at the first failure
  after its cooldown, closes only on a success, and every cooldown ends, whatever is
  called meanwhile; no token is lost or given twice; every call returns or throws.

Runs that find a violation (`findings` in `PROJECT.json`):

* `SwarmCancel` / CancelledRunStops – `documentation/swarm.md:91` says a cancelled
  run "stops without proceeding to the next task"; the loop does not look at the
  cancellation and goes on.
* `RecoveryApproval` / ExecuteNeedsApproval – `documentation/swarm.md:122` says the
  execute stage "requires explicit approval before starting"; retrying the plan
  stage of a persisted run resets the wait, and execute runs unapproved.
* `WorkflowCrash` / CrashedRunResumes – `docs/PARITY_EXECUTION_BOARD.md:315` speaks
  of "crash-resume from durable store"; a crash during a handler leaves its step
  `running` in the store, which no later `runUntilBlocked` ever picks up: it returns
  the run as `running` without doing anything.
* `ToolConsent` / ApprovedAsShown – `documentation/security.md:168` says mutating tool
  calls "require operator approval"; `resolveApproval` gives the answer to the request
  on display to whoever stored the resolve function last. While a run's call is on
  display, a stage's call that was never shown is approved and executed, and an
  approval for the session makes a rule of its signature.
* `FailoverStream` / OpensAfterFailures – `docs/COLONY_BIBLE.md:273` says the circuit
  opens after 3 consecutive failures; `stream` records a success before it asks the
  provider, so the failures of streams never add up.

**Bounds and why they are enough.** Four callers on two slots give hand-overs
between callers that overlap and a queue of two, the least that shows overtaking.
The coordinator's three tasks differ in every policy the claim looks at, so one
claim may pass over, block, fail and assign; two workers are a right and a wrong
one for any task. It needs no counter bound: task ids and executions are finite,
and the spend is bounded by the property itself. Two loops on one run are one
more than the code expects, and for one slot one of them waits while the other
is at work. The call bounds (4 each) cover cancel–resume–retry–approve sequences and
a load followed by three retries, which is what exhausts the larger attempt limit
of 3. `MANUAL_RETRY_ATTEMPT_LIMIT` is 5 in the code and a constant of the model;
the runs use 2 and 3 so that both limits are reached. The workflow has a step before
the approval, one beside it, one behind it and one that joins the two, two of them
with a second attempt; five operations are a first run, the approval, a second run
and two that overlap with them or follow a crash; two faults are a crash and a
rejected save, or two of either. In the console two runs are the one at work and the
queued one, or the two a resumed session lets overlap; one stage loop suffices to
take the dialog away; a batch of two has a call before and one behind the cancelling
answer; one further session is one that is cleared to, or resumed. For the failover
one loop streams and one retries and has a second candidate, both on one bucket; a
threshold and a cooldown of 2 tell a count from a flag, and a
bucket of one call's cost makes every second caller wait. The swarm, workflow and
console runs reach their final states when their bounds run out, hence
`CHECK_DEADLOCK FALSE` there.

**Fairness.** `EveryQueuedRunStarts` and `EveryLoopEnds` assume weak fairness of
each caller's own steps: a resolved promise is resumed by the event loop, an
awaited save or runner call settles (either way), and the finally block runs.
Nothing is assumed of operators: nobody has to approve, retry or resume. That a
runner call settles is the runner's contract (`SwarmStageRunner`); one that hangs
keeps its slot, in the code as in the model without fairness. `EveryRunEnds` assumes
in addition that an operator who is shown a request sooner or later answers it, which
is what the dialog waits for; it counts lost runs as over, since no fairness brings
them back. `EveryCallEnds` assumes of each loop that its timers and
provider calls settle (providers have timeouts) and that time goes on (`Tick`); so does
the part of `BreakerSpec` that says every cooldown ends.

**Mutants.** Every property of a passing run has a mutant in `PROJECT.json`: a
definition replaced by a slip after which TLC finds the property violated.

## 4. Proofs

`RunSemaphoreProofs` – for every finite set of callers and every requested limit:
type correctness, SlotBound, WorkConserving, NoOvertaking. The code's counter and
queue know nothing of owners, so the bound is not inductive by itself. `SemInv`
adds that the counter is the number of owners, that the queue lists exactly the
queued callers and each of them once, and that nobody waits while a slot is free.
Preservation is proved action by action (`AcquireSemInv`, `EnterSemInv`,
`ReleaseSemInv`); the cardinality facts come from `FiniteSetTheorems`. The
assumptions are `RequestedMaxIsInt` and `CallerIsFinite`.

`CoordinatorProofs` – for all sets of tasks, workers, persons, executions, any
policies, priorities, costs and budget: the type invariant and AssignedIsHeld,
ApprovalGate, PlainTaskHolder, BudgetKept, CompletedExecutionRan. `CoordInv`
strengthens them: only running and paused workers hold a task; a plain task that
is held is assigned or was failed over its holder's head, so it is not in the
queue for others to claim; only approvers are recorded as approving; an assigned
or completed task has an assignee. The heart is the claim: `ChosenUnique` (the
order of the scan is strict, so at most one task is assigned) and `ClaimEffect`
describe what a claim does to tasks and workers, and `ClaimInv` serves both
`ClaimNextTask` and every step of a dispatch. PlainTaskSettlesOnce follows from
the same invariant: only an approval ever makes a settled task claimable again.
Three results no run checks complete the picture: RetiredWorkersStayAway (by the
transitions of the registry, failed and stopped workers never come back), TasksGoToWhoSuits (a task is only ever in
the hands of a worker of its role whom the policy does not deny it) and
FailedExecutionsStayFailed (fan-in calls failed only what is, and what is failed never
becomes completed by a later collection). Assumptions:
`CoordinatorConstants`, `NoTaskIsNoTask`, `NoExecutionIsNone`, `MaxListedIsNat`.
TLC evaluates the assumptions in the passing runs.

`SwarmProofs` – for any number of runs, loops, slots, attempts and operator calls: type
correctness, ApprovalGate, StagesInOrder, LoopsBounded, CompletionHonest,
SettledStageFreesWorker. `Inv` has a part per concern: `SlotsInv` is the semaphore's
`SemInv`, whose lemmas are those of `RunSemaphoreProofs` with loops for callers, so that
a loop's step has only to be shown to be a semaphore step or a stutter; `LoopsInv` says
of each loop (`LoopOK`) that the stages behind it succeeded and that behind an approval
it executes only once that was given; `StagesInv` says of each stage (`StageOK`), of its
worker, its task and its entry in the stage map, that a worker with a task runs a stage
which is not settled, that what is called completed succeeded, and that an approval still
to be given blocks an execute stage nobody has begun; `RunsInv` speaks of the executions
and of runs that have not started. SlotsImplement is the refinement: the runtime
implements `RunSemaphore` with loops for callers, and LoopsInTurn carries NoOvertaking over.
NothingIsRedone says what a retry does not do: a task without an approval that failed or
was cancelled stays so, and its execution does not become completed, although the stage it
stands for may succeed. Assumptions: `SwarmConstants`.

`RecoveryProofs` – for any operations under way, calls and crashes, and any snapshots
left behind: type correctness, GateOpensOnlyByRetry, CompletionHonest, CancelIsFinal.
`Inv` says the same of every copy of the snapshot, in the journal, in memory and in each
operation (`SnapshotOK`): what it calls completed succeeded, and while the gate is shut
its execute stage waits or the run is cancelled; an operation that runs stages never
works on a cancelled copy (`WorkingOK`), since the code asks before it starts.
TornJournalsStayShut: once a line is torn, nothing of the run is in memory or under way
and the journal never changes again. Assumptions: `RecoveryConstants`, `LeftHonest`.

`WorkflowProofs` – for every valid definition, every catalog of handlers, budget,
number of overlapping operations and of faults: type correctness,
DependenciesFirst, CompletionHonest, AttemptsBounded. `WorkflowInv` says of every
copy of the run, in the store or in an operation (`GoodRun`), that what it calls
completed was done and that a pending step has an attempt left, and of an operation
at work on a step (`GoodOp`) that it chose the step with its dependencies done. Each
operator of the engine is shown to preserve `GoodRun` or `GoodOp` first
(`MarkedIsGood` to `CaughtIsGood`); the actions follow. AttemptsBounded needs more
(`CountInv`): the store counts attempts, not calls, and while nothing overlaps each
call is counted, in the store and in the only copy, before it is made. Assumptions:
`ValidDefinition`, `WorkflowConstants`.

`WorkflowSerialProofs` – in the same generality, BudgetKept, SettledStays, SucceedsOnce
and ReturnsBlocked. `SerialSteps` says what a step may do as long as operations have not
overlapped: there is one copy, and the store is that copy or the one before its save. The
four invariants rest on it: the spend is covered by the attempts counted (`BudgetInv`), a
settled store has no operation at work, and a run that waits for an approval is paused
and waits for one only (`SettledInv`), what is done is pending in no copy, so that nobody
chooses it again (`OnceInv`), and at the head of the loop every step is pending or
completed (`ReturnInv`). ReturnsBlocked needs that some pending step is runnable, hence
`NoCycle`: if the topological order lists every step, any set of steps has one that
depends on no other of the set, the one listed first. The library's induction theorems
cannot be used here; least elements (`LeastOf`, from `WFMin`) take their place. They also
give OrderIsTopological: `Order`, which stands for `topologicalOrder`, lists every step
once and each after what it depends on, for every acyclic definition.

Two more hold whatever overlaps. EngineWalksTheGraph is the refinement of `WorkflowDag`:
`WorkflowInv` says nothing of approvals that are awaited, so `DagInv` adds that a step
waits for its approval, in any copy, only when its dependencies are done, and that a
handler which returned had been called; `Walks` then says of each action that it is a
start, a finish, a report or a stutter. NobodyTakesUpAbandonedSteps generalises the
finding of `WorkflowCrash`: a step that every copy shows as running while nobody is at work
on it stays so for ever, its handler is not called and its run never completed.

`ToolApprovalProofs` – for any number of prompts, stage loops, sessions and turns, any
batches and policies: type correctness, Consent, CancelAnswerStops. `Inv` bounds what a
loop's own record may hold (`LoopOK`), that ids which were handled belong to past requests
(`ToldOK`), that the resolver is its loop's (`ResolverOK`), and, until a session is resumed,
that one run at most is alive and the dialog shows the request the resolver answers
(`ConsentInv`); hence an answer that makes a rule was given to what was on display, or a
stage loop took it. NoRequestWaitsUnseen is the safety half of EveryRunEnds: undisturbed,
a run that asks is on display and has the resolver. BuiltLoopsHearCancel is StopsForGood:
until a session is resumed a cancellation reaches every run whose loop was built by then
(`KillInv`: the one reference holds it), and a loop told to stop, however it was told, does
not call the model again. LostBlocks says what a lost run costs: as it stays the store's,
no prompt is run and no session resumed after it. Assumptions: `ToolApprovalConstants`,
`NoRequestIsNone`.

`FailoverProofs` – for any loops, providers, models, routes, thresholds, cooldowns and
buckets: type correctness, which is inductive as it stands, and the refinements
BreakersImplement (the safety part of BreakerSpec) and BucketsImplement. `CountInv`
relates a breaker's count to the failures since the provider's last answer: never above
them, and equal in loops that do not stream. Hence WholeRepliesOpenTheCircuit, which
delimits the finding of `FailoverStream`, and NoCircuitOpensEarly. Assumptions:
`ProviderFailoverConstants`.

Every invariant and action property of the passing runs is proved. Only model-checked, on
the bounds above, is liveness, which is beyond the prover: EveryQueuedRunStarts,
EveryLoopEnds, EveryRunEnds, EveryCallEnds and the end of cooldowns in BreakerSpec.

## 5. Not modelled

* Inter-agent messages of the coordinator; the dollar limit of the budget.
* `coordinator_only` runs (their loop does not exist) and a runtime without a
  stage runner; `createAgentLoopSwarmStageRunner`, which the runtime sees as a call
  that returns or throws.
* Normalisation of snapshots and journal records, retry history, artifacts.
* In `SwarmRecovery`: other runs (they share only file and semaphore) and the
  slot a persisted loop waits for (a wait of any length, as `Recovery` allows).
* In `WorkflowEngine`: artifacts, checkpoints, hooks and summaries, which no guard
  reads; other runs, with which a run shares only the budget; a store file half
  written by two saves at once, after which loads throw.
* In `ToolApproval`: the AUDIT verdict and wildcard policies, which the console's
  castes do not use; replacing the queued prompt (only its text changes) and the window
  in which the message queue refuses a prompt it already took; compaction, hooks,
  budgets and timeouts of the loop.
* A circuit's promise of "one probe" after its cooldown (`circuit-breaker.ts:9`,
  `docs/COLONY_BIBLE.md:274`): `CircuitBreaker` says when a circuit opens and closes, not
  how many requests pass. The code does not keep it: `complete` goes on with its attempts
  after the probe failed and opened the circuit again (`Retry` models that).
* In `ProviderFailover`: what a stream that broke has already yielded; reset and
  configuration of breakers and buckets, which the program does not call; failover
  events and the last successful candidate, which are for display.
* The sidecar supervisor (start, stop, failure and restart racing each other) and the
  audit trail (chain order against append order): real state machines, but a further
  run and its properties would have to take the place of one above.
* The remaining components of section 1, for the reasons in `PROJECT.json`: dominated by
  I/O, parsing and formatting.

## 6. Plan

Done: every module of section 2, with runs, and proofs of every invariant, action
property and refinement the passing runs check.

Left, in this order:

1. `SidecarSupervisor`: restart limit, at most one owned session per server, in place of a
   run that a theorem makes dispensable.
2. The coordinator's messages (send, read), and `AuditTrail` with the sidecar supervisor.
