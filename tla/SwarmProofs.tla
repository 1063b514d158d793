---------------------------- MODULE SwarmProofs ----------------------------
(***************************************************************************)
(* The swarm runtime for any number of runs, stage loops, slots, attempts   *)
(* and operator calls: loops stay within the semaphore, stages run in order, *)
(* the approval gate holds, completion is honest, and settled stages leave   *)
(* no worker behind.                                                        *)
(*                                                                         *)
(* The semaphore's part is not proved again: its lemmas are instances of    *)
(* those of RunSemaphoreProofs.                                             *)
(***************************************************************************)
EXTENDS SwarmRuntime, FiniteSetTheorems, TLAPS

Sem == INSTANCE RunSemaphoreProofs WITH Caller <- Loop

LoopRecord ==
    [pc : {"idle", "starting", "waiting", "head", "saving", "calling", "ending"},
     run : 0..NRuns, from : Stage, at : Plan..(Review + 1), retry : BOOLEAN,
     attempt : 0..MostAttempts, assignee : StageTask \cup {NoWorker}]

(* A loop works on a run that was started, has behind it only stages that       *)
(* succeeded (done), and knows the assignee of its stage; on an execute stage   *)
(* behind an approval it works only once that was given.                      *)
LoopOK(rec, started, ts, done) ==
    /\ rec \in LoopRecord
    /\ rec.pc # "idle" => rec.run \in started
    /\ rec.pc \in {"head", "saving", "calling"} =>
          /\ rec.from <= rec.at
          /\ rec.from..(rec.at - 1) \subseteq done[rec.run]
    /\ rec.pc \in {"saving", "calling"} =>
          /\ rec.at \in Stage
          /\ rec.assignee = ts[<<rec.run, rec.at>>].assignee
          /\ rec.run \in GatedRuns /\ rec.at = Execute =>
                ts[<<rec.run, Execute>>].approvedBy \in RequiredApprovers

LoopsInv ==
    /\ loops \in [Loop -> LoopRecord]
    /\ \A l \in Loop : LoopOK(loops[l], Started, tasks, succeeded)

(* Where a loop is with respect to the semaphore *)
SlotOK(pc, where) ==
    /\ where = "idle" <=> pc \in {"idle", "starting"}
    /\ where \in {"queued", "granted"} <=> pc = "waiting"
    /\ where = "holding" <=> pc \in {"head", "saving", "calling", "ending"}

SlotsInv == Sem!SemInv /\ \A l \in Loop : SlotOK(loops[l].pc, slot[l])

StageRecord == [status : StageStatuses, attempts : 0..MostAttempts]

MapsTyped ==
    /\ workers \in [StageTask -> Coord!WorkerRecord]
    /\ tasks \in [StageTask -> Coord!TaskRecord]
    /\ execution \in [Run -> Coord!ExecutionStatuses]
    /\ stages \in [Run -> [Stage -> StageRecord]]
    /\ calls \in 0..MaxCalls
    /\ succeeded \in [Run -> SUBSET Stage]

(* A worker that has a task runs, is its assignee, and its stage is not settled; *)
(* what is called completed succeeded; an approval that is still to be given   *)
(* blocks an execute stage nobody has begun.                                  *)
Held(worker, task, stage, t) ==
    worker.task # NoTask =>
        /\ worker.state = "running"
        /\ task.status = "assigned" /\ task.assignee = t
        /\ stage.status \notin {"completed", "failed"}

Waiting(task, stage) ==
    /\ task.status \in {"blocked", "cancelled"} /\ task.awaiting
    /\ stage.status \in {"pending", "awaiting_approval"} /\ stage.attempts = 0

StageOK(t, worker, task, stage, done, started) ==
    /\ Held(worker, task, stage, t)
    /\ task.assignee \in {t, NoWorker}
    /\ task.status = "completed" \/ stage.status = "completed" => t[2] \in done
    /\ t[1] \in GatedRuns /\ started /\ t[2] = Execute =>
          /\ task.assignee = NoWorker
          /\ task.approvedBy \notin RequiredApprovers => Waiting(task, stage)

StagesInv ==
    \A r \in Run : \A s \in Stage :
        StageOK(<<r, s>>, workers[<<r, s>>], tasks[<<r, s>>], stages[r][s], succeeded[r],
                r \in Started)

RunsInv ==
    /\ \A r \in Run : execution[r] = "completed" => succeeded[r] = Stage
    /\ \A r \in Run \ Started : stages[r] = [s \in Stage |-> InitialStage]

Inv == LoopsInv /\ SlotsInv /\ MapsTyped /\ StagesInv /\ RunsInv

-----------------------------------------------------------------------------
LEMMA StageFacts ==
    /\ Stage = {1, 2, 3} /\ Plan = 1 /\ Execute = 2 /\ Review = 3
    /\ MostAttempts \in Nat /\ MaxAttempts \in 1..MostAttempts /\ RetryLimit \in 1..MostAttempts
  BY SwarmConstants DEF Stage, Plan, Execute, Review, MostAttempts

LEMMA LoopsFinite == Sem!IsFiniteSet(Loop)
  BY SwarmConstants DEF IsFiniteSet, Sem!IsFiniteSet

(* The steps of the semaphore *)
LEMMA SlotSteps ==
    ASSUME NEW l \in Loop, Sem!SemInv
    PROVE  /\ Slots!Acquire(l) => /\ Sem!SemInv'
                                  /\ slot[l] = "idle" /\ slot'[l] \in {"queued", "granted"}
                                  /\ \A k \in Loop \ {l} : slot'[k] = slot[k]
           /\ Slots!Enter(l) => /\ Sem!SemInv'
                                /\ slot[l] = "granted" /\ slot'[l] = "holding"
                                /\ \A k \in Loop \ {l} : slot'[k] = slot[k]
           /\ Slots!Release(l) => /\ Sem!SemInv'
                                  /\ slot[l] = "holding" /\ slot'[l] = "idle"
                                  /\ \A k \in Loop \ {l} :
                                        \/ slot'[k] = slot[k]
                                        \/ slot[k] = "queued" /\ slot'[k] = "granted"
           /\ UNCHANGED slotVars => Sem!SemInv'
<1>1. RequestedMax \in Int /\ Sem!IsFiniteSet(Loop)
  BY SwarmConstants, LoopsFinite
<1>2. slot \in [Loop -> Sem!SlotStates]
  BY DEF Sem!SemInv, Sem!TypeOK
<1>3. ASSUME Slots!Acquire(l)
      PROVE  /\ Sem!SemInv'
             /\ slot[l] = "idle" /\ slot'[l] \in {"queued", "granted"}
             /\ \A k \in Loop \ {l} : slot'[k] = slot[k]
  <2>1. Sem!Acquire(l)
    BY <1>3 DEF Slots!Acquire, Slots!HasFreeSlot, Slots!MaxConcurrentRuns,
                Sem!Acquire, Sem!HasFreeSlot, Sem!MaxConcurrentRuns
  <2>2. Sem!SemInv'
    BY <1>1, <2>1, Sem!AcquireSemInv
  <2> QED
    BY <1>2, <1>3, <2>2 DEF Slots!Acquire
<1>4. ASSUME Slots!Enter(l)
      PROVE  /\ Sem!SemInv'
             /\ slot[l] = "granted" /\ slot'[l] = "holding"
             /\ \A k \in Loop \ {l} : slot'[k] = slot[k]
  <2>1. Sem!Enter(l)
    BY <1>4 DEF Slots!Enter, Sem!Enter
  <2>2. Sem!SemInv'
    BY <1>1, <2>1, Sem!EnterSemInv
  <2> QED
    BY <1>2, <1>4, <2>2 DEF Slots!Enter
<1>5. ASSUME Slots!Release(l)
      PROVE  /\ Sem!SemInv'
             /\ slot[l] = "holding" /\ slot'[l] = "idle"
             /\ \A k \in Loop \ {l} :
                   slot'[k] = slot[k] \/ (slot[k] = "queued" /\ slot'[k] = "granted")
  <2>1. Sem!Release(l)
    BY <1>5 DEF Slots!Release, Slots!Decremented, Slots!NextWaiter, Slots!QueueAfterRelease,
                Sem!Release, Sem!Decremented, Sem!NextWaiter, Sem!QueueAfterRelease
  <2>2. Sem!SemInv'
    BY <1>1, <2>1, Sem!ReleaseSemInv
  <2>3. runQueue # <<>> => Head(runQueue) \in Loop /\ slot[Head(runQueue)] = "queued"
    BY DEF Sem!SemInv, Sem!TypeOK, Sem!QueueSound
  <2> QED
    BY <1>2, <1>5, <2>2, <2>3 DEF Slots!Release, Slots!NextWaiter
<1>6. UNCHANGED slotVars => Sem!SemInv'
  BY <1>1, Sem!StutterSemInv DEF slotVars, Sem!semVars
<1> QED
  BY <1>3, <1>4, <1>5, <1>6

(* A step that moves one loop *)
LEMMA SlotsMove ==
    ASSUME SlotsInv, loops \in [Loop -> LoopRecord], NEW l \in Loop, NEW rec,
           loops' = [loops EXCEPT ![l] = rec],
           \/ Slots!Acquire(l) /\ rec.pc = "waiting"
           \/ Slots!Enter(l) /\ rec.pc = "head"
           \/ Slots!Release(l) /\ rec.pc = "idle"
           \/ /\ UNCHANGED slotVars
              /\ \/ loops[l].pc \in {"idle", "starting"} /\ rec.pc \in {"idle", "starting"}
                 \/ /\ loops[l].pc \in {"head", "saving", "calling", "ending"}
                    /\ rec.pc \in {"head", "saving", "calling", "ending"}
    PROVE  SlotsInv'
<1>1. loops'[l] = rec /\ \A k \in Loop \ {l} : loops'[k] = loops[k]
  OBVIOUS
<1>2. CASE UNCHANGED slotVars
  <2>1. Sem!SemInv' /\ slot' = slot
    BY <1>2, SlotSteps DEF SlotsInv, slotVars
  <2>2. \/ Slots!Acquire(l) \/ Slots!Enter(l) \/ Slots!Release(l)
        \/ SlotOK(rec.pc, slot[l])
    BY DEF SlotsInv, SlotOK
  <2>3. ~(Slots!Acquire(l) \/ Slots!Enter(l) \/ Slots!Release(l))
    <3>1. slot'[l] = slot[l]
      BY <2>1
    <3> QED
      BY <3>1, SlotSteps DEF SlotsInv
  <2> QED
    BY <1>1, <2>1, <2>2, <2>3 DEF SlotsInv
<1>3. CASE Slots!Acquire(l) /\ rec.pc = "waiting"
  <2>1. Sem!SemInv' /\ slot'[l] \in {"queued", "granted"} /\ \A k \in Loop \ {l} : slot'[k] = slot[k]
    BY <1>3, SlotSteps DEF SlotsInv
  <2> QED
    BY <1>1, <1>3, <2>1 DEF SlotsInv, SlotOK
<1>4. CASE Slots!Enter(l) /\ rec.pc = "head"
  <2>1. Sem!SemInv' /\ slot'[l] = "holding" /\ \A k \in Loop \ {l} : slot'[k] = slot[k]
    BY <1>4, SlotSteps DEF SlotsInv
  <2> QED
    BY <1>1, <1>4, <2>1 DEF SlotsInv, SlotOK
<1>5. CASE Slots!Release(l) /\ rec.pc = "idle"
  <2>1. /\ Sem!SemInv' /\ slot'[l] = "idle"
        /\ \A k \in Loop \ {l} :
              slot'[k] = slot[k] \/ (slot[k] = "queued" /\ slot'[k] = "granted")
    BY <1>5, SlotSteps DEF SlotsInv
  <2> QED
    BY <1>1, <1>5, <2>1 DEF SlotsInv, SlotOK
<1> QED
  BY <1>2, <1>3, <1>4, <1>5

LEMMA SlotsStay == ASSUME SlotsInv, UNCHANGED <<loops, slotVars>> PROVE SlotsInv'
<1>1. Sem!SemInv'
  <2>1. RequestedMax \in Int /\ Sem!IsFiniteSet(Loop)
    BY SwarmConstants, LoopsFinite
  <2> QED
    BY <2>1, Sem!StutterSemInv DEF SlotsInv, slotVars, Sem!semVars
<1> QED
  BY <1>1 DEF SlotsInv, slotVars

(* What no step takes back from the other loops *)
Advances ==
    /\ Started \subseteq Started'
    /\ \A r \in Started :
          /\ succeeded[r] \subseteq succeeded'[r]
          /\ \A s \in Stage :
                /\ tasks'[<<r, s>>].assignee = tasks[<<r, s>>].assignee
                /\ tasks[<<r, s>>].approvedBy \in RequiredApprovers =>
                      tasks'[<<r, s>>].approvedBy \in RequiredApprovers

LEMMA LoopStays ==
    ASSUME Advances, NEW rec, LoopOK(rec, Started, tasks, succeeded)
    PROVE  LoopOK(rec, Started', tasks', succeeded')
  BY StageFacts DEF LoopOK, Advances

LEMMA LoopMoves ==
    ASSUME LoopsInv, Advances, NEW l \in Loop, NEW rec,
           loops' = [loops EXCEPT ![l] = rec],
           LoopOK(rec, Started', tasks', succeeded')
    PROVE  LoopsInv'
<1>1. loops'[l] = rec /\ \A k \in Loop \ {l} : loops'[k] = loops[k]
  BY DEF LoopsInv
<1>2. loops' \in [Loop -> LoopRecord]
  BY DEF LoopsInv, LoopOK
<1>3. \A k \in Loop : LoopOK(loops'[k], Started', tasks', succeeded')
  BY <1>1, LoopStays DEF LoopsInv
<1> QED
  BY <1>2, <1>3 DEF LoopsInv

LEMMA NothingMoves == ASSUME LoopsInv, Advances, loops' = loops PROVE LoopsInv'
  BY LoopStays DEF LoopsInv

(* Steps that change only a loop and its slot *)
LEMMA LoopOnly ==
    ASSUME Inv, NEW l \in Loop, NEW rec, loops' = [loops EXCEPT ![l] = rec],
           LoopOK(rec, Started, tasks, succeeded),
           \/ Slots!Acquire(l) /\ rec.pc = "waiting"
           \/ Slots!Enter(l) /\ rec.pc = "head"
           \/ Slots!Release(l) /\ rec.pc = "idle"
           \/ /\ UNCHANGED slotVars
              /\ \/ loops[l].pc \in {"idle", "starting"} /\ rec.pc \in {"idle", "starting"}
                 \/ /\ loops[l].pc \in {"head", "saving", "calling", "ending"}
                    /\ rec.pc \in {"head", "saving", "calling", "ending"},
           UNCHANGED <<coordVars, stages, succeeded>>, calls' \in 0..MaxCalls
    PROVE  Inv'
<1>1. SlotsInv'
  BY SlotsMove DEF Inv, LoopsInv
<1>2. Started' = Started /\ Advances
  BY DEF Advances, Started, coordVars
<1>3. LoopsInv'
  BY <1>2, LoopMoves DEF Inv, coordVars
<1>4. MapsTyped'
  BY DEF Inv, MapsTyped, coordVars
<1>5. StagesInv' /\ RunsInv'
  BY <1>2 DEF Inv, StagesInv, RunsInv, coordVars
<1> QED
  BY <1>1, <1>3, <1>4, <1>5 DEF Inv

LEMMA IdleLoopOK ==
    /\ IdleLoop \in LoopRecord /\ IdleLoop.pc = "idle"
    /\ LoopOK(IdleLoop, Started, tasks, succeeded)
<1>1. IdleLoop \in LoopRecord
  BY StageFacts, SwarmConstants DEF IdleLoop, LoopRecord
<1>2. IdleLoop.pc = "idle"
  BY DEF IdleLoop
<1> QED
  BY <1>1, <1>2 DEF LoopOK

(* A loop that is launched, and one that was started *)
LEMMA LaunchedOK ==
    ASSUME NEW r \in Run, NEW from \in Stage, NEW retry \in BOOLEAN, NEW started, NEW ts, NEW done,
           NEW pc \in {"waiting", "starting"}, r \in started,
           NEW rec,
           rec = [pc |-> pc, run |-> r, from |-> from, at |-> Plan, retry |-> retry,
                  attempt |-> 0, assignee |-> NoWorker]
    PROVE  LoopOK(rec, started, ts, done) /\ rec.pc = pc
<1>1. r \in 0..NRuns /\ 0 \in 0..MostAttempts /\ Plan \in Plan..(Review + 1)
  BY StageFacts, SwarmConstants DEF Run
<1>2. rec \in LoopRecord /\ rec.pc = pc /\ rec.run = r
  BY <1>1 DEF LoopRecord
<1> QED
  BY <1>2 DEF LoopOK

LEMMA LaunchSteps ==
    ASSUME Inv, NEW l \in Loop, NEW r \in Started, NEW from \in Stage, NEW retry \in BOOLEAN,
           Launch(l, r, from, retry)
    PROVE  \E rec : /\ loops' = [loops EXCEPT ![l] = rec] /\ rec.pc = "waiting"
                    /\ \A started, ts, done : r \in started => LoopOK(rec, started, ts, done)
<1>1. PICK rec : rec = [IdleLoop EXCEPT !.pc = "waiting", !.run = r, !.from = from,
                                        !.retry = retry]
  OBVIOUS
<1>2. loops' = [loops EXCEPT ![l] = rec]
  BY <1>1 DEF Launch
<1>3. rec = [pc |-> "waiting", run |-> r, from |-> from, at |-> Plan, retry |-> retry,
             attempt |-> 0, assignee |-> NoWorker]
  BY <1>1 DEF IdleLoop
<1>4. r \in Run /\ "waiting" \in {"waiting", "starting"}
  BY DEF Started
<1>5. ASSUME NEW started, NEW ts, NEW done, r \in started
      PROVE  LoopOK(rec, started, ts, done)
  BY <1>3, <1>4, <1>5, LaunchedOK
<1>6. rec.pc = "waiting"
  BY <1>3
<1> QED
  BY <1>2, <1>5, <1>6

LEMMA LoopOnlySteps ==
    ASSUME Inv, NEW l \in Loop,
           \/ StartSaved(l) \/ StartNotSaved(l) \/ EnterLoop(l)
           \/ CallRunner(l) \/ StageNotSaved(l) \/ EndLoop(l)
           \/ \E r \in Run : ResumeRun(l, r)
    PROVE  Inv'
<1>1. /\ loops \in [Loop -> LoopRecord] /\ loops[l] \in LoopRecord
      /\ LoopOK(loops[l], Started, tasks, succeeded)
      /\ calls \in 0..MaxCalls
  BY DEF Inv, LoopsInv, MapsTyped
<1>2. CASE StartSaved(l)
  <2>1. loops[l].run \in Run /\ loops[l].run \in Started /\ Plan \in Stage /\ FALSE \in BOOLEAN
    BY <1>1, <1>2, StageFacts DEF StartSaved, LoopOK, Started
  <2>2. Launch(l, loops[l].run, Plan, FALSE)
    BY <1>2 DEF StartSaved
  <2>3. PICK rec : /\ loops' = [loops EXCEPT ![l] = rec] /\ rec.pc = "waiting"
                   /\ LoopOK(rec, Started, tasks, succeeded)
    BY <2>1, <2>2, LaunchSteps
  <2> QED
    BY <1>1, <1>2, <2>2, <2>3, LoopOnly DEF StartSaved, Launch
<1>3. CASE StartNotSaved(l)
  BY <1>1, <1>3, IdleLoopOK, LoopOnly DEF StartNotSaved
<1>4. CASE EnterLoop(l)
  <2>1. PICK rec : rec = [loops[l] EXCEPT !.pc = "head", !.at = loops[l].from]
    OBVIOUS
  <2>2. rec \in LoopRecord
    <3>1. loops[l].from \in Plan..(Review + 1)
      BY <1>1, StageFacts DEF LoopRecord
    <3> QED
      BY <1>1, <2>1, <3>1 DEF LoopRecord
  <2>3. /\ rec.pc = "head" /\ rec.at = rec.from /\ rec.run = loops[l].run
        /\ rec.from \in {1, 2, 3}
    BY <1>1, <2>1, StageFacts DEF LoopRecord
  <2>4. rec.from..(rec.at - 1) = {}
    BY <2>3
  <2>5. LoopOK(rec, Started, tasks, succeeded)
    BY <1>1, <1>4, <2>2, <2>3, <2>4 DEF LoopOK, EnterLoop
  <2>6. loops' = [loops EXCEPT ![l] = rec]
    BY <1>1, <1>4, <2>1 DEF EnterLoop, LoopRecord
  <2> QED
    BY <1>1, <1>4, <2>3, <2>5, <2>6, LoopOnly DEF EnterLoop
<1>5. CASE CallRunner(l)
  <2>1. PICK rec : rec = [loops[l] EXCEPT !.pc = "calling"]
    OBVIOUS
  <2>2. /\ rec \in LoopRecord
        /\ rec.pc = "calling" /\ rec.at = loops[l].at /\ rec.from = loops[l].from
        /\ rec.run = loops[l].run /\ rec.assignee = loops[l].assignee
    BY <1>1, <2>1 DEF LoopRecord
  <2>3. LoopOK(rec, Started, tasks, succeeded)
    BY <1>1, <1>5, <2>2 DEF LoopOK, CallRunner
  <2>4. loops' = [loops EXCEPT ![l] = rec]
    BY <1>1, <1>5, <2>1 DEF CallRunner
  <2> QED
    BY <1>1, <1>5, <2>2, <2>3, <2>4, LoopOnly DEF CallRunner
<1>6. CASE StageNotSaved(l)
  BY <1>1, <1>6, IdleLoopOK, LoopOnly DEF StageNotSaved
<1>7. CASE EndLoop(l)
  BY <1>1, <1>7, IdleLoopOK, LoopOnly DEF EndLoop
<1>8. ASSUME NEW r \in Run, ResumeRun(l, r)
      PROVE  Inv'
  <2>1. r \in Started /\ Plan \in Stage /\ FALSE \in BOOLEAN /\ calls' \in 0..MaxCalls
    BY <1>1, <1>8, StageFacts, SwarmConstants DEF ResumeRun, Call
  <2>2. Launch(l, r, Plan, FALSE)
    BY <1>8 DEF ResumeRun
  <2>3. PICK rec : /\ loops' = [loops EXCEPT ![l] = rec] /\ rec.pc = "waiting"
                   /\ LoopOK(rec, Started, tasks, succeeded)
    BY <2>1, <2>2, LaunchSteps
  <2> QED
    BY <1>8, <2>1, <2>2, <2>3, LoopOnly DEF ResumeRun, Launch
<1> QED
  BY <1>2, <1>3, <1>4, <1>5, <1>6, <1>7, <1>8

-----------------------------------------------------------------------------
(* Every way a loop or an operator takes a worker from its task *)
LEMMA WorkerLetsGo ==
    ASSUME NEW w \in Coord!WorkerRecord, w.task # NoTask => w.state = "running",
           NEW new \in {Coord!FinishTask(w), Coord!FailedWorker(w), Coord!Stop(w)}
    PROVE  new \in Coord!WorkerRecord /\ new.task = NoTask
<1>1. /\ w.state \in Coord!WorkerStates /\ w.task \in StageTask \cup {NoTask}
      /\ w = [state |-> w.state, task |-> w.task]
  BY DEF Coord!WorkerRecord
<1>2. CASE w.state = "running"
  BY <1>1, <1>2 DEF Coord!FinishTask, Coord!FailedWorker, Coord!Stop, Coord!Pause,
        Coord!MoveFrom, Coord!Failed, Coord!WorkerRecord, Coord!WorkerStates
<1>3. CASE w.state # "running"
  BY <1>1, <1>3 DEF Coord!FinishTask, Coord!FailedWorker, Coord!Stop, Coord!Pause,
        Coord!MoveFrom, Coord!Failed, Coord!WorkerRecord, Coord!WorkerStates
<1> QED
  BY <1>2, <1>3

LEMMA StageStays ==
    ASSUME NEW t, NEW worker, NEW task, NEW stage, NEW done, NEW started, NEW later,
           StageOK(t, worker, task, stage, done, started), done \subseteq later
    PROVE  StageOK(t, worker, task, stage, later, started)
  BY DEF StageOK

(* A step that touches one stage of one started run *)
LEMMA OneStageMoves ==
    ASSUME StagesInv, NEW r \in Run, NEW s \in Stage, Started' = Started,
           \A q \in Run : succeeded[q] \subseteq succeeded'[q],
           \A q \in Run, u \in Stage :
              <<q, u>> # <<r, s>> => /\ workers'[<<q, u>>] = workers[<<q, u>>]
                                    /\ tasks'[<<q, u>>] = tasks[<<q, u>>]
                                    /\ stages'[q][u] = stages[q][u],
           StageOK(<<r, s>>, workers'[<<r, s>>], tasks'[<<r, s>>], stages'[r][s],
                   succeeded'[r], r \in Started)
    PROVE  StagesInv'
<1> SUFFICES ASSUME NEW q \in Run, NEW u \in Stage
             PROVE  StageOK(<<q, u>>, workers'[<<q, u>>], tasks'[<<q, u>>], stages'[q][u],
                            succeeded'[q], q \in Started')
  BY DEF StagesInv
<1>1. CASE <<q, u>> = <<r, s>>
  BY <1>1
<1>2. CASE <<q, u>> # <<r, s>>
  BY <1>2, StageStays DEF StagesInv
<1> QED
  BY <1>1, <1>2

(* collectFanIn tells completion only of tasks that are all completed. *)
LEMMA FanInFacts ==
    ASSUME NEW ts, NEW r \in Run
    PROVE  /\ Coord!FanInStatus(ts, TasksOf(r)) \in Coord!ExecutionStatuses \ {"absent"}
           /\ Coord!FanInStatus(ts, TasksOf(r)) = "completed" =>
                 \A s \in Stage : ts[<<r, s>>].status = "completed"
<1>1. \A s \in Stage : <<r, s>> \in TasksOf(r)
  BY DEF TasksOf
<1>2. \/ Coord!FanInStatus(ts, TasksOf(r)) \in {"cancelled", "failed", "running"}
      \/ /\ Coord!FanInStatus(ts, TasksOf(r)) = "completed"
         /\ \A t \in TasksOf(r) : ts[t].status = "completed"
  BY DEF Coord!FanInStatus
<1> QED
  BY <1>1, <1>2 DEF Coord!ExecutionStatuses

(* A loop that is done with its stages *)
LEMMA LoopIsEnding ==
    ASSUME Inv, Advances, NEW l \in Loop, loops[l].pc \in {"head", "calling"},
           loops' = [loops EXCEPT ![l].pc = "ending"], UNCHANGED slotVars
    PROVE  LoopsInv' /\ SlotsInv'
<1>1. /\ loops \in [Loop -> LoopRecord] /\ loops[l] \in LoopRecord
      /\ LoopOK(loops[l], Started, tasks, succeeded)
  BY DEF Inv, LoopsInv
<1>2. PICK rec : rec = [loops[l] EXCEPT !.pc = "ending"]
  OBVIOUS
<1>3. /\ rec \in LoopRecord /\ rec.pc = "ending" /\ rec.run = loops[l].run
      /\ loops' = [loops EXCEPT ![l] = rec]
  BY <1>1, <1>2 DEF LoopRecord
<1>4. loops[l].run \in Started'
  BY <1>1 DEF LoopOK, Advances
<1>5. LoopOK(rec, Started', tasks', succeeded')
  BY <1>3, <1>4 DEF LoopOK
<1>6. LoopsInv'
  BY <1>3, <1>5, LoopMoves DEF Inv
<1>7. SlotsInv'
  BY <1>1, <1>3, SlotsMove DEF Inv
<1> QED
  BY <1>6, <1>7

(* What the invariant says of one stage of a started run *)
LEMMA StageNow ==
    ASSUME Inv, NEW r \in Started, NEW s \in Stage, NEW t, t = <<r, s>>
    PROVE  /\ r \in Run /\ t \in StageTask /\ NoWorker \notin StageTask
           /\ MapsTyped /\ StagesInv /\ RunsInv
           /\ tasks[t] \in Coord!TaskRecord /\ workers[t] \in Coord!WorkerRecord
           /\ stages[r] \in [Stage -> StageRecord] /\ stages[r][s] \in StageRecord
           /\ StageOK(t, workers[t], tasks[t], stages[r][s], succeeded[r], TRUE)
<1>1. r \in Run
  BY DEF Started
<1>2. t \in StageTask
  BY <1>1 DEF StageTask
<1>3. MapsTyped /\ StagesInv /\ RunsInv
  BY DEF Inv
<1>4. StageOK(t, workers[t], tasks[t], stages[r][s], succeeded[r], r \in Started)
  BY <1>1, <1>3 DEF StagesInv
<1>5. tasks[t] \in Coord!TaskRecord /\ workers[t] \in Coord!WorkerRecord
  BY <1>2, <1>3 DEF MapsTyped
<1>6. stages[r] \in [Stage -> StageRecord]
  BY <1>1, <1>3 DEF MapsTyped
<1>7. stages[r][s] \in StageRecord
  BY <1>6
<1>8. NoWorker \notin StageTask
  BY SwarmConstants
<1> QED
  BY <1>1, <1>2, <1>3, <1>4, <1>5, <1>6, <1>7, <1>8

LEMMA FailStageInv ==
    ASSUME Inv, NEW l \in Loop, NEW r \in Started, NEW s \in Stage, NEW assignee,
           assignee = tasks[<<r, s>>].assignee,
           r \in GatedRuns /\ s = Execute => tasks[<<r, s>>].approvedBy \in RequiredApprovers,
           FailStage(r, s, assignee),
           loops[l].pc \in {"head", "calling"}, loops' = [loops EXCEPT ![l].pc = "ending"],
           UNCHANGED <<slotVars, calls, succeeded>>
    PROVE  Inv'
<1> DEFINE t == <<r, s>>
<1>1. /\ r \in Run /\ t \in StageTask /\ NoWorker \notin StageTask
      /\ MapsTyped /\ StagesInv /\ RunsInv
      /\ tasks[t] \in Coord!TaskRecord /\ workers[t] \in Coord!WorkerRecord
      /\ stages[r] \in [Stage -> StageRecord] /\ stages[r][s] \in StageRecord
      /\ StageOK(t, workers[t], tasks[t], stages[r][s], succeeded[r], TRUE)
  BY StageNow
<1>2. PICK task, worker :
         /\ tasks' = [tasks EXCEPT ![t] = task]
         /\ workers' = [workers EXCEPT ![t] = worker]
         /\ worker \in Coord!WorkerRecord /\ worker.task = NoTask
         /\ \/ task = tasks[t]
            \/ task = [tasks[t] EXCEPT !.status = "failed"]
  <2>1. CASE assignee = NoWorker
    <3>1. workers[t].task = NoTask
      BY <1>1, <2>1 DEF StageOK, Held
    <3>2. tasks' = tasks /\ workers' = workers
      BY <2>1 DEF FailStage
    <3>3. tasks' = [tasks EXCEPT ![t] = tasks[t]] /\ workers' = [workers EXCEPT ![t] = workers[t]]
      BY <1>1, <3>2 DEF MapsTyped
    <3> QED
      BY <1>1, <3>1, <3>3
  <2>2. CASE assignee # NoWorker
    <3>1. assignee = t
      BY <1>1, <2>2 DEF StageOK
    <3>2. PICK worker : worker = Coord!FailedWorker(workers[t])
      OBVIOUS
    <3>3. workers' = [workers EXCEPT ![t] = worker]
      BY <2>2, <3>1, <3>2 DEF FailStage, Coord!FailWorkers
    <3>4. tasks' = [tasks EXCEPT ![t] = [tasks[t] EXCEPT !.status = "failed"]]
      BY <1>1, <2>2 DEF FailStage, Coord!FailTasks
    <3>5. worker \in Coord!WorkerRecord /\ worker.task = NoTask
      BY <1>1, <3>2, WorkerLetsGo DEF StageOK, Held
    <3> QED
      BY <3>3, <3>4, <3>5
  <2> QED
    BY <2>1, <2>2
<1>3. /\ task \in Coord!TaskRecord
      /\ task.assignee = tasks[t].assignee /\ task.approvedBy = tasks[t].approvedBy
      /\ task.status = "completed" => tasks[t].status = "completed"
  <2>1. "failed" \in Coord!TaskStatuses
    BY DEF Coord!TaskStatuses
  <2> QED
    BY <1>1, <1>2, <2>1 DEF Coord!TaskRecord
<1>4. PICK stage : /\ stage = [stages[r][s] EXCEPT !.status = "failed"]
                   /\ stages' = [stages EXCEPT ![r] = [stages[r] EXCEPT ![s] = stage]]
  BY <1>1 DEF FailStage, MapsTyped
<1>5. stage \in StageRecord /\ stage.status = "failed"
  BY <1>1, <1>4 DEF StageRecord, StageStatuses
<1>6. PICK status : /\ status = Coord!FanInStatus(tasks', TasksOf(r))
                    /\ execution' = [execution EXCEPT ![r] = status]
  <2>1. tasks' = IF assignee = NoWorker THEN tasks ELSE Coord!FailTasks(tasks, t)
    BY DEF FailStage
  <2> QED
    BY <2>1 DEF FailStage, FanIn
<1>7. status \in Coord!ExecutionStatuses \ {"absent"}
  BY <1>1, <1>6, FanInFacts
<1>8. Started' = Started
  BY <1>1, <1>6, <1>7 DEF Started, MapsTyped
<1>9. \A q \in Run, u \in Stage :
         <<q, u>> # t => /\ workers'[<<q, u>>] = workers[<<q, u>>]
                         /\ tasks'[<<q, u>>] = tasks[<<q, u>>]
                         /\ stages'[q][u] = stages[q][u]
  <2> SUFFICES ASSUME NEW q \in Run, NEW u \in Stage, <<q, u>> # t
               PROVE  /\ workers'[<<q, u>>] = workers[<<q, u>>]
                      /\ tasks'[<<q, u>>] = tasks[<<q, u>>]
                      /\ stages'[q][u] = stages[q][u]
    OBVIOUS
  <2>1. <<q, u>> \in StageTask
    BY DEF StageTask
  <2> QED
    BY <1>1, <1>2, <1>4, <2>1 DEF MapsTyped
<1>10. /\ workers'[t] = worker /\ tasks'[t] = task /\ stages'[r][s] = stage
  BY <1>1, <1>2, <1>4 DEF MapsTyped
<1>11. StageOK(t, workers'[t], tasks'[t], stages'[r][s], succeeded'[r], r \in Started)
  BY <1>1, <1>2, <1>3, <1>5, <1>10 DEF StageOK, Held
<1>12. StagesInv'
  BY <1>1, <1>8, <1>9, <1>11, OneStageMoves
<1>13. MapsTyped'
  <2>1. tasks' \in [StageTask -> Coord!TaskRecord] /\ workers' \in [StageTask -> Coord!WorkerRecord]
    BY <1>1, <1>2, <1>3 DEF MapsTyped
  <2>2. stages' \in [Run -> [Stage -> StageRecord]]
    BY <1>1, <1>4, <1>5 DEF MapsTyped
  <2>3. execution' \in [Run -> Coord!ExecutionStatuses]
    BY <1>1, <1>6, <1>7 DEF MapsTyped
  <2> QED
    BY <1>1, <2>1, <2>2, <2>3 DEF MapsTyped
<1>14. Advances
  <2> SUFFICES ASSUME NEW q \in Started, NEW u \in Stage
               PROVE  /\ tasks'[<<q, u>>].assignee = tasks[<<q, u>>].assignee
                      /\ tasks'[<<q, u>>].approvedBy = tasks[<<q, u>>].approvedBy
    BY <1>8 DEF Advances
  <2>1. q \in Run
    BY DEF Started
  <2> QED
    BY <1>3, <1>9, <1>10, <2>1
<1>15. RunsInv'
  <2>1. status = "completed" => succeeded[r] = Stage
    <3>1. ASSUME status = "completed" PROVE succeeded[r] = Stage
      <4>1. \A u \in Stage : tasks'[<<r, u>>].status = "completed"
        BY <1>1, <1>6, <3>1, FanInFacts
      <4>2. \A u \in Stage : tasks[<<r, u>>].status = "completed"
        BY <1>1, <1>3, <1>9, <1>10, <4>1
      <4>3. \A u \in Stage : u \in succeeded[r]
        BY <1>1, <4>2 DEF StagesInv, StageOK
      <4> QED
        BY <1>1, <4>3 DEF MapsTyped
    <3> QED
      BY <3>1
  <2>2. \A q \in Run \ Started : stages'[q] = stages[q]
    BY <1>1, <1>4 DEF MapsTyped
  <2> QED
    BY <1>1, <1>6, <1>8, <2>1, <2>2 DEF RunsInv, MapsTyped
<1>16. LoopsInv' /\ SlotsInv'
  BY <1>14, LoopIsEnding
<1> QED
  BY <1>12, <1>13, <1>15, <1>16 DEF Inv

(* What the stage loop goes by *)
LEMMA HeadNow ==
    ASSUME Inv, NEW l \in Loop, loops[l].pc # "idle"
    PROVE  /\ loops \in [Loop -> LoopRecord] /\ loops[l] \in LoopRecord
           /\ LoopOK(loops[l], Started, tasks, succeeded)
           /\ loops[l].run \in Started /\ loops[l].run \in Run
<1>1. /\ loops \in [Loop -> LoopRecord] /\ loops[l] \in LoopRecord
      /\ LoopOK(loops[l], Started, tasks, succeeded)
  BY DEF Inv, LoopsInv
<1>2. loops[l].run \in Started
  BY <1>1 DEF LoopOK
<1> QED
  BY <1>1, <1>2 DEF Started

LEMMA GiveUpInv ==
    ASSUME Inv, NEW l \in Loop, NEW s \in Stage, GiveUp(l, s)
    PROVE  Inv'
<1>1. PICK r : r = loops[l].run
  OBVIOUS
<1>2. loops[l].pc = "head" /\ r \in Started
  BY <1>1, HeadNow DEF GiveUp
<1>3. PICK assignee : assignee = tasks[<<r, s>>].assignee
  OBVIOUS
<1>4. /\ FailStage(r, s, assignee)
      /\ loops' = [loops EXCEPT ![l].pc = "ending"]
      /\ UNCHANGED <<slotVars, calls, succeeded>>
  BY <1>1, <1>3 DEF GiveUp
<1>5. ASSUME r \in GatedRuns /\ s = Execute, tasks[<<r, s>>].approvedBy \notin RequiredApprovers
      PROVE  FALSE
  <2>1. StageOK(<<r, s>>, workers[<<r, s>>], tasks[<<r, s>>], stages[r][s], succeeded[r], TRUE)
    BY <1>2, StageNow
  <2>2. stages[r][s].attempts = 0
    BY <1>5, <2>1 DEF StageOK, Waiting
  <2>3. AttemptLimit(l) >= 1 /\ AttemptLimit(l) \in Nat
    BY StageFacts DEF AttemptLimit
  <2> QED
    BY <1>1, <2>2, <2>3 DEF GiveUp, Exhausted
<1> QED
  BY <1>2, <1>3, <1>4, <1>5, FailStageInv

LEMMA StageFailsInv ==
    ASSUME Inv, NEW l \in Loop, StageFails(l)
    PROVE  Inv'
<1>1. PICK r, s : r = loops[l].run /\ s = loops[l].at
  OBVIOUS
<1>2. loops[l].pc = "calling" /\ r \in Started /\ LoopOK(loops[l], Started, tasks, succeeded)
  BY <1>1, HeadNow DEF StageFails
<1>3. PICK assignee : assignee = loops[l].assignee
  OBVIOUS
<1>4. /\ FailStage(r, s, assignee)
      /\ loops' = [loops EXCEPT ![l].pc = "ending"]
      /\ UNCHANGED <<slotVars, calls, succeeded>>
  BY <1>1, <1>3 DEF StageFails
<1>5. /\ s \in Stage /\ assignee = tasks[<<r, s>>].assignee
      /\ r \in GatedRuns /\ s = Execute => tasks[<<r, s>>].approvedBy \in RequiredApprovers
  BY <1>1, <1>2, <1>3 DEF LoopOK
<1> QED
  BY <1>2, <1>4, <1>5, FailStageInv

LEMMA FinishStagesInv ==
    ASSUME Inv, NEW l \in Loop, FinishStages(l)
    PROVE  Inv'
<1>1. PICK r : r = loops[l].run
  OBVIOUS
<1>2. loops[l].pc = "head" /\ r \in Started /\ r \in Run
  BY <1>1, HeadNow DEF FinishStages
<1>3. PICK status : /\ status = Coord!FanInStatus(tasks, TasksOf(r))
                    /\ execution' = [execution EXCEPT ![r] = status]
  BY <1>1 DEF FinishStages, FanIn
<1>4. status \in Coord!ExecutionStatuses \ {"absent"}
  BY <1>2, <1>3, FanInFacts
<1>5. MapsTyped /\ StagesInv /\ RunsInv
  BY DEF Inv
<1>6. Started' = Started /\ UNCHANGED <<workers, tasks, stages, slotVars, calls, succeeded>>
  BY <1>2, <1>3, <1>4, <1>5 DEF Started, MapsTyped, FinishStages
<1>7. Advances
  BY <1>6 DEF Advances
<1>8. LoopsInv' /\ SlotsInv'
  BY <1>2, <1>6, <1>7, LoopIsEnding DEF FinishStages
<1>9. StagesInv'
  BY <1>5, <1>6 DEF StagesInv
<1>10. MapsTyped'
  BY <1>2, <1>3, <1>4, <1>5, <1>6 DEF MapsTyped
<1>11. RunsInv'
  <2>1. ASSUME status = "completed" PROVE succeeded[r] = Stage
    <3>1. \A u \in Stage : tasks[<<r, u>>].status = "completed"
      BY <1>2, <1>3, <2>1, FanInFacts
    <3>2. \A u \in Stage : u \in succeeded[r]
      BY <1>2, <1>5, <3>1 DEF StagesInv, StageOK
    <3> QED
      BY <1>2, <1>5, <3>2 DEF MapsTyped
  <2> QED
    BY <1>2, <1>3, <1>5, <1>6, <2>1 DEF RunsInv, MapsTyped
<1> QED
  BY <1>8, <1>9, <1>10, <1>11 DEF Inv

(* A step that changes only one entry of the stage map of a started run *)
LEMMA StageEntryMoves ==
    ASSUME Inv, NEW r \in Started, NEW s \in Stage, NEW stage \in StageRecord,
           stages' = [stages EXCEPT ![r] = [stages[r] EXCEPT ![s] = stage]],
           UNCHANGED <<coordVars, calls, succeeded>>,
           StageOK(<<r, s>>, workers[<<r, s>>], tasks[<<r, s>>], stage, succeeded[r], TRUE)
    PROVE  MapsTyped' /\ StagesInv' /\ RunsInv' /\ Advances
<1>1. r \in Run /\ MapsTyped /\ StagesInv /\ RunsInv /\ stages[r] \in [Stage -> StageRecord]
  BY StageNow
<1>2. /\ workers' = workers /\ tasks' = tasks /\ execution' = execution
      /\ calls' = calls /\ succeeded' = succeeded /\ Started' = Started
  BY DEF coordVars, Started
<1>3. stages' \in [Run -> [Stage -> StageRecord]]
  BY <1>1 DEF MapsTyped
<1>4. \A q \in Run, u \in Stage : <<q, u>> # <<r, s>> => stages'[q][u] = stages[q][u]
  BY <1>1 DEF MapsTyped
<1>5. stages'[r][s] = stage
  BY <1>1 DEF MapsTyped
<1>6. StagesInv'
  <2>1. StageOK(<<r, s>>, workers'[<<r, s>>], tasks'[<<r, s>>], stages'[r][s], succeeded'[r],
                r \in Started)
    BY <1>2, <1>5
  <2>2. \A q \in Run : succeeded[q] \subseteq succeeded'[q]
    BY <1>2
  <2>3. \A q \in Run, u \in Stage :
           <<q, u>> # <<r, s>> => /\ workers'[<<q, u>>] = workers[<<q, u>>]
                                 /\ tasks'[<<q, u>>] = tasks[<<q, u>>]
                                 /\ stages'[q][u] = stages[q][u]
    BY <1>2, <1>4
  <2> QED
    BY <1>1, <1>2, <2>1, <2>2, <2>3, OneStageMoves
<1>7. RunsInv'
  <2>1. \A q \in Run \ Started : stages'[q] = stages[q]
    BY <1>1 DEF MapsTyped
  <2> QED
    BY <1>1, <1>2, <2>1 DEF RunsInv
<1>8. MapsTyped'
  BY <1>1, <1>2, <1>3 DEF MapsTyped
<1>9. Advances
  BY <1>2 DEF Advances
<1> QED
  BY <1>6, <1>7, <1>8, <1>9

LEMMA StopForApprovalInv ==
    ASSUME Inv, NEW l \in Loop, NEW s \in Stage, StopForApproval(l, s)
    PROVE  Inv'
<1>1. PICK r : r = loops[l].run
  OBVIOUS
<1>2. loops[l].pc = "head" /\ r \in Started
  BY <1>1, HeadNow DEF StopForApproval
<1>3. /\ stages[r] \in [Stage -> StageRecord] /\ stages[r][s] \in StageRecord /\ MapsTyped
      /\ r \in Run
      /\ StageOK(<<r, s>>, workers[<<r, s>>], tasks[<<r, s>>], stages[r][s], succeeded[r], TRUE)
  BY <1>2, StageNow
<1>4. PICK stage : stage = [stages[r][s] EXCEPT !.status = "awaiting_approval"]
  OBVIOUS
<1>5. stages' = [stages EXCEPT ![r] = [stages[r] EXCEPT ![s] = stage]]
  BY <1>1, <1>3, <1>4 DEF StopForApproval, MapsTyped
<1>6. /\ stage \in StageRecord /\ stage.status = "awaiting_approval"
      /\ stage.attempts = stages[r][s].attempts
  BY <1>3, <1>4 DEF StageRecord, StageStatuses
<1>7. StageOK(<<r, s>>, workers[<<r, s>>], tasks[<<r, s>>], stage, succeeded[r], TRUE)
  BY <1>3, <1>6 DEF StageOK, Held, Waiting
<1>8. UNCHANGED <<coordVars, slotVars, calls, succeeded>>
  BY DEF StopForApproval
<1>9. MapsTyped' /\ StagesInv' /\ RunsInv' /\ Advances
  BY <1>2, <1>5, <1>6, <1>7, <1>8, StageEntryMoves
<1>10. LoopsInv' /\ SlotsInv'
  BY <1>2, <1>8, <1>9, LoopIsEnding DEF StopForApproval
<1> QED
  BY <1>9, <1>10 DEF Inv

(* The loop gets to a stage only past completed ones. *)
LEMMA BehindTheStage ==
    ASSUME Inv, NEW l \in Loop, NEW s \in Stage, loops[l].pc = "head", IsNext(l, s)
    PROVE  /\ loops[l].from <= s
           /\ loops[l].from..(s - 1) \subseteq succeeded[loops[l].run]
<1>1. /\ loops[l] \in LoopRecord /\ LoopOK(loops[l], Started, tasks, succeeded)
      /\ loops[l].run \in Run /\ loops[l].run \in Started
  BY HeadNow
<1>2. /\ loops[l].from \in 1..3 /\ loops[l].at \in 1..4 /\ s \in 1..3
      /\ loops[l].at <= s /\ loops[l].from <= loops[l].at
      /\ loops[l].from..(loops[l].at - 1) \subseteq succeeded[loops[l].run]
  <2>1. loops[l].from \in Stage /\ loops[l].at \in Plan..(Review + 1)
    BY <1>1 DEF LoopRecord
  <2>2. s \in loops[l].at..Review
    BY DEF IsNext, Open
  <2> QED
    BY <1>1, <2>1, <2>2, StageFacts DEF LoopOK
<1>3. \A u \in loops[l].at..(s - 1) : u \in succeeded[loops[l].run]
  <2> SUFFICES ASSUME NEW u \in loops[l].at..(s - 1)
               PROVE  u \in succeeded[loops[l].run]
    OBVIOUS
  <2>1. u \in Stage /\ u \in loops[l].at..Review /\ ~(s <= u)
    BY <1>2, StageFacts
  <2>2. stages[loops[l].run][u].status = "completed"
    BY <2>1 DEF IsNext, Open
  <2>3. StageOK(<<loops[l].run, u>>, workers[<<loops[l].run, u>>], tasks[<<loops[l].run, u>>],
                stages[loops[l].run][u], succeeded[loops[l].run], TRUE)
    BY <1>1, <2>1, StageNow
  <2> QED
    BY <2>2, <2>3 DEF StageOK
<1> QED
  BY <1>2, <1>3

LEMMA BeginStageInv ==
    ASSUME Inv, NEW l \in Loop, NEW s \in Stage, BeginStage(l, s)
    PROVE  Inv'
<1>1. PICK r : r = loops[l].run
  OBVIOUS
<1>2. /\ loops[l].pc = "head" /\ r \in Started
      /\ loops \in [Loop -> LoopRecord] /\ loops[l] \in LoopRecord
      /\ LoopOK(loops[l], Started, tasks, succeeded)
  BY <1>1, HeadNow DEF BeginStage
<1>3. /\ stages[r] \in [Stage -> StageRecord] /\ stages[r][s] \in StageRecord /\ MapsTyped
      /\ r \in Run /\ tasks[<<r, s>>] \in Coord!TaskRecord
      /\ StageOK(<<r, s>>, workers[<<r, s>>], tasks[<<r, s>>], stages[r][s], succeeded[r], TRUE)
  BY <1>2, StageNow
<1>4. PICK attempt : attempt = stages[r][s].attempts + 1
  OBVIOUS
<1>5. attempt \in 0..MostAttempts
  <2>1. AttemptLimit(l) \in 0..MostAttempts /\ stages[r][s].attempts \in 0..MostAttempts
    BY <1>3, StageFacts DEF AttemptLimit, StageRecord
  <2>2. ~(attempt > AttemptLimit(l))
    BY <1>1, <1>4 DEF BeginStage, Exhausted
  <2> QED
    BY <1>4, <2>1, <2>2, StageFacts
<1>6. ~tasks[<<r, s>>].awaiting
  BY <1>1 DEF BeginStage, AwaitsApproval
<1>7. r \in GatedRuns /\ s = Execute => tasks[<<r, s>>].approvedBy \in RequiredApprovers
  BY <1>3, <1>6 DEF StageOK, Waiting
<1>8. PICK stage : stage = [status |-> "running", attempts |-> attempt]
  OBVIOUS
<1>9. stages' = [stages EXCEPT ![r] = [stages[r] EXCEPT ![s] = stage]]
  BY <1>1, <1>3, <1>4, <1>8 DEF BeginStage, MapsTyped
<1>10. stage \in StageRecord /\ stage.status = "running"
  BY <1>5, <1>8 DEF StageRecord, StageStatuses
<1>11. StageOK(<<r, s>>, workers[<<r, s>>], tasks[<<r, s>>], stage, succeeded[r], TRUE)
  BY <1>3, <1>7, <1>10 DEF StageOK, Held
<1>12. UNCHANGED <<coordVars, slotVars, calls, succeeded>>
  BY DEF BeginStage
<1>13. MapsTyped' /\ StagesInv' /\ RunsInv' /\ Advances
  BY <1>2, <1>9, <1>10, <1>11, <1>12, StageEntryMoves
<1>14. PICK rec : rec = [loops[l] EXCEPT !.pc = "saving", !.at = s, !.attempt = attempt,
                                        !.assignee = tasks[<<r, s>>].assignee]
  OBVIOUS
<1>15. loops' = [loops EXCEPT ![l] = rec]
  BY <1>1, <1>4, <1>14 DEF BeginStage
<1>16. /\ rec.pc = "saving" /\ rec.at = s /\ rec.from = loops[l].from /\ rec.run = r
       /\ rec.assignee = tasks[<<r, s>>].assignee
       /\ rec \in LoopRecord
  <2>1. tasks[<<r, s>>].assignee \in StageTask \cup {NoWorker}
    BY <1>3 DEF Coord!TaskRecord
  <2>2. s \in Plan..(Review + 1)
    BY StageFacts
  <2> QED
    BY <1>1, <1>2, <1>5, <1>14, <2>1, <2>2 DEF LoopRecord
<1>17. rec.from <= rec.at /\ rec.from..(rec.at - 1) \subseteq succeeded[rec.run]
  BY <1>1, <1>2, <1>16, BehindTheStage DEF BeginStage
<1>18. LoopOK(rec, Started, tasks, succeeded)
  BY <1>2, <1>7, <1>16, <1>17 DEF LoopOK
<1>19. LoopOK(rec, Started', tasks', succeeded')
  BY <1>13, <1>18, LoopStays
<1>20. LoopsInv'
  BY <1>13, <1>15, <1>19, LoopMoves DEF Inv
<1>21. SlotsInv'
  <2>1. SlotsInv /\ UNCHANGED slotVars /\ rec.pc \in {"head", "saving", "calling", "ending"}
    BY <1>12, <1>16 DEF Inv
  <2> QED
    BY <1>2, <1>15, <2>1, SlotsMove
<1> QED
  BY <1>13, <1>20, <1>21 DEF Inv

LEMMA StageSucceedsInv ==
    ASSUME Inv, NEW l \in Loop, StageSucceeds(l)
    PROVE  Inv'
<1>1. PICK r, s, t : r = loops[l].run /\ s = loops[l].at /\ t = <<r, s>>
  OBVIOUS
<1>2. /\ loops[l].pc = "calling" /\ r \in Started
      /\ loops \in [Loop -> LoopRecord] /\ loops[l] \in LoopRecord
      /\ LoopOK(loops[l], Started, tasks, succeeded)
  BY <1>1, HeadNow DEF StageSucceeds
<1>3. PICK assignee : assignee = loops[l].assignee
  OBVIOUS
<1>4. /\ s \in Stage /\ assignee = tasks[t].assignee
      /\ r \in GatedRuns /\ s = Execute => tasks[t].approvedBy \in RequiredApprovers
  BY <1>1, <1>2, <1>3 DEF LoopOK
<1>5. /\ r \in Run /\ t \in StageTask /\ NoWorker \notin StageTask
      /\ MapsTyped /\ StagesInv /\ RunsInv
      /\ tasks[t] \in Coord!TaskRecord /\ workers[t] \in Coord!WorkerRecord
      /\ stages[r] \in [Stage -> StageRecord] /\ stages[r][s] \in StageRecord
      /\ StageOK(t, workers[t], tasks[t], stages[r][s], succeeded[r], TRUE)
  BY <1>1, <1>2, <1>4, StageNow
<1>6. PICK task, worker :
         /\ tasks' = [tasks EXCEPT ![t] = task]
         /\ workers' = [workers EXCEPT ![t] = worker]
         /\ worker \in Coord!WorkerRecord /\ worker.task = NoTask
         /\ \/ task = tasks[t]
            \/ task = [tasks[t] EXCEPT !.status = "failed"]
            \/ task = [tasks[t] EXCEPT !.status = "completed"]
  <2>1. CASE assignee = NoWorker
    <3>1. workers[t].task = NoTask
      BY <1>4, <1>5, <2>1 DEF StageOK, Held
    <3>2. tasks' = tasks /\ workers' = workers
      BY <1>3, <2>1 DEF StageSucceeds
    <3>3. tasks' = [tasks EXCEPT ![t] = tasks[t]] /\ workers' = [workers EXCEPT ![t] = workers[t]]
      BY <1>5, <3>2 DEF MapsTyped
    <3> QED
      BY <1>5, <3>1, <3>3
  <2>2. CASE assignee # NoWorker
    <3>1. assignee = t
      BY <1>4, <1>5, <2>2 DEF StageOK
    <3>2. tasks' = Coord!CompleteTasks(tasks, t, t) /\ workers' = Coord!CompleteWorkers(workers, tasks, t, t)
      BY <1>1, <1>3, <2>2, <3>1 DEF StageSucceeds
    <3>3. CASE Coord!IsAssignedTo(tasks, t, t)
      <4>1. tasks' = [tasks EXCEPT ![t] = [tasks[t] EXCEPT !.status = "completed"]]
        BY <1>5, <3>2, <3>3 DEF Coord!CompleteTasks
      <4>2. PICK worker : worker = Coord!FinishTask(workers[t])
        OBVIOUS
      <4>3. workers' = [workers EXCEPT ![t] = worker]
        BY <3>2, <3>3, <4>2 DEF Coord!CompleteWorkers
      <4>4. worker \in Coord!WorkerRecord /\ worker.task = NoTask
        BY <1>5, <4>2, WorkerLetsGo DEF StageOK, Held
      <4> QED
        BY <4>1, <4>3, <4>4
    <3>4. CASE ~Coord!IsAssignedTo(tasks, t, t)
      <4>1. tasks' = [tasks EXCEPT ![t] = [tasks[t] EXCEPT !.status = "failed"]]
        BY <1>5, <3>2, <3>4 DEF Coord!CompleteTasks
      <4>2. workers' = [workers EXCEPT ![t] = workers[t]]
        BY <1>5, <3>2, <3>4 DEF Coord!CompleteWorkers, MapsTyped
      <4>3. workers[t].task = NoTask
        BY <1>5, <3>4 DEF StageOK, Held, Coord!IsAssignedTo
      <4> QED
        BY <1>5, <4>1, <4>2, <4>3
    <3> QED
      BY <3>3, <3>4
  <2> QED
    BY <2>1, <2>2
<1>7. /\ task \in Coord!TaskRecord
      /\ task.assignee = tasks[t].assignee /\ task.approvedBy = tasks[t].approvedBy
  <2>1. "failed" \in Coord!TaskStatuses /\ "completed" \in Coord!TaskStatuses
    BY DEF Coord!TaskStatuses
  <2> QED
    BY <1>5, <1>6, <2>1 DEF Coord!TaskRecord
<1>8. PICK stage : stage = [status |-> "completed", attempts |-> loops[l].attempt]
  OBVIOUS
<1>9. stages' = [stages EXCEPT ![r] = [stages[r] EXCEPT ![s] = stage]]
  BY <1>1, <1>5, <1>8 DEF StageSucceeds, MapsTyped
<1>10. stage \in StageRecord /\ stage.status = "completed"
  <2>1. loops[l].attempt \in 0..MostAttempts
    BY <1>2 DEF LoopRecord
  <2> QED
    BY <1>8, <2>1 DEF StageRecord, StageStatuses
<1>11. /\ succeeded' = [succeeded EXCEPT ![r] = succeeded[r] \cup {s}]
       /\ UNCHANGED <<execution, slotVars, calls>> /\ Started' = Started
  BY <1>1, <1>5 DEF StageSucceeds, MapsTyped, Started
<1>12. /\ succeeded' \in [Run -> SUBSET Stage] /\ s \in succeeded'[r]
       /\ \A q \in Run : succeeded[q] \subseteq succeeded'[q]
  BY <1>4, <1>5, <1>11 DEF MapsTyped
<1>13. /\ workers'[t] = worker /\ tasks'[t] = task /\ stages'[r][s] = stage
       /\ \A q \in Run, u \in Stage :
             <<q, u>> # t => /\ workers'[<<q, u>>] = workers[<<q, u>>]
                             /\ tasks'[<<q, u>>] = tasks[<<q, u>>]
                             /\ stages'[q][u] = stages[q][u]
  <2>1. workers'[t] = worker /\ tasks'[t] = task /\ stages'[r][s] = stage
    BY <1>4, <1>5, <1>6, <1>9 DEF MapsTyped
  <2>2. ASSUME NEW q \in Run, NEW u \in Stage, <<q, u>> # t
        PROVE  /\ workers'[<<q, u>>] = workers[<<q, u>>]
               /\ tasks'[<<q, u>>] = tasks[<<q, u>>]
               /\ stages'[q][u] = stages[q][u]
    <3>1. <<q, u>> \in StageTask
      BY DEF StageTask
    <3> QED
      BY <1>1, <1>5, <1>6, <1>9, <2>2, <3>1 DEF MapsTyped
  <2> QED
    BY <2>1, <2>2
<1>14. StageOK(t, workers'[t], tasks'[t], stages'[r][s], succeeded'[r], r \in Started)
  BY <1>1, <1>4, <1>5, <1>6, <1>7, <1>10, <1>12, <1>13 DEF StageOK, Held
<1>15. StagesInv'
  <2>1. StageOK(<<r, s>>, workers'[<<r, s>>], tasks'[<<r, s>>], stages'[r][s], succeeded'[r],
                r \in Started)
    BY <1>1, <1>14
  <2>2. \A q \in Run, u \in Stage :
           <<q, u>> # <<r, s>> => /\ workers'[<<q, u>>] = workers[<<q, u>>]
                                 /\ tasks'[<<q, u>>] = tasks[<<q, u>>]
                                 /\ stages'[q][u] = stages[q][u]
    BY <1>1, <1>13
  <2> QED
    BY <1>4, <1>5, <1>11, <1>12, <2>1, <2>2, OneStageMoves
<1>16. MapsTyped'
  <2>1. tasks' \in [StageTask -> Coord!TaskRecord] /\ workers' \in [StageTask -> Coord!WorkerRecord]
    BY <1>5, <1>6, <1>7 DEF MapsTyped
  <2>2. stages' \in [Run -> [Stage -> StageRecord]]
    BY <1>5, <1>9, <1>10 DEF MapsTyped
  <2> QED
    BY <1>5, <1>11, <1>12, <2>1, <2>2 DEF MapsTyped
<1>17. RunsInv'
  <2>1. \A q \in Run \ Started : stages'[q] = stages[q]
    BY <1>2, <1>5, <1>9 DEF MapsTyped
  <2>2. \A q \in Run : succeeded[q] = Stage => succeeded'[q] = Stage
    BY <1>12
  <2> QED
    BY <1>5, <1>11, <2>1, <2>2 DEF RunsInv
<1>18. Advances
  <2> SUFFICES ASSUME NEW q \in Started
               PROVE  /\ succeeded[q] \subseteq succeeded'[q]
                      /\ \A u \in Stage : /\ tasks'[<<q, u>>].assignee = tasks[<<q, u>>].assignee
                                          /\ tasks'[<<q, u>>].approvedBy = tasks[<<q, u>>].approvedBy
    BY <1>11 DEF Advances
  <2>1. q \in Run
    BY DEF Started
  <2> QED
    BY <1>7, <1>12, <1>13, <2>1
<1>19. PICK rec : rec = [loops[l] EXCEPT !.pc = "head", !.at = s + 1]
  OBVIOUS
<1>20. loops' = [loops EXCEPT ![l] = rec]
  BY <1>1, <1>2, <1>19 DEF StageSucceeds
<1>21. /\ rec \in LoopRecord
       /\ rec.pc = "head" /\ rec.at = s + 1 /\ rec.from = loops[l].from /\ rec.run = r
  <2>1. s + 1 \in Plan..(Review + 1)
    BY <1>4, StageFacts
  <2> QED
    BY <1>1, <1>2, <1>19, <2>1 DEF LoopRecord
<1>22. rec.from <= rec.at /\ rec.from..(rec.at - 1) \subseteq succeeded'[r]
  <2>1. loops[l].from \in 1..3 /\ s \in 1..3
    BY <1>2, <1>4, StageFacts DEF LoopRecord
  <2>2. loops[l].from <= s /\ loops[l].from..(s - 1) \subseteq succeeded[r]
    BY <1>1, <1>2 DEF LoopOK
  <2>3. \A u \in loops[l].from..s : u = s \/ u \in loops[l].from..(s - 1)
    BY <2>1
  <2> QED
    BY <1>5, <1>12, <1>21, <2>1, <2>2, <2>3
<1>23. LoopOK(rec, Started', tasks', succeeded')
  BY <1>2, <1>11, <1>21, <1>22 DEF LoopOK
<1>24. LoopsInv'
  BY <1>18, <1>20, <1>23, LoopMoves DEF Inv
<1>25. SlotsInv'
  <2>1. SlotsInv /\ UNCHANGED slotVars /\ rec.pc \in {"head", "saving", "calling", "ending"}
    BY <1>11, <1>21 DEF Inv
  <2> QED
    BY <1>2, <1>20, <2>1, SlotsMove
<1> QED
  BY <1>15, <1>16, <1>17, <1>24, <1>25 DEF Inv

LEMMA RetryStageInv ==
    ASSUME Inv, NEW l \in Loop, NEW r \in Run, NEW s \in Stage, RetryStage(l, r, s)
    PROVE  Inv'
<1>1. /\ r \in Started /\ calls' \in 0..MaxCalls
      /\ UNCHANGED <<coordVars, succeeded>> /\ Launch(l, r, s, TRUE)
      /\ MapsTyped /\ StagesInv /\ RunsInv /\ LoopsInv /\ SlotsInv
  <2>1. MapsTyped /\ StagesInv /\ RunsInv /\ LoopsInv /\ SlotsInv
    BY DEF Inv
  <2>2. /\ r \in Started /\ calls < MaxCalls /\ calls' = calls + 1
        /\ UNCHANGED <<coordVars, succeeded>> /\ Launch(l, r, s, TRUE)
    BY DEF RetryStage, Call
  <2>3. calls \in 0..MaxCalls /\ MaxCalls \in Nat
    BY <2>1, SwarmConstants DEF MapsTyped
  <2>4. calls' \in 0..MaxCalls
    BY <2>2, <2>3
  <2> QED
    BY <2>1, <2>2, <2>4
<1>2. PICK map : map = Reset(stages[r], s)
  OBVIOUS
<1>3. /\ stages' = [stages EXCEPT ![r] = map] /\ stages[r] \in [Stage -> StageRecord]
  BY <1>1, <1>2 DEF RetryStage, MapsTyped
<1>4. \A u \in Stage :
         /\ map[u] \in StageRecord
         /\ map[u] = stages[r][u] \/ map[u].status = "pending"
         /\ stages[r][u].attempts = 0 => map[u].attempts = 0
  <2> SUFFICES ASSUME NEW u \in Stage
               PROVE  /\ map[u] \in StageRecord
                      /\ map[u] = stages[r][u] \/ map[u].status = "pending"
                      /\ stages[r][u].attempts = 0 => map[u].attempts = 0
    OBVIOUS
  <2>1. stages[r][u] \in StageRecord /\ u \in {1, 2, 3} /\ s \in {1, 2, 3}
    BY <1>3, StageFacts
  <2>2. /\ u < s => map[u] = stages[r][u]
        /\ u = s => map[u] = [status |-> "pending", attempts |-> stages[r][u].attempts]
        /\ u > s => map[u] = [status |-> "pending", attempts |-> 0]
    <3>1. CASE u < s
      BY <1>2, <2>1, <3>1 DEF Reset
    <3>2. CASE u = s
      BY <1>2, <2>1, <3>2 DEF Reset, InitialStage
    <3>3. CASE u > s
      BY <1>2, <2>1, <3>3 DEF Reset, InitialStage
    <3> QED
      BY <2>1, <3>1, <3>2, <3>3
  <2> QED
    BY <2>1, <2>2, StageFacts DEF StageRecord, StageStatuses
<1>5. map \in [Stage -> StageRecord]
  BY <1>2, <1>4 DEF Reset
<1>6. /\ workers' = workers /\ tasks' = tasks /\ execution' = execution
      /\ succeeded' = succeeded /\ Started' = Started /\ Advances
  BY <1>1 DEF coordVars, Started, Advances
<1>7. MapsTyped'
  BY <1>1, <1>3, <1>5, <1>6 DEF MapsTyped
<1>8. StagesInv'
  <2> SUFFICES ASSUME NEW q \in Run, NEW u \in Stage
               PROVE  StageOK(<<q, u>>, workers[<<q, u>>], tasks[<<q, u>>], stages'[q][u],
                              succeeded[q], q \in Started)
    BY <1>6 DEF StagesInv
  <2>1. StageOK(<<q, u>>, workers[<<q, u>>], tasks[<<q, u>>], stages[q][u], succeeded[q],
                q \in Started)
    BY <1>1 DEF StagesInv
  <2>2. CASE q = r
    <3>1. /\ stages'[q][u] = map[u]
          /\ map[u] = stages[q][u] \/ map[u].status = "pending"
          /\ stages[q][u].attempts = 0 => map[u].attempts = 0
      BY <1>1, <1>3, <1>4, <2>2 DEF MapsTyped
    <3> QED
      BY <2>1, <3>1 DEF StageOK, Held, Waiting
  <2>3. CASE q # r
    BY <1>3, <2>1, <2>3
  <2> QED
    BY <2>2, <2>3
<1>9. RunsInv'
  BY <1>1, <1>3, <1>6 DEF RunsInv
<1>10. PICK rec : /\ loops' = [loops EXCEPT ![l] = rec] /\ rec.pc = "waiting"
                  /\ LoopOK(rec, Started', tasks', succeeded')
  <2>1. r \in Started' /\ TRUE \in BOOLEAN
    BY <1>1, <1>6
  <2> QED
    BY <1>1, <2>1, LaunchSteps
<1>11. LoopsInv'
  BY <1>1, <1>6, <1>10, LoopMoves
<1>12. SlotsInv'
  BY <1>1, <1>10, SlotsMove DEF Launch, LoopsInv
<1> QED
  BY <1>7, <1>8, <1>9, <1>11, <1>12 DEF Inv

LEMMA CancelRunInv ==
    ASSUME Inv, NEW r \in Run, CancelRun(r)
    PROVE  Inv'
<1>1. /\ MapsTyped /\ StagesInv /\ RunsInv /\ LoopsInv /\ SlotsInv /\ NoWorker \notin StageTask
  BY SwarmConstants DEF Inv
<1>2. /\ r \in Started /\ calls < MaxCalls /\ calls' = calls + 1
      /\ execution' = [execution EXCEPT ![r] = "cancelled"]
      /\ UNCHANGED <<stages, loops, slotVars, succeeded>>
  BY DEF CancelRun, Call
<1>3. Started' = Started
  BY <1>1, <1>2 DEF Started, MapsTyped
<1>4. ASSUME NEW q \in Run, NEW u \in Stage, NEW t, t = <<q, u>>
      PROVE  /\ tasks'[t] \in Coord!TaskRecord /\ workers'[t] \in Coord!WorkerRecord
             /\ tasks'[t].assignee = tasks[t].assignee
             /\ tasks'[t].approvedBy = tasks[t].approvedBy
             /\ StageOK(t, workers'[t], tasks'[t], stages[q][u], succeeded[q], q \in Started)
  <2>1. /\ t \in StageTask /\ tasks[t] \in Coord!TaskRecord /\ workers[t] \in Coord!WorkerRecord
        /\ StageOK(t, workers[t], tasks[t], stages[q][u], succeeded[q], q \in Started)
    <3>1. t \in StageTask
      BY <1>4 DEF StageTask
    <3> QED
      BY <1>1, <1>4, <3>1 DEF MapsTyped, StagesInv
  <2>2. /\ tasks'[t] = IF t \in TasksOf(r) /\ ~Coord!Terminal(tasks[t].status)
                       THEN [tasks[t] EXCEPT !.status = "cancelled"] ELSE tasks[t]
        /\ \/ workers'[t] = workers[t]
           \/ workers'[t] = Coord!Stop(workers[t])
        /\ t \in TasksOf(r) /\ ~Coord!Terminal(tasks[t].status) /\ tasks[t].assignee = t =>
              workers'[t] = Coord!Stop(workers[t])
    <3>1. tasks' = Coord!CancelTasks(tasks, TasksOf(r)) /\ workers' = Coord!CancelWorkers(workers, tasks, TasksOf(r))
      BY DEF CancelRun
    <3>2. tasks'[t] = IF t \in TasksOf(r) /\ ~Coord!Terminal(tasks[t].status)
                      THEN [tasks[t] EXCEPT !.status = "cancelled"] ELSE tasks[t]
      BY <2>1, <3>1 DEF Coord!CancelTasks
    <3>3. workers'[t] = Coord!CancelledWorker(workers[t],
             {k \in TasksOf(r) : ~Coord!Terminal(tasks[k].status) /\ tasks[k].assignee = t})
      BY <2>1, <3>1 DEF Coord!CancelWorkers
    <3> QED
      BY <3>2, <3>3 DEF Coord!CancelledWorker
  <2>3. CASE q = r
    <3>1. t \in TasksOf(r)
      BY <1>4, <2>3 DEF TasksOf
    <3>2. CASE Coord!Terminal(tasks[t].status)
      <4>1. tasks'[t] = tasks[t] /\ workers[t].task = NoTask
        BY <2>1, <2>2, <3>2 DEF StageOK, Held, Coord!Terminal
      <4>2. workers'[t] \in Coord!WorkerRecord /\ workers'[t].task = NoTask
        BY <2>1, <2>2, <4>1, WorkerLetsGo
      <4> QED
        BY <2>1, <4>1, <4>2 DEF StageOK, Held
    <3>3. CASE ~Coord!Terminal(tasks[t].status)
      <4>1. /\ tasks'[t] = [tasks[t] EXCEPT !.status = "cancelled"]
            /\ "cancelled" \in Coord!TaskStatuses
        BY <2>2, <3>1, <3>3 DEF Coord!TaskStatuses
      <4>2. /\ tasks'[t] \in Coord!TaskRecord
            /\ tasks'[t].status = "cancelled" /\ tasks'[t].assignee = tasks[t].assignee
            /\ tasks'[t].approvedBy = tasks[t].approvedBy
            /\ tasks'[t].awaiting = tasks[t].awaiting
        BY <2>1, <4>1 DEF Coord!TaskRecord
      <4>3. workers'[t] \in Coord!WorkerRecord /\ workers'[t].task = NoTask
        <5>1. CASE tasks[t].assignee = t
          BY <2>1, <2>2, <3>1, <3>3, <5>1, WorkerLetsGo DEF StageOK, Held
        <5>2. CASE tasks[t].assignee # t
          <6>1. workers[t].task = NoTask
            BY <2>1, <5>2 DEF StageOK, Held
          <6> QED
            BY <2>1, <2>2, <6>1, WorkerLetsGo
        <5> QED
          BY <5>1, <5>2
      <4> QED
        BY <2>1, <4>2, <4>3 DEF StageOK, Held, Waiting
    <3> QED
      BY <3>2, <3>3
  <2>4. CASE q # r
    <3>1. t \notin TasksOf(r)
      BY <1>4, <2>4 DEF TasksOf
    <3>2. workers'[t] = workers[t]
      <4>1. \A k \in TasksOf(r) : tasks[k].assignee # t
        <5> SUFFICES ASSUME NEW v \in Stage
                     PROVE  tasks[<<r, v>>].assignee # t
          BY DEF TasksOf
        <5>1. tasks[<<r, v>>].assignee \in {<<r, v>>, NoWorker}
          BY <1>1 DEF StagesInv, StageOK
        <5> QED
          BY <1>1, <1>4, <2>1, <2>4, <5>1
      <4>2. workers'[t] = Coord!CancelledWorker(workers[t],
               {k \in TasksOf(r) : ~Coord!Terminal(tasks[k].status) /\ tasks[k].assignee = t})
        BY <2>1 DEF CancelRun, Coord!CancelWorkers
      <4> QED
        BY <4>1, <4>2 DEF Coord!CancelledWorker
    <3> QED
      BY <2>1, <2>2, <3>1, <3>2
  <2> QED
    BY <2>3, <2>4
<1>5. MapsTyped'
  <2>1. \A t \in StageTask : tasks'[t] \in Coord!TaskRecord /\ workers'[t] \in Coord!WorkerRecord
    BY <1>4 DEF StageTask
  <2>2. tasks' \in [StageTask -> Coord!TaskRecord]
    BY <2>1 DEF CancelRun, Coord!CancelTasks
  <2>3. workers' \in [StageTask -> Coord!WorkerRecord]
    BY <2>1 DEF CancelRun, Coord!CancelWorkers
  <2>4. calls' \in 0..MaxCalls
    <3>1. calls \in 0..MaxCalls /\ MaxCalls \in Nat
      BY <1>1, SwarmConstants DEF MapsTyped
    <3> QED
      BY <1>2, <3>1
  <2>5. execution' \in [Run -> Coord!ExecutionStatuses]
    BY <1>1, <1>2 DEF MapsTyped, Coord!ExecutionStatuses
  <2> QED
    BY <1>1, <1>2, <2>2, <2>3, <2>4, <2>5 DEF MapsTyped
<1>6. StagesInv'
  BY <1>2, <1>3, <1>4 DEF StagesInv
<1>7. RunsInv'
  BY <1>1, <1>2, <1>3 DEF RunsInv, MapsTyped
<1>8. Advances
  BY <1>2, <1>3, <1>4 DEF Advances, Started
<1>9. LoopsInv'
  BY <1>1, <1>2, <1>8, NothingMoves
<1>10. SlotsInv'
  BY <1>1, <1>2, SlotsStay
<1> QED
  BY <1>5, <1>6, <1>7, <1>9, <1>10 DEF Inv

LEMMA ApproveExecuteInv ==
    ASSUME Inv, NEW r \in Run, NEW p \in Person, ApproveExecute(r, p)
    PROVE  Inv'
<1> DEFINE t == <<r, Execute>>
<1>1. /\ r \in Started /\ calls < MaxCalls /\ calls' = calls + 1
      /\ UNCHANGED <<workers, execution, stages, loops, slotVars, succeeded>>
      /\ Started' = Started
  BY DEF ApproveExecute, Call, Started
<1>2. /\ t \in StageTask /\ NoWorker \notin StageTask /\ Execute \in Stage
      /\ MapsTyped /\ StagesInv /\ RunsInv /\ LoopsInv /\ SlotsInv
      /\ tasks[t] \in Coord!TaskRecord /\ workers[t] \in Coord!WorkerRecord
      /\ StageOK(t, workers[t], tasks[t], stages[r][Execute], succeeded[r], TRUE)
  <2>1. Execute \in Stage
    BY StageFacts
  <2> QED
    BY <1>1, <2>1, StageNow DEF Inv
<1>3. PICK task : /\ task = Coord!Approved(tasks[t], t, p)
                  /\ tasks' = [tasks EXCEPT ![t] = task]
  BY DEF ApproveExecute
<1>4. /\ task \in Coord!TaskRecord
      /\ task.assignee = tasks[t].assignee
      /\ \/ task = tasks[t]
         \/ /\ r \in GatedRuns /\ task.status \in {"queued", "blocked"}
            /\ \/ /\ p \in RequiredApprovers /\ task.approvedBy = p
               \/ /\ task.status = "blocked"
                  /\ task.approvedBy = tasks[t].approvedBy /\ task.awaiting = tasks[t].awaiting
  <2>1. Coord!NeedsApproval(t) => r \in GatedRuns
    BY <1>2 DEF Coord!NeedsApproval
  <2>2. r \in GatedRuns =>
           \/ task = [tasks[t] EXCEPT !.status = "queued", !.approvedBy = p, !.awaiting = FALSE]
              /\ p \in RequiredApprovers
           \/ task = [tasks[t] EXCEPT !.status = "blocked"]
    BY <1>2, <1>3, SwarmConstants DEF Coord!Approved, Coord!NeedsApproval
  <2>3. r \notin GatedRuns => task = tasks[t]
    BY <1>2, <1>3, <2>1 DEF Coord!Approved
  <2>4. "queued" \in Coord!TaskStatuses /\ "blocked" \in Coord!TaskStatuses
    BY DEF Coord!TaskStatuses
  <2> QED
    BY <1>2, <2>2, <2>3, <2>4 DEF Coord!TaskRecord
<1>5. /\ tasks' \in [StageTask -> Coord!TaskRecord] /\ tasks'[t] = task
      /\ \A q \in Run, u \in Stage : <<q, u>> # t => tasks'[<<q, u>>] = tasks[<<q, u>>]
  <2>1. \A q \in Run, u \in Stage : <<q, u>> \in StageTask
    BY DEF StageTask
  <2> QED
    BY <1>2, <1>3, <1>4, <2>1 DEF MapsTyped
<1>6. StageOK(t, workers[t], task, stages[r][Execute], succeeded[r], TRUE)
  BY <1>2, <1>4 DEF StageOK, Held, Waiting
<1>7. StagesInv'
  <2>1. StageOK(<<r, Execute>>, workers'[<<r, Execute>>], tasks'[<<r, Execute>>],
                stages'[r][Execute], succeeded'[r], r \in Started)
    BY <1>1, <1>5, <1>6
  <2>2. \A q \in Run : succeeded[q] \subseteq succeeded'[q]
    BY <1>1
  <2>3. \A q \in Run, u \in Stage :
           <<q, u>> # <<r, Execute>> => /\ workers'[<<q, u>>] = workers[<<q, u>>]
                                       /\ tasks'[<<q, u>>] = tasks[<<q, u>>]
                                       /\ stages'[q][u] = stages[q][u]
    BY <1>1, <1>5
  <2> QED
    BY <1>1, <1>2, <2>1, <2>2, <2>3, OneStageMoves
<1>8. MapsTyped'
  <2>1. calls' \in 0..MaxCalls
    <3>1. calls \in 0..MaxCalls /\ MaxCalls \in Nat
      BY <1>2, SwarmConstants DEF MapsTyped
    <3> QED
      BY <1>1, <3>1
  <2> QED
    BY <1>1, <1>2, <1>5, <2>1 DEF MapsTyped
<1>9. RunsInv'
  BY <1>1, <1>2 DEF RunsInv
<1>10. Advances
  <2> SUFFICES ASSUME NEW q \in Started, NEW u \in Stage
               PROVE  /\ tasks'[<<q, u>>].assignee = tasks[<<q, u>>].assignee
                      /\ tasks[<<q, u>>].approvedBy \in RequiredApprovers =>
                            tasks'[<<q, u>>].approvedBy \in RequiredApprovers
    BY <1>1 DEF Advances
  <2>1. q \in Run
    BY DEF Started
  <2> QED
    BY <1>4, <1>5, <2>1
<1>11. LoopsInv'
  BY <1>1, <1>2, <1>10, NothingMoves
<1>12. SlotsInv'
  BY <1>1, <1>2, SlotsStay
<1> QED
  BY <1>7, <1>8, <1>9, <1>11, <1>12 DEF Inv

-----------------------------------------------------------------------------
(* The dispatch of startObjective.  Every stage has a worker and a task of its  *)
(* own: the claim of a worker looks at that task alone.                       *)
Gated(r, s) == r \in GatedRuns /\ s = Execute

Claimed(r, s) ==
    IF Gated(r, s) THEN [Coord!QueuedTask EXCEPT !.status = "blocked", !.awaiting = TRUE]
    ELSE [Coord!QueuedTask EXCEPT !.status = "assigned", !.assignee = <<r, s>>]

ClaimedBy(r, s) ==
    IF Gated(r, s) THEN [state |-> "idle", task |-> NoTask]
    ELSE [state |-> "running", task |-> <<r, s>>]

LEMMA ClaimMoves ==
    ASSUME NEW r \in Run, NEW s \in Stage, NEW ts, NEW ws, NEW w, w = <<r, s>>,
           ts[w] = Coord!QueuedTask, ts \in [StageTask -> Coord!TaskRecord],
           ws \in [StageTask -> Coord!WorkerRecord],
           ws[w] = [state |-> "idle", task |-> NoTask],
           NEW ts2, ts2 = Coord!ClaimTasks(ts, 0, w, TasksOf(r)),
           NEW ws2, ws2 = Coord!ClaimWorkers(ws, ts, 0, w, TasksOf(r))
    PROVE  /\ ts2 \in [StageTask -> Coord!TaskRecord] /\ ws2 \in [StageTask -> Coord!WorkerRecord]
           /\ ts2[w] = Claimed(r, s) /\ ws2[w] = ClaimedBy(r, s)
           /\ \A t \in StageTask \ {w} : ts2[t] = ts[t] /\ ws2[t] = ws[t]
<1>1. /\ w \in StageTask /\ w \in TasksOf(r)
      /\ ts[w].status = "queued" /\ ts[w].approvedBy = Nobody
  BY DEF StageTask, TasksOf, Coord!QueuedTask, Coord!AbsentTask
<1>2. Coord!Candidates(ts, w, TasksOf(r)) = {w}
  <2>1. \A t \in TasksOf(r) : <<w, t>> \in {p \in StageTask \X StageTask : p[1][2] = p[2][2]} <=> t = w
    <3>1. ASSUME NEW u \in Stage
          PROVE  <<w, <<r, u>>>> \in {p \in StageTask \X StageTask : p[1][2] = p[2][2]} <=> <<r, u>> = w
      <4>1. <<r, u>> \in StageTask
        BY DEF StageTask
      <4> QED
        BY <1>1, <4>1
    <3> QED
      BY <3>1 DEF TasksOf
  <2> QED
    BY <1>1, <2>1 DEF Coord!Candidates
<1>3. Coord!Prepared(ts, 0, w, w) <=> ~Gated(r, s)
  <2>1. Coord!NeedsApproval(w) <=> Gated(r, s)
    BY <1>1, SwarmConstants DEF Coord!NeedsApproval, Gated
  <2>2. Coord!BudgetOK(0, w) /\ Coord!SecurityOK(w, w)
    BY <1>1 DEF Coord!BudgetOK, Coord!SecurityOK
  <2> QED
    BY <1>1, <2>1, <2>2 DEF Coord!Prepared, Coord!ApprovalOK
<1>4. Coord!Chosen(ts, 0, w, TasksOf(r)) = IF Gated(r, s) THEN {} ELSE {w}
  BY <1>2, <1>3 DEF Coord!Chosen
<1>5. ASSUME Gated(r, s)
      PROVE  ts2 = [ts EXCEPT ![w] = Claimed(r, s)] /\ ws2 = ws
  <2>1. Coord!Examined(ts, 0, w, TasksOf(r)) = {w}
    BY <1>2, <1>3, <1>4, <1>5 DEF Coord!Examined
  <2>2. ~Coord!ApprovalOK(ts, w)
    BY <1>1, <1>5, SwarmConstants DEF Coord!ApprovalOK, Coord!NeedsApproval, Gated
  <2>3. Coord!TurnedDown(ts, w) = Claimed(r, s)
    BY <1>5, <2>2 DEF Coord!TurnedDown, Claimed
  <2>4. Coord!ClaimTasks(ts, 0, w, TasksOf(r)) =
           [t \in StageTask |-> IF t = w THEN Claimed(r, s) ELSE ts[t]]
    BY <1>4, <1>5, <2>1, <2>3 DEF Coord!ClaimTasks
  <2>5. Coord!ClaimWorkers(ws, ts, 0, w, TasksOf(r)) = [ws EXCEPT ![w] = ws[w]]
    BY <1>4, <1>5 DEF Coord!ClaimWorkers, Coord!ClaimedWorker
  <2> QED
    BY <1>1, <1>5, <2>4, <2>5
<1>6. ASSUME ~Gated(r, s)
      PROVE  /\ ts2 = [ts EXCEPT ![w] = Claimed(r, s)]
             /\ ws2 = [ws EXCEPT ![w] = [state |-> "running", task |-> w]]
  <2>1. Coord!ClaimTasks(ts, 0, w, TasksOf(r)) =
           [t \in StageTask |-> IF t = w THEN Claimed(r, s) ELSE ts[t]]
    <3>1. Coord!Examined(ts, 0, w, TasksOf(r)) = {}
      BY <1>2, <1>3, <1>6 DEF Coord!Examined
    <3>2. Claimed(r, s) = [ts[w] EXCEPT !.status = "assigned", !.assignee = w]
      BY <1>6 DEF Claimed
    <3> QED
      BY <1>4, <1>6, <3>1, <3>2 DEF Coord!ClaimTasks
  <2>2. (CHOOSE t \in {w} : TRUE) = w
    OBVIOUS
  <2>3. Coord!ClaimedWorker(ws[w], {w}) = [state |-> "running", task |-> w]
    BY <2>2 DEF Coord!ClaimedWorker, Coord!StartTask, Coord!MoveFrom
  <2>4. Coord!ClaimWorkers(ws, ts, 0, w, TasksOf(r)) =
           [ws EXCEPT ![w] = [state |-> "running", task |-> w]]
    BY <1>1, <1>4, <1>6, <2>3 DEF Coord!ClaimWorkers
  <2> QED
    BY <1>1, <1>6, <2>1, <2>4
<1>7. /\ ts2 = [ts EXCEPT ![w] = Claimed(r, s)]
      /\ ws2 = IF Gated(r, s) THEN ws ELSE [ws EXCEPT ![w] = [state |-> "running", task |-> w]]
  BY <1>5, <1>6
<1>8. Claimed(r, s) \in Coord!TaskRecord
  <2>1. Claimed(r, s) \in [status : {"blocked", "assigned"}, assignee : {w, NoWorker},
                           approvedBy : {Nobody}, awaiting : BOOLEAN]
    BY DEF Claimed, Coord!QueuedTask, Coord!AbsentTask
  <2>2. "blocked" \in Coord!TaskStatuses /\ "assigned" \in Coord!TaskStatuses
    BY DEF Coord!TaskStatuses
  <2> QED
    BY <1>1, <2>1, <2>2 DEF Coord!TaskRecord
<1>9. [state |-> "running", task |-> w] \in Coord!WorkerRecord
  BY <1>1 DEF Coord!WorkerRecord, Coord!WorkerStates
<1>10. ws2[w] = ClaimedBy(r, s)
  BY <1>1, <1>7 DEF ClaimedBy
<1> QED
  BY <1>1, <1>7, <1>8, <1>9, <1>10

LEMMA DispatchedStages ==
    ASSUME NEW r \in Run, NEW ts, NEW ws,
           ts \in [StageTask -> Coord!TaskRecord], ws \in [StageTask -> Coord!WorkerRecord],
           \A s \in Stage : /\ ts[<<r, s>>] = Coord!QueuedTask
                            /\ ws[<<r, s>>] = [state |-> "idle", task |-> NoTask],
           NEW after, after = Dispatched(ts, ws, r)
    PROVE  /\ after.tasks \in [StageTask -> Coord!TaskRecord]
           /\ after.workers \in [StageTask -> Coord!WorkerRecord]
           /\ \A s \in Stage : /\ after.tasks[<<r, s>>] = Claimed(r, s)
                               /\ after.workers[<<r, s>>] = ClaimedBy(r, s)
           /\ \A q \in Run, s \in Stage :
                 q # r => /\ after.tasks[<<q, s>>] = ts[<<q, s>>]
                          /\ after.workers[<<q, s>>] = ws[<<q, s>>]
<1>1. PICK p, e, v : p = <<r, Plan>> /\ e = <<r, Execute>> /\ v = <<r, Review>>
  OBVIOUS
<1>2. /\ Plan \in Stage /\ Execute \in Stage /\ Review \in Stage
      /\ p # e /\ p # v /\ e # v /\ \A s \in Stage : s = Plan \/ s = Execute \/ s = Review
      /\ p \in StageTask /\ e \in StageTask /\ v \in StageTask
  BY <1>1, StageFacts DEF StageTask
<1>3. PICK ts1, ws1 : /\ ts1 = Coord!ClaimTasks(ts, 0, p, TasksOf(r))
                      /\ ws1 = Coord!ClaimWorkers(ws, ts, 0, p, TasksOf(r))
  OBVIOUS
<1>4. PICK ts2, ws2 : /\ ts2 = Coord!ClaimTasks(ts1, 0, e, TasksOf(r))
                      /\ ws2 = Coord!ClaimWorkers(ws1, ts1, 0, e, TasksOf(r))
  OBVIOUS
<1>5. PICK ts3, ws3 : /\ ts3 = Coord!ClaimTasks(ts2, 0, v, TasksOf(r))
                      /\ ws3 = Coord!ClaimWorkers(ws2, ts2, 0, v, TasksOf(r))
  OBVIOUS
<1>6. after.tasks = ts3 /\ after.workers = ws3
  BY <1>1, <1>3, <1>4, <1>5 DEF Dispatched
<1>7. /\ ts1 \in [StageTask -> Coord!TaskRecord] /\ ws1 \in [StageTask -> Coord!WorkerRecord]
      /\ ts1[p] = Claimed(r, Plan) /\ ws1[p] = ClaimedBy(r, Plan)
      /\ \A t \in StageTask \ {p} : ts1[t] = ts[t] /\ ws1[t] = ws[t]
  <2>1. ts[p] = Coord!QueuedTask /\ ws[p] = [state |-> "idle", task |-> NoTask]
    BY <1>1, <1>2
  <2> QED
    BY <1>1, <1>2, <1>3, <2>1, ClaimMoves
<1>8. /\ ts2 \in [StageTask -> Coord!TaskRecord] /\ ws2 \in [StageTask -> Coord!WorkerRecord]
      /\ ts2[e] = Claimed(r, Execute) /\ ws2[e] = ClaimedBy(r, Execute)
      /\ \A t \in StageTask \ {e} : ts2[t] = ts1[t] /\ ws2[t] = ws1[t]
  <2>1. ts1[e] = Coord!QueuedTask /\ ws1[e] = [state |-> "idle", task |-> NoTask]
    BY <1>1, <1>2, <1>7
  <2> QED
    BY <1>1, <1>2, <1>4, <1>7, <2>1, ClaimMoves
<1>9. /\ ts3 \in [StageTask -> Coord!TaskRecord] /\ ws3 \in [StageTask -> Coord!WorkerRecord]
      /\ ts3[v] = Claimed(r, Review) /\ ws3[v] = ClaimedBy(r, Review)
      /\ \A t \in StageTask \ {v} : ts3[t] = ts2[t] /\ ws3[t] = ws2[t]
  <2>1. ts2[v] = Coord!QueuedTask /\ ws2[v] = [state |-> "idle", task |-> NoTask]
    BY <1>1, <1>2, <1>7, <1>8
  <2> QED
    BY <1>1, <1>2, <1>5, <1>8, <2>1, ClaimMoves
<1>10. /\ ts3[p] = Claimed(r, Plan) /\ ws3[p] = ClaimedBy(r, Plan)
       /\ ts3[e] = Claimed(r, Execute) /\ ws3[e] = ClaimedBy(r, Execute)
       /\ ts3[v] = Claimed(r, Review) /\ ws3[v] = ClaimedBy(r, Review)
  BY <1>2, <1>7, <1>8, <1>9
<1>11. \A s \in Stage : ts3[<<r, s>>] = Claimed(r, s) /\ ws3[<<r, s>>] = ClaimedBy(r, s)
  BY <1>1, <1>2, <1>10
<1>12. ASSUME NEW q \in Run, NEW s \in Stage, q # r
       PROVE  ts3[<<q, s>>] = ts[<<q, s>>] /\ ws3[<<q, s>>] = ws[<<q, s>>]
  <2>1. <<q, s>> \in StageTask /\ <<q, s>> # p /\ <<q, s>> # e /\ <<q, s>> # v
    BY <1>1, <1>12 DEF StageTask
  <2> QED
    BY <1>7, <1>8, <1>9, <2>1
<1> QED
  BY <1>6, <1>9, <1>11, <1>12

(* What startObjective spawns and enqueues *)
LEMMA FreshFacts ==
    /\ Coord!MarkReady(Coord!Spawned) = [state |-> "idle", task |-> NoTask]
    /\ Coord!MarkReady(Coord!Spawned) \in Coord!WorkerRecord
    /\ Coord!QueuedTask \in Coord!TaskRecord
<1>1. Coord!MarkReady(Coord!Spawned) = [state |-> "idle", task |-> NoTask]
  BY DEF Coord!MarkReady, Coord!Spawned, Coord!MoveFrom
<1>2. [state |-> "idle", task |-> NoTask] \in Coord!WorkerRecord
  BY DEF Coord!WorkerRecord, Coord!WorkerStates
<1>3. Coord!AbsentTask \in Coord!TaskRecord /\ "queued" \in Coord!TaskStatuses
  BY DEF Coord!AbsentTask, Coord!TaskRecord, Coord!TaskStatuses
<1>4. Coord!QueuedTask \in Coord!TaskRecord
  BY <1>3 DEF Coord!QueuedTask, Coord!TaskRecord
<1> QED
  BY <1>1, <1>2, <1>4

LEMMA StartObjectiveInv ==
    ASSUME Inv, NEW l \in Loop, NEW r \in Run, StartObjective(l, r)
    PROVE  Inv'
<1>1. /\ MapsTyped /\ StagesInv /\ RunsInv /\ LoopsInv /\ SlotsInv
      /\ loops \in [Loop -> LoopRecord] /\ loops[l].pc = "idle" /\ r \notin Started
      /\ execution' = [execution EXCEPT ![r] = "running"]
      /\ UNCHANGED <<stages, slotVars, calls, succeeded>>
  BY IdleLoopOK DEF Inv, LoopsInv, StartObjective
<1>2. PICK ready : ready = [w \in StageTask |-> IF w[1] = r THEN Coord!MarkReady(Coord!Spawned)
                                                ELSE workers[w]]
  OBVIOUS
<1>3. PICK queued : queued = [t \in StageTask |-> IF t[1] = r THEN Coord!QueuedTask ELSE tasks[t]]
  OBVIOUS
<1>4. PICK after : after = Dispatched(queued, ready, r)
  OBVIOUS
<1>5. tasks' = after.tasks /\ workers' = after.workers
  BY <1>2, <1>3, <1>4 DEF StartObjective
<1>6. /\ Coord!MarkReady(Coord!Spawned) = [state |-> "idle", task |-> NoTask]
      /\ Coord!MarkReady(Coord!Spawned) \in Coord!WorkerRecord
      /\ Coord!QueuedTask \in Coord!TaskRecord
  BY FreshFacts
<1>7. /\ ready \in [StageTask -> Coord!WorkerRecord] /\ queued \in [StageTask -> Coord!TaskRecord]
      /\ \A s \in Stage : /\ queued[<<r, s>>] = Coord!QueuedTask
                          /\ ready[<<r, s>>] = [state |-> "idle", task |-> NoTask]
      /\ \A q \in Run, s \in Stage :
            q # r => queued[<<q, s>>] = tasks[<<q, s>>] /\ ready[<<q, s>>] = workers[<<q, s>>]
  BY <1>1, <1>2, <1>3, <1>6 DEF MapsTyped, StageTask
<1>8. /\ tasks' \in [StageTask -> Coord!TaskRecord]
      /\ workers' \in [StageTask -> Coord!WorkerRecord]
      /\ \A s \in Stage : /\ tasks'[<<r, s>>] = Claimed(r, s)
                          /\ workers'[<<r, s>>] = ClaimedBy(r, s)
      /\ \A q \in Run, s \in Stage :
            q # r => /\ tasks'[<<q, s>>] = queued[<<q, s>>]
                     /\ workers'[<<q, s>>] = ready[<<q, s>>]
  <2>1. PICK ts, ws : ts = queued /\ ws = ready
    OBVIOUS
  <2>2. /\ after.tasks \in [StageTask -> Coord!TaskRecord]
        /\ after.workers \in [StageTask -> Coord!WorkerRecord]
        /\ \A s \in Stage : /\ after.tasks[<<r, s>>] = Claimed(r, s)
                            /\ after.workers[<<r, s>>] = ClaimedBy(r, s)
        /\ \A q \in Run, s \in Stage :
              q # r => /\ after.tasks[<<q, s>>] = queued[<<q, s>>]
                       /\ after.workers[<<q, s>>] = ready[<<q, s>>]
    BY <1>4, <1>7, DispatchedStages
  <2> QED
    BY <1>5, <2>2
<1>9. Started' = Started \cup {r}
  BY <1>1 DEF Started, MapsTyped
<1>10. ASSUME NEW s \in Stage
       PROVE  StageOK(<<r, s>>, workers'[<<r, s>>], tasks'[<<r, s>>], stages[r][s], succeeded[r],
                      TRUE)
  <2>1. PICK t, task, worker : t = <<r, s>> /\ task = Claimed(r, s) /\ worker = ClaimedBy(r, s)
    OBVIOUS
  <2>2. stages[r][s].status = "pending" /\ stages[r][s].attempts = 0
    BY <1>1 DEF RunsInv, InitialStage
  <2>3. CASE Gated(r, s)
    <3>1. /\ task.status = "blocked" /\ task.awaiting /\ task.assignee = NoWorker
          /\ worker.task = NoTask
      BY <2>1, <2>3 DEF Claimed, ClaimedBy, Coord!QueuedTask, Coord!AbsentTask
    <3>2. StageOK(t, worker, task, stages[r][s], succeeded[r], TRUE)
      BY <2>2, <3>1 DEF StageOK, Held, Waiting
    <3> QED
      BY <1>8, <2>1, <3>2
  <2>4. CASE ~Gated(r, s)
    <3>1. /\ task.status = "assigned" /\ task.assignee = t
          /\ worker = [state |-> "running", task |-> t]
          /\ ~(t[1] \in GatedRuns /\ t[2] = Execute)
      BY <2>1, <2>4 DEF Claimed, ClaimedBy, Coord!QueuedTask, Coord!AbsentTask, Gated
    <3>2. StageOK(t, worker, task, stages[r][s], succeeded[r], TRUE)
      BY <2>2, <3>1 DEF StageOK, Held
    <3> QED
      BY <1>8, <2>1, <3>2
  <2> QED
    BY <2>3, <2>4
<1>11. StagesInv'
  <2> SUFFICES ASSUME NEW q \in Run, NEW s \in Stage
               PROVE  StageOK(<<q, s>>, workers'[<<q, s>>], tasks'[<<q, s>>], stages[q][s],
                              succeeded[q], q \in Started')
    BY <1>1 DEF StagesInv
  <2>1. CASE q = r
    BY <1>9, <1>10, <2>1
  <2>2. CASE q # r
    <3>1. /\ tasks'[<<q, s>>] = tasks[<<q, s>>] /\ workers'[<<q, s>>] = workers[<<q, s>>]
          /\ q \in Started' <=> q \in Started
      BY <1>7, <1>8, <1>9, <2>2
    <3>2. StageOK(<<q, s>>, workers[<<q, s>>], tasks[<<q, s>>], stages[q][s], succeeded[q],
                  q \in Started)
      BY <1>1 DEF StagesInv
    <3> QED
      BY <3>1, <3>2 DEF StageOK
  <2> QED
    BY <2>1, <2>2
<1>12. MapsTyped'
  BY <1>1, <1>8 DEF MapsTyped, Coord!ExecutionStatuses
<1>13. RunsInv'
  BY <1>1, <1>9 DEF RunsInv, MapsTyped
<1>14. Advances
  <2> SUFFICES ASSUME NEW q \in Started, NEW s \in Stage
               PROVE  tasks'[<<q, s>>] = tasks[<<q, s>>]
    BY <1>1, <1>9 DEF Advances
  <2>1. q \in Run /\ q # r
    BY <1>1 DEF Started
  <2> QED
    BY <1>7, <1>8, <2>1
<1>15. PICK rec : rec = [IdleLoop EXCEPT !.pc = "starting", !.run = r]
  OBVIOUS
<1>16. rec = [pc |-> "starting", run |-> r, from |-> Plan, at |-> Plan, retry |-> FALSE,
              attempt |-> 0, assignee |-> NoWorker]
  BY <1>15 DEF IdleLoop
<1>17. LoopOK(rec, Started', tasks', succeeded') /\ rec.pc = "starting"
  <2>1. /\ "starting" \in {"waiting", "starting"} /\ Plan \in Stage /\ FALSE \in BOOLEAN
        /\ r \in Started'
    BY <1>9, StageFacts
  <2> QED
    BY <1>16, <2>1, LaunchedOK
<1>18. loops' = [loops EXCEPT ![l] = rec]
  BY <1>15 DEF StartObjective
<1>19. LoopsInv'
  BY <1>1, <1>14, <1>17, <1>18, LoopMoves
<1>20. SlotsInv'
  BY <1>1, <1>17, <1>18, SlotsMove
<1> QED
  BY <1>11, <1>12, <1>13, <1>19, <1>20 DEF Inv

-----------------------------------------------------------------------------
LEMMA InitInv == Init => Inv
<1> SUFFICES ASSUME Init PROVE Inv
  OBVIOUS
<1>1. Started = {}
  BY DEF Init, Started
<1>2. Coord!Absent \in Coord!WorkerRecord /\ Coord!AbsentTask \in Coord!TaskRecord
  BY DEF Coord!Absent, Coord!WorkerRecord, Coord!WorkerStates, Coord!AbsentTask,
         Coord!TaskRecord, Coord!TaskStatuses
<1>3. InitialStage \in StageRecord /\ InitialStage.status = "pending"
  BY StageFacts DEF InitialStage, StageRecord, StageStatuses
<1>4. MapsTyped
  <2>1. stages \in [Run -> [Stage -> StageRecord]] /\ succeeded \in [Run -> SUBSET Stage]
    BY <1>3 DEF Init
  <2>2. execution \in [Run -> Coord!ExecutionStatuses] /\ calls \in 0..MaxCalls
    BY SwarmConstants DEF Init, Coord!ExecutionStatuses
  <2> QED
    BY <1>2, <2>1, <2>2 DEF Init, MapsTyped
<1>5. StagesInv
  <2> SUFFICES ASSUME NEW r \in Run, NEW s \in Stage
               PROVE  StageOK(<<r, s>>, workers[<<r, s>>], tasks[<<r, s>>], stages[r][s],
                              succeeded[r], r \in Started)
    BY DEF StagesInv
  <2>1. <<r, s>> \in StageTask
    BY DEF StageTask
  <2>2. /\ workers[<<r, s>>] = Coord!Absent /\ tasks[<<r, s>>] = Coord!AbsentTask
        /\ stages[r][s] = InitialStage
    BY <2>1 DEF Init
  <2>3. /\ workers[<<r, s>>].task = NoTask
        /\ tasks[<<r, s>>].assignee = NoWorker /\ tasks[<<r, s>>].status = "absent"
        /\ stages[r][s].status = "pending"
    BY <1>3, <2>2 DEF Coord!Absent, Coord!AbsentTask
  <2> QED
    BY <1>1, <2>3 DEF StageOK, Held
<1>6. RunsInv
  BY DEF Init, RunsInv
<1>7. LoopsInv
  BY IdleLoopOK DEF Init, LoopsInv
<1>8. SlotsInv
  <2>1. Sem!SemInit
    BY DEF Init, Slots!SemInit, Slots!MaxConcurrentRuns, Sem!SemInit, Sem!MaxConcurrentRuns
  <2>2. Sem!SemInv
    <3>1. RequestedMax \in Int /\ Sem!IsFiniteSet(Loop)
      BY SwarmConstants, LoopsFinite
    <3> QED
      BY <2>1, <3>1, Sem!InitSemInv
  <2>3. \A l \in Loop : slot[l] = "idle" /\ loops[l].pc = "idle"
    BY IdleLoopOK DEF Init, Slots!SemInit
  <2> QED
    BY <2>2, <2>3 DEF SlotsInv, SlotOK
<1> QED
  BY <1>4, <1>5, <1>6, <1>7, <1>8 DEF Inv

LEMMA NextInv == Inv /\ [Next]_vars => Inv'
<1> SUFFICES ASSUME Inv, [Next]_vars PROVE Inv'
  OBVIOUS
<1>1. CASE OperatorStep
  <2>1. ASSUME NEW l \in Loop, NEW r \in Run, StartObjective(l, r) PROVE Inv'
    BY <2>1, StartObjectiveInv
  <2>2. ASSUME NEW l \in Loop, NEW r \in Run, ResumeRun(l, r) PROVE Inv'
    BY <2>2, LoopOnlySteps
  <2>3. ASSUME NEW l \in Loop, NEW r \in Run, NEW s \in Stage, RetryStage(l, r, s) PROVE Inv'
    BY <2>3, RetryStageInv
  <2>4. ASSUME NEW r \in Run, CancelRun(r) PROVE Inv'
    BY <2>4, CancelRunInv
  <2>5. ASSUME NEW r \in Run, NEW p \in Person, ApproveExecute(r, p) PROVE Inv'
    BY <2>5, ApproveExecuteInv
  <2> QED
    BY <1>1, <2>1, <2>2, <2>3, <2>4, <2>5 DEF OperatorStep
<1>2. ASSUME NEW l \in Loop, LoopStep(l) PROVE Inv'
  <2>1. CASE \/ StartSaved(l) \/ StartNotSaved(l) \/ EnterLoop(l)
             \/ CallRunner(l) \/ StageNotSaved(l) \/ EndLoop(l)
    BY <2>1, LoopOnlySteps
  <2>2. ASSUME NEW s \in Stage, GiveUp(l, s) PROVE Inv'
    BY <2>2, GiveUpInv
  <2>3. ASSUME NEW s \in Stage, StopForApproval(l, s) PROVE Inv'
    BY <2>3, StopForApprovalInv
  <2>4. ASSUME NEW s \in Stage, BeginStage(l, s) PROVE Inv'
    BY <2>4, BeginStageInv
  <2>5. CASE FinishStages(l)
    BY <2>5, FinishStagesInv
  <2>6. CASE StageSucceeds(l)
    BY <2>6, StageSucceedsInv
  <2>7. CASE StageFails(l)
    BY <2>7, StageFailsInv
  <2> QED
    BY <1>2, <2>1, <2>2, <2>3, <2>4, <2>5, <2>6, <2>7 DEF LoopStep
<1>3. CASE UNCHANGED vars
  <2>1. /\ UNCHANGED <<workers, tasks, execution, stages, loops, calls, succeeded>>
        /\ UNCHANGED slotVars
    BY <1>3 DEF vars, slotVars
  <2>2. Started' = Started /\ Advances
    BY <2>1 DEF Started, Advances
  <2>3. LoopsInv'
    BY <2>1, <2>2, NothingMoves DEF Inv
  <2>4. SlotsInv'
    BY <2>1, SlotsStay DEF Inv
  <2> QED
    BY <2>1, <2>2, <2>3, <2>4 DEF Inv, MapsTyped, StagesInv, RunsInv
<1> QED
  BY <1>1, <1>2, <1>3 DEF Next

LEMMA SpecInv == Spec => []Inv
  BY InitInv, NextInv, PTL DEF Spec

-----------------------------------------------------------------------------
(* The types of the runs, the coordinator's maps, the loops and the semaphore; *)
(* no stage ever counts more attempts than a retry may reach.                 *)
THEOREM TypeCorrect == Spec => []TypeOK
<1>1. Inv => TypeOK
  <2> SUFFICES ASSUME Inv PROVE TypeOK
    OBVIOUS
  <2>1. Slots!TypeOK
    BY DEF Inv, SlotsInv, Sem!SemInv, Sem!TypeOK, Slots!TypeOK, Sem!SlotStates,
           Slots!SlotStates, Sem!MaxConcurrentRuns, Slots!MaxConcurrentRuns
  <2> QED
    BY <2>1 DEF Inv, MapsTyped, LoopsInv, TypeOK, StageRecord, LoopRecord
<1> QED
  BY <1>1, SpecInv, PTL

(* However many loops, operators and approvers there are, the runner is not    *)
(* called for an execute stage behind an approval before it was given.        *)
THEOREM GateHolds == Spec => []ApprovalGate
<1>1. Inv => ApprovalGate
  <2> SUFFICES ASSUME Inv, NEW r \in GatedRuns \cap Started,
                      tasks[<<r, Execute>>].approvedBy \notin RequiredApprovers
               PROVE  /\ AtStage(r, Execute) = {}
                      /\ MergedStatus(r, Execute) \in {"awaiting_approval", "cancelled"}
    BY DEF ApprovalGate
  <2>1. Waiting(tasks[<<r, Execute>>], stages[r][Execute])
    <3>1. Execute \in Stage
      BY StageFacts
    <3>2. StageOK(<<r, Execute>>, workers[<<r, Execute>>], tasks[<<r, Execute>>],
                  stages[r][Execute], succeeded[r], TRUE)
      BY <3>1, StageNow
    <3> QED
      BY <3>2 DEF StageOK
  <2>2. AtStage(r, Execute) = {}
    <3> SUFFICES ASSUME NEW l \in AtStage(r, Execute) PROVE FALSE
      OBVIOUS
    <3>1. LoopOK(loops[l], Started, tasks, succeeded)
      BY DEF AtStage, Inv, LoopsInv
    <3> QED
      BY <3>1 DEF AtStage, LoopOK
  <2>3. MergedStatus(r, Execute) \in {"awaiting_approval", "cancelled"}
    BY <2>1 DEF Waiting, MergedStatus, Coord!Terminal
  <2> QED
    BY <2>2, <2>3
<1> QED
  BY <1>1, SpecInv, PTL

(* Between the stage a loop began with and the one it is at, the runner has    *)
(* succeeded for every stage.                                                *)
THEOREM InOrder == Spec => []StagesInOrder
<1>1. Inv => StagesInOrder
  BY DEF Inv, LoopsInv, LoopOK, StagesInOrder
<1> QED
  BY <1>1, SpecInv, PTL

(* Whoever starts, resumes and retries, the loops past the semaphore hold a    *)
(* slot each and are never more than the slots there are.                     *)
THEOREM WithinTheSlots == Spec => []LoopsBounded
<1>1. Inv => LoopsBounded
  <2> SUFFICES ASSUME Inv PROVE LoopsBounded
    OBVIOUS
  <2>1. \A l \in Loop : l \in Inside <=> slot[l] = "holding"
    BY DEF Inv, SlotsInv, SlotOK, Inside
  <2>2. Inside \subseteq Sem!Owners
    BY <2>1 DEF Inside, Sem!Owners
  <2>3. IsFiniteSet(Sem!Owners)
    BY SwarmConstants, FS_Subset DEF Sem!Owners
  <2>4. Cardinality(Inside) <= Cardinality(Sem!Owners)
    BY <2>2, <2>3, FS_Subset
  <2>5. activeRunCount = Cardinality(Sem!Owners)
    <3>1. activeRunCount = Sem!Cardinality(Sem!Owners)
      BY DEF Inv, SlotsInv, Sem!SemInv, Sem!CounterExact
    <3>2. Sem!Cardinality(Sem!Owners) = Cardinality(Sem!Owners)
      BY DEF Cardinality, Sem!Cardinality
    <3> QED
      BY <3>1, <3>2
  <2>6. activeRunCount \in 0..Slots!MaxConcurrentRuns /\ Slots!MaxConcurrentRuns \in Nat
    BY SwarmConstants DEF Inv, SlotsInv, Sem!SemInv, Sem!TypeOK, Sem!MaxConcurrentRuns,
       Slots!MaxConcurrentRuns
  <2>7. Cardinality(Inside) \in Nat
    BY <2>2, <2>3, FS_Subset, FS_CardinalityType
  <2> QED
    BY <2>1, <2>4, <2>5, <2>6, <2>7 DEF LoopsBounded
<1> QED
  BY <1>1, SpecInv, PTL

(* A run or an execution that says completed has had every stage succeed. *)
THEOREM CompletionIsHonest == Spec => []CompletionHonest
<1>1. Inv => CompletionHonest
  <2> SUFFICES ASSUME Inv, NEW r \in Run,
                      RunStatus(r) = "completed" \/ execution[r] = "completed"
               PROVE  succeeded[r] = Stage
    BY DEF CompletionHonest
  <2>1. CASE execution[r] = "completed"
    BY <2>1 DEF Inv, RunsInv
  <2>2. CASE RunStatus(r) = "completed"
    <3>1. \A s \in Stage : MergedStatus(r, s) = "completed"
      BY <2>2 DEF RunStatus
    <3>2. \A s \in Stage : stages[r][s].status = "completed" \/ tasks[<<r, s>>].status = "completed"
      BY <3>1 DEF MergedStatus, Coord!Terminal
    <3>3. \A s \in Stage : s \in succeeded[r]
      BY <3>2 DEF Inv, StagesInv, StageOK
    <3>4. succeeded[r] \subseteq Stage
      BY DEF Inv, MapsTyped
    <3> QED
      BY <3>3, <3>4
  <2> QED
    BY <2>1, <2>2
<1> QED
  BY <1>1, SpecInv, PTL

(* A stage that was settled has left its worker without a task, whatever       *)
(* cancellations, retries and other loops of the run came in between.         *)
THEOREM WorkersComeBack == Spec => []SettledStageFreesWorker
<1>1. Inv => SettledStageFreesWorker
  BY DEF Inv, StagesInv, StageOK, Held, SettledStageFreesWorker
<1> QED
  BY <1>1, SpecInv, PTL

-----------------------------------------------------------------------------
(* The runtime is a user of the semaphore like any other: what the loops do to  *)
(* their slots is a behaviour of RunSemaphore, and what is proved there holds  *)
(* of them.                                                                  *)

LEMMA SlotStep == [Next]_vars => [Slots!SemNext]_(Slots!semVars)
<1> SUFFICES ASSUME [Next]_vars PROVE [Slots!SemNext]_(Slots!semVars)
  OBVIOUS
<1>1. CASE UNCHANGED vars
  BY <1>1 DEF vars, Slots!semVars
<1>2. CASE OperatorStep
  <2>1. ASSUME NEW l \in Loop, NEW r \in Run, StartObjective(l, r) PROVE UNCHANGED slotVars
    BY <2>1 DEF StartObjective
  <2>2. ASSUME NEW l \in Loop, NEW r \in Run, ResumeRun(l, r) PROVE Slots!Acquire(l)
    BY <2>2 DEF ResumeRun, Launch
  <2>3. ASSUME NEW l \in Loop, NEW r \in Run, NEW s \in Stage, RetryStage(l, r, s)
        PROVE  Slots!Acquire(l)
    BY <2>3 DEF RetryStage, Launch
  <2>4. ASSUME NEW r \in Run, CancelRun(r) PROVE UNCHANGED slotVars
    BY <2>4 DEF CancelRun
  <2>5. ASSUME NEW r \in Run, NEW p \in Person, ApproveExecute(r, p) PROVE UNCHANGED slotVars
    BY <2>5 DEF ApproveExecute
  <2> QED
    BY <1>2, <2>1, <2>2, <2>3, <2>4, <2>5
       DEF OperatorStep, Slots!SemNext, Slots!semVars, slotVars
<1>3. ASSUME NEW l \in Loop, LoopStep(l)
      PROVE  Slots!Acquire(l) \/ Slots!Enter(l) \/ Slots!Release(l) \/ UNCHANGED slotVars
  <2>1. StartSaved(l) => Slots!Acquire(l)
    BY DEF StartSaved, Launch
  <2>2. EnterLoop(l) => Slots!Enter(l)
    BY DEF EnterLoop
  <2>3. EndLoop(l) \/ StageNotSaved(l) => Slots!Release(l)
    BY DEF EndLoop, StageNotSaved
  <2>4. StartNotSaved(l) \/ FinishStages(l) \/ CallRunner(l) \/ StageSucceeds(l) \/ StageFails(l)
          => UNCHANGED slotVars
    BY DEF StartNotSaved, FinishStages, CallRunner, StageSucceeds, StageFails
  <2>5. ASSUME NEW s \in Stage, GiveUp(l, s) \/ StopForApproval(l, s) \/ BeginStage(l, s)
        PROVE  UNCHANGED slotVars
    BY <2>5 DEF GiveUp, StopForApproval, BeginStage
  <2> QED
    BY <1>3, <2>1, <2>2, <2>3, <2>4, <2>5 DEF LoopStep
<1> QED
  BY <1>1, <1>2, <1>3 DEF Next, Slots!SemNext, Slots!semVars, slotVars

(* The swarm runtime implements the run semaphore: however runs are started,    *)
(* resumed and retried, every change of slots is an acquire, an entry or a      *)
(* release of one loop.                                                      *)
THEOREM SlotsImplement == Spec => Slots!SemSpec
<1>1. Init => Slots!SemInit
  BY DEF Init
<1> QED
  BY <1>1, SlotStep, PTL DEF Spec, Slots!SemSpec

(* Loops past the semaphore came in the order in which they asked: no resumed    *)
(* or retried run overtakes one that was waiting before it.                    *)
THEOREM LoopsInTurn == Spec => Slots!NoOvertaking
<1>1. Sem!SemInit /\ [][Sem!SemNext]_(Sem!semVars) => Sem!NoOvertaking
  <2>1. RequestedMax \in Int /\ Sem!IsFiniteSet(Loop)
    BY SwarmConstants, LoopsFinite
  <2> QED
    BY <2>1, Sem!SemaphoreNoOvertaking DEF Sem!SemSpec
<1>2. Slots!SemInit => Sem!SemInit
  BY DEF Slots!SemInit, Sem!SemInit
<1>3. [Slots!SemNext]_(Slots!semVars) => [Sem!SemNext]_(Sem!semVars)
  <2>1. ASSUME NEW l \in Loop PROVE Slots!Acquire(l) => Sem!Acquire(l)
    BY DEF Slots!Acquire, Slots!HasFreeSlot, Slots!MaxConcurrentRuns,
           Sem!Acquire, Sem!HasFreeSlot, Sem!MaxConcurrentRuns
  <2>2. ASSUME NEW l \in Loop PROVE Slots!Enter(l) => Sem!Enter(l)
    BY DEF Slots!Enter, Sem!Enter
  <2>3. ASSUME NEW l \in Loop PROVE Slots!Release(l) => Sem!Release(l)
    BY DEF Slots!Release, Slots!Decremented, Slots!NextWaiter, Slots!QueueAfterRelease,
           Sem!Release, Sem!Decremented, Sem!NextWaiter, Sem!QueueAfterRelease
  <2> QED
    BY <2>1, <2>2, <2>3 DEF Slots!SemNext, Sem!SemNext, Slots!semVars, Sem!semVars
<1>4. Sem!NoOvertaking => Slots!NoOvertaking
  <2> DEFINE Kept == \A c, d \in Loop :
                        (Slots!Precedes(c, d) /\ slot'[d] # "queued") => slot'[c] # "queued"
             KeptSem == \A c, d \in Loop :
                        (Sem!Precedes(c, d) /\ slot'[d] # "queued") => slot'[c] # "queued"
  <2>1. [KeptSem]_(Sem!semVars) => [Kept]_(Slots!semVars)
    BY DEF Slots!Precedes, Sem!Precedes, Slots!semVars, Sem!semVars
  <2> QED
    BY <2>1, PTL DEF Slots!NoOvertaking, Sem!NoOvertaking
<1> QED
  BY <1>1, <1>2, <1>3, <1>4, SlotsImplement, PTL DEF Slots!SemSpec

-----------------------------------------------------------------------------
(* A stage whose task the coordinator holds for cancelled or failed, and that   *)
(* no approval can queue again                                               *)
Undone(r, s) ==
    /\ r \in Started /\ ~Gated(r, s)
    /\ tasks[<<r, s>>].status \in {"failed", "cancelled"}

(* The coordinator never takes back what cancelRun or a failed attempt settled: *)
(* a retried stage that succeeds leaves its task failed, and the execution of    *)
(* its run does not become completed, although every stage of the run may be.   *)
UndoneStays ==
    [][\A r \in Run, s \in Stage :
          Undone(r, s) => /\ Undone(r, s)'
                          /\ execution'[r] = "completed" => execution[r] = "completed"]_vars

Dead(status) == status \in {"failed", "cancelled"}

(* What one step makes of the task of one stage *)
LEMMA DeadTaskSteps ==
    ASSUME MapsTyped, NEW r \in Started, NEW s \in Stage, NEW u, u = <<r, s>>, ~Gated(r, s),
           Dead(tasks[u].status), NEW t \in StageTask, NEW w
    PROVE  /\ tasks' = tasks => Dead(tasks'[u].status)
           /\ tasks' = Coord!FailTasks(tasks, t) => Dead(tasks'[u].status)
           /\ tasks' = Coord!CompleteTasks(tasks, t, w) => Dead(tasks'[u].status)
           /\ \A q \in Run : tasks' = Coord!CancelTasks(tasks, TasksOf(q)) =>
                                Dead(tasks'[u].status)
<1>1. u \in StageTask /\ tasks[u] \in Coord!TaskRecord /\ tasks \in [StageTask -> Coord!TaskRecord]
  BY DEF Started, StageTask, MapsTyped
<1>2. ~Coord!IsAssignedTo(tasks, u, w)
  BY DEF Dead, Coord!IsAssignedTo
<1>3. ASSUME NEW status, tasks' = [tasks EXCEPT ![t].status = status],
             t = u => status = "failed"
      PROVE  Dead(tasks'[u].status)
  <2>1. CASE t = u
    <3>1. tasks'[u] = [tasks[u] EXCEPT !.status = "failed"]
      BY <1>1, <1>3, <2>1
    <3> QED
      BY <1>1, <3>1 DEF Dead, Coord!TaskRecord
  <2>2. CASE t # u
    BY <1>1, <1>3, <2>2
  <2> QED
    BY <2>1, <2>2
<1>4. tasks' = Coord!FailTasks(tasks, t) => Dead(tasks'[u].status)
  BY <1>3 DEF Coord!FailTasks
<1>5. tasks' = Coord!CompleteTasks(tasks, t, w) => Dead(tasks'[u].status)
  BY <1>2, <1>3 DEF Coord!CompleteTasks
<1>6. ASSUME NEW q \in Run, tasks' = Coord!CancelTasks(tasks, TasksOf(q))
      PROVE  Dead(tasks'[u].status)
  <2>1. tasks'[u] = tasks[u]
    BY <1>1, <1>6 DEF Coord!CancelTasks, Coord!Terminal, Dead
  <2> QED
    BY <2>1
<1> QED
  BY <1>4, <1>5, <1>6

(* collectFanIn over a task that is cancelled or failed *)
LEMMA FanInSeesDead ==
    ASSUME NEW r \in Run, NEW s \in Stage, NEW ts, Dead(ts[<<r, s>>].status)
    PROVE  Coord!FanInStatus(ts, TasksOf(r)) # "completed"
<1>1. <<r, s>> \in TasksOf(r)
  BY DEF TasksOf
<1> QED
  BY <1>1 DEF Dead, Coord!FanInStatus

(* The stage's task stays dead, and its execution does not become completed. *)
StaysUndone(r, s) ==
    /\ Dead(tasks'[<<r, s>>].status)
    /\ execution'[r] # "absent"
    /\ execution'[r] = "completed" => execution[r] = "completed"

(* startObjective works on the tasks of the run it starts. *)
LEMMA StartedTasksOnly ==
    ASSUME MapsTyped, NEW l \in Loop, NEW q \in Run, StartObjective(l, q),
           NEW r \in Run \ {q}, NEW s \in Stage
    PROVE  tasks'[<<r, s>>] = tasks[<<r, s>>]
<1>1. PICK ready : ready = [w \in StageTask |-> IF w[1] = q THEN Coord!MarkReady(Coord!Spawned)
                                                ELSE workers[w]]
  OBVIOUS
<1>2. PICK queued : queued = [t \in StageTask |-> IF t[1] = q THEN Coord!QueuedTask ELSE tasks[t]]
  OBVIOUS
<1>3. PICK after : after = Dispatched(queued, ready, q)
  OBVIOUS
<1>4. tasks' = after.tasks
  BY <1>1, <1>2, <1>3 DEF StartObjective
<1>5. queued \in [StageTask -> Coord!TaskRecord] /\ ready \in [StageTask -> Coord!WorkerRecord]
  BY <1>1, <1>2, FreshFacts DEF MapsTyped
<1>6. \A v \in Stage : /\ queued[<<q, v>>] = Coord!QueuedTask
                       /\ ready[<<q, v>>] = [state |-> "idle", task |-> NoTask]
  BY <1>1, <1>2, FreshFacts DEF StageTask
<1>7. after.tasks[<<r, s>>] = queued[<<r, s>>]
  BY <1>3, <1>5, <1>6, DispatchedStages
<1>8. queued[<<r, s>>] = tasks[<<r, s>>]
  BY <1>2 DEF StageTask
<1> QED
  BY <1>4, <1>7, <1>8

LEMMA FailStageUndone ==
    ASSUME MapsTyped, NEW q \in Started, NEW v \in Stage, NEW assignee, FailStage(q, v, assignee),
           NEW r \in Started, NEW s \in Stage, ~Gated(r, s), Dead(tasks[<<r, s>>].status)
    PROVE  StaysUndone(r, s)
<1>1. r \in Run /\ q \in Run /\ <<q, v>> \in StageTask /\ execution[r] # "absent"
  BY DEF Started, StageTask
<1>2. tasks' = tasks \/ tasks' = Coord!FailTasks(tasks, <<q, v>>)
  BY DEF FailStage
<1>3. Dead(tasks'[<<r, s>>].status)
  BY <1>1, <1>2, DeadTaskSteps
<1>4. execution' = [execution EXCEPT ![q] = Coord!FanInStatus(tasks', TasksOf(q))]
  BY DEF FailStage, FanIn
<1>5. /\ Coord!FanInStatus(tasks', TasksOf(r)) # "completed"
      /\ Coord!FanInStatus(tasks', TasksOf(r)) # "absent"
  BY <1>1, <1>3, FanInSeesDead, FanInFacts DEF Coord!ExecutionStatuses
<1> QED
  BY <1>1, <1>3, <1>4, <1>5 DEF MapsTyped, StaysUndone

LEMMA OperatorsUndoNothing ==
    ASSUME Inv, OperatorStep, NEW r \in Started, NEW s \in Stage, ~Gated(r, s),
           Dead(tasks[<<r, s>>].status)
    PROVE  StaysUndone(r, s)
<1>1. /\ MapsTyped /\ r \in Run /\ <<r, s>> \in StageTask /\ execution[r] # "absent"
      /\ execution \in [Run -> Coord!ExecutionStatuses] /\ tasks \in [StageTask -> Coord!TaskRecord]
  BY DEF Inv, Started, StageTask, MapsTyped
<1>2. ASSUME NEW l \in Loop, NEW q \in Run, StartObjective(l, q) PROVE StaysUndone(r, s)
  <2>1. q # r /\ execution' = [execution EXCEPT ![q] = "running"]
    BY <1>2 DEF StartObjective
  <2>2. r \in Run \ {q}
    BY <1>1, <2>1
  <2>3. tasks'[<<r, s>>] = tasks[<<r, s>>]
    BY <1>1, <1>2, <2>2, StartedTasksOnly
  <2> QED
    BY <1>1, <2>1, <2>3 DEF StaysUndone
<1>3. ASSUME NEW l \in Loop, NEW q \in Run, ResumeRun(l, q) PROVE StaysUndone(r, s)
  BY <1>1, <1>3 DEF ResumeRun, coordVars, StaysUndone
<1>4. ASSUME NEW l \in Loop, NEW q \in Run, NEW v \in Stage, RetryStage(l, q, v)
      PROVE  StaysUndone(r, s)
  BY <1>1, <1>4 DEF RetryStage, coordVars, StaysUndone
<1>5. ASSUME NEW q \in Run, CancelRun(q) PROVE StaysUndone(r, s)
  <2>1. Dead(tasks'[<<r, s>>].status)
    BY <1>1, <1>5, DeadTaskSteps DEF CancelRun
  <2>2. execution' = [execution EXCEPT ![q] = "cancelled"]
    BY <1>5 DEF CancelRun
  <2> QED
    BY <1>1, <2>1, <2>2 DEF StaysUndone
<1>6. ASSUME NEW q \in Run, NEW p \in Person, ApproveExecute(q, p) PROVE StaysUndone(r, s)
  <2>1. /\ execution' = execution /\ q \in Run /\ <<q, Execute>> \in StageTask
        /\ tasks' = [tasks EXCEPT ![<<q, Execute>>] =
                       Coord!Approved(tasks[<<q, Execute>>], <<q, Execute>>, p)]
    BY <1>6, StageFacts DEF ApproveExecute, StageTask
  <2>2. CASE <<q, Execute>> # <<r, s>>
    BY <1>1, <2>1, <2>2 DEF StaysUndone
  <2>3. CASE <<q, Execute>> = <<r, s>>
    <3>1. ~Coord!NeedsApproval(<<q, Execute>>)
      BY <2>1, <2>3 DEF Coord!NeedsApproval, Gated
    <3>2. tasks'[<<r, s>>] = tasks[<<r, s>>]
      BY <1>1, <2>1, <2>3, <3>1 DEF Coord!Approved
    <3> QED
      BY <1>1, <2>1, <3>2 DEF StaysUndone
  <2> QED
    BY <2>2, <2>3
<1> QED
  BY <1>2, <1>3, <1>4, <1>5, <1>6 DEF OperatorStep

LEMMA LoopsUndoNothing ==
    ASSUME Inv, NEW l \in Loop, LoopStep(l), NEW r \in Started, NEW s \in Stage, ~Gated(r, s),
           Dead(tasks[<<r, s>>].status)
    PROVE  StaysUndone(r, s)
<1>1. /\ MapsTyped /\ r \in Run /\ <<r, s>> \in StageTask /\ execution[r] # "absent"
      /\ execution \in [Run -> Coord!ExecutionStatuses] /\ tasks \in [StageTask -> Coord!TaskRecord]
  BY DEF Inv, Started, StageTask, MapsTyped
<1>2. loops[l].pc # "idle" => loops[l].run \in Started /\ loops[l].run \in Run
  BY DEF Inv, LoopsInv, LoopOK, Started
<1>3. loops[l].pc = "calling" => loops[l].at \in Stage
  BY DEF Inv, LoopsInv, LoopOK
<1>4. CASE StartSaved(l) \/ StartNotSaved(l) \/ EnterLoop(l) \/ CallRunner(l)
           \/ StageNotSaved(l) \/ EndLoop(l)
  BY <1>1, <1>4 DEF StartSaved, StartNotSaved, EnterLoop, CallRunner, StageNotSaved, EndLoop,
                    coordVars, StaysUndone
<1>5. ASSUME NEW v \in Stage, StopForApproval(l, v) \/ BeginStage(l, v)
      PROVE  StaysUndone(r, s)
  BY <1>1, <1>5 DEF StopForApproval, BeginStage, coordVars, StaysUndone
<1>6. ASSUME NEW v \in Stage, GiveUp(l, v) PROVE StaysUndone(r, s)
  BY <1>1, <1>2, <1>6, FailStageUndone DEF GiveUp
<1>7. CASE StageFails(l)
  BY <1>1, <1>2, <1>3, <1>7, FailStageUndone DEF StageFails
<1>8. CASE FinishStages(l)
  <2>1. PICK q : q = loops[l].run /\ q \in Run
    BY <1>2, <1>8 DEF FinishStages
  <2>2. tasks' = tasks /\ execution' = [execution EXCEPT ![q] = Coord!FanInStatus(tasks, TasksOf(q))]
    BY <1>8, <2>1 DEF FinishStages, FanIn
  <2>3. /\ Coord!FanInStatus(tasks, TasksOf(r)) # "completed"
        /\ Coord!FanInStatus(tasks, TasksOf(r)) # "absent"
    BY <1>1, FanInSeesDead, FanInFacts DEF Coord!ExecutionStatuses
  <2> QED
    BY <1>1, <2>1, <2>2, <2>3 DEF StaysUndone
<1>9. CASE StageSucceeds(l)
  <2>1. PICK t, w : t = <<loops[l].run, loops[l].at>> /\ w = loops[l].assignee /\ t \in StageTask
    BY <1>2, <1>3, <1>9 DEF StageSucceeds, StageTask
  <2>2. /\ execution' = execution
        /\ tasks' = tasks \/ tasks' = Coord!CompleteTasks(tasks, t, w)
    BY <1>9, <2>1 DEF StageSucceeds
  <2>3. Dead(tasks'[<<r, s>>].status)
    BY <1>1, <2>1, <2>2, DeadTaskSteps
  <2> QED
    BY <1>1, <2>2, <2>3 DEF StaysUndone
<1> QED
  BY <1>4, <1>5, <1>6, <1>7, <1>8, <1>9 DEF LoopStep

(* Whatever is resumed, retried or approved, a task that is not behind an       *)
(* approval and was cancelled or failed stays so, and its execution does not    *)
(* become completed.                                                         *)
THEOREM NothingIsRedone == Spec => UndoneStays
<1>1. ASSUME Inv, [Next]_vars, NEW r \in Run, NEW s \in Stage, Undone(r, s)
      PROVE  Undone(r, s)' /\ (execution'[r] = "completed" => execution[r] = "completed")
  <2>1. r \in Started /\ ~Gated(r, s) /\ Dead(tasks[<<r, s>>].status)
    BY <1>1 DEF Undone, Dead
  <2>2. CASE UNCHANGED vars
    BY <1>1, <2>2 DEF vars, Undone, Started, Gated
  <2>3. CASE Next
    <3>1. StaysUndone(r, s)
      BY <1>1, <2>1, <2>3, OperatorsUndoNothing, LoopsUndoNothing DEF Next
    <3> QED
      BY <2>1, <3>1 DEF StaysUndone, Undone, Dead, Started, Gated
  <2> QED
    BY <1>1, <2>2, <2>3
<1>2. Inv /\ [Next]_vars =>
         [\A r \in Run, s \in Stage :
             Undone(r, s) => /\ Undone(r, s)'
                             /\ execution'[r] = "completed" => execution[r] = "completed"]_vars
  BY <1>1
<1> QED
  BY <1>2, SpecInv, PTL DEF Spec, UndoneStays
=============================================================================
