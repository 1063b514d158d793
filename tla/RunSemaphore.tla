---------------------------- MODULE RunSemaphore ----------------------------
(***************************************************************************)
(* The run-concurrency semaphore of ColonySwarmRuntime                     *)
(* (src/orchestrator/swarm.ts: _activeRunCount, _runQueue,                 *)
(* _acquireRunSlot, _releaseRunSlot).                                      *)
(*                                                                         *)
(* A caller is one activation of _runLlmStages or _runPersistedLlmStages.  *)
(* It awaits a slot before its stage loop and gives the slot back in the   *)
(* loop's finally block.  A slot handed over by a release is counted at    *)
(* once, but its new owner only goes on when its await is resumed: the     *)
(* state "granted" lies between the two.                                   *)
(***************************************************************************)
EXTENDS Integers, Sequences, FiniteSets

CONSTANTS
    Caller,        \* activations of a stage loop
    RequestedMax   \* the option maxConcurrentRuns

ASSUME RequestedMaxIsInt == RequestedMax \in Int
ASSUME CallerIsFinite == IsFiniteSet(Caller)

VARIABLES
    activeRunCount,   \* _activeRunCount
    runQueue,         \* _runQueue: the callers whose promise is unresolved
    slot              \* where each caller is with respect to the semaphore

semVars == <<activeRunCount, runQueue, slot>>

SlotStates == {"idle", "queued", "granted", "holding"}

(* Math.max(1, options.maxConcurrentRuns): a runtime has at least one slot. *)
MaxConcurrentRuns == IF RequestedMax > 1 THEN RequestedMax ELSE 1

(* The callers the counter accounts for. *)
Owners == {c \in Caller : slot[c] \in {"granted", "holding"}}

-----------------------------------------------------------------------------
(* Plausible slips in the two methods, each caught by a property below.     *)

(* Admission compares with <= instead of <. *)
HasFreeSlotOffByOne == activeRunCount <= MaxConcurrentRuns

(* The release resolves the youngest waiter instead of the oldest. *)
NextWaiterLast == runQueue[Len(runQueue)]

(* The release hands the slot over without taking the waiter off the queue. *)
QueueAfterReleaseKept == runQueue

(* The release forgets the waiters: a freed slot only serves later callers. *)
ReleaseWithoutHandOver(c) ==
    /\ slot[c] = "holding"
    /\ activeRunCount' = activeRunCount - 1
    /\ slot' = [slot EXCEPT ![c] = "idle"]
    /\ UNCHANGED runQueue

-----------------------------------------------------------------------------
SemInit ==
    /\ activeRunCount = 0
    /\ runQueue = <<>>
    /\ slot = [c \in Caller |-> "idle"]

HasFreeSlot == activeRunCount < MaxConcurrentRuns

(* _acquireRunSlot: take a free slot, or queue behind the earlier callers. *)
Acquire(c) ==
    /\ slot[c] = "idle"
    /\ \/ /\ HasFreeSlot
          /\ activeRunCount' = activeRunCount + 1
          /\ slot' = [slot EXCEPT ![c] = "granted"]
          /\ UNCHANGED runQueue
       \/ /\ ~HasFreeSlot
          /\ runQueue' = Append(runQueue, c)
          /\ slot' = [slot EXCEPT ![c] = "queued"]
          /\ UNCHANGED activeRunCount

(* The awaited promise resumes its caller. *)
Enter(c) ==
    /\ slot[c] = "granted"
    /\ slot' = [slot EXCEPT ![c] = "holding"]
    /\ UNCHANGED <<activeRunCount, runQueue>>

(* Math.max(0, _activeRunCount - 1) *)
Decremented == IF activeRunCount > 0 THEN activeRunCount - 1 ELSE 0

NextWaiter == Head(runQueue)

QueueAfterRelease == Tail(runQueue)

(* _releaseRunSlot: the freed slot goes straight to the oldest waiter.      *)
Release(c) ==
    /\ slot[c] = "holding"
    /\ \/ /\ runQueue = <<>>
          /\ activeRunCount' = Decremented
          /\ slot' = [slot EXCEPT ![c] = "idle"]
          /\ UNCHANGED runQueue
       \/ /\ runQueue # <<>>
          /\ activeRunCount' = Decremented + 1
          /\ runQueue' = QueueAfterRelease
          /\ slot' = [slot EXCEPT ![c] = "idle", ![NextWaiter] = "granted"]

SemNext == \E c \in Caller : Acquire(c) \/ Enter(c) \/ Release(c)

SemSpec == SemInit /\ [][SemNext]_semVars

(***************************************************************************)
(* The event loop resumes a resolved await, and a stage loop ends (every   *)
(* stage it awaits settles), reaching its finally block.                   *)
(***************************************************************************)
SemFairness ==
    \A c \in Caller : WF_semVars(Enter(c)) /\ WF_semVars(Release(c))

FairSemSpec == SemSpec /\ SemFairness

-----------------------------------------------------------------------------
(* Type invariant of the counter, the queue and the callers. *)
TypeOK ==
    /\ activeRunCount \in 0..MaxConcurrentRuns
    /\ runQueue \in Seq(Caller)
    /\ slot \in [Caller -> SlotStates]

(* Concurrency limit of swarm runs: however calls start, queue and end, at   *)
(* most MaxConcurrentRuns stage loops own a slot at any time.               *)
SlotBound == Cardinality(Owners) <= MaxConcurrentRuns

(* No slot is lost or kept back by a hand-over: while a run waits, every     *)
(* slot has a distinct owner.                                               *)
WorkConserving ==
    runQueue # <<>> => Cardinality(Owners) = MaxConcurrentRuns

(* The caller c waits in front of d. *)
Precedes(c, d) ==
    \E i, j \in 1..Len(runQueue) : i < j /\ runQueue[i] = c /\ runQueue[j] = d

(* Slots are granted in the order of the calls: _releaseRunSlot never lets a *)
(* run overtake one that was queued before it.                              *)
NoOvertaking ==
    [][\A c, d \in Caller :
          (Precedes(c, d) /\ slot'[d] # "queued") => slot'[c] # "queued"]_semVars

(* A queued run is not starved: it gets a slot and enters its stage loop.    *)
EveryQueuedRunStarts ==
    \A c \in Caller : slot[c] = "queued" ~> slot[c] = "holding"
=============================================================================
