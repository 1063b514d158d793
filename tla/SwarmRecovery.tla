---------------------------- MODULE SwarmRecovery ----------------------------
(***************************************************************************)
(* A swarm run that outlived the process that started it: only its          *)
(* snapshots in the journal are left (src/orchestrator/swarm.ts:            *)
(* JsonSwarmRunStore, loadPersistedRuns, and the branches of cancelRun,     *)
(* resumeRun and retryStage for runs that are not live).                   *)
(*                                                                         *)
(* Persisted runs share nothing but the journal file and the semaphore, so *)
(* one run is enough; the wait for a slot is a wait of any length.  The     *)
(* journal's reader keeps the last line of each run, so the file is the     *)
(* last line that was appended, whatever its sequence number says.         *)
(***************************************************************************)
EXTENDS Integers, FiniteSets

CONSTANTS
    Call,              \* operations that may be under way at the same time
    NoSnapshot,
    Left,              \* the snapshots a live run may have left behind
    MaxAttempts, RetryLimit,
    MaxCalls           \* bound: operations called, crashes included

Plan == 1
Execute == 2
Review == 3
Stage == Plan..Review

StageStatuses ==
    {"pending", "running", "awaiting_approval", "completed", "failed", "cancelled"}

RunStatuses == {"running", "completed", "failed", "cancelled"}

(* The highest attempt number the loops may give. *)
MostAttempts == IF RetryLimit > MaxAttempts THEN RetryLimit ELSE MaxAttempts

Snapshot ==
    [status : RunStatuses,
     stages : [Stage -> [status : StageStatuses, attempts : 0..MostAttempts]]]

ASSUME RecoveryConstants ==
    /\ Left \subseteq Snapshot
    /\ NoSnapshot \notin Snapshot
    /\ MaxAttempts \in 1..5 /\ RetryLimit \in 1..5
    /\ MaxCalls \in Nat

(* A live run shows completed only when all its stages do (statusFromStages). *)
ASSUME LeftHonest ==
    \A sn \in Left : sn.status = "completed" =>
        \A s \in Stage : sn.stages[s].status = "completed"

VARIABLES
    journal,     \* the snapshot in the run's last line
    torn,        \* whether a crash left a line half written
    memory,      \* _persistedSnapshots: the run's entry
    act,         \* the operations under way
    calls,       \* bounded: operations and crashes so far
    succeeded,   \* history: the stages whose runner ever returned
    gate         \* history: the approval the execute stage was waiting for:
                 \* "none", "shut", or "reset" by a retry of the plan stage

vars == <<journal, torn, memory, act, calls, succeeded, gate>>

IdleCall ==
    [pc |-> "idle", snap |-> NoSnapshot, at |-> Plan, retry |-> FALSE]

Init ==
    /\ journal \in Left
    /\ torn = FALSE
    /\ memory = NoSnapshot
    /\ act = [c \in Call |-> IdleCall]
    /\ calls = 0
    /\ succeeded = {s \in Stage : journal.stages[s].status = "completed"}
    /\ gate = IF journal.stages[Execute].status = "awaiting_approval" THEN "shut" ELSE "none"

-----------------------------------------------------------------------------
(* What the code makes of a snapshot. *)

(* upsertPersistedStage: the run's status follows from its stages, and a       *)
(* cancelled stage does not count.                                           *)
Upsert(sn, s, stage) ==
    LET st == [sn.stages EXCEPT ![s] = stage]
    IN  [stages |-> st,
         status |->
            CASE \E x \in Stage : st[x].status = "failed" -> "failed"
              [] \A x \in Stage : st[x].status = "completed" -> "completed"
              [] OTHER -> "running"]

(* A mistake: the stages are cancelled, the run's own status is recomputed. *)
CancelledByStages(sn) ==
    Upsert(sn, Plan, IF sn.stages[Plan].status = "completed" THEN sn.stages[Plan]
                     ELSE [sn.stages[Plan] EXCEPT !.status = "cancelled"])

(* cancelPersistedSnapshot *)
Cancelled(sn) ==
    [status |-> "cancelled",
     stages |-> [s \in Stage |->
        IF sn.stages[s].status \in {"completed", "failed", "cancelled"}
        THEN sn.stages[s] ELSE [sn.stages[s] EXCEPT !.status = "cancelled"]]]

(* resetPersistedStageAndDependents *)
Reset(sn, from) ==
    [status |-> "running",
     stages |-> [s \in Stage |->
        CASE s < from -> sn.stages[s]
          [] s = from -> [status |-> "pending", attempts |-> sn.stages[s].attempts]
          [] s > from -> [status |-> "pending", attempts |-> 0]]]

(* preservePersistedApprovalWait *)
KeepWaiting(sn, s) == Upsert(sn, s, [sn.stages[s] EXCEPT !.status = "awaiting_approval"])

(* A stage that is begun, and one whose runner returned. *)
Begun(sn, s) ==
    Upsert(sn, s, [status |-> "running", attempts |-> sn.stages[s].attempts + 1])

StageCompleted(sn, s) == Upsert(sn, s, [sn.stages[s] EXCEPT !.status = "completed"])

(* withPersistedStageFailure *)
StageFailed(sn, s) == Upsert(sn, s, [sn.stages[s] EXCEPT !.status = "failed"])

(* A mistake: the limit is compared with the attempts made, not the next one. *)
ExhaustedLate(c, s) ==
    act[c].snap.stages[s].attempts > (IF act[c].retry THEN RetryLimit ELSE MaxAttempts)

(* A mistake: whatever the loop brought to its end is a completed run. *)
FinalizedAlways(sn) == [sn EXCEPT !.status = "completed"]

(* finalizePersistedSnapshot *)
Finalized(sn) ==
    [sn EXCEPT !.status =
        IF \A s \in Stage : sn.stages[s].status = "completed" THEN "completed" ELSE @]

(* A mistake: a retry resets the stage whatever its state. *)
RetriedAlways(sn, s) == Reset(sn, s)

(* What retryStage starts from: an open approval request is kept. *)
Retried(sn, s) ==
    IF sn.stages[s].status = "awaiting_approval" THEN KeepWaiting(sn, s)
    ELSE Reset(sn, s)

-----------------------------------------------------------------------------
(* The operations. *)

Begin(c) ==
    /\ act[c] = IdleCall
    /\ calls < MaxCalls
    /\ calls' = calls + 1

(* _saveSnapshot: memory first, then the append, which takes its time. *)
Save(c, sn) ==
    /\ memory' = sn
    /\ act' = [act EXCEPT ![c] = [IdleCall EXCEPT !.pc = "saving", !.snap = sn]]

(* The line is appended, ... *)
SaveLands(c) ==
    /\ act[c].pc = "saving"
    /\ journal' = act[c].snap
    /\ act' = [act EXCEPT ![c] = IdleCall]
    /\ UNCHANGED <<torn, memory, calls, succeeded, gate>>

(* ... or the operation rejects: memory keeps what the journal does not have. *)
SaveFails(c) ==
    /\ act[c].pc = "saving"
    /\ act' = [act EXCEPT ![c] = IdleCall]
    /\ UNCHANGED <<journal, torn, memory, calls, succeeded, gate>>

(* loadPersistedRuns reads the journal, which must not hold a broken line, ... *)
ReadJournal(c) ==
    /\ Begin(c)
    /\ ~torn
    /\ act' = [act EXCEPT ![c] = [IdleCall EXCEPT !.pc = "loaded", !.snap = journal]]
    /\ UNCHANGED <<journal, torn, memory, succeeded, gate>>

(* ... and later replaces what is in memory by what it read. *)
InstallLoaded(c) ==
    /\ act[c].pc = "loaded"
    /\ memory' = act[c].snap
    /\ act' = [act EXCEPT ![c] = IdleCall]
    /\ UNCHANGED <<journal, torn, calls, succeeded, gate>>

CancelRun(c) ==
    /\ Begin(c)
    /\ memory # NoSnapshot
    /\ Save(c, Cancelled(memory))
    /\ UNCHANGED <<journal, torn, succeeded, gate>>

(* _runPersistedLlmStages works on a snapshot of its own from here on. *)
Launch(c, sn, from, retry) ==
    act' = [act EXCEPT ![c] = [pc |-> "head", snap |-> sn, at |-> from, retry |-> retry]]

Resumable(sn) == sn.status \notin {"completed", "cancelled"}

ResumeRun(c) ==
    /\ Begin(c)
    /\ memory # NoSnapshot
    /\ Resumable(memory)
    /\ Launch(c, memory, Plan, FALSE)
    /\ UNCHANGED <<journal, torn, memory, succeeded, gate>>

RetryStage(c, s) ==
    /\ Begin(c)
    /\ memory # NoSnapshot
    /\ memory.status # "cancelled"
    /\ Launch(c, Retried(memory, s), s, TRUE)
    /\ gate' = IF s < Execute /\ gate = "shut" THEN "reset" ELSE gate
    /\ UNCHANGED <<journal, torn, memory, succeeded>>

-----------------------------------------------------------------------------
(* The stage loop of a persisted run. *)

(* Where the for statement stops next: completed stages are skipped. *)
Open(c) == {s \in act[c].at..Review : act[c].snap.stages[s].status # "completed"}

AtHead(c, s) ==
    /\ act[c].pc = "head"
    /\ s \in Open(c) /\ \A o \in Open(c) : s <= o

AttemptLimit(c) == IF act[c].retry THEN RetryLimit ELSE MaxAttempts

Exhausted(c, s) == act[c].snap.stages[s].attempts + 1 > AttemptLimit(c)

AwaitsApproval(c, s) == act[c].snap.stages[s].status = "awaiting_approval"

StopForApproval(c, s) ==
    /\ AtHead(c, s)
    /\ AwaitsApproval(c, s)
    /\ Save(c, KeepWaiting(act[c].snap, s))
    /\ UNCHANGED <<journal, torn, calls, succeeded, gate>>

GiveUp(c, s) ==
    /\ AtHead(c, s)
    /\ ~AwaitsApproval(c, s)
    /\ Exhausted(c, s)
    /\ Save(c, StageFailed(act[c].snap, s))
    /\ UNCHANGED <<journal, torn, calls, succeeded, gate>>

(* The running stage is not saved before the runner is called. *)
BeginStage(c, s) ==
    /\ AtHead(c, s)
    /\ ~AwaitsApproval(c, s)
    /\ ~Exhausted(c, s)
    /\ act' = [act EXCEPT ![c] =
          [act[c] EXCEPT !.pc = "calling", !.at = s,
                         !.snap = Begun(act[c].snap, s)]]
    /\ UNCHANGED <<journal, torn, memory, calls, succeeded, gate>>

StageSucceeds(c) ==
    LET s == act[c].at
    IN  /\ act[c].pc = "calling"
        /\ act' = [act EXCEPT ![c] =
              [act[c] EXCEPT !.pc = "head", !.at = s + 1,
                             !.snap = StageCompleted(act[c].snap, s)]]
        /\ succeeded' = succeeded \cup {s}
        /\ UNCHANGED <<journal, torn, memory, calls, gate>>

StageFails(c) ==
    /\ act[c].pc = "calling"
    /\ Save(c, StageFailed(act[c].snap, act[c].at))
    /\ UNCHANGED <<journal, torn, calls, succeeded, gate>>

(* The loop comes to its end, and its snapshot replaces the one in memory.    *)
FinishStages(c) ==
    /\ act[c].pc = "head" /\ Open(c) = {}
    /\ Save(c, Finalized(act[c].snap))
    /\ UNCHANGED <<journal, torn, calls, succeeded, gate>>

-----------------------------------------------------------------------------
(* The process dies: operations and memory are gone, and a line that was being *)
(* appended may be left half written.                                        *)
Crash ==
    /\ calls < MaxCalls
    /\ calls' = calls + 1
    /\ memory' = NoSnapshot
    /\ act' = [c \in Call |-> IdleCall]
    /\ \/ UNCHANGED torn
       \/ (\E c \in Call : act[c].pc = "saving") /\ torn' = TRUE
    /\ UNCHANGED <<journal, succeeded, gate>>

Next ==
    \/ Crash
    \/ \E c \in Call :
          \/ SaveLands(c) \/ SaveFails(c)
          \/ ReadJournal(c) \/ InstallLoaded(c)
          \/ CancelRun(c) \/ ResumeRun(c)
          \/ \E s \in Stage : RetryStage(c, s)
          \/ \E s \in Stage : StopForApproval(c, s) \/ GiveUp(c, s) \/ BeginStage(c, s)
          \/ StageSucceeds(c) \/ StageFails(c) \/ FinishStages(c)

Spec == Init /\ [][Next]_vars

-----------------------------------------------------------------------------
Calling(s) == \E c \in Call : act[c].pc = "calling" /\ act[c].at = s

(* Everywhere a snapshot of the run may be found. *)
Snapshots == {journal, memory} \cup {act[c].snap : c \in Call}

(* Type invariant of the snapshots and of the operations under way; no stage   *)
(* counts more attempts than an explicit retry may reach, however often it is  *)
(* retried, loaded and retried again.                                        *)
TypeOK ==
    /\ Snapshots \subseteq Snapshot \cup {NoSnapshot}
    /\ \A c \in Call :
          /\ act[c].pc \in {"idle", "saving", "loaded", "head", "calling"}
          /\ act[c].at \in Plan..(Review + 1) /\ act[c].retry \in BOOLEAN
          /\ act[c].pc # "idle" <=> act[c].snap # NoSnapshot
    /\ torn \in BOOLEAN /\ gate \in {"none", "shut", "reset"}
    /\ calls \in 0..MaxCalls /\ succeeded \subseteq Stage

(* The approval gate of a run that was waiting for its approval when its        *)
(* process died: the execute stage runs unapproved only after somebody retried *)
(* the plan stage.  Resuming, retrying execute or review, crashing and loading *)
(* in any order keep the gate shut (preservePersistedApprovalWait).           *)
GateOpensOnlyByRetry == Calling(Execute) => gate # "shut"

(* No snapshot of the run, wherever it is kept, says completed unless the       *)
(* runner succeeded for every stage: not after a crash, a load of an older     *)
(* snapshot, a retry or a cancellation at the wrong moment.                   *)
CompletionHonest ==
    \A sn \in Snapshots \ {NoSnapshot} :
        sn.status = "completed" => succeeded = Stage

(* The run is cancelled, in memory and in the journal, and nothing is under     *)
(* way for it.                                                               *)
CancelSettled ==
    /\ journal.status = "cancelled"
    /\ memory # NoSnapshot => memory.status = "cancelled"
    /\ \A c \in Call : act[c].pc = "idle"

(* A cancellation that was saved with nothing under way is final: no sequence   *)
(* of loads, resumptions, retries and crashes calls the runner again.          *)
CancelIsFinal == [](CancelSettled => [](\A s \in Stage : ~Calling(s)))

(* documentation/swarm.md, Approval gates inside a swarm: "With                 *)
(* approvalRequired: true on the run, the execute stage itself requires        *)
(* explicit approval before starting."  Nobody approved the runs of this       *)
(* module: a persisted run cannot be approved.                                *)
ExecuteNeedsApproval == Calling(Execute) => gate = "none"
=============================================================================
