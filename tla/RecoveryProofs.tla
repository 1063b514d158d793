--------------------------- MODULE RecoveryProofs ---------------------------
(***************************************************************************)
(* A persisted swarm run, for any number of operations under way, of calls *)
(* and of crashes, and whatever snapshot the live run left: its gate opens *)
(* only by a retry, completion is honest, a settled cancellation is final,  *)
(* and a torn journal is the end of it.                                    *)
(***************************************************************************)
EXTENDS SwarmRecovery, TLAPS

StageRecord == [status : StageStatuses, attempts : 0..MostAttempts]

CallRecord ==
    [pc : {"idle", "saving", "loaded", "head", "calling"},
     snap : Snapshot \cup {NoSnapshot}, at : Plan..(Review + 1), retry : BOOLEAN]

(* A snapshot calls completed only what succeeded (done); while the approval    *)
(* is shut off, its execute stage waits for it or the run is cancelled.       *)
SnapshotOK(sn, done, shut) ==
    /\ sn \in Snapshot
    /\ \A s \in Stage : sn.stages[s].status = "completed" => s \in done
    /\ sn.status = "completed" => \A s \in Stage : sn.stages[s].status = "completed"
    /\ shut => sn.stages[Execute].status = "awaiting_approval" \/ sn.status = "cancelled"

(* A loop never works on a cancelled snapshot: behind a shut gate its execute   *)
(* stage waits.                                                              *)
WorkingOK(rec, shut) ==
    /\ shut => rec.snap.stages[Execute].status = "awaiting_approval"
    /\ rec.pc = "calling" => rec.at \in Stage /\ (shut => rec.at # Execute)

CallOK(rec, done, shut) ==
    /\ rec \in CallRecord
    /\ rec.pc # "idle" <=> rec.snap # NoSnapshot
    /\ rec.pc # "idle" => SnapshotOK(rec.snap, done, shut)
    /\ rec.pc \in {"head", "calling"} => WorkingOK(rec, shut)

Inv ==
    /\ SnapshotOK(journal, succeeded, gate = "shut")
    /\ memory # NoSnapshot => SnapshotOK(memory, succeeded, gate = "shut")
    /\ act \in [Call -> CallRecord]
    /\ \A c \in Call : CallOK(act[c], succeeded, gate = "shut")
    /\ torn \in BOOLEAN /\ gate \in {"none", "shut", "reset"}
    /\ calls \in 0..MaxCalls /\ succeeded \subseteq Stage

-----------------------------------------------------------------------------
LEMMA StageFacts ==
    /\ Stage = {1, 2, 3} /\ Plan = 1 /\ Execute = 2 /\ Review = 3
    /\ MostAttempts \in Nat /\ MaxAttempts \in 1..MostAttempts /\ RetryLimit \in 1..MostAttempts
  BY RecoveryConstants DEF Stage, Plan, Execute, Review, MostAttempts

(* A snapshot in its two parts *)
LEMMA SnapshotParts ==
    /\ \A sn \in Snapshot : sn.status \in RunStatuses /\ sn.stages \in [Stage -> StageRecord]
    /\ \A st \in RunStatuses, m \in [Stage -> StageRecord] :
          [status |-> st, stages |-> m] \in Snapshot
  BY DEF Snapshot, StageRecord

(* upsertPersistedStage *)
LEMMA UpsertFacts ==
    ASSUME NEW sn \in Snapshot, NEW s \in Stage, NEW stage \in StageRecord,
           NEW new, new = Upsert(sn, s, stage)
    PROVE  /\ new \in Snapshot /\ new.stages = [sn.stages EXCEPT ![s] = stage]
           /\ new.status = "completed" => \A x \in Stage : new.stages[x].status = "completed"
<1>1. PICK m : m = [sn.stages EXCEPT ![s] = stage]
  OBVIOUS
<1>2. m \in [Stage -> StageRecord]
  BY <1>1, SnapshotParts
<1>3. PICK st : st = CASE \E x \in Stage : m[x].status = "failed" -> "failed"
                       [] \A x \in Stage : m[x].status = "completed" -> "completed"
                       [] OTHER -> "running"
  OBVIOUS
<1>4. new = [stages |-> m, status |-> st]
  BY <1>1, <1>3 DEF Upsert
<1>5. st \in RunStatuses /\ (st = "completed" => \A x \in Stage : m[x].status = "completed")
  <2>1. CASE \E x \in Stage : m[x].status = "failed"
    <3>1. ~\A x \in Stage : m[x].status = "completed"
      BY <2>1
    <3> QED
      BY <1>3, <2>1, <3>1 DEF RunStatuses
  <2>2. CASE ~\E x \in Stage : m[x].status = "failed"
    BY <1>3, <2>2 DEF RunStatuses
  <2> QED
    BY <2>1, <2>2
<1> QED
  BY <1>1, <1>2, <1>4, <1>5, SnapshotParts

(* A stage entered into a snapshot keeps it sound if the entry is. *)
LEMMA UpsertOK ==
    ASSUME NEW sn, NEW done, NEW shut \in BOOLEAN, SnapshotOK(sn, done, shut),
           NEW s \in Stage, NEW stage \in StageRecord,
           NEW later, done \subseteq later, stage.status = "completed" => s \in later,
           shut => /\ sn.stages[Execute].status = "awaiting_approval"
                   /\ s = Execute => stage.status = "awaiting_approval",
           NEW new, new = Upsert(sn, s, stage)
    PROVE  /\ SnapshotOK(new, later, shut)
           /\ shut => new.stages[Execute].status = "awaiting_approval"
<1>1. sn \in Snapshot /\ sn.stages \in [Stage -> StageRecord] /\ Execute \in Stage
  BY SnapshotParts, StageFacts DEF SnapshotOK
<1>2. /\ new \in Snapshot /\ new.stages = [sn.stages EXCEPT ![s] = stage]
      /\ new.status = "completed" => \A x \in Stage : new.stages[x].status = "completed"
  BY <1>1, UpsertFacts
<1>3. \A x \in Stage : new.stages[x] = IF x = s THEN stage ELSE sn.stages[x]
  BY <1>1, <1>2
<1> QED
  BY <1>1, <1>2, <1>3 DEF SnapshotOK

LEMMA StageChanges ==
    ASSUME NEW stage \in StageRecord, NEW st \in StageStatuses,
           NEW new, new = [stage EXCEPT !.status = st]
    PROVE  new \in StageRecord /\ new.status = st /\ new.attempts = stage.attempts
  BY DEF StageRecord

LEMMA StatusesAre ==
    {"pending", "running", "awaiting_approval", "completed", "failed", "cancelled"} = StageStatuses
  BY DEF StageStatuses

(* preservePersistedApprovalWait and withPersistedStageFailure *)
LEMMA WaitAndFail ==
    ASSUME NEW sn, NEW done, NEW shut \in BOOLEAN, SnapshotOK(sn, done, shut), NEW s \in Stage,
           shut => sn.stages[Execute].status = "awaiting_approval"
    PROVE  /\ SnapshotOK(KeepWaiting(sn, s), done, shut)
           /\ shut => KeepWaiting(sn, s).stages[Execute].status = "awaiting_approval"
           /\ (shut => s # Execute) => SnapshotOK(StageFailed(sn, s), done, shut)
<1>1. sn.stages \in [Stage -> StageRecord]
  BY SnapshotParts DEF SnapshotOK
<1>2. PICK w, f : /\ w = [sn.stages[s] EXCEPT !.status = "awaiting_approval"]
                  /\ f = [sn.stages[s] EXCEPT !.status = "failed"]
  OBVIOUS
<1>3. /\ w \in StageRecord /\ w.status = "awaiting_approval"
      /\ f \in StageRecord /\ f.status = "failed"
  <2>1. sn.stages[s] \in StageRecord
    BY <1>1
  <2> QED
    BY <1>2, <2>1, StageChanges, StatusesAre
<1>4. KeepWaiting(sn, s) = Upsert(sn, s, w) /\ StageFailed(sn, s) = Upsert(sn, s, f)
  BY <1>2 DEF KeepWaiting, StageFailed
<1>5. PICK kept, failed : kept = Upsert(sn, s, w) /\ failed = Upsert(sn, s, f)
  OBVIOUS
<1>6. SnapshotOK(kept, done, shut) /\ (shut => kept.stages[Execute].status = "awaiting_approval")
  BY <1>3, <1>5, UpsertOK
<1>7. ASSUME shut => s # Execute
      PROVE  SnapshotOK(failed, done, shut)
  BY <1>3, <1>5, <1>7, UpsertOK
<1> QED
  BY <1>4, <1>5, <1>6, <1>7

(* cancelPersistedSnapshot *)
LEMMA CancelledOK ==
    ASSUME NEW sn, NEW done, NEW shut \in BOOLEAN, SnapshotOK(sn, done, shut),
           NEW new, new = Cancelled(sn)
    PROVE  SnapshotOK(new, done, shut) /\ new.status = "cancelled"
<1>1. sn.stages \in [Stage -> StageRecord]
  BY SnapshotParts DEF SnapshotOK
<1>2. PICK m : m = [s \in Stage |->
                      IF sn.stages[s].status \in {"completed", "failed", "cancelled"}
                      THEN sn.stages[s] ELSE [sn.stages[s] EXCEPT !.status = "cancelled"]]
  OBVIOUS
<1>3. new = [status |-> "cancelled", stages |-> m]
  BY <1>2 DEF Cancelled
<1>4. \A s \in Stage : /\ m[s] \in StageRecord
                       /\ m[s].status = "completed" => sn.stages[s].status = "completed"
  <2> SUFFICES ASSUME NEW s \in Stage
               PROVE  /\ m[s] \in StageRecord
                      /\ m[s].status = "completed" => sn.stages[s].status = "completed"
    OBVIOUS
  <2>1. sn.stages[s] \in StageRecord
    BY <1>1
  <2>2. m[s] = sn.stages[s] \/ m[s] = [sn.stages[s] EXCEPT !.status = "cancelled"]
    BY <1>2
  <2> QED
    BY <2>1, <2>2, StageChanges, StatusesAre
<1>5. m \in [Stage -> StageRecord]
  BY <1>2, <1>4
<1>6. new \in Snapshot
  BY <1>3, <1>5, SnapshotParts DEF RunStatuses
<1> QED
  BY <1>3, <1>4, <1>6 DEF SnapshotOK

(* resetPersistedStageAndDependents: a reset of plan opens the gate. *)
LEMMA ResetOK ==
    ASSUME NEW sn, NEW done, NEW shut \in BOOLEAN, SnapshotOK(sn, done, shut), NEW from \in Stage,
           shut => from > Execute /\ sn.stages[Execute].status = "awaiting_approval",
           NEW new, new = Reset(sn, from)
    PROVE  /\ SnapshotOK(new, done, shut)
           /\ shut => new.stages[Execute].status = "awaiting_approval"
<1>1. sn.stages \in [Stage -> StageRecord]
  BY SnapshotParts DEF SnapshotOK
<1>2. PICK m : m = [s \in Stage |->
                      CASE s < from -> sn.stages[s]
                        [] s = from -> [status |-> "pending", attempts |-> sn.stages[s].attempts]
                        [] s > from -> [status |-> "pending", attempts |-> 0]]
  OBVIOUS
<1>3. new = [status |-> "running", stages |-> m]
  BY <1>2 DEF Reset
<1>4. \A s \in Stage :
         /\ m[s] \in StageRecord
         /\ m[s] = sn.stages[s] \/ m[s].status = "pending"
         /\ s < from => m[s] = sn.stages[s]
  <2> SUFFICES ASSUME NEW s \in Stage
               PROVE  /\ m[s] \in StageRecord
                      /\ m[s] = sn.stages[s] \/ m[s].status = "pending"
                      /\ s < from => m[s] = sn.stages[s]
    OBVIOUS
  <2>1. sn.stages[s] \in StageRecord /\ s \in {1, 2, 3} /\ from \in {1, 2, 3}
    BY <1>1, StageFacts
  <2>2. CASE s < from
    BY <1>2, <2>1, <2>2
  <2>3. CASE s = from
    <3>1. m[s] = [status |-> "pending", attempts |-> sn.stages[s].attempts]
      BY <1>2, <2>1, <2>3
    <3> QED
      BY <2>1, <2>3, <3>1 DEF StageRecord, StageStatuses
  <2>4. CASE s > from
    <3>1. m[s] = [status |-> "pending", attempts |-> 0]
      BY <1>2, <2>1, <2>4
    <3> QED
      BY <2>1, <2>4, <3>1, StageFacts DEF StageRecord, StageStatuses
  <2> QED
    BY <2>1, <2>2, <2>3, <2>4
<1>5. m \in [Stage -> StageRecord]
  BY <1>2, <1>4
<1>6. new \in Snapshot
  BY <1>3, <1>5, SnapshotParts DEF RunStatuses
<1>7. shut => new.stages[Execute].status = "awaiting_approval"
  BY <1>3, <1>4, StageFacts
<1> QED
  BY <1>3, <1>4, <1>6, <1>7 DEF SnapshotOK

(* finalizePersistedSnapshot *)
LEMMA FinalizedOK ==
    ASSUME NEW sn, NEW done, NEW shut \in BOOLEAN, SnapshotOK(sn, done, shut),
           shut => sn.stages[Execute].status = "awaiting_approval",
           NEW new, new = Finalized(sn)
    PROVE  SnapshotOK(new, done, shut)
<1>1. sn \in Snapshot
  BY DEF SnapshotOK
<1>2. PICK st : /\ st = IF \A s \in Stage : sn.stages[s].status = "completed"
                        THEN "completed" ELSE sn.status
                /\ new = [sn EXCEPT !.status = st]
  BY DEF Finalized
<1>3. st \in RunStatuses
  BY <1>1, <1>2, SnapshotParts DEF RunStatuses
<1>4. new \in Snapshot /\ new.stages = sn.stages /\ new.status = st
  BY <1>1, <1>2, <1>3 DEF Snapshot
<1> QED
  BY <1>2, <1>4 DEF SnapshotOK

(* The snapshot a retry starts from.  A retry of the execute stage keeps the    *)
(* approval request; one of the plan stage no longer counts as shut.          *)
LEMMA RetriedOK ==
    ASSUME NEW sn, NEW done, NEW shut \in BOOLEAN, SnapshotOK(sn, done, shut), NEW s \in Stage,
           sn.status # "cancelled",
           NEW still \in BOOLEAN, still <=> shut /\ ~(s < Execute),
           NEW new, new = Retried(sn, s)
    PROVE  /\ SnapshotOK(new, done, still)
           /\ still => new.stages[Execute].status = "awaiting_approval"
<1>1. SnapshotOK(sn, done, still) /\ (still => sn.stages[Execute].status = "awaiting_approval")
  BY DEF SnapshotOK
<1>2. CASE sn.stages[s].status = "awaiting_approval"
  BY <1>1, <1>2, WaitAndFail DEF Retried
<1>3. CASE sn.stages[s].status # "awaiting_approval"
  <2>1. still => s > Execute
    BY <1>1, <1>3, StageFacts
  <2>2. new = Reset(sn, s)
    BY <1>3 DEF Retried
  <2> QED
    BY <1>1, <2>1, <2>2, ResetOK
<1> QED
  BY <1>2, <1>3

-----------------------------------------------------------------------------
(* What no step takes back: successes, and an open gate. *)
Advances == succeeded \subseteq succeeded' /\ (gate' = "shut" => gate = "shut")

LEMMA SnapshotStays ==
    ASSUME Advances, NEW sn, SnapshotOK(sn, succeeded, gate = "shut")
    PROVE  SnapshotOK(sn, succeeded', gate' = "shut")
  BY DEF Advances, SnapshotOK

LEMMA CallStays ==
    ASSUME Advances, NEW rec, CallOK(rec, succeeded, gate = "shut")
    PROVE  CallOK(rec, succeeded', gate' = "shut")
<1>1. rec.pc # "idle" => SnapshotOK(rec.snap, succeeded', gate' = "shut")
  BY SnapshotStays DEF CallOK
<1> QED
  BY <1>1 DEF CallOK, WorkingOK, Advances

LEMMA CallMoves ==
    ASSUME Inv, Advances, NEW c \in Call, NEW rec, act' = [act EXCEPT ![c] = rec],
           CallOK(rec, succeeded', gate' = "shut")
    PROVE  /\ act' \in [Call -> CallRecord]
           /\ \A d \in Call : CallOK(act'[d], succeeded', gate' = "shut")
<1>1. act \in [Call -> CallRecord] /\ \A d \in Call : CallOK(act[d], succeeded, gate = "shut")
  BY DEF Inv
<1>2. act'[c] = rec /\ \A d \in Call \ {c} : act'[d] = act[d]
  BY <1>1
<1>3. rec \in CallRecord
  BY DEF CallOK
<1>4. \A d \in Call \ {c} : CallOK(act[d], succeeded', gate' = "shut")
  BY <1>1, CallStays
<1> QED
  BY <1>1, <1>2, <1>3, <1>4

LEMMA IdleCallOK ==
    /\ IdleCall \in CallRecord /\ IdleCall.pc = "idle" /\ IdleCall.snap = NoSnapshot
    /\ \A done, shut : CallOK(IdleCall, done, shut)
<1>1. IdleCall \in CallRecord /\ IdleCall.pc = "idle" /\ IdleCall.snap = NoSnapshot
  BY StageFacts DEF IdleCall, CallRecord
<1> QED
  BY <1>1 DEF CallOK

(* A call that holds a snapshot without working on it *)
LEMMA HoldingOK ==
    ASSUME NEW sn, NEW done, NEW shut \in BOOLEAN, SnapshotOK(sn, done, shut),
           NEW pc \in {"saving", "loaded"},
           NEW rec, rec = [IdleCall EXCEPT !.pc = pc, !.snap = sn]
    PROVE  CallOK(rec, done, shut)
<1>1. sn \in Snapshot /\ sn # NoSnapshot
  BY RecoveryConstants DEF SnapshotOK
<1>2. rec \in CallRecord /\ rec.pc = pc /\ rec.snap = sn
  BY <1>1, IdleCallOK DEF CallRecord
<1> QED
  BY <1>1, <1>2 DEF CallOK

(* A loop that is launched *)
LEMMA LaunchedOK ==
    ASSUME NEW sn, NEW done, NEW shut \in BOOLEAN, SnapshotOK(sn, done, shut),
           shut => sn.stages[Execute].status = "awaiting_approval",
           NEW from \in Stage, NEW retry \in BOOLEAN,
           NEW rec, rec = [pc |-> "head", snap |-> sn, at |-> from, retry |-> retry]
    PROVE  CallOK(rec, done, shut)
<1>1. sn \in Snapshot /\ sn # NoSnapshot
  BY RecoveryConstants DEF SnapshotOK
<1>2. rec \in CallRecord /\ rec.pc = "head" /\ rec.snap = sn
  BY <1>1, StageFacts DEF CallRecord
<1> QED
  BY <1>1, <1>2 DEF CallOK, WorkingOK

LEMMA SaveInv ==
    ASSUME Inv, NEW c \in Call, NEW sn, SnapshotOK(sn, succeeded, gate = "shut"),
           Save(c, sn), UNCHANGED <<journal, torn, succeeded, gate>>, calls' \in 0..MaxCalls
    PROVE  Inv'
<1>1. PICK rec : rec = [IdleCall EXCEPT !.pc = "saving", !.snap = sn]
  OBVIOUS
<1>2. (gate = "shut") \in BOOLEAN /\ "saving" \in {"saving", "loaded"}
  OBVIOUS
<1>3. CallOK(rec, succeeded, gate = "shut")
  BY <1>1, <1>2, HoldingOK
<1>4. Advances /\ act' = [act EXCEPT ![c] = rec] /\ memory' = sn
  BY <1>1 DEF Advances, Save
<1>5. /\ act' \in [Call -> CallRecord]
      /\ \A d \in Call : CallOK(act'[d], succeeded', gate' = "shut")
  BY <1>3, <1>4, CallMoves
<1> QED
  BY <1>4, <1>5 DEF Inv

(* A call comes to its end, or the loop of a call goes on. *)
LEMMA CallOnlyInv ==
    ASSUME Inv, Advances, NEW c \in Call, NEW rec, act' = [act EXCEPT ![c] = rec],
           CallOK(rec, succeeded', gate' = "shut"),
           journal' = journal \/ SnapshotOK(journal', succeeded, gate = "shut"),
           memory' = memory \/ SnapshotOK(memory', succeeded, gate = "shut"),
           torn' = torn, calls' \in 0..MaxCalls,
           gate' \in {"none", "shut", "reset"}, succeeded' \subseteq Stage
    PROVE  Inv'
<1>1. /\ act' \in [Call -> CallRecord]
      /\ \A d \in Call : CallOK(act'[d], succeeded', gate' = "shut")
  BY CallMoves
<1>2. SnapshotOK(journal', succeeded', gate' = "shut")
  BY SnapshotStays DEF Inv
<1>3. memory' # NoSnapshot => SnapshotOK(memory', succeeded', gate' = "shut")
  BY SnapshotStays DEF Inv
<1> QED
  BY <1>1, <1>2, <1>3 DEF Inv

-----------------------------------------------------------------------------
LEMMA CallNow ==
    ASSUME Inv, NEW c \in Call
    PROVE  /\ act[c] \in CallRecord /\ (gate = "shut") \in BOOLEAN
           /\ act[c].pc # "idle" =>
                 SnapshotOK(act[c].snap, succeeded, gate = "shut") /\ act[c].snap \in Snapshot
           /\ act[c].pc \in {"head", "calling"} => WorkingOK(act[c], gate = "shut")
  BY DEF Inv, CallOK, SnapshotOK

LEMMA OperationInv ==
    ASSUME Inv, NEW c \in Call,
           \/ SaveLands(c) \/ SaveFails(c) \/ ReadJournal(c) \/ InstallLoaded(c)
           \/ CancelRun(c) \/ ResumeRun(c)
           \/ \E s \in Stage : RetryStage(c, s)
    PROVE  Inv'
<1>1. /\ act[c] \in CallRecord /\ (gate = "shut") \in BOOLEAN
      /\ act[c].pc # "idle" => SnapshotOK(act[c].snap, succeeded, gate = "shut")
      /\ calls \in 0..MaxCalls /\ gate \in {"none", "shut", "reset"} /\ succeeded \subseteq Stage
  BY CallNow DEF Inv
<1>2. Begin(c) => calls' \in 0..MaxCalls
  <2>1. MaxCalls \in Nat
    BY RecoveryConstants
  <2> QED
    BY <1>1, <2>1 DEF Begin
<1>3. ASSUME gate' = gate, succeeded' = succeeded
      PROVE  Advances /\ CallOK(IdleCall, succeeded', gate' = "shut")
  BY <1>3, IdleCallOK DEF Advances
<1>4. CASE SaveLands(c) \/ SaveFails(c) \/ InstallLoaded(c)
  <2>1. /\ UNCHANGED <<torn, calls, succeeded, gate>> /\ act' = [act EXCEPT ![c] = IdleCall]
        /\ act[c].pc # "idle"
        /\ journal' = journal \/ journal' = act[c].snap
        /\ memory' = memory \/ memory' = act[c].snap
    BY <1>4 DEF SaveLands, SaveFails, InstallLoaded
  <2> QED
    BY <1>1, <1>3, <2>1, CallOnlyInv
<1>5. CASE ReadJournal(c)
  <2>1. PICK rec : rec = [IdleCall EXCEPT !.pc = "loaded", !.snap = journal]
    OBVIOUS
  <2>2. /\ UNCHANGED <<journal, torn, memory, succeeded, gate>>
        /\ act' = [act EXCEPT ![c] = rec] /\ calls' \in 0..MaxCalls
    BY <1>2, <1>5, <2>1 DEF ReadJournal
  <2>3. CallOK(rec, succeeded, gate = "shut")
    <3>1. SnapshotOK(journal, succeeded, gate = "shut") /\ "loaded" \in {"saving", "loaded"}
      BY DEF Inv
    <3> QED
      BY <1>1, <2>1, <3>1, HoldingOK
  <2> QED
    BY <1>1, <1>3, <2>2, <2>3, CallOnlyInv
<1>6. CASE CancelRun(c)
  <2>1. /\ memory # NoSnapshot /\ Save(c, Cancelled(memory))
        /\ UNCHANGED <<journal, torn, succeeded, gate>> /\ calls' \in 0..MaxCalls
    BY <1>2, <1>6 DEF CancelRun
  <2>2. SnapshotOK(Cancelled(memory), succeeded, gate = "shut")
    BY <1>1, <2>1, CancelledOK DEF Inv
  <2> QED
    BY <2>1, <2>2, SaveInv
<1>7. CASE ResumeRun(c)
  <2>1. PICK rec : rec = [pc |-> "head", snap |-> memory, at |-> Plan, retry |-> FALSE]
    OBVIOUS
  <2>2. /\ memory # NoSnapshot /\ memory.status # "cancelled"
        /\ act' = [act EXCEPT ![c] = rec]
        /\ UNCHANGED <<journal, torn, memory, succeeded, gate>> /\ calls' \in 0..MaxCalls
    BY <1>2, <1>7, <2>1 DEF ResumeRun, Launch, Resumable
  <2>3. CallOK(rec, succeeded, gate = "shut")
    <3>1. SnapshotOK(memory, succeeded, gate = "shut") /\ Plan \in Stage /\ FALSE \in BOOLEAN
      BY <2>2, StageFacts DEF Inv
    <3>2. gate = "shut" => memory.stages[Execute].status = "awaiting_approval"
      BY <2>2, <3>1 DEF SnapshotOK
    <3> QED
      BY <1>1, <2>1, <3>1, <3>2, LaunchedOK
  <2> QED
    BY <1>1, <1>3, <2>2, <2>3, CallOnlyInv
<1>8. ASSUME NEW s \in Stage, RetryStage(c, s)
      PROVE  Inv'
  <2>1. PICK sn : sn = Retried(memory, s)
    OBVIOUS
  <2>2. PICK rec : rec = [pc |-> "head", snap |-> sn, at |-> s, retry |-> TRUE]
    OBVIOUS
  <2>3. /\ memory # NoSnapshot /\ memory.status # "cancelled"
        /\ act' = [act EXCEPT ![c] = rec]
        /\ gate' = IF s < Execute /\ gate = "shut" THEN "reset" ELSE gate
        /\ UNCHANGED <<journal, torn, memory, succeeded>> /\ calls' \in 0..MaxCalls
    BY <1>2, <1>8, <2>1, <2>2 DEF RetryStage, Launch
  <2>4. (gate' = "shut") \in BOOLEAN /\ (gate' = "shut" <=> gate = "shut" /\ ~(s < Execute))
    BY <2>3
  <2>5. /\ SnapshotOK(sn, succeeded, gate' = "shut")
        /\ gate' = "shut" => sn.stages[Execute].status = "awaiting_approval"
    <3>1. SnapshotOK(memory, succeeded, gate = "shut")
      BY <2>3 DEF Inv
    <3>2. PICK shut \in BOOLEAN : shut <=> gate = "shut"
      OBVIOUS
    <3>3. PICK still \in BOOLEAN : still <=> gate' = "shut"
      OBVIOUS
    <3>4. SnapshotOK(memory, succeeded, shut) /\ memory.status # "cancelled"
      BY <2>3, <3>1, <3>2 DEF SnapshotOK
    <3>5. still <=> shut /\ ~(s < Execute)
      BY <2>4, <3>2, <3>3
    <3>6. SnapshotOK(sn, succeeded, still) /\ (still => sn.stages[Execute].status = "awaiting_approval")
      BY <2>1, <3>4, <3>5, RetriedOK
    <3> QED
      BY <3>3, <3>6 DEF SnapshotOK
  <2>6. CallOK(rec, succeeded', gate' = "shut")
    BY <2>2, <2>3, <2>4, <2>5, LaunchedOK
  <2>7. Advances /\ gate' \in {"none", "shut", "reset"}
    BY <1>1, <2>3 DEF Advances
  <2> QED
    BY <1>1, <2>3, <2>6, <2>7, CallOnlyInv
<1> QED
  BY <1>4, <1>5, <1>6, <1>7, <1>8

LEMMA BeginStageInv ==
    ASSUME Inv, NEW c \in Call, NEW s \in Stage, BeginStage(c, s)
    PROVE  Inv'
<1>1. PICK sn : sn = act[c].snap
  OBVIOUS
<1>2. /\ act[c] \in CallRecord /\ act[c].pc = "head" /\ (gate = "shut") \in BOOLEAN
      /\ SnapshotOK(sn, succeeded, gate = "shut") /\ sn.stages \in [Stage -> StageRecord]
      /\ gate = "shut" => sn.stages[Execute].status = "awaiting_approval"
      /\ sn.stages[s].status # "awaiting_approval" /\ ~Exhausted(c, s)
      /\ UNCHANGED <<journal, torn, memory, calls, succeeded, gate>>
  BY <1>1, CallNow, SnapshotParts DEF BeginStage, AtHead, AwaitsApproval, WorkingOK
<1>3. PICK stage : stage = [status |-> "running", attempts |-> sn.stages[s].attempts + 1]
  OBVIOUS
<1>4. stage \in StageRecord /\ stage.status = "running"
  <2>1. AttemptLimit(c) \in 0..MostAttempts /\ sn.stages[s] \in StageRecord
    BY <1>2, StageFacts DEF AttemptLimit
  <2>2. sn.stages[s].attempts + 1 \in 0..MostAttempts
    BY <1>1, <1>2, <2>1, StageFacts DEF Exhausted, StageRecord
  <2> QED
    BY <1>3, <2>2 DEF StageRecord, StageStatuses
<1>5. PICK new : new = Upsert(sn, s, stage)
  OBVIOUS
<1>6. /\ SnapshotOK(new, succeeded, gate = "shut")
      /\ gate = "shut" => new.stages[Execute].status = "awaiting_approval" /\ s # Execute
  <2>1. gate = "shut" => s # Execute
    BY <1>2
  <2>2. PICK shut \in BOOLEAN : shut <=> gate = "shut"
    OBVIOUS
  <2>3. /\ SnapshotOK(sn, succeeded, shut)
        /\ succeeded \subseteq succeeded /\ (stage.status = "completed" => s \in succeeded)
        /\ shut => /\ sn.stages[Execute].status = "awaiting_approval"
                   /\ s = Execute => stage.status = "awaiting_approval"
    BY <1>2, <1>4, <2>1, <2>2
  <2>4. /\ SnapshotOK(new, succeeded, shut)
        /\ shut => new.stages[Execute].status = "awaiting_approval"
    BY <1>4, <1>5, <2>3, UpsertOK
  <2> QED
    BY <2>1, <2>2, <2>4
<1>7. PICK rec : rec = [act[c] EXCEPT !.pc = "calling", !.at = s, !.snap = new]
  OBVIOUS
<1>8. act' = [act EXCEPT ![c] = rec]
  BY <1>1, <1>3, <1>5, <1>7 DEF BeginStage, Begun
<1>9. /\ rec \in CallRecord /\ rec.pc = "calling" /\ rec.at = s /\ rec.snap = new
      /\ new # NoSnapshot
  <2>1. new \in Snapshot /\ new # NoSnapshot /\ s \in Plan..(Review + 1)
    BY <1>6, RecoveryConstants, StageFacts DEF SnapshotOK
  <2> QED
    BY <1>2, <1>7, <2>1 DEF CallRecord
<1>10. CallOK(rec, succeeded, gate = "shut")
  BY <1>6, <1>9 DEF CallOK, WorkingOK
<1>11. Advances
  BY <1>2 DEF Advances
<1>12. calls \in 0..MaxCalls /\ gate \in {"none", "shut", "reset"} /\ succeeded \subseteq Stage
  BY DEF Inv
<1> QED
  BY <1>2, <1>8, <1>10, <1>11, <1>12, CallOnlyInv

LEMMA StageSucceedsInv ==
    ASSUME Inv, NEW c \in Call, StageSucceeds(c)
    PROVE  Inv'
<1>1. PICK sn, s : sn = act[c].snap /\ s = act[c].at
  OBVIOUS
<1>2. /\ act[c] \in CallRecord /\ act[c].pc = "calling" /\ (gate = "shut") \in BOOLEAN
      /\ SnapshotOK(sn, succeeded, gate = "shut") /\ sn.stages \in [Stage -> StageRecord]
      /\ gate = "shut" => sn.stages[Execute].status = "awaiting_approval"
      /\ s \in Stage /\ (gate = "shut" => s # Execute)
      /\ succeeded' = succeeded \cup {s}
      /\ UNCHANGED <<journal, torn, memory, calls, gate>>
  BY <1>1, CallNow, SnapshotParts DEF StageSucceeds, WorkingOK
<1>3. PICK stage : stage = [sn.stages[s] EXCEPT !.status = "completed"]
  OBVIOUS
<1>4. stage \in StageRecord /\ stage.status = "completed"
  <2>1. sn.stages[s] \in StageRecord
    BY <1>2
  <2> QED
    BY <1>3, <2>1, StageChanges, StatusesAre
<1>5. PICK new : new = Upsert(sn, s, stage)
  OBVIOUS
<1>6. /\ SnapshotOK(new, succeeded', gate = "shut")
      /\ gate = "shut" => new.stages[Execute].status = "awaiting_approval"
  <2>1. PICK shut \in BOOLEAN : shut <=> gate = "shut"
    OBVIOUS
  <2>2. /\ SnapshotOK(sn, succeeded, shut)
        /\ succeeded \subseteq succeeded' /\ (stage.status = "completed" => s \in succeeded')
        /\ shut => /\ sn.stages[Execute].status = "awaiting_approval"
                   /\ s = Execute => stage.status = "awaiting_approval"
    BY <1>2, <1>4, <2>1
  <2>3. /\ SnapshotOK(new, succeeded', shut)
        /\ shut => new.stages[Execute].status = "awaiting_approval"
    BY <1>2, <1>4, <1>5, <2>2, UpsertOK
  <2> QED
    BY <2>1, <2>3
<1>7. PICK rec : rec = [act[c] EXCEPT !.pc = "head", !.at = s + 1, !.snap = new]
  OBVIOUS
<1>8. act' = [act EXCEPT ![c] = rec]
  BY <1>1, <1>3, <1>5, <1>7 DEF StageSucceeds, StageCompleted
<1>9. rec \in CallRecord /\ rec.pc = "head" /\ rec.snap = new /\ new # NoSnapshot
  <2>1. new \in Snapshot /\ new # NoSnapshot /\ s + 1 \in Plan..(Review + 1)
    BY <1>2, <1>6, RecoveryConstants, StageFacts DEF SnapshotOK
  <2> QED
    BY <1>2, <1>7, <2>1 DEF CallRecord
<1>10. CallOK(rec, succeeded', gate' = "shut")
  BY <1>2, <1>6, <1>9 DEF CallOK, WorkingOK
<1>11. Advances
  BY <1>2 DEF Advances
<1>12. calls \in 0..MaxCalls /\ gate \in {"none", "shut", "reset"} /\ succeeded' \subseteq Stage
  BY <1>2 DEF Inv
<1> QED
  BY <1>2, <1>8, <1>10, <1>11, <1>12, CallOnlyInv

(* The loop's other steps save what it made of its snapshot. *)
LEMMA LoopSavesInv ==
    ASSUME Inv, NEW c \in Call,
           \/ \E s \in Stage : StopForApproval(c, s) \/ GiveUp(c, s)
           \/ StageFails(c) \/ FinishStages(c)
    PROVE  Inv'
<1>1. PICK sn : sn = act[c].snap
  OBVIOUS
<1>2. /\ act[c].pc \in {"head", "calling"} /\ (gate = "shut") \in BOOLEAN
      /\ UNCHANGED <<journal, torn, succeeded, gate>> /\ calls' \in 0..MaxCalls
  BY CallNow DEF StopForApproval, GiveUp, StageFails, FinishStages, AtHead, Inv
<1>3. /\ SnapshotOK(sn, succeeded, gate = "shut") /\ WorkingOK(act[c], gate = "shut")
      /\ gate = "shut" => sn.stages[Execute].status = "awaiting_approval"
  BY <1>1, <1>2, CallNow DEF WorkingOK
<1>4. ASSUME NEW s \in Stage, StopForApproval(c, s)
      PROVE  Inv'
  <2>1. Save(c, KeepWaiting(sn, s)) /\ SnapshotOK(KeepWaiting(sn, s), succeeded, gate = "shut")
    BY <1>1, <1>2, <1>3, <1>4, WaitAndFail DEF StopForApproval
  <2> QED
    BY <1>2, <2>1, SaveInv
<1>5. ASSUME NEW s \in Stage, Save(c, StageFailed(sn, s)), gate = "shut" => s # Execute
      PROVE  Inv'
  <2>1. SnapshotOK(StageFailed(sn, s), succeeded, gate = "shut")
    BY <1>2, <1>3, <1>5, WaitAndFail
  <2> QED
    BY <1>2, <1>5, <2>1, SaveInv
<1>6. ASSUME NEW s \in Stage, GiveUp(c, s)
      PROVE  Inv'
  BY <1>1, <1>3, <1>5, <1>6 DEF GiveUp, AwaitsApproval
<1>7. CASE StageFails(c)
  <2>1. act[c].at \in Stage /\ (gate = "shut" => act[c].at # Execute)
    BY <1>3, <1>7 DEF StageFails, WorkingOK
  <2> QED
    BY <1>1, <1>5, <1>7, <2>1 DEF StageFails
<1>8. CASE FinishStages(c)
  <2>1. Save(c, Finalized(sn)) /\ SnapshotOK(Finalized(sn), succeeded, gate = "shut")
    BY <1>1, <1>2, <1>3, <1>8, FinalizedOK DEF FinishStages
  <2> QED
    BY <1>2, <2>1, SaveInv
<1> QED
  BY <1>4, <1>6, <1>7, <1>8

LEMMA CrashInv == ASSUME Inv, Crash PROVE Inv'
<1>1. Advances /\ succeeded' = succeeded /\ gate' = gate /\ journal' = journal
  BY DEF Crash, Advances
<1>2. act' \in [Call -> CallRecord] /\ \A c \in Call : CallOK(act'[c], succeeded', gate' = "shut")
  BY IdleCallOK DEF Crash
<1>3. calls' \in 0..MaxCalls
  <2>1. calls \in 0..MaxCalls /\ MaxCalls \in Nat
    BY RecoveryConstants DEF Inv
  <2> QED
    BY <2>1 DEF Crash
<1>4. torn' \in BOOLEAN /\ memory' = NoSnapshot
  BY DEF Crash, Inv
<1> QED
  BY <1>1, <1>2, <1>3, <1>4 DEF Inv

-----------------------------------------------------------------------------
LEMMA InitInv == Init => Inv
<1> SUFFICES ASSUME Init PROVE Inv
  OBVIOUS
<1>1. /\ journal \in Snapshot
      /\ journal.status = "completed" => \A s \in Stage : journal.stages[s].status = "completed"
  BY RecoveryConstants, LeftHonest DEF Init
<1>2. SnapshotOK(journal, succeeded, gate = "shut")
  BY <1>1 DEF Init, SnapshotOK
<1>3. act \in [Call -> CallRecord] /\ \A c \in Call : CallOK(act[c], succeeded, gate = "shut")
  BY IdleCallOK DEF Init
<1>4. /\ memory = NoSnapshot /\ torn \in BOOLEAN /\ gate \in {"none", "shut", "reset"}
      /\ succeeded \subseteq Stage
  BY DEF Init
<1>5. calls \in 0..MaxCalls
  BY RecoveryConstants DEF Init
<1> QED
  BY <1>2, <1>3, <1>4, <1>5 DEF Inv

LEMMA NextInv == Inv /\ [Next]_vars => Inv'
<1> SUFFICES ASSUME Inv, [Next]_vars PROVE Inv'
  OBVIOUS
<1>1. CASE Crash
  BY <1>1, CrashInv
<1>2. ASSUME NEW c \in Call,
             \/ SaveLands(c) \/ SaveFails(c) \/ ReadJournal(c) \/ InstallLoaded(c)
             \/ CancelRun(c) \/ ResumeRun(c)
             \/ \E s \in Stage : RetryStage(c, s)
      PROVE  Inv'
  BY <1>2, OperationInv
<1>3. ASSUME NEW c \in Call,
             \/ \E s \in Stage : StopForApproval(c, s) \/ GiveUp(c, s)
             \/ StageFails(c) \/ FinishStages(c)
      PROVE  Inv'
  BY <1>3, LoopSavesInv
<1>4. ASSUME NEW c \in Call, NEW s \in Stage, BeginStage(c, s) PROVE Inv'
  BY <1>4, BeginStageInv
<1>5. ASSUME NEW c \in Call, StageSucceeds(c) PROVE Inv'
  BY <1>5, StageSucceedsInv
<1>6. CASE UNCHANGED vars
  BY <1>6 DEF vars, Inv
<1> QED
  BY <1>1, <1>2, <1>3, <1>4, <1>5, <1>6 DEF Next

LEMMA SpecInv == Spec => []Inv
  BY InitInv, NextInv, PTL DEF Spec

-----------------------------------------------------------------------------
(* The types of snapshots and operations; however often a stage is retried,    *)
(* loaded and retried again, no snapshot counts more attempts than allowed.   *)
THEOREM TypeCorrect == Spec => []TypeOK
<1>1. Inv => TypeOK
  <2> SUFFICES ASSUME Inv PROVE TypeOK
    OBVIOUS
  <2>1. Snapshots \subseteq Snapshot \cup {NoSnapshot}
    BY DEF Inv, SnapshotOK, Snapshots, CallRecord
  <2>2. \A c \in Call :
          /\ act[c].pc \in {"idle", "saving", "loaded", "head", "calling"}
          /\ act[c].at \in Plan..(Review + 1) /\ act[c].retry \in BOOLEAN
          /\ act[c].pc # "idle" <=> act[c].snap # NoSnapshot
    BY DEF Inv, CallOK, CallRecord
  <2> QED
    BY <2>1, <2>2 DEF Inv, TypeOK
<1> QED
  BY <1>1, SpecInv, PTL

(* The execute stage of a run that waited for its approval is not run before    *)
(* somebody retried the plan stage, whatever is resumed, retried, cancelled,   *)
(* loaded or lost in a crash.                                                *)
THEOREM GateStaysShut == Spec => []GateOpensOnlyByRetry
<1>1. Inv => GateOpensOnlyByRetry
  BY DEF Inv, CallOK, WorkingOK, GateOpensOnlyByRetry, Calling
<1> QED
  BY <1>1, SpecInv, PTL

(* No snapshot anywhere says completed before the runner succeeded for every   *)
(* stage.                                                                    *)
THEOREM CompletionIsHonest == Spec => []CompletionHonest
<1>1. Inv => CompletionHonest
  <2> SUFFICES ASSUME Inv, NEW sn \in Snapshots \ {NoSnapshot}, sn.status = "completed"
               PROVE  succeeded = Stage
    BY DEF CompletionHonest
  <2>1. SnapshotOK(sn, succeeded, gate = "shut")
    BY DEF Inv, Snapshots, CallOK
  <2>2. \A s \in Stage : s \in succeeded
    BY <2>1 DEF SnapshotOK
  <2> QED
    BY <2>2 DEF Inv
<1> QED
  BY <1>1, SpecInv, PTL

-----------------------------------------------------------------------------
(* What a settled cancellation leaves for ever: every snapshot is cancelled,    *)
(* and no loop works on one.                                                 *)
Settled(sn) == sn # NoSnapshot => sn.status = "cancelled"

CancelledForGood ==
    /\ journal.status = "cancelled" /\ Settled(memory)
    /\ \A c \in Call : act[c].pc \in {"idle", "saving", "loaded"} /\ Settled(act[c].snap)

LEMMA CancelledStays == Inv /\ CancelledForGood /\ [Next]_vars => CancelledForGood'
<1> SUFFICES ASSUME Inv, CancelledForGood, [Next]_vars PROVE CancelledForGood'
  OBVIOUS
<1>1. act \in [Call -> CallRecord]
  BY DEF Inv
<1>2. ASSUME NEW c \in Call, NEW rec, act' = [act EXCEPT ![c] = rec],
             rec.pc \in {"idle", "saving", "loaded"}, Settled(rec.snap),
             journal' = journal \/ (journal' = act[c].snap /\ act[c].snap # NoSnapshot),
             Settled(memory')
      PROVE  CancelledForGood'
  <2>1. act'[c] = rec /\ \A d \in Call \ {c} : act'[d] = act[d]
    BY <1>1, <1>2
  <2> QED
    BY <1>2, <2>1 DEF CancelledForGood, Settled
<1>3. CASE Crash
  <2>1. journal' = journal /\ memory' = NoSnapshot
        /\ \A c \in Call : act'[c].pc = "idle" /\ act'[c].snap = NoSnapshot
    BY <1>3, IdleCallOK DEF Crash
  <2> QED
    BY <2>1 DEF CancelledForGood, Settled
<1>4. ASSUME NEW c \in Call, SaveLands(c) \/ SaveFails(c) \/ InstallLoaded(c)
      PROVE  CancelledForGood'
  <2>1. /\ act' = [act EXCEPT ![c] = IdleCall]
        /\ act[c].snap # NoSnapshot
        /\ journal' = journal \/ journal' = act[c].snap
        /\ memory' = memory \/ memory' = act[c].snap
    BY <1>4 DEF SaveLands, SaveFails, InstallLoaded, Inv, CallOK
  <2> QED
    BY <1>2, <2>1, IdleCallOK DEF CancelledForGood, Settled
<1>5. ASSUME NEW c \in Call, ReadJournal(c)
      PROVE  CancelledForGood'
  <2>1. PICK rec : rec = [IdleCall EXCEPT !.pc = "loaded", !.snap = journal]
    OBVIOUS
  <2>2. rec.pc = "loaded" /\ rec.snap = journal
    BY <2>1, IdleCallOK DEF CallRecord
  <2>3. act' = [act EXCEPT ![c] = rec] /\ journal' = journal /\ memory' = memory
    BY <1>5, <2>1 DEF ReadJournal
  <2> QED
    BY <1>2, <2>2, <2>3 DEF CancelledForGood, Settled
<1>6. ASSUME NEW c \in Call, CancelRun(c)
      PROVE  CancelledForGood'
  <2>1. PICK sn : sn = Cancelled(memory)
    OBVIOUS
  <2>2. PICK rec : rec = [IdleCall EXCEPT !.pc = "saving", !.snap = sn]
    OBVIOUS
  <2>3. sn.status = "cancelled" /\ rec.pc = "saving" /\ rec.snap = sn
    BY <2>1, <2>2, IdleCallOK DEF CallRecord, Cancelled
  <2>4. act' = [act EXCEPT ![c] = rec] /\ journal' = journal /\ memory' = sn
    BY <1>6, <2>1, <2>2 DEF CancelRun, Save
  <2> QED
    BY <1>2, <2>3, <2>4 DEF CancelledForGood, Settled
<1>7. \A c \in Call : ~ResumeRun(c) /\ \A s \in Stage : ~RetryStage(c, s)
  BY DEF CancelledForGood, Settled, ResumeRun, Resumable, RetryStage
<1>8. \A c \in Call :
         /\ \A s \in Stage : ~StopForApproval(c, s) /\ ~GiveUp(c, s) /\ ~BeginStage(c, s)
         /\ ~StageSucceeds(c) /\ ~StageFails(c) /\ ~FinishStages(c)
  BY DEF CancelledForGood, StopForApproval, GiveUp, BeginStage, AtHead, StageSucceeds,
         StageFails, FinishStages
<1>9. CASE UNCHANGED vars
  BY <1>9 DEF vars, CancelledForGood
<1> QED
  BY <1>3, <1>4, <1>5, <1>6, <1>7, <1>8, <1>9 DEF Next

(* A cancellation that was saved with nothing under way is final: whatever is   *)
(* loaded, resumed, retried or crashes later, the runner is not called again.  *)
THEOREM CancellationIsFinal == Spec => CancelIsFinal
<1>1. Inv /\ CancelSettled => CancelledForGood
  <2> SUFFICES ASSUME Inv, CancelSettled PROVE CancelledForGood
    OBVIOUS
  <2>1. \A c \in Call : act[c].pc = "idle" /\ act[c].snap = NoSnapshot
    BY DEF CancelSettled, Inv, CallOK
  <2> QED
    BY <2>1 DEF CancelSettled, CancelledForGood, Settled
<1>2. CancelledForGood => \A s \in Stage : ~Calling(s)
  BY DEF CancelledForGood, Calling
<1> QED
  BY <1>1, <1>2, CancelledStays, SpecInv, PTL DEF CancelIsFinal, Spec

-----------------------------------------------------------------------------
(* A crash that leaves a line half written is the end of every persisted run:    *)
(* loadPersistedRuns throws from then on, so that nothing is in memory and      *)
(* nothing is under way, and the journal stays as it is.  No cancellation or    *)
(* retry reaches the run any more, and none of its stages is run again.         *)
TornIsTheEnd ==
    torn => memory = NoSnapshot /\ \A c \in Call : act[c] = IdleCall

LEMMA TornStep == TornIsTheEnd /\ [Next]_vars => TornIsTheEnd' /\ (torn => torn' /\ journal' = journal)
<1> SUFFICES ASSUME TornIsTheEnd, [Next]_vars
             PROVE  TornIsTheEnd' /\ (torn => torn' /\ journal' = journal)
  OBVIOUS
<1>0. IdleCall.pc = "idle"
  BY DEF IdleCall
<1>1. CASE Crash
  BY <1>1 DEF Crash, TornIsTheEnd
<1>2. CASE UNCHANGED vars
  BY <1>2 DEF vars, TornIsTheEnd
<1>3. ASSUME NEW c \in Call,
             \/ SaveLands(c) \/ SaveFails(c)
             \/ ReadJournal(c) \/ InstallLoaded(c)
             \/ CancelRun(c) \/ ResumeRun(c)
             \/ \E s \in Stage : RetryStage(c, s)
             \/ \E s \in Stage : StopForApproval(c, s) \/ GiveUp(c, s) \/ BeginStage(c, s)
             \/ StageSucceeds(c) \/ StageFails(c) \/ FinishStages(c)
      PROVE  ~torn /\ ~torn'
  <2>1. torn' = torn
    <3>1. CASE \/ SaveLands(c) \/ SaveFails(c) \/ ReadJournal(c) \/ InstallLoaded(c)
               \/ CancelRun(c) \/ ResumeRun(c) \/ \E s \in Stage : RetryStage(c, s)
      BY <3>1 DEF SaveLands, SaveFails, ReadJournal, InstallLoaded, CancelRun, ResumeRun,
             RetryStage
    <3>2. CASE \E s \in Stage : StopForApproval(c, s) \/ GiveUp(c, s) \/ BeginStage(c, s)
      BY <3>2 DEF StopForApproval, GiveUp, BeginStage
    <3>3. CASE StageSucceeds(c) \/ StageFails(c) \/ FinishStages(c)
      BY <3>3 DEF StageSucceeds, StageFails, FinishStages
    <3> QED
      BY <1>3, <3>1, <3>2, <3>3
  <2>2. ASSUME act[c].pc = "idle", memory = NoSnapshot
        PROVE  ReadJournal(c)
    BY <1>3, <2>2 DEF SaveLands, SaveFails, InstallLoaded, CancelRun, ResumeRun, RetryStage,
           StopForApproval, GiveUp, BeginStage, StageSucceeds, StageFails, FinishStages, AtHead
  <2>3. ~torn
    BY <1>0, <2>2 DEF TornIsTheEnd, ReadJournal
  <2> QED
    BY <2>1, <2>3
<1> QED
  BY <1>1, <1>2, <1>3 DEF Next, TornIsTheEnd

THEOREM TornJournalsStayShut == Spec => []TornIsTheEnd /\ [][torn => torn' /\ journal' = journal]_vars
<1>1. Init => TornIsTheEnd
  BY DEF Init, TornIsTheEnd
<1>2. TornIsTheEnd /\ [Next]_vars => [torn => torn' /\ journal' = journal]_vars
  BY TornStep
<1> QED
  BY <1>1, <1>2, TornStep, PTL DEF Spec
=============================================================================
