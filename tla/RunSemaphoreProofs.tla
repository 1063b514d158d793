------------------------- MODULE RunSemaphoreProofs -------------------------
(***************************************************************************)
(* The run semaphore for every set of callers and every requested limit.   *)
(*                                                                         *)
(* SlotBound and WorkConserving speak of the owners of slots, the code of  *)
(* a counter and a queue.  The inductive invariant ties the two together:  *)
(* the counter is the number of owners, the queue lists exactly the queued *)
(* callers and each of them once, and nobody waits while a slot is free.   *)
(***************************************************************************)
EXTENDS RunSemaphore, FiniteSetTheorems, SequenceTheorems, TLAPS

(* _activeRunCount counts the owners of slots. *)
CounterExact == activeRunCount = Cardinality(Owners)

(* _runQueue holds every queued caller, ... *)
QueueComplete ==
    \A c \in Caller : slot[c] = "queued" => \E i \in 1..Len(runQueue) : runQueue[i] = c

(* ... nobody else, ... *)
QueueSound == \A i \in 1..Len(runQueue) : slot[runQueue[i]] = "queued"

(* ... and nobody twice. *)
QueueDistinct ==
    \A i, j \in 1..Len(runQueue) : runQueue[i] = runQueue[j] => i = j

(* Somebody waits only if no slot is free. *)
FullWhenQueued == runQueue # <<>> => activeRunCount = MaxConcurrentRuns

SemInv ==
    /\ TypeOK
    /\ CounterExact
    /\ QueueComplete
    /\ QueueSound
    /\ QueueDistinct
    /\ FullWhenQueued

-----------------------------------------------------------------------------
LEMMA MaxPositive == MaxConcurrentRuns \in Nat /\ MaxConcurrentRuns >= 1
BY RequestedMaxIsInt DEF MaxConcurrentRuns

LEMMA OwnersFinite == IsFiniteSet(Owners)
<1>1. Owners \subseteq Caller
  BY DEF Owners
<1>2. QED
  BY <1>1, CallerIsFinite, FS_Subset

LEMMA InitSemInv == SemInit => SemInv
<1> SUFFICES ASSUME SemInit PROVE SemInv
  OBVIOUS
<1> USE DEF SemInit
<1>1. TypeOK
  BY MaxPositive DEF TypeOK, SlotStates
<1>2. Owners = {}
  BY DEF Owners
<1>3. CounterExact
  BY <1>2, FS_EmptySet DEF CounterExact
<1>4. QED
  BY <1>1, <1>3
     DEF SemInv, QueueComplete, QueueSound, QueueDistinct, FullWhenQueued

(* _acquireRunSlot keeps the invariant. *)
LEMMA AcquireSemInv ==
  ASSUME NEW c \in Caller, SemInv, Acquire(c)
  PROVE  SemInv'
<1> USE DEF SemInv, TypeOK, SlotStates
<1>1. CASE HasFreeSlot
  <2>1. /\ activeRunCount' = activeRunCount + 1
        /\ slot' = [slot EXCEPT ![c] = "granted"]
        /\ runQueue' = runQueue
        /\ activeRunCount < MaxConcurrentRuns
    BY <1>1 DEF Acquire, HasFreeSlot
  <2>2. Owners' = Owners \cup {c} /\ c \notin Owners
    BY <2>1 DEF Owners, Acquire
  <2>3. CounterExact'
    BY <2>1, <2>2, OwnersFinite, FS_AddElement DEF CounterExact
  <2>4. runQueue = <<>>
    BY <2>1 DEF FullWhenQueued
  <2>5. TypeOK'
    BY <2>1, MaxPositive DEF MaxConcurrentRuns
  <2>6. (QueueComplete /\ QueueSound /\ QueueDistinct /\ FullWhenQueued)'
    BY <2>1, <2>4 DEF QueueComplete, QueueSound, QueueDistinct, FullWhenQueued
  <2>7. QED
    BY <2>3, <2>5, <2>6
<1>2. CASE ~HasFreeSlot
  <2>1. /\ runQueue' = Append(runQueue, c)
        /\ slot' = [slot EXCEPT ![c] = "queued"]
        /\ activeRunCount' = activeRunCount
        /\ activeRunCount = MaxConcurrentRuns
        /\ slot[c] = "idle"
    BY <1>2, MaxPositive DEF Acquire, HasFreeSlot
  <2>2. Owners' = Owners
    BY <2>1 DEF Owners
  <2>3. TypeOK' /\ CounterExact' /\ FullWhenQueued'
    <3>1. runQueue' \in Seq(Caller)
      BY <2>1, AppendProperties
    <3>2. slot' \in [Caller -> SlotStates]
      BY <2>1
    <3>3. activeRunCount' \in 0..MaxConcurrentRuns'
      BY <2>1 DEF MaxConcurrentRuns
    <3>4. QED
      BY <2>1, <2>2, <3>1, <3>2, <3>3
         DEF CounterExact, FullWhenQueued, MaxConcurrentRuns
  <2>4. /\ Len(runQueue') = Len(runQueue) + 1
        /\ \A i \in 1..Len(runQueue) : runQueue'[i] = runQueue[i]
        /\ runQueue'[Len(runQueue) + 1] = c
        /\ Len(runQueue) \in Nat
    BY <2>1
  <2>5. \A i \in 1..Len(runQueue) : runQueue[i] # c /\ runQueue[i] \in Caller
    BY <2>1 DEF QueueSound
  <2>6. QueueComplete'
    BY <2>1, <2>4 DEF QueueComplete
  <2>7. QueueSound'
    BY <2>1, <2>4, <2>5 DEF QueueSound
  <2>8. QueueDistinct'
    BY <2>4, <2>5 DEF QueueDistinct
  <2>9. QED
    BY <2>3, <2>6, <2>7, <2>8
<1>3. QED
  BY <1>1, <1>2

(* The resumption of an awaited acquire keeps the invariant. *)
LEMMA EnterSemInv ==
  ASSUME NEW c \in Caller, SemInv, Enter(c)
  PROVE  SemInv'
<1> USE DEF SemInv, TypeOK, SlotStates, Enter
<1>1. Owners' = Owners
  BY DEF Owners
<1>2. TypeOK' /\ CounterExact' /\ FullWhenQueued' /\ QueueDistinct'
  BY <1>1 DEF CounterExact, FullWhenQueued, QueueDistinct, MaxConcurrentRuns
<1>3. QueueComplete'
  BY DEF QueueComplete
<1>4. QueueSound'
  BY DEF QueueSound
<1>5. QED
  BY <1>2, <1>3, <1>4

(* _releaseRunSlot keeps the invariant. *)
LEMMA ReleaseSemInv ==
  ASSUME NEW c \in Caller, SemInv, Release(c)
  PROVE  SemInv'
<1> USE DEF SemInv, TypeOK, SlotStates
<1>1. c \in Owners /\ slot[c] = "holding"
  BY DEF Release, Owners
<1>2. Cardinality(Owners) \in Nat /\ Cardinality(Owners) >= 1
  BY <1>1, OwnersFinite, FS_CardinalityType, FS_EmptySet DEF CounterExact
<1>3. Decremented = activeRunCount - 1 /\ activeRunCount >= 1
  BY <1>2 DEF Decremented, CounterExact
<1>4. CASE runQueue = <<>>
  <2>1. /\ activeRunCount' = activeRunCount - 1
        /\ slot' = [slot EXCEPT ![c] = "idle"]
        /\ runQueue' = <<>>
    BY <1>3, <1>4 DEF Release
  <2>2. Owners' = Owners \ {c}
    BY <2>1 DEF Owners
  <2>3. CounterExact'
    BY <1>1, <2>1, <2>2, OwnersFinite, FS_RemoveElement DEF CounterExact
  <2>4. TypeOK'
    BY <1>3, <2>1, MaxPositive DEF MaxConcurrentRuns
  <2>5. (QueueComplete /\ QueueSound /\ QueueDistinct /\ FullWhenQueued)'
    BY <1>4, <2>1 DEF QueueComplete, QueueSound, QueueDistinct, FullWhenQueued
  <2>6. QED
    BY <2>3, <2>4, <2>5
<1>5. CASE runQueue # <<>>
  <2> DEFINE h == Head(runQueue)
  <2>1. /\ activeRunCount' = activeRunCount
        /\ slot' = [slot EXCEPT ![c] = "idle", ![h] = "granted"]
        /\ runQueue' = Tail(runQueue)
    BY <1>3, <1>5 DEF Release, NextWaiter, QueueAfterRelease
  <2>2. /\ Len(runQueue) \in Nat /\ Len(runQueue) >= 1
        /\ h = runQueue[1] /\ h \in Caller
        /\ Len(runQueue') = Len(runQueue) - 1
        /\ runQueue' \in Seq(Caller)
        /\ \A i \in 1..Len(runQueue') : runQueue'[i] = runQueue[i + 1]
    BY <1>5, <2>1, EmptySeq, HeadTailProperties
  <2>3. slot[h] = "queued" /\ h # c
    BY <1>1, <2>2 DEF QueueSound
  <2>4. slot'[c] = "idle" /\ slot'[h] = "granted"
    BY <2>1, <2>2, <2>3
  <2>5. \A d \in Caller \ {c, h} : slot'[d] = slot[d]
    BY <2>1
  <2>6. slot' \in [Caller -> SlotStates]
    BY <2>1
  <2>7. TypeOK'
    BY <2>1, <2>2, <2>6 DEF MaxConcurrentRuns
  <2>8. Owners' = (Owners \ {c}) \cup {h} /\ h \notin Owners \ {c}
    BY <2>2, <2>3, <2>4, <2>5 DEF Owners
  <2>9. CounterExact'
    <3>1. /\ IsFiniteSet(Owners \ {c})
          /\ Cardinality(Owners \ {c}) = Cardinality(Owners) - 1
      BY <1>1, OwnersFinite, FS_RemoveElement
    <3>2. Cardinality(Owners') = Cardinality(Owners \ {c}) + 1
      BY <3>1, <2>8, FS_AddElement
    <3>3. QED
      BY <1>2, <2>1, <3>1, <3>2 DEF CounterExact
  <2>10. QueueComplete'
    <3> SUFFICES ASSUME NEW d \in Caller, slot'[d] = "queued"
                 PROVE  \E i \in 1..Len(runQueue') : runQueue'[i] = d
      BY DEF QueueComplete
    <3>1. d # h /\ slot[d] = "queued"
      BY <2>4, <2>5
    <3>2. PICK i \in 1..Len(runQueue) : runQueue[i] = d
      BY <3>1 DEF QueueComplete
    <3>3. i # 1
      BY <3>1, <3>2, <2>2
    <3>4. i - 1 \in 1..Len(runQueue') /\ runQueue'[i - 1] = d
      BY <3>2, <3>3, <2>2
    <3>5. QED
      BY <3>4
  <2>11. \A i \in 1..Len(runQueue') :
            i + 1 \in 1..Len(runQueue) /\ runQueue'[i] = runQueue[i + 1]
    BY <2>2
  <2>12. QueueSound'
    <3> SUFFICES ASSUME NEW i \in 1..Len(runQueue')
                 PROVE  slot'[runQueue'[i]] = "queued"
      BY DEF QueueSound
    <3>1. slot[runQueue[i + 1]] = "queued" /\ runQueue[i + 1] \in Caller
      BY <2>11 DEF QueueSound
    <3>2. runQueue[i + 1] # h
      BY <2>2, <2>11 DEF QueueDistinct
    <3>3. QED
      BY <1>1, <2>5, <2>11, <3>1, <3>2
  <2>13. QueueDistinct'
    BY <2>2, <2>11 DEF QueueDistinct
  <2>14. FullWhenQueued'
    BY <1>5, <2>1 DEF FullWhenQueued, MaxConcurrentRuns
  <2>15. QED
    BY <2>7, <2>9, <2>10, <2>12, <2>13, <2>14
<1>6. QED
  BY <1>4, <1>5

LEMMA StutterSemInv == SemInv /\ UNCHANGED semVars => SemInv'
BY DEF SemInv, TypeOK, CounterExact, QueueComplete, QueueSound, QueueDistinct,
       FullWhenQueued, Owners, MaxConcurrentRuns, semVars

-----------------------------------------------------------------------------
(* The inductive invariant of the semaphore: counter, queue and callers      *)
(* agree after every sequence of acquires and releases.                     *)
THEOREM SemaphoreInvariant == SemSpec => []SemInv
<1>1. SemInit => SemInv
  BY InitSemInv
<1>2. SemInv /\ [SemNext]_semVars => SemInv'
  <2> SUFFICES ASSUME SemInv, [SemNext]_semVars PROVE SemInv'
    OBVIOUS
  <2>1. ASSUME NEW c \in Caller, Acquire(c) PROVE SemInv'
    BY <2>1, AcquireSemInv
  <2>2. ASSUME NEW c \in Caller, Enter(c) PROVE SemInv'
    BY <2>2, EnterSemInv
  <2>3. ASSUME NEW c \in Caller, Release(c) PROVE SemInv'
    BY <2>3, ReleaseSemInv
  <2>4. CASE UNCHANGED semVars
    BY <2>4, StutterSemInv
  <2>5. QED
    BY <2>1, <2>2, <2>3, <2>4 DEF SemNext
<1>3. QED
  BY <1>1, <1>2, PTL DEF SemSpec

(* Type correctness of the semaphore's state. *)
THEOREM SemaphoreTypeOK == SemSpec => []TypeOK
<1>1. SemInv => TypeOK
  BY DEF SemInv
<1>2. QED
  BY <1>1, SemaphoreInvariant, PTL

(* At most MaxConcurrentRuns stage loops own a slot, whatever the number of  *)
(* callers and the configured limit.                                        *)
THEOREM SemaphoreSlotBound == SemSpec => []SlotBound
<1>1. SemInv => SlotBound
  BY MaxPositive DEF SemInv, TypeOK, CounterExact, SlotBound
<1>2. QED
  BY <1>1, SemaphoreInvariant, PTL

(* While a run waits, all slots are owned: a hand-over loses none. *)
THEOREM SemaphoreWorkConserving == SemSpec => []WorkConserving
<1>1. SemInv => WorkConserving
  BY DEF SemInv, CounterExact, FullWhenQueued, WorkConserving
<1>2. QED
  BY <1>1, SemaphoreInvariant, PTL

(* Slots are granted in the order of the calls. *)
THEOREM SemaphoreNoOvertaking == SemSpec => NoOvertaking
<1> DEFINE InOrder ==
      \A c, d \in Caller :
         (Precedes(c, d) /\ slot'[d] # "queued") => slot'[c] # "queued"
<1>1. ASSUME SemInv, SemInv', SemNext, NEW c \in Caller, NEW d \in Caller,
             Precedes(c, d), slot'[d] # "queued"
      PROVE  slot'[c] # "queued"
  <2> USE DEF SemInv, TypeOK, SlotStates
  <2>1. PICK i \in 1..Len(runQueue), j \in 1..Len(runQueue) :
               i < j /\ runQueue[i] = c /\ runQueue[j] = d
    BY <1>1 DEF Precedes
  <2>2. slot[c] = "queued" /\ slot[d] = "queued" /\ c # d
    BY <1>1, <2>1 DEF QueueSound, QueueDistinct
  <2>3. PICK e \in Caller : Acquire(e) \/ Enter(e) \/ Release(e)
    BY <1>1 DEF SemNext
  <2>4. CASE Acquire(e) \/ Enter(e)
    BY <1>1, <2>2, <2>4 DEF Acquire, Enter
  <2>5. CASE Release(e)
    <3>1. runQueue # <<>> /\ slot[e] = "holding"
      BY <1>1, <2>1, <2>5 DEF Release
    <3>2. slot' = [slot EXCEPT ![e] = "idle", ![Head(runQueue)] = "granted"]
      BY <2>5, <3>1 DEF Release, NextWaiter
    <3>3. d = Head(runQueue)
      BY <1>1, <2>2, <3>1, <3>2
    <3>4. d = runQueue[1] /\ Len(runQueue) \in Nat
      BY <1>1, <3>1, <3>3
    <3>5. j = 1
      BY <1>1, <2>1, <3>4 DEF QueueDistinct
    <3>6. QED
      BY <2>1, <3>5
  <2>6. QED
    BY <2>3, <2>4, <2>5
<1>2. SemInv /\ SemInv' /\ [SemNext]_semVars => [InOrder]_semVars
  BY <1>1
<1>3. QED
  BY <1>2, SemaphoreInvariant, PTL DEF SemSpec, NoOvertaking
=============================================================================
