-------------------------- MODULE ProviderFailover --------------------------
(***************************************************************************)
(* The calls agent loops make to model providers: the failover executor     *)
(* (src/llm/failover-executor.ts), its circuit breakers (circuit-breaker.ts) *)
(* and the token buckets (rate-limiter.ts).  Every agent loop has its own   *)
(* executor, hence its own breakers, and makes one call at a time; the       *)
(* rate limiter is the runtime's, shared by all loops (runtime/loop.ts 598). *)
(*                                                                         *)
(* Time is a clock that ticks.  A tick is the time in which a bucket gains   *)
(* one unit; absolute times are kept as what is left of a wait, or what has  *)
(* passed since, up to the point where more makes no difference.            *)
(*                                                                         *)
(* What is asked and answered is left out, and so are the failover events,   *)
(* the last successful candidate and the counts, which are for display, and  *)
(* the caveman bridge, which rewrites texts and never fails a call.           *)
(***************************************************************************)
EXTENDS Integers, Sequences

CONSTANTS
    Loop,           \* agent loops
    Streaming,      \* those that stream; the others wait for whole replies
    Model,          \* candidates: a model of a provider
    Provider,
    ProviderOf,     \* model -> provider
    Route,          \* loop -> its candidates, in order
    Threshold,      \* circuitThreshold
    Cooldown,       \* circuitCooldownSeconds, in ticks
    MaxRetries,     \* maxRetriesPerProvider
    Capacity, Cost, \* of a bucket and of a call, in units
    MaxWait         \* maxRateLimitWaitMs, in ticks

ASSUME ProviderFailoverConstants ==
    /\ Streaming \subseteq Loop
    /\ ProviderOf \in [Model -> Provider]
    /\ DOMAIN Route = Loop /\ \A l \in Loop : Route[l] \in Seq(Model)
    /\ Threshold \in Nat \ {0} /\ Cooldown \in Nat \ {0}
    /\ MaxRetries \in Nat /\ MaxWait \in Nat
    /\ Capacity \in Nat \ {0} /\ Cost \in Nat \ {0}

VARIABLES
    calls,          \* loop -> where its call is
    breakers,       \* loop -> provider -> CircuitBreaker
    buckets,        \* model -> BucketState
    streak          \* history: loop -> provider -> failures since the last answer

vars == <<calls, breakers, buckets, streak>>

CallAt(pc, at) == [pc |-> pc, at |-> at, attempt |-> 0, wake |-> 0]

NoCall == CallAt("idle", 0)

Init ==
    /\ calls = [l \in Loop |-> NoCall]
    /\ breakers = [l \in Loop |-> [p \in Provider |->
                      [state |-> "closed", failures |-> 0, rest |-> 0]]]
    /\ buckets = [m \in Model |-> [tokens |-> Capacity, since |-> 0]]
    /\ streak = [l \in Loop |-> [p \in Provider |-> 0]]

Candidate(l) == Route[l][calls[l].at]
ProviderAt(l) == ProviderOf[Candidate(l)]
Breaker(l) == breakers[l][ProviderAt(l)]

AtMost(bound, n) == IF n > bound THEN bound ELSE n

-----------------------------------------------------------------------------
(* CircuitBreaker *)

(* The getter of state: an open circuit becomes half open when it is looked at *)
(* and its cooldown is over.                                                 *)
Looked(b) ==
    IF b.state = "open" /\ b.rest = 0
    THEN [state |-> "half_open", failures |-> b.failures, rest |-> b.rest] ELSE b

IsAvailable(b) == Looked(b).state \in {"closed", "half_open"}

(* A success closes the circuit, and leaves the count to the next failure. *)
SucceededUncounted(b) == [state |-> "closed", failures |-> b.failures, rest |-> 0]

(* recordSuccess *)
Succeeded(b) == [state |-> "closed", failures |-> 0, rest |-> 0]

(* recordFailure; the time of a failure tells only on an open circuit. *)
Failed(b) ==
    LET failures == AtMost(Threshold, b.failures + 1)
    IN  [state |-> IF failures >= Threshold THEN "open" ELSE b.state,
         failures |-> failures,
         rest |-> IF failures >= Threshold THEN Cooldown ELSE b.rest]

SetBreaker(l, b) == breakers' = [breakers EXCEPT ![l][ProviderAt(l)] = b]

(* A failure, or an answer, of the provider of the candidate at hand *)
RecordFailure(l) ==
    /\ SetBreaker(l, Failed(Breaker(l)))
    /\ streak' = [streak EXCEPT ![l][ProviderAt(l)] = AtMost(Threshold, @ + 1)]

Answered(l) == streak' = [streak EXCEPT ![l][ProviderAt(l)] = 0]

-----------------------------------------------------------------------------
(* TokenBucketRateLimiter *)

(* A refused call leaves the time of the last refill alone. *)
RefillKept(b) == [b EXCEPT !.tokens = AtMost(Capacity, b.tokens + b.since)]

Refill(b) == [tokens |-> AtMost(Capacity, b.tokens + b.since), since |-> 0]

Deficit(b) == Cost - Refill(b).tokens

(* tryConsume, for the candidate at hand: whether the tokens are there *)
TryConsume(l) ==
    LET b == Refill(buckets[Candidate(l)])
    IN  buckets' = [buckets EXCEPT ![Candidate(l)] =
            IF b.tokens >= Cost THEN [b EXCEPT !.tokens = @ - Cost] ELSE b]

Allowed(l) == Deficit(buckets[Candidate(l)]) <= 0

(* waitForAvailability up to its timer: a short wait is worth waiting for once. *)
AfterConsume(l, mayWait) ==
    LET deficit == Deficit(buckets[Candidate(l)])
    IN  CASE Allowed(l) -> [calls[l] EXCEPT !.pc = "calling"]
          [] ~Allowed(l) /\ mayWait /\ deficit <= MaxWait ->
                [calls[l] EXCEPT !.pc = "pacing", !.wake = deficit]
          [] OTHER -> [calls[l] EXCEPT !.pc = "denied"]

-----------------------------------------------------------------------------
(* FailoverExecutor: complete and stream, one candidate after the other.  What  *)
(* they do without an await between touches only the loop's own breakers, and  *)
(* one bucket once: others may be let in between.                            *)

Goto(l, call) == calls' = [calls EXCEPT ![l] = call]

Begin(l) ==
    /\ calls[l].pc = "idle"
    /\ Goto(l, CallAt("head", 1))
    /\ UNCHANGED <<breakers, buckets, streak>>

AtHead(l) == calls[l].pc = "head"

NextCandidate(l) == CallAt("head", calls[l].at + 1)

(* All candidates exhausted *)
Exhausted(l) ==
    /\ AtHead(l) /\ calls[l].at > Len(Route[l])
    /\ Goto(l, NoCall)
    /\ UNCHANGED <<breakers, buckets, streak>>

HasCandidate(l) == AtHead(l) /\ calls[l].at <= Len(Route[l])

(* A provider that is skipped counts as one that failed. *)
SkipAsFailure(l) ==
    /\ HasCandidate(l) /\ ~IsAvailable(Breaker(l))
    /\ Goto(l, NextCandidate(l))
    /\ RecordFailure(l)
    /\ UNCHANGED buckets

Skip(l) ==
    /\ HasCandidate(l) /\ ~IsAvailable(Breaker(l))
    /\ Goto(l, NextCandidate(l))
    /\ UNCHANGED <<breakers, buckets, streak>>

(* getProvider throws. *)
Unresolved(l) ==
    /\ HasCandidate(l) /\ IsAvailable(Breaker(l))
    /\ Goto(l, NextCandidate(l))
    /\ RecordFailure(l)
    /\ UNCHANGED buckets

(* The provider is there: the first attempt begins. *)
Admit(l) ==
    /\ HasCandidate(l) /\ IsAvailable(Breaker(l))
    /\ SetBreaker(l, Looked(Breaker(l)))
    /\ TryConsume(l)
    /\ Goto(l, AfterConsume(l, TRUE))
    /\ UNCHANGED streak

(* The timer of the rate limiter is tried again until the tokens are there. *)
PacedUntilAllowed(l) ==
    /\ calls[l].pc = "pacing" /\ calls[l].wake = 0
    /\ TryConsume(l)
    /\ Goto(l, AfterConsume(l, TRUE))
    /\ UNCHANGED <<breakers, streak>>

(* Its timer has fired: one more try, and no other. *)
Paced(l) ==
    /\ calls[l].pc = "pacing" /\ calls[l].wake = 0
    /\ TryConsume(l)
    /\ Goto(l, AfterConsume(l, FALSE))
    /\ UNCHANGED <<breakers, streak>>

(* LLMConnectionError, LLMRateLimitError: the provider's, or the local one of a *)
(* call that was denied.  complete tries again after a while, stream does not. *)
Retryable(l) ==
    /\ \/ calls[l].pc = "denied"
       \/ calls[l].pc = "calling" /\ l \notin Streaming
       \/ calls[l].pc = "streaming"
    /\ RecordFailure(l)
    /\ Goto(l, IF l \notin Streaming /\ calls[l].attempt < MaxRetries
               THEN [calls[l] EXCEPT !.pc = "backoff"]
               ELSE NextCandidate(l))
    /\ UNCHANGED buckets

(* The sleep is over: the next attempt looks at the bucket, not at the breaker. *)
Retry(l) ==
    /\ calls[l].pc = "backoff"
    /\ TryConsume(l)
    /\ Goto(l, [AfterConsume(l, TRUE) EXCEPT !.attempt = calls[l].attempt + 1])
    /\ UNCHANGED <<breakers, streak>>

(* The provider has the request. *)
Requested(l) == calls[l].pc = IF l \in Streaming THEN "streaming" ELSE "calling"

(* Any other error is for the next candidate, ... *)
Unexpected(l) ==
    /\ Requested(l)
    /\ RecordFailure(l)
    /\ Goto(l, NextCandidate(l))
    /\ UNCHANGED buckets

(* ... but LLMResponseError is for the caller. *)
Rejected(l) ==
    /\ Requested(l)
    /\ Goto(l, NoCall)
    /\ UNCHANGED <<breakers, buckets, streak>>

Reply(l) ==
    /\ calls[l].pc = "calling" /\ l \notin Streaming
    /\ SetBreaker(l, Succeeded(Breaker(l)))
    /\ Answered(l)
    /\ Goto(l, NoCall)
    /\ UNCHANGED buckets

(* The generator is made, and nothing asked yet: success is recorded already. *)
OpenStream(l) ==
    /\ calls[l].pc = "calling" /\ l \in Streaming
    /\ SetBreaker(l, Succeeded(Breaker(l)))
    /\ Goto(l, [calls[l] EXCEPT !.pc = "streaming"])
    /\ UNCHANGED <<buckets, streak>>

(* The last chunk, or the consumer leaves the stream after a chunk. *)
EndStream(l) ==
    /\ calls[l].pc = "streaming"
    /\ Answered(l)
    /\ Goto(l, NoCall)
    /\ UNCHANGED <<breakers, buckets>>

-----------------------------------------------------------------------------
Tick ==
    LET Less(n) == IF n > 0 THEN n - 1 ELSE n
    IN  /\ calls' = [l \in Loop |-> [calls[l] EXCEPT !.wake = Less(@)]]
        /\ breakers' = [l \in Loop |-> [p \in Provider |->
                           [breakers[l][p] EXCEPT !.rest = Less(@)]]]
        /\ buckets' = [m \in Model |-> [buckets[m] EXCEPT !.since = AtMost(Capacity, @ + 1)]]
        /\ UNCHANGED streak

CallStep(l) ==
    \/ Exhausted(l) \/ Skip(l) \/ Unresolved(l) \/ Admit(l)
    \/ Paced(l) \/ Retryable(l) \/ Retry(l)
    \/ Unexpected(l) \/ Rejected(l)
    \/ Reply(l) \/ OpenStream(l) \/ EndStream(l)

Next == Tick \/ \E l \in Loop : Begin(l) \/ CallStep(l)

Spec == Init /\ [][Next]_vars

(***************************************************************************)
(* Time passes, and a provider answers or fails: each gives a request a      *)
(* timeout of its own.  Nothing makes a loop call again.                     *)
(***************************************************************************)
FairSpec == Spec /\ WF_vars(Tick) /\ \A l \in Loop : WF_vars(CallStep(l))

-----------------------------------------------------------------------------
CallRecord ==
    [pc : {"idle", "head", "pacing", "denied", "calling", "backoff", "streaming"},
     at : Nat, attempt : 0..MaxRetries, wake : 0..MaxWait]

BreakerRecord ==
    [state : {"closed", "open", "half_open"}, failures : 0..Threshold, rest : 0..Cooldown]

(* A circuit that is not closed has seen Threshold failures, and only an open    *)
(* one has time left to wait.                                                *)
Consistent(b) ==
    /\ b.state = "closed" <=> b.failures < Threshold
    /\ b.rest > 0 => b.state = "open"

BucketRecord == [tokens : 0..Capacity, since : 0..Capacity]

(* Type invariant; no breaker's state contradicts its count (recordSuccess,      *)
(* recordFailure, the getter of state), and a call that is under way has a     *)
(* candidate (complete, stream).                                             *)
TypeOK ==
    /\ calls \in [Loop -> CallRecord]
    /\ \A l \in Loop :
          calls[l].pc \notin {"idle", "head"} => calls[l].at \in 1..Len(Route[l])
    /\ \A l \in Loop :
          /\ calls[l].pc = "head" => calls[l].at >= 1
          /\ calls[l].pc = "backoff" => calls[l].attempt < MaxRetries
    /\ breakers \in [Loop -> [Provider -> BreakerRecord]]
    /\ \A l \in Loop, p \in Provider : Consistent(breakers[l][p])
    /\ buckets \in [Model -> BucketRecord]
    /\ streak \in [Loop -> [Provider -> 0..Threshold]]

(* Each breaker, which notices the end of a cooldown only when it is looked at, *)
(* implements the abstract one: it opens after Threshold failures in a row and *)
(* at the first failure after a cooldown, and whatever calls are retried or    *)
(* skipped meanwhile, every cooldown ends.                                    *)
Breakers ==
    INSTANCE CircuitBreaker WITH
        Circuit <- Loop \X Provider,
        mode <- [b \in Loop \X Provider |-> Looked(breakers[b[1]][b[2]]).state],
        failures <- [b \in Loop \X Provider |-> breakers[b[1]][b[2]].failures]

BreakerSpec == Breakers!Spec

(* Each bucket, refilled only when somebody asks, implements the abstract one:   *)
(* whoever is refused, waits or comes late, no unit is lost or counted twice.  *)
Buckets ==
    INSTANCE TokenBucket WITH
        Bucket <- Model,
        level <- [m \in Model |-> Refill(buckets[m]).tokens]

BucketSpec == Buckets!Spec

(* Every call comes to its end, with an answer or an error: no waiting for       *)
(* tokens that others take, no retrying and no failing over goes on for ever.  *)
EveryCallEnds == \A l \in Loop : calls[l].pc # "idle" ~> calls[l].pc = "idle"

(* docs/COLONY_BIBLE.md: "OPEN: after 3 consecutive failures, stop trying".      *)
(* With Threshold failures and no answer since, a provider's circuit is not    *)
(* closed.                                                                   *)
OpensAfterFailures ==
    \A l \in Loop, p \in Provider :
        streak[l][p] >= Threshold => breakers[l][p].state # "closed"
=============================================================================
