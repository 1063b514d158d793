--------------------------- MODULE FailoverProofs ---------------------------
(***************************************************************************)
(* For every number of loops, models and providers, every route, threshold,  *)
(* cooldown and bucket: the types, that the breakers which notice a cooldown  *)
(* only when they are looked at step as the abstract ones do, and that the   *)
(* buckets which are refilled only when asked implement the abstract ones.    *)
(* The type invariant is inductive as it stands, and is all the two          *)
(* refinements need.  Then what a breaker's count has to do with the calls    *)
(* that failed: it is exact unless a loop streams, and never too high.        *)
(***************************************************************************)
EXTENDS ProviderFailover, TLAPS

Good(b) == b \in BreakerRecord /\ Consistent(b)

LEMMA LookedIsGood ==
    ASSUME NEW b, Good(b)
    PROVE  Good(Looked(b)) /\ Looked(Looked(b)) = Looked(b)
  BY ProviderFailoverConstants DEF Good, BreakerRecord, Consistent, Looked

LEMMA FailedIsGood ==
    ASSUME NEW b, Good(b)
    PROVE  Good(Failed(b))
  BY ProviderFailoverConstants DEF Good, BreakerRecord, Consistent, Failed, AtMost

LEMMA SucceededIsGood ==
    ASSUME NEW b
    PROVE  Good(Succeeded(b))
  BY ProviderFailoverConstants DEF Good, BreakerRecord, Consistent, Succeeded

(* The breaker at hand, and what replacing it does to the others *)
LEMMA BreakerAtHand ==
    ASSUME TypeOK, NEW l \in Loop, calls[l].at \in 1..Len(Route[l])
    PROVE  /\ Candidate(l) \in Model
           /\ ProviderAt(l) \in Provider
           /\ Good(Breaker(l))
<1>1. Candidate(l) \in Model
  BY ProviderFailoverConstants DEF Candidate, TypeOK
<1>2. ProviderAt(l) \in Provider
  BY <1>1, ProviderFailoverConstants DEF ProviderAt
<1> QED
  BY <1>1, <1>2 DEF Breaker, Good, TypeOK

LEMMA SetIsGood ==
    ASSUME TypeOK, NEW l \in Loop, calls[l].at \in 1..Len(Route[l]),
           NEW b, Good(b), SetBreaker(l, b)
    PROVE  /\ breakers' \in [Loop -> [Provider -> BreakerRecord]]
           /\ \A k \in Loop, p \in Provider : Consistent(breakers'[k][p])
           /\ breakers'[l][ProviderAt(l)] = b
           /\ \A k \in Loop, p \in Provider :
                 <<k, p>> # <<l, ProviderAt(l)>> => breakers'[k][p] = breakers[k][p]
<1>1. ProviderAt(l) \in Provider
  BY BreakerAtHand
<1>2. breakers' = [k \in Loop |-> IF k = l
                     THEN [p \in Provider |-> IF p = ProviderAt(l) THEN b ELSE breakers[l][p]]
                     ELSE breakers[k]]
  BY <1>1 DEF SetBreaker, TypeOK
<1> QED
  BY <1>1, <1>2 DEF Good, TypeOK

LEMMA RecordIsGood ==
    ASSUME TypeOK, NEW l \in Loop, calls[l].at \in 1..Len(Route[l])
    PROVE  /\ RecordFailure(l) => /\ SetBreaker(l, Failed(Breaker(l)))
                                 /\ streak' \in [Loop -> [Provider -> 0..Threshold]]
           /\ Answered(l) => streak' \in [Loop -> [Provider -> 0..Threshold]]
<1>1. ProviderAt(l) \in Provider
  BY BreakerAtHand
<1>2. Threshold \in Nat /\ streak \in [Loop -> [Provider -> 0..Threshold]]
  BY ProviderFailoverConstants DEF TypeOK
<1>3. \A n \in 0..Threshold : AtMost(Threshold, n + 1) \in 0..Threshold
  BY <1>2 DEF AtMost
<1>4. ASSUME NEW n \in 0..Threshold, streak' = [streak EXCEPT ![l][ProviderAt(l)] = n]
      PROVE  streak' \in [Loop -> [Provider -> 0..Threshold]]
  BY <1>1, <1>2, <1>4
<1>5. AtMost(Threshold, streak[l][ProviderAt(l)] + 1) \in 0..Threshold
  BY <1>1, <1>2, <1>3
<1>6. 0 \in 0..Threshold
  BY <1>2
<1>7. ASSUME RecordFailure(l)
      PROVE  /\ SetBreaker(l, Failed(Breaker(l)))
             /\ streak' \in [Loop -> [Provider -> 0..Threshold]]
  BY <1>4, <1>5, <1>7 DEF RecordFailure
<1>8. ASSUME Answered(l)
      PROVE  streak' \in [Loop -> [Provider -> 0..Threshold]]
  BY <1>4, <1>6, <1>8 DEF Answered
<1> QED
  BY <1>7, <1>8

-----------------------------------------------------------------------------
(* Buckets and calls *)

LEMMA RefillIsGood ==
    ASSUME NEW b \in BucketRecord
    PROVE  Refill(b) \in BucketRecord /\ Refill(Refill(b)) = Refill(b)
  BY ProviderFailoverConstants DEF BucketRecord, Refill, AtMost

LEMMA ConsumeIsGood ==
    ASSUME TypeOK, NEW l \in Loop, calls[l].at \in 1..Len(Route[l]), TryConsume(l)
    PROVE  /\ buckets' \in [Model -> BucketRecord]
           /\ \/ \A m \in Model : Refill(buckets'[m]).tokens = Refill(buckets[m]).tokens
              \/ /\ Refill(buckets[Candidate(l)]).tokens >= Cost
                 /\ \A m \in Model :
                       Refill(buckets'[m]).tokens =
                           IF m = Candidate(l) THEN Refill(buckets[m]).tokens - Cost
                           ELSE Refill(buckets[m]).tokens
<1> DEFINE m == Candidate(l)
           r == Refill(buckets[m])
           b == IF r.tokens >= Cost THEN [r EXCEPT !.tokens = @ - Cost] ELSE r
<1>1. m \in Model /\ buckets \in [Model -> BucketRecord]
  BY BreakerAtHand DEF TypeOK
<1>2. r \in BucketRecord /\ Refill(r) = r /\ r.since = 0
  BY <1>1, RefillIsGood DEF Refill
<1>3. buckets' = [buckets EXCEPT ![m] = b]
  BY DEF TryConsume
<1>4. b \in BucketRecord /\ Refill(b).tokens = b.tokens
  BY <1>2, ProviderFailoverConstants DEF BucketRecord, Refill, AtMost
<1>5. buckets'[m] = b /\ \A n \in Model : n # m => buckets'[n] = buckets[n]
  BY <1>1, <1>3
<1>6. buckets' \in [Model -> BucketRecord]
  BY <1>1, <1>3, <1>4
<1>7. CASE r.tokens >= Cost
  <2>1. b.tokens = r.tokens - Cost
    BY <1>2, <1>7 DEF BucketRecord
  <2> QED
    BY <1>1, <1>4, <1>5, <1>6, <1>7, <2>1
<1>8. CASE ~(r.tokens >= Cost)
  <2>1. b = r
    BY <1>8
  <2> QED
    BY <1>1, <1>2, <1>5, <1>6, <2>1
<1> QED
  BY <1>7, <1>8

LEMMA AfterConsumeIsGood ==
    ASSUME TypeOK, NEW l \in Loop, calls[l].at \in 1..Len(Route[l]),
           NEW mayWait \in BOOLEAN
    PROVE  /\ AfterConsume(l, mayWait) \in CallRecord
           /\ AfterConsume(l, mayWait).at = calls[l].at
           /\ AfterConsume(l, mayWait).pc \in {"calling", "pacing", "denied"}
<1> DEFINE d == Deficit(buckets[Candidate(l)])
<1>1. calls[l] \in CallRecord /\ MaxWait \in Nat
  BY ProviderFailoverConstants DEF TypeOK
<1>2. d \in Int
  <2>1. Refill(buckets[Candidate(l)]) \in BucketRecord
    BY BreakerAtHand, RefillIsGood DEF TypeOK
  <2> QED
    BY <2>1, ProviderFailoverConstants DEF Deficit, BucketRecord
<1>3. Allowed(l) <=> d <= 0
  BY DEF Allowed
<1>4. AfterConsume(l, mayWait) =
          CASE Allowed(l) -> [calls[l] EXCEPT !.pc = "calling"]
            [] ~Allowed(l) /\ mayWait /\ d <= MaxWait ->
                  [calls[l] EXCEPT !.pc = "pacing", !.wake = d]
            [] OTHER -> [calls[l] EXCEPT !.pc = "denied"]
  BY DEF AfterConsume
<1> HIDE DEF d
<1>5. CASE Allowed(l)
  <2>1. AfterConsume(l, mayWait) = [calls[l] EXCEPT !.pc = "calling"]
    BY <1>4, <1>5
  <2> QED
    BY <2>1, <1>1 DEF CallRecord
<1>6. CASE ~Allowed(l) /\ mayWait /\ d <= MaxWait
  <2>1. AfterConsume(l, mayWait) = [calls[l] EXCEPT !.pc = "pacing", !.wake = d]
    BY <1>4, <1>6
  <2>2. d \in 0..MaxWait
    BY <1>1, <1>2, <1>3, <1>6
  <2> QED
    BY <2>1, <2>2, <1>1 DEF CallRecord
<1>7. CASE ~Allowed(l) /\ ~(mayWait /\ d <= MaxWait)
  <2>1. AfterConsume(l, mayWait) = [calls[l] EXCEPT !.pc = "denied"]
    BY <1>4, <1>7
  <2> QED
    BY <2>1, <1>1 DEF CallRecord
<1> QED
  BY <1>5, <1>6, <1>7
-----------------------------------------------------------------------------
(* What a step does to a circuit and to a bucket, in terms of the abstract ones *)

CircuitStep(b, c) ==
    \/ Looked(c).state = "closed" /\ Looked(c).failures = 0
    \/ /\ Looked(c).failures = IF Looked(b).failures < Threshold
                               THEN Looked(b).failures + 1 ELSE Looked(b).failures
       /\ Looked(c).state = IF Looked(b).state = "half_open" \/ Looked(c).failures = Threshold
                            THEN "open" ELSE Looked(b).state
    \/ /\ Looked(b).state = "open" /\ Looked(c).state = "half_open"
       /\ Looked(c).failures = Looked(b).failures
    \/ Looked(c).state = Looked(b).state /\ Looked(c).failures = Looked(b).failures

LEMMA CircuitSteps ==
    ASSUME NEW b, Good(b)
    PROVE  /\ CircuitStep(b, b)
           /\ CircuitStep(b, Looked(b))
           /\ CircuitStep(b, Succeeded(b))
           /\ CircuitStep(b, Failed(b))
<1>1. CircuitStep(b, b)
  BY DEF CircuitStep
<1>2. CircuitStep(b, Looked(b))
  BY LookedIsGood DEF CircuitStep
<1>3. CircuitStep(b, Succeeded(b))
  BY DEF CircuitStep, Succeeded, Looked
<1>4. CircuitStep(b, Failed(b))
  BY ProviderFailoverConstants
     DEF CircuitStep, Failed, Looked, Good, BreakerRecord, Consistent, AtMost
<1> QED
  BY <1>1, <1>2, <1>3, <1>4

LEMMA SetSteps ==
    ASSUME TypeOK, NEW l \in Loop, calls[l].at \in 1..Len(Route[l]),
           NEW b, Good(b), SetBreaker(l, b), CircuitStep(Breaker(l), b)
    PROVE  /\ breakers' \in [Loop -> [Provider -> BreakerRecord]]
           /\ \A k \in Loop, p \in Provider : Consistent(breakers'[k][p])
           /\ \A k \in Loop, p \in Provider : CircuitStep(breakers[k][p], breakers'[k][p])
<1>1. /\ breakers' \in [Loop -> [Provider -> BreakerRecord]]
      /\ \A k \in Loop, p \in Provider : Consistent(breakers'[k][p])
      /\ breakers'[l][ProviderAt(l)] = b
      /\ \A k \in Loop, p \in Provider :
            <<k, p>> # <<l, ProviderAt(l)>> => breakers'[k][p] = breakers[k][p]
  BY SetIsGood
<1>2. ASSUME NEW k \in Loop, NEW p \in Provider
      PROVE  CircuitStep(breakers[k][p], breakers'[k][p])
  <2>1. CASE k = l /\ p = ProviderAt(l)
    BY <1>1, <2>1 DEF Breaker
  <2>2. CASE ~(k = l /\ p = ProviderAt(l))
    <3>1. breakers'[k][p] = breakers[k][p] /\ Good(breakers[k][p])
      BY <1>1, <2>2 DEF TypeOK, Good
    <3> QED
      BY <3>1, CircuitSteps
  <2> QED
    BY <2>1, <2>2
<1> QED
  BY <1>1, <1>2

Level(m) == Refill(buckets[m]).tokens

BucketsStep ==
    \/ \A m \in Model : Level(m)' = Level(m)
    \/ \A m \in Model : Level(m)' = IF Level(m) < Capacity THEN Level(m) + 1 ELSE Level(m)
    \/ \E n \in Model :
          /\ Level(n) >= Cost
          /\ \A m \in Model : Level(m)' = IF m = n THEN Level(m) - Cost ELSE Level(m)

Step ==
    /\ TypeOK'
    /\ \A k \in Loop, p \in Provider : CircuitStep(breakers[k][p], breakers'[k][p])
    /\ BucketsStep

(* A step of one loop's call: a new record for the call, and each of the other  *)
(* variables unchanged or changed as the lemmas above say.                    *)
LEMMA OneLoop ==
    ASSUME TypeOK, NEW l \in Loop, NEW c \in CallRecord, Goto(l, c),
           c.pc \notin {"idle", "head"} => c.at \in 1..Len(Route[l]),
           c.pc = "head" => c.at >= 1,
           c.pc = "backoff" => c.attempt < MaxRetries,
           \/ UNCHANGED breakers
           \/ /\ calls[l].at \in 1..Len(Route[l])
              /\ \/ SetBreaker(l, Looked(Breaker(l)))
                 \/ SetBreaker(l, Succeeded(Breaker(l)))
                 \/ SetBreaker(l, Failed(Breaker(l))),
           \/ UNCHANGED buckets
           \/ calls[l].at \in 1..Len(Route[l]) /\ TryConsume(l),
           \/ UNCHANGED streak
           \/ streak' \in [Loop -> [Provider -> 0..Threshold]]
    PROVE  Step
<1>1. /\ calls' \in [Loop -> CallRecord]
      /\ \A k \in Loop :
            calls'[k].pc \notin {"idle", "head"} => calls'[k].at \in 1..Len(Route[k])
      /\ \A k \in Loop :
            /\ calls'[k].pc = "head" => calls'[k].at >= 1
            /\ calls'[k].pc = "backoff" => calls'[k].attempt < MaxRetries
  <2>1. calls' = [calls EXCEPT ![l] = c] /\ calls \in [Loop -> CallRecord]
    BY DEF Goto, TypeOK
  <2>2. calls' \in [Loop -> CallRecord] /\ calls'[l] = c
    BY <2>1
  <2>3. \A k \in Loop : k # l => calls'[k] = calls[k]
    BY <2>1
  <2> QED
    BY <2>2, <2>3 DEF TypeOK
<1>2. /\ breakers' \in [Loop -> [Provider -> BreakerRecord]]
      /\ \A k \in Loop, p \in Provider : Consistent(breakers'[k][p])
      /\ \A k \in Loop, p \in Provider : CircuitStep(breakers[k][p], breakers'[k][p])
  <2>0. \A k \in Loop, p \in Provider : CircuitStep(breakers[k][p], breakers[k][p])
    BY CircuitSteps DEF TypeOK, Good
  <2>1. CASE UNCHANGED breakers
    BY <2>0, <2>1 DEF TypeOK
  <2>3. ASSUME calls[l].at \in 1..Len(Route[l])
        PROVE  Good(Breaker(l))
    BY <2>3, BreakerAtHand
  <2>4. CASE calls[l].at \in 1..Len(Route[l]) /\ SetBreaker(l, Looked(Breaker(l)))
    <3>1. Good(Breaker(l))
      BY <2>3, <2>4
    <3>2. Good(Looked(Breaker(l))) /\ CircuitStep(Breaker(l), Looked(Breaker(l)))
      BY <3>1, LookedIsGood, CircuitSteps
    <3> QED
      BY <2>4, <3>2, SetSteps
  <2>5. CASE calls[l].at \in 1..Len(Route[l]) /\ SetBreaker(l, Succeeded(Breaker(l)))
    <3>1. Good(Breaker(l))
      BY <2>3, <2>5
    <3>2. Good(Succeeded(Breaker(l))) /\ CircuitStep(Breaker(l), Succeeded(Breaker(l)))
      BY <3>1, SucceededIsGood, CircuitSteps
    <3> QED
      BY <2>5, <3>2, SetSteps
  <2>6. CASE calls[l].at \in 1..Len(Route[l]) /\ SetBreaker(l, Failed(Breaker(l)))
    <3>1. Good(Breaker(l))
      BY <2>3, <2>6
    <3>2. Good(Failed(Breaker(l))) /\ CircuitStep(Breaker(l), Failed(Breaker(l)))
      BY <3>1, FailedIsGood, CircuitSteps
    <3> QED
      BY <2>6, <3>2, SetSteps
  <2> QED
    BY <2>1, <2>4, <2>5, <2>6
<1>3. buckets' \in [Model -> BucketRecord] /\ BucketsStep
  <2>1. CASE UNCHANGED buckets
    BY <2>1 DEF TypeOK, BucketsStep, Level
  <2>2. CASE calls[l].at \in 1..Len(Route[l]) /\ TryConsume(l)
    <3>1. Candidate(l) \in Model
      BY <2>2, BreakerAtHand
    <3> QED
      BY <2>2, <3>1, ConsumeIsGood DEF BucketsStep, Level
  <2> QED
    BY <2>1, <2>2
<1>4. streak' \in [Loop -> [Provider -> 0..Threshold]]
  BY DEF TypeOK
<1> QED
  BY <1>1, <1>2, <1>3, <1>4 DEF Step, TypeOK
-----------------------------------------------------------------------------
(* One step per action. *)

LEMMA InitIsTyped == Init => TypeOK
  BY ProviderFailoverConstants
     DEF Init, TypeOK, NoCall, CallAt, CallRecord, BreakerRecord, Consistent, BucketRecord

LEMMA HeadSteps ==
    ASSUME TypeOK, NEW l \in Loop,
           Begin(l) \/ Exhausted(l) \/ Skip(l) \/ Unresolved(l) \/ Admit(l)
    PROVE  Step
<1>1. NoCall \in CallRecord /\ calls[l] \in CallRecord /\ Len(Route[l]) \in Nat
  BY ProviderFailoverConstants DEF NoCall, CallAt, CallRecord, TypeOK
<1>2. CASE Begin(l)
  <2> DEFINE c == CallAt("head", 1)
  <2>1. c \in CallRecord /\ c.pc = "head" /\ c.at = 1 /\ Goto(l, c)
    BY <1>2, ProviderFailoverConstants DEF CallAt, CallRecord, Begin
  <2>2. UNCHANGED <<breakers, buckets, streak>>
    BY <1>2 DEF Begin
  <2>3. c.at >= 1 /\ c.pc = "head"
    BY <2>1
  <2> HIDE DEF c
  <2> QED
    BY <2>1, <2>2, <2>3, OneLoop
<1>3. CASE Exhausted(l)
  <2>1. NoCall.pc = "idle" /\ Goto(l, NoCall) /\ UNCHANGED <<breakers, buckets, streak>>
    BY <1>3 DEF NoCall, CallAt, Exhausted
  <2> QED
    BY <1>1, <2>1, OneLoop
<1>4. ASSUME HasCandidate(l)
      PROVE  /\ calls[l].at \in 1..Len(Route[l])
             /\ NextCandidate(l) \in CallRecord
             /\ NextCandidate(l).pc = "head" /\ NextCandidate(l).at >= 1
  <2>1. calls[l].pc = "head" /\ calls[l].at <= Len(Route[l])
    BY <1>4 DEF HasCandidate, AtHead
  <2>2. calls[l].at \in Nat /\ calls[l].at >= 1
    BY <1>1, <2>1 DEF TypeOK, CallRecord
  <2>3. calls[l].at \in 1..Len(Route[l])
    BY <1>1, <2>1, <2>2
  <2>4. NextCandidate(l) =
            [pc |-> "head", at |-> calls[l].at + 1, attempt |-> 0, wake |-> 0]
    BY DEF NextCandidate, CallAt
  <2>5. NextCandidate(l) \in CallRecord
    BY <2>2, <2>4, ProviderFailoverConstants DEF CallRecord
  <2>6. NextCandidate(l).pc = "head" /\ NextCandidate(l).at >= 1
    BY <2>2, <2>4
  <2> QED
    BY <2>3, <2>5, <2>6
<1>5. CASE Skip(l)
  <2>1. HasCandidate(l) /\ Goto(l, NextCandidate(l)) /\ UNCHANGED <<breakers, buckets, streak>>
    BY <1>5 DEF Skip
  <2> QED
    BY <1>4, <2>1, OneLoop
<1>6. CASE Unresolved(l)
  <2>1. HasCandidate(l) /\ Goto(l, NextCandidate(l)) /\ RecordFailure(l) /\ UNCHANGED buckets
    BY <1>6 DEF Unresolved
  <2>2. /\ SetBreaker(l, Failed(Breaker(l)))
        /\ streak' \in [Loop -> [Provider -> 0..Threshold]]
    BY <1>4, <2>1, RecordIsGood
  <2> QED
    BY <1>4, <2>1, <2>2, OneLoop
<1>7. CASE Admit(l)
  <2>1. /\ HasCandidate(l) /\ SetBreaker(l, Looked(Breaker(l))) /\ TryConsume(l)
        /\ Goto(l, AfterConsume(l, TRUE)) /\ UNCHANGED streak
    BY <1>7 DEF Admit
  <2>2. calls[l].at \in 1..Len(Route[l])
    BY <1>4, <2>1
  <2>3. /\ AfterConsume(l, TRUE) \in CallRecord
        /\ AfterConsume(l, TRUE).at = calls[l].at
        /\ AfterConsume(l, TRUE).pc \in {"calling", "pacing", "denied"}
    BY <2>2, AfterConsumeIsGood
  <2> QED
    BY <2>1, <2>2, <2>3, OneLoop
<1> QED
  BY <1>2, <1>3, <1>5, <1>6, <1>7
LEMMA AttemptSteps ==
    ASSUME TypeOK, NEW l \in Loop,
           Paced(l) \/ Retryable(l) \/ Retry(l) \/ Unexpected(l) \/ Rejected(l)
    PROVE  Step
<1>1. NoCall \in CallRecord /\ NoCall.pc = "idle" /\ calls[l] \in CallRecord
  BY ProviderFailoverConstants DEF NoCall, CallAt, CallRecord, TypeOK
<1>2. calls[l].pc \notin {"idle", "head"}
  BY DEF Paced, Retryable, Retry, Unexpected, Rejected, Requested
<1>3. calls[l].at \in 1..Len(Route[l])
  BY <1>2 DEF TypeOK
<1>4. NextCandidate(l) \in CallRecord /\ NextCandidate(l).pc = "head" /\ NextCandidate(l).at >= 1
  BY <1>1, <1>3, ProviderFailoverConstants DEF NextCandidate, CallAt, CallRecord
<1>5. \A mayWait \in BOOLEAN :
         /\ AfterConsume(l, mayWait) \in CallRecord
         /\ AfterConsume(l, mayWait).at = calls[l].at
         /\ AfterConsume(l, mayWait).pc \in {"calling", "pacing", "denied"}
  BY <1>3, AfterConsumeIsGood
<1>6. CASE Paced(l)
  <2>1. TryConsume(l) /\ Goto(l, AfterConsume(l, FALSE)) /\ UNCHANGED <<breakers, streak>>
    BY <1>6 DEF Paced
  <2> QED
    BY <1>3, <1>5, <2>1, OneLoop
<1>7. CASE Retryable(l)
  <2> DEFINE c == IF l \notin Streaming /\ calls[l].attempt < MaxRetries
                  THEN [calls[l] EXCEPT !.pc = "backoff"] ELSE NextCandidate(l)
  <2>1. RecordFailure(l) /\ Goto(l, c) /\ UNCHANGED buckets
    BY <1>7 DEF Retryable
  <2>2. /\ SetBreaker(l, Failed(Breaker(l)))
        /\ streak' \in [Loop -> [Provider -> 0..Threshold]]
    BY <1>3, <2>1, RecordIsGood
  <2>3. /\ [calls[l] EXCEPT !.pc = "backoff"] \in CallRecord
        /\ [calls[l] EXCEPT !.pc = "backoff"].at = calls[l].at
        /\ [calls[l] EXCEPT !.pc = "backoff"].pc = "backoff"
        /\ [calls[l] EXCEPT !.pc = "backoff"].attempt = calls[l].attempt
    BY <1>1 DEF CallRecord
  <2>4. /\ c \in CallRecord
        /\ c.pc \notin {"idle", "head"} => c.at \in 1..Len(Route[l])
        /\ c.pc = "head" => c.at >= 1
        /\ c.pc = "backoff" => c.attempt < MaxRetries
    BY <1>1, <1>3, <1>4, <2>3
  <2> HIDE DEF c
  <2> QED
    BY <1>3, <2>1, <2>2, <2>4, OneLoop
<1>8. CASE Retry(l)
  <2> DEFINE a == AfterConsume(l, TRUE)
             c == [a EXCEPT !.attempt = calls[l].attempt + 1]
  <2>1. TryConsume(l) /\ Goto(l, c) /\ UNCHANGED <<breakers, streak>>
    BY <1>8 DEF Retry
  <2>2. calls[l].attempt + 1 \in 0..MaxRetries
    <3>1. calls[l].attempt < MaxRetries
      BY <1>8 DEF Retry, TypeOK
    <3>2. calls[l].attempt \in 0..MaxRetries /\ MaxRetries \in Nat
      BY <1>1, ProviderFailoverConstants DEF CallRecord
    <3> QED
      BY <3>1, <3>2
  <2>3. a \in CallRecord /\ a.at = calls[l].at /\ a.pc \in {"calling", "pacing", "denied"}
    BY <1>5
  <2> HIDE DEF a
  <2>4. c \in CallRecord /\ c.at = calls[l].at /\ c.pc \in {"calling", "pacing", "denied"}
    BY <2>2, <2>3 DEF CallRecord
  <2> HIDE DEF c
  <2> QED
    BY <1>3, <2>1, <2>4, OneLoop
<1>9. CASE Unexpected(l)
  <2>1. RecordFailure(l) /\ Goto(l, NextCandidate(l)) /\ UNCHANGED buckets
    BY <1>9 DEF Unexpected
  <2>2. /\ SetBreaker(l, Failed(Breaker(l)))
        /\ streak' \in [Loop -> [Provider -> 0..Threshold]]
    BY <1>3, <2>1, RecordIsGood
  <2> QED
    BY <1>3, <1>4, <2>1, <2>2, OneLoop
<1>10. CASE Rejected(l)
  <2>1. Goto(l, NoCall) /\ UNCHANGED <<breakers, buckets, streak>>
    BY <1>10 DEF Rejected
  <2> QED
    BY <1>1, <2>1, OneLoop
<1> QED
  BY <1>6, <1>7, <1>8, <1>9, <1>10

LEMMA AnswerSteps ==
    ASSUME TypeOK, NEW l \in Loop, Reply(l) \/ OpenStream(l) \/ EndStream(l)
    PROVE  Step
<1>1. NoCall \in CallRecord /\ NoCall.pc = "idle" /\ calls[l] \in CallRecord
  BY ProviderFailoverConstants DEF NoCall, CallAt, CallRecord, TypeOK
<1>2. calls[l].at \in 1..Len(Route[l])
  BY DEF Reply, OpenStream, EndStream, TypeOK
<1>3. CASE Reply(l)
  <2>1. SetBreaker(l, Succeeded(Breaker(l))) /\ Answered(l) /\ Goto(l, NoCall) /\ UNCHANGED buckets
    BY <1>3 DEF Reply
  <2> QED
    BY <1>1, <1>2, <2>1, RecordIsGood, OneLoop
<1>4. CASE OpenStream(l)
  <2> DEFINE c == [calls[l] EXCEPT !.pc = "streaming"]
  <2>1. SetBreaker(l, Succeeded(Breaker(l))) /\ Goto(l, c) /\ UNCHANGED <<buckets, streak>>
    BY <1>4 DEF OpenStream
  <2>2. c \in CallRecord /\ c.at = calls[l].at /\ c.pc = "streaming"
    BY <1>1 DEF CallRecord
  <2> HIDE DEF c
  <2> QED
    BY <1>2, <2>1, <2>2, OneLoop
<1>5. CASE EndStream(l)
  <2>1. Answered(l) /\ Goto(l, NoCall) /\ UNCHANGED <<breakers, buckets>>
    BY <1>5 DEF EndStream
  <2> QED
    BY <1>1, <1>2, <2>1, RecordIsGood, OneLoop
<1> QED
  BY <1>3, <1>4, <1>5
LEMMA TickStep ==
    ASSUME TypeOK, Tick
    PROVE  Step
<1> DEFINE Less(n) == IF n > 0 THEN n - 1 ELSE n
           Later(b) == [b EXCEPT !.rest = Less(b.rest)]
<1>1. /\ calls' \in [Loop -> CallRecord]
      /\ \A l \in Loop : /\ calls'[l].pc = calls[l].pc /\ calls'[l].at = calls[l].at
                         /\ calls'[l].attempt = calls[l].attempt
  <2>1. ASSUME NEW l \in Loop
        PROVE  /\ [calls[l] EXCEPT !.wake = Less(calls[l].wake)] \in CallRecord
               /\ calls'[l] = [calls[l] EXCEPT !.wake = Less(calls[l].wake)]
    <3>1. calls[l] \in CallRecord /\ MaxWait \in Nat
      BY ProviderFailoverConstants DEF TypeOK
    <3>2. Less(calls[l].wake) \in 0..MaxWait
      BY <3>1 DEF CallRecord
    <3>3. calls'[l] = [calls[l] EXCEPT !.wake = Less(calls[l].wake)]
      BY DEF Tick
    <3> HIDE DEF Less
    <3> QED
      BY <3>1, <3>2, <3>3 DEF CallRecord
  <2>2. calls' = [l \in Loop |-> calls'[l]]
    BY DEF Tick
  <2>3. \A l \in Loop : calls[l] \in CallRecord
    BY DEF TypeOK
  <2> HIDE DEF Less
  <2> QED
    BY <2>1, <2>2, <2>3 DEF CallRecord
<1>2. /\ breakers' \in [Loop -> [Provider -> BreakerRecord]]
      /\ \A k \in Loop, p \in Provider : Consistent(breakers'[k][p])
      /\ \A k \in Loop, p \in Provider : CircuitStep(breakers[k][p], breakers'[k][p])
  <2>1. ASSUME NEW k \in Loop, NEW p \in Provider
        PROVE  Good(breakers[k][p]) /\ breakers'[k][p] = Later(breakers[k][p])
    BY DEF Tick, TypeOK, Good
  <2>2. ASSUME NEW b, Good(b)
        PROVE  Good(Later(b)) /\ CircuitStep(b, Later(b))
    <3>1. Later(b) = [state |-> b.state, failures |-> b.failures, rest |-> Less(b.rest)]
      BY <2>2 DEF Good, BreakerRecord
    <3> HIDE DEF Later
    <3>2. Good(Later(b))
      BY <2>2, <3>1, ProviderFailoverConstants DEF Good, BreakerRecord, Consistent
    <3>3. CircuitStep(b, Later(b))
      BY <2>2, <3>1, ProviderFailoverConstants
         DEF Good, BreakerRecord, Consistent, CircuitStep, Looked
    <3> QED
      BY <3>2, <3>3
  <2>3. \A k \in Loop, p \in Provider :
           Good(breakers'[k][p]) /\ CircuitStep(breakers[k][p], breakers'[k][p])
    <3> HIDE DEF Later
    <3> QED
      BY <2>1, <2>2
  <2>4. breakers' = [k \in Loop |-> [p \in Provider |-> breakers'[k][p]]]
    BY DEF Tick
  <2> QED
    BY <2>3, <2>4 DEF Good
<1>3. buckets' \in [Model -> BucketRecord] /\ BucketsStep
  <2>1. ASSUME NEW m \in Model
        PROVE  /\ buckets'[m] \in BucketRecord
               /\ Level(m)' = IF Level(m) < Capacity THEN Level(m) + 1 ELSE Level(m)
    <3>1. buckets[m] \in BucketRecord /\ Capacity \in Nat
      BY ProviderFailoverConstants DEF TypeOK
    <3>2. buckets'[m] = [tokens |-> buckets[m].tokens,
                         since |-> AtMost(Capacity, buckets[m].since + 1)]
      BY <3>1 DEF Tick, BucketRecord
    <3> QED
      BY <3>1, <3>2 DEF BucketRecord, Level, Refill, AtMost
  <2>2. buckets' = [m \in Model |-> buckets'[m]]
    BY DEF Tick
  <2> QED
    BY <2>1, <2>2 DEF BucketsStep
<1>4. streak' \in [Loop -> [Provider -> 0..Threshold]]
  BY DEF Tick, TypeOK
<1> QED
  BY <1>1, <1>2, <1>3, <1>4 DEF TypeOK, Step

LEMMA EveryStep ==
    ASSUME TypeOK, [Next]_vars
    PROVE  Step
<1>1. CASE Next
  BY <1>1, TickStep, HeadSteps, AttemptSteps, AnswerSteps DEF Next, CallStep
<1>2. CASE UNCHANGED vars
  <2>1. \A k \in Loop, p \in Provider : CircuitStep(breakers[k][p], breakers[k][p])
    BY CircuitSteps DEF TypeOK, Good
  <2> QED
    BY <1>2, <2>1 DEF vars, Step, TypeOK, BucketsStep, Level
<1> QED
  BY <1>1, <1>2

-----------------------------------------------------------------------------
(* The types, the breakers' and the limiter's state hold their promises        *)
(* (recordSuccess, recordFailure, state, refill, tryConsume).                *)
THEOREM TypeCorrect == Spec => []TypeOK
<1>1. Init => TypeOK
  BY InitIsTyped
<1>2. TypeOK /\ [Next]_vars => TypeOK'
  BY EveryStep DEF Step
<1> QED
  BY <1>1, <1>2, PTL DEF Spec

(* The token bucket: whatever loops do when, each lazily refilled bucket has    *)
(* what the abstract one has; no unit is lost or counted twice.              *)
THEOREM BucketsImplement == Spec => BucketSpec
<1>1. Init => Buckets!Init
  BY ProviderFailoverConstants DEF Init, Buckets!Init, Refill, AtMost
<1>2. TypeOK /\ [Next]_vars => [Buckets!Next]_(Buckets!vars)
  BY EveryStep DEF Step, BucketsStep, Level, Buckets!Next, Buckets!Refill, Buckets!Take,
         Buckets!vars
<1> QED
  BY <1>1, <1>2, TypeCorrect, PTL DEF Spec, BucketSpec, Buckets!Spec

(* The circuit breaker: in every behaviour each circuit opens after Threshold   *)
(* failures in a row and at the first failure after a cooldown, and closes     *)
(* only on a success.  That every cooldown ends is left to the model checker.  *)
THEOREM BreakersImplement == Spec => Breakers!Init /\ [][Breakers!Next]_(Breakers!vars)
<1>1. Init => Breakers!Init
  BY DEF Init, Breakers!Init, Looked
<1>2. ASSUME TypeOK, [Next]_vars
      PROVE  Breakers!Next
  <2>1. \A k \in Loop, p \in Provider : CircuitStep(breakers[k][p], breakers'[k][p])
    BY <1>2, EveryStep DEF Step
  <2>2. ASSUME NEW c \in Loop \X Provider
        PROVE  \/ Breakers!Succeed(c) \/ Breakers!Fail(c)
               \/ Breakers!Cool(c) \/ Breakers!Rest(c)
    <3>1. c[1] \in Loop /\ c[2] \in Provider
      BY <2>2
    <3>2. CircuitStep(breakers[c[1]][c[2]], breakers'[c[1]][c[2]])
      BY <2>1, <3>1
    <3> DEFINE b == breakers[c[1]][c[2]]
               d == breakers'[c[1]][c[2]]
    <3>3. CASE Looked(d).state = "closed" /\ Looked(d).failures = 0
      <4>1. d.failures = 0
        BY <3>3 DEF Looked
      <4> QED
        BY <2>2, <3>3, <4>1 DEF Breakers!Succeed
    <3>4. /\ Looked(b).failures = b.failures
          /\ Looked(d).failures = d.failures
      BY DEF Looked
    <3>5. CASE /\ d.failures = IF b.failures < Threshold THEN b.failures + 1 ELSE b.failures
               /\ Looked(d).state =
                     IF Looked(b).state = "half_open" \/ d.failures = Threshold
                     THEN "open" ELSE Looked(b).state
      BY <2>2, <3>5 DEF Breakers!Fail
    <3>6. CASE /\ Looked(b).state = "open" /\ Looked(d).state = "half_open"
               /\ d.failures = b.failures
      BY <2>2, <3>6 DEF Breakers!Cool
    <3>7. CASE Looked(d).state = Looked(b).state /\ d.failures = b.failures
      BY <2>2, <3>7 DEF Breakers!Rest
    <3> QED
      BY <3>2, <3>3, <3>4, <3>5, <3>6, <3>7 DEF CircuitStep
  <2> QED
    BY <2>2 DEF Breakers!Next
<1> QED
  BY <1>1, <1>2, TypeCorrect, PTL DEF Spec

-----------------------------------------------------------------------------
(***************************************************************************)
(* A breaker's count and the failures since the last answer.  They are the   *)
(* same for a loop that waits for whole replies; a loop that streams resets  *)
(* the count when the stream is opened, before anything was answered, which  *)
(* is how its circuit may stay closed (OpensAfterFailures).                  *)
(***************************************************************************)
CountOf(l) ==
    /\ \A p \in Provider :
          /\ breakers[l][p].failures <= streak[l][p]
          /\ l \notin Streaming => breakers[l][p].failures = streak[l][p]
    /\ calls[l].pc = "streaming" => l \in Streaming /\ Breaker(l).failures = 0

CountInv == \A l \in Loop : CountOf(l)

(* Only the breaker and the streak of the candidate at hand change. *)
LEMMA CountAtHand ==
    ASSUME TypeOK, CountInv, NEW l \in Loop, calls[l].at \in 1..Len(Route[l]),
           NEW b, Good(b), SetBreaker(l, b),
           NEW n \in 0..Threshold, streak' = [streak EXCEPT ![l][ProviderAt(l)] = n],
           NEW c, Goto(l, c),
           b.failures <= n, l \notin Streaming => b.failures = n,
           c.pc = "streaming" => l \in Streaming /\ b.failures = 0 /\ c.at = calls[l].at
    PROVE  CountInv'
<1>1. ProviderAt(l) \in Provider /\ calls \in [Loop -> CallRecord]
  BY BreakerAtHand DEF TypeOK
<1>2. /\ breakers'[l][ProviderAt(l)] = b
      /\ \A k \in Loop, p \in Provider :
            <<k, p>> # <<l, ProviderAt(l)>> => breakers'[k][p] = breakers[k][p]
  BY SetIsGood
<1>3. /\ streak'[l][ProviderAt(l)] = n
      /\ \A k \in Loop, p \in Provider :
            <<k, p>> # <<l, ProviderAt(l)>> => streak'[k][p] = streak[k][p]
  BY <1>1 DEF TypeOK
<1>4. calls'[l] = c /\ \A k \in Loop : k # l => calls'[k] = calls[k]
  BY <1>1 DEF Goto
<1>5. ASSUME NEW k \in Loop, k # l
      PROVE  CountOf(k)'
  <2>1. calls'[k] = calls[k] /\ CountOf(k)
    BY <1>4, <1>5 DEF CountInv
  <2>2. \A p \in Provider : breakers'[k][p] = breakers[k][p] /\ streak'[k][p] = streak[k][p]
    BY <1>2, <1>3, <1>5
  <2>3. ASSUME calls[k].pc = "streaming"
        PROVE  Breaker(k)' = Breaker(k)
    <3>1. ProviderAt(k) \in Provider
      BY <2>3, BreakerAtHand DEF TypeOK
    <3> QED
      BY <2>1, <2>2, <3>1 DEF Breaker, ProviderAt, Candidate
  <2> QED
    BY <2>1, <2>2, <2>3 DEF CountOf
<1>6. CountOf(l)'
  <2>1. CountOf(l)
    BY DEF CountInv
  <2>2. ASSUME NEW p \in Provider
        PROVE  /\ breakers'[l][p].failures <= streak'[l][p]
               /\ l \notin Streaming => breakers'[l][p].failures = streak'[l][p]
    <3>1. CASE p = ProviderAt(l)
      BY <1>2, <1>3, <3>1
    <3>2. CASE p # ProviderAt(l)
      BY <1>2, <1>3, <2>1, <3>2 DEF CountOf
    <3> QED
      BY <3>1, <3>2
  <2>3. ASSUME c.pc = "streaming"
        PROVE  l \in Streaming /\ Breaker(l)'.failures = 0
    BY <1>2, <1>4, <2>3 DEF Breaker, ProviderAt, Candidate
  <2> QED
    BY <1>4, <2>2, <2>3 DEF CountOf
<1> QED
  BY <1>5, <1>6 DEF CountInv

(* Steps that leave the counts alone, and do not open a stream *)
LEMMA CountKept ==
    ASSUME TypeOK, CountInv, NEW l \in Loop, NEW c, Goto(l, c), c.pc # "streaming",
           UNCHANGED <<breakers, streak>>
    PROVE  CountInv'
<1>1. calls'[l] = c /\ \A k \in Loop : k # l => calls'[k] = calls[k]
  BY DEF Goto, TypeOK
<1>2. ASSUME NEW k \in Loop
      PROVE  CountOf(k)'
  <2>1. CountOf(k)
    BY DEF CountInv
  <2>2. calls'[k].pc = "streaming" => k # l
    BY <1>1
  <2> QED
    BY <1>1, <2>1, <2>2 DEF CountOf, Breaker, ProviderAt, Candidate
<1> QED
  BY <1>2 DEF CountInv

LEMMA CountFailure ==
    ASSUME TypeOK, CountInv, NEW l \in Loop, calls[l].at \in 1..Len(Route[l]),
           RecordFailure(l), NEW c, Goto(l, c), c.pc # "streaming"
    PROVE  CountInv'
<1>1. ProviderAt(l) \in Provider /\ Good(Breaker(l))
  BY BreakerAtHand
<1>2. PICK n : n = AtMost(Threshold, streak[l][ProviderAt(l)] + 1)
  OBVIOUS
<1>3. streak[l][ProviderAt(l)] \in 0..Threshold /\ Threshold \in Nat
  BY <1>1, ProviderFailoverConstants DEF TypeOK
<1>4. n \in 0..Threshold
  BY <1>2, <1>3 DEF AtMost
<1>5. /\ Breaker(l).failures <= streak[l][ProviderAt(l)]
      /\ l \notin Streaming => Breaker(l).failures = streak[l][ProviderAt(l)]
  BY <1>1 DEF CountInv, CountOf, Breaker
<1>6. PICK b : b = Failed(Breaker(l))
  OBVIOUS
<1>7. Good(b) /\ b.failures = AtMost(Threshold, Breaker(l).failures + 1)
  BY <1>1, <1>6, FailedIsGood DEF Failed
<1>8. b.failures <= n /\ (l \notin Streaming => b.failures = n)
  BY <1>1, <1>2, <1>3, <1>5, <1>7 DEF AtMost, Good, BreakerRecord
<1>9. SetBreaker(l, b) /\ streak' = [streak EXCEPT ![l][ProviderAt(l)] = n]
  BY <1>2, <1>6 DEF RecordFailure
<1> QED
  BY <1>4, <1>7, <1>8, <1>9, CountAtHand

LEMMA CountStep == TypeOK /\ CountInv /\ [Next]_vars => CountInv'
<1> SUFFICES ASSUME TypeOK, CountInv, [Next]_vars PROVE CountInv'
  OBVIOUS
<1>1. CASE UNCHANGED vars
  BY <1>1 DEF vars, CountInv, CountOf, Breaker, ProviderAt, Candidate
<1>2. CASE Tick
  <2>1. ASSUME NEW l \in Loop
        PROVE  CountOf(l)'
    <3>1. CountOf(l) /\ calls[l] \in CallRecord /\ streak' = streak
      BY <1>2 DEF CountInv, TypeOK, Tick
    <3>2. calls'[l].pc = calls[l].pc /\ calls'[l].at = calls[l].at
      BY <1>2, <3>1 DEF Tick, CallRecord
    <3>3. \A p \in Provider : breakers'[l][p].failures = breakers[l][p].failures
      BY <1>2 DEF Tick, TypeOK, BreakerRecord
    <3>4. ASSUME calls[l].pc = "streaming"
          PROVE  Breaker(l)'.failures = Breaker(l).failures
      <4>1. ProviderAt(l) \in Provider
        BY <3>4, BreakerAtHand DEF TypeOK
      <4> QED
        BY <3>2, <3>3, <4>1 DEF Breaker, ProviderAt, Candidate
    <3> QED
      BY <3>1, <3>2, <3>3, <3>4 DEF CountOf
  <2> QED
    BY <2>1 DEF CountInv
<1>3. ASSUME NEW l \in Loop, Begin(l) \/ CallStep(l)
      PROVE  CountInv'
  <2>0. CallAt("head", 1).pc = "head" /\ NoCall.pc = "idle" /\ NextCandidate(l).pc = "head"
    BY DEF CallAt, NoCall, NextCandidate
  <2>1. ASSUME calls[l].pc \notin {"idle", "head"} \/ HasCandidate(l)
        PROVE  calls[l].at \in 1..Len(Route[l])
    <3>1. calls[l].at \in Nat /\ Len(Route[l]) \in Nat
      BY ProviderFailoverConstants DEF TypeOK, CallRecord
    <3> QED
      BY <2>1, <3>1 DEF TypeOK, HasCandidate, AtHead
  <2>2. CASE Begin(l) \/ Exhausted(l) \/ Skip(l) \/ Rejected(l)
    BY <2>0, <2>2, CountKept DEF Begin, Exhausted, Skip, Rejected
  <2>3. CASE Paced(l)
    <3>1. AfterConsume(l, FALSE).pc # "streaming"
      BY <2>1, <2>3, AfterConsumeIsGood DEF Paced
    <3> QED
      BY <2>3, <3>1, CountKept DEF Paced
  <2>4. CASE Retry(l)
    <3>1. PICK c : c = [AfterConsume(l, TRUE) EXCEPT !.attempt = calls[l].attempt + 1]
      OBVIOUS
    <3>2. AfterConsume(l, TRUE) \in CallRecord /\ AfterConsume(l, TRUE).pc # "streaming"
      BY <2>1, <2>4, AfterConsumeIsGood DEF Retry
    <3>3. c.pc # "streaming"
      BY <3>1, <3>2 DEF CallRecord
    <3> QED
      BY <2>4, <3>1, <3>3, CountKept DEF Retry
  <2>5. CASE Unresolved(l) \/ Unexpected(l)
    <3>1. calls[l].at \in 1..Len(Route[l])
      BY <2>1, <2>5 DEF Unresolved, Unexpected, Requested
    <3> QED
      BY <2>0, <2>5, <3>1, CountFailure DEF Unresolved, Unexpected
  <2>6. CASE Retryable(l)
    <3>1. calls[l].at \in 1..Len(Route[l]) /\ calls[l] \in CallRecord
      BY <2>1, <2>6 DEF Retryable, TypeOK
    <3>2. PICK c : c = [calls[l] EXCEPT !.pc = "backoff"]
      OBVIOUS
    <3>3. c.pc = "backoff"
      BY <3>1, <3>2 DEF CallRecord
    <3>4. RecordFailure(l) /\ (Goto(l, c) \/ Goto(l, NextCandidate(l)))
      BY <2>6, <3>2 DEF Retryable, Goto
    <3> QED
      BY <2>0, <3>1, <3>3, <3>4, CountFailure
  <2>7. ASSUME calls[l].pc \notin {"idle", "head"} \/ HasCandidate(l)
        PROVE  /\ ProviderAt(l) \in Provider /\ Good(Breaker(l))
               /\ streak[l][ProviderAt(l)] \in 0..Threshold
               /\ streak = [streak EXCEPT ![l][ProviderAt(l)] = streak[l][ProviderAt(l)]]
               /\ SetBreaker(l, Breaker(l)) \/ ~UNCHANGED breakers
               /\ 0 \in 0..Threshold
               /\ Breaker(l).failures <= streak[l][ProviderAt(l)]
               /\ l \notin Streaming => Breaker(l).failures = streak[l][ProviderAt(l)]
    <3>1. ProviderAt(l) \in Provider /\ Good(Breaker(l))
      BY <2>1, <2>7, BreakerAtHand
    <3>2. streak \in [Loop -> [Provider -> 0..Threshold]] /\ Threshold \in Nat
      BY ProviderFailoverConstants DEF TypeOK
    <3>3. breakers = [breakers EXCEPT ![l][ProviderAt(l)] = breakers[l][ProviderAt(l)]]
      BY <3>1 DEF TypeOK
    <3>4. streak = [streak EXCEPT ![l][ProviderAt(l)] = streak[l][ProviderAt(l)]]
      BY <3>1, <3>2
    <3> QED
      BY <3>1, <3>2, <3>3, <3>4 DEF SetBreaker, Breaker, CountInv, CountOf
  <2>8. CASE Admit(l)
    <3>1. PICK b : b = Looked(Breaker(l))
      OBVIOUS
    <3>2. HasCandidate(l) /\ calls[l].at \in 1..Len(Route[l])
      BY <2>1, <2>8 DEF Admit
    <3>3. Good(b) /\ b.failures = Breaker(l).failures
      BY <2>7, <3>1, <3>2, LookedIsGood DEF Looked
    <3>4. AfterConsume(l, TRUE).pc # "streaming"
      BY <3>2, AfterConsumeIsGood
    <3>5. PICK n : n = streak[l][ProviderAt(l)]
      OBVIOUS
    <3>6. streak' = [streak EXCEPT ![l][ProviderAt(l)] = n] /\ n \in 0..Threshold
      BY <2>7, <2>8, <3>2, <3>5 DEF Admit
    <3>7. b.failures <= n /\ (l \notin Streaming => b.failures = n)
      BY <2>7, <3>2, <3>3, <3>5
    <3>8. SetBreaker(l, b) /\ Goto(l, AfterConsume(l, TRUE))
      BY <2>8, <3>1 DEF Admit
    <3> QED
      BY <3>2, <3>3, <3>4, <3>6, <3>7, <3>8, CountAtHand
  <2>9. PICK closed : closed = [state |-> "closed", failures |-> 0, rest |-> 0]
    OBVIOUS
  <2>10. Good(closed) /\ closed.failures = 0 /\ Succeeded(Breaker(l)) = closed
    BY <2>9, SucceededIsGood DEF Succeeded
  <2>11. CASE Reply(l)
    <3>1. PICK n : n = 0
      OBVIOUS
    <3>2. calls[l].at \in 1..Len(Route[l]) /\ n \in 0..Threshold
      BY <2>1, <2>7, <2>11, <3>1 DEF Reply
    <3>3. SetBreaker(l, closed) /\ Goto(l, NoCall)
          /\ streak' = [streak EXCEPT ![l][ProviderAt(l)] = n]
      BY <2>10, <2>11, <3>1 DEF Reply, Answered
    <3>4. closed.failures <= n /\ closed.failures = n /\ NoCall.pc # "streaming"
      BY <2>0, <2>10, <3>1
    <3> QED
      BY <2>10, <3>2, <3>3, <3>4, CountAtHand
  <2>12. CASE OpenStream(l)
    <3>1. calls[l].pc = "calling" /\ l \in Streaming /\ calls[l] \in CallRecord
      BY <2>12 DEF OpenStream, TypeOK
    <3>2. PICK c : c = [calls[l] EXCEPT !.pc = "streaming"]
      OBVIOUS
    <3>3. c.at = calls[l].at
      BY <3>1, <3>2 DEF CallRecord
    <3>4. PICK n : n = streak[l][ProviderAt(l)]
      OBVIOUS
    <3>5. streak' = [streak EXCEPT ![l][ProviderAt(l)] = n] /\ n \in 0..Threshold
      BY <2>7, <2>12, <3>1, <3>4 DEF OpenStream
    <3>6. SetBreaker(l, closed) /\ Goto(l, c)
      BY <2>10, <2>12, <3>2 DEF OpenStream
    <3>7. closed.failures <= n /\ calls[l].at \in 1..Len(Route[l])
      BY <2>1, <2>10, <3>1, <3>5
    <3> QED
      BY <2>10, <3>1, <3>3, <3>5, <3>6, <3>7, CountAtHand
  <2>13. CASE EndStream(l)
    <3>1. calls[l].pc = "streaming" /\ l \in Streaming /\ Breaker(l).failures = 0
      BY <2>13 DEF EndStream, CountInv, CountOf
    <3>2. PICK b, n : b = Breaker(l) /\ n = 0
      OBVIOUS
    <3>3. /\ SetBreaker(l, b) /\ Goto(l, NoCall) /\ Good(b)
          /\ streak' = [streak EXCEPT ![l][ProviderAt(l)] = n]
          /\ calls[l].at \in 1..Len(Route[l]) /\ n \in 0..Threshold
      BY <2>1, <2>7, <2>13, <3>1, <3>2 DEF EndStream, Answered
    <3>4. b.failures <= n /\ b.failures = n /\ NoCall.pc # "streaming"
      BY <2>0, <3>1, <3>2
    <3> QED
      BY <3>3, <3>4, CountAtHand
  <2> QED
    BY <1>3, <2>2, <2>3, <2>4, <2>5, <2>6, <2>8, <2>11, <2>12, <2>13 DEF CallStep
<1> QED
  BY <1>1, <1>2, <1>3 DEF Next

LEMMA AlwaysCounts == Spec => []CountInv
<1>1. ASSUME Init
      PROVE  CountInv
  <2>1. ASSUME NEW l \in Loop
        PROVE  calls[l].pc # "streaming"
    BY <1>1 DEF Init, NoCall, CallAt
  <2>2. ASSUME NEW l \in Loop, NEW p \in Provider
        PROVE  /\ breakers[l][p].failures <= streak[l][p]
               /\ breakers[l][p].failures = streak[l][p]
    BY <1>1 DEF Init
  <2>3. ASSUME NEW l \in Loop
        PROVE  CountOf(l)
    BY <2>1, <2>2, Zenon DEF CountOf
  <2> QED
    BY <2>3 DEF CountInv
<1> QED
  BY <1>1, CountStep, TypeCorrect, PTL DEF Spec

(* OpensAfterFailures, which a loop that streams violates, holds of the loops    *)
(* that wait for whole replies: complete records a success only when it has    *)
(* the reply, so Threshold failures with none between open the circuit.        *)
OpensUnlessStreaming ==
    \A l \in Loop \ Streaming, p \in Provider :
        streak[l][p] >= Threshold => breakers[l][p].state # "closed"

THEOREM WholeRepliesOpenTheCircuit == Spec => []OpensUnlessStreaming
<1>1. TypeOK /\ CountInv => OpensUnlessStreaming
  BY ProviderFailoverConstants
     DEF TypeOK, CountInv, CountOf, OpensUnlessStreaming, Consistent, BreakerRecord
<1> QED
  BY <1>1, TypeCorrect, AlwaysCounts, PTL

(* No loop, streaming or not, gives up a provider early: a circuit that is not   *)
(* closed has had Threshold failures since the provider last answered          *)
(* (recordFailure), whatever was skipped, denied or retried meanwhile.         *)
OpensOnlyAfterFailures ==
    \A l \in Loop, p \in Provider :
        breakers[l][p].state # "closed" => streak[l][p] = Threshold

THEOREM NoCircuitOpensEarly == Spec => []OpensOnlyAfterFailures
<1>1. TypeOK /\ CountInv => OpensOnlyAfterFailures
  BY ProviderFailoverConstants
     DEF TypeOK, CountInv, CountOf, OpensOnlyAfterFailures, Consistent, BreakerRecord
<1> QED
  BY <1>1, TypeCorrect, AlwaysCounts, PTL
=============================================================================
