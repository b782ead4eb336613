---------------------------- MODULE GatewayProofs ----------------------------
(***************************************************************************)
(* Theorems about the gateway's guards and the event bus: for any callers, *)
(* clients and listeners and any thresholds, windows and rates.            *)
(***************************************************************************)
EXTENDS MCGateway, Sums, SequenceTheorems, TLAPS

----------------------------------------------------------------------------
(* The circuit breaker: BreakerInv is inductive, and the two promises of   *)
(* the breaker follow from it.                                             *)

\* Init and every step of the breaker, the callers and the clock keep
\* BreakerInv.
LEMMA InitInv == Init => BreakerInv
<1>1. Init => healthy \in BOOLEAN
  BY Zenon DEF Init
<1>2. Init => call \in [Callers -> {"idle", "sent", "good"}]
  BY DEF Init
<1> QED
  BY <1>1, <1>2, BreakerAssumption DEF Init, BreakerInv, TypeOK, Expired

\* One case for each method, for the clock and for the service.
LEMMA NextInv == BreakerInv /\ [Next]_vars => BreakerInv'
<1> SUFFICES ASSUME BreakerInv, [Next]_vars PROVE BreakerInv'
  OBVIOUS
<1> USE BreakerAssumption DEF BreakerInv, TypeOK, Expired, Capped, breaker, history
<1>1. ASSUME NEW c \in Callers, canPass(c) PROVE BreakerInv'
  BY <1>1 DEF canPass, HalfOpen
<1>2. ASSUME NEW c \in Callers, recordSuccess(c) PROVE BreakerInv'
  <2>1. CASE state = "HALF_OPEN"
    BY <1>2, <2>1 DEF recordSuccess, ProbeSucceeded
  <2>2. CASE state # "HALF_OPEN"
    BY <1>2, <2>2 DEF recordSuccess, ForgetFailures
  <2> QED
    BY <2>1, <2>2
<1>3. ASSUME NEW c \in Callers, recordFailure(c) PROVE BreakerInv'
  BY <1>3 DEF recordFailure, Trips
<1>4. CASE Tick
  BY <1>4 DEF Tick
<1>5. CASE Recover
  BY <1>5 DEF Recover
<1>6. CASE UNCHANGED vars
  BY <1>6 DEF vars
<1> QED
  BY <1>1, <1>2, <1>3, <1>4, <1>5, <1>6 DEF Next, Report

\* BreakerInv holds in every reachable state.
THEOREM BreakerInvCorrect == Spec => []BreakerInv
  BY InitInv, NextInv, PTL DEF Spec

\* failureThreshold failures in a row leave the circuit not CLOSED
\* (recordFailure), however calls, probes and late reports interleave.
THEOREM FailuresTripCorrect == Spec => []FailuresTrip
<1>1. BreakerInv => FailuresTrip
  BY BreakerAssumption DEF BreakerInv, TypeOK, FailuresTrip
<1> QED
  BY <1>1, BreakerInvCorrect, PTL

\* A tripped circuit is closed only by halfOpenSuccessThreshold successes in
\* a row (recordSuccess).
THEOREM ClosesOnProbesCorrect == Spec => ClosesOnProbes
<1>1. BreakerInv /\ [Next]_vars =>
        [state # "CLOSED" /\ state' = "CLOSED" => successRun' = halfOpenSuccessThreshold]_vars
  <2> SUFFICES ASSUME BreakerInv, Next, state # "CLOSED", state' = "CLOSED"
               PROVE  successRun' = halfOpenSuccessThreshold
    OBVIOUS
  <2> USE BreakerAssumption DEF BreakerInv, TypeOK, breaker
  <2>1. ASSUME NEW c \in Callers, canPass(c) PROVE FALSE
    BY <2>1 DEF canPass, HalfOpen
  <2>2. ASSUME NEW c \in Callers, recordFailure(c) PROVE FALSE
    BY <2>2 DEF recordFailure
  <2>3. CASE Tick \/ Recover
    BY <2>3 DEF Tick, Recover
  <2>4. ASSUME NEW c \in Callers, recordSuccess(c)
        PROVE  successRun' = halfOpenSuccessThreshold
    BY <2>4 DEF recordSuccess, ProbeSucceeded, ForgetFailures, Capped
  <2> QED
    BY <2>1, <2>2, <2>3, <2>4 DEF Next, Report
<1> QED
  BY <1>1, BreakerInvCorrect, PTL DEF Spec, ClosesOnProbes

----------------------------------------------------------------------------
(* The token bucket                                                        *)

\* The amounts of the rules, as numbers.
LEMMA Amounts ==
    ASSUME NEW k \in Keys
    PROVE  /\ capacityTokens[k] \in Nat
           /\ Brim(k) \in Nat /\ Brim(k) >= Token /\ Brim(k) >= capacityTokens[k]
           /\ refillRateTokensPerSecond[k] \in Nat /\ refillRateTokensPerSecond[k] > 0
           /\ Token \in Nat /\ Token > 0
<1>1. refillRateTokensPerSecond[k] \in Nat \ {0} /\ Token \in Nat \ {0}
    BY BucketAssumption
<1>2. capacityTokens[k] \in Nat /\ burstAllowanceTokens[k] \in Nat
    BY BucketAssumption
<1> QED
    BY <1>1, <1>2, BucketAssumption DEF Brim

\* Math.ceil: the seconds told are enough for what is missing.
LEMMA CeilingEnough ==
    ASSUME NEW a \in Nat, NEW r \in Nat, r > 0
    PROVE  /\ (a + r - 1) \div r \in Nat
           /\ ((a + r - 1) \div r) * r >= a
<1> DEFINE b == a + r - 1
<1>1. b \in Nat
    OBVIOUS
<1>2. b \div r \in Nat /\ b = (b \div r) * r + (b % r) /\ b % r < r /\ b % r \in Nat
    BY <1>1
<1> QED
    BY <1>2

\* The arithmetic of elapsed seconds.
LEMMA Products ==
    ASSUME NEW e \in Int, NEW r \in Int
    PROVE  /\ e * r \in Int
           /\ (e + 1) * r = e * r + r
           /\ (e - 1) * r = e * r - r
           /\ e >= 0 /\ r >= 0 => e * r >= 0
OBVIOUS

\* What is more than the brim runs over.
LEMMA AtBrim ==
    \A brim, t \in Nat, e \in Int : e >= brim => LesserOf(brim, t + e) = brim
BY DEF LesserOf

Bucket == [tokens : Nat, elapsed : Nat]

\* The bucket of key k, what it would hold if refilled all the time, and the
\* promise made to a caller who was turned away.
KeyOK(k, b, amount, p) ==
    /\ b = NoBucket \/ b \in Bucket
    /\ b # NoBucket => amount = Refilled(k, b)
    /\ b = NoBucket => amount = capacityTokens[k] /\ p = NoPromise
    /\ p = NoPromise \/ p \in Nat
    /\ p \in Nat => amount + p * refillRateTokensPerSecond[k] >= Token

BucketInv ==
    /\ buckets \in [Keys -> Bucket \cup {NoBucket}]
    /\ steady \in [Keys -> Nat]
    /\ promise \in [Keys -> Int]
    /\ \A k \in Keys : KeyOK(k, buckets[k], steady[k], promise[k])

\* A bucket in the map is not mistaken for an absent one.
LEMMA BucketThere == \A b \in Bucket : b # NoBucket /\ b.tokens \in Nat /\ b.elapsed \in Nat
BY DEF Bucket, NoBucket

\* What a request finds is what the bucket would hold if refilled all the time.
LEMMA FoundIsSteady ==
    ASSUME BucketInv, NEW k \in Keys
    PROVE  Refilled(k, Found(k)) = steady[k]
<1>1. KeyOK(k, buckets[k], steady[k], promise[k])
    BY DEF BucketInv
<1>2. CASE buckets[k] = NoBucket
    <2>1. Found(k) = [tokens |-> capacityTokens[k], elapsed |-> 0]
        BY <1>2 DEF Found
    <2>2. Refilled(k, Found(k)) = LesserOf(Brim(k), capacityTokens[k] + 0 * refillRateTokensPerSecond[k])
        BY <2>1 DEF Refilled
    <2>3. Refilled(k, Found(k)) = capacityTokens[k]
        BY <2>2, Amounts DEF LesserOf
    <2> QED
        BY <1>1, <1>2, <2>3 DEF KeyOK
<1>3. CASE buckets[k] # NoBucket
    BY <1>1, <1>3 DEF KeyOK, Found
<1> QED
    BY <1>2, <1>3

\* A request changes the entries of its own key only.
LEMMA OneKey ==
    ASSUME BucketInv, NEW k \in Keys, NEW b \in Bucket, NEW amount \in Nat, NEW p \in Int,
           KeyOK(k, b, amount, p),
           buckets' = [buckets EXCEPT ![k] = b],
           steady' = [steady EXCEPT ![k] = amount],
           promise' = [promise EXCEPT ![k] = p]
    PROVE  BucketInv'
<1>1. /\ buckets' \in [Keys -> Bucket \cup {NoBucket}]
      /\ steady' \in [Keys -> Nat]
      /\ promise' \in [Keys -> Int]
    BY DEF BucketInv
<1>2. ASSUME NEW q \in Keys PROVE KeyOK(q, buckets'[q], steady'[q], promise'[q])
    <2>1. CASE q = k
        <3>1. buckets'[q] = b /\ steady'[q] = amount /\ promise'[q] = p
            BY <2>1 DEF BucketInv
        <3> QED BY <2>1, <3>1
    <2>2. CASE q # k
        <3>1. buckets'[q] = buckets[q] /\ steady'[q] = steady[q] /\ promise'[q] = promise[q]
            BY <2>2 DEF BucketInv
        <3> QED BY <3>1 DEF BucketInv
    <2> QED BY <2>1, <2>2
<1> QED
    BY <1>1, <1>2 DEF BucketInv

\* A request, let through or turned away, keeps the invariant.
LEMMA RequestStep ==
    ASSUME BucketInv, NEW k \in Keys, checkRequestAllowance(k)
    PROVE  BucketInv'
<1> DEFINE tokens == steady[k]
<1> DEFINE rate == refillRateTokensPerSecond[k]
<1>0. /\ tokens \in Nat /\ promise[k] \in Int
      /\ KeyOK(k, buckets[k], tokens, promise[k])
      /\ rate \in Nat /\ rate > 0 /\ Brim(k) \in Nat /\ Token \in Nat /\ Token > 0
    BY Amounts DEF BucketInv
<1>1. Refilled(k, Found(k)) = tokens
    BY FoundIsSteady
<1>2. tokens <= Brim(k)
    <2>1. CASE buckets[k] = NoBucket
        BY <1>0, <2>1, Amounts DEF KeyOK
    <2>2. CASE buckets[k] # NoBucket
        <3>1. buckets[k].tokens \in Nat /\ buckets[k].elapsed \in Nat
            BY <1>0, <2>2, BucketThere DEF KeyOK
        <3>2. buckets[k].elapsed * rate \in Int
            BY <1>0, <3>1
        <3> QED
            BY <1>0, <2>2, <3>1, <3>2 DEF KeyOK, Refilled, LesserOf
    <2> QED BY <2>1, <2>2
<1>3. ASSUME NEW n \in Nat, n <= Brim(k)
      PROVE  [tokens |-> n, elapsed |-> 0] \in Bucket /\ Refilled(k, [tokens |-> n, elapsed |-> 0]) = n
    BY <1>0, <1>3 DEF Bucket, Refilled, LesserOf
<1>4. CASE tokens >= Token
    <2> DEFINE b == [tokens |-> tokens - Token, elapsed |-> 0]
    <2>1. tokens - Token \in Nat /\ tokens - Token <= Brim(k)
        BY <1>0, <1>2, <1>4
    <2>2. b \in Bucket /\ Refilled(k, b) = tokens - Token
        BY <1>3, <2>1
    <2>3. /\ buckets' = [buckets EXCEPT ![k] = b]
          /\ steady' = [steady EXCEPT ![k] = tokens - Token]
          /\ promise' = [promise EXCEPT ![k] = NoPromise]
        BY <1>0, <1>1, <1>4 DEF checkRequestAllowance
    <2> HIDE DEF b
    <2>4. NoPromise \in Int /\ NoPromise \notin Nat
        BY DEF NoPromise
    <2>5. KeyOK(k, b, tokens - Token, NoPromise)
        BY <2>2, <2>4, BucketThere DEF KeyOK
    <2> QED
        BY <2>1, <2>2, <2>3, <2>4, <2>5, OneKey
<1>5. CASE tokens < Token
    <2> DEFINE b == [tokens |-> tokens, elapsed |-> 0]
    <2> DEFINE told == retryAfter(k, tokens)
    <2> DEFINE p == IF promise[k] = NoPromise THEN told ELSE LesserOf(promise[k], told)
    <2>1. b \in Bucket /\ Refilled(k, b) = tokens
        BY <1>0, <1>2, <1>3
    <2>2. told \in Nat /\ tokens + told * rate >= Token
        <3> DEFINE a == Token - tokens
        <3>1. a \in Nat
            BY <1>0, <1>5
        <3>2. told = (a + rate - 1) \div rate
            BY DEF retryAfter
        <3> HIDE DEF a, told
        <3>3. told \in Nat /\ told * rate >= a
            BY <1>0, <3>1, <3>2, CeilingEnough
        <3>4. told * rate \in Int
            BY <1>0, <3>3
        <3> QED
            BY <1>0, <3>3, <3>4 DEF a
    <2> HIDE DEF told
    <2>3. p \in Nat /\ tokens + p * rate >= Token
        BY <1>0, <2>2 DEF KeyOK, LesserOf
    <2>4. /\ buckets' = [buckets EXCEPT ![k] = b]
          /\ steady' = [steady EXCEPT ![k] = tokens]
          /\ promise' = [promise EXCEPT ![k] = p]
        BY <1>0, <1>1, <1>5 DEF checkRequestAllowance, told, BucketInv
    <2> HIDE DEF b, p
    <2>5. KeyOK(k, b, tokens, p)
        BY <2>1, <2>3, BucketThere DEF KeyOK
    <2>6. p \in Int /\ tokens \in Nat
        BY <1>0, <2>3
    <2> HIDE DEF tokens
    <2> QED
        BY <2>1, <2>4, <2>5, <2>6, OneKey
<1> QED
    BY <1>0, <1>4, <1>5

\* A second that passes keeps the invariant: refilling for one second more is
\* the same whether it is done at once or later.
LEMMA BucketTickStep == BucketInv /\ BucketTick => BucketInv'
<1> SUFFICES ASSUME BucketInv, BucketTick PROVE BucketInv'
    OBVIOUS
<1>1. ASSUME NEW k \in Keys
      PROVE  /\ buckets'[k] \in Bucket \cup {NoBucket}
             /\ steady'[k] \in Nat
             /\ promise'[k] \in Int
             /\ KeyOK(k, buckets'[k], steady'[k], promise'[k])
    <2> DEFINE b == buckets[k]
    <2> DEFINE rate == refillRateTokensPerSecond[k]
    <2>0. /\ steady[k] \in Nat /\ promise[k] \in Int
          /\ KeyOK(k, b, steady[k], promise[k])
          /\ rate \in Nat /\ rate > 0 /\ Brim(k) \in Nat /\ Brim(k) >= Token /\ Token \in Nat
        BY Amounts DEF BucketInv
    <2>1. promise'[k] = IF promise[k] > 0 THEN promise[k] - 1 ELSE promise[k]
        BY DEF BucketTick
    <2>2. CASE b = NoBucket
        <3>1. buckets'[k] = NoBucket /\ steady'[k] = steady[k]
            BY <2>2 DEF BucketTick
        <3>2. promise'[k] = NoPromise
            BY <2>0, <2>1, <2>2 DEF KeyOK, NoPromise
        <3> QED
            BY <2>0, <2>2, <3>1, <3>2 DEF KeyOK, NoPromise
    <2>3. CASE b # NoBucket
        <3>1. b \in Bucket /\ b.tokens \in Nat /\ b.elapsed \in Nat
            BY <2>0, <2>3, BucketThere DEF KeyOK
        <3> DEFINE full == b.elapsed * rate >= Brim(k)
        <3>2. buckets'[k] = IF full THEN b ELSE [b EXCEPT !.elapsed = @ + 1]
            BY <2>3 DEF BucketTick
        <3>3. steady'[k] = LesserOf(Brim(k), steady[k] + rate)
            BY <2>3 DEF BucketTick
        <3>4. steady[k] = LesserOf(Brim(k), b.tokens + b.elapsed * rate)
            BY <2>0, <2>3 DEF KeyOK, Refilled
        <3>5. b.elapsed * rate \in Int /\ (b.elapsed + 1) * rate = b.elapsed * rate + rate
            BY <2>0, <3>1, Products
        <3>6. steady'[k] \in Nat /\ steady'[k] >= steady[k]
            BY <2>0, <3>1, <3>3, <3>4, <3>5 DEF LesserOf
        <3>7. buckets'[k] \in Bucket /\ steady'[k] = Refilled(k, buckets'[k])
            <4>1. CASE full
                <5>1. steady'[k] = Brim(k) /\ steady[k] = Brim(k)
                    <6>1. LesserOf(Brim(k), b.tokens + b.elapsed * rate) = Brim(k)
                        BY <2>0, <3>1, <3>5, <4>1, AtBrim
                    <6>2. LesserOf(Brim(k), Brim(k) + rate) = Brim(k)
                        BY <2>0 DEF LesserOf
                    <6> QED
                        BY <3>3, <3>4, <6>1, <6>2
                <5> QED
                    BY <2>0, <3>1, <3>2, <3>4, <4>1, <5>1 DEF Refilled
            <4>2. CASE ~full
                <5>1. buckets'[k] \in Bucket /\ buckets'[k].tokens = b.tokens
                                           /\ buckets'[k].elapsed = b.elapsed + 1
                    BY <3>1, <3>2, <4>2 DEF Bucket
                <5>2. Refilled(k, buckets'[k]) = LesserOf(Brim(k), b.tokens + (b.elapsed * rate + rate))
                    BY <3>5, <5>1 DEF Refilled
                <5>3. steady'[k] = LesserOf(Brim(k), b.tokens + (b.elapsed * rate + rate))
                    BY <2>0, <3>1, <3>3, <3>4, <3>5 DEF LesserOf
                <5> QED
                    BY <5>1, <5>2, <5>3
            <4> QED BY <4>1, <4>2
        <3>8. promise'[k] = NoPromise \/ promise'[k] \in Nat
            BY <2>0, <2>1 DEF KeyOK, NoPromise
        <3>9. ASSUME promise'[k] \in Nat PROVE steady'[k] + promise'[k] * rate >= Token
            <4>1. promise[k] \in Nat /\ steady[k] + promise[k] * rate >= Token
                BY <2>0, <2>1, <3>9 DEF KeyOK, NoPromise
            <4>2. /\ promise[k] * rate \in Int
                  /\ (promise[k] - 1) * rate = promise[k] * rate - rate
                BY <2>0, <4>1, Products
            <4>3. CASE promise[k] > 0
                <5>1. promise'[k] = promise[k] - 1
                    BY <2>1, <4>3
                <5>2. (promise[k] - 1) * rate >= 0
                    BY <2>0, <4>1, <4>3, Products
                <5>3. steady'[k] + (promise[k] * rate - rate) >= Token
                    BY <2>0, <3>3, <4>1, <4>2, <5>2 DEF LesserOf
                <5> QED
                    BY <4>2, <5>1, <5>3
            <4>4. CASE promise[k] = 0
                BY <2>0, <2>1, <3>6, <4>1, <4>4
            <4> QED BY <4>1, <4>3, <4>4
        <3>10. promise'[k] \in Int
            BY <2>0, <2>1
        <3> QED
            BY <3>6, <3>7, <3>8, <3>9, <3>10, BucketThere DEF KeyOK
    <2> QED BY <2>2, <2>3
<1>2. /\ buckets' = [k \in Keys |-> buckets'[k]]
      /\ steady' = [k \in Keys |-> steady'[k]]
      /\ promise' = [k \in Keys |-> promise'[k]]
    BY DEF BucketTick
<1>3. /\ buckets' \in [Keys -> Bucket \cup {NoBucket}]
      /\ steady' \in [Keys -> Nat]
      /\ promise' \in [Keys -> Int]
    BY <1>1, <1>2
<1> QED
    BY <1>1, <1>3 DEF BucketInv

\* The invariant holds of the token bucket, for any keys and rules.
LEMMA BucketInvariant == BucketSpec => []BucketInv
<1>1. BucketInit => BucketInv
    <2> SUFFICES ASSUME BucketInit PROVE BucketInv
        OBVIOUS
    <2>1. buckets \in [Keys -> Bucket \cup {NoBucket}] /\ promise \in [Keys -> Int]
        BY DEF BucketInit, NoPromise
    <2>2. steady \in [Keys -> Nat]
        BY Amounts DEF BucketInit
    <2>3. ASSUME NEW k \in Keys PROVE KeyOK(k, buckets[k], steady[k], promise[k])
        BY DEF BucketInit, KeyOK, NoPromise
    <2> QED
        BY <2>1, <2>2, <2>3 DEF BucketInv
<1>2. BucketInv /\ [BucketNext]_bucketVars => BucketInv'
    <2>1. BucketInv /\ UNCHANGED bucketVars => BucketInv'
        BY DEF bucketVars, BucketInv
    <2> QED
        BY <2>1, RequestStep, BucketTickStep DEF BucketNext
<1> QED
    BY <1>1, <1>2, PTL DEF BucketSpec

\* For any rules, refilling a bucket only when a request comes is the same as
\* refilling it all the time.
THEOREM RefillExactCorrect == BucketSpec => []RefillExact
<1>1. BucketInv => RefillExact
    BY FoundIsSteady DEF RefillExact
<1> QED
    BY <1>1, BucketInvariant, PTL

\* For any rules, a token is there after the seconds a caller was told, unless
\* another request was let through in the meantime.
THEOREM RetryHonestCorrect == BucketSpec => []RetryHonest
<1>1. BucketInv => RetryHonest
    <2> SUFFICES ASSUME BucketInv, NEW k \in Keys, promise[k] = 0 PROVE steady[k] >= Token
        BY DEF RetryHonest
    <2>1. KeyOK(k, buckets[k], steady[k], promise[k]) /\ steady[k] \in Nat
        BY DEF BucketInv
    <2>2. steady[k] + 0 * refillRateTokensPerSecond[k] >= Token
        BY <2>1 DEF KeyOK
    <2> QED
        BY <2>1, <2>2, Amounts
<1> QED
    BY <1>1, BucketInvariant, PTL

\* For any rules, callers get the tokens and the waiting time they are told.
THEOREM BucketHonestCorrect == BucketSpec => []BucketHonest
<1>1. RefillExact /\ RetryHonest => BucketHonest
    BY DEF BucketHonest
<1> QED
    BY <1>1, RefillExactCorrect, RetryHonestCorrect, PTL

----------------------------------------------------------------------------
(* The fixed window                                                        *)

HitsOK == hits \in [Clients -> RateLimitRecord]

\* The refinement mapping, record by record
QuotaOf(record) ==
    IF record.left < 0 THEN maxRequests
    ELSE IF record.count > maxRequests THEN 0 ELSE maxRequests - record.count

\* The constants as numbers, and a record field by field
LEMMA RecordFields ==
    /\ windowMs \in Nat /\ maxRequests \in Nat /\ maxRequests >= 1
    /\ NoRecord \in RateLimitRecord /\ NewWindow \in RateLimitRecord
    /\ \A r \in RateLimitRecord :
        /\ r.count \in Nat /\ r.count <= maxRequests + 1
        /\ r.left \in Int /\ r.left >= -1 /\ r.left <= windowMs
<1>1. windowMs \in Nat /\ maxRequests \in Nat \ {0}
    BY LimiterAssumption
<1> QED
    BY <1>1 DEF RateLimitRecord, NoRecord, NewWindow

\* Counting a request of an open window: what becomes of its record.
LEMMA CountOK ==
    ASSUME NEW r \in RateLimitRecord
    PROVE  /\ CountHit(r) \in RateLimitRecord
           /\ CountHit(r).left = r.left
           /\ CountHit(r).count = IF r.count > maxRequests THEN r.count ELSE r.count + 1
BY RecordFields DEF CountHit, RateLimitRecord

\* The records keep their type.
LEMMA HitsTyped == LimiterSpec => []HitsOK
<1>1. LimiterInit => HitsOK
    BY RecordFields DEF LimiterInit, HitsOK
<1>2. HitsOK /\ [LimiterNext]_limiterVars => HitsOK'
    <2> SUFFICES ASSUME HitsOK, [LimiterNext]_limiterVars PROVE HitsOK'
        OBVIOUS
    <2>1. ASSUME NEW c \in Clients, middleware(c) PROVE HitsOK'
        <3>1. hits[c] \in RateLimitRecord
            BY DEF HitsOK
        <3>2. NewWindow \in RateLimitRecord /\ CountHit(hits[c]) \in RateLimitRecord
            BY <3>1, RecordFields, CountOK
        <3> QED
            BY <2>1, <3>2 DEF middleware, HitsOK
    <2>2. CASE cleanup
        BY <2>2, RecordFields DEF cleanup, HitsOK
    <2>3. CASE LimiterTick
        <3>1. ASSUME NEW c \in Clients, ~(hits[c].left < 0)
              PROVE  [hits[c] EXCEPT !.left = @ - 1] \in RateLimitRecord
            <4>1. hits[c] \in RateLimitRecord
                BY DEF HitsOK
            <4> QED BY <3>1, <4>1, RecordFields DEF RateLimitRecord
        <3> QED
            BY <2>3, <3>1 DEF LimiterTick, HitsOK
    <2>4. CASE UNCHANGED limiterVars
        BY <2>4 DEF limiterVars, HitsOK
    <2> QED
        BY <2>1, <2>2, <2>3, <2>4 DEF LimiterNext
<1> QED
    BY <1>1, <1>2, PTL DEF LimiterSpec

QuotaMap == [c \in Clients |-> QuotaOf(hits[c])]
OpenMap == [c \in Clients |-> hits[c].left]

\* One request is an answer of the fixed window.
LEMMA MiddlewareRefines ==
    ASSUME HitsOK, NEW c \in Clients, middleware(c)
    PROVE  \/ /\ QuotaMap[c] > 0
              /\ QuotaMap' = [QuotaMap EXCEPT ![c] = @ - 1]
              /\ OpenMap' = [OpenMap EXCEPT ![c] = IF @ = -1 THEN windowMs ELSE @]
              /\ verdict' = <<c, "next">>
           \/ /\ QuotaMap[c] = 0
              /\ verdict' = <<c, "429">>
              /\ QuotaMap' = QuotaMap /\ OpenMap' = OpenMap
<1> DEFINE old == hits[c]
<1> DEFINE record == IF Stale(old) THEN NewWindow ELSE CountHit(old)
<1>0. /\ old \in RateLimitRecord
      /\ windowMs \in Nat /\ maxRequests \in Nat /\ maxRequests >= 1
      /\ old.count \in Nat /\ old.left \in Int /\ old.left >= -1
    BY RecordFields DEF HitsOK
<1>1. /\ hits' = [hits EXCEPT ![c] = record]
      /\ verdict' = IF Allows(record) THEN <<c, "next">> ELSE <<c, "429">>
    BY DEF middleware
<1>2. hits'[c] = record /\ \A d \in Clients : d # c => hits'[d] = hits[d]
    BY <1>1 DEF HitsOK
<1>3. \/ /\ Allows(record)
         /\ QuotaOf(old) > 0
         /\ QuotaOf(record) = QuotaOf(old) - 1
         /\ record.left = IF old.left = -1 THEN windowMs ELSE old.left
      \/ /\ ~Allows(record)
         /\ QuotaOf(old) = 0 /\ QuotaOf(record) = 0
         /\ record.left = old.left
    <2>1. CASE Stale(old)
        <3>1. record = [count |-> 1, left |-> windowMs] /\ old.left = -1
            BY <1>0, <2>1 DEF Stale, NewWindow
        <3> HIDE DEF record
        <3> QED
            BY <1>0, <3>1 DEF Allows, QuotaOf
    <2>2. CASE ~Stale(old)
        <3>1. /\ record.left = old.left
              /\ record.count = IF old.count > maxRequests THEN old.count ELSE old.count + 1
              /\ ~(old.left < 0)
            BY <1>0, <2>2, CountOK DEF Stale
        <3> HIDE DEF record
        <3> QED
            BY <1>0, <3>1 DEF Allows, QuotaOf
    <2> QED BY <2>1, <2>2
<1> HIDE DEF record
<1>4. CASE Allows(record)
    <2>1. QuotaMap' = [QuotaMap EXCEPT ![c] = @ - 1]
        BY <1>2, <1>3, <1>4 DEF QuotaMap
    <2>2. OpenMap' = [OpenMap EXCEPT ![c] = IF @ = -1 THEN windowMs ELSE @]
        BY <1>2, <1>3, <1>4 DEF OpenMap
    <2> QED
        BY <1>1, <1>3, <1>4, <2>1, <2>2 DEF QuotaMap
<1>5. CASE ~Allows(record)
    <2>1. QuotaMap' = QuotaMap /\ OpenMap' = OpenMap
        BY <1>2, <1>3, <1>5 DEF QuotaMap, OpenMap
    <2> QED
        BY <1>1, <1>3, <1>5, <2>1 DEF QuotaMap
<1> QED
    BY <1>4, <1>5
\* A record the timer removes stands for the same answers as no record.
LEMMA CleanupStutters ==
    ASSUME HitsOK, cleanup
    PROVE  QuotaMap' = QuotaMap /\ OpenMap' = OpenMap /\ verdict' = verdict
<1>1. ASSUME NEW c \in Clients
      PROVE  QuotaOf(hits'[c]) = QuotaOf(hits[c]) /\ hits'[c].left = hits[c].left
    <2>1. /\ hits[c] \in RateLimitRecord
          /\ hits'[c] = IF Over(hits[c]) THEN NoRecord ELSE hits[c]
        BY <1>1 DEF cleanup, HitsOK
    <2>2. CASE Over(hits[c])
        <3>1. hits'[c] = NoRecord /\ hits[c].left = -1
            BY <2>1, <2>2, RecordFields DEF Over
        <3> QED
            BY <3>1 DEF QuotaOf, NoRecord
    <2>3. CASE ~Over(hits[c])
        BY <2>1, <2>3
    <2> QED BY <2>2, <2>3
<1>2. QuotaMap' = QuotaMap
    BY <1>1 DEF QuotaMap
<1>3. OpenMap' = OpenMap
    BY <1>1 DEF OpenMap
<1> QED
    BY <1>2, <1>3 DEF cleanup

\* A tick of the clock is a tick of the fixed window.
LEMMA TickRefines ==
    ASSUME HitsOK, LimiterTick
    PROVE  /\ OpenMap' = [c \in Clients |-> IF OpenMap[c] = -1 THEN -1 ELSE OpenMap[c] - 1]
           /\ QuotaMap' = [c \in Clients |-> IF OpenMap'[c] = -1 THEN maxRequests ELSE QuotaMap[c]]
           /\ verdict' = verdict
<1>1. ASSUME NEW c \in Clients
      PROVE  /\ hits'[c].left = IF hits[c].left = -1 THEN -1 ELSE hits[c].left - 1
             /\ QuotaOf(hits'[c]) =
                    IF hits'[c].left = -1 THEN maxRequests ELSE QuotaOf(hits[c])
    <2>1. /\ hits[c] \in RateLimitRecord
          /\ hits'[c] = IF hits[c].left < 0 THEN hits[c] ELSE [hits[c] EXCEPT !.left = @ - 1]
        BY <1>1 DEF LimiterTick, HitsOK
    <2>2. hits[c].left \in Int /\ hits[c].left >= -1
        BY <2>1, RecordFields
    <2>3. CASE hits[c].left < 0
        BY <2>1, <2>2, <2>3 DEF QuotaOf
    <2>4. CASE ~(hits[c].left < 0)
        <3>1. /\ hits'[c].left = hits[c].left - 1
              /\ hits'[c].count = hits[c].count
            BY <2>1, <2>4 DEF RateLimitRecord
        <3> QED
            BY <2>2, <2>4, <3>1 DEF QuotaOf
    <2> QED BY <2>3, <2>4
<1>2. OpenMap' = [c \in Clients |-> IF OpenMap[c] = -1 THEN -1 ELSE OpenMap[c] - 1]
    BY <1>1 DEF OpenMap
<1>3. QuotaMap' = [c \in Clients |-> IF OpenMap'[c] = -1 THEN maxRequests ELSE QuotaMap[c]]
    BY <1>1 DEF OpenMap, QuotaMap
<1> QED
    BY <1>2, <1>3 DEF LimiterTick

\* The middleware and its cleaning timer implement a fixed window, for every
\* set of clients, window length and limit.
THEOREM ImplementsWindowCorrect == LimiterSpec => ImplementsWindow
<1>0. /\ QuotaMap = [c \in Clients |->
                IF hits[c].left < 0 THEN maxRequests
                ELSE IF hits[c].count > maxRequests THEN 0 ELSE maxRequests - hits[c].count]
      /\ OpenMap = [c \in Clients |-> hits[c].left]
      /\ QuotaMap' = [c \in Clients |->
                IF hits'[c].left < 0 THEN maxRequests
                ELSE IF hits'[c].count > maxRequests THEN 0 ELSE maxRequests - hits'[c].count]
      /\ OpenMap' = [c \in Clients |-> hits'[c].left]
    BY DEF QuotaMap, OpenMap, QuotaOf
<1>1. LimiterInit => Window!Init
    BY DEF LimiterInit, NoRecord, Window!Init, Window!Closed
<1>2. HitsOK /\ [LimiterNext]_limiterVars => [Window!Next]_(Window!vars)
    <2> SUFFICES ASSUME HitsOK, [LimiterNext]_limiterVars
                 PROVE  Window!Next \/ UNCHANGED Window!vars
        OBVIOUS
    <2>1. ASSUME NEW c \in Clients, middleware(c) PROVE Window!Accept(c) \/ Window!Reject(c)
        BY <1>0, <2>1, MiddlewareRefines DEF Window!Accept, Window!Reject, Window!Closed
    <2>2. CASE cleanup
        BY <1>0, <2>2, CleanupStutters DEF Window!vars
    <2>3. CASE LimiterTick
        <3>1. Window!Tick
            BY <1>0, <2>3, TickRefines DEF Window!Tick, Window!Closed
        <3> QED BY <3>1 DEF Window!Next
    <2>4. CASE UNCHANGED limiterVars
        BY <2>4 DEF limiterVars, Window!vars
    <2> QED
        BY <2>1, <2>2, <2>3, <2>4 DEF LimiterNext, Window!Next
<1> QED
    BY <1>1, <1>2, HitsTyped, PTL DEF LimiterSpec, ImplementsWindow, Window!Spec

----------------------------------------------------------------------------
(* The event bus                                                           *)

Distinct(s) == \A i, j \in 1 .. Len(s) : s[i] = s[j] => i = j

\* Nobody is in the set twice, and everybody in it is in the audience of now.
BusInv ==
    /\ listeners \in Seq(Listeners)
    /\ Distinct(listeners)
    /\ audience \in [Publications \cup {"now"} -> SUBSET Listeners]
    /\ audience["now"] = ToSet(listeners)
    /\ publication \in [Publications -> {"idle", "awaiting", "resolved", "rejected"}]
    /\ running \in [Publications -> SUBSET Listeners]
    /\ calls \in [Publications -> [Listeners -> Nat]]
    /\ EachOnce

\* What the positions of a set of listeners are good for.
LEMMA ListenersFacts ==
    ASSUME NEW s \in Seq(Listeners)
    PROVE  /\ Len(s) \in Nat
           /\ ToSet(s) = {s[i] : i \in 1 .. Len(s)}
           /\ ToSet(s) \in SUBSET Listeners
           /\ s = << >> <=> ToSet(s) = {}
<1>1. Len(s) \in Nat /\ DOMAIN s = 1 .. Len(s) /\ \A i \in 1 .. Len(s) : s[i] \in Listeners
    BY LenProperties, ElementOfSeq
<1>2. ToSet(s) = {s[i] : i \in 1 .. Len(s)}
    BY <1>1 DEF ToSet
<1>3. CASE s = << >>
    <2>1. ToSet(s) = {}
        BY <1>3 DEF ToSet
    <2> QED
        BY <1>1, <1>2, <1>3, <2>1
<1>4. CASE s # << >>
    <2>1. Len(s) \in Nat \ {0}
        BY <1>4, EmptySeq
    <2>2. 1 \in 1 .. Len(s)
        BY <2>1
    <2>3. s[1] \in ToSet(s)
        BY <2>2, <1>2
    <2> QED
        BY <1>1, <1>2, <1>4, <2>3
<1> QED
    BY <1>3, <1>4

\* Set.add of a listener that is not there yet
LEMMA AddedOnce ==
    ASSUME NEW s \in Seq(Listeners), Distinct(s), NEW h \in Listeners, h \notin ToSet(s)
    PROVE  /\ Append(s, h) \in Seq(Listeners)
           /\ Distinct(Append(s, h))
           /\ ToSet(Append(s, h)) = ToSet(s) \cup {h}
<1> DEFINE t == Append(s, h)
           n == Len(s)
<1>1. /\ t \in Seq(Listeners) /\ Len(t) = n + 1 /\ t[n + 1] = h
      /\ \A i \in 1 .. n : t[i] = s[i]
    BY AppendProperties
<1>2. n \in Nat /\ ToSet(s) = {s[i] : i \in 1 .. n}
    BY ListenersFacts
<1>3. ToSet(t) = {t[i] : i \in 1 .. n + 1}
    BY <1>1, ListenersFacts
<1> HIDE DEF t, n
<1>4. \A i \in 1 .. n + 1 : i = n + 1 \/ i \in 1 .. n
    BY <1>2
<1>5. \A i \in 1 .. n : i \in 1 .. n + 1 /\ t[i] # h
    BY <1>1, <1>2
<1>6. n + 1 \in 1 .. n + 1
    BY <1>2
<1>7. Distinct(t)
    <2> SUFFICES ASSUME NEW i \in 1 .. n + 1, NEW j \in 1 .. n + 1, t[i] = t[j] PROVE i = j
        BY <1>1 DEF Distinct
    <2>1. CASE i = n + 1
        BY <2>1, <1>1, <1>4, <1>5
    <2>2. CASE j = n + 1
        BY <2>2, <1>1, <1>4, <1>5
    <2>3. CASE i \in 1 .. n /\ j \in 1 .. n
        BY <2>3, <1>1 DEF Distinct, n
    <2> QED
        BY <2>1, <2>2, <2>3, <1>4
<1>8. ToSet(t) = ToSet(s) \cup {h}
    <2>1. ASSUME NEW x \in ToSet(t) PROVE x \in ToSet(s) \cup {h}
        <3>1. PICK i \in 1 .. n + 1 : x = t[i]
            BY <1>3
        <3> QED
            BY <3>1, <1>1, <1>2, <1>4
    <2>2. ASSUME NEW x \in ToSet(s) PROVE x \in ToSet(t)
        <3>1. PICK i \in 1 .. n : x = s[i]
            BY <1>2
        <3> QED
            BY <3>1, <1>1, <1>3, <1>5
    <2>3. h \in ToSet(t)
        BY <1>1, <1>3, <1>6
    <2> QED
        BY <2>1, <2>2, <2>3
<1> QED
    BY <1>1, <1>7, <1>8 DEF t

\* Set.delete of the listener at position k
LEMMA RemovedAt ==
    ASSUME NEW s \in Seq(Listeners), Distinct(s), NEW k \in 1 .. Len(s)
    PROVE  /\ RemoveAt(s, k) \in Seq(Listeners)
           /\ Distinct(RemoveAt(s, k))
           /\ ToSet(RemoveAt(s, k)) = ToSet(s) \ {s[k]}
<1> DEFINE n == Len(s)
           front == SubSeq(s, 1, k - 1)
           back == SubSeq(s, k + 1, n)
           t == front \o back
<1>1. n \in Nat /\ ToSet(s) = {s[i] : i \in 1 .. n} /\ \A i \in 1 .. n : s[i] \in Listeners
    BY ListenersFacts, ElementOfSeq
<1>2. RemoveAt(s, k) = t
    BY DEF RemoveAt
<1>3. /\ front \in Seq(Listeners) /\ Len(front) = k - 1
      /\ \A i \in 1 .. k - 1 : front[i] = s[i]
    <2>1. k - 1 \in Int /\ \A i \in 1 .. k - 1 : s[i] \in Listeners
        BY <1>1
    <2>2. /\ front \in Seq(Listeners)
          /\ Len(front) = IF 1 <= k - 1 THEN (k - 1) - 1 + 1 ELSE 0
          /\ \A i \in 1 .. (k - 1) - 1 + 1 : front[i] = s[1 + i - 1]
        BY <2>1, SubSeqProperties
    <2> HIDE DEF front
    <2> QED
        BY <2>2, <1>1
<1>4. /\ back \in Seq(Listeners) /\ Len(back) = n - k
      /\ \A i \in 1 .. n - k : back[i] = s[k + i]
    <2>1. k + 1 \in Int /\ n \in Int /\ \A i \in k + 1 .. n : s[i] \in Listeners
        BY <1>1
    <2> HIDE DEF n
    <2>2. /\ back \in Seq(Listeners)
          /\ Len(back) = IF k + 1 <= n THEN n - (k + 1) + 1 ELSE 0
          /\ \A i \in 1 .. n - (k + 1) + 1 : back[i] = s[(k + 1) + i - 1]
        BY <2>1, SubSeqProperties
    <2> HIDE DEF back
    <2>3. k \in 1 .. n
        BY DEF n
    <2> QED
        BY <2>2, <2>3, <1>1
<1>5. k \in 1 .. n
    OBVIOUS
<1> HIDE DEF front, back, n
<1>6. /\ t \in Seq(Listeners)
      /\ Len(t) = Len(front) + Len(back)
      /\ \A i \in 1 .. Len(front) + Len(back) :
            t[i] = IF i <= Len(front) THEN front[i] ELSE back[i - Len(front)]
    BY <1>3, <1>4, ConcatProperties
<1> HIDE DEF t
<1>7. Len(t) = n - 1
    BY <1>1, <1>3, <1>4, <1>5, <1>6
<1>8. \A i \in 1 .. n - 1 : t[i] = IF i < k THEN s[i] ELSE s[i + 1]
    <2> SUFFICES ASSUME NEW i \in 1 .. n - 1 PROVE t[i] = IF i < k THEN s[i] ELSE s[i + 1]
        OBVIOUS
    <2>1. t[i] = IF i <= k - 1 THEN front[i] ELSE back[i - (k - 1)]
        BY SMTT(30), <1>1, <1>3, <1>4, <1>5, <1>6
    <2>2. CASE i < k
        BY <2>1, <2>2, <1>3, <1>5
    <2>3. CASE ~(i < k)
        <3>1. i - (k - 1) \in 1 .. n - k /\ k + (i - (k - 1)) = i + 1 /\ ~(i <= k - 1)
            BY <2>3, <1>1, <1>5
        <3> QED
            BY <3>1, <2>1, <2>3, <1>4
    <2> QED
        BY <2>2, <2>3
<1>9. ToSet(t) = {t[i] : i \in 1 .. n - 1}
    BY <1>6, <1>7, ListenersFacts
<1> DEFINE at(i) == IF i < k THEN i ELSE i + 1
<1>10. \A i \in 1 .. n - 1 : at(i) \in 1 .. n /\ at(i) # k /\ t[i] = s[at(i)]
    BY <1>1, <1>5, <1>8
<1>11. \A i, j \in 1 .. n - 1 : at(i) = at(j) => i = j
    BY <1>1, <1>5
<1>12. \A j \in 1 .. n : j # k => \E i \in 1 .. n - 1 : at(i) = j
    <2> SUFFICES ASSUME NEW j \in 1 .. n, j # k PROVE \E i \in 1 .. n - 1 : at(i) = j
        OBVIOUS
    <2>1. CASE j < k
        <3>1. j \in 1 .. n - 1 /\ at(j) = j
            BY <2>1, <1>1, <1>5
        <3> QED
            BY <3>1
    <2>2. CASE j > k
        <3>1. j - 1 \in 1 .. n - 1 /\ at(j - 1) = j
            BY <2>2, <1>1, <1>5
        <3> QED
            BY <3>1
    <2> QED
        BY <2>1, <2>2, <1>1, <1>5
<1> HIDE DEF at
<1>13. \A i, j \in 1 .. n : s[i] = s[j] => i = j
    BY DEF Distinct, n
<1>14. Distinct(t)
    BY <1>7, <1>10, <1>11, <1>13 DEF Distinct
<1>15. ToSet(t) = ToSet(s) \ {s[k]}
    <2>1. ASSUME NEW x \in ToSet(t) PROVE x \in ToSet(s) \ {s[k]}
        <3>1. PICK i \in 1 .. n - 1 : x = t[i]
            BY <1>9
        <3> QED
            BY <3>1, <1>1, <1>5, <1>10, <1>13
    <2>2. ASSUME NEW x \in ToSet(s) \ {s[k]} PROVE x \in ToSet(t)
        <3>1. PICK j \in 1 .. n : x = s[j] /\ j # k
            BY <1>1
        <3>2. PICK i \in 1 .. n - 1 : at(i) = j
            BY <3>1, <1>12
        <3> QED
            BY <3>1, <3>2, <1>9, <1>10
    <2> QED
        BY <2>1, <2>2
<1> QED
    BY <1>2, <1>6, <1>14, <1>15

\* Set.delete
LEMMA Removed ==
    ASSUME NEW s \in Seq(Listeners), Distinct(s), NEW h
    PROVE  /\ RemoveFirst(s, h) \in Seq(Listeners)
           /\ Distinct(RemoveFirst(s, h))
           /\ ToSet(RemoveFirst(s, h)) = ToSet(s) \ {h}
<1> DEFINE I == {i \in 1 .. Len(s) : s[i] = h}
<1>1. Len(s) \in Nat /\ ToSet(s) = {s[i] : i \in 1 .. Len(s)}
    BY ListenersFacts
<1>2. CASE I = {}
    <2>1. RemoveFirst(s, h) = s
        BY <1>2 DEF RemoveFirst
    <2>2. h \notin ToSet(s)
        BY <1>1, <1>2
    <2> QED
        BY <2>1, <2>2
<1>3. CASE I # {}
    <2>1. PICK k \in 1 .. Len(s) : s[k] = h
        BY <1>3
    <2>2. I = {k}
        BY <2>1 DEF Distinct
    <2>3. RemoveFirst(s, h) = RemoveAt(s, Min(I))
        BY <2>1, <1>3, Zenon DEF RemoveFirst, SelectInSeq
    <2>4. Min(I) = k
        <3> HIDE DEF I
        <3>1. k \in {k} /\ \A y \in {k} : k <= y
            BY <1>1
        <3> QED
            BY <3>1, <2>2 DEF Min
    <2> QED
        BY <2>1, <2>3, <2>4, RemovedAt
<1> QED
    BY <1>2, <1>3

\* A listener is called as often as it is in the set.
LEMMA CalledOnce ==
    ASSUME NEW s \in Seq(Listeners), Distinct(s), NEW h
    PROVE  Cardinality({i \in DOMAIN s : s[i] = h}) = IF h \in ToSet(s) THEN 1 ELSE 0
<1> DEFINE I == {i \in DOMAIN s : s[i] = h}
<1>1. DOMAIN s = 1 .. Len(s) /\ ToSet(s) = {s[i] : i \in 1 .. Len(s)}
    BY ListenersFacts, LenProperties
<1>2. CASE h \in ToSet(s)
    <2>1. PICK k \in 1 .. Len(s) : s[k] = h
        BY <1>1, <1>2
    <2>2. I = {k}
        BY <2>1, <1>1 DEF Distinct
    <2>3. Cardinality({k}) = 1
        BY FS_Singleton
    <2> QED
        BY <2>2, <2>3, <1>2
<1>3. CASE h \notin ToSet(s)
    <2>1. I = {}
        BY <1>1, <1>3
    <2>2. Cardinality({}) = 0
        BY FS_EmptySet
    <2> QED
        BY <2>1, <2>2, <1>3
<1> QED
    BY <1>2, <1>3

\* The set of listeners changes, and nothing that was published before.
LEMMA AudienceStep ==
    ASSUME BusInv, NEW h \in Listeners, busSubscribe(h) \/ unsubscribe(h)
    PROVE  BusInv'
<1>1. UNCHANGED <<publication, running, calls>>
    BY DEF busSubscribe, unsubscribe
<1>2. PICK T \in SUBSET Listeners :
        /\ listeners' \in Seq(Listeners)
        /\ Distinct(listeners')
        /\ ToSet(listeners') = T
        /\ audience' = [audience EXCEPT !["now"] = T]
    <2>1. audience["now"] = ToSet(listeners) /\ ToSet(listeners) \in SUBSET Listeners
        BY ListenersFacts DEF BusInv
    <2>2. CASE busSubscribe(h)
        <3>1. audience' = [audience EXCEPT !["now"] = ToSet(listeners) \cup {h}]
            BY <2>1, <2>2 DEF busSubscribe
        <3>2. /\ listeners' \in Seq(Listeners)
              /\ Distinct(listeners')
              /\ ToSet(listeners') = ToSet(listeners) \cup {h}
            <4>1. Contains(listeners, h) <=> h \in ToSet(listeners)
                BY ListenersFacts DEF BusInv, Contains
            <4>2. CASE h \in ToSet(listeners)
                BY <4>1, <4>2, <2>2 DEF busSubscribe, Added, BusInv
            <4>3. CASE h \notin ToSet(listeners)
                BY <4>1, <4>3, <2>2, AddedOnce DEF busSubscribe, Added, BusInv
            <4> QED
                BY <4>2, <4>3
        <3> QED
            BY <3>1, <3>2, <2>1
    <2>3. CASE unsubscribe(h)
        <3>1. audience' = [audience EXCEPT !["now"] = ToSet(listeners) \ {h}]
            BY <2>1, <2>3 DEF unsubscribe
        <3>2. /\ listeners' \in Seq(Listeners)
              /\ Distinct(listeners')
              /\ ToSet(listeners') = ToSet(listeners) \ {h}
            BY <2>3, Removed DEF unsubscribe, BusInv
        <3> QED
            BY <3>1, <3>2, <2>1
    <2> QED
        BY <2>2, <2>3
<1>3. /\ audience' \in [Publications \cup {"now"} -> SUBSET Listeners]
      /\ audience'["now"] = T
      /\ \A p \in Publications : audience'[p] = audience[p]
    BY <1>2, BusAssumption DEF BusInv
<1>4. EachOnce'
    BY <1>1, <1>3 DEF BusInv, EachOnce
<1> QED
    BY <1>1, <1>2, <1>3, <1>4 DEF BusInv

\* publish gives the event to everybody who is subscribed, once.
LEMMA PublishStep ==
    ASSUME BusInv, NEW p \in Publications, publish(p)
    PROVE  BusInv'
<1> DEFINE given == [h \in Listeners |->
                        Cardinality({i \in DOMAIN listeners : listeners[i] = h})]
<1>1. /\ listeners' = listeners
      /\ publication' = [publication EXCEPT ![p] =
                            IF listeners = << >> THEN "resolved" ELSE "awaiting"]
      /\ running' = [running EXCEPT ![p] = ToSet(listeners)]
      /\ calls' = [calls EXCEPT ![p] = given]
      /\ audience' = [audience EXCEPT ![p] = ToSet(listeners)]
    BY DEF publish, BusInv
<1>2. \A h \in Listeners : given[h] = IF h \in ToSet(listeners) THEN 1 ELSE 0
    BY CalledOnce DEF BusInv
<1>3. given \in [Listeners -> Nat]
    <2>1. \A h \in Listeners : given[h] \in Nat
        BY <1>2
    <2> QED
        BY <2>1
<1> HIDE DEF given
<1>4. ToSet(listeners) \in SUBSET Listeners /\ (listeners = << >> <=> ToSet(listeners) = {})
    BY ListenersFacts DEF BusInv
<1>5. /\ running' \in [Publications -> SUBSET Listeners]
      /\ running'[p] = ToSet(listeners)
      /\ \A q \in Publications : q # p => running'[q] = running[q]
    BY <1>1, <1>4 DEF BusInv
<1>6. /\ calls' \in [Publications -> [Listeners -> Nat]]
      /\ calls'[p] = given
      /\ \A q \in Publications : q # p => calls'[q] = calls[q]
    BY <1>1, <1>3 DEF BusInv
<1>7. /\ audience' \in [Publications \cup {"now"} -> SUBSET Listeners]
      /\ audience'[p] = ToSet(listeners)
      /\ audience'["now"] = audience["now"]
      /\ \A q \in Publications : q # p => audience'[q] = audience[q]
    BY <1>1, <1>4, BusAssumption DEF BusInv
<1>8. /\ publication' \in [Publications -> {"idle", "awaiting", "resolved", "rejected"}]
      /\ publication'[p] = "awaiting" <=> listeners # << >>
      /\ \A q \in Publications : q # p => publication'[q] = publication[q]
    BY <1>1 DEF BusInv
<1>9. EachOnce'
    <2> SUFFICES ASSUME NEW q \in Publications
                 PROVE  /\ \A h \in Listeners : calls'[q][h] = IF h \in audience'[q] THEN 1 ELSE 0
                        /\ publication'[q] = "awaiting" <=> running'[q] # {}
        BY DEF EachOnce
    <2>1. CASE q = p
        BY <2>1, <1>2, <1>4, <1>5, <1>6, <1>7, <1>8
    <2>2. CASE q # p
        BY <2>2, <1>5, <1>6, <1>7, <1>8 DEF BusInv, EachOnce
    <2> QED
        BY <2>1, <2>2
<1> QED
    BY <1>1, <1>5, <1>6, <1>7, <1>8, <1>9 DEF BusInv

\* A listener that settles, one way or the other, settles once.
LEMMA SettleStep ==
    ASSUME BusInv, NEW p \in Publications, NEW h \in Listeners,
           ListenerReturns(p, h) \/ ListenerThrows(p, h)
    PROVE  BusInv'
<1>1. /\ h \in running[p]
      /\ running' = [running EXCEPT ![p] = running[p] \ {h}]
      /\ publication' = [publication EXCEPT ![p] =
                            IF running[p] = {h} THEN "resolved" ELSE publication[p]]
      /\ UNCHANGED <<listeners, calls, audience>>
    BY DEF ListenerReturns, ListenerThrows, Settle, Caught, Resolves
<1>2. /\ running' \in [Publications -> SUBSET Listeners]
      /\ running'[p] = running[p] \ {h}
      /\ \A q \in Publications : q # p => running'[q] = running[q]
    BY <1>1 DEF BusInv
<1>3. /\ publication' \in [Publications -> {"idle", "awaiting", "resolved", "rejected"}]
      /\ publication'[p] = IF running[p] = {h} THEN "resolved" ELSE publication[p]
      /\ \A q \in Publications : q # p => publication'[q] = publication[q]
    BY <1>1 DEF BusInv
<1>4. publication[p] = "awaiting"
    BY <1>1 DEF BusInv, EachOnce
<1>5. running'[p] = {} <=> running[p] = {h}
    BY <1>1, <1>2
<1>6. EachOnce'
    <2> SUFFICES ASSUME NEW q \in Publications
                 PROVE  publication'[q] = "awaiting" <=> running'[q] # {}
        BY <1>1 DEF BusInv, EachOnce
    <2>1. CASE q = p
        BY <2>1, <1>3, <1>4, <1>5
    <2>2. CASE q # p
        BY <2>2, <1>2, <1>3 DEF BusInv, EachOnce
    <2> QED
        BY <2>1, <2>2
<1> QED
    BY <1>1, <1>2, <1>3, <1>6 DEF BusInv

\* publish gives every listener of the moment the event once, and waits for
\* exactly those: neither a subscription in between nor a listener that throws
\* changes that.
THEOREM EachOnceCorrect == BusSpec => []EachOnce
<1>1. BusInit => BusInv
    <2> SUFFICES ASSUME BusInit PROVE BusInv
        OBVIOUS
    <2>1. listeners \in Seq(Listeners) /\ Len(listeners) = 0 /\ ToSet(listeners) = {}
        BY DEF BusInit, ToSet
    <2>2. Distinct(listeners)
        BY <2>1 DEF Distinct
    <2>3. EachOnce
        BY DEF BusInit, EachOnce
    <2> QED
        BY <2>1, <2>2, <2>3 DEF BusInit, BusInv
<1>2. BusInv /\ UNCHANGED busVars => BusInv'
    BY DEF BusInv, busVars, EachOnce
<1>3. BusInv /\ [BusNext]_busVars => BusInv'
    BY <1>2, AudienceStep, PublishStep, SettleStep DEF BusNext
<1>4. BusInv => EachOnce
    BY DEF BusInv
<1> QED
    BY <1>1, <1>3, <1>4, PTL DEF BusSpec

----------------------------------------------------------------------------
(* The adaptive circuit breaker                                            *)

Circuit == [state : {"CLOSED", "OPEN", "HALF_OPEN"}, failureCount : Nat,
            successCount : Nat, wait : Nat]

\* Where a circuit stands: the failures that opened it still count while it
\* probes; while it probes it has seen too few successes to hide a failure; and
\* a closed one whose last report was a failure is below the threshold.
AdaptiveInv ==
    /\ circuit \in Circuit
    /\ inFlight \in Nat
    /\ probesFailed \in Nat
    /\ failsInRow \in Nat
    /\ circuit.state = "OPEN" => circuit.failureCount >= OpensAt
    /\ circuit.state = "HALF_OPEN" =>
        /\ circuit.failureCount >= OpensAt + probesFailed
        /\ circuit.successCount < closingProbes
        /\ probesFailed > 0 => circuit.failureCount < minimumRequestsInWindow
    /\ circuit.state = "CLOSED" =>
        /\ failsInRow <= circuit.failureCount
        /\ failsInRow > 0 => ~ShareReached(circuit.failureCount, circuit.successCount)

\* The products of the share.
LEMMA ShareFacts ==
    /\ failureThresholdPct \in Nat /\ minimumRequestsInWindow \in Nat \ {0}
    /\ closingProbes \in Nat \ {0}
    /\ failureThresholdPct * minimumRequestsInWindow \in Nat
    /\ OpensAt \in Nat
    /\ 100 * OpensAt <= failureThresholdPct * minimumRequestsInWindow + 99
<1>1. failureThresholdPct \in Nat /\ minimumRequestsInWindow \in Nat \ {0}
      /\ closingProbes \in Nat \ {0}
    BY AdaptiveAssumption
<1>2. failureThresholdPct * minimumRequestsInWindow \in Nat
    BY <1>1
<1>3. PICK x \in Nat : x = failureThresholdPct * minimumRequestsInWindow
    BY <1>2
<1>4. (x + 99) \div 100 \in Nat /\ 100 * ((x + 99) \div 100) <= x + 99
    OBVIOUS
<1> QED
    BY <1>1, <1>2, <1>3, <1>4 DEF OpensAt

\* A circuit opens on at least OpensAt failures.
LEMMA OpensOnFailures ==
    ASSUME NEW f \in Nat, NEW s \in Nat, ShareReached(f, s)
    PROVE  f >= OpensAt
<1> DEFINE pct == failureThresholdPct
           min == minimumRequestsInWindow
<1>1. pct \in Nat /\ min \in Nat /\ pct * min \in Nat
    BY ShareFacts
<1>2. f + s >= min /\ f * 100 >= pct * (f + s)
    BY DEF ShareReached
<1>3. pct * (f + s) >= pct * min
    <2>1. PICK d \in Nat : f + s = min + d
        <3>1. (f + s) - min \in Nat
            BY <1>1, <1>2
        <3> QED
            BY <3>1, <1>1
    <2>2. pct * (min + d) = pct * min + pct * d /\ pct * d \in Nat
        BY <1>1
    <2> QED
        BY <2>1, <2>2, <1>1
<1>4. pct * (f + s) \in Nat
    BY <1>1
<1>5. f * 100 >= pct * min
    BY <1>1, <1>2, <1>3, <1>4
<1> HIDE DEF pct, min
<1>6. 100 * OpensAt <= pct * min + 99 /\ OpensAt \in Nat
    BY ShareFacts DEF pct, min
<1>7. PICK x \in Nat : x = pct * min
    BY <1>1
<1>8. f * 100 >= x /\ 100 * OpensAt <= x + 99
    BY <1>5, <1>6, <1>7
<1> QED
    BY <1>6, <1>8

\* With as few successes as a probing circuit has seen, enough reports open it.
LEMMA ProbesShow ==
    ASSUME NEW f \in Nat, NEW s \in Nat, s < closingProbes, ~ShareReached(f, s)
    PROVE  f + s < minimumRequestsInWindow
<1> DEFINE pct == failureThresholdPct
           min == minimumRequestsInWindow
           rest == 100 - pct
<1>1. pct \in Nat /\ rest \in Nat /\ min \in Nat /\ closingProbes \in Nat \ {0}
      /\ (closingProbes - 1) * 100 <= rest * min
    BY AdaptiveAssumption
<1> SUFFICES ASSUME f + s >= min PROVE FALSE
    BY <1>1
<1>2. PICK d \in Nat : f + s = min + d
    <2>1. (f + s) - min \in Nat
        BY <1>1
    <2> QED
        BY <2>1, <1>1
<1>3. rest * (min + d) = rest * min + rest * d /\ rest * d \in Nat /\ rest * min \in Nat
    BY <1>1
<1>4. s * 100 <= rest * min
    <2>1. s * 100 <= (closingProbes - 1) * 100
        BY <1>1
    <2> QED
        BY <2>1, <1>1, <1>3
<1>5. s * 100 <= rest * (f + s)
    <2>1. rest * (f + s) = rest * min + rest * d
        BY <1>2, <1>3
    <2> HIDE DEF rest, min
    <2> QED
        BY <2>1, <1>3, <1>4
<1>6. rest * (f + s) = 100 * (f + s) - pct * (f + s) /\ pct * (f + s) \in Nat
    BY <1>1
<1>7. PICK x \in Nat : x = pct * (f + s)
    BY <1>6
<1>8. s * 100 <= 100 * (f + s) - x
    BY <1>5, <1>6, <1>7
<1>9. f * 100 >= x
    BY <1>8
<1>10. ShareReached(f, s)
    BY <1>7, <1>9 DEF ShareReached
<1> QED
    BY <1>10

\* More failures beside the same successes keep the share reached.
LEMMA ShareGrows ==
    ASSUME NEW r \in Nat, NEW f \in Nat, NEW s \in Nat, r <= f, ShareReached(r, s)
    PROVE  ShareReached(f, s)
<1> DEFINE pct == failureThresholdPct
<1>1. pct \in Nat /\ pct <= 100 /\ minimumRequestsInWindow \in Nat
    BY AdaptiveAssumption
<1>2. PICK d \in Nat : f = r + d
    <2>1. f - r \in Nat
        OBVIOUS
    <2> QED
        BY <2>1
<1>3. r + s >= minimumRequestsInWindow /\ r * 100 >= pct * (r + s)
    BY DEF ShareReached
<1>4. pct * (f + s) = pct * (r + s) + pct * d
    <2>1. f + s = (r + s) + d
        BY <1>2
    <2>2. pct * ((r + s) + d) = pct * (r + s) + pct * d
        BY <1>1
    <2> QED
        BY <2>1, <2>2
<1>5. pct * d <= 100 * d /\ pct * d \in Nat /\ pct * (r + s) \in Nat
    <2>1. PICK e \in Nat : 100 = pct + e
        <3>1. 100 - pct \in Nat
            BY <1>1
        <3> QED
            BY <3>1, <1>1
    <2>2. (pct + e) * d = pct * d + e * d /\ e * d \in Nat /\ pct * d \in Nat
        BY <1>1
    <2> QED
        BY <2>1, <2>2, <1>1
<1> HIDE DEF pct
<1>6. PICK x \in Nat, y \in Nat : x = pct * (r + s) /\ y = pct * d
    BY <1>5
<1>7. f * 100 >= x + y
    BY <1>2, <1>3, <1>5, <1>6
<1>8. f * 100 >= pct * (f + s)
    BY <1>4, <1>6, <1>7
<1>9. f + s >= minimumRequestsInWindow
    BY <1>1, <1>2, <1>3
<1> QED
    BY <1>8, <1>9 DEF ShareReached, pct

\* A call is let through: nothing is counted, and a probe starts afresh.
LEMMA AllowStep ==
    ASSUME AdaptiveInv, allowRequest PROVE AdaptiveInv'
<1>1. inFlight' \in Nat /\ failsInRow' = failsInRow
    BY DEF allowRequest, AdaptiveInv
<1>2. CASE UNCHANGED <<circuit, probesFailed>>
    BY <1>1, <1>2 DEF AdaptiveInv
<1>3. CASE circuit.state = "OPEN" /\ circuit' = Probe(circuit) /\ probesFailed' = 0
    <2>1. /\ circuit' \in Circuit
          /\ circuit'.state = "HALF_OPEN"
          /\ circuit'.failureCount = circuit.failureCount
          /\ circuit'.successCount = 0
        BY <1>3 DEF AdaptiveInv, Circuit, Probe
    <2>2. circuit.failureCount \in Nat /\ circuit.failureCount >= OpensAt
        BY <1>3 DEF AdaptiveInv, Circuit
    <2> QED
        BY <1>1, <1>3, <2>1, <2>2, ShareFacts DEF AdaptiveInv
<1> QED
    BY <1>2, <1>3 DEF allowRequest

\* A success closes the circuit or is counted.
LEMMA SuccessStep ==
    ASSUME AdaptiveInv, ReportSuccess PROVE AdaptiveInv'
<1>1. inFlight' \in Nat /\ failsInRow' = 0 /\ probesFailed' = probesFailed
    BY DEF ReportSuccess, AdaptiveInv
<1>2. circuit.successCount \in Nat /\ circuit.failureCount \in Nat
    BY DEF AdaptiveInv, Circuit
<1>3. CASE Closes(circuit)
    <2>1. circuit' \in Circuit /\ circuit'.state = "CLOSED" /\ circuit'.failureCount = 0
        BY <1>3 DEF ReportSuccess, AdaptiveInv, Circuit
    <2> QED
        BY <1>1, <2>1 DEF AdaptiveInv
<1>4. CASE ~Closes(circuit)
    <2>1. /\ circuit' \in Circuit
          /\ circuit'.state = circuit.state
          /\ circuit'.failureCount = circuit.failureCount
          /\ circuit'.successCount = circuit.successCount + 1
        BY <1>4 DEF ReportSuccess, AdaptiveInv, Circuit
    <2>2. circuit.state = "HALF_OPEN" => circuit.successCount + 1 < closingProbes
        BY <1>2, <1>4, ShareFacts DEF Closes
    <2> QED
        BY <1>1, <1>2, <2>1, <2>2 DEF AdaptiveInv
<1> QED
    BY <1>3, <1>4

\* A failure is counted and opens the circuit when the share is reached.
LEMMA FailStep ==
    ASSUME AdaptiveInv, ReportFailure PROVE AdaptiveInv'
<1> DEFINE f == circuit.failureCount
           s == circuit.successCount
<1>1. f \in Nat /\ s \in Nat /\ probesFailed \in Nat /\ failsInRow \in Nat
    BY DEF AdaptiveInv, Circuit
<1>2. /\ inFlight' \in Nat
      /\ failsInRow' = failsInRow + 1
      /\ probesFailed' = IF circuit.state = "HALF_OPEN" THEN probesFailed + 1 ELSE probesFailed
      /\ probesFailed' \in Nat
    BY <1>1 DEF ReportFailure, AdaptiveInv
<1>3. CASE ShareReached(f + 1, s)
    <2>1. /\ circuit' \in Circuit
          /\ circuit'.state = "OPEN"
          /\ circuit'.failureCount = f + 1
        <3>1. openDurationMs \in Nat /\ circuit \in Circuit
            BY AdaptiveAssumption DEF AdaptiveInv
        <3>2. circuit' = [circuit EXCEPT !.failureCount = f + 1, !.state = "OPEN",
                                         !.wait = openDurationMs]
            BY <1>3 DEF ReportFailure
        <3> DEFINE c == [circuit EXCEPT !.failureCount = f + 1]
                   d == [c EXCEPT !.state = "OPEN"]
                   e == [d EXCEPT !.wait = openDurationMs]
        <3>3. c \in Circuit /\ c.failureCount = f + 1
            BY <3>1, <1>1 DEF Circuit
        <3>4. circuit' = e
            BY <3>2, Zenon
        <3> HIDE DEF c
        <3>5. d \in Circuit /\ d.state = "OPEN" /\ d.failureCount = f + 1
            BY <3>3 DEF Circuit
        <3> HIDE DEF d
        <3>6. e \in Circuit /\ e.state = "OPEN" /\ e.failureCount = f + 1
            BY <3>1, <3>5 DEF Circuit
        <3> HIDE DEF e
        <3> QED
            BY <3>4, <3>6
    <2>2. f + 1 >= OpensAt
        BY <1>1, <1>3, OpensOnFailures
    <2> QED
        BY <1>1, <1>2, <2>1, <2>2 DEF AdaptiveInv
<1>4. CASE ~ShareReached(f + 1, s)
    <2>1. /\ circuit' \in Circuit
          /\ circuit'.state = circuit.state
          /\ circuit'.failureCount = f + 1
          /\ circuit'.successCount = s
        BY <1>4 DEF ReportFailure, AdaptiveInv, Circuit
    <2>2. ASSUME circuit.state = "HALF_OPEN"
          PROVE  /\ f >= OpensAt + probesFailed /\ s < closingProbes
                 /\ f + 1 < minimumRequestsInWindow
        <3>1. f >= OpensAt + probesFailed /\ s < closingProbes
            BY <2>2 DEF AdaptiveInv
        <3>2. (f + 1) + s < minimumRequestsInWindow
            BY <3>1, <1>1, <1>4, ProbesShow
        <3> QED
            BY <3>1, <3>2, <1>1, ShareFacts
    <2>3. circuit.state = "OPEN" => f >= OpensAt
        BY DEF AdaptiveInv
    <2>4. circuit.state = "CLOSED" => failsInRow <= f
        BY DEF AdaptiveInv
    <2> HIDE DEF f, s
    <2>5. CASE circuit.state = "HALF_OPEN"
        BY <2>5, <2>1, <2>2, <1>1, <1>2, ShareFacts DEF AdaptiveInv
    <2>6. CASE circuit.state = "OPEN"
        BY <2>6, <2>1, <2>3, <1>1, <1>2, ShareFacts DEF AdaptiveInv
    <2>7. CASE circuit.state = "CLOSED"
        BY <2>7, <2>1, <2>4, <1>1, <1>2, <1>4 DEF AdaptiveInv
    <2> QED
        BY <2>5, <2>6, <2>7 DEF AdaptiveInv, Circuit
<1> QED
    BY <1>3, <1>4

\* AdaptiveInv holds in every reachable state.
LEMMA AdaptiveInvariant == AdaptiveSpec => []AdaptiveInv
<1>1. AdaptiveInit => AdaptiveInv
    BY DEF AdaptiveInit, AdaptiveInv, Circuit
<1>2. ASSUME AdaptiveInv, AdaptiveTick PROVE AdaptiveInv'
    <2>1. PICK w \in Nat : circuit' = [circuit EXCEPT !.wait = w]
        <3> DEFINE w == IF circuit.wait > 0 THEN circuit.wait - 1 ELSE 0
        <3>1. w \in Nat
            BY <1>2 DEF AdaptiveInv, Circuit
        <3>2. circuit' = [circuit EXCEPT !.wait = w]
            BY <1>2 DEF AdaptiveTick
        <3> HIDE DEF w
        <3> QED
            BY <3>1, <3>2
    <2>2. /\ circuit' \in Circuit
          /\ circuit'.state = circuit.state
          /\ circuit'.failureCount = circuit.failureCount
          /\ circuit'.successCount = circuit.successCount
        BY <1>2, <2>1 DEF AdaptiveInv, Circuit
    <2>3. UNCHANGED <<inFlight, probesFailed, failsInRow>>
        BY <1>2 DEF AdaptiveTick
    <2> QED
        BY <1>2, <2>2, <2>3 DEF AdaptiveInv
<1>3. AdaptiveInv /\ UNCHANGED adaptiveVars => AdaptiveInv'
    BY DEF AdaptiveInv, adaptiveVars
<1>4. AdaptiveInv /\ [AdaptiveNext]_adaptiveVars => AdaptiveInv'
    BY <1>2, <1>3, AllowStep, SuccessStep, FailStep DEF AdaptiveNext
<1> QED
    BY <1>1, <1>4, PTL DEF AdaptiveSpec

\* A probing circuit tolerates fewer failed probes than were missing to
\* minimumRequestsInWindow when it opened (recordResult).
THEOREM ProbesBoundedCorrect == AdaptiveSpec => []ProbesBounded
<1>1. AdaptiveInv => ProbesBounded
    <2> SUFFICES ASSUME AdaptiveInv, circuit.state = "HALF_OPEN", probesFailed > 0
                 PROVE  probesFailed + OpensAt < minimumRequestsInWindow
        BY DEF ProbesBounded
    <2>1. circuit.failureCount \in Nat /\ probesFailed \in Nat
        BY DEF AdaptiveInv, Circuit
    <2> QED
        BY <2>1, ShareFacts DEF AdaptiveInv
<1> QED
    BY <1>1, AdaptiveInvariant, PTL

\* A run of failures that outweighs the successes since the circuit closed
\* opens it (recordResult).
THEOREM RunTripsCorrect == AdaptiveSpec => []RunTrips
<1>1. AdaptiveInv => RunTrips
    <2> SUFFICES ASSUME AdaptiveInv, circuit.state = "CLOSED",
                        failsInRow >= minimumRequestsInWindow,
                        failsInRow * 100 >=
                            failureThresholdPct * (failsInRow + circuit.successCount)
                 PROVE  FALSE
        BY DEF RunTrips
    <2>1. /\ circuit.failureCount \in Nat /\ circuit.successCount \in Nat
          /\ failsInRow \in Nat /\ failsInRow <= circuit.failureCount
        BY DEF AdaptiveInv, Circuit
    <2>2. failsInRow > 0
        BY <2>1, ShareFacts
    <2>3. failsInRow + circuit.successCount >= minimumRequestsInWindow
        BY <2>1, ShareFacts
    <2>4. ShareReached(failsInRow, circuit.successCount)
        BY <2>3 DEF ShareReached
    <2>5. ShareReached(circuit.failureCount, circuit.successCount)
        BY <2>1, <2>4, ShareGrows
    <2> QED
        BY <2>2, <2>5 DEF AdaptiveInv
<1> QED
    BY <1>1, AdaptiveInvariant, PTL

----------------------------------------------------------------------------
(* The spans of the fixed window                                           *)

Counts == [Ages -> Nat]

\* What a client's record r says of the requests f that were let through, by
\* age: those since its window opened are counted, those before it belong to
\* one window at most.
Spans(r, f) ==
    /\ f \in Counts
    /\ r.left < 0 => f[0] = 0 /\ Total(f) <= maxRequests
    /\ r.left >= 0 =>
        /\ SumFunctionOnSet(f, 0 .. windowMs - r.left) <= r.count
        /\ SumFunctionOnSet(f, 0 .. windowMs - r.left) <= maxRequests
        /\ SumFunctionOnSet(f, windowMs - r.left + 1 .. windowMs) <= maxRequests

SpanInv ==
    /\ HitsOK
    /\ recent \in [Clients -> Counts]
    /\ \A c \in Clients : Spans(hits[c], recent[c])

\* Ages are finitely many, and requests are counted in natural numbers.
LEMMA AgesFacts ==
    /\ windowMs \in Nat /\ 0 \in Ages /\ Ages = 0 .. windowMs
    /\ \A T \in SUBSET Ages : IsFiniteSet(T)
<1>1. windowMs \in Nat
    BY RecordFields
<1>2. IsFiniteSet(0 .. windowMs)
    BY <1>1, FS_Interval
<1>3. 0 \in 0 .. windowMs
    BY <1>1
<1>4. IsFiniteSet(Ages)
    BY <1>2, Zenon DEF Ages
<1>5. \A T \in SUBSET Ages : IsFiniteSet(T)
    BY <1>4, FS_Subset, Zenon
<1> QED
    BY <1>1, <1>3, <1>5, Zenon DEF Ages

LEMMA SpanNat ==
    ASSUME NEW f \in Counts, NEW T \in SUBSET Ages
    PROVE  SumFunctionOnSet(f, T) \in Nat
<1>1. IsFiniteSet(T) /\ \A a \in T : f[a] \in Nat
    BY AgesFacts DEF Counts
<1> QED
    BY <1>1, SumNat

\* A span has at most what a span around it has.
LEMMA SpanPart ==
    ASSUME NEW f \in Counts, NEW S \in SUBSET Ages, NEW T \in SUBSET S
    PROVE  SumFunctionOnSet(f, T) <= SumFunctionOnSet(f, S)
<1> DEFINE U == S \ T
<1>1. IsFiniteSet(T) /\ IsFiniteSet(U) /\ T \cap U = {} /\ \A a \in T \cup U : f[a] \in Int
    BY AgesFacts DEF Counts
<1>2. SumFunctionOnSet(f, T \cup U) = SumFunctionOnSet(f, T) + SumFunctionOnSet(f, U)
    <2> HIDE DEF U
    <2> QED
        BY <1>1, SumUnion
<1>3. T \cup U = S
    OBVIOUS
<1>4. SumFunctionOnSet(f, T) \in Nat /\ SumFunctionOnSet(f, U) \in Nat
    BY SpanNat
<1>5. SumFunctionOnSet(f, S) = SumFunctionOnSet(f, T) + SumFunctionOnSet(f, U)
    BY <1>2, <1>3, Zenon
<1> QED
    BY <1>4, <1>5

\* One tick on, what was a span is the span one older.
LEMMA SpanMoves ==
    ASSUME NEW f \in Counts, NEW g \in Counts,
           \A a \in Ages : a > 0 => g[a] = f[a - 1],
           NEW m \in Nat, NEW n \in Int, n < windowMs
    PROVE  SumFunctionOnSet(g, m + 1 .. n + 1) = SumFunctionOnSet(f, m .. n)
<1> DEFINE S == m .. n
           T == m + 1 .. n + 1
           older == [x \in S |-> x + 1]
<1>1. windowMs \in Nat
    BY AgesFacts
<1>2. IsFiniteSet(S)
    <2>1. S \in SUBSET Ages
        BY <1>1 DEF Ages
    <2> QED
        BY <2>1, AgesFacts
<1>3. \A x \in S : older[x] \in T /\ g[older[x]] = f[x] /\ f[x] \in Int
    <2> SUFFICES ASSUME NEW x \in S PROVE older[x] \in T /\ g[older[x]] = f[x] /\ f[x] \in Int
        OBVIOUS
    <2>1. x \in Ages /\ x + 1 \in Ages /\ x + 1 > 0 /\ (x + 1) - 1 = x
        BY <1>1 DEF Ages
    <2>2. g[x + 1] = f[x]
        BY <2>1
    <2> QED
        BY <2>1, <2>2 DEF Counts
<1>4. \A x, y \in S : older[x] = older[y] => x = y
    OBVIOUS
<1>5. T = {older[x] : x \in S}
    <2>1. ASSUME NEW y \in T PROVE \E x \in S : y = older[x]
        <3>1. y - 1 \in S /\ older[y - 1] = y
            OBVIOUS
        <3> QED
            BY <3>1
    <2> QED
        BY <2>1, <1>3
<1> HIDE DEF S, T, older
<1>6. SumFunctionOnSet(g, T) = SumFunctionOnSet(f, S)
    BY <1>2, <1>3, <1>4, <1>5, SumRename
<1> QED
    BY <1>6 DEF S, T

\* One tick on, spans from the present have gained an empty tick.
LEMMA SpanAges ==
    ASSUME NEW f \in Counts, NEW g \in Counts, g[0] = 0,
           \A a \in Ages : a > 0 => g[a] = f[a - 1],
           NEW n \in -1 .. windowMs - 1
    PROVE  SumFunctionOnSet(g, 0 .. n + 1) = SumFunctionOnSet(f, 0 .. n)
<1> DEFINE S == 0 .. n + 1
           T == 0 + 1 .. n + 1
<1>1. windowMs \in Nat
    BY AgesFacts
<1>2. S \in SUBSET Ages /\ 0 \in S /\ S \ {0} = T
    BY <1>1 DEF Ages
<1>3. IsFiniteSet(S) /\ \A a \in S : g[a] \in Int
    BY <1>2, AgesFacts DEF Counts
<1>4. SumFunctionOnSet(g, T) = SumFunctionOnSet(f, 0 .. n)
    BY <1>1, SpanMoves
<1>5. T \in SUBSET Ages
    BY <1>2
<1> HIDE DEF S, T
<1>6. SumFunctionOnSet(g, S) = g[0] + SumFunctionOnSet(g, S \ {0})
    BY <1>2, <1>3, SumRemove
<1>7. SumFunctionOnSet(g, S) = SumFunctionOnSet(g, T)
    <2>1. SumFunctionOnSet(g, S) = g[0] + SumFunctionOnSet(g, T)
        BY <1>2, <1>6, Zenon
    <2>2. SumFunctionOnSet(g, T) \in Nat
        BY <1>5, SpanNat
    <2> QED
        BY <2>1, <2>2
<1> QED
    BY <1>4, <1>7, Zenon DEF S

\* A request more at the present, in a span from the present.
LEMMA SpanGains ==
    ASSUME NEW f \in Counts, NEW n \in Ages
    PROVE  LET g == [f EXCEPT ![0] = f[0] + 1]
           IN  /\ g \in Counts
               /\ SumFunctionOnSet(g, 0 .. n) = SumFunctionOnSet(f, 0 .. n) + 1
               /\ SumFunctionOnSet(g, n + 1 .. windowMs) = SumFunctionOnSet(f, n + 1 .. windowMs)
<1> DEFINE g == [f EXCEPT ![0] = f[0] + 1]
           S == 0 .. n
           T == n + 1 .. windowMs
<1>1. windowMs \in Nat /\ n \in Nat /\ n <= windowMs /\ 0 \in Ages
    BY AgesFacts
<1>2. S \in SUBSET Ages /\ T \in SUBSET Ages /\ 0 \in S /\ 0 \notin T
    BY <1>1 DEF Ages
<1>3. f[0] \in Nat /\ g[0] = f[0] + 1 /\ g \in Counts /\ \A a \in Ages : a # 0 => g[a] = f[a]
    BY <1>1 DEF Counts
<1>4. IsFiniteSet(S) /\ IsFiniteSet(T)
    BY <1>2, AgesFacts
<1>5. (\A a \in S : f[a] \in Int) /\ g[0] \in Int /\ \A a \in S : a # 0 => g[a] = f[a]
    BY <1>2, <1>3 DEF Counts
<1>6. \A a \in T : g[a] = f[a]
    BY <1>2, <1>3
<1> HIDE DEF g, S, T
<1>7. SumFunctionOnSet(g, S) = SumFunctionOnSet(f, S) + g[0] - f[0]
    BY <1>2, <1>4, <1>5, SumChange
<1>8. SumFunctionOnSet(f, S) \in Nat
    BY <1>2, SpanNat
<1>9. SumFunctionOnSet(g, S) = SumFunctionOnSet(f, S) + 1
    BY <1>3, <1>7, <1>8
<1>10. SumFunctionOnSet(g, T) = SumFunctionOnSet(f, T)
    BY <1>4, <1>6, SumCongruence
<1> QED
    BY <1>3, <1>9, <1>10, Zenon DEF g, S, T

\* A tick: the window closes, or both of its spans get older.
LEMMA SpansTick ==
    ASSUME NEW r \in RateLimitRecord, NEW f \in Counts, Spans(r, f),
           NEW q \in RateLimitRecord, q.count = r.count,
           q.left = IF r.left < 0 THEN r.left ELSE r.left - 1,
           NEW g \in Counts, g[0] = 0, \A a \in Ages : a > 0 => g[a] = f[a - 1]
    PROVE  Spans(q, g)
<1> DEFINE l == r.left
           W == windowMs
<1>1. /\ W \in Nat /\ maxRequests \in Nat
      /\ l \in Int /\ l >= -1 /\ l <= W
    BY RecordFields
<1>2. /\ Total(f) \in Nat
      /\ SumFunctionOnSet(g, 0 .. W) = SumFunctionOnSet(f, 0 .. W - 1)
      /\ SumFunctionOnSet(f, 0 .. W - 1) <= Total(f)
    <2>1. W - 1 \in -1 .. W - 1 /\ (W - 1) + 1 = W
        BY <1>1
    <2>2. SumFunctionOnSet(g, 0 .. (W - 1) + 1) = SumFunctionOnSet(f, 0 .. W - 1)
        BY <2>1, SpanAges
    <2>3. 0 .. W - 1 \in SUBSET Ages
        BY <1>1 DEF Ages
    <2>4. SumFunctionOnSet(f, 0 .. W - 1) <= SumFunctionOnSet(f, Ages)
        BY <2>3, SpanPart
    <2>5. SumFunctionOnSet(f, Ages) \in Nat
        BY SpanNat
    <2> QED
        BY <2>1, <2>2, <2>4, <2>5 DEF Total
<1>3. Total(g) = SumFunctionOnSet(g, 0 .. W) /\ SumFunctionOnSet(f, 0 .. W - 1) \in Nat
    <2>1. 0 .. W - 1 \in SUBSET Ages
        BY <1>1 DEF Ages
    <2> QED
        BY <2>1, SpanNat DEF Total, Ages
<1>4. CASE l < 0
    <2>1. Total(f) <= maxRequests
        BY <1>4 DEF Spans
    <2>2. Total(g) <= maxRequests
        BY <2>1, <1>1, <1>2, <1>3
    <2>3. q.left < 0
        BY <1>4
    <2> QED
        BY <2>2, <2>3, <1>4, <1>1 DEF Spans
<1>5. CASE l = 0
    <2>1. SumFunctionOnSet(f, 0 .. W - l) <= maxRequests /\ W - l = W
        BY <1>1, <1>5 DEF Spans
    <2>2. Total(f) <= maxRequests
        BY <2>1 DEF Total, Ages
    <2>3. Total(g) <= maxRequests
        BY <2>2, <1>1, <1>2, <1>3
    <2>4. q.left = -1
        BY <1>1, <1>5
    <2> QED
        BY <2>3, <2>4 DEF Spans
<1>6. CASE l > 0
    <2> DEFINE n == W - l
    <2>1. /\ SumFunctionOnSet(f, 0 .. n) <= r.count
          /\ SumFunctionOnSet(f, 0 .. n) <= maxRequests
          /\ SumFunctionOnSet(f, n + 1 .. W) <= maxRequests
        BY <1>1, <1>6 DEF Spans
    <2>2. n \in -1 .. W - 1 /\ n \in Nat /\ n < W
        BY <1>1, <1>6
    <2>3. q.left = l - 1 /\ W - q.left = n + 1 /\ q.left >= 0
        BY <1>1, <1>6
    <2> HIDE DEF n
    <2>4. SumFunctionOnSet(g, 0 .. n + 1) = SumFunctionOnSet(f, 0 .. n)
        BY <2>2, SpanAges
    <2>5. SumFunctionOnSet(g, (n + 1) + 1 .. W) <= maxRequests
        <3>1. n + 1 \in Nat /\ W - 1 \in Int /\ W - 1 < W /\ (W - 1) + 1 = W
            BY <2>2, <1>1
        <3>2. SumFunctionOnSet(g, (n + 1) + 1 .. (W - 1) + 1)
                = SumFunctionOnSet(f, n + 1 .. W - 1)
            BY <3>1, SpanMoves
        <3>3. n + 1 .. W \in SUBSET Ages /\ n + 1 .. W - 1 \in SUBSET (n + 1 .. W)
            BY <2>2, <1>1 DEF Ages
        <3>4. SumFunctionOnSet(f, n + 1 .. W - 1) <= SumFunctionOnSet(f, n + 1 .. W)
            BY <3>3, SpanPart
        <3>5. SumFunctionOnSet(f, n + 1 .. W - 1) \in Nat /\ SumFunctionOnSet(f, n + 1 .. W) \in Nat
            <4>1. n + 1 .. W - 1 \in SUBSET Ages
                BY <3>3
            <4> QED
                BY <3>3, <4>1, SpanNat
        <3>6. SumFunctionOnSet(g, (n + 1) + 1 .. W) = SumFunctionOnSet(f, n + 1 .. W - 1)
            BY <3>1, <3>2
        <3> QED
            BY <2>1, <3>4, <3>5, <3>6, <1>1
    <2>6. SumFunctionOnSet(g, 0 .. W - q.left) = SumFunctionOnSet(f, 0 .. n)
        BY <2>3, <2>4, Zenon
    <2>7. SumFunctionOnSet(g, W - q.left + 1 .. W) <= maxRequests
        BY <2>3, <2>5, Zenon
    <2>8. SumFunctionOnSet(g, 0 .. W - q.left) <= q.count
        BY <2>1, <2>6, Zenon
    <2>9. SumFunctionOnSet(g, 0 .. W - q.left) <= maxRequests
        BY <2>1, <2>6, Zenon
    <2>10. ~(q.left < 0)
        BY <2>3, <1>1
    <2> QED
        BY <2>7, <2>8, <2>9, <2>10, Zenon DEF Spans
<1> QED
    BY <1>1, <1>4, <1>5, <1>6

\* A request of a client whose window is over opens another and passes.
LEMMA SpansOpen ==
    ASSUME NEW r \in RateLimitRecord, NEW f \in Counts, Spans(r, f), r.left < 0
    PROVE  Spans(NewWindow, [f EXCEPT ![0] = f[0] + 1])
<1> DEFINE g == [f EXCEPT ![0] = f[0] + 1]
           W == windowMs
<1>1. W \in Nat /\ maxRequests \in Nat /\ maxRequests >= 1 /\ 0 \in Ages
    BY RecordFields, AgesFacts
<1>2. /\ g \in Counts
      /\ SumFunctionOnSet(g, 0 .. 0) = SumFunctionOnSet(f, 0 .. 0) + 1
      /\ SumFunctionOnSet(g, 0 + 1 .. W) = SumFunctionOnSet(f, 0 + 1 .. W)
    BY <1>1, SpanGains
<1>3. f[0] = 0 /\ Total(f) <= maxRequests
    BY DEF Spans
<1> HIDE DEF g
<1>4. SumFunctionOnSet(f, 0 .. 0) = 0
    <2>1. \A a \in 0 .. 0 : f[a] = 0
        BY <1>3
    <2>2. IsFiniteSet(0 .. 0)
        <3>1. 0 .. 0 \in SUBSET Ages
            BY <1>1
        <3> QED
            BY <3>1, AgesFacts, Zenon
    <2> QED
        BY <2>1, <2>2, SumZero
<1>5. SumFunctionOnSet(f, 0 + 1 .. W) <= maxRequests
    <2>1. 0 + 1 .. W \in SUBSET Ages
        BY <1>1 DEF Ages
    <2>2. SumFunctionOnSet(f, 0 + 1 .. W) <= SumFunctionOnSet(f, Ages)
        BY <2>1, SpanPart
    <2>3. SumFunctionOnSet(f, 0 + 1 .. W) \in Nat /\ SumFunctionOnSet(f, Ages) \in Nat
        BY <2>1, SpanNat
    <2> QED
        BY <2>2, <2>3, <1>1, <1>3 DEF Total
<1>6. NewWindow.left = W /\ NewWindow.count = 1 /\ W - W = 0
    BY <1>1 DEF NewWindow
<1>7. SumFunctionOnSet(g, 0 .. 0) = 1 /\ SumFunctionOnSet(g, 0 + 1 .. W) <= maxRequests
    BY <1>2, <1>4, <1>5
<1>8. Spans(NewWindow, g)
    BY <1>1, <1>2, <1>6, <1>7 DEF Spans
<1> QED
    BY <1>8 DEF g

\* A request in an open window is counted, and passes if the count allows it.
LEMMA SpansHit ==
    ASSUME NEW r \in RateLimitRecord, NEW f \in Counts, Spans(r, f), ~(r.left < 0)
    PROVE  /\ Spans(CountHit(r), f)
           /\ Allows(CountHit(r)) => Spans(CountHit(r), [f EXCEPT ![0] = f[0] + 1])
<1> DEFINE g == [f EXCEPT ![0] = f[0] + 1]
           W == windowMs
           n == W - r.left
           h == CountHit(r)
<1>1. /\ W \in Nat /\ maxRequests \in Nat
      /\ r.left \in Int /\ r.left >= 0 /\ r.left <= W
      /\ r.count \in Nat /\ r.count <= maxRequests + 1
    BY RecordFields
<1>2. h.left = r.left /\ h.count = IF r.count > maxRequests THEN r.count ELSE r.count + 1
    BY CountOK
<1>3. /\ SumFunctionOnSet(f, 0 .. n) <= r.count
      /\ SumFunctionOnSet(f, 0 .. n) <= maxRequests
      /\ SumFunctionOnSet(f, n + 1 .. W) <= maxRequests
    BY <1>1 DEF Spans
<1>4. n \in Ages
    BY <1>1 DEF Ages
<1>5. SumFunctionOnSet(f, 0 .. n) \in Nat
    <2>1. 0 .. n \in SUBSET Ages
        BY <1>1 DEF Ages
    <2> QED
        BY <2>1, SpanNat
<1>6. W - h.left = n /\ h.left >= 0
    BY <1>1, <1>2
<1>7. /\ g \in Counts
      /\ SumFunctionOnSet(g, 0 .. n) = SumFunctionOnSet(f, 0 .. n) + 1
      /\ SumFunctionOnSet(g, n + 1 .. W) = SumFunctionOnSet(f, n + 1 .. W)
    BY <1>4, SpanGains
<1>10. h.left \in Int /\ ~(h.left < 0)
    BY <1>1, <1>2
<1> HIDE DEF g, h, n
<1>11. ASSUME NEW e \in Counts,
              SumFunctionOnSet(e, 0 .. n) <= h.count,
              SumFunctionOnSet(e, 0 .. n) <= maxRequests,
              SumFunctionOnSet(e, n + 1 .. W) <= maxRequests
       PROVE  Spans(h, e)
    <2>1. SumFunctionOnSet(e, 0 .. W - h.left) <= h.count
        BY <1>6, <1>11, Zenon
    <2>2. SumFunctionOnSet(e, 0 .. W - h.left) <= maxRequests
        BY <1>6, <1>11, Zenon
    <2>3. SumFunctionOnSet(e, W - h.left + 1 .. W) <= maxRequests
        BY <1>6, <1>11, Zenon
    <2> QED
        BY <2>1, <2>2, <2>3, <1>10, <1>11, Zenon DEF Spans
<1>8. Spans(h, f)
    <2>1. SumFunctionOnSet(f, 0 .. n) <= h.count
        BY <1>1, <1>2, <1>3, <1>5
    <2> QED
        BY <2>1, <1>3, <1>11
<1>9. ASSUME Allows(h) PROVE Spans(h, g)
    <2>1. h.count <= maxRequests /\ h.count = r.count + 1
        BY <1>9, <1>1, <1>2 DEF Allows
    <2>2. SumFunctionOnSet(g, 0 .. n) <= h.count /\ SumFunctionOnSet(g, 0 .. n) <= maxRequests
        BY <2>1, <1>1, <1>3, <1>5, <1>7
    <2>3. SumFunctionOnSet(g, n + 1 .. W) <= maxRequests
        BY <1>3, <1>7
    <2> QED
        BY <2>2, <2>3, <1>7, <1>11
<1> QED
    BY <1>8, <1>9 DEF g, h

\* SpanInv holds in every reachable state.
LEMMA SpanInvariant == LimiterSpec => []SpanInv
<1>1. LimiterInit => SpanInv
    <2> SUFFICES ASSUME LimiterInit PROVE SpanInv
        OBVIOUS
    <2> DEFINE none == [a \in Ages |-> 0]
    <2>1. hits = [c \in Clients |-> NoRecord] /\ recent = [c \in Clients |-> none]
        BY DEF LimiterInit
    <2>2. none \in Counts /\ none[0] = 0 /\ \A a \in Ages : none[a] = 0
        BY AgesFacts DEF Counts
    <2> HIDE DEF none
    <2>3. Total(none) = 0
        BY <2>2, SumZero, AgesFacts DEF Total
    <2>4. NoRecord.left = -1 /\ maxRequests \in Nat /\ NoRecord \in RateLimitRecord
        BY RecordFields DEF NoRecord
    <2>5. Spans(NoRecord, none)
        BY <2>2, <2>3, <2>4 DEF Spans
    <2> QED
        BY <2>1, <2>2, <2>4, <2>5 DEF SpanInv, HitsOK
<1>2. SpanInv /\ HitsOK' /\ [LimiterNext]_limiterVars => SpanInv'
    <2> SUFFICES ASSUME SpanInv, HitsOK', [LimiterNext]_limiterVars PROVE SpanInv'
        OBVIOUS
    <2>1. \A c \in Clients : hits[c] \in RateLimitRecord /\ recent[c] \in Counts
                             /\ Spans(hits[c], recent[c])
        BY DEF SpanInv, HitsOK
    <2>2. ASSUME NEW c \in Clients, middleware(c) PROVE SpanInv'
        <3> DEFINE more == [recent[c] EXCEPT ![0] = recent[c][0] + 1]
                   r == IF Stale(hits[c]) THEN NewWindow ELSE CountHit(hits[c])
        <3>1. /\ hits' = [hits EXCEPT ![c] = r]
              /\ IF Allows(r) THEN recent' = [recent EXCEPT ![c] = more]
                 ELSE recent' = [recent EXCEPT ![c] = recent[c]]
            <4>1. recent = [recent EXCEPT ![c] = recent[c]]
                BY DEF SpanInv
            <4> QED
                BY <2>2, <4>1 DEF middleware
        <3>2. /\ Allows(r) => Spans(r, more)
              /\ ~Allows(r) => Spans(r, recent[c])
            <4>1. CASE hits[c].left < 0
                <5>1. r = NewWindow
                    BY <4>1 DEF Stale
                <5>2. Allows(r)
                    BY <5>1, RecordFields DEF Allows, NewWindow
                <5>3. Spans(NewWindow, more)
                    BY <2>1, <4>1, SpansOpen
                <5> QED
                    BY <5>1, <5>2, <5>3
            <4>2. CASE ~(hits[c].left < 0)
                <5>1. r = CountHit(hits[c])
                    BY <4>2 DEF Stale
                <5>2. /\ Spans(CountHit(hits[c]), recent[c])
                      /\ Allows(CountHit(hits[c])) => Spans(CountHit(hits[c]), more)
                    BY <2>1, <4>2, SpansHit
                <5> HIDE DEF r, more
                <5> QED
                    BY <5>1, <5>2
            <4> QED
                BY <4>1, <4>2
        <3> HIDE DEF r, more
        <3>3. PICK g : recent' = [recent EXCEPT ![c] = g] /\ Spans(r, g)
            BY <3>1, <3>2
        <3>4. g \in Counts
            BY <3>3 DEF Spans
        <3>5. recent' \in [Clients -> Counts]
            BY <3>3, <3>4 DEF SpanInv
        <3>6. ASSUME NEW d \in Clients PROVE Spans(hits[d], recent[d])'
            <4>1. CASE d = c
                <5>1. hits'[d] = r /\ recent'[d] = g
                    BY <4>1, <3>1, <3>3 DEF SpanInv, HitsOK
                <5> QED
                    BY <5>1, <3>3 DEF Spans, Total
            <4>2. CASE d # c
                <5>1. hits'[d] = hits[d] /\ recent'[d] = recent[d]
                    BY <4>2, <3>1, <3>3 DEF SpanInv, HitsOK
                <5> QED
                    BY <5>1, <2>1 DEF Spans, Total
            <4> QED
                BY <4>1, <4>2
        <3> QED
            BY <3>5, <3>6 DEF SpanInv
    <2>3. CASE cleanup
        <3>1. ASSUME NEW c \in Clients PROVE Spans(hits[c], recent[c])'
            <4>1. recent'[c] = recent[c] /\ recent'[c] \in Counts
                BY <2>1, <2>3 DEF cleanup
            <4>2. CASE hits[c].left < 0
                <5>1. hits'[c].left < 0
                    BY <2>3, <4>2 DEF cleanup, Over, NoRecord
                <5>2. hits'[c].left \in Int
                    BY RecordFields DEF HitsOK
                <5>3. ~(hits'[c].left >= 0)
                    BY <5>1, <5>2
                <5>4. recent[c][0] = 0 /\ Total(recent[c]) <= maxRequests
                    BY <2>1, <4>2 DEF Spans
                <5> QED
                    BY <4>1, <5>3, <5>4 DEF Spans, Total
            <4>3. CASE ~(hits[c].left < 0)
                <5>1. hits'[c] = hits[c]
                    BY <2>3, <4>3 DEF cleanup, Over
                <5> QED
                    BY <5>1, <4>1, <2>1 DEF Spans, Total
            <4> QED
                BY <4>2, <4>3
        <3>2. recent' \in [Clients -> Counts]
            BY <2>3 DEF cleanup, SpanInv
        <3> QED
            BY <3>1, <3>2 DEF SpanInv
    <2>4. CASE LimiterTick
        <3>1. recent' \in [Clients -> Counts]
              /\ \A c \in Clients :
                    /\ recent'[c][0] = 0
                    /\ \A a \in Ages : a > 0 => recent'[c][a] = recent[c][a - 1]
            <4>1. recent' = [c \in Clients |->
                                [a \in Ages |-> IF a = 0 THEN 0 ELSE recent[c][a - 1]]]
                BY <2>4 DEF LimiterTick
            <4>2. \A c \in Clients, a \in Ages :
                    (IF a = 0 THEN 0 ELSE recent[c][a - 1]) \in Nat
                <5> SUFFICES ASSUME NEW c \in Clients, NEW a \in Ages, a # 0
                             PROVE  recent[c][a - 1] \in Nat
                    OBVIOUS
                <5>1. a - 1 \in Ages
                    BY AgesFacts
                <5> QED
                    BY <5>1, <2>1 DEF Counts
            <4>3. recent' \in [Clients -> Counts]
                BY <4>1, <4>2 DEF Counts
            <4>4. \A c \in Clients :
                    /\ recent'[c][0] = 0
                    /\ \A a \in Ages : a > 0 => recent'[c][a] = recent[c][a - 1]
                BY <4>1, AgesFacts
            <4> QED
                BY <4>3, <4>4
        <3>2. ASSUME NEW c \in Clients PROVE Spans(hits[c], recent[c])'
            <4>1. hits'[c] \in RateLimitRecord /\ recent'[c] \in Counts
                BY <3>1 DEF HitsOK
            <4>2. /\ hits'[c].count = hits[c].count
                  /\ hits'[c].left = IF hits[c].left < 0 THEN hits[c].left ELSE hits[c].left - 1
                <5>1. hits'[c] = IF hits[c].left < 0 THEN hits[c]
                                 ELSE [hits[c] EXCEPT !.left = @ - 1]
                    BY <2>4 DEF LimiterTick
                <5>2. hits[c] \in RateLimitRecord
                    BY <2>1
                <5> QED
                    BY <5>1, <5>2 DEF RateLimitRecord
            <4>3. Spans(hits'[c], recent'[c])
                BY <2>1, <3>1, <4>1, <4>2, SpansTick
            <4> QED
                BY <4>3 DEF Spans, Total
        <3> QED
            BY <3>1, <3>2 DEF SpanInv
    <2>5. CASE UNCHANGED limiterVars
        BY <2>5 DEF limiterVars, SpanInv, Spans, Total, HitsOK
    <2> QED
        BY <2>2, <2>3, <2>4, <2>5 DEF LimiterNext
<1> QED
    BY <1>1, <1>2, HitsTyped, PTL DEF LimiterSpec

\* The middleware lets at most two windows' worth of requests of a client
\* through in any span of windowMs, whenever the timer cleans.
THEOREM SpanBoundCorrect == LimiterSpec => []SpanBound
<1>1. SpanInv => SpanBound
    <2> SUFFICES ASSUME SpanInv, NEW c \in Clients
                 PROVE  Total(recent[c]) <= 2 * maxRequests
        BY DEF SpanBound
    <2> DEFINE f == recent[c]
               W == windowMs
               l == hits[c].left
    <2>1. f \in Counts /\ Spans(hits[c], f) /\ hits[c] \in RateLimitRecord
        BY DEF SpanInv, HitsOK
    <2>2. W \in Nat /\ maxRequests \in Nat /\ l \in Int /\ l >= -1 /\ l <= W
        BY <2>1, RecordFields
    <2>3. Total(f) \in Nat
        BY <2>1, SpanNat DEF Total
    <2>4. CASE l < 0
        BY <2>1, <2>2, <2>3, <2>4 DEF Spans
    <2>5. CASE l >= 0
        <3> DEFINE S == 0 .. W - l
                   T == W - l + 1 .. W
        <3>1. SumFunctionOnSet(f, S) <= maxRequests /\ SumFunctionOnSet(f, T) <= maxRequests
            BY <2>1, <2>5 DEF Spans
        <3>2. S \cap T = {} /\ S \cup T = Ages
            BY <2>2, <2>5 DEF Ages
        <3>3. S \in SUBSET Ages /\ T \in SUBSET Ages
            BY <3>2
        <3> HIDE DEF S, T, f
        <3>4. IsFiniteSet(S) /\ IsFiniteSet(T) /\ \A a \in S \cup T : f[a] \in Int
            BY <2>1, <3>2, <3>3, AgesFacts DEF Counts
        <3>5. SumFunctionOnSet(f, S \cup T) = SumFunctionOnSet(f, S) + SumFunctionOnSet(f, T)
            BY <3>2, <3>4, SumUnion
        <3>6. SumFunctionOnSet(f, S) \in Nat /\ SumFunctionOnSet(f, T) \in Nat
            BY <2>1, <3>3, SpanNat
        <3>7. Total(f) = SumFunctionOnSet(f, S) + SumFunctionOnSet(f, T)
            BY <3>2, <3>5, Zenon DEF Total
        <3>8. Total(f) <= 2 * maxRequests
            BY <2>2, <3>1, <3>6, <3>7
        <3> QED
            BY <3>8 DEF f
    <2> QED
        BY <2>2, <2>4, <2>5
<1> QED
    BY <1>1, SpanInvariant, PTL

----------------------------------------------------------------------------
(* The gateway                                                             *)

\* The guards one beside the other: what is proved of each alone holds when
\* only one of them moves at a time.
LEMMA GuardsOfGateway == GatewaySpec => AdaptiveSpec /\ LimiterSpec
<1>1. GatewayInit => AdaptiveInit /\ LimiterInit
    BY DEF GatewayInit
<1>2. [GatewayNext]_gatewayVars => [AdaptiveNext]_adaptiveVars
    BY DEF GatewayNext, gatewayVars
<1>3. [GatewayNext]_gatewayVars => [LimiterNext]_limiterVars
    BY DEF GatewayNext, gatewayVars
<1> QED
    BY <1>1, <1>2, <1>3, PTL DEF GatewaySpec, AdaptiveSpec, LimiterSpec

\* What the gateway's guards let through is bounded: failed probes and runs of
\* failures by the adaptive breaker, bursts by the rate limiter.
THEOREM PassesBoundedCorrect == GatewaySpec => []PassesBounded
<1>1. ProbesBounded /\ RunTrips /\ SpanBound => PassesBounded
    BY DEF PassesBounded
<1> QED
    BY <1>1, GuardsOfGateway, ProbesBoundedCorrect, RunTripsCorrect, SpanBoundCorrect, PTL
=============================================================================
