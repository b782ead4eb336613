---------------------------- MODULE TokenBucket ----------------------------
(***************************************************************************)
(* TokenBucketRateLimiterEngine                                            *)
(* (api-gateway/src/resilience/TokenBucketRateLimiterEngine.ts): a bucket  *)
(* per key, refilled only when a request comes, for the time since the     *)
(* last one.                                                               *)
(*                                                                         *)
(* Amounts are in fractions of a token, Token of them to one, so that what *)
(* a tick adds is a whole number; the code's floating point has no such    *)
(* grain, and its rounding is not modelled.  A tick stands for a second,   *)
(* the unit of retryAfterSeconds.  A key is always checked under one tier. *)
(***************************************************************************)
EXTENDS Integers

CONSTANTS
    Keys,
    Token,                          \* the fractions that make one token
    capacityTokens,                 \* these three per key, by its tier:
    refillRateTokensPerSecond,      \* the rule's amounts, in fractions
    burstAllowanceTokens

ASSUME BucketAssumption ==
    /\ Token \in Nat \ {0}
    /\ capacityTokens \in [Keys -> Nat]
    /\ refillRateTokensPerSecond \in [Keys -> Nat \ {0}]
    /\ burstAllowanceTokens \in [Keys -> Nat]
    /\ \A k \in Keys : capacityTokens[k] + burstAllowanceTokens[k] >= Token

VARIABLES
    buckets,        \* the map: tokens, and seconds since lastRefillTimestamp
    steady,         \* history: a bucket that is refilled at every tick
    promise         \* history: seconds until the retry a rejected caller was told

bucketVars == <<buckets, steady, promise>>

\* No entry for the key
NoBucket == [tokens |-> 0, elapsed |-> -1]
NoPromise == -1

Brim(k) == capacityTokens[k] + burstAllowanceTokens[k]

LesserOf(m, n) == IF m < n THEN m ELSE n

BucketInit ==
    /\ buckets = [k \in Keys |-> NoBucket]
    /\ steady = [k \in Keys |-> capacityTokens[k]]
    /\ promise = [k \in Keys |-> NoPromise]

----------------------------------------------------------------------------
(* Variants of the definitions below, each with one plausible mistake.     *)

\* Only whole tokens are added, and the timestamp moves all the same.
RefilledWhole(k, b) ==
    LesserOf(Brim(k), b.tokens + ((b.elapsed * refillRateTokensPerSecond[k]) \div Token) * Token)

\* Rounded down.
RetryTooSoon(k, tokens) == (Token - tokens) \div refillRateTokensPerSecond[k]

----------------------------------------------------------------------------
Found(k) == IF buckets[k] = NoBucket
            THEN [tokens |-> capacityTokens[k], elapsed |-> 0] ELSE buckets[k]

\* What the refill makes of a bucket
Refilled(k, b) ==
    LesserOf(Brim(k), b.tokens + b.elapsed * refillRateTokensPerSecond[k])

\* Math.ceil of the seconds until one token is there
retryAfter(k, tokens) ==
    (Token - tokens + refillRateTokensPerSecond[k] - 1) \div refillRateTokensPerSecond[k]

checkRequestAllowance(k) ==
    LET tokens == Refilled(k, Found(k))
        told == retryAfter(k, tokens)
    IN  \/ /\ tokens >= Token
           /\ buckets' = [buckets EXCEPT ![k] = [tokens |-> tokens - Token, elapsed |-> 0]]
           /\ steady' = [steady EXCEPT ![k] = @ - Token]
           /\ promise' = [promise EXCEPT ![k] = NoPromise]
        \/ /\ tokens < Token
           /\ buckets' = [buckets EXCEPT ![k] = [tokens |-> tokens, elapsed |-> 0]]
           /\ promise' = [promise EXCEPT ![k] = IF @ = NoPromise THEN told ELSE LesserOf(@, told)]
           /\ UNCHANGED steady

\* external: a second passes.  Once a bucket is full to the brim for certain,
\* more time makes no difference and elapsed stands still.
BucketTick ==
    /\ buckets' = [k \in Keys |->
                    IF \/ buckets[k] = NoBucket
                       \/ buckets[k].elapsed * refillRateTokensPerSecond[k] >= Brim(k)
                    THEN buckets[k] ELSE [buckets[k] EXCEPT !.elapsed = @ + 1]]
    /\ steady' = [k \in Keys |->
                    IF buckets[k] = NoBucket THEN steady[k]
                    ELSE LesserOf(Brim(k), steady[k] + refillRateTokensPerSecond[k])]
    /\ promise' = [k \in Keys |-> IF promise[k] > 0 THEN promise[k] - 1 ELSE promise[k]]

BucketNext ==
    \/ \E k \in Keys : checkRequestAllowance(k)
    \/ BucketTick

BucketSpec == BucketInit /\ [][BucketNext]_bucketVars

----------------------------------------------------------------------------
\* Refilling a bucket only when somebody asks, also when he is turned away, is
\* the same as refilling it all the time: no request loses tokens by coming
\* too early or gains any by coming late.
RefillExact == \A k \in Keys : Refilled(k, Found(k)) = steady[k]

\* Whoever was turned away and comes back after retryAfterSeconds is let
\* through, unless another request of the key was let through in the meantime;
\* requests that were turned away in the meantime do not put him off.
RetryHonest == \A k \in Keys : promise[k] = 0 => steady[k] >= Token

\* What a caller is told is what he gets: his tokens, and when to come back.
BucketHonest == RefillExact /\ RetryHonest
=============================================================================
