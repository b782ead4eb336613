----------------------------- MODULE MCGateway -----------------------------
(***************************************************************************)
(* The gateway's guards, which are the two circuit breakers and the two    *)
(* rate limiters, and the event bus.  They share no state, so a behaviour  *)
(* exercises one of them and leaves the others as they started.            *)
(***************************************************************************)
EXTENDS CircuitBreaker, AdaptiveBreaker, RateLimiter, TokenBucket, EventBus

VARIABLE part

gatewayVars == <<part, vars, adaptiveVars, limiterVars, bucketVars, busVars>>

\* A bucket that starts below the brim and gains two thirds of a token a tick,
\* and one that gains more than a token.
MCCapacity == [k1 |-> 6, k2 |-> 4]
MCRate == [k1 |-> 2, k2 |-> 4]
MCBurst == [k1 |-> 3, k2 |-> 1]

GatewayInit ==
    /\ part \in {"breaker", "adaptive", "limiter", "bucket", "bus"}
    /\ Init /\ AdaptiveInit /\ LimiterInit /\ BucketInit /\ BusInit

GatewayNext ==
    /\ UNCHANGED part
    /\ \/ /\ part = "breaker" /\ Next
          /\ UNCHANGED <<adaptiveVars, limiterVars, bucketVars, busVars>>
       \/ /\ part = "adaptive" /\ AdaptiveNext
          /\ UNCHANGED <<vars, limiterVars, bucketVars, busVars>>
       \/ /\ part = "limiter" /\ LimiterNext
          /\ UNCHANGED <<vars, adaptiveVars, bucketVars, busVars>>
       \/ /\ part = "bucket" /\ BucketNext
          /\ UNCHANGED <<vars, adaptiveVars, limiterVars, busVars>>
       \/ /\ part = "bus" /\ BusNext
          /\ UNCHANGED <<vars, adaptiveVars, limiterVars, bucketVars>>

GatewaySpec ==
    /\ GatewayInit /\ [][GatewayNext]_gatewayVars
    /\ part = "breaker" => Fairness
    /\ part = "limiter" => LimiterFairness
    /\ part = "bus" => BusFairness

----------------------------------------------------------------------------
\* How much the guards let through at most: failed probes of the adaptive
\* breaker and failures in a row, and requests in any span of the limiter.
PassesBounded == ProbesBounded /\ RunTrips /\ SpanBound

\* Nobody waits for ever: a breaker closes once the service has recovered, a
\* client that keeps asking is let in, and publish returns.
EventuallyServed == Heals /\ Readmitted /\ PublishReturns
=============================================================================
