--------------------------- MODULE CircuitBreaker ---------------------------
(***************************************************************************)
(* CircuitBreaker (api-gateway/src/services/circuitBreaker.ts), with the   *)
(* calls it guards.                                                        *)
(*                                                                         *)
(* A caller asks canPass, makes its call, and reports with recordSuccess   *)
(* or recordFailure.  The three methods are synchronous, the call between  *)
(* them is not: a call that was let through before the circuit tripped may *)
(* report at any time after.                                               *)
(*                                                                         *)
(* now - lastFailureTime is only compared with recoveryTimeoutMs, and      *)
(* failureCount only with failureThreshold, from above: both are kept up   *)
(* to the first value that makes the comparison true.                      *)
(***************************************************************************)
EXTENDS Naturals

CONSTANTS
    Callers,
    failureThreshold,
    recoveryTimeoutMs,          \* in ticks of the model's clock
    halfOpenSuccessThreshold

ASSUME BreakerAssumption ==
    /\ failureThreshold \in Nat \ {0}
    /\ recoveryTimeoutMs \in Nat
    /\ halfOpenSuccessThreshold \in Nat \ {0}

VARIABLES
    state,
    failureCount,
    sinceFailure,       \* now - lastFailureTime
    successCount,
    call,               \* call[c]: "idle", "sent", or "good": sent once healthy
    healthy,            \* the guarded service has recovered for good
    failRun,            \* history: the reports since the last success
    successRun          \* history: the reports since the last failure

breaker == <<state, failureCount, sinceFailure, successCount>>
history == <<failRun, successRun>>
vars == <<breaker, call, healthy, history>>

Capped(n, cap) == IF n > cap THEN cap ELSE n

Expired == recoveryTimeoutMs + 1

\* lastFailureTime is 0, the beginning of time
Init ==
    /\ state = "CLOSED"
    /\ failureCount = 0
    /\ sinceFailure = Expired
    /\ successCount = 0
    /\ call = [c \in Callers |-> "idle"]
    /\ healthy = FALSE
    /\ failRun = 0
    /\ successRun = 0

----------------------------------------------------------------------------
(* Variants of the definitions below, each with one plausible mistake.     *)

\* > for >=: one failure too many is tolerated.
TripsLater(n) == state = "HALF_OPEN" \/ n > failureThreshold

\* The probes of an earlier recovery count.
ProbesKept == state' = "HALF_OPEN" /\ UNCHANGED successCount

\* A successful probe is forgotten.
ProbeForgotten ==
    UNCHANGED <<state, failureCount, successCount>>

\* Any success counts as a probe.
ClosesOnSuccess ==
    /\ state' = "CLOSED"
    /\ failureCount' = 0
    /\ UNCHANGED successCount

----------------------------------------------------------------------------
\* canPass, OPEN and the timeout is over: probe the service
HalfOpen == state' = "HALF_OPEN" /\ successCount' = 0

\* canPass returns true and the call is sent.  A call that is not let through
\* changes nothing.
canPass(c) ==
    /\ call[c] = "idle"
    /\ \/ /\ state = "OPEN"
          /\ sinceFailure > recoveryTimeoutMs
          /\ HalfOpen
       \/ /\ state # "OPEN"
          /\ UNCHANGED <<state, successCount>>
    /\ call' = [call EXCEPT ![c] = IF healthy THEN "good" ELSE "sent"]
    /\ UNCHANGED <<failureCount, sinceFailure, healthy, history>>

\* recordSuccess in HALF_OPEN
ProbeSucceeded ==
    /\ successCount' = successCount + 1
    /\ IF successCount + 1 >= halfOpenSuccessThreshold
       THEN state' = "CLOSED" /\ failureCount' = 0
       ELSE UNCHANGED <<state, failureCount>>

\* recordSuccess in CLOSED and in OPEN
ForgetFailures ==
    /\ failureCount' = 0
    /\ UNCHANGED <<state, successCount>>

recordSuccess(c) ==
    /\ call[c] # "idle"
    /\ call' = [call EXCEPT ![c] = "idle"]
    /\ IF state = "HALF_OPEN" THEN ProbeSucceeded ELSE ForgetFailures
    /\ successRun' = Capped(successRun + 1, halfOpenSuccessThreshold)
    /\ failRun' = 0
    /\ UNCHANGED <<sinceFailure, healthy>>

Trips(n) == state = "HALF_OPEN" \/ n >= failureThreshold

recordFailure(c) ==
    /\ call[c] = "sent"
    /\ call' = [call EXCEPT ![c] = "idle"]
    /\ failureCount' = Capped(failureCount + 1, failureThreshold)
    /\ sinceFailure' = 0
    /\ state' = IF Trips(failureCount + 1) THEN "OPEN" ELSE state
    /\ failRun' = Capped(failRun + 1, failureThreshold)
    /\ successRun' = 0
    /\ UNCHANGED <<successCount, healthy>>

\* external: time passes
Tick ==
    /\ sinceFailure < Expired
    /\ sinceFailure' = sinceFailure + 1
    /\ UNCHANGED <<state, failureCount, successCount, call, healthy, history>>

\* external: from now on the service answers every call that reaches it
Recover ==
    /\ ~healthy
    /\ healthy' = TRUE
    /\ UNCHANGED <<breaker, call, history>>

Report(c) == recordSuccess(c) \/ recordFailure(c)

Next ==
    \/ \E c \in Callers : canPass(c) \/ Report(c)
    \/ Tick
    \/ Recover

Spec == Init /\ [][Next]_vars

\* Time passes, callers come again, and every call ends.
Fairness ==
    /\ WF_vars(Tick)
    /\ \A c \in Callers : WF_vars(canPass(c)) /\ WF_vars(Report(c))

FairSpec == Spec /\ Fairness

----------------------------------------------------------------------------
\* Where everything can be
TypeOK ==
    /\ state \in {"CLOSED", "OPEN", "HALF_OPEN"}
    /\ failureCount \in 0 .. failureThreshold
    /\ sinceFailure \in 0 .. Expired
    /\ successCount \in 0 .. halfOpenSuccessThreshold
    /\ call \in [Callers -> {"idle", "sent", "good"}]
    /\ healthy \in BOOLEAN
    /\ failRun \in 0 .. failureThreshold
    /\ successRun \in 0 .. halfOpenSuccessThreshold

\* After failureThreshold reports of failure in a row, whatever calls they are
\* of and whatever the circuit went through before, the circuit is not CLOSED:
\* recordSuccess and the recovery reset failureCount only where the run of
\* failures ends too.
FailuresTrip == failRun = failureThreshold => state # "CLOSED"

\* A circuit that tripped closes only after halfOpenSuccessThreshold reports
\* of success in a row.  Late reports of calls sent before it tripped, and
\* probes of an earlier recovery, do not close it sooner.
ClosesOnProbes ==
    [][state # "CLOSED" /\ state' = "CLOSED" => successRun' = halfOpenSuccessThreshold]_vars

\* The strengthening that both rest on: failureCount never lags behind the
\* failures in a row, and the probes of a HALF_OPEN circuit were in a row.
BreakerInv ==
    /\ TypeOK
    /\ failRun <= failureCount
    /\ state = "CLOSED" => failureCount < failureThreshold
    /\ state = "HALF_OPEN" =>
        /\ successCount < halfOpenSuccessThreshold
        /\ successCount <= successRun

\* Once the service answers again the circuit closes and stays closed, though
\* calls sent before may still fail late and trip it again.
Heals == healthy ~> [](state = "CLOSED")
=============================================================================
