-------------------------- MODULE AdaptiveBreaker --------------------------
(***************************************************************************)
(* AdaptiveCircuitBreakerEngine                                            *)
(* (api-gateway/src/circuit/AdaptiveCircuitBreakerEngine.ts) for one       *)
(* service, with the calls in flight: a call that allowRequest let through *)
(* reports with recordResult at any later time.                            *)
(*                                                                         *)
(* nextAttemptAllowedTimestamp is kept relative to the clock (wait), zero  *)
(* once it has come.  lastStateChangeTimestamp is written and never read.  *)
(* Successes and failures are counted from the last time the circuit       *)
(* closed; nothing slides out of the count.                                *)
(***************************************************************************)
EXTENDS Naturals

CONSTANTS
    MaxInFlight,                \* calls at a time
    MaxCount,                   \* bound: reports counted by one circuit
    failureThresholdPct,
    minimumRequestsInWindow,
    closingProbes,              \* the literal 5 in recordResult
    openDurationMs              \* in ticks of the model's clock

ASSUME AdaptiveAssumption ==
    /\ MaxInFlight \in Nat
    /\ MaxCount \in Nat
    /\ failureThresholdPct \in 0 .. 100
    /\ minimumRequestsInWindow \in Nat \ {0}
    /\ closingProbes \in Nat \ {0}
    /\ openDurationMs \in Nat
    \* successes too few to close the circuit do not hide the failures
    /\ (closingProbes - 1) * 100 <= (100 - failureThresholdPct) * minimumRequestsInWindow

VARIABLES
    circuit,
    inFlight,           \* calls let through that have not reported
    probesFailed,       \* history: failures reported since HALF_OPEN
    failsInRow          \* history: failures reported since the last success

adaptiveVars == <<circuit, inFlight, probesFailed, failsInRow>>

AdaptiveInit ==
    /\ circuit = [state |-> "CLOSED", failureCount |-> 0, successCount |-> 0, wait |-> 0]
    /\ inFlight = 0
    /\ probesFailed = 0
    /\ failsInRow = 0

----------------------------------------------------------------------------
(* Variants of the definitions below, each with one plausible mistake.     *)

\* The failures that opened the circuit are forgotten for the probes.
ProbeAfresh(c) == [c EXCEPT !.state = "HALF_OPEN", !.successCount = 0, !.failureCount = 0]

\* > for >=: one report more is waited for.
ShareReachedLater(failures, successes) ==
    /\ failures + successes > minimumRequestsInWindow
    /\ failures * 100 >= failureThresholdPct * (failures + successes)

----------------------------------------------------------------------------
\* OPEN and the time has come: probe the service
Probe(c) == [c EXCEPT !.state = "HALF_OPEN", !.successCount = 0]

\* allowRequest returns true and the call is sent.  In OPEN before the time it
\* returns false and changes nothing.
allowRequest ==
    /\ inFlight < MaxInFlight
    /\ circuit.failureCount + circuit.successCount + inFlight < MaxCount
    /\ \/ /\ circuit.state = "OPEN"
          /\ circuit.wait = 0
          /\ circuit' = Probe(circuit)
          /\ probesFailed' = 0
       \/ /\ circuit.state # "OPEN"
          /\ UNCHANGED <<circuit, probesFailed>>
    /\ inFlight' = inFlight + 1
    /\ UNCHANGED failsInRow

Closes(c) == c.state = "HALF_OPEN" /\ c.successCount + 1 >= closingProbes

\* failurePct, of enough reports, is at the threshold
ShareReached(failures, successes) ==
    /\ failures + successes >= minimumRequestsInWindow
    /\ failures * 100 >= failureThresholdPct * (failures + successes)

\* recordResult(serviceName, true)
ReportSuccess ==
    /\ inFlight > 0
    /\ inFlight' = inFlight - 1
    /\ circuit' = IF Closes(circuit)
                  THEN [circuit EXCEPT !.state = "CLOSED", !.failureCount = 0, !.successCount = 0]
                  ELSE [circuit EXCEPT !.successCount = @ + 1]
    /\ failsInRow' = 0
    /\ UNCHANGED probesFailed

\* recordResult(serviceName, false)
ReportFailure ==
    /\ inFlight > 0
    /\ inFlight' = inFlight - 1
    /\ circuit' = IF ShareReached(circuit.failureCount + 1, circuit.successCount)
                  THEN [circuit EXCEPT !.failureCount = @ + 1, !.state = "OPEN",
                                       !.wait = openDurationMs]
                  ELSE [circuit EXCEPT !.failureCount = @ + 1]
    /\ probesFailed' = IF circuit.state = "HALF_OPEN" THEN probesFailed + 1 ELSE probesFailed
    /\ failsInRow' = failsInRow + 1

\* external: time passes
AdaptiveTick ==
    /\ circuit' = [circuit EXCEPT !.wait = IF @ > 0 THEN @ - 1 ELSE 0]
    /\ UNCHANGED <<inFlight, probesFailed, failsInRow>>

AdaptiveNext == allowRequest \/ ReportSuccess \/ ReportFailure \/ AdaptiveTick

AdaptiveSpec == AdaptiveInit /\ [][AdaptiveNext]_adaptiveVars

----------------------------------------------------------------------------
\* The failures an open circuit has counted at least
OpensAt == (failureThresholdPct * minimumRequestsInWindow + 99) \div 100

\* A failed probe does not re-open the circuit by itself: it does once
\* minimumRequestsInWindow reports are counted again, and the failures that
\* opened the circuit still count.  So a HALF_OPEN circuit tolerates fewer
\* failed probes than were missing then, however late reports and successes
\* come in between.
ProbesBounded ==
    circuit.state = "HALF_OPEN" /\ probesFailed > 0 =>
        probesFailed + OpensAt < minimumRequestsInWindow

\* Failures in a row trip the circuit once there are minimumRequestsInWindow of
\* them and they outweigh every success since the circuit last closed: a long
\* healthy past delays the trip, and nothing else does.
RunTrips ==
    /\ failsInRow >= minimumRequestsInWindow
    /\ failsInRow * 100 >= failureThresholdPct * (failsInRow + circuit.successCount)
    => circuit.state # "CLOSED"
=============================================================================
