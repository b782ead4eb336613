----------------------------- MODULE Allocation -----------------------------
(***************************************************************************)
(* InventoryAllocationSagaCoordinator                                      *)
(* (order-service/src/allocation/InventoryAllocationSagaCoordinator.ts):   *)
(* soft reservations keyed by saga, committed or rolled back.  The three   *)
(* methods are synchronous; their callers retry and overlap, so they come  *)
(* in any order.  expiresAt is kept relative to the clock (left), below    *)
(* zero once it is past.  What is allocated and the random token decide    *)
(* nothing.                                                                *)
(***************************************************************************)
EXTENDS Integers

CONSTANTS
    Sagas,
    Timeouts            \* the values of timeoutDurationMs, in ticks

ASSUME AllocationAssumption == Timeouts \subseteq Nat

VARIABLES
    reservations,       \* the map, NoReservation where there is no entry
    term                \* history, per saga: ticks until the reservation its
                        \* callers were last promised is over, and what they
                        \* were told about it since

allocationVars == <<reservations, term>>

NoReservation == [status |-> "NONE", left |-> -1]

AllocationInit ==
    /\ reservations = [s \in Sagas |-> NoReservation]
    /\ term = [s \in Sagas |-> [left |-> -1, told |-> {}]]

Tell(s, what) == term' = [term EXCEPT ![s].told = @ \cup {what}]

----------------------------------------------------------------------------
(* Variants of the definitions below, each with one plausible mistake.     *)

\* Everything but a commit can be committed.
CommittableUnlessCommitted(r) == r.status # "COMMITTED" /\ r.left >= 0

\* A retry finds the reservation and keeps its deadline.
ReservedAgain(s, timeout) ==
    [status |-> "RESERVED",
     left |-> IF reservations[s].left >= 0 THEN reservations[s].left ELSE timeout]

----------------------------------------------------------------------------
\* A second call with the same sagaId replaces whatever there was.
Reserved(s, timeout) == [status |-> "RESERVED", left |-> timeout]

initiateReservation(s, timeout) ==
    /\ reservations' = [reservations EXCEPT ![s] = Reserved(s, timeout)]
    /\ term' = [term EXCEPT ![s] = [left |-> timeout, told |-> {}]]

Committable(r) == r.status = "RESERVED" /\ r.left >= 0

commitReservation(s) ==
    \/ /\ Committable(reservations[s])
       /\ reservations' = [reservations EXCEPT ![s].status = "COMMITTED"]
       /\ Tell(s, "committed")
    \/ /\ ~Committable(reservations[s])
       /\ Tell(s, "refused")
       /\ UNCHANGED reservations

\* Whatever its status; false is returned only when there is no entry.
rollbackReservation(s) ==
    /\ reservations[s] # NoReservation
    /\ reservations' = [reservations EXCEPT ![s].status = "ROLLED_BACK"]
    /\ Tell(s, "rolledBack")

\* external: time passes
AllocationTick ==
    /\ reservations' = [s \in Sagas |->
            [reservations[s] EXCEPT !.left = IF @ < 0 THEN @ ELSE @ - 1]]
    /\ term' = [s \in Sagas |-> [term[s] EXCEPT !.left = IF @ < 0 THEN @ ELSE @ - 1]]

AllocationNext ==
    \/ \E s \in Sagas :
        \/ \E timeout \in Timeouts : initiateReservation(s, timeout)
        \/ commitReservation(s)
        \/ rollbackReservation(s)
    \/ AllocationTick

AllocationSpec == AllocationInit /\ [][AllocationNext]_allocationVars

----------------------------------------------------------------------------
\* Whatever order retries, commits and rollbacks come in, a reservation its
\* callers were promised is given to at most one of them: a commit is granted
\* only while the promise stands and nobody was told of a commit or a rollback
\* since.  (A commit that was granted can still be rolled back, and is
\* forgotten when the reservation is made again.)
CommitOnPromise ==
    [][\A s \in Sagas :
        reservations[s].status # "COMMITTED" /\ reservations'[s].status = "COMMITTED" =>
            term[s].left >= 0 /\ term[s].told \cap {"committed", "rolledBack"} = {}]_allocationVars

\* Nobody is refused a promise that stands: a first commit in time is granted
\* unless a rollback came first, however often the reservation was retried.
RefusedForReason ==
    \A s \in Sagas :
        "refused" \in term[s].told /\ term[s].left >= 0 =>
            term[s].told \cap {"committed", "rolledBack"} # {}
=============================================================================
