----------------------------- MODULE LeaseLock -----------------------------
(***************************************************************************)
(* DistributedLeaseLockManager (packages/common/src/concurrency).          *)
(*                                                                         *)
(* The manager keeps one lease per resource key and a global sequence of   *)
(* fencing tokens.  Its two methods are synchronous, so each is one step.  *)
(* The model adds what the manager works against: the wall clock that      *)
(* `new Date()` reads, and the copy of the lease that every owner keeps    *)
(* from the last acquireLease that succeeded.  An owner believes that it   *)
(* holds a key while that copy has not expired.                            *)
(***************************************************************************)
EXTENDS Integers

CONSTANTS
    Keys,               \* resource keys
    Owners,             \* owner ids
    Durations,          \* the values of durationMs callers pass, in ticks
    MaxTime,            \* bound: the clock stays in 0 .. MaxTime
    MaxToken            \* bound: no grant once the sequence is at MaxToken

ASSUME LeaseAssumption ==
    /\ Durations \subseteq Int
    /\ MaxTime \in Nat
    /\ MaxToken \in Nat
    /\ MaxToken >= 1000

VARIABLES
    now,        \* what new Date() returns
    locks,      \* the manager's Map: key -> lease, or NoLease
    seq,        \* globalFencingSequence
    held,       \* held[o][k]: the lease acquireLease last returned to o
    setBack     \* history: the clock was set back (NTP, an operator)

vars == <<now, locks, seq, held, setBack>>

\* globalFencingSequence = 1000
FirstToken == 1000

\* ILeaseLock without grantedAt, which nothing reads
Lease == [owner : Owners, token : FirstToken + 1 .. MaxToken, expiresAt : Int]

\* what Map.get returns for a key without an entry
NoLease == [token |-> 0]

Init ==
    /\ now = 0
    /\ locks = [k \in Keys |-> NoLease]
    /\ seq = FirstToken
    /\ held = [o \in Owners |-> [k \in Keys |-> NoLease]]
    /\ setBack = FALSE

----------------------------------------------------------------------------
(* Variants of the definitions below, each with one plausible mistake.     *)

\* The owner comparison inverted: any other owner may take an unexpired lease.
BlockedIgnoringOwner(k, o) ==
    /\ locks[k] # NoLease
    /\ locks[k].expiresAt > now
    /\ locks[k].owner = o

\* The token counts the grants of this entry instead of all grants.
TokenPerEntry(k) ==
    IF locks[k] = NoLease THEN FirstToken + 1 ELSE locks[k].token + 1

\* The sequence read before it is incremented (seq++ for ++seq).
TokenBeforeIncrement(k) == seq

\* releaseLease without the owner test.
ReleasableByAnyone(k, o) == locks[k] # NoLease

----------------------------------------------------------------------------
\* acquireLease refuses: somebody else's lease is on the key and unexpired.
Blocked(k, o) ==
    /\ locks[k] # NoLease
    /\ locks[k].expiresAt > now
    /\ locks[k].owner # o

\* ++globalFencingSequence, as it appears on the lease
NextToken(k) == seq + 1

\* acquireLease(k, o, d), granted.  A refused call changes nothing.
acquireLease(k, o, d) ==
    LET lease == [owner |-> o, token |-> NextToken(k), expiresAt |-> now + d]
    IN  /\ seq < MaxToken
        /\ ~Blocked(k, o)
        /\ seq' = seq + 1
        /\ locks' = [locks EXCEPT ![k] = lease]
        /\ held' = [held EXCEPT ![o][k] = lease]
        /\ UNCHANGED <<now, setBack>>

\* releaseLease finds a lease on the key whose ownerId is the caller's
Releasable(k, o) ==
    /\ locks[k] # NoLease
    /\ locks[k].owner = o

\* releaseLease(k, o).  The caller gives its lease up whether or not the
\* manager still had it; only the entry of the caller is deleted.
releaseLease(k, o) ==
    /\ held[o][k] # NoLease
    /\ locks' = IF Releasable(k, o) THEN [locks EXCEPT ![k] = NoLease]
                                    ELSE locks
    /\ held' = [held EXCEPT ![o][k] = NoLease]
    /\ UNCHANGED <<now, seq, setBack>>

\* The wall clock moves on, or is set back.
Tick ==
    /\ now < MaxTime
    /\ now' = now + 1
    /\ UNCHANGED <<locks, seq, held, setBack>>

StepBack ==
    /\ now > 0
    /\ now' = now - 1
    /\ setBack' = TRUE
    /\ UNCHANGED <<locks, seq, held>>

Next ==
    \/ \E k \in Keys, o \in Owners, d \in Durations : acquireLease(k, o, d)
    \/ \E k \in Keys, o \in Owners : releaseLease(k, o)
    \/ Tick
    \/ StepBack

Spec == Init /\ [][Next]_vars

----------------------------------------------------------------------------
\* Every lease carries a token of the sequence: above the initial value, so
\* that a protected resource that starts from it accepts the first grant.
TypeOK ==
    /\ now \in 0 .. MaxTime
    /\ locks \in [Keys -> Lease \cup {NoLease}]
    /\ seq \in FirstToken .. MaxToken
    /\ held \in [Owners -> [Keys -> Lease \cup {NoLease}]]
    /\ setBack \in BOOLEAN

\* o holds a copy of a lease on k that has not expired by the wall clock.
Believes(o, k) ==
    /\ held[o][k] # NoLease
    /\ held[o][k].expiresAt > now

\* "Guarantees mutually exclusive execution": no two owners at a time hold
\* unexpired leases on the same key, whatever the order of acquireLease and
\* releaseLease calls, including a release that arrives after the caller's
\* lease expired and went to somebody else.  Leases end by the wall clock, so
\* this is promised only as long as nobody sets it back.
MutualExclusion ==
    ~setBack => \A k \in Keys, o1, o2 \in Owners :
        Believes(o1, k) /\ Believes(o2, k) => o1 = o2

\* What makes fencing work: the lease in the manager carries a token above
\* that of every lease on the key any other owner still has a copy of, even
\* across releases of the key and when the clock is set back.
FencingOrder ==
    \A k \in Keys, o \in Owners :
        /\ locks[k] # NoLease
        /\ held[o][k] # NoLease
        /\ locks[k].owner # o
        => held[o][k].token < locks[k].token

\* The inductive invariants behind the two: the manager's entry is the copy of
\* the owner it names,
CopiesAgree ==
    /\ \A o \in Owners, k \in Keys :
        held[o][k] # NoLease => held[o][k].owner = o /\ held[o][k].token <= seq
    /\ \A k \in Keys :
        locks[k] # NoLease => held[locks[k].owner][k] = locks[k]

\* and unless the clock was set back a copy that has not expired is still the
\* manager's entry.
UnexpiredIsCurrent ==
    ~setBack => \A o \in Owners, k \in Keys : Believes(o, k) => locks[k] = held[o][k]

\* acquireLease and releaseLease never invalidate an unexpired lease of
\* another owner: a lease somebody believes in stays in the manager until it
\* expires or its own holder renews or releases it, with a clock that was not
\* set back.
LeaseNotStolen ==
    [][~setBack' => \A k \in Keys, o \in Owners :
        /\ Believes(o, k)
        /\ held'[o][k] = held[o][k]
        => locks'[k] = locks[k]]_vars
=============================================================================
