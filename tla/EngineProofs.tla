---------------------------- MODULE EngineProofs ----------------------------
(***************************************************************************)
(* Theorems about the engines kept in memory: lease locks, the allocation  *)
(* coordinator, the tag stream, the product catalog, bay slotting, dock    *)
(* appointments, spot auctions, deferred revenue schedules, the ring       *)
(* buffer, the window of samples, lots, bin packing and 2-opt; and about   *)
(* the engines side by side, with the indexes of IndexProofs.              *)
(***************************************************************************)
EXTENDS MCEngines, IndexProofs, Sums, SequenceTheorems, TLAPS

----------------------------------------------------------------------------
(* Lease locks: any sets of keys and owners, any durations, any bounds.    *)

\* A lease is never mistaken for a missing one: its token is not 0.
LEMMA LeaseIsNotNoLease == \A l \in Lease : l # NoLease
  BY LeaseAssumption DEF Lease, NoLease, FirstToken

\* A granted lease is a Lease.
LEMMA GrantIsLease ==
  ASSUME TypeOK, seq < MaxToken, NEW k \in Keys, NEW o \in Owners, NEW d \in Durations
  PROVE  [owner |-> o, token |-> NextToken(k), expiresAt |-> now + d] \in Lease
  BY LeaseAssumption DEF TypeOK, Lease, NextToken, FirstToken

\* Every reachable state of acquireLease, releaseLease and the clock is
\* well typed.
THEOREM TypeCorrect == Spec => []TypeOK
<1>1. Init => TypeOK
  <2>1. Init => setBack \in BOOLEAN
    BY Zenon DEF Init
  <2> QED
    BY <2>1, LeaseAssumption DEF Init, TypeOK, FirstToken
<1>2. TypeOK /\ [Next]_vars => TypeOK'
  <2> SUFFICES ASSUME TypeOK, [Next]_vars PROVE TypeOK'
    OBVIOUS
  <2>1. ASSUME NEW k \in Keys, NEW o \in Owners, NEW d \in Durations,
               acquireLease(k, o, d)
        PROVE  TypeOK'
    BY <2>1, GrantIsLease, LeaseAssumption DEF TypeOK, acquireLease, FirstToken
  <2>2. ASSUME NEW k \in Keys, NEW o \in Owners, releaseLease(k, o)
        PROVE  TypeOK'
    BY <2>2 DEF TypeOK, releaseLease
  <2>3. CASE Tick
    BY <2>3, LeaseAssumption DEF TypeOK, Tick
  <2>4. CASE StepBack
    <3>1. setBack' \in BOOLEAN
      BY <2>4, Zenon DEF StepBack
    <3> QED
      BY <2>4, <3>1, LeaseAssumption DEF TypeOK, StepBack
  <2>5. CASE UNCHANGED vars
    BY <2>5 DEF TypeOK, vars
  <2> QED
    BY <2>1, <2>2, <2>3, <2>4, <2>5 DEF Next
<1> QED
  BY <1>1, <1>2, PTL DEF Spec

\* The manager's entry and the copies of the owners agree.
THEOREM CopiesCorrect == Spec => [](CopiesAgree /\ FencingOrder)
<1>1. Init => CopiesAgree /\ FencingOrder
  BY DEF Init, CopiesAgree, FencingOrder
<1>2. TypeOK /\ CopiesAgree /\ FencingOrder /\ [Next]_vars
      => (CopiesAgree /\ FencingOrder)'
  <2> SUFFICES ASSUME TypeOK, CopiesAgree, FencingOrder, [Next]_vars
               PROVE  CopiesAgree' /\ FencingOrder'
    OBVIOUS
  <2>1. ASSUME NEW k \in Keys, NEW o \in Owners, NEW d \in Durations,
               acquireLease(k, o, d)
        PROVE  CopiesAgree' /\ FencingOrder'
    <3> DEFINE lease == [owner |-> o, token |-> seq + 1, expiresAt |-> now + d]
    <3>1. /\ locks' = [locks EXCEPT ![k] = lease]
          /\ held' = [held EXCEPT ![o][k] = lease]
          /\ seq' = seq + 1
          /\ lease.owner = o
          /\ lease.token = seq + 1
      BY <2>1 DEF acquireLease, NextToken
    <3>2. seq \in Int /\ \A p \in Owners, j \in Keys :
            held[p][j] # NoLease => held[p][j].token \in Int
      BY LeaseAssumption DEF TypeOK, Lease, FirstToken
    <3> HIDE DEF lease
    <3>3. CopiesAgree'
      BY <3>1, <3>2 DEF CopiesAgree, TypeOK
    <3>4. FencingOrder'
      BY <3>1, <3>2 DEF CopiesAgree, FencingOrder, TypeOK
    <3> QED
      BY <3>3, <3>4
  <2>2. ASSUME NEW k \in Keys, NEW o \in Owners, releaseLease(k, o)
        PROVE  CopiesAgree' /\ FencingOrder'
    <3>1. CopiesAgree'
      BY <2>2 DEF CopiesAgree, TypeOK, releaseLease, Releasable
    <3>2. FencingOrder'
      BY <2>2 DEF FencingOrder, TypeOK, releaseLease, Releasable
    <3> QED
      BY <3>1, <3>2
  <2>3. CASE UNCHANGED <<locks, seq, held>>
    BY <2>3 DEF CopiesAgree, FencingOrder
  <2> QED
    BY <2>1, <2>2, <2>3 DEF Next, Tick, StepBack, vars
<1> QED
  BY <1>1, <1>2, TypeCorrect, PTL DEF Spec

\* The newest lease on a key has the highest fencing token of all copies of
\* leases on that key, for every sequence of acquireLease and releaseLease
\* calls and whatever the wall clock does.
THEOREM FencingCorrect == Spec => []FencingOrder
  BY CopiesCorrect, PTL

\* With a clock that only moves forward, a copy that has not expired is the
\* manager's own entry.
THEOREM UnexpiredCorrect == Spec => []UnexpiredIsCurrent
<1>1. Init => UnexpiredIsCurrent
  BY DEF Init, UnexpiredIsCurrent, Believes
<1>2. TypeOK /\ CopiesAgree /\ UnexpiredIsCurrent /\ [Next]_vars
      => UnexpiredIsCurrent'
  <2> SUFFICES ASSUME TypeOK, CopiesAgree, UnexpiredIsCurrent, [Next]_vars, ~setBack'
               PROVE  UnexpiredIsCurrent'
    BY DEF UnexpiredIsCurrent
  <2>0. ~setBack /\ ~StepBack
    BY DEF Next, acquireLease, releaseLease, Tick, StepBack, vars
  <2>1. ASSUME NEW k \in Keys, NEW o \in Owners, NEW d \in Durations,
               acquireLease(k, o, d)
        PROVE  UnexpiredIsCurrent'
    <3> DEFINE lease == [owner |-> o, token |-> NextToken(k), expiresAt |-> now + d]
    <3>1. /\ locks' = [locks EXCEPT ![k] = lease]
          /\ held' = [held EXCEPT ![o][k] = lease]
          /\ now' = now
          /\ ~Blocked(k, o)
      BY <2>1 DEF acquireLease
    <3> HIDE DEF lease
    <3>2. \A p \in Owners : p # o => ~Believes(p, k)
      BY <2>0, <3>1 DEF Blocked, UnexpiredIsCurrent, Believes, CopiesAgree
    <3> QED
      BY <2>0, <3>1, <3>2 DEF UnexpiredIsCurrent, Believes, TypeOK
  <2>2. ASSUME NEW k \in Keys, NEW o \in Owners, releaseLease(k, o)
        PROVE  UnexpiredIsCurrent'
    <3>1. \A p \in Owners : p # o /\ Believes(p, k) => ~Releasable(k, o)
      BY <2>0 DEF Releasable, UnexpiredIsCurrent, Believes, CopiesAgree
    <3> QED
      BY <2>0, <2>2, <3>1 DEF releaseLease, UnexpiredIsCurrent, Believes, TypeOK
  <2>3. CASE Tick
    <3>1. \A o \in Owners, k \in Keys : Believes(o, k)' => Believes(o, k)
      BY <2>3, LeaseIsNotNoLease, LeaseAssumption
      DEF Tick, Believes, TypeOK, Lease
    <3> QED
      BY <2>0, <2>3, <3>1 DEF Tick, UnexpiredIsCurrent
  <2>4. CASE UNCHANGED vars
    BY <2>4 DEF UnexpiredIsCurrent, Believes, vars
  <2> QED
    BY <2>0, <2>1, <2>2, <2>3, <2>4 DEF Next
<1> QED
  BY <1>1, <1>2, TypeCorrect, CopiesCorrect, PTL DEF Spec

\* acquireLease never leaves two owners with unexpired leases on one key, as
\* long as the wall clock is never set back.
THEOREM MutualExclusionCorrect == Spec => []MutualExclusion
<1>1. CopiesAgree /\ UnexpiredIsCurrent => MutualExclusion
  BY DEF CopiesAgree, UnexpiredIsCurrent, MutualExclusion, Believes
<1> QED
  BY <1>1, CopiesCorrect, UnexpiredCorrect, PTL

\* No call of acquireLease or releaseLease invalidates another owner's lease
\* that has not expired.
THEOREM LeaseNotStolenCorrect == Spec => LeaseNotStolen
<1>1. ASSUME TypeOK, CopiesAgree, UnexpiredIsCurrent, Next, ~setBack',
             NEW k \in Keys, NEW o \in Owners, Believes(o, k), held'[o][k] = held[o][k]
      PROVE  locks'[k] = locks[k]
  <2>0. ~setBack /\ ~StepBack
    BY <1>1 DEF Next, acquireLease, releaseLease, Tick, StepBack
  <2>1. locks[k] = held[o][k] /\ locks[k] # NoLease /\ locks[k].owner = o
    BY <1>1, <2>0 DEF UnexpiredIsCurrent, Believes, CopiesAgree
  <2>2. ASSUME NEW j \in Keys, NEW p \in Owners, NEW d \in Durations, acquireLease(j, p, d)
        PROVE  locks'[k] = locks[k]
    <3>1. CASE j # k
      BY <1>1, <2>2, <3>1 DEF acquireLease, TypeOK
    <3>2. CASE j = k /\ p # o
      BY <1>1, <2>1, <2>2, <3>2 DEF acquireLease, Blocked, Believes
    <3>3. CASE j = k /\ p = o
      BY <1>1, <2>1, <2>2, <3>3 DEF acquireLease, TypeOK
    <3> QED
      BY <3>1, <3>2, <3>3
  <2>3. ASSUME NEW j \in Keys, NEW p \in Owners, releaseLease(j, p)
        PROVE  locks'[k] = locks[k]
    <3>1. CASE j # k \/ p # o
      BY <1>1, <2>1, <2>3, <3>1 DEF releaseLease, Releasable, TypeOK
    <3>2. CASE j = k /\ p = o
      BY <1>1, <2>3, <3>2 DEF releaseLease, Believes, TypeOK
    <3> QED
      BY <3>1, <3>2
  <2> QED
    BY <1>1, <2>0, <2>2, <2>3 DEF Next, Tick
<1>2. TypeOK /\ CopiesAgree /\ UnexpiredIsCurrent /\ [Next]_vars =>
        [~setBack' => \A k \in Keys, o \in Owners :
            /\ Believes(o, k)
            /\ held'[o][k] = held[o][k]
            => locks'[k] = locks[k]]_vars
  BY <1>1
<1> QED
  BY <1>2, TypeCorrect, CopiesCorrect, UnexpiredCorrect, PTL DEF Spec, LeaseNotStolen

----------------------------------------------------------------------------
(* The allocation coordinator                                              *)

Outcomes == {"committed", "rolledBack"}

\* What a reservation r and the term t its callers know of have in common.
Accords(r, t) ==
    /\ r.left = t.left
    /\ r.status = "RESERVED" => t.told \cap Outcomes = {}
    /\ r.status = "NONE" => r.left < 0
    /\ r.status \notin {"NONE", "RESERVED"} => t.told \cap Outcomes # {}
    /\ "refused" \in t.told /\ t.left >= 0 => t.told \cap Outcomes # {}

Reservation == [status : {"NONE", "RESERVED", "COMMITTED", "ROLLED_BACK"}, left : Int]
Term == [left : Int, told : SUBSET {"committed", "rolledBack", "refused"}]

AllocationInv ==
    /\ reservations \in [Sagas -> Reservation]
    /\ term \in [Sagas -> Term]
    /\ \A s \in Sagas : Accords(reservations[s], term[s])

\* The map starts empty, and nobody was told anything.
LEMMA AllocationInitially == AllocationInit => AllocationInv
<1> SUFFICES ASSUME AllocationInit PROVE AllocationInv
    OBVIOUS
<1>1. NoReservation \in Reservation /\ [left |-> -1, told |-> {}] \in Term
    BY DEF NoReservation, Reservation, Term
<1>2. Accords(NoReservation, [left |-> -1, told |-> {}])
    BY DEF Accords, NoReservation, Outcomes
<1> QED
    BY <1>1, <1>2 DEF AllocationInit, AllocationInv

\* A step that changes the entries of one saga keeps the invariant if the new
\* entries accord.
LEMMA OneSaga ==
    ASSUME AllocationInv, NEW s \in Sagas, NEW r \in Reservation, NEW t \in Term,
           Accords(r, t),
           reservations' = [reservations EXCEPT ![s] = r],
           term' = [term EXCEPT ![s] = t]
    PROVE  AllocationInv'
<1>1. reservations' \in [Sagas -> Reservation] /\ term' \in [Sagas -> Term]
    BY DEF AllocationInv
<1>2. ASSUME NEW q \in Sagas PROVE Accords(reservations'[q], term'[q])
    <2>1. CASE q = s
        <3>1. reservations'[q] = r /\ term'[q] = t
            BY <2>1 DEF AllocationInv
        <3> QED BY <3>1
    <2>2. CASE q # s
        <3>1. reservations'[q] = reservations[q] /\ term'[q] = term[q]
            BY <2>2 DEF AllocationInv
        <3> QED BY <3>1 DEF AllocationInv
    <2> QED BY <2>1, <2>2
<1> QED
    BY <1>1, <1>2 DEF AllocationInv

\* Every call and the passing of time keep the invariant.
LEMMA AllocationStep == AllocationInv /\ [AllocationNext]_allocationVars => AllocationInv'
<1> SUFFICES ASSUME AllocationInv, [AllocationNext]_allocationVars PROVE AllocationInv'
    OBVIOUS
<1>1. ASSUME NEW s \in Sagas, NEW timeout \in Timeouts, initiateReservation(s, timeout)
      PROVE  AllocationInv'
    <2> DEFINE r == [status |-> "RESERVED", left |-> timeout]
    <2> DEFINE t == [left |-> timeout, told |-> {}]
    <2>1. timeout \in Int
        BY AllocationAssumption
    <2>2. r \in Reservation /\ t \in Term /\ Accords(r, t)
        BY <2>1 DEF Reservation, Term, Accords, Outcomes
    <2>3. reservations' = [reservations EXCEPT ![s] = r] /\ term' = [term EXCEPT ![s] = t]
        BY <1>1 DEF initiateReservation, Reserved
    <2> HIDE DEF r, t
    <2> QED BY <2>2, <2>3, OneSaga
<1>2. ASSUME NEW s \in Sagas, commitReservation(s) PROVE AllocationInv'
    <2>0. reservations[s] \in Reservation /\ term[s] \in Term /\ Accords(reservations[s], term[s])
        BY DEF AllocationInv
    <2>1. CASE Committable(reservations[s])
        <3> DEFINE r == [reservations[s] EXCEPT !.status = "COMMITTED"]
        <3> DEFINE t == [term[s] EXCEPT !.told = @ \cup {"committed"}]
        <3>1. r \in Reservation /\ t \in Term
            BY <2>0 DEF Reservation, Term
        <3>2. Accords(r, t)
            BY <2>0 DEF Accords, Reservation, Term, Outcomes
        <3>3. reservations' = [reservations EXCEPT ![s] = r] /\ term' = [term EXCEPT ![s] = t]
            BY <1>2, <2>1 DEF commitReservation, Tell
        <3> HIDE DEF r, t
        <3> QED BY <3>1, <3>2, <3>3, OneSaga
    <2>2. CASE ~Committable(reservations[s])
        <3> DEFINE r == reservations[s]
        <3> DEFINE t == [term[s] EXCEPT !.told = @ \cup {"refused"}]
        <3>1. r \in Reservation /\ t \in Term
            BY <2>0 DEF Reservation, Term
        <3>2. Accords(r, t)
            BY <2>0, <2>2 DEF Accords, Reservation, Term, Outcomes, Committable
        <3>3. reservations' = [reservations EXCEPT ![s] = r] /\ term' = [term EXCEPT ![s] = t]
            BY <1>2, <2>2 DEF commitReservation, Tell, AllocationInv
        <3> HIDE DEF r, t
        <3> QED BY <3>1, <3>2, <3>3, OneSaga
    <2> QED BY <2>1, <2>2
<1>3. ASSUME NEW s \in Sagas, rollbackReservation(s) PROVE AllocationInv'
    <2>0. reservations[s] \in Reservation /\ term[s] \in Term /\ Accords(reservations[s], term[s])
        BY DEF AllocationInv
    <2> DEFINE r == [reservations[s] EXCEPT !.status = "ROLLED_BACK"]
    <2> DEFINE t == [term[s] EXCEPT !.told = @ \cup {"rolledBack"}]
    <2>1. r \in Reservation /\ t \in Term
        BY <2>0 DEF Reservation, Term
    <2>2. Accords(r, t)
        BY <2>0 DEF Accords, Reservation, Term, Outcomes
    <2>3. reservations' = [reservations EXCEPT ![s] = r] /\ term' = [term EXCEPT ![s] = t]
        BY <1>3 DEF rollbackReservation, Tell
    <2> HIDE DEF r, t
    <2> QED BY <2>1, <2>2, <2>3, OneSaga
<1>4. CASE AllocationTick
    <2>1. ASSUME NEW s \in Sagas
          PROVE  /\ [reservations[s] EXCEPT !.left = IF @ < 0 THEN @ ELSE @ - 1] \in Reservation
                 /\ [term[s] EXCEPT !.left = IF @ < 0 THEN @ ELSE @ - 1] \in Term
                 /\ Accords([reservations[s] EXCEPT !.left = IF @ < 0 THEN @ ELSE @ - 1],
                            [term[s] EXCEPT !.left = IF @ < 0 THEN @ ELSE @ - 1])
        <3>1. reservations[s] \in Reservation /\ term[s] \in Term /\ Accords(reservations[s], term[s])
            BY DEF AllocationInv
        <3> QED BY <3>1 DEF Reservation, Term, Accords
    <2> QED BY <1>4, <2>1 DEF AllocationTick, AllocationInv
<1>5. CASE UNCHANGED allocationVars
    BY <1>5 DEF allocationVars, AllocationInv
<1> QED
    BY <1>1, <1>2, <1>3, <1>4, <1>5 DEF AllocationNext

\* A step that commits finds the promise standing and nobody told.
LEMMA CommitStep ==
    ASSUME AllocationInv, [AllocationNext]_allocationVars, NEW s \in Sagas,
           reservations[s].status # "COMMITTED", reservations'[s].status = "COMMITTED"
    PROVE  term[s].left >= 0 /\ term[s].told \cap {"committed", "rolledBack"} = {}
<1>0. reservations[s] \in Reservation /\ Accords(reservations[s], term[s])
    BY DEF AllocationInv
<1> SUFFICES Committable(reservations[s])
    BY <1>0 DEF Committable, Accords, Outcomes
<1>1. ASSUME NEW q \in Sagas, NEW timeout \in Timeouts, initiateReservation(q, timeout)
      PROVE  FALSE
    BY <1>1 DEF initiateReservation, Reserved, AllocationInv
<1>2. ASSUME NEW q \in Sagas, rollbackReservation(q) PROVE FALSE
    <2>1. reservations'[s].status \in {reservations[s].status, "ROLLED_BACK"}
        BY <1>2, <1>0 DEF rollbackReservation, AllocationInv, Reservation
    <2> QED BY <2>1
<1>3. CASE AllocationTick
    <2>1. reservations'[s].status = reservations[s].status
        BY <1>3, <1>0 DEF AllocationTick, Reservation
    <2> QED BY <2>1
<1>4. CASE UNCHANGED allocationVars
    BY <1>4 DEF allocationVars
<1>5. ASSUME NEW q \in Sagas, commitReservation(q) PROVE Committable(reservations[s])
    <2>1. CASE q = s
        BY <1>5, <2>1 DEF commitReservation
    <2>2. CASE q # s
        BY <1>5, <2>2 DEF commitReservation, AllocationInv
    <2> QED BY <2>1, <2>2
<1> QED
    BY <1>1, <1>2, <1>3, <1>4, <1>5 DEF AllocationNext

\* For any sagas and timeouts, a commit is granted only while the promise of the
\* reservation stands and nobody was told of a commit or a rollback since.
THEOREM CommitOnPromiseCorrect == AllocationSpec => CommitOnPromise
<1>1. AllocationInv /\ [AllocationNext]_allocationVars =>
        [\A s \in Sagas :
            reservations[s].status # "COMMITTED" /\ reservations'[s].status = "COMMITTED" =>
                term[s].left >= 0 /\ term[s].told \cap {"committed", "rolledBack"} = {}]_allocationVars
    BY CommitStep
<1> QED
    BY AllocationInitially, AllocationStep, <1>1, PTL DEF AllocationSpec, CommitOnPromise

\* For any sagas and timeouts, a commit in time is refused only after a commit
\* or a rollback.
THEOREM RefusedForReasonCorrect == AllocationSpec => []RefusedForReason
<1>1. AllocationInv => RefusedForReason
    BY DEF AllocationInv, Accords, RefusedForReason, Outcomes
<1> QED
    BY AllocationInitially, AllocationStep, <1>1, PTL DEF AllocationSpec

----------------------------------------------------------------------------
(* The tag stream                                                          *)

Reads == [time : Nat, zone : Zones]

Spaced == \A r, s \in accepted : r = s \/ r.time - s.time >= debounceWindow
                                      \/ s.time - r.time >= debounceWindow

\* The last read accepted, at time t, is the latest of those accepted, and no
\* read is a window later than it.
LatestAt(t) ==
    /\ lastSeen = {t}
    /\ \E s \in accepted : s.time = t /\ location = {s.zone}
    /\ \A r \in accepted : r.time <= t
    /\ \A r \in reads : r.time - t < debounceWindow

TagInv ==
    /\ reads \subseteq Reads
    /\ accepted \subseteq Reads
    /\ Spaced
    /\ \/ lastSeen = {} /\ reads = {} /\ accepted = {}
       \/ \E t \in Nat : LatestAt(t)

\* One read keeps the invariant, whenever it was made.
LEMMA ScanStep ==
    ASSUME TagInv, NEW time \in ReadTimes, NEW zone \in Zones, processTagScan(time, zone)
    PROVE  TagInv'
<1> DEFINE new == Read(time, zone)
<1>0. time \in Nat /\ debounceWindow \in Nat /\ debounceWindow > 0
    BY TagAssumption
<1>1. new \in Reads /\ new.time = time /\ new.zone = zone
    BY <1>0 DEF Read, Reads
<1>2. reads' = reads \cup {new}
    BY DEF processTagScan
<1> HIDE DEF new
<1>3. reads' \subseteq Reads
    BY <1>1, <1>2 DEF TagInv
<1>4. CASE InWindow(time)
    <2>1. lastSeen' = lastSeen /\ location' = location /\ accepted' = accepted
        BY <1>4 DEF processTagScan, SeenAfterRejected
    <2>2. PICK t \in Nat : LatestAt(t)
        BY <1>4 DEF TagInv, InWindow
    <2>3. time - t < debounceWindow
        BY <1>4, <2>2 DEF InWindow, LatestAt
    <2>4. LatestAt(t)'
        BY <1>1, <1>2, <2>1, <2>2, <2>3 DEF LatestAt
    <2> QED
        BY <1>3, <2>1, <2>4 DEF TagInv, Spaced
<1>5. CASE ~InWindow(time)
    <2>1. lastSeen' = {time} /\ location' = {zone} /\ accepted' = accepted \cup {new}
        BY <1>5 DEF processTagScan, new
    <2>2. accepted' \subseteq Reads
        BY <1>1, <2>1 DEF TagInv
    <2>3. ASSUME NEW r \in accepted PROVE r.time \in Nat /\ time - r.time >= debounceWindow
        <3>1. PICK t \in Nat : LatestAt(t)
            BY <2>3 DEF TagInv
        <3>2. time - t >= debounceWindow
            BY <1>0, <1>5, <3>1 DEF InWindow, LatestAt
        <3>3. r.time \in Nat /\ r.time <= t
            BY <2>3, <3>1 DEF LatestAt, TagInv, Reads
        <3> QED
            BY <1>0, <3>2, <3>3
    <2>4. ASSUME NEW r \in reads PROVE r.time - time < debounceWindow
        <3>1. PICK t \in Nat : LatestAt(t)
            BY <2>4 DEF TagInv
        <3>2. time - t >= debounceWindow
            BY <1>0, <1>5, <3>1 DEF InWindow, LatestAt
        <3>3. r.time \in Nat /\ r.time - t < debounceWindow
            BY <2>4, <3>1 DEF LatestAt, TagInv, Reads
        <3> QED
            BY <1>0, <3>2, <3>3
    <2>5. Spaced'
        BY <1>1, <2>1, <2>3 DEF Spaced, TagInv
    <2>6. LatestAt(time)'
        <3>1. \A r \in accepted' : r.time <= time
            BY <1>0, <1>1, <2>1, <2>3
        <3>2. \A r \in reads' : r.time - time < debounceWindow
            BY <1>0, <1>1, <1>2, <2>4
        <3>3. \E s \in accepted' : s.time = time /\ location' = {s.zone}
            BY <1>1, <2>1
        <3> QED
            BY <2>1, <3>1, <3>2, <3>3 DEF LatestAt
    <2> QED
        BY <1>0, <1>3, <2>2, <2>5, <2>6 DEF TagInv
<1> QED
    BY <1>4, <1>5

\* For any zones, times of reading and window, in whatever order reads arrive,
\* those accepted are a window apart and the zone of the tag is that of a read
\* less than a window older than the newest.
THEOREM LocationRecentCorrect == TagSpec => []LocationRecent
<1>1. TagInit => TagInv
    BY DEF TagInit, TagInv, Spaced
<1>2. TagInv /\ [TagNext]_tagVars => TagInv'
    <2> SUFFICES ASSUME TagInv, [TagNext]_tagVars PROVE TagInv'
        OBVIOUS
    <2>1. CASE TagNext
        BY <2>1, ScanStep DEF TagNext
    <2>2. CASE UNCHANGED tagVars
        BY <2>2 DEF tagVars, TagInv, Spaced, LatestAt
    <2> QED
        BY <2>1, <2>2
<1>3. TagInv => LocationRecent
    <2> SUFFICES ASSUME TagInv, NEW r \in reads
                 PROVE  \E s \in accepted : location = {s.zone} /\ r.time - s.time < debounceWindow
        BY DEF TagInv, Spaced, LocationRecent
    <2>1. PICK t \in Nat : LatestAt(t)
        BY DEF TagInv
    <2>2. PICK s \in accepted : s.time = t /\ location = {s.zone}
        BY <2>1 DEF LatestAt
    <2>3. r.time - s.time < debounceWindow
        BY <2>1, <2>2 DEF LatestAt
    <2> QED
        BY <2>2, <2>3
<1> QED
    BY <1>1, <1>2, <1>3, PTL DEF TagSpec

----------------------------------------------------------------------------
(* The product catalog                                                     *)

\* What a call of createProduct keeps from its look at the catalog
Look == [pc : {"found", "conflict", "created"}, product : ProductSpecs,
         existing : BOOLEAN, since : Nat]

\* What the call saw is still there: products are only appended.
SawRight(k) ==
    /\ k.since <= Len(products)
    /\ k.existing <=> \E i \in 1 .. k.since : products[i].product = k.product
    /\ k.pc = "conflict" => k.existing

\* The product at j is that of a call that found no such product.
StoredUnseen(j) ==
    LET k == creating[products[j].by]
    IN  /\ k \in Look
        /\ k.pc = "created" /\ ~k.existing
        /\ k.product = products[j].product
        /\ k.since < j

CatalogInv ==
    /\ products \in Seq([product : ProductSpecs, by : ProductCalls])
    /\ creating \in [ProductCalls -> Look \cup {IdleCall}]
    /\ \A c \in ProductCalls : creating[c] # IdleCall => SawRight(creating[c])
    /\ \A j \in 1 .. Len(products) : StoredUnseen(j)

\* An idle call kept nothing.
LEMMA LookIsNotIdle == \A k \in Look : k # IdleCall /\ k.pc # "idle"
    BY DEF Look, IdleCall

\* createProduct, up to the await.
LEMMA LookStep ==
    ASSUME CatalogInv, NEW c \in ProductCalls, NEW p \in ProductSpecs, createProduct(c, p)
    PROVE  CatalogInv'
<1> DEFINE k == [pc |-> "found", product |-> p, existing |-> findBySku(p),
                 since |-> Len(products)]
<1>1. k \in Look /\ k # IdleCall
    <2>1. Len(products) \in Nat
        BY LenProperties DEF CatalogInv
    <2>2. findBySku(p) \in BOOLEAN
        BY DEF findBySku
    <2>3. k \in Look
        BY <2>1, <2>2 DEF Look
    <2> QED
        BY <2>3, LookIsNotIdle
<1>2. /\ products' = products
      /\ creating' = [creating EXCEPT ![c] = k]
      /\ creating[c] = IdleCall
    BY DEF createProduct
<1>3. SawRight(k)
    <2>1. DOMAIN products = 1 .. Len(products) /\ Len(products) \in Nat
        BY LenProperties DEF CatalogInv
    <2> QED
        BY <2>1 DEF SawRight, findBySku
<1> HIDE DEF k
<1>4. \A j \in 1 .. Len(products) : products[j] \in [product : ProductSpecs, by : ProductCalls]
    BY ElementOfSeq DEF CatalogInv
<1>5. creating' \in [ProductCalls -> Look \cup {IdleCall}]
    BY <1>1, <1>2 DEF CatalogInv
<1>6. ASSUME NEW d \in ProductCalls, creating'[d] # IdleCall PROVE SawRight(creating[d])'
    <2>1. CASE d = c
        BY <2>1, <1>2, <1>3 DEF CatalogInv, SawRight
    <2>2. CASE d # c
        BY <2>2, <1>2, <1>6 DEF CatalogInv, SawRight
    <2> QED
        BY <2>1, <2>2
<1>7. ASSUME NEW j \in 1 .. Len(products) PROVE StoredUnseen(j)'
    <2>1. products[j].by \in ProductCalls /\ creating[products[j].by] \in Look
        BY <1>4 DEF CatalogInv, StoredUnseen
    <2>2. products[j].by # c
        BY <2>1, <1>2, LookIsNotIdle
    <2>3. creating'[products[j].by] = creating[products[j].by]
        BY <2>1, <2>2, <1>2 DEF CatalogInv
    <2> QED
        BY <2>3, <1>2 DEF CatalogInv, StoredUnseen
<1> QED
    BY <1>2, <1>5, <1>6, <1>7 DEF CatalogInv

\* createProduct after the await: a conflict or a product more.
LEMMA StoreStep ==
    ASSUME CatalogInv, NEW c \in ProductCalls, CreateProduct(c)
    PROVE  CatalogInv'
<1> DEFINE k == creating[c]
           n == Len(products)
<1>1. k \in Look /\ k # IdleCall /\ k.pc = "found" /\ SawRight(k)
    <2>1. k \in Look \cup {IdleCall} /\ k.pc = "found"
        BY DEF CatalogInv, CreateProduct
    <2> QED
        BY <2>1, LookIsNotIdle DEF CatalogInv, IdleCall
<1>2. n \in Nat /\ DOMAIN products = 1 .. n
    BY LenProperties DEF CatalogInv
<1>3. \A j \in 1 .. n : products[j] \in [product : ProductSpecs, by : ProductCalls]
    BY ElementOfSeq DEF CatalogInv
<1>4. \A j \in 1 .. n : products[j].by # c
    BY <1>1, <1>3 DEF CatalogInv, StoredUnseen
<1>5. CASE k.existing
    <2>1. products' = products /\ creating' = [creating EXCEPT ![c].pc = "conflict"]
        BY <1>5 DEF CreateProduct
    <2>2. creating'[c] = [k EXCEPT !.pc = "conflict"]
        BY <2>1 DEF CatalogInv
    <2>3. creating'[c] \in Look /\ creating'[c] # IdleCall
        <3>1. creating'[c] \in Look
            BY <2>2, <1>1 DEF Look
        <3> QED
            BY <3>1, LookIsNotIdle
    <2>4. \A d \in ProductCalls : d # c => creating'[d] = creating[d]
        BY <2>1 DEF CatalogInv
    <2>5. SawRight(creating[c])'
        BY <2>1, <2>2, <1>1, <1>5 DEF SawRight, Look
    <2>6. creating' \in [ProductCalls -> Look \cup {IdleCall}]
        BY <2>1, <2>3, <2>4 DEF CatalogInv
    <2>7. \A d \in ProductCalls : creating'[d] # IdleCall => SawRight(creating[d])'
        BY <2>1, <2>4, <2>5 DEF CatalogInv, SawRight
    <2>8. \A j \in 1 .. n : StoredUnseen(j)'
        BY <2>1, <2>4, <1>3, <1>4 DEF CatalogInv, StoredUnseen
    <2> QED
        BY <2>1, <2>6, <2>7, <2>8 DEF CatalogInv
<1>6. CASE ~k.existing
    <2> DEFINE e == [product |-> k.product, by |-> c]
    <2>1. products' = Append(products, e) /\ creating' = [creating EXCEPT ![c].pc = "created"]
        BY <1>6 DEF CreateProduct
    <2>2. creating'[c] = [k EXCEPT !.pc = "created"]
        BY <2>1 DEF CatalogInv
    <2>3. creating'[c] \in Look /\ creating'[c] # IdleCall
        <3>1. creating'[c] \in Look
            BY <2>2, <1>1 DEF Look
        <3> QED
            BY <3>1, LookIsNotIdle
    <2>4. \A d \in ProductCalls : d # c => creating'[d] = creating[d]
        BY <2>1 DEF CatalogInv
    <2>5. e \in [product : ProductSpecs, by : ProductCalls]
        BY <1>1 DEF Look
    <2> HIDE DEF e
    <2>6. /\ products' \in Seq([product : ProductSpecs, by : ProductCalls])
          /\ Len(products') = n + 1
          /\ products'[n + 1] = e
          /\ \A i \in 1 .. n : products'[i] = products[i]
        BY <2>1, <2>5, AppendProperties DEF CatalogInv
    <2>7. creating' \in [ProductCalls -> Look \cup {IdleCall}]
        BY <2>1, <2>3, <2>4 DEF CatalogInv
    <2>8. ASSUME NEW d \in ProductCalls, creating'[d] # IdleCall PROVE SawRight(creating[d])'
        <3>1. PICK l \in Look : /\ SawRight(l)
                                /\ creating'[d].since = l.since
                                /\ creating'[d].product = l.product
                                /\ creating'[d].existing = l.existing
                                /\ creating'[d].pc = "conflict" => l.pc = "conflict"
            <4>1. CASE d = c
                BY <4>1, <2>2, <1>1 DEF Look
            <4>2. CASE d # c
                BY <4>2, <2>4, <2>8 DEF CatalogInv
            <4> QED
                BY <4>1, <4>2
        <3>2. l.since \in Nat /\ l.since <= n
            BY <3>1 DEF Look, SawRight
        <3>3. \A i \in 1 .. l.since : products'[i] = products[i]
            BY <3>2, <2>6, <1>2
        <3>4. l.since <= Len(products')
            BY <3>2, <2>6, <1>2
        <3> QED
            BY <3>1, <3>3, <3>4 DEF SawRight
    <2>9. ASSUME NEW j \in 1 .. n + 1 PROVE StoredUnseen(j)'
        <3>1. CASE j = n + 1
            <4>1. products'[j].by = c /\ products'[j].product = k.product
                BY <3>1, <2>6 DEF e
            <4>2. k.since < j /\ k.since \in Nat
                BY <3>1, <1>1, <1>2 DEF SawRight, Look
            <4> QED
                BY <4>1, <4>2, <2>2, <2>3, <1>1, <1>6 DEF StoredUnseen, Look
        <3>2. CASE j # n + 1
            <4>1. j \in 1 .. n
                BY <3>2, <1>2
            <4>2. products'[j] = products[j] /\ products[j].by \in ProductCalls \ {c}
                BY <4>1, <2>6, <1>3, <1>4
            <4>3. creating'[products[j].by] = creating[products[j].by]
                BY <4>2, <2>4
            <4> QED
                BY <4>1, <4>2, <4>3 DEF CatalogInv, StoredUnseen
        <3> QED
            BY <3>1, <3>2
    <2> QED
        BY <2>6, <2>7, <2>8, <2>9 DEF CatalogInv
<1> QED
    BY <1>1, <1>5, <1>6 DEF Look

\* Every step keeps CatalogInv.
LEMMA CatalogStep == CatalogInv /\ [CatalogNext]_catalogVars => CatalogInv'
<1> SUFFICES ASSUME CatalogInv, [CatalogNext]_catalogVars PROVE CatalogInv'
    OBVIOUS
<1>1. ASSUME UNCHANGED <<products, creating>> PROVE CatalogInv'
    BY <1>1 DEF CatalogInv, SawRight, StoredUnseen
<1>2. ASSUME NEW w \in WarehouseCalls, createWarehouse(w) \/ createBin(w) PROVE CatalogInv'
    BY <1>1, <1>2 DEF createWarehouse, createBin
<1>3. CASE UNCHANGED catalogVars
    BY <1>1, <1>3 DEF catalogVars
<1> QED
    BY <1>2, <1>3, LookStep, StoreStep DEF CatalogNext

\* Nothing is stored yet.
LEMMA CatalogInitially == CatalogInit => CatalogInv
<1> SUFFICES ASSUME CatalogInit PROVE CatalogInv
    OBVIOUS
<1>1. products = << >> /\ \A c \in ProductCalls : creating[c] = IdleCall
    BY DEF CatalogInit
<1>2. creating \in [ProductCalls -> Look \cup {IdleCall}]
    BY DEF CatalogInit
<1>3. Len(products) = 0 /\ products \in Seq([product : ProductSpecs, by : ProductCalls])
    BY <1>1
<1> QED
    BY <1>1, <1>2, <1>3 DEF CatalogInv

\* createProduct stores a SKU twice for a tenant only when the later call
\* looked before the earlier one stored, and throws its conflict only when the
\* tenant had the SKU as it looked.
THEOREM CatalogAgreesCorrect == CatalogSpec => []CatalogAgrees
<1>1. CatalogInv => CatalogAgrees
    <2> SUFFICES ASSUME CatalogInv PROVE CatalogAgrees
        OBVIOUS
    <2>1. Len(products) \in Nat /\ DOMAIN products = 1 .. Len(products)
        BY LenProperties DEF CatalogInv
    <2>2. \A j \in 1 .. Len(products) : products[j].by \in ProductCalls
        <3>1. \A j \in 1 .. Len(products) :
                products[j] \in [product : ProductSpecs, by : ProductCalls]
            BY ElementOfSeq DEF CatalogInv
        <3> QED
            BY <3>1
    <2>3. ASSUME NEW i \in DOMAIN products, NEW j \in DOMAIN products,
                 i < j, products[i].product = products[j].product
          PROVE  creating[products[j].by].since < i
        <3> DEFINE k == creating[products[j].by]
        <3>1. k \in Look /\ ~k.existing /\ k.product = products[j].product
            BY <2>1 DEF CatalogInv, StoredUnseen
        <3>2. SawRight(k) /\ k.since \in Nat
            BY <3>1, <2>1, <2>2, LookIsNotIdle DEF CatalogInv, Look
        <3>3. i \notin 1 .. k.since
            BY <3>1, <3>2, <2>3 DEF SawRight
        <3> QED
            BY <3>2, <3>3, <2>1
    <2>4. ASSUME NEW c \in ProductCalls, creating[c].pc = "conflict"
          PROVE  \E i \in 1 .. creating[c].since : products[i].product = creating[c].product
        <3>1. creating[c] # IdleCall
            BY <2>4 DEF IdleCall
        <3> QED
            BY <3>1, <2>4 DEF CatalogInv, SawRight
    <2> QED
        BY <2>3, <2>4 DEF CatalogAgrees
<1> QED
    BY <1>1, CatalogInitially, CatalogStep, PTL DEF CatalogSpec

----------------------------------------------------------------------------
(* Dock appointments                                                       *)

DoorSlot == [doorId : {d.doorId : d \in DoorSpecs}, start : Nat, end : Nat]

\* DoorSlot i is still in the map, among its first n entries.
Kept(i, n) == \E a \in 1 .. n : appointments[a] = returned[i]

\* What was returned and not replaced is in the map; the last booking of the
\* running millisecond is its last entry, and the only one a booking can replace.
DockInv ==
    /\ doors \in Seq(DoorSpecs)
    /\ appointments \in Seq(DoorSlot)
    /\ returned \in Seq(DoorSlot)
    /\ sameMs \in BOOLEAN
    /\ \A i \in 1 .. Len(returned) : i \notin replaced => Kept(i, Len(appointments))
    /\ sameMs => /\ appointments # << >>
                 /\ \A i \in 1 .. Len(returned) :
                        i < Len(returned) /\ i \notin replaced => Kept(i, Len(appointments) - 1)
    /\ OverlapExplained

\* A slot that does not conflict with an earlier one overlaps it only around it.
LEMMA NoConflict ==
    ASSUME NEW s \in DoorSlot, NEW t \in DoorSlot, ~Conflict(s, t.start, t.end), Overlap(s, t)
    PROVE  t.start < s.start /\ s.end < t.end
    BY DEF Conflict, Overlap, DoorSlot

\* The door that bookAppointment finds serves and has no conflict.
LEMMA DoorFound ==
    ASSUME DockInv, NEW kind \in Kinds, NEW start \in Times, NEW minutes \in LoadMinutes,
           bookAppointment(kind, start, minutes)
    PROVE  \E slot \in DoorSlot :
              /\ appointments' = IF sameMs
                                 THEN [appointments EXCEPT ![Len(appointments)] = slot]
                                 ELSE Append(appointments, slot)
              /\ sameMs' = TRUE
              /\ returned' = Append(returned, slot)
              /\ replaced' = IF sameMs THEN replaced \cup {Len(returned)} ELSE replaced
              /\ doors' = doors
              /\ \A a \in DOMAIN appointments :
                    appointments[a].doorId = slot.doorId =>
                        ~Conflict(appointments[a], slot.start, slot.end)
<1> DEFINE end == start + minutes
           free == {i \in eligibleDoors(kind) : ~hasConflict(doors[i], start, end)}
           first == CHOOSE i \in free : \A j \in free : i <= j
           slot == [doorId |-> doors[first].doorId, start |-> start, end |-> end]
<1>1. first \in free
    <2>1. free \subseteq Nat /\ free # {}
        BY LenProperties DEF DockInv, eligibleDoors, bookAppointment
    <2>2. \E i \in free : \A j \in free : i <= j
        BY <2>1, SmallestNumber
    <2> QED
        BY <2>2
<1>2. doors[first] \in DoorSpecs
    BY <1>1, LenProperties, ElementOfSeq DEF DockInv, eligibleDoors
<1>3. start \in Nat /\ end \in Nat
    BY DockAssumption
<1>4. slot \in DoorSlot
    BY <1>2, <1>3 DEF DoorSlot
<1>5. \A a \in DOMAIN appointments :
        appointments[a].doorId = doors[first].doorId => ~Conflict(appointments[a], start, end)
    BY <1>1 DEF hasConflict
<1>6. /\ slot.doorId = doors[first].doorId
      /\ slot.start = start
      /\ slot.end = end
    OBVIOUS
<1>7. /\ appointments' = IF sameMs THEN [appointments EXCEPT ![Len(appointments)] = slot]
                         ELSE Append(appointments, slot)
      /\ sameMs' = TRUE
      /\ returned' = Append(returned, slot)
      /\ replaced' = IF sameMs THEN replaced \cup {Len(returned)} ELSE replaced
      /\ doors' = doors
    BY Zenon DEF bookAppointment
<1> HIDE DEF slot, first, free, end
<1> QED
    BY <1>4, <1>5, <1>6, <1>7

\* A booking: the new slot is kept, and an earlier one it overlaps is explained.
LEMMA BookStep ==
    ASSUME DockInv, NEW kind \in Kinds, NEW start \in Times, NEW minutes \in LoadMinutes,
           bookAppointment(kind, start, minutes)
    PROVE  DockInv'
<1> DEFINE n == Len(returned)
           m == Len(appointments)
<1>1. PICK slot \in DoorSlot :
              /\ appointments' = IF sameMs
                                 THEN [appointments EXCEPT ![Len(appointments)] = slot]
                                 ELSE Append(appointments, slot)
              /\ sameMs' = TRUE
              /\ returned' = Append(returned, slot)
              /\ replaced' = IF sameMs THEN replaced \cup {Len(returned)} ELSE replaced
              /\ doors' = doors
              /\ \A a \in DOMAIN appointments :
                    appointments[a].doorId = slot.doorId =>
                        ~Conflict(appointments[a], slot.start, slot.end)
    BY DoorFound
<1>2. /\ n \in Nat /\ m \in Nat
      /\ DOMAIN appointments = 1 .. m
      /\ DOMAIN returned = 1 .. n
      /\ \A a \in 1 .. m : appointments[a] \in DoorSlot
      /\ \A i \in 1 .. n : returned[i] \in DoorSlot
    BY LenProperties, ElementOfSeq DEF DockInv
<1>3. /\ returned' \in Seq(DoorSlot)
      /\ Len(returned') = n + 1
      /\ DOMAIN returned' = 1 .. n + 1
      /\ returned'[n + 1] = slot
      /\ \A i \in 1 .. n : returned'[i] = returned[i]
    <2>1. returned \in Seq(DoorSlot) /\ returned' = Append(returned, slot)
        BY <1>1 DEF DockInv
    <2>2. /\ returned' \in Seq(DoorSlot)
          /\ Len(returned') = n + 1
          /\ returned'[n + 1] = slot
          /\ \A i \in 1 .. n : returned'[i] = returned[i]
        BY <2>1, AppendProperties
    <2> QED
        BY <2>2, LenProperties
<1>4. ASSUME sameMs = TRUE
      PROVE  /\ appointments' \in Seq(DoorSlot)
             /\ m > 0
             /\ Len(appointments') = m
             /\ appointments'[m] = slot
             /\ \A a \in 1 .. m - 1 : appointments'[a] = appointments[a]
             /\ replaced' = replaced \cup {n}
    <2>1. appointments # << >> /\ appointments \in Seq(DoorSlot)
        BY <1>4 DEF DockInv
    <2>2. m > 0
        BY <2>1, <1>2, EmptySeq
    <2>3. appointments' = [appointments EXCEPT ![m] = slot]
        BY <1>1, <1>4
    <2>4. appointments \in [1 .. m -> DoorSlot]
        BY <2>1, LenProperties
    <2>5. appointments' \in [1 .. m -> DoorSlot]
        BY <2>3, <2>4
    <2>6. appointments' \in Seq(DoorSlot) /\ Len(appointments') = m
        BY <2>5, <1>2, IsASeq, LenProperties
    <2> HIDE DEF m, n
    <2>7. appointments'[m] = slot /\ \A a \in 1 .. m - 1 : appointments'[a] = appointments[a]
        BY <2>2, <2>3, <2>4, <1>2
    <2>8. replaced' = replaced \cup {n}
        BY <1>1, <1>4 DEF n
    <2> QED
        BY <2>2, <2>6, <2>7, <2>8
<1>5. ASSUME sameMs = FALSE
      PROVE  /\ appointments' \in Seq(DoorSlot)
             /\ Len(appointments') = m + 1
             /\ appointments'[m + 1] = slot
             /\ \A a \in 1 .. m : appointments'[a] = appointments[a]
             /\ replaced' = replaced
    <2>1. appointments' = Append(appointments, slot) /\ replaced' = replaced
        BY <1>1, <1>5
    <2> QED
        BY <2>1, AppendProperties DEF DockInv
<1> HIDE DEF n, m
<1>6. appointments' \in Seq(DoorSlot) /\ Len(appointments') \in Nat \ {0}
    <2>1. CASE sameMs = TRUE
        BY <2>1, <1>2, <1>4
    <2>2. CASE sameMs = FALSE
        <3>1. appointments' \in Seq(DoorSlot) /\ Len(appointments') = m + 1
            BY <2>2, <1>5, Zenon
        <3> QED
            BY <3>1, <1>2
    <2> QED
        BY <2>1, <2>2 DEF DockInv
<1>7. appointments' # << >>
    BY <1>6, EmptySeq
<1>8. appointments'[Len(appointments')] = slot
    BY <1>4, <1>5 DEF DockInv
<1>9. ASSUME NEW i \in 1 .. n, i \notin replaced'
      PROVE  \E a \in 1 .. Len(appointments') - 1 : appointments'[a] = returned[i]
    <2>1. CASE sameMs = TRUE
        <3>1. i < n /\ i \notin replaced
            BY <2>1, <1>2, <1>4, <1>9
        <3>2. PICK a \in 1 .. m - 1 : appointments[a] = returned[i]
            BY <3>1, <2>1 DEF DockInv, Kept, m, n
        <3> QED
            BY <3>2, <2>1, <1>4
    <2>2. CASE sameMs = FALSE
        <3>1. PICK a \in 1 .. m : appointments[a] = returned[i]
            BY <2>2, <1>5, <1>9 DEF DockInv, Kept, m, n
        <3>2. Len(appointments') = m + 1 /\ appointments'[a] = appointments[a]
            BY <3>1, <2>2, <1>5, Zenon
        <3>3. a \in 1 .. Len(appointments') - 1
            BY <3>1, <3>2, <1>2
        <3> QED
            BY <3>1, <3>2, <3>3
    <2> QED
        BY <2>1, <2>2 DEF DockInv
<1>10. \A i \in 1 .. n + 1 : i < n + 1 /\ i \notin replaced' => Kept(i, Len(appointments) - 1)'
    <2> SUFFICES ASSUME NEW i \in 1 .. n + 1, i < n + 1, i \notin replaced'
                 PROVE  Kept(i, Len(appointments) - 1)'
        OBVIOUS
    <2>1. i \in 1 .. n
        BY <1>2
    <2>2. PICK a \in 1 .. Len(appointments') - 1 : appointments'[a] = returned[i]
        BY <2>1, <1>9
    <2> QED
        BY <2>1, <2>2, <1>3 DEF Kept
<1>11. \A i \in 1 .. n + 1 : i \notin replaced' => Kept(i, Len(appointments))'
    <2> SUFFICES ASSUME NEW i \in 1 .. n + 1, i \notin replaced'
                 PROVE  Kept(i, Len(appointments))'
        OBVIOUS
    <2>1. CASE i = n + 1
        BY <2>1, <1>3, <1>6, <1>8 DEF Kept
    <2>2. CASE i # n + 1
        <3>1. i \in 1 .. n
            BY <2>2, <1>2
        <3>2. PICK a \in 1 .. Len(appointments') - 1 : appointments'[a] = returned[i]
            BY <3>1, <1>9
        <3>3. a \in 1 .. Len(appointments')
            BY <3>2, <1>6
        <3> QED
            BY <3>1, <3>2, <3>3, <1>3 DEF Kept
    <2> QED
        BY <2>1, <2>2
<1>12. OverlapExplained'
    <2> SUFFICES ASSUME NEW i \in 1 .. n + 1, NEW j \in 1 .. n + 1, i < j,
                        Overlap(returned'[i], returned'[j]), i \notin replaced'
                 PROVE  /\ returned'[j].start < returned'[i].start
                        /\ returned'[i].end < returned'[j].end
        BY <1>3 DEF OverlapExplained
    <2>1. i \notin replaced
        BY <1>4, <1>5 DEF DockInv
    <2>2. i \in 1 .. n /\ returned'[i] = returned[i]
        BY <1>2, <1>3
    <2>3. CASE j = n + 1
        <3>1. PICK a \in 1 .. m : appointments[a] = returned[i]
            BY <2>1, <2>2 DEF DockInv, Kept, m, n
        <3>2. appointments[a].doorId = slot.doorId
            BY <3>1, <2>2, <2>3, <1>3 DEF Overlap
        <3>3. ~Conflict(appointments[a], slot.start, slot.end)
            BY <3>1, <3>2, <1>1, <1>2
        <3> QED
            BY <3>1, <3>3, <2>2, <2>3, <1>2, <1>3, NoConflict
    <2>4. CASE j # n + 1
        <3>1. j \in 1 .. n /\ returned'[j] = returned[j]
            BY <2>4, <1>2, <1>3
        <3> QED
            BY <3>1, <2>1, <2>2, <1>2 DEF DockInv, OverlapExplained
    <2> QED
        BY <2>3, <2>4
<1> QED
    BY <1>1, <1>3, <1>6, <1>7, <1>10, <1>11, <1>12 DEF DockInv

\* Every step keeps DockInv.
LEMMA DockStep == DockInv /\ [DockNext]_dockVars => DockInv'
<1> SUFFICES ASSUME DockInv, [DockNext]_dockVars PROVE DockInv'
    OBVIOUS
<1>1. ASSUME NEW door \in DoorSpecs, registerDoor(door) PROVE DockInv'
    <2>1. UNCHANGED <<appointments, sameMs, returned, replaced>>
        BY <1>1 DEF registerDoor, dockHistory
    <2>2. doors' \in Seq(DoorSpecs)
        <3>1. doors \in Seq(DoorSpecs) /\ doors \in [1 .. Len(doors) -> DoorSpecs]
              /\ Len(doors) \in Nat /\ DOMAIN doors = 1 .. Len(doors)
            BY LenProperties DEF DockInv
        <3>2. CASE doors' = Append(doors, door)
            BY <3>1, <3>2, AppendProperties
        <3>3. ASSUME NEW same, doors' = [i \in DOMAIN doors |-> IF i \in same THEN door
                                                               ELSE doors[i]]
              PROVE  doors' \in Seq(DoorSpecs)
            <4>1. doors' \in [1 .. Len(doors) -> DoorSpecs]
                BY <3>1, <3>3
            <4> QED
                BY <4>1, <3>1, IsASeq
        <3> QED
            BY <3>2, <3>3, <1>1 DEF registerDoor
    <2> QED
        BY <2>1, <2>2 DEF DockInv, Kept, OverlapExplained
<1>2. CASE DockTick
    BY <1>2 DEF DockTick, dockHistory, DockInv, Kept, OverlapExplained
<1>3. CASE UNCHANGED dockVars
    BY <1>3 DEF dockVars, dockHistory, DockInv, Kept, OverlapExplained
<1> QED
    BY <1>1, <1>2, <1>3, BookStep DEF DockNext

\* bookAppointment gives overlapping slots of a door away only where its
\* conflict check cannot see the overlap, or the map has lost the earlier slot.
THEOREM OverlapExplainedCorrect == DockSpec => []OverlapExplained
<1>1. DockInit => DockInv
    <2> SUFFICES ASSUME DockInit PROVE DockInv
        OBVIOUS
    <2>1. doors = << >> /\ appointments = << >> /\ returned = << >> /\ sameMs = FALSE
        BY DEF DockInit
    <2>2. << >> \in Seq(DoorSpecs) /\ << >> \in Seq(DoorSlot) /\ Len(returned) = 0
          /\ DOMAIN returned = {}
        BY <2>1
    <2>3. OverlapExplained
        BY <2>2, Zenon DEF OverlapExplained
    <2>4. \A i \in 1 .. Len(returned) : FALSE
        BY <2>2
    <2> QED
        BY <2>1, <2>2, <2>3, <2>4 DEF DockInv
<1>2. DockInv => OverlapExplained
    BY DEF DockInv
<1> QED
    BY <1>1, <1>2, DockStep, PTL DEF DockSpec

----------------------------------------------------------------------------
(* Bay slotting                                                            *)

Weights == [p \in Putaways |-> ItemOf(p).weight]
Volumes == [p \in Putaways |-> ItemOf(p).volume]

\* A putaway that was given a bay, and that nobody has overtaken since, fits.
SlottingInv ==
    /\ stored \in [Bays -> SUBSET Putaways]
    /\ best \in [Putaways -> Bays \cup {0}]
    /\ outcome \in [Putaways -> {"new", "found", "null", "true", "false"}]
    /\ \A p \in Putaways : outcome[p] = "found" => best[p] \in Bays
    /\ \A b \in Bays : \A p \in stored[b] : outcome[p] = "true"
    /\ \A p \in Putaways :
        outcome[p] = "found" /\ p \notin overtaken => ~Exceeds(best[p], ItemOf(p))
    /\ RefusedIfOvertaken

\* The load of a bay is a number, and an item more adds its weight and volume.
LEMMA LoadType ==
    ASSUME NEW S \in SUBSET Putaways
    PROVE  SumFunctionOnSet(Weights, S) \in Int /\ SumFunctionOnSet(Volumes, S) \in Int
<1>1. IsFiniteSet(S)
    BY SlottingAssumption, FS_Subset
<1>2. \A p \in S : Weights[p] \in Int /\ Volumes[p] \in Int
    BY SlottingAssumption DEF Weights, Volumes
<1> QED
    BY <1>1, <1>2, SumType

LEMMA LoadAdd ==
    ASSUME NEW S \in SUBSET Putaways, NEW p \in Putaways, p \notin S
    PROVE  /\ SumFunctionOnSet(Weights, S \cup {p}) =
                SumFunctionOnSet(Weights, S) + ItemOf(p).weight
           /\ SumFunctionOnSet(Volumes, S \cup {p}) =
                SumFunctionOnSet(Volumes, S) + ItemOf(p).volume
<1>1. IsFiniteSet(S)
    BY SlottingAssumption, FS_Subset
<1>2. \A q \in Putaways : Weights[q] \in Int /\ Volumes[q] \in Int
    BY SlottingAssumption DEF Weights, Volumes
<1>3. /\ SumFunctionOnSet(Weights, S \cup {p}) = SumFunctionOnSet(Weights, S) + Weights[p]
      /\ SumFunctionOnSet(Volumes, S \cup {p}) = SumFunctionOnSet(Volumes, S) + Volumes[p]
    BY <1>1, <1>2, SumAdd
<1>4. Weights[p] = ItemOf(p).weight /\ Volumes[p] = ItemOf(p).volume
    BY DEF Weights, Volumes
<1> QED
    BY <1>3, <1>4

\* What a bay holds decides whether an item still fits.
LEMMA LoadFacts ==
    ASSUME SlottingInv
    PROVE  \A b \in Bays :
            /\ currentWeight(b) = SumFunctionOnSet(Weights, stored[b])
            /\ currentVolume(b) = SumFunctionOnSet(Volumes, stored[b])
            /\ currentWeight(b) \in Int /\ currentVolume(b) \in Int
    BY LoadType DEF SlottingInv, currentWeight, currentVolume, Weights, Volumes

\* findBestBay gives a bay the item fits into.
LEMMA FindStep ==
    ASSUME SlottingInv, NEW p \in Putaways, findBestBay(p)
    PROVE  SlottingInv'
<1>1. UNCHANGED <<stored, overtaken>> /\ outcome[p] = "new"
    BY DEF findBestBay
<1>2. \A b \in Bays : /\ currentWeight(b)' = currentWeight(b)
                      /\ currentVolume(b)' = currentVolume(b)
    BY <1>1 DEF currentWeight, currentVolume
<1>3. PICK o \in {"null", "found"}, bay \in Bays \cup {0} :
        /\ outcome' = [outcome EXCEPT ![p] = o]
        /\ best' = [best EXCEPT ![p] = bay]
        /\ o = "found" => bay \in Bays /\ ~Exceeds(bay, ItemOf(p))
    <2> DEFINE C == Candidates(ItemOf(p))
    <2>1. CASE C = {}
        <3>1. best' = [best EXCEPT ![p] = best[p]] /\ best[p] \in Bays \cup {0}
            BY <2>1 DEF findBestBay, SlottingInv
        <3>2. outcome' = [outcome EXCEPT ![p] = "null"]
            BY <2>1 DEF findBestBay
        <3> QED
            BY <3>1, <3>2
    <2>2. CASE C # {}
        <3>1. C \subseteq Bays /\ C \subseteq Nat
            BY SlottingAssumption DEF Candidates
        <3>2. \E x \in C : \A y \in C : x <= y
            BY <3>1, <2>2, SmallestNumber
        <3>3. Min(C) \in C
            BY <3>2, Zenon DEF Min
        <3>4. Min(C) \in Bays /\ ~Exceeds(Min(C), ItemOf(p))
            <4>1. PICK b \in C : b = Min(C)
                BY <3>3
            <4>2. /\ b \in Bays
                  /\ currentWeight(b) + ItemOf(p).weight <= maxWeight
                  /\ currentVolume(b) + ItemOf(p).volume <= maxVolume
                BY <4>1 DEF Candidates
            <4>3. /\ currentWeight(b) \in Int /\ currentVolume(b) \in Int
                  /\ ItemOf(p).weight \in Int /\ ItemOf(p).volume \in Int
                  /\ maxWeight \in Int /\ maxVolume \in Int
                BY <4>2, LoadFacts, SlottingAssumption
            <4>4. ~Exceeds(b, ItemOf(p))
                BY <4>2, <4>3 DEF Exceeds
            <4> QED
                BY <4>1, <4>2, <4>4
        <3>5. /\ outcome' = [outcome EXCEPT ![p] = "found"]
              /\ best' = [best EXCEPT ![p] = Min(C)]
            BY <2>2 DEF findBestBay
        <3> HIDE DEF C
        <3> QED
            BY <3>4, <3>5
    <2> QED
        BY <2>1, <2>2
<1>4. ASSUME NEW q \in Putaways
      PROVE  /\ outcome'[q] = IF q = p THEN o ELSE outcome[q]
             /\ best'[q] = IF q = p THEN bay ELSE best[q]
    BY <1>3 DEF SlottingInv
<1>5. ASSUME NEW q \in Putaways, outcome'[q] = "found" PROVE best'[q] \in Bays
    BY <1>3, <1>4, <1>5 DEF SlottingInv
<1>6. ASSUME NEW q \in Putaways, outcome'[q] = "found", q \notin overtaken
      PROVE  ~Exceeds(best[q], ItemOf(q))'
    <2>1. PICK b \in Bays : b = best'[q] /\ ~Exceeds(b, ItemOf(q))
        BY <1>3, <1>4, <1>5, <1>6 DEF SlottingInv
    <2> QED
        BY <2>1, <1>2 DEF Exceeds
<1>7. RefusedIfOvertaken'
    BY <1>1, <1>2, <1>3, <1>4 DEF SlottingInv, RefusedIfOvertaken
<1>8. \A b \in Bays : \A q \in stored'[b] : outcome'[q] = "true"
    BY <1>1, <1>4 DEF SlottingInv
<1>9. /\ stored' \in [Bays -> SUBSET Putaways]
      /\ best' \in [Putaways -> Bays \cup {0}]
      /\ outcome' \in [Putaways -> {"new", "found", "null", "true", "false"}]
    BY <1>1, <1>3 DEF SlottingInv
<1> QED
    BY <1>1, <1>5, <1>6, <1>7, <1>8, <1>9 DEF SlottingInv

\* allocateItemToBay fills no bay beyond its limits, and whoever it leaves
\* without the room it was promised has been overtaken.
LEMMA AllocateStep ==
    ASSUME SlottingInv, NEW p \in Putaways, allocateItemToBay(p)
    PROVE  SlottingInv'
<1> DEFINE bay == best[p]
<1>1. outcome[p] = "found" /\ bay \in Bays /\ best' = best
    BY DEF allocateItemToBay, SlottingInv
<1>2. CASE Exceeds(bay, ItemOf(p))
    <2>1. outcome' = [outcome EXCEPT ![p] = "false"] /\ UNCHANGED <<stored, overtaken>>
        BY <1>2 DEF allocateItemToBay
    <2>2. \A b \in Bays : /\ currentWeight(b)' = currentWeight(b)
                          /\ currentVolume(b)' = currentVolume(b)
        BY <2>1 DEF currentWeight, currentVolume
    <2>3. p \in overtaken
        BY <1>1, <1>2 DEF SlottingInv
    <2>4. \A q \in Putaways : outcome'[q] = IF q = p THEN "false" ELSE outcome[q]
        BY <2>1 DEF SlottingInv
    <2>5. ASSUME NEW q \in Putaways, outcome'[q] = "found", q \notin overtaken
          PROVE  ~Exceeds(best[q], ItemOf(q))'
        <3>1. PICK b \in Bays : b = best[q] /\ ~Exceeds(b, ItemOf(q))
            BY <2>4, <2>5 DEF SlottingInv
        <3> QED
            BY <3>1, <2>2, <1>1 DEF Exceeds
    <2>6. RefusedIfOvertaken'
        BY <2>1, <2>2, <2>3, <2>4 DEF SlottingInv, RefusedIfOvertaken
    <2>7. \A b \in Bays : \A q \in stored'[b] : outcome'[q] = "true"
        BY <1>1, <2>1, <2>4 DEF SlottingInv
    <2>8. outcome' \in [Putaways -> {"new", "found", "null", "true", "false"}]
        BY <2>1 DEF SlottingInv
    <2>9. \A q \in Putaways : outcome'[q] = "found" => best'[q] \in Bays
        BY <1>1, <2>4 DEF SlottingInv
    <2> QED
        BY <1>1, <2>1, <2>5, <2>6, <2>7, <2>8, <2>9 DEF SlottingInv
<1>3. CASE ~Exceeds(bay, ItemOf(p))
    <2> DEFINE late == {q \in Putaways \ {p} : outcome[q] = "found" /\ best[q] = bay}
    <2>1. /\ outcome' = [outcome EXCEPT ![p] = "true"]
          /\ stored' = [stored EXCEPT ![bay] = stored[bay] \cup {p}]
          /\ overtaken' = overtaken \cup late
        BY <1>3 DEF allocateItemToBay
    <2>2. \A q \in Putaways : outcome'[q] = IF q = p THEN "true" ELSE outcome[q]
        BY <2>1 DEF SlottingInv
    <2>3. stored'[bay] = stored[bay] \cup {p} /\ p \notin stored[bay]
        BY <1>1, <2>1 DEF SlottingInv
    <2>4. \A b \in Bays : b # bay => stored'[b] = stored[b]
        BY <2>1 DEF SlottingInv
    <2>5. \A b \in Bays : b # bay => /\ currentWeight(b)' = currentWeight(b)
                                     /\ currentVolume(b)' = currentVolume(b)
        BY <2>4 DEF currentWeight, currentVolume
    <2>6. \A b \in Bays : currentWeight(b)' <= maxWeight /\ currentVolume(b)' <= maxVolume
        <3> SUFFICES ASSUME NEW b \in Bays
                     PROVE  currentWeight(b)' <= maxWeight /\ currentVolume(b)' <= maxVolume
            OBVIOUS
        <3>1. CASE b # bay
            BY <3>1, <2>5 DEF SlottingInv, RefusedIfOvertaken
        <3>2. CASE b = bay
            <4>1. /\ currentWeight(b)' = SumFunctionOnSet(Weights, stored'[b])
                  /\ currentVolume(b)' = SumFunctionOnSet(Volumes, stored'[b])
                BY DEF currentWeight, currentVolume, Weights, Volumes
            <4>2. stored'[b] = stored[b] \cup {p} /\ p \notin stored[b]
                  /\ stored[b] \in SUBSET Putaways
                BY <3>2, <2>3 DEF SlottingInv
            <4>3. /\ currentWeight(b)' = SumFunctionOnSet(Weights, stored[b]) + ItemOf(p).weight
                  /\ currentVolume(b)' = SumFunctionOnSet(Volumes, stored[b]) + ItemOf(p).volume
                BY <4>1, <4>2, LoadAdd
            <4>4. /\ currentWeight(b)' = currentWeight(b) + ItemOf(p).weight
                  /\ currentVolume(b)' = currentVolume(b) + ItemOf(p).volume
                BY <4>3, LoadFacts
            <4>5. ~Exceeds(b, ItemOf(p))
                BY <3>2, <1>3
            <4>6. /\ currentWeight(b) \in Int /\ currentVolume(b) \in Int
                  /\ ItemOf(p).weight \in Int /\ ItemOf(p).volume \in Int
                  /\ maxWeight \in Int /\ maxVolume \in Int
                BY LoadFacts, SlottingAssumption
            <4> QED
                BY <4>4, <4>5, <4>6 DEF Exceeds
        <3> QED
            BY <3>1, <3>2
    <2>7. ASSUME NEW q \in Putaways, outcome'[q] = "found", q \notin overtaken'
          PROVE  ~Exceeds(best[q], ItemOf(q))'
        <3>1. q # p /\ outcome[q] = "found" /\ best[q] # bay /\ q \notin overtaken
            BY <2>1, <2>2, <2>7
        <3>2. PICK b \in Bays : b = best[q] /\ ~Exceeds(b, ItemOf(q))
            BY <3>1 DEF SlottingInv
        <3> QED
            BY <3>1, <3>2, <2>5, <1>1 DEF Exceeds
    <2>8. RefusedIfOvertaken'
        BY <2>1, <2>2, <2>6 DEF SlottingInv, RefusedIfOvertaken
    <2>9. \A b \in Bays : \A q \in stored'[b] : outcome'[q] = "true"
        BY <1>1, <2>2, <2>3, <2>4 DEF SlottingInv
    <2>10. /\ stored' \in [Bays -> SUBSET Putaways]
           /\ outcome' \in [Putaways -> {"new", "found", "null", "true", "false"}]
        BY <1>1, <2>1 DEF SlottingInv
    <2>11. \A q \in Putaways : outcome'[q] = "found" => best'[q] \in Bays
        BY <1>1, <2>2 DEF SlottingInv
    <2> QED
        BY <1>1, <2>7, <2>8, <2>9, <2>10, <2>11 DEF SlottingInv
<1> QED
    BY <1>2, <1>3

\* allocateItemToBay refuses an item in the bay that findBestBay gave it only
\* when another item went there in between, and never overloads a bay.
THEOREM RefusedIfOvertakenCorrect == SlottingSpec => []RefusedIfOvertaken
<1>1. SlottingInit => SlottingInv
    <2> SUFFICES ASSUME SlottingInit PROVE SlottingInv
        OBVIOUS
    <2>1. \A b \in Bays : stored[b] = {} /\ currentWeight(b) = 0 /\ currentVolume(b) = 0
        BY SumEmpty DEF SlottingInit, currentWeight, currentVolume
    <2>2. RefusedIfOvertaken
        BY <2>1, SlottingAssumption DEF SlottingInit, RefusedIfOvertaken
    <2> QED
        BY <2>1, <2>2 DEF SlottingInit, SlottingInv
<1>2. SlottingInv /\ UNCHANGED slottingVars => SlottingInv'
    BY DEF SlottingInv, slottingVars, RefusedIfOvertaken, Exceeds, currentWeight, currentVolume
<1>3. SlottingInv /\ [SlottingNext]_slottingVars => SlottingInv'
    BY <1>2, FindStep, AllocateStep DEF SlottingNext
<1>4. SlottingInv => RefusedIfOvertaken
    BY DEF SlottingInv
<1> QED
    BY <1>1, <1>3, <1>4, PTL DEF SlottingSpec

----------------------------------------------------------------------------
(* Spot auctions                                                           *)

Bid == [amount : Nat, safety : Nat, number : Nat]

Auction == [shipment : Nat, left : Int, status : {"OPEN", "AWARDED"},
            bids : Seq(Bid), winningBid : Seq(Bid)]

\* Lower, or safer at the same amount, or earlier among equals
Better(b, c) ==
    \/ b.amount < c.amount
    \/ b.amount = c.amount /\ b.safety > c.safety
    \/ b.amount = c.amount /\ b.safety = c.safety /\ b.number < c.number

Ordered(bids) == \A i, j \in 1 .. Len(bids) : i < j => Better(bids[i], bids[j])

\* The bids of an auction are in order, and its winner, if any, is the first.
AuctionOK(x, count) ==
    /\ Ordered(x.bids)
    /\ \A i \in 1 .. Len(x.bids) : x.bids[i].number <= count
    /\ x.status = "OPEN" => x.winningBid = << >>
    /\ x.winningBid # << >> => x.bids # << >> /\ x.winningBid = <<x.bids[1]>>

AuctionInv ==
    /\ auctions \in Seq(Auction)
    /\ created \in Nat
    /\ bidCount \in Nat
    /\ \A a \in 1 .. Len(auctions) : AuctionOK(auctions[a], bidCount)

\* A new bid takes its place, behind those it does not beat.
LEMMA RankedOK ==
    ASSUME NEW bids \in Seq(Bid), Ordered(bids), NEW bid \in Bid,
           \A i \in 1 .. Len(bids) : bids[i].number < bid.number
    PROVE  /\ Ranked(bids, bid) \in Seq(Bid)
           /\ Ordered(Ranked(bids, bid))
           /\ \A i \in 1 .. Len(Ranked(bids, bid)) : Ranked(bids, bid)[i].number <= bid.number
<1> DEFINE ahead == {i \in DOMAIN bids : Before(bids[i], bid)}
           n == IF ahead = {} THEN 0 ELSE CHOOSE i \in ahead : \A j \in ahead : j <= i
           L == Len(bids)
           r == Ranked(bids, bid)
<1>1. L \in Nat /\ DOMAIN bids = 1 .. L /\ \A i \in 1 .. L : bids[i] \in Bid
    BY LenProperties, ElementOfSeq
<1>2. n \in 0 .. L /\ (n # 0 => n \in ahead) /\ \A i \in ahead : i <= n
    <2>1. CASE ahead = {}
        BY <2>1, <1>1
    <2>2. CASE ahead # {}
        <3>1. ahead \in SUBSET (0 .. L)
            BY <1>1
        <3>2. \E i \in ahead : \A j \in ahead : j <= i
            BY <3>1, <2>2, <1>1, LargestNumber
        <3>3. n = CHOOSE i \in ahead : \A j \in ahead : j <= i
            BY <2>2
        <3> HIDE DEF ahead, n
        <3>4. n \in ahead /\ \A i \in ahead : i <= n
            BY <3>2, <3>3, Zenon
        <3> QED
            BY <3>1, <3>4
    <2> QED
        BY <2>1, <2>2
<1>3. r = InsertAt(bids, n + 1, bid)
    BY Zenon DEF Ranked
<1> HIDE DEF n, r
<1>4. /\ r \in Seq(Bid)
      /\ Len(r) = L + 1
      /\ r[n + 1] = bid
      /\ \A k \in 1 .. n : r[k] = bids[k]
      /\ \A k \in n + 2 .. L + 1 : r[k] = bids[k - 1]
    <2>1. n \in 0 .. Len(bids)
        BY <1>2
    <2>2. InsertAt(bids, n + 1, bid) \in Seq(Bid) /\ Put(bids, n, bid, InsertAt(bids, n + 1, bid))
        BY <2>1, PutFacts, Zenon
    <2> QED
        BY <2>2, <1>3 DEF Put
<1> HIDE DEF L
<1>5. ASSUME NEW k \in 1 .. n PROVE Better(bids[k], bid)
    <2>1. n \in ahead /\ n \in 1 .. L /\ k \in 1 .. L
        BY <1>1, <1>2
    <2>2. Before(bids[n], bid)
        BY <2>1
    <2>3. k = n \/ Better(bids[k], bids[n])
        BY <2>1, <1>1 DEF Ordered, L
    <2>4. bids[k] \in Bid /\ bids[n] \in Bid /\ bids[k].number < bid.number
        BY <2>1, <1>1 DEF L
    <2>5. CASE k = n
        BY <2>2, <2>4, <2>5 DEF Before, Better, Bid
    <2>6. CASE Better(bids[k], bids[n])
        <3>1. \A b \in Bid : b.amount \in Nat /\ b.safety \in Nat /\ b.number \in Nat
            BY DEF Bid
        <3>2. /\ bids[k].amount \in Nat /\ bids[k].safety \in Nat /\ bids[k].number \in Nat
              /\ bids[n].amount \in Nat /\ bids[n].safety \in Nat /\ bids[n].number \in Nat
              /\ bid.amount \in Nat /\ bid.safety \in Nat /\ bid.number \in Nat
            BY <3>1, <2>4
        <3> QED
            BY SMTT(30), <3>2, <2>2, <2>4, <2>6 DEF Before, Better
    <2> QED
        BY <2>3, <2>5, <2>6
<1>6. ASSUME NEW k \in n + 1 .. L PROVE Better(bid, bids[k])
    <2>1. k \in 1 .. L /\ k \notin ahead
        BY <1>1, <1>2
    <2>2. ~Before(bids[k], bid) /\ bids[k] \in Bid
        BY <2>1, <1>1
    <2> QED
        BY <2>2 DEF Before, Better, Bid
<1> HIDE DEF ahead
<1>7. Ordered(r)
    <2> SUFFICES ASSUME NEW i \in 1 .. L + 1, NEW j \in 1 .. L + 1, i < j
                 PROVE  Better(r[i], r[j])
        BY <1>4 DEF Ordered
    <2>1. CASE j <= n
        <3>1. i \in 1 .. n /\ j \in 1 .. n /\ i \in 1 .. L /\ j \in 1 .. L
            BY <2>1, <1>1, <1>2
        <3> QED
            BY <3>1, <1>4 DEF Ordered, L
    <2>2. CASE j = n + 1
        <3>1. i \in 1 .. n
            BY <2>2, <1>1, <1>2
        <3> QED
            BY <3>1, <2>2, <1>4, <1>5
    <2>3. CASE j > n + 1
        <3>1. j \in n + 2 .. L + 1 /\ j - 1 \in n + 1 .. L /\ j - 1 \in 1 .. L
            BY <2>3, <1>1, <1>2
        <3>2. r[j] = bids[j - 1]
            BY <3>1, <1>4
        <3>3. CASE i <= n
            <4>1. i \in 1 .. n /\ i \in 1 .. L /\ i < j - 1
                BY <3>3, <3>1, <1>1, <1>2
            <4> QED
                BY <4>1, <3>1, <3>2, <1>4 DEF Ordered, L
        <3>4. CASE i = n + 1
            BY <3>1, <3>2, <3>4, <1>4, <1>6
        <3>5. CASE i > n + 1
            <4>1. i \in n + 2 .. L + 1 /\ i - 1 \in 1 .. L /\ i - 1 < j - 1
                BY <3>5, <3>1, <1>1, <1>2
            <4> QED
                BY <4>1, <3>1, <3>2, <1>4 DEF Ordered, L
        <3> QED
            BY <3>3, <3>4, <3>5, <1>1, <1>2
    <2> QED
        BY <2>1, <2>2, <2>3, <1>1, <1>2
<1>8. \A i \in 1 .. L + 1 : r[i].number <= bid.number
    <2> SUFFICES ASSUME NEW i \in 1 .. L + 1 PROVE r[i].number <= bid.number
        OBVIOUS
    <2>1. r[i] = bid \/ \E k \in 1 .. L : r[i] = bids[k]
        <3>1. CASE i <= n
            <4>1. i \in 1 .. n /\ i \in 1 .. L
                BY <3>1, <1>1, <1>2
            <4> QED
                BY <4>1, <1>4
        <3>2. CASE i > n + 1
            <4>1. i \in n + 2 .. L + 1 /\ i - 1 \in 1 .. L
                BY <3>2, <1>1, <1>2
            <4> QED
                BY <4>1, <1>4
        <3>3. r[n + 1] = bid
            BY <1>4
        <3>4. i = n + 1 \/ i <= n \/ i > n + 1
            BY <1>1, <1>2
        <3> QED
            BY <3>1, <3>2, <3>3, <3>4
    <2>2. \A b \in Bid : b.number \in Nat
        BY DEF Bid
    <2>3. bid.number <= bid.number
        BY <2>2
    <2>4. ASSUME NEW k \in 1 .. L PROVE bids[k].number <= bid.number
        <3>1. bids[k].number < bid.number /\ bids[k].number \in Nat /\ bid.number \in Nat
            BY <2>2, <1>1 DEF L
        <3> QED
            BY <3>1
    <2> QED
        BY <2>1, <2>3, <2>4
<1> QED
    BY <1>4, <1>7, <1>8 DEF r

\* An auction that is OK stays so while more bids are counted.
LEMMA MoreBids ==
    ASSUME NEW x \in Auction, NEW n \in Nat, AuctionOK(x, n)
    PROVE  AuctionOK(x, n + 1)
<1>1. \A i \in 1 .. Len(x.bids) : x.bids[i] \in Bid
    BY ElementOfSeq DEF Auction
<1>2. \A i \in 1 .. Len(x.bids) : x.bids[i].number <= n + 1
    BY <1>1 DEF AuctionOK, Bid
<1> QED
    BY <1>2 DEF AuctionOK

\* An auction replaced by one that is OK leaves the map so.
LEMMA OneAuction ==
    ASSUME AuctionInv, created' \in Nat, bidCount' \in {bidCount, bidCount + 1},
           NEW a, NEW x \in Auction, AuctionOK(x, bidCount'),
           auctions' = [auctions EXCEPT ![a] = x]
    PROVE  AuctionInv'
<1>1. Len(auctions) \in Nat /\ auctions \in [1 .. Len(auctions) -> Auction]
    BY LenProperties DEF AuctionInv
<1>2. auctions' \in [1 .. Len(auctions) -> Auction]
    BY <1>1
<1>3. auctions' \in Seq(Auction) /\ Len(auctions') = Len(auctions)
    BY <1>1, <1>2, LenProperties
<1>4. ASSUME NEW c \in 1 .. Len(auctions) PROVE AuctionOK(auctions'[c], bidCount')
    <2>1. CASE c = a
        BY <2>1, <1>1
    <2>2. CASE c # a
        <3>1. auctions'[c] = auctions[c] /\ auctions[c] \in Auction
            BY <2>2, <1>1
        <3>2. AuctionOK(auctions[c], bidCount) /\ AuctionOK(auctions[c], bidCount + 1)
            BY <3>1, MoreBids DEF AuctionInv
        <3> QED
            BY <3>1, <3>2
    <2> QED
        BY <2>1, <2>2
<1>5. bidCount' \in Nat
    BY DEF AuctionInv
<1> QED
    BY <1>3, <1>4, <1>5 DEF AuctionInv

\* A new auction, at the end of the map or instead of the last.
LEMMA CreateStep ==
    ASSUME AuctionInv, createSpotAuction PROVE AuctionInv'
<1> DEFINE x == [shipment |-> created + 1, left |-> OpenFor, status |-> "OPEN",
                 bids |-> << >>, winningBid |-> << >>]
<1>1. x \in Auction
    <2>1. << >> \in Seq(Bid) /\ created + 1 \in Nat /\ OpenFor \in Int
        BY AuctionAssumption DEF AuctionInv
    <2> QED
        BY <2>1 DEF Auction
<1>2. AuctionOK(x, bidCount)
    BY DEF AuctionOK, Ordered
<1>3. bidCount' = bidCount /\ created' = created + 1 /\ bidCount \in Nat /\ created \in Nat
    BY DEF createSpotAuction, AuctionInv
<1>4. auctions' = [auctions EXCEPT ![Len(auctions)] = x] \/ auctions' = Append(auctions, x)
    BY DEF createSpotAuction
<1> HIDE DEF x
<1>5. CASE auctions' = [auctions EXCEPT ![Len(auctions)] = x]
    <2>1. created' \in Nat /\ bidCount' \in {bidCount, bidCount + 1} /\ AuctionOK(x, bidCount')
        BY <1>2, <1>3
    <2> QED
        BY <2>1, <1>1, <1>5, OneAuction, Zenon
<1>6. CASE auctions' = Append(auctions, x)
    <2>1. /\ auctions' \in Seq(Auction)
          /\ Len(auctions') = Len(auctions) + 1
          /\ auctions'[Len(auctions) + 1] = x
          /\ \A a \in 1 .. Len(auctions) : auctions'[a] = auctions[a]
        BY <1>1, <1>6, AppendProperties DEF AuctionInv
    <2>2. Len(auctions) \in Nat
        BY LenProperties DEF AuctionInv
    <2>3. ASSUME NEW a \in 1 .. Len(auctions) + 1 PROVE AuctionOK(auctions'[a], bidCount)
        <3>1. a = Len(auctions) + 1 \/ a \in 1 .. Len(auctions)
            BY <2>2
        <3> QED
            BY <3>1, <2>1, <1>2 DEF AuctionInv
    <2> QED
        BY <2>1, <2>3, <1>3 DEF AuctionInv
<1> QED
    BY <1>4, <1>5, <1>6

\* A bid is ranked in an auction that nobody has won.
LEMMA SubmitStep ==
    ASSUME AuctionInv, NEW a \in DOMAIN auctions, NEW amount \in Amounts,
           NEW safety \in SafetyScores, submitBid(a, amount, safety)
    PROVE  AuctionInv'
<1> DEFINE bid == [amount |-> amount, safety |-> safety, number |-> bidCount + 1]
           x == auctions[a]
           y == [x EXCEPT !.bids = Ranked(x.bids, bid)]
<1>1. x \in Auction /\ AuctionOK(x, bidCount) /\ bidCount \in Nat
    BY LenProperties, ElementOfSeq DEF AuctionInv
<1>2. bid \in Bid
    BY <1>1, AuctionAssumption DEF Bid
<1>3. x.status = "OPEN" /\ x.bids \in Seq(Bid)
    BY <1>1 DEF submitBid, Accepts, Auction
<1>4. \A i \in 1 .. Len(x.bids) : x.bids[i].number < bid.number
    <2>1. \A i \in 1 .. Len(x.bids) : x.bids[i] \in Bid /\ x.bids[i].number <= bidCount
        BY <1>1, <1>3, ElementOfSeq DEF AuctionOK
    <2> QED
        BY <2>1, <1>1 DEF Bid
<1>5. bid.number = bidCount + 1
    OBVIOUS
<1>6. /\ auctions' = [auctions EXCEPT ![a] = y]
      /\ bidCount' = bidCount + 1
      /\ created' = created
    BY DEF submitBid
<1> HIDE DEF bid
<1>7. /\ Ranked(x.bids, bid) \in Seq(Bid)
      /\ Ordered(Ranked(x.bids, bid))
      /\ \A i \in 1 .. Len(Ranked(x.bids, bid)) :
            Ranked(x.bids, bid)[i].number <= bid.number
    BY <1>1, <1>2, <1>3, <1>4, RankedOK DEF AuctionOK
<1>8. y \in Auction
    BY <1>1, <1>7 DEF Auction
<1>9. /\ y.bids = Ranked(x.bids, bid)
      /\ y.status = x.status
      /\ y.winningBid = x.winningBid
    BY <1>1 DEF Auction
<1> HIDE DEF y
<1>10. AuctionOK(y, bidCount + 1)
    BY <1>1, <1>3, <1>5, <1>7, <1>9 DEF AuctionOK
<1> QED
    BY <1>1, <1>6, <1>8, <1>10, OneAuction DEF AuctionInv

\* The first bid wins.
LEMMA AwardStep ==
    ASSUME AuctionInv, NEW a \in DOMAIN auctions, awardAuction(a) PROVE AuctionInv'
<1> DEFINE x == auctions[a]
           y == [x EXCEPT !.status = "AWARDED", !.winningBid = <<x.bids[1]>>]
<1>1. x \in Auction /\ AuctionOK(x, bidCount) /\ bidCount \in Nat
    BY LenProperties, ElementOfSeq DEF AuctionInv
<1>2. auctions \in [DOMAIN auctions -> Auction]
    BY LenProperties DEF AuctionInv
<1>3. x.bids # << >> /\ x.bids \in Seq(Bid)
    BY <1>1 DEF awardAuction, Auction
<1>4. x.bids[1] \in Bid
    BY <1>3, EmptySeq, ElementOfSeq
<1>5. <<x.bids[1]>> \in Seq(Bid)
    BY <1>4
<1>6. y \in Auction /\ y.bids = x.bids /\ y.status = "AWARDED" /\ y.winningBid = <<x.bids[1]>>
    BY <1>1, <1>5 DEF Auction
<1>7. auctions' = [auctions EXCEPT ![a] = y] /\ UNCHANGED <<created, bidCount>>
    BY <1>2 DEF awardAuction
<1> HIDE DEF y
<1>8. AuctionOK(y, bidCount)
    BY <1>1, <1>3, <1>6 DEF AuctionOK
<1> QED
    BY <1>1, <1>6, <1>7, <1>8, OneAuction DEF AuctionInv

\* The clock only moves the closing times.
LEMMA ClockStep ==
    ASSUME AuctionInv, AuctionTick PROVE AuctionInv'
<1>1. Len(auctions) \in Nat /\ DOMAIN auctions = 1 .. Len(auctions)
      /\ \A a \in 1 .. Len(auctions) : auctions[a] \in Auction
    BY LenProperties, ElementOfSeq DEF AuctionInv
<1>2. ASSUME NEW a \in 1 .. Len(auctions)
      PROVE  /\ auctions'[a] \in Auction
             /\ auctions'[a].bids = auctions[a].bids
             /\ auctions'[a].status = auctions[a].status
             /\ auctions'[a].winningBid = auctions[a].winningBid
    <2>1. PICK left \in Int : auctions'[a] = [auctions[a] EXCEPT !.left = left]
        <3>1. auctions[a].left \in Int
            BY <1>1 DEF Auction
        <3>2. auctions'[a] = [auctions[a] EXCEPT !.left =
                    IF auctions[a].left < 0 THEN auctions[a].left ELSE auctions[a].left - 1]
            BY <1>1 DEF AuctionTick
        <3> DEFINE l == IF auctions[a].left < 0 THEN auctions[a].left ELSE auctions[a].left - 1
        <3>3. l \in Int
            BY <3>1
        <3>4. auctions'[a] = [auctions[a] EXCEPT !.left = l]
            BY <3>2
        <3> HIDE DEF l
        <3> QED
            BY <3>3, <3>4
    <2> QED
        BY <2>1, <1>1 DEF Auction
<1>3. auctions' \in [1 .. Len(auctions) -> Auction]
    BY <1>1, <1>2 DEF AuctionTick
<1>4. auctions' \in Seq(Auction) /\ Len(auctions') = Len(auctions)
    BY <1>1, <1>3, LenProperties
<1>5. \A a \in 1 .. Len(auctions) : AuctionOK(auctions'[a], bidCount)
    BY <1>2 DEF AuctionInv, AuctionOK
<1> QED
    BY <1>4, <1>5 DEF AuctionInv, AuctionTick

\* awardAuction gives the load to the best bid that submitBid ever accepted for
\* it, and later bids and awards do not change that.
THEOREM WinnerIsBestCorrect == AuctionSpec => []WinnerIsBest
<1>1. AuctionInit => AuctionInv
    <2> SUFFICES ASSUME AuctionInit PROVE AuctionInv
        OBVIOUS
    <2>1. auctions = << >> /\ created = 0 /\ bidCount = 0
        BY DEF AuctionInit
    <2>2. << >> \in Seq(Auction) /\ Len(<< >>) = 0
        BY EmptySeq
    <2> QED
        BY <2>1, <2>2 DEF AuctionInv
<1>2. AuctionInv /\ UNCHANGED auctionVars => AuctionInv'
    BY DEF AuctionInv, auctionVars
<1>3. AuctionInv /\ [AuctionNext]_auctionVars => AuctionInv'
    BY <1>2, CreateStep, SubmitStep, AwardStep, ClockStep DEF AuctionNext
<1>4. AuctionInv => WinnerIsBest
    <2> SUFFICES ASSUME AuctionInv, NEW a \in DOMAIN auctions,
                        NEW w \in ToSet(auctions[a].winningBid),
                        NEW b \in ToSet(auctions[a].bids) \ {w}
                 PROVE  Better(w, b)
        BY DEF WinnerIsBest, Better
    <2> DEFINE x == auctions[a]
    <2>1. x \in Auction /\ AuctionOK(x, bidCount)
        BY LenProperties, ElementOfSeq DEF AuctionInv
    <2> HIDE DEF x
    <2>2. x.bids \in Seq(Bid) /\ DOMAIN x.bids = 1 .. Len(x.bids) /\ Len(x.bids) \in Nat
        BY <2>1, LenProperties DEF Auction
    <2>3. PICK j \in 1 .. Len(x.bids) : b = x.bids[j]
        BY <2>2 DEF ToSet, x
    <2>4. x.winningBid # << >>
        BY DEF ToSet, x
    <2>5. w = x.bids[1]
        <3>1. x.winningBid = <<x.bids[1]>>
            BY <2>1, <2>4 DEF AuctionOK
        <3> QED
            BY <3>1 DEF ToSet, x
    <2>6. 1 \in 1 .. Len(x.bids) /\ 1 < j
        BY <2>2, <2>3, <2>5
    <2> QED
        BY <2>1, <2>3, <2>5, <2>6 DEF AuctionOK, Ordered
<1> QED
    BY <1>1, <1>3, <1>4, PTL DEF AuctionSpec
----------------------------------------------------------------------------
(* Deferred revenue: any totals, terms and start months.                   *)

Entries ==
    [period : [year : Nat, month : 1 .. 12], beginning : Nat, recognized : Nat, ending : Nat]

\* What is left after m months at the monthly rate
LeftAfter(m) == IF contractTotal >= m * monthlyRate THEN contractTotal - m * monthlyRate ELSE 0

\* The balance is what the months so far leave, and the entries are consecutive
\* months that hand the balance on.
ScheduleInv ==
    /\ contractTotal \in Nat /\ durationMonths \in Nat \ {0} /\ startMonth \in Nat
    /\ monthlyRate \in Nat /\ monthlyRate \in Rounded(contractTotal, durationMonths)
    /\ schedule \in Seq(Entries) /\ Len(schedule) <= durationMonths
    /\ Len(schedule) < durationMonths => currentDeferred = LeftAfter(Len(schedule))
    /\ Len(schedule) = durationMonths =>
        /\ currentDeferred = 0
        /\ schedule[durationMonths].recognized = LeftAfter(durationMonths - 1)
    /\ \A m \in 1 .. Len(schedule) : schedule[m].period = PeriodKey(m - 1)
    /\ \A m \in 1 .. Len(schedule) - 1 : schedule[m + 1].beginning = schedule[m].ending
    /\ Len(schedule) > 0 => schedule[Len(schedule)].ending = currentDeferred

LEMMA Products ==
    ASSUME NEW m \in Nat, NEW r \in Nat
    PROVE  m * r \in Nat /\ (m + 1) * r = m * r + r
    OBVIOUS

LEMMA LeftFacts ==
    ASSUME ScheduleInv, NEW m \in Nat
    PROVE  /\ LeftAfter(m) \in Nat
           /\ LeftAfter(m) >= monthlyRate => LeftAfter(m + 1) = LeftAfter(m) - monthlyRate
           /\ LeftAfter(m) < monthlyRate => LeftAfter(m + 1) = 0
<1>1. contractTotal \in Nat /\ monthlyRate \in Nat
    BY DEF ScheduleInv
<1>2. m * monthlyRate \in Nat /\ (m + 1) * monthlyRate = m * monthlyRate + monthlyRate
    BY <1>1, Products
<1> QED
    BY <1>1, <1>2 DEF LeftAfter

LEMMA RateIsNatural ==
    ASSUME NEW a \in Nat, NEW b \in Nat \ {0}, NEW r \in Rounded(a, b)
    PROVE  r \in Nat
<1>1. a \div b \in Nat
    OBVIOUS
<1> QED
    BY <1>1 DEF Rounded

LEMMA ScheduleStart == ScheduleInit => ScheduleInv
<1> SUFFICES ASSUME ScheduleInit PROVE ScheduleInv
    OBVIOUS
<1>1. contractTotal \in Nat /\ durationMonths \in Nat \ {0} /\ startMonth \in Nat
    BY ScheduleAssumption DEF ScheduleInit
<1>2. monthlyRate \in Nat
    BY <1>1, RateIsNatural DEF ScheduleInit
<1>3. schedule \in Seq(Entries) /\ Len(schedule) = 0
    BY DEF ScheduleInit
<1>4. 0 * monthlyRate = 0
    BY <1>2
<1>5. currentDeferred = LeftAfter(0)
    BY <1>1, <1>4 DEF ScheduleInit, LeftAfter
<1> QED
    BY <1>1, <1>2, <1>3, <1>5 DEF ScheduleInit, ScheduleInv

LEMMA PeriodType ==
    ASSUME startMonth \in Nat, NEW m \in Nat
    PROVE  PeriodKey(m) \in [year : Nat, month : 1 .. 12]
<1>1. (startMonth + m) \div 12 \in Nat /\ ((startMonth + m) % 12) + 1 \in 1 .. 12
    OBVIOUS
<1> QED
    BY <1>1 DEF PeriodKey

LEMMA ScheduleStep == ScheduleInv /\ [RecognizeMonth]_scheduleVars => ScheduleInv'
<1> SUFFICES ASSUME ScheduleInv, [RecognizeMonth]_scheduleVars PROVE ScheduleInv'
    OBVIOUS
<1>1. CASE RecognizeMonth
    <2> DEFINE m == Len(schedule)
               entry == [period |-> PeriodKey(m), beginning |-> currentDeferred,
                         recognized |-> Recognized(m), ending |-> currentDeferred - Recognized(m)]
    <2>1. /\ m < durationMonths
          /\ schedule' = Append(schedule, entry)
          /\ currentDeferred' = currentDeferred - Recognized(m)
          /\ UNCHANGED <<contractTotal, durationMonths, startMonth, monthlyRate>>
        BY <1>1 DEF RecognizeMonth
    <2>2. /\ m \in Nat /\ contractTotal \in Nat /\ durationMonths \in Nat \ {0} /\ startMonth \in Nat
          /\ monthlyRate \in Nat /\ schedule \in Seq(Entries)
          /\ currentDeferred = LeftAfter(m) /\ LeftAfter(m) \in Nat
        BY <2>1, LeftFacts DEF ScheduleInv
    <2>3. /\ Recognized(m) \in Nat /\ currentDeferred - Recognized(m) \in Nat
          /\ m + 1 < durationMonths => currentDeferred - Recognized(m) = LeftAfter(m + 1)
          /\ m + 1 = durationMonths =>
                Recognized(m) = LeftAfter(m) /\ currentDeferred - Recognized(m) = 0
        <3>1. /\ LeftAfter(m) >= monthlyRate => LeftAfter(m + 1) = LeftAfter(m) - monthlyRate
              /\ LeftAfter(m) < monthlyRate => LeftAfter(m + 1) = 0
            BY <2>2, LeftFacts
        <3> HIDE DEF m
        <3> QED
            BY <3>1, <2>2 DEF Recognized
    <2>4. entry \in Entries
        BY <2>2, <2>3, PeriodType DEF Entries
    <2>5. /\ entry.period = PeriodKey(m) /\ entry.beginning = currentDeferred
          /\ entry.recognized = Recognized(m) /\ entry.ending = currentDeferred'
        BY <2>1
    <2> HIDE DEF entry
    <2>6. /\ schedule' \in Seq(Entries) /\ Len(schedule') = m + 1
          /\ \A i \in 1 .. m : schedule'[i] = schedule[i]
          /\ schedule'[m + 1] = entry
        BY <2>1, <2>2, <2>4, AppendProperties
    <2>7. \A k \in Nat : LeftAfter(k)' = LeftAfter(k)
        BY <2>1 DEF LeftAfter
    <2>8. \A k : PeriodKey(k)' = PeriodKey(k)
        BY <2>1 DEF PeriodKey
    <2> HIDE DEF m
    <2>9. \A i \in 1 .. m + 1 : schedule'[i].period = PeriodKey(i - 1)'
        <3>1. \A i \in 1 .. m : schedule[i].period = PeriodKey(i - 1)
            BY DEF ScheduleInv, m
        <3>2. (m + 1) - 1 = m
            BY <2>2
        <3>3. \A i \in 1 .. m + 1 : i \in 1 .. m \/ i = m + 1
            BY <2>2
        <3> QED
            BY <3>1, <3>2, <3>3, <2>5, <2>6, <2>8
    <2>10. \A i \in 1 .. m : schedule'[i + 1].beginning = schedule'[i].ending
        <3>1. \A i \in 1 .. m - 1 : schedule[i + 1].beginning = schedule[i].ending
            BY DEF ScheduleInv, m
        <3>2. m > 0 => schedule[m].ending = currentDeferred
            BY DEF ScheduleInv, m
        <3>3. ASSUME NEW i \in 1 .. m PROVE schedule'[i + 1].beginning = schedule'[i].ending
            <4>1. CASE i = m
                BY <4>1, <2>2, <2>5, <2>6, <3>2
            <4>2. CASE i # m
                <5>1. i \in 1 .. m - 1 /\ i + 1 \in 1 .. m
                    BY <4>2, <2>2
                <5> QED
                    BY <5>1, <2>6, <3>1
            <4> QED
                BY <4>1, <4>2
        <3> QED
            BY <3>3
    <2>11. m + 1 < durationMonths => currentDeferred' = LeftAfter(m + 1)
        BY <2>1, <2>3
    <2>12. m + 1 = durationMonths =>
                currentDeferred' = 0 /\ schedule'[durationMonths].recognized = LeftAfter(durationMonths - 1)
        <3>1. (m + 1) - 1 = m
            BY <2>2
        <3> QED
            BY <3>1, <2>1, <2>3, <2>5, <2>6
    <2>13. m + 1 <= durationMonths /\ m + 1 > 0 /\ (m + 1) - 1 = m /\ durationMonths - 1 \in Nat
        BY <2>1, <2>2 DEF m
    <2>14. monthlyRate \in Rounded(contractTotal, durationMonths)
        BY DEF ScheduleInv
    <2>15. Rounded(contractTotal, durationMonths)' = Rounded(contractTotal, durationMonths)
        BY <2>1 DEF Rounded
    <2>16. schedule'[m + 1].ending = currentDeferred'
        BY <2>5, <2>6
    <2>17. (/\ contractTotal \in Nat /\ durationMonths \in Nat \ {0} /\ startMonth \in Nat
            /\ monthlyRate \in Nat /\ monthlyRate \in Rounded(contractTotal, durationMonths)
            /\ schedule \in Seq(Entries) /\ Len(schedule) <= durationMonths)'
        BY <2>1, <2>2, <2>6, <2>13, <2>14, <2>15
    <2>18. (Len(schedule) < durationMonths => currentDeferred = LeftAfter(Len(schedule)))'
        BY <2>1, <2>2, <2>6, <2>7, <2>11
    <2>19. (Len(schedule) = durationMonths =>
                /\ currentDeferred = 0
                /\ schedule[durationMonths].recognized = LeftAfter(durationMonths - 1))'
        BY <2>1, <2>6, <2>7, <2>12, <2>13
    <2>20. (/\ \A i \in 1 .. Len(schedule) : schedule[i].period = PeriodKey(i - 1)
            /\ \A i \in 1 .. Len(schedule) - 1 : schedule[i + 1].beginning = schedule[i].ending
            /\ Len(schedule) > 0 => schedule[Len(schedule)].ending = currentDeferred)'
        BY <2>6, <2>9, <2>10, <2>13, <2>16
    <2> QED
        BY <2>17, <2>18, <2>19, <2>20, Zenon DEF ScheduleInv
<1>2. CASE UNCHANGED scheduleVars
    BY <1>2 DEF scheduleVars, ScheduleInv, LeftAfter, PeriodKey, Rounded
<1> QED
    BY <1>1, <1>2

\* The last month is off an even share by what rounding the rate has done.
LEMMA ScheduleExactFrom == ScheduleInv => ScheduleExact
<1> SUFFICES ASSUME ScheduleInv PROVE ScheduleExact
    OBVIOUS
<1> DEFINE D == durationMonths
           R == monthlyRate
           T == contractTotal
<1>1. T \in Nat /\ D \in Nat \ {0} /\ R \in Nat /\ Len(schedule) \in Nat /\ Len(schedule) <= D
    BY DEF ScheduleInv
<1>2. 2 * (R * D - T) <= D /\ 2 * (T - R * D) <= D
    BY DEF ScheduleInv, Rounded
<1>3. (D - 1) * R \in Nat /\ D * R = (D - 1) * R + R /\ R * D = D * R
    <2>1. D - 1 \in Nat /\ (D - 1) + 1 = D
        BY <1>1
    <2> QED
        BY <2>1, <1>1, Products
<1>4. currentDeferred >= 0
    <2>1. Len(schedule) < D => currentDeferred \in Nat
        BY <1>1, LeftFacts DEF ScheduleInv
    <2>2. Len(schedule) = D => currentDeferred = 0
        BY DEF ScheduleInv
    <2> QED
        BY <2>1, <2>2, <1>1
<1>5. ASSUME Len(schedule) = D
      PROVE  /\ currentDeferred = 0
             /\ 2 * (schedule[D].recognized - R) <= D
             /\ 2 * (R - schedule[D].recognized) <= D
    <2>1. currentDeferred = 0 /\ schedule[D].recognized = LeftAfter(D - 1)
        BY <1>5 DEF ScheduleInv
    <2>2. CASE T >= (D - 1) * R
        <3>1. schedule[D].recognized = T - (D - 1) * R
            BY <2>1, <2>2 DEF LeftAfter
        <3> QED
            BY <3>1, <2>1, <1>1, <1>2, <1>3
    <2>3. CASE ~(T >= (D - 1) * R)
        <3>1. schedule[D].recognized = 0
            BY <2>1, <2>3 DEF LeftAfter
        <3> QED
            BY <3>1, <2>1, <2>3, <1>1, <1>2, <1>3
    <2> QED
        BY <2>2, <2>3
<1> QED
    BY <1>4, <1>5 DEF ScheduleExact

LEMMA PeriodsFrom == ScheduleInv => PeriodsFollow
<1> SUFFICES ASSUME ScheduleInv, NEW m \in 1 .. Len(schedule) - 1
             PROVE  /\ schedule[m + 1].period.month \in 1 .. 12
                    /\ 12 * schedule[m + 1].period.year + schedule[m + 1].period.month
                         = 12 * schedule[m].period.year + schedule[m].period.month + 1
                    /\ schedule[m + 1].beginning = schedule[m].ending
    BY DEF PeriodsFollow
<1>1. Len(schedule) \in Nat /\ startMonth \in Nat
    BY DEF ScheduleInv
<1>2. m \in 1 .. Len(schedule) /\ m + 1 \in 1 .. Len(schedule) /\ m \in Nat /\ (m + 1) - 1 = m
    BY <1>1
<1>3. schedule[m].period = PeriodKey(m - 1) /\ schedule[m + 1].period = PeriodKey(m)
    BY <1>2 DEF ScheduleInv
<1>4. ASSUME NEW k \in Nat
      PROVE  /\ PeriodKey(k).month = ((startMonth + k) % 12) + 1
             /\ PeriodKey(k).year = (startMonth + k) \div 12
    BY DEF PeriodKey
<1>5. ASSUME NEW x \in Nat PROVE 12 * (x \div 12) + (x % 12) = x /\ x % 12 \in 0 .. 11 /\ x \div 12 \in Nat
    OBVIOUS
<1>6. m - 1 \in Nat /\ startMonth + m \in Nat /\ startMonth + (m - 1) \in Nat
      /\ startMonth + m = (startMonth + (m - 1)) + 1
    BY <1>1, <1>2
<1>7. schedule[m + 1].beginning = schedule[m].ending
    BY DEF ScheduleInv
<1>8. /\ PeriodKey(m).month \in 1 .. 12
      /\ 12 * PeriodKey(m).year + PeriodKey(m).month = 12 * PeriodKey(m - 1).year + PeriodKey(m - 1).month + 1
    <2> DEFINE x == startMonth + (m - 1)
               y == startMonth + m
    <2>1. x \in Nat /\ y \in Nat /\ y = x + 1
        BY <1>6
    <2>2. 12 * (x \div 12) + (x % 12) = x /\ x % 12 \in 0 .. 11 /\ x \div 12 \in Nat
        BY <2>1, <1>5
    <2>3. 12 * (y \div 12) + (y % 12) = y /\ y % 12 \in 0 .. 11 /\ y \div 12 \in Nat
        BY <2>1, <1>5
    <2>4. /\ PeriodKey(m).month = (y % 12) + 1 /\ PeriodKey(m).year = y \div 12
          /\ PeriodKey(m - 1).month = (x % 12) + 1 /\ PeriodKey(m - 1).year = x \div 12
        BY <1>2, <1>4, <1>6
    <2> HIDE DEF x, y
    <2> QED
        BY <2>1, <2>2, <2>3, <2>4
<1> QED
    BY <1>3, <1>7, <1>8
----------------------------------------------------------------------------
(* The ring buffer: any capacity, any items.                               *)

\* The publications into a slot
Into(idx) == {n \in 0 .. sequence - 1 : Slot(n) = idx}

\* A slot holds the last publication into it, or nothing.
HoldsLast(idx) ==
    \/ Into(idx) = {} /\ buffer[idx] = <<>>
    \/ \E n \in Into(idx) : (\A k \in Into(idx) : k <= n) /\ buffer[idx] = <<stream[n + 1]>>

RingInv ==
    /\ sequence \in Nat
    /\ stream \in Seq(Items) /\ Len(stream) = sequence
    /\ DOMAIN buffer = 0 .. capacity - 1
    /\ \A idx \in 0 .. capacity - 1 : HoldsLast(idx)

LEMMA SlotType == \A n \in Nat : Slot(n) \in 0 .. capacity - 1
<1> SUFFICES ASSUME NEW n \in Nat PROVE Slot(n) \in 0 .. capacity - 1
    OBVIOUS
<1>1. capacity \in Nat \ {0}
    BY RingAssumption
<1> QED
    BY <1>1 DEF Slot

LEMMA RingStart == RingInit => RingInv
<1> SUFFICES ASSUME RingInit PROVE RingInv
    OBVIOUS
<1>1. sequence = 0 /\ stream \in Seq(Items) /\ Len(stream) = 0
    BY DEF RingInit
<1>2. \A idx : Into(idx) = {}
    BY <1>1 DEF Into
<1> QED
    BY <1>1, <1>2 DEF RingInit, RingInv, HoldsLast

LEMMA RingStep == RingInv /\ [RingNext]_ringVars => RingInv'
<1> SUFFICES ASSUME RingInv, [RingNext]_ringVars PROVE RingInv'
    OBVIOUS
<1>1. ASSUME NEW item \in Items, publishItem(item) PROVE RingInv'
    <2> DEFINE w == Slot(sequence)
    <2>1. /\ sequence \in Nat /\ stream \in Seq(Items) /\ Len(stream) = sequence
          /\ DOMAIN buffer = 0 .. capacity - 1
        BY DEF RingInv
    <2>2. /\ sequence' = sequence + 1 /\ stream' = Append(stream, item)
          /\ buffer' = [buffer EXCEPT ![w] = <<item>>]
        BY <1>1 DEF publishItem, WriteSlot, Slot
    <2>3. w \in 0 .. capacity - 1
        BY <2>1, SlotType
    <2>4. /\ stream' \in Seq(Items) /\ Len(stream') = sequence + 1 /\ stream'[sequence + 1] = item
          /\ \A i \in 1 .. sequence : stream'[i] = stream[i]
        BY <2>1, <2>2, AppendProperties
    <2>5. \A n : Slot(n)' = Slot(n)
        BY DEF Slot
    <2>6. ASSUME NEW idx
          PROVE  /\ idx # w => Into(idx)' = Into(idx)
                 /\ idx = w => Into(idx)' = Into(idx) \cup {sequence}
        <3>1. 0 .. sequence' - 1 = (0 .. sequence - 1) \cup {sequence}
            BY <2>1, <2>2
        <3> QED
            BY <3>1, <2>5 DEF Into
    <2>7. \A idx : Into(idx) \subseteq 0 .. sequence - 1
        BY DEF Into
    <2> HIDE DEF w
    <2>8. ASSUME NEW idx \in 0 .. capacity - 1
          PROVE  HoldsLast(idx)'
        <3>1. CASE idx = w
            <4>1. sequence \in Into(idx)' /\ \A k \in Into(idx)' : k <= sequence
                BY <3>1, <2>1, <2>6, <2>7
            <4>2. buffer'[idx] = <<stream'[sequence + 1]>>
                BY <3>1, <2>1, <2>2, <2>3, <2>4
            <4> QED
                BY <4>1, <4>2 DEF HoldsLast
        <3>2. CASE idx # w
            <4>1. Into(idx)' = Into(idx) /\ buffer'[idx] = buffer[idx]
                BY <3>2, <2>1, <2>2, <2>6
            <4>2. \A n \in Into(idx) : stream'[n + 1] = stream[n + 1]
                <5>1. \A n \in Into(idx) : n + 1 \in 1 .. sequence
                    BY <2>1, <2>7
                <5> QED
                    BY <5>1, <2>4
            <4>3. \/ Into(idx) = {} /\ buffer[idx] = <<>>
                  \/ \E n \in Into(idx) : (\A k \in Into(idx) : k <= n) /\ buffer[idx] = <<stream[n + 1]>>
                BY DEF RingInv, HoldsLast
            <4> QED
                BY <4>1, <4>2, <4>3 DEF HoldsLast
        <3> QED
            BY <3>1, <3>2
    <2>9. DOMAIN buffer' = 0 .. capacity - 1
        BY <2>1, <2>2
    <2> QED
        BY <2>1, <2>2, <2>4, <2>8, <2>9 DEF RingInv
<1>2. CASE UNCHANGED ringVars
    BY <1>2 DEF ringVars, RingInv, HoldsLast, Into, Slot
<1> QED
    BY <1>1, <1>2 DEF RingNext

LEMMA RingFrom == RingInv => RingAgrees
<1> SUFFICES ASSUME RingInv, NEW at \in 0 .. sequence + capacity - 1
             PROVE  LET same == {n \in 0 .. sequence - 1 : Slot(n) = Slot(at)}
                    IN  get(at) = IF same = {} THEN <<>>
                                   ELSE <<stream[1 + CHOOSE n \in same : \A k \in same : k <= n]>>
    BY DEF RingAgrees
<1> DEFINE same == {n \in 0 .. sequence - 1 : Slot(n) = Slot(at)}
           last == CHOOSE n \in same : \A k \in same : k <= n
<1>1. sequence \in Nat /\ capacity \in Nat /\ at \in Nat
    BY RingAssumption DEF RingInv
<1>2. Slot(at) \in 0 .. capacity - 1
    BY <1>1, SlotType
<1>3. same = Into(Slot(at)) /\ same \subseteq Nat
    BY <1>1 DEF Into
<1> HIDE DEF same
<1>4. CASE same = {}
    BY <1>2, <1>3, <1>4 DEF RingInv, HoldsLast, get, same
<1>5. CASE same # {}
    <2>1. PICK n \in same : (\A k \in same : k <= n) /\ buffer[Slot(at)] = <<stream[n + 1]>>
        BY <1>2, <1>3, <1>5 DEF RingInv, HoldsLast
    <2>2. last \in same /\ \A k \in same : k <= last
        BY <2>1
    <2>3. last = n
        <3>1. last <= n /\ n <= last /\ last \in Nat /\ n \in Nat
            BY <2>1, <2>2, <1>3
        <3> QED
            BY <3>1
    <2>4. 1 + last = n + 1
        BY <2>1, <2>3, <1>3
    <2> QED
        BY <2>1, <2>4, <1>5 DEF get, same
<1> QED
    BY <1>4, <1>5
----------------------------------------------------------------------------
(* The window of samples: any length of the window.                        *)

\* What is kept is the end of what arrived, and all before it is stale.
SamplesInv ==
    /\ sampleTime \in Nat
    /\ samples \in Seq(Nat) /\ ingested \in Seq(Nat)
    /\ Len(samples) <= Len(ingested)
    /\ \A i \in 1 .. Len(samples) : samples[i] = ingested[Len(ingested) - Len(samples) + i]
    /\ \A i \in 1 .. Len(ingested) - Len(samples) : IsStale(ingested[i])

\* A sequence that agrees with the end of another is its suffix.
LEMMA SuffixFacts ==
    ASSUME NEW S, NEW s \in Seq(S), NEW t \in Seq(S), Len(s) <= Len(t),
           \A i \in 1 .. Len(s) : s[i] = t[Len(t) - Len(s) + i]
    PROVE  IsSuffix(s, t)
<1> DEFINE r == Reverse(s)
           q == Reverse(t)
<1>1. Len(s) \in Nat /\ Len(t) \in Nat
    BY LenProperties
<1>2. /\ r \in Seq(S) /\ Len(r) = Len(s)
      /\ \A i \in 1 .. Len(s) : r[i] = s[(Len(s) - i) + 1]
    <2>1. \A i \in 1 .. Len(s) : (Len(s) - i) + 1 \in 1 .. Len(s)
        BY <1>1
    <2>2. \A i \in 1 .. Len(s) : s[(Len(s) - i) + 1] \in S
        BY <2>1, ElementOfSeq
    <2>3. r \in [1 .. Len(s) -> S]
        BY <2>2 DEF Reverse
    <2> QED
        BY <2>3, <1>1, IsASeq, LenProperties DEF Reverse
<1>3. /\ q \in Seq(S) /\ Len(q) = Len(t)
      /\ \A i \in 1 .. Len(t) : q[i] = t[(Len(t) - i) + 1]
    <2>1. \A i \in 1 .. Len(t) : (Len(t) - i) + 1 \in 1 .. Len(t)
        BY <1>1
    <2>2. \A i \in 1 .. Len(t) : t[(Len(t) - i) + 1] \in S
        BY <2>1, ElementOfSeq
    <2>3. q \in [1 .. Len(t) -> S]
        BY <2>2 DEF Reverse
    <2> QED
        BY <2>3, <1>1, IsASeq, LenProperties DEF Reverse
<1> HIDE DEF r, q
<1>4. ASSUME NEW i \in 1 .. Len(s) PROVE r[i] = q[i]
    <2>1. (Len(s) - i) + 1 \in 1 .. Len(s) /\ i \in 1 .. Len(t)
          /\ Len(t) - Len(s) + ((Len(s) - i) + 1) = (Len(t) - i) + 1
        BY <1>1
    <2> QED
        BY <2>1, <1>2, <1>3
<1>5. SubSeq(r, 1, Len(r)) = SubSeq(q, 1, Len(r))
    <2>1. /\ SubSeq(r, 1, Len(r)) = [i \in 1 .. Len(s) |-> r[i]]
          /\ SubSeq(q, 1, Len(r)) = [i \in 1 .. Len(s) |-> q[i]]
        BY <1>1, <1>2, <1>3
    <2> QED
        BY <2>1, <1>4
<1> QED
    BY <1>1, <1>2, <1>3, <1>5 DEF IsSuffix, IsPrefix, r, q

LEMMA SamplesStart == SamplesInit => SamplesInv
    BY DEF SamplesInit, SamplesInv

\* The stale samples at the front go, and the first that is not stays.
LEMMA Dropped ==
    ASSUME NEW buf \in Seq(Nat)
    PROVE  \E d \in 0 .. Len(buf) :
                /\ DropStale(buf) \in Seq(Nat) /\ Len(DropStale(buf)) = Len(buf) - d
                /\ \A i \in 1 .. Len(buf) - d : DropStale(buf)[i] = buf[d + i]
                /\ \A i \in 1 .. d : IsStale(buf[i])
<1> DEFINE fresh == {i \in DOMAIN buf : ~IsStale(buf[i])}
           T == fresh \cup {Len(buf) + 1}
           f == Min(T)
           d == f - 1
<1>1. Len(buf) \in Nat /\ DOMAIN buf = 1 .. Len(buf)
    BY LenProperties
<1>2. T \in SUBSET Nat /\ T # {}
    BY <1>1
<1> HIDE DEF T
<1>3. f \in T /\ \A i \in T : f <= i
    <2>1. \E x \in T : \A y \in T : x <= y
        BY <1>2, SmallestNumber
    <2> QED
        BY <2>1 DEF Min
<1>4. f \in 1 .. Len(buf) + 1
    BY <1>1, <1>3 DEF T
<1> HIDE DEF f
<1>5. d \in 0 .. Len(buf) /\ d + 1 = f
    BY <1>1, <1>4
<1>6. \A i \in 1 .. d : IsStale(buf[i])
    <2> SUFFICES ASSUME NEW i \in 1 .. d PROVE IsStale(buf[i])
        OBVIOUS
    <2>1. i \in 1 .. Len(buf) /\ ~(f <= i)
        BY <1>1, <1>4, <1>5
    <2> QED
        BY <2>1, <1>1, <1>3 DEF T
<1>7. DropStale(buf) = SubSeq(buf, f, Len(buf))
    BY Zenon DEF DropStale, f, T
<1>8. /\ DropStale(buf) \in Seq(Nat) /\ Len(DropStale(buf)) = Len(buf) - d
      /\ \A i \in 1 .. Len(buf) - d : DropStale(buf)[i] = buf[d + i]
    <2>1. \A i \in f .. Len(buf) : buf[i] \in Nat
        BY <1>1, <1>4, ElementOfSeq
    <2>2. f \in Int /\ Len(buf) \in Int
        BY <1>1, <1>4
    <2>3. /\ SubSeq(buf, f, Len(buf)) \in Seq(Nat)
          /\ Len(SubSeq(buf, f, Len(buf))) = IF f <= Len(buf) THEN Len(buf) - f + 1 ELSE 0
          /\ \A i \in 1 .. Len(buf) - f + 1 : SubSeq(buf, f, Len(buf))[i] = buf[f + i - 1]
        BY <2>1, <2>2, SubSeqProperties
    <2>4. Len(buf) - f + 1 = Len(buf) - d /\ \A i \in 1 .. Len(buf) - d : f + i - 1 = d + i
        BY <1>1, <1>4, <1>5
    <2> QED
        BY <2>3, <2>4, <1>1, <1>4, <1>7
<1> HIDE DEF d
<1> QED
    BY <1>5, <1>6, <1>8

LEMMA SamplesStep == SamplesInv /\ [SamplesNext]_sampleVars => SamplesInv'
<1> SUFFICES ASSUME SamplesInv, [SamplesNext]_sampleVars PROVE SamplesInv'
    OBVIOUS
<1>1. ASSUME NEW timestamp \in 0 .. sampleTime, ingestSample(timestamp) PROVE SamplesInv'
    <2> DEFINE buf == Append(samples, timestamp)
               n == Len(ingested)
               k == Len(samples)
    <2>1. /\ samples' = DropStale(buf) /\ ingested' = Append(ingested, timestamp)
          /\ sampleTime' = sampleTime
        BY <1>1 DEF ingestSample
    <2>2. /\ samples \in Seq(Nat) /\ ingested \in Seq(Nat) /\ timestamp \in Nat
          /\ n \in Nat /\ k \in Nat /\ k <= n
        BY LenProperties DEF SamplesInv
    <2>3. /\ buf \in Seq(Nat) /\ Len(buf) = k + 1 /\ buf[k + 1] = timestamp
          /\ \A i \in 1 .. k : buf[i] = samples[i]
        BY <2>2, AppendProperties
    <2>4. /\ ingested' \in Seq(Nat) /\ Len(ingested') = n + 1 /\ ingested'[n + 1] = timestamp
          /\ \A i \in 1 .. n : ingested'[i] = ingested[i]
        BY <2>1, <2>2, AppendProperties
    <2> HIDE DEF buf
    <2>5. PICK d \in 0 .. Len(buf) :
                /\ samples' \in Seq(Nat) /\ Len(samples') = Len(buf) - d
                /\ \A i \in 1 .. Len(buf) - d : samples'[i] = buf[d + i]
                /\ \A i \in 1 .. d : IsStale(buf[i])
        BY <2>1, <2>3, Dropped
    <2>6. \A x : IsStale(x)' = IsStale(x)
        BY <2>1 DEF IsStale
    <2>7. /\ \A i \in 1 .. k : samples[i] = ingested[n - k + i]
          /\ \A i \in 1 .. n - k : IsStale(ingested[i])
        BY DEF SamplesInv
    <2> HIDE DEF n, k
    <2>8. \A i \in 1 .. k + 1 : buf[i] = ingested'[n - k + i]
        <3> SUFFICES ASSUME NEW i \in 1 .. k + 1 PROVE buf[i] = ingested'[n - k + i]
            OBVIOUS
        <3>1. CASE i = k + 1
            <4>1. n - k + i = n + 1
                BY <3>1, <2>2
            <4> QED
                BY <4>1, <3>1, <2>3, <2>4
        <3>2. CASE i # k + 1
            <4>1. i \in 1 .. k /\ n - k + i \in 1 .. n
                BY <3>2, <2>2
            <4> QED
                BY <4>1, <2>3, <2>4, <2>7
        <3> QED
            BY <3>1, <3>2
    <2>9. \A i \in 1 .. Len(samples') : samples'[i] = ingested'[Len(ingested') - Len(samples') + i]
        <3> SUFFICES ASSUME NEW i \in 1 .. Len(samples')
                     PROVE  samples'[i] = ingested'[Len(ingested') - Len(samples') + i]
            OBVIOUS
        <3>1. /\ i \in 1 .. Len(buf) - d /\ d + i \in 1 .. k + 1
              /\ n - k + (d + i) = Len(ingested') - Len(samples') + i
            BY <2>2, <2>3, <2>4, <2>5
        <3> QED
            BY <3>1, <2>5, <2>8
    <2>10. \A i \in 1 .. Len(ingested') - Len(samples') : IsStale(ingested'[i])
        <3> SUFFICES ASSUME NEW i \in 1 .. Len(ingested') - Len(samples') PROVE IsStale(ingested'[i])
            OBVIOUS
        <3>1. i \in 1 .. (n - k) + d
            BY <2>2, <2>3, <2>4, <2>5
        <3>2. CASE i <= n - k
            <4>1. i \in 1 .. n - k /\ i \in 1 .. n
                BY <3>1, <3>2, <2>2
            <4> QED
                BY <4>1, <2>4, <2>7
        <3>3. CASE ~(i <= n - k)
            <4>1. i - (n - k) \in 1 .. d /\ i - (n - k) \in 1 .. k + 1 /\ n - k + (i - (n - k)) = i
                BY <3>1, <3>3, <2>2, <2>3, <2>5
            <4>2. buf[i - (n - k)] = ingested'[i]
                BY <4>1, <2>8
            <4> QED
                BY <4>1, <4>2, <2>5
        <3> QED
            BY <3>2, <3>3
    <2>11. Len(samples') <= Len(ingested')
        BY <2>2, <2>3, <2>4, <2>5
    <2>12. sampleTime' \in Nat
        BY <2>1 DEF SamplesInv
    <2> QED
        BY <2>4, <2>5, <2>6, <2>9, <2>10, <2>11, <2>12 DEF SamplesInv
<1>2. CASE SampleTick
    <2>1. sampleTime \in Nat /\ sampleTime' = sampleTime + 1 /\ samples' = samples /\ ingested' = ingested
        BY <1>2 DEF SampleTick, SamplesInv
    <2>2. \A x \in Nat : IsStale(x) => IsStale(x)'
        BY <2>1, SampleAssumption DEF IsStale
    <2>3. \A i \in 1 .. Len(ingested) - Len(samples) : ingested[i] \in Nat
        <3>1. /\ ingested \in Seq(Nat) /\ Len(ingested) \in Nat /\ Len(samples) \in Nat
              /\ \A i \in 1 .. Len(ingested) : ingested[i] \in Nat
            BY LenProperties, ElementOfSeq DEF SamplesInv
        <3> QED
            BY <3>1
    <2> QED
        BY <2>1, <2>2, <2>3 DEF SamplesInv
<1>3. CASE UNCHANGED sampleVars
    BY <1>3 DEF sampleVars, SamplesInv, IsStale
<1> QED
    BY <1>1, <1>2, <1>3 DEF SamplesNext

LEMMA FreshFrom == SamplesInv => FreshKept
<1> SUFFICES ASSUME SamplesInv PROVE FreshKept
    OBVIOUS
<1>1. IsSuffix(samples, ingested)
    BY SuffixFacts DEF SamplesInv
<1>2. /\ Len(ingested) \in Nat /\ Len(samples) \in Nat /\ DOMAIN ingested = 1 .. Len(ingested)
      /\ Len(samples) <= Len(ingested)
    BY LenProperties DEF SamplesInv
<1>3. ASSUME NEW i \in DOMAIN ingested, ~IsStale(ingested[i])
      PROVE  i > Len(ingested) - Len(samples)
    <2>1. i \notin 1 .. Len(ingested) - Len(samples)
        BY <1>3 DEF SamplesInv
    <2> QED
        BY <2>1, <1>2
<1> QED
    BY <1>1, <1>3 DEF FreshKept
----------------------------------------------------------------------------
(* Picking from lots: any lots, any request.                               *)

LotsInv == lots \in Seq(LotNumbers \X LotRecords)

LEMMA LotsStart == LotInit => LotsInv
    BY DEF LotInit, LotsInv

LEMMA LotsStep == LotsInv /\ [LotNext]_lotVars => LotsInv'
<1> SUFFICES ASSUME LotsInv, [LotNext]_lotVars PROVE LotsInv'
    OBVIOUS
<1>1. ASSUME NEW n \in LotNumbers, NEW record \in LotRecords, registerLot(n, record)
      PROVE  LotsInv'
    <2> DEFINE e == <<n, record>>
               new == [i \in DOMAIN lots |-> IF lots[i][1] = n THEN e ELSE lots[i]]
    <2>1. e \in LotNumbers \X LotRecords
        OBVIOUS
    <2>2. lots \in Seq(LotNumbers \X LotRecords)
        BY DEF LotsInv
    <2>3. CASE lots' = new
        <3>1. /\ Len(lots) \in Nat /\ DOMAIN lots = 1 .. Len(lots)
              /\ \A i \in 1 .. Len(lots) : lots[i] \in LotNumbers \X LotRecords
            BY <2>2, LenProperties, ElementOfSeq
        <3>2. new \in [1 .. Len(lots) -> LotNumbers \X LotRecords]
            BY <2>1, <3>1
        <3>3. new \in Seq(LotNumbers \X LotRecords)
            BY <3>1, <3>2, IsASeq
        <3> QED
            BY <2>3, <3>3 DEF LotsInv
    <2>4. CASE lots' = Append(lots, e)
        BY <2>1, <2>2, <2>4, AppendProperties DEF LotsInv
    <2> QED
        BY <1>1, <2>3, <2>4 DEF registerLot
<1>2. CASE LotTick
    BY <1>2 DEF LotTick, LotsInv
<1>3. CASE UNCHANGED lotVars
    BY <1>3 DEF lotVars, LotsInv
<1> QED
    BY <1>1, <1>2, <1>3 DEF LotNext

LEMMA PickableFacts ==
    ASSUME LotsInv
    PROVE  /\ IsFiniteSet(pickable) /\ pickable \subseteq Nat
           /\ \A i \in pickable : expires(i) \in Nat /\ onHand(i) \in Nat \ {0}
<1>1. /\ Len(lots) \in Nat /\ DOMAIN lots = 1 .. Len(lots)
      /\ \A i \in 1 .. Len(lots) : lots[i] \in LotNumbers \X LotRecords
    BY LenProperties, ElementOfSeq DEF LotsInv
<1>2. IsFiniteSet(1 .. Len(lots)) /\ pickable \in SUBSET (1 .. Len(lots))
    BY <1>1, FS_Interval DEF pickable
<1>3. IsFiniteSet(pickable)
    BY <1>2, FS_Subset
<1>4. ASSUME NEW i \in pickable PROVE expires(i) \in Nat /\ onHand(i) \in Nat \ {0}
    <2>1. lots[i][2] \in LotRecords /\ Pickable(lots[i][2])
        BY <1>1 DEF pickable
    <2>2. lots[i][2].expirationDate \in Nat /\ lots[i][2].quantityOnHand \in Nat
        BY <2>1, LotAssumption
    <2>3. lots[i][2].quantityOnHand > 0
        BY <2>1 DEF Pickable
    <2> QED
        BY <2>2, <2>3 DEF expires, onHand
<1> QED
    BY <1>1, <1>2, <1>3, <1>4

LEMMA LenFacts ==
    ASSUME NEW S, NEW n \in Nat, NEW s \in [1 .. n -> S]
    PROVE  s \in Seq(S) /\ Len(s) = n /\ DOMAIN s = 1 .. n
<1>1. s \in Seq(S)
    BY IsASeq
<1>2. Len(s) \in Nat /\ DOMAIN s = 1 .. Len(s)
    BY <1>1, LenProperties
<1>3. 1 .. Len(s) = 1 .. n
    BY <1>2
<1>4. Len(s) = n
    BY <1>2, <1>3
<1> QED
    BY <1>1, <1>4

\* The lots to pick from are sorted: each is there once, after those that
\* expire sooner.
LEMMA OrderFacts ==
    ASSUME LotsInv
    PROVE  LET N == Cardinality(pickable)
               order == matchingLots
           IN  /\ N \in Nat /\ Len(order) = N
               /\ order \in [1 .. N -> pickable]
               /\ \A m, n \in 1 .. N : order[m] = order[n] => m = n
               /\ \A i \in pickable : \E n \in 1 .. N : order[n] = i
               /\ \A m, n \in 1 .. N : Sooner(order[m], order[n]) => m < n
<1> DEFINE N == Cardinality(pickable)
           S == pickable
           B == [i \in S |-> {k \in S : Sooner(k, i)}]
           order == matchingLots
           next(n) == CHOOSE i \in S : Cardinality({k \in S : Sooner(k, i)}) = n - 1
<1>1. /\ IsFiniteSet(S) /\ S \subseteq Nat /\ \A i \in S : expires(i) \in Nat
    BY PickableFacts
<1> HIDE DEF S
<1>2. \A x \in S : B[x] = {k \in S : Sooner(k, x)}
    OBVIOUS
<1> HIDE DEF B
<1>3. \A x \in S : B[x] \in SUBSET S /\ x \notin B[x]
    BY <1>1, <1>2 DEF Sooner
<1>4. \A x, y \in S : x # y => x \in B[y] \/ y \in B[x]
    BY <1>1, <1>2 DEF Sooner
<1>5. ASSUME NEW x \in S, NEW y \in S, x \in B[y] PROVE B[x] \subseteq B[y]
    <2> SUFFICES ASSUME NEW z \in B[x] PROVE z \in B[y]
        OBVIOUS
    <2>1. z \in S /\ Sooner(z, x) /\ Sooner(x, y)
        BY <1>2, <1>5
    <2>2. /\ expires(x) \in Nat /\ expires(y) \in Nat /\ expires(z) \in Nat
          /\ x \in Nat /\ y \in Nat /\ z \in Nat
        BY <2>1, <1>1
    <2>3. Sooner(z, y)
        BY <2>1, <2>2 DEF Sooner
    <2> QED
        BY <2>1, <2>3, <1>2
<1>6. /\ Cardinality(S) \in Nat
      /\ \A x \in S : Cardinality(B[x]) \in 0 .. Cardinality(S) - 1
      /\ \A x, y \in S : Cardinality(B[x]) < Cardinality(B[y]) <=> x \in B[y]
      /\ \A x, y \in S : Cardinality(B[x]) = Cardinality(B[y]) => x = y
      /\ \A n \in 0 .. Cardinality(S) - 1 : \E x \in S : Cardinality(B[x]) = n
    BY <1>1, <1>3, <1>4, <1>5, RankFacts
<1>7. N \in Nat /\ N = Cardinality(S)
    BY <1>6 DEF S
<1>8. order = [n \in 1 .. N |-> next(n)]
    BY Zenon DEF matchingLots, S
<1> HIDE DEF N, order, next
<1>9. ASSUME NEW n \in 1 .. N PROVE order[n] \in S /\ Cardinality(B[order[n]]) = n - 1
    <2>1. n - 1 \in 0 .. Cardinality(S) - 1
        BY <1>7
    <2>2. PICK x \in S : Cardinality(B[x]) = n - 1
        BY <2>1, <1>6
    <2>3. Cardinality({k \in S : Sooner(k, x)}) = n - 1
        BY <2>2, <1>2
    <2>4. order[n] = CHOOSE i \in S : Cardinality({k \in S : Sooner(k, i)}) = n - 1
        BY <1>8, Zenon DEF next
    <2>5. order[n] \in S /\ Cardinality({k \in S : Sooner(k, order[n])}) = n - 1
        BY <2>3, <2>4, Zenon
    <2> QED
        BY <2>5, <1>2
<1>10. order \in [1 .. N -> S] /\ Len(order) = N
    <2>1. \A n \in 1 .. N : order[n] \in S
        BY <1>9
    <2>2. order \in [1 .. N -> S]
        BY <1>8, <2>1
    <2> QED
        BY <1>7, <2>2, LenFacts
<1>11. \A m, n \in 1 .. N : order[m] = order[n] => m = n
    <2> SUFFICES ASSUME NEW m \in 1 .. N, NEW n \in 1 .. N, order[m] = order[n] PROVE m = n
        OBVIOUS
    <2>1. m - 1 = n - 1
        BY <1>9
    <2> QED
        BY <2>1, <1>7
<1>12. ASSUME NEW i \in S PROVE \E n \in 1 .. N : order[n] = i
    <2> DEFINE n == Cardinality(B[i]) + 1
    <2>1. n \in 1 .. N /\ n - 1 = Cardinality(B[i])
        BY <1>6, <1>7
    <2>2. order[n] \in S /\ Cardinality(B[order[n]]) = Cardinality(B[i])
        BY <2>1, <1>9
    <2>3. order[n] = i
        BY <2>2, <1>6
    <2> QED
        BY <2>1, <2>3
<1>13. ASSUME NEW m \in 1 .. N, NEW n \in 1 .. N, Sooner(order[m], order[n]) PROVE m < n
    <2>1. order[m] \in B[order[n]]
        BY <1>2, <1>9, <1>13
    <2>2. m - 1 < n - 1
        BY <2>1, <1>6, <1>9
    <2> QED
        BY <2>2, <1>7
<1> QED
    BY <1>7, <1>10, <1>11, <1>12, <1>13 DEF N, S, order

\* loop is what the loop over the lots computes for the request q.
AllocationLoop(loop, q) ==
    loop = [n \in 0 .. Len(matchingLots) |->
            IF n = 0 THEN [remaining |-> q, picks |-> <<>>]
            ELSE LET acc == loop[n - 1]
                     take == Take(acc.remaining, lots[matchingLots[n]][2])
                 IN  IF acc.remaining = 0 THEN acc
                     ELSE [remaining |-> acc.remaining - take,
                           picks |-> Append(acc.picks, [lot |-> matchingLots[n], quantity |-> take])]]

PickRecords == [lot : pickable, quantity : Nat]
LoopStates == [remaining : Nat, picks : Seq(PickRecords)]

\* The step of the loop
Taken(acc, i) ==
    IF acc.remaining = 0 THEN acc
    ELSE [remaining |-> acc.remaining - Take(acc.remaining, lots[i][2]),
          picks |-> Append(acc.picks, [lot |-> i, quantity |-> Take(acc.remaining, lots[i][2])])]

LEMMA TakeFacts ==
    ASSUME LotsInv, NEW i \in pickable, NEW r \in Nat
    PROVE  LET take == Take(r, lots[i][2])
           IN  /\ take \in Nat /\ take <= r /\ take <= onHand(i)
               /\ take = r \/ take = onHand(i)
<1> DEFINE h == onHand(i)
           T == {r, h}
<1>1. h \in Nat
    BY PickableFacts
<1>2. Take(r, lots[i][2]) = Min(T)
    BY Zenon DEF Take, onHand
<1> HIDE DEF h
<1>3. \E x \in T : \A y \in T : x <= y
    BY <1>1
<1>4. Min(T) \in T /\ \A y \in T : Min(T) <= y
    BY <1>3, Zenon DEF Min
<1> QED
    BY <1>1, <1>2, <1>4 DEF h

LEMMA TakenType ==
    ASSUME LotsInv, NEW i \in pickable, NEW acc \in LoopStates
    PROVE  /\ Taken(acc, i) \in LoopStates
           /\ acc.remaining = 0 => Taken(acc, i) = acc
           /\ acc.remaining # 0 =>
                LET take == Take(acc.remaining, lots[i][2])
                IN  /\ Taken(acc, i).remaining = acc.remaining - take
                    /\ Taken(acc, i).picks = Append(acc.picks, [lot |-> i, quantity |-> take])
<1> DEFINE take == Take(acc.remaining, lots[i][2])
           pick == [lot |-> i, quantity |-> take]
<1>1. acc.remaining \in Nat /\ acc.picks \in Seq(PickRecords)
    BY DEF LoopStates
<1>2. take \in Nat /\ acc.remaining - take \in Nat
    BY <1>1, TakeFacts
<1> HIDE DEF take
<1>3. pick \in PickRecords
    BY <1>2 DEF PickRecords
<1> HIDE DEF pick
<1>4. Append(acc.picks, pick) \in Seq(PickRecords)
    BY <1>1, <1>3, AppendProperties
<1>5. Taken(acc, i) = IF acc.remaining = 0 THEN acc
                      ELSE [remaining |-> acc.remaining - take, picks |-> Append(acc.picks, pick)]
    BY Zenon DEF Taken, take, pick
<1> QED
    BY <1>2, <1>4, <1>5 DEF LoopStates, pick, take

LEMMA LoopExists ==
    ASSUME LotsInv, NEW q \in Nat
    PROVE  \E loop : AllocationLoop(loop, q)
<1> DEFINE N == Cardinality(pickable)
           order == matchingLots
           start == [remaining |-> q, picks |-> <<>>]
           D == (1 .. N) \X LoopStates
           step == [e \in D |-> Taken(e[2], order[e[1]])]
<1>1. N \in Nat /\ Len(order) = N /\ order \in [1 .. N -> pickable]
    BY OrderFacts
<1>2. start \in LoopStates
    BY DEF LoopStates
<1> HIDE DEF order, N
<1>3. step \in [D -> LoopStates]
    <2>1. \A e \in D : e[1] \in 1 .. N /\ e[2] \in LoopStates
        OBVIOUS
    <2>2. \A e \in D : Taken(e[2], order[e[1]]) \in LoopStates
        BY <2>1, <1>1, TakenType
    <2> QED
        BY <2>2
<1>4. \A i \in 1 .. N, acc \in LoopStates : step[<<i, acc>>] = Taken(acc, order[i])
    OBVIOUS
<1> HIDE DEF start, step, D
<1>5. PICK f \in [0 .. N -> LoopStates] : RunsTo(f, start, step, N)
    <2>1. step \in [(1 .. N) \X LoopStates -> LoopStates]
        BY <1>3 DEF D
    <2> QED
        BY <2>1, <1>1, <1>2, RunExists
<1>6. ASSUME NEW n \in 0 .. N
      PROVE  f[n] = IF n = 0 THEN start ELSE Taken(f[n - 1], order[n])
    <2>1. f[n] = IF n = 0 THEN start ELSE step[<<n, f[n - 1]>>]
        BY <1>5 DEF RunsTo
    <2>2. n # 0 => n \in 1 .. N /\ f[n - 1] \in LoopStates
        BY <1>1
    <2> QED
        BY <2>1, <2>2, <1>4
<1>7. f = [n \in 0 .. N |-> IF n = 0 THEN start ELSE Taken(f[n - 1], order[n])]
    BY <1>6
<1>8. AllocationLoop(f, q)
    BY <1>1, <1>7, Zenon DEF AllocationLoop, Taken, start, order
<1> QED
    BY <1>8

Quantities(picks) == [p \in 1 .. Len(picks) |-> picks[p].quantity]

\* After n lots: the first lots of the order, but the last as a whole, and the
\* last too if anything is left to allocate.
LoopAgrees(acc, n, q) ==
    LET L == Len(acc.picks)
        qty == Quantities(acc.picks)
    IN  /\ acc \in LoopStates
        /\ L <= n
        /\ \A p \in 1 .. L : /\ acc.picks[p].lot = matchingLots[p]
                             /\ qty[p] > 0 /\ qty[p] <= onHand(matchingLots[p])
                             /\ p < L \/ acc.remaining > 0 => qty[p] = onHand(matchingLots[p])
        /\ acc.remaining > 0 => L = n
        /\ acc.remaining + SumFunctionOnSet(qty, 1 .. L) = q

LEMMA LoopStep ==
    ASSUME LotsInv, NEW q \in Nat, NEW n \in Nat, n + 1 \in 1 .. Cardinality(pickable),
           NEW acc, LoopAgrees(acc, n, q)
    PROVE  LoopAgrees(Taken(acc, matchingLots[n + 1]), n + 1, q)
<1> DEFINE i == matchingLots[n + 1]
           L == Len(acc.picks)
           qty == Quantities(acc.picks)
           new == Taken(acc, i)
           take == Take(acc.remaining, lots[i][2])
           pick == [lot |-> i, quantity |-> take]
<1>1. /\ acc \in LoopStates /\ acc.remaining \in Nat /\ acc.picks \in Seq(PickRecords) /\ L \in Nat
      /\ L <= n
      /\ \A p \in 1 .. L : /\ acc.picks[p].lot = matchingLots[p]
                           /\ qty[p] > 0 /\ qty[p] <= onHand(matchingLots[p])
                           /\ p < L \/ acc.remaining > 0 => qty[p] = onHand(matchingLots[p])
      /\ acc.remaining > 0 => L = n
      /\ acc.remaining + SumFunctionOnSet(qty, 1 .. L) = q
    BY LenProperties DEF LoopAgrees, LoopStates
<1>2. i \in pickable /\ onHand(i) \in Nat \ {0}
    BY OrderFacts, PickableFacts
<1>3. CASE acc.remaining = 0
    <2>1. new = acc
        BY <1>1, <1>2, <1>3, TakenType
    <2>2. L <= n + 1 /\ ~(acc.remaining > 0)
        BY <1>1, <1>3
    <2>3. LoopAgrees(acc, n + 1, q)
        BY <2>2, <1>1, Zenon DEF LoopAgrees
    <2> QED
        BY <2>1, <2>3
<1>4. CASE acc.remaining # 0
    <2>1. /\ new \in LoopStates /\ new.remaining = acc.remaining - take
          /\ new.picks = Append(acc.picks, pick)
        BY <1>1, <1>2, <1>4, TakenType
    <2>2. /\ take \in Nat /\ take <= acc.remaining /\ take <= onHand(i)
          /\ take = acc.remaining \/ take = onHand(i)
        BY <1>1, <1>2, TakeFacts
    <2> HIDE DEF new, take
    <2>3. acc.remaining > 0 /\ L = n /\ take > 0
        BY <1>1, <1>2, <1>4, <2>2
    <2>4. pick \in PickRecords /\ pick.lot = i /\ pick.quantity = take
        BY <1>2, <2>2 DEF PickRecords
    <2> HIDE DEF pick
    <2>5. /\ Len(new.picks) = L + 1 /\ new.picks[L + 1] = pick
          /\ \A p \in 1 .. L : new.picks[p] = acc.picks[p]
        BY <1>1, <2>1, <2>4, AppendProperties
    <2> DEFINE M == Len(new.picks)
               qty2 == Quantities(new.picks)
    <2>6. M = n + 1 /\ 1 .. M = 1 .. L + 1
        BY <1>1, <2>3, <2>5
    <2>7. qty2[L + 1] = take /\ \A p \in 1 .. L : qty2[p] = qty[p]
        <3>1. \A p \in 1 .. M : qty2[p] = new.picks[p].quantity
            BY DEF Quantities
        <3>2. \A p \in 1 .. L : qty[p] = acc.picks[p].quantity
            BY DEF Quantities
        <3> HIDE DEF qty, qty2, M
        <3>3. L + 1 \in 1 .. M /\ \A p \in 1 .. L : p \in 1 .. M
            BY <1>1, <2>6
        <3> QED
            BY <3>1, <3>2, <3>3, <2>4, <2>5
    <2>8. \A p \in 1 .. L : qty[p] \in Nat
        <3>1. \A p \in 1 .. L : acc.picks[p] \in PickRecords
            BY <1>1, ElementOfSeq
        <3>2. \A p \in 1 .. L : qty[p] = acc.picks[p].quantity
            BY DEF Quantities
        <3> HIDE DEF qty
        <3> QED
            BY <3>1, <3>2 DEF PickRecords
    <2> HIDE DEF qty, qty2, L, M
    <2>9. SumFunctionOnSet(qty2, 1 .. M) = SumFunctionOnSet(qty, 1 .. L) + take
        <3>1. \A k \in 1 .. L : qty2[k] \in Int /\ qty2[k] = qty[k]
            BY <2>7, <2>8
        <3>2. qty2[L + 1] \in Int
            BY <2>2, <2>7
        <3>3. SumFunctionOnSet(qty2, 1 .. L + 1) = SumFunctionOnSet(qty, 1 .. L) + qty2[L + 1]
            BY <3>1, <3>2, <1>1, SumAppend
        <3> QED
            BY <3>3, <2>6, <2>7
    <2>10. SumFunctionOnSet(qty, 1 .. L) \in Int
        <3>1. \A k \in 1 .. L : qty[k] \in Int
            BY <2>8
        <3>2. IsFiniteSet(1 .. L)
            BY <1>1, FS_Interval
        <3> QED
            BY <3>1, <3>2, SumType
    <2>11. new.remaining + SumFunctionOnSet(qty2, 1 .. M) = q
        <3> DEFINE s == SumFunctionOnSet(qty, 1 .. L)
                   s2 == SumFunctionOnSet(qty2, 1 .. M)
        <3>1. s \in Int /\ s2 = s + take /\ acc.remaining + s = q
            BY <1>1, <2>9, <2>10
        <3> HIDE DEF s, s2
        <3>2. new.remaining + s2 = q
            BY <3>1, <1>1, <2>1, <2>2
        <3> QED
            BY <3>2 DEF s2
    <2>12. ASSUME NEW p \in 1 .. M
           PROVE  /\ new.picks[p].lot = matchingLots[p]
                  /\ qty2[p] > 0 /\ qty2[p] <= onHand(matchingLots[p])
                  /\ p < M \/ new.remaining > 0 => qty2[p] = onHand(matchingLots[p])
        <3>1. CASE p \in 1 .. L
            <4>1. new.picks[p] = acc.picks[p] /\ qty2[p] = qty[p]
                BY <3>1, <2>5, <2>7
            <4> QED
                BY <4>1, <3>1, <1>1, <2>3
        <3>2. CASE p \notin 1 .. L
            <4>1. p = L + 1 /\ p = n + 1 /\ ~(p < M)
                BY <3>2, <1>1, <2>3, <2>6
            <4>2. new.picks[p] = pick /\ qty2[p] = take
                BY <4>1, <2>5, <2>7
            <4>3. new.remaining > 0 => take = onHand(i)
                BY <1>1, <2>1, <2>2
            <4> QED
                BY <4>1, <4>2, <4>3, <2>2, <2>3, <2>4
        <3> QED
            BY <3>1, <3>2
    <2>13. new.remaining > 0 => M = n + 1
        BY <2>6
    <2>14. M <= n + 1
        BY <2>6
    <2>15. LoopAgrees(new, n + 1, q)
        <3> USE DEF M, qty2
        <3> QED
            BY <2>1, <2>11, <2>12, <2>13, <2>14, Zenon DEF LoopAgrees
    <2> QED
        BY <2>15 DEF new
<1> QED
    BY <1>3, <1>4

\* What is proposed
LEMMA ProposalFacts ==
    ASSUME LotsInv, NEW q \in Nat
    PROVE  \E acc : /\ LoopAgrees(acc, Cardinality(pickable), q)
                    /\ getNextFefoAllocation(q) = acc.picks
<1> DEFINE N == Cardinality(pickable)
           g == CHOOSE loop : AllocationLoop(loop, q)
           P == {n \in Nat : n <= N => LoopAgrees(g[n], n, q)}
<1>1. N \in Nat /\ Len(matchingLots) = N
    BY OrderFacts
<1>2. getNextFefoAllocation(q) = g[Len(matchingLots)].picks
    BY Zenon DEF getNextFefoAllocation, AllocationLoop
<1>3. AllocationLoop(g, q)
    BY LoopExists, Zenon
<1> HIDE DEF g
<1>4. ASSUME NEW n \in 0 .. N
      PROVE  g[n] = IF n = 0 THEN [remaining |-> q, picks |-> <<>>]
                    ELSE Taken(g[n - 1], matchingLots[n])
    <2>1. g = [k \in 0 .. N |-> IF k = 0 THEN [remaining |-> q, picks |-> <<>>]
                                ELSE Taken(g[k - 1], matchingLots[k])]
        BY <1>1, <1>3, Zenon DEF AllocationLoop, Taken
    <2> QED
        BY <2>1, Zenon
<1>5. 0 \in P
    <2> DEFINE acc == [remaining |-> q, picks |-> <<>>]
    <2>1. g[0] = acc
        BY <1>1, <1>4
    <2>2. /\ acc \in LoopStates /\ Len(acc.picks) = 0 /\ 1 .. 0 = {} /\ acc.remaining = q
        BY DEF LoopStates
    <2> HIDE DEF acc
    <2>3. LoopAgrees(acc, 0, q)
        <3>1. SumFunctionOnSet(Quantities(acc.picks), 1 .. Len(acc.picks)) = 0
            BY <2>2, SumEmpty
        <3> QED
            BY <3>1, <2>2 DEF LoopAgrees
    <2> QED
        BY <2>1, <2>3
<1>6. ASSUME NEW n \in Nat, n \in P PROVE n + 1 \in P
    <2> SUFFICES ASSUME n + 1 <= N PROVE LoopAgrees(g[n + 1], n + 1, q)
        OBVIOUS
    <2>1. LoopAgrees(g[n], n, q) /\ n + 1 \in 0 .. N /\ n + 1 \in 1 .. N /\ n + 1 # 0 /\ (n + 1) - 1 = n
        BY <1>1, <1>6
    <2>2. g[n + 1] = Taken(g[n], matchingLots[n + 1])
        BY <2>1, <1>4
    <2> QED
        BY <2>1, <2>2, LoopStep
<1> HIDE DEF P
<1>7. \A n \in Nat : n \in P
    BY <1>5, <1>6, SetInduction
<1>8. LoopAgrees(g[N], N, q)
    BY <1>1, <1>7 DEF P
<1> QED
    BY <1>1, <1>2, <1>8
----------------------------------------------------------------------------
LEMMA MinPair ==
    ASSUME NEW a \in Int, NEW b \in Int
    PROVE  Min({a, b}) = IF a <= b THEN a ELSE b
<1> DEFINE T == {a, b}
<1>1. \E x \in T : \A y \in T : x <= y
    OBVIOUS
<1>2. Min(T) \in T /\ \A y \in T : Min(T) <= y
    BY <1>1, Zenon DEF Min
<1> QED
    BY <1>2

LEMMA QuantityFacts ==
    ASSUME NEW picks \in Seq(PickRecords), NEW p \in 1 .. Len(picks)
    PROVE  Quantities(picks)[p] = picks[p].quantity /\ picks[p].quantity \in Nat
<1>1. picks[p] \in PickRecords
    BY ElementOfSeq
<1>2. picks[p].quantity \in Nat
    BY <1>1 DEF PickRecords
<1>3. Quantities(picks)[p] = picks[p].quantity
    BY Zenon DEF Quantities
<1> QED
    BY <1>2, <1>3

\* What is picked from each lot when picks are proposed
FromLot(picks, i) == [p \in DOMAIN picks |-> IF picks[p].lot = i THEN picks[p].quantity ELSE 0]
Picked(picks) == [i \in pickable |-> SumFunction(FromLot(picks, i))]
OnHand == [i \in pickable |-> onHand(i)]

LEMMA PickedFacts ==
    ASSUME LotsInv, NEW q \in Nat, NEW acc, LoopAgrees(acc, Cardinality(pickable), q)
    PROVE  LET L == Len(acc.picks)
               qty == Quantities(acc.picks)
               picked == Picked(acc.picks)
               touched == {matchingLots[p] : p \in 1 .. L}
           IN  /\ \A p \in 1 .. L : picked[matchingLots[p]] = qty[p]
               /\ \A i \in pickable \ touched : picked[i] = 0
<1> DEFINE N == Cardinality(pickable)
           order == matchingLots
           L == Len(acc.picks)
           qty == Quantities(acc.picks)
           touched == {order[p] : p \in 1 .. L}
<1>1. /\ N \in Nat /\ order \in [1 .. N -> pickable]
      /\ \A m, n \in 1 .. N : order[m] = order[n] => m = n
    BY OrderFacts
<1>2. /\ acc \in LoopStates /\ L <= N
      /\ \A p \in 1 .. L : acc.picks[p].lot = order[p] /\ qty[p] > 0
    BY DEF LoopAgrees
<1>3. /\ acc.picks \in Seq(PickRecords) /\ L \in Nat /\ DOMAIN acc.picks = 1 .. L
    BY <1>2, LenProperties DEF LoopStates
<1>4. \A p \in 1 .. L : qty[p] = acc.picks[p].quantity /\ acc.picks[p].quantity \in Nat
    BY <1>3, QuantityFacts
<1> HIDE DEF N, order, L, qty
<1>5. IsFiniteSet(1 .. L) /\ \A p \in 1 .. L : p \in 1 .. N
    BY <1>1, <1>2, <1>3, FS_Interval
<1>6. \A i \in pickable : Picked(acc.picks)[i] = SumFunctionOnSet(FromLot(acc.picks, i), 1 .. L)
    <2>1. \A i : DOMAIN FromLot(acc.picks, i) = 1 .. L
        BY <1>3 DEF FromLot
    <2> QED
        BY <2>1, Zenon DEF Picked, SumFunction
<1>7. \A i, p : p \in 1 .. L =>
        FromLot(acc.picks, i)[p] = IF order[p] = i THEN qty[p] ELSE 0
    <2> SUFFICES ASSUME NEW i, NEW p \in 1 .. L
                 PROVE  FromLot(acc.picks, i)[p] = IF order[p] = i THEN qty[p] ELSE 0
        OBVIOUS
    <2>1. FromLot(acc.picks, i)[p] = IF acc.picks[p].lot = i THEN acc.picks[p].quantity ELSE 0
        BY <1>3, Zenon DEF FromLot
    <2> QED
        BY <2>1, <1>2, <1>4
<1>8. ASSUME NEW p \in 1 .. L PROVE Picked(acc.picks)[order[p]] = qty[p]
    <2> DEFINE f == FromLot(acc.picks, order[p])
    <2>1. f[p] = qty[p] /\ qty[p] \in Int
        BY <1>4, <1>7
    <2>2. \A x \in 1 .. L : x # p => f[x] = 0
        BY <1>1, <1>5, <1>7
    <2> HIDE DEF f
    <2>3. SumFunctionOnSet(f, 1 .. L) = f[p]
        BY <1>5, <2>1, <2>2, SumOne
    <2>4. order[p] \in pickable
        BY <1>1, <1>5
    <2> QED
        BY <1>6, <2>1, <2>3, <2>4 DEF f
<1>9. ASSUME NEW i \in pickable \ touched PROVE Picked(acc.picks)[i] = 0
    <2> DEFINE f == FromLot(acc.picks, i)
    <2>1. \A x \in 1 .. L : f[x] = 0
        BY <1>7
    <2> HIDE DEF f
    <2>2. SumFunctionOnSet(f, 1 .. L) = 0
        BY <1>5, <2>1, SumZero
    <2> QED
        BY <1>6, <2>2 DEF f
<1> QED
    BY <1>8, <1>9 DEF order, L, qty

LEMMA FefoFrom ==
    ASSUME LotsInv
    PROVE  FefoKept
<1> SUFFICES ASSUME NEW q \in 0 .. MaxRequest
             PROVE  LET picks == getNextFefoAllocation(q)
                        picked == Picked(picks)
                    IN  /\ \A p \in DOMAIN picks : picks[p].lot \in pickable
                        /\ SumFunction(picked) = Min({q, SumFunction(OnHand)})
                        /\ Len(picks) = Cardinality({i \in pickable : picked[i] > 0})
                        /\ \A i, k \in pickable :
                            /\ picked[i] <= onHand(i)
                            /\ picked[k] > 0 /\ expires(i) < expires(k) => picked[i] = onHand(i)
    BY Zenon DEF FefoKept, Picked, FromLot, OnHand
<1>1. q \in Nat
    OBVIOUS
<1>2. PICK acc : /\ LoopAgrees(acc, Cardinality(pickable), q)
                 /\ getNextFefoAllocation(q) = acc.picks
    BY <1>1, ProposalFacts
<1> DEFINE N == Cardinality(pickable)
           order == matchingLots
           L == Len(acc.picks)
           qty == Quantities(acc.picks)
           picked == Picked(acc.picks)
           touched == {order[p] : p \in 1 .. L}
           P == pickable
           s == SumFunctionOnSet(qty, 1 .. L)
           h == SumFunctionOnSet(OnHand, P)
<1>3. /\ N \in Nat /\ order \in [1 .. N -> P]
      /\ \A m, n \in 1 .. N : order[m] = order[n] => m = n
      /\ \A i \in P : \E n \in 1 .. N : order[n] = i
      /\ \A m, n \in 1 .. N : Sooner(order[m], order[n]) => m < n
    BY OrderFacts
<1>4. /\ IsFiniteSet(P) /\ \A i \in P : expires(i) \in Nat /\ onHand(i) \in Nat \ {0}
    BY PickableFacts
<1>5. /\ acc \in LoopStates /\ L <= N
      /\ \A p \in 1 .. L : /\ acc.picks[p].lot = order[p]
                           /\ qty[p] > 0 /\ qty[p] <= onHand(order[p])
                           /\ p < L \/ acc.remaining > 0 => qty[p] = onHand(order[p])
      /\ acc.remaining > 0 => L = N
      /\ acc.remaining + s = q
    BY <1>2 DEF LoopAgrees
<1>6. /\ acc.picks \in Seq(PickRecords) /\ L \in Nat /\ DOMAIN acc.picks = 1 .. L
      /\ acc.remaining \in Nat
    BY <1>5, LenProperties DEF LoopStates
<1>7. \A p \in 1 .. L : qty[p] \in Nat
    BY <1>6, QuantityFacts
<1>8. /\ \A p \in 1 .. L : picked[order[p]] = qty[p]
      /\ \A i \in P \ touched : picked[i] = 0
    BY <1>1, <1>2, PickedFacts
<1>9. DOMAIN picked = P /\ SumFunction(picked) = SumFunctionOnSet(picked, P)
    BY DEF Picked, SumFunction
<1>10. SumFunction(OnHand) = h /\ \A i \in P : OnHand[i] = onHand(i)
    BY DEF OnHand, SumFunction
<1> HIDE DEF N, order, L, qty, picked, P, s, h
<1>11. IsFiniteSet(1 .. L) /\ (\A p \in 1 .. L : p \in 1 .. N) /\ touched \subseteq P
    <2>1. IsFiniteSet(1 .. L)
        BY <1>6, FS_Interval
    <2>2. \A p \in 1 .. L : p \in 1 .. N
        BY <1>3, <1>5, <1>6
    <2>3. \A p \in 1 .. L : order[p] \in P
        BY <2>2, <1>3
    <2> QED
        BY <2>1, <2>2, <2>3
<1>12. \A i \in P : picked[i] \in Nat /\ picked[i] <= onHand(i)
    BY <1>4, <1>5, <1>7, <1>8
<1>13. \A i \in P : picked[i] > 0 <=> i \in touched
    BY <1>5, <1>7, <1>8
<1>14. SumFunctionOnSet(picked, P) = s
    <2>1. \A p \in 1 .. L : order[p] \in touched /\ picked[order[p]] = qty[p] /\ qty[p] \in Int
        BY <1>7, <1>8
    <2>2. \A m, n \in 1 .. L : order[m] = order[n] => m = n
        BY <1>3, <1>11
    <2>3. touched = {order[p] : p \in 1 .. L}
        OBVIOUS
    <2>4. \A i \in touched : picked[i] \in Int /\ picked[i] = picked[i]
        BY <1>11, <1>12
    <2>5. (\A i \in P \ touched : picked[i] = 0) /\ touched \in SUBSET P
        BY <1>8, <1>11
    <2>0. IsFiniteSet(1 .. L)
        BY <1>11
    <2> DEFINE I == 1 .. L
    <2> HIDE DEF touched, I
    <2>6. SumFunctionOnSet(qty, 1 .. L) = SumFunctionOnSet(picked, touched)
        <3>1. /\ IsFiniteSet(I) /\ touched = {order[p] : p \in I}
              /\ \A p \in I : order[p] \in touched /\ picked[order[p]] = qty[p] /\ qty[p] \in Int
              /\ \A m, n \in I : order[m] = order[n] => m = n
            BY <2>1, <2>2, <2>3, <2>0, Zenon DEF I
        <3>2. SumFunctionOnSet(picked, touched) = SumFunctionOnSet(qty, I)
            BY <3>1, SumRename
        <3> QED
            BY <3>2 DEF I
    <2>7. SumFunctionOnSet(picked, touched) = SumFunctionOnSet(picked, P)
        BY <1>4, <2>4, <2>5, SumFilter
    <2> QED
        BY <2>6, <2>7 DEF s
<1>15. s \in Int /\ h \in Int
    <2>1. SumFunctionOnSet(picked, P) \in Int
        BY <1>4, <1>12, SumType
    <2>2. \A i \in P : OnHand[i] \in Int
        BY <1>4, <1>10
    <2>3. SumFunctionOnSet(OnHand, P) \in Int
        BY <1>4, <2>2, SumType
    <2> QED
        BY <1>14, <2>1, <2>3 DEF h
<1>16. s <= h
    <2>1. \A i \in P : picked[i] \in Int /\ OnHand[i] \in Int /\ picked[i] <= OnHand[i]
        BY <1>4, <1>10, <1>12
    <2>2. SumFunctionOnSet(picked, P) <= SumFunctionOnSet(OnHand, P)
        BY <1>4, <2>1, SumMonotone
    <2> QED
        BY <1>14, <2>2 DEF h
<1>17. s = Min({q, h})
    <2>1. CASE acc.remaining = 0
        BY <2>1, <1>5, <1>15, <1>16, MinPair
    <2>2. CASE acc.remaining # 0
        <3>1. acc.remaining > 0 /\ L = N
            BY <2>2, <1>5, <1>6
        <3>2. \A i \in P : picked[i] = OnHand[i]
            BY <3>1, <1>3, <1>5, <1>8, <1>10
        <3>3. s = h
            BY <3>2, <1>4, <1>14, SumCongruence DEF h
        <3>4. h < q
            BY <3>1, <3>3, <1>5, <1>6, <1>15
        <3> QED
            BY <3>3, <3>4, <1>15, MinPair
    <2> QED
        BY <2>1, <2>2
<1>18. L = Cardinality({i \in P : picked[i] > 0})
    <2>1. {i \in P : picked[i] > 0} = touched
        BY <1>11, <1>13
    <2> DEFINE f == [p \in 1 .. L |-> order[p]]
    <2>2. f \in Bijection(1 .. L, touched)
        <3>1. f \in Injection(1 .. L, touched)
            BY <1>3, <1>11 DEF Injection, IsInjective
        <3>2. f \in Surjection(1 .. L, touched)
            BY <1>3, <1>11 DEF Surjection
        <3> QED
            BY <3>1, <3>2 DEF Bijection
    <2>3. ExistsBijection(1 .. L, touched)
        BY <2>2, Zenon DEF ExistsBijection
    <2>4. Cardinality(1 .. L) = L
        BY <1>6, FS_Interval
    <2>5. Cardinality(1 .. L) = Cardinality(touched)
        BY <1>11, <2>3, FS_Bijection, Zenon
    <2> QED
        BY <2>1, <2>4, <2>5
<1>19. ASSUME NEW i \in P, NEW k \in P, picked[k] > 0, expires(i) < expires(k)
       PROVE  picked[i] = onHand(i)
    <2>1. PICK n \in 1 .. L : order[n] = k
        BY <1>13, <1>19
    <2>2. PICK m \in 1 .. N : order[m] = i
        BY <1>3
    <2>3. Sooner(order[m], order[n])
        BY <1>19, <2>1, <2>2 DEF Sooner
    <2>4. m < n
        BY <1>3, <1>11, <2>3
    <2>5. m \in 1 .. L /\ m < L
        BY <2>4, <1>3, <1>6
    <2> QED
        BY <2>2, <2>5, <1>5, <1>8
<1>20. \A p \in DOMAIN acc.picks : acc.picks[p].lot \in P
    BY <1>3, <1>5, <1>6, <1>11
<1>21. SumFunction(picked) = Min({q, SumFunction(OnHand)})
    BY <1>9, <1>10, <1>14, <1>17
<1> QED
    BY <1>2, <1>12, <1>18, <1>19, <1>20, <1>21, Zenon DEF picked, P, L
----------------------------------------------------------------------------
(* Bin packing: any items, any limits.                                     *)

PackItems == [volume : Nat, weight : Nat]

\* One less at the front
LEMMA CopiesTail ==
    ASSUME NEW S, NEW items \in Seq(S), items # <<>>, NEW x
    PROVE  Copies(items, x) = Copies(Tail(items), x) + (IF Head(items) = x THEN 1 ELSE 0)
<1> DEFINE n == Len(items)
           rest == Tail(items)
           A == At(items, x) \ {1}
           f == [i \in At(rest, x) |-> i + 1]
<1>1. n \in Nat \ {0} /\ DOMAIN items = 1 .. n
    BY LenProperties, EmptySeq
<1>2. /\ rest \in Seq(S) /\ Len(rest) = n - 1 /\ Head(items) = items[1]
      /\ \A i \in 1 .. n - 1 : rest[i] = items[i + 1]
    BY HeadTailProperties
<1> HIDE DEF rest
<1>3. DOMAIN rest = 1 .. n - 1
    BY <1>1, <1>2, LenProperties
<1>4. /\ IsFiniteSet(At(items, x)) /\ IsFiniteSet(At(rest, x))
      /\ Copies(items, x) = Cardinality(At(items, x)) /\ Copies(items, x) \in Nat
      /\ Copies(rest, x) = Cardinality(At(rest, x)) /\ Copies(rest, x) \in Nat
    BY <1>2, AtFacts
<1>5. f \in Bijection(At(rest, x), A)
    <2>1. \A i \in At(rest, x) : i \in 1 .. n - 1 /\ items[i + 1] = x
        BY <1>2, <1>3 DEF At
    <2>2. \A i \in At(rest, x) : i + 1 \in A
        BY <2>1, <1>1 DEF At
    <2>3. \A i \in A : i - 1 \in At(rest, x) /\ (i - 1) + 1 = i
        BY <1>1, <1>2, <1>3 DEF At
    <2> HIDE DEF A
    <2>4. f \in Injection(At(rest, x), A)
        BY <2>1, <2>2 DEF Injection, IsInjective
    <2>5. f \in Surjection(At(rest, x), A)
        BY <2>2, <2>3 DEF Surjection
    <2> QED
        BY <2>4, <2>5 DEF Bijection
<1>6. IsFiniteSet(A) /\ Cardinality(A) = Cardinality(At(rest, x))
    <2>1. IsFiniteSet(A)
        BY <1>4, FS_Subset
    <2>2. ExistsBijection(At(rest, x), A)
        BY <1>5, Zenon DEF ExistsBijection
    <2> QED
        BY <2>1, <2>2, <1>4, FS_Bijection, Zenon
<1>7. Cardinality(A) = IF 1 \in At(items, x) THEN Cardinality(At(items, x)) - 1
                       ELSE Cardinality(At(items, x))
    BY <1>4, FS_RemoveElement
<1>8. 1 \in At(items, x) <=> Head(items) = x
    BY <1>1, <1>2 DEF At
<1>9. Copies(items, x) = Copies(rest, x) + (IF Head(items) = x THEN 1 ELSE 0)
    BY <1>4, <1>6, <1>7, <1>8
<1> QED
    BY <1>9 DEF rest

\* The sort moves the items.
LEMMA SortedFacts ==
    ASSUME NEW items \in Seq(PackItems)
    PROVE  /\ SortedByVolume(items) \in Seq(PackItems)
           /\ \A x : Copies(SortedByVolume(items), x) = Copies(items, x)
<1> DEFINE S == 1 .. Len(items)
           B == [i \in S |-> {k \in S : Larger(items, k, i)}]
           next(n) == CHOOSE i \in S : Cardinality({k \in S : Larger(items, k, i)}) = n - 1
           r == [n \in S |-> next(n)]
           N == Len(items)
<1>1. N \in Nat /\ DOMAIN items = S
    BY LenProperties
<1>2. \A i \in S : items[i] \in PackItems /\ items[i].volume \in Nat
    <2>1. \A i \in S : items[i] \in PackItems
        BY ElementOfSeq
    <2> HIDE DEF S
    <2> QED
        BY <2>1 DEF PackItems
<1>3. IsFiniteSet(S) /\ Cardinality(S) = N
    BY <1>1, FS_Interval
<1>4. S \subseteq Nat
    OBVIOUS
<1> HIDE DEF S
<1>5. \A x \in S : B[x] = {k \in S : Larger(items, k, x)}
    OBVIOUS
<1> HIDE DEF B
<1>6. \A x \in S : B[x] \in SUBSET S /\ x \notin B[x]
    BY <1>2, <1>4, <1>5 DEF Larger
<1>7. \A x, y \in S : x # y => x \in B[y] \/ y \in B[x]
    BY <1>2, <1>4, <1>5 DEF Larger
<1>8. ASSUME NEW x \in S, NEW y \in S, x \in B[y] PROVE B[x] \subseteq B[y]
    <2> SUFFICES ASSUME NEW z \in B[x] PROVE z \in B[y]
        OBVIOUS
    <2>1. z \in S /\ Larger(items, z, x) /\ Larger(items, x, y)
        BY <1>5, <1>8
    <2>2. /\ items[x].volume \in Nat /\ items[y].volume \in Nat /\ items[z].volume \in Nat
          /\ x \in Nat /\ y \in Nat /\ z \in Nat
        BY <2>1, <1>2, <1>4
    <2>3. Larger(items, z, y)
        BY <2>1, <2>2 DEF Larger
    <2> QED
        BY <2>1, <2>3, <1>5
<1>9. /\ \A x \in S : Cardinality(B[x]) \in 0 .. N - 1
      /\ \A x, y \in S : Cardinality(B[x]) = Cardinality(B[y]) => x = y
      /\ \A n \in 0 .. N - 1 : \E x \in S : Cardinality(B[x]) = n
    <2>1. \A x, y \in S : x \in B[y] => B[x] \subseteq B[y]
        BY <1>8
    <2>2. /\ \A x \in S : Cardinality(B[x]) \in 0 .. Cardinality(S) - 1
          /\ \A x, y \in S : Cardinality(B[x]) = Cardinality(B[y]) => x = y
          /\ \A n \in 0 .. Cardinality(S) - 1 : \E x \in S : Cardinality(B[x]) = n
        BY <1>3, <1>6, <1>7, <2>1, RankFacts, Zenon
    <2> QED
        BY <2>2, <1>3, Zenon
<1>10. SortedByVolume(items) = [n \in S |-> items[next(n)]]
    <2> DEFINE G(D) == [n \in D |-> items[CHOOSE i \in D :
                          Cardinality({k \in D : Larger(items, k, i)}) = n - 1]]
    <2>1. SortedByVolume(items) = G(DOMAIN items) /\ G(S) = [n \in S |-> items[next(n)]]
        BY Zenon DEF SortedByVolume
    <2> HIDE DEF G
    <2>2. G(DOMAIN items) = G(S)
        BY <1>1
    <2> QED
        BY <2>1, <2>2
<1>11. \A n \in S : n \in Nat /\ n - 1 \in 0 .. N - 1
    BY <1>1 DEF S
<1>12. ASSUME NEW n \in S PROVE next(n) \in S /\ Cardinality(B[next(n)]) = n - 1
    <2>1. PICK x \in S : Cardinality(B[x]) = n - 1
        BY <1>9, <1>11
    <2>2. Cardinality({k \in S : Larger(items, k, x)}) = n - 1
        BY <2>1, <1>5
    <2>3. next(n) \in S /\ Cardinality({k \in S : Larger(items, k, next(n))}) = n - 1
        BY <2>2, Zenon
    <2> HIDE DEF next
    <2> QED
        BY <2>3, <1>5
<1> HIDE DEF next
<1>13. SortedByVolume(items) \in Seq(PackItems) /\ Len(SortedByVolume(items)) = N
    <2>1. SortedByVolume(items) \in [S -> PackItems]
        BY <1>2, <1>10, <1>12
    <2>2. SortedByVolume(items) \in [1 .. N -> PackItems]
        BY <2>1 DEF S
    <2> QED
        BY <2>2, <1>1, LenFacts
<1>14. /\ \A n \in S : r[n] \in S /\ SortedByVolume(items)[n] = items[r[n]]
       /\ \A m, n \in S : r[m] = r[n] => m = n
       /\ \A i \in S : \E n \in S : r[n] = i
    <2>1. \A n \in S : r[n] \in S /\ r[n] = next(n) /\ SortedByVolume(items)[n] = items[r[n]]
        BY <1>10, <1>12
    <2> HIDE DEF r
    <2>2. ASSUME NEW m \in S, NEW n \in S, r[m] = r[n] PROVE m = n
        <3>1. m - 1 = n - 1
            BY <2>1, <2>2, <1>12
        <3> QED
            BY <3>1, <1>11
    <2>3. ASSUME NEW i \in S PROVE \E n \in S : r[n] = i
        <3> DEFINE n == Cardinality(B[i]) + 1
        <3>1. n \in S /\ n - 1 = Cardinality(B[i])
            BY <1>1, <1>9 DEF S
        <3>2. r[n] = i
            BY <3>1, <2>1, <1>9, <1>12
        <3> QED
            BY <3>1, <3>2
    <2> QED
        BY <2>1, <2>2, <2>3
<1> HIDE DEF r
<1>15. ASSUME NEW x PROVE Copies(SortedByVolume(items), x) = Copies(items, x)
    <2>1. /\ \A n \in 1 .. Len(items) : r[n] \in 1 .. Len(items) /\ SortedByVolume(items)[n] = items[r[n]]
          /\ \A m, n \in 1 .. Len(items) : r[m] = r[n] => m = n
          /\ \A i \in 1 .. Len(items) : \E n \in 1 .. Len(items) : r[n] = i
        BY <1>14 DEF S
    <2> DEFINE sorted == SortedByVolume(items)
    <2>2. sorted \in Seq(PackItems) /\ items \in Seq(PackItems) /\ Len(sorted) = Len(items)
        BY <1>13
    <2>3. \A n \in 1 .. Len(items) : r[n] \in 1 .. Len(items) /\ sorted[n] = items[r[n]]
        BY <2>1
    <2> HIDE DEF sorted
    <2>4. Moves(r, items, sorted)
        BY <2>1, <2>2, <2>3 DEF Moves
    <2>5. Copies(sorted, x) = Copies(items, x)
        BY <2>2, <2>4, CopiesMoved
    <2> QED
        BY <2>5 DEF sorted
<1> QED
    BY <1>13, <1>15
----------------------------------------------------------------------------
\* What a bin holds grows by the item that is put into it.
LEMMA BinLoadFacts ==
    ASSUME NEW bin \in Seq(PackItems)
    PROVE  /\ usedVolume(bin) \in Nat /\ totalWeight(bin) \in Nat
           /\ \A item \in PackItems :
                /\ usedVolume(Append(bin, item)) = usedVolume(bin) + item.volume
                /\ totalWeight(Append(bin, item)) = totalWeight(bin) + item.weight
<1> DEFINE v(s) == [i \in DOMAIN s |-> s[i].volume]
           w(s) == [i \in DOMAIN s |-> s[i].weight]
           n == Len(bin)
<1>1. n \in Nat /\ DOMAIN bin = 1 .. n /\ IsFiniteSet(1 .. n)
    BY LenProperties, FS_Interval
<1>2. \A i \in 1 .. n : bin[i].volume \in Nat /\ bin[i].weight \in Nat
    <2>1. \A i \in 1 .. n : bin[i] \in PackItems
        BY ElementOfSeq
    <2> QED
        BY <2>1 DEF PackItems
<1>3. \A s : /\ usedVolume(s) = SumFunctionOnSet(v(s), DOMAIN s)
             /\ totalWeight(s) = SumFunctionOnSet(w(s), DOMAIN s)
    <2> TAKE s
    <2>1. DOMAIN v(s) = DOMAIN s /\ DOMAIN w(s) = DOMAIN s
        OBVIOUS
    <2> QED
        BY <2>1, Zenon DEF usedVolume, totalWeight, SumFunction
<1>4. \A s, i : i \in DOMAIN s => v(s)[i] = s[i].volume /\ w(s)[i] = s[i].weight
    OBVIOUS
<1> HIDE DEF v, w
<1>5. usedVolume(bin) \in Nat /\ totalWeight(bin) \in Nat
    <2>1. \A i \in 1 .. n : v(bin)[i] \in Nat /\ w(bin)[i] \in Nat
        BY <1>1, <1>2, <1>4
    <2>2. SumFunctionOnSet(v(bin), 1 .. n) \in Nat
        BY <1>1, <2>1, SumNat
    <2>3. SumFunctionOnSet(w(bin), 1 .. n) \in Nat
        BY <1>1, <2>1, SumNat
    <2> QED
        BY <1>1, <1>3, <2>2, <2>3
<1>6. ASSUME NEW item \in PackItems
      PROVE  /\ usedVolume(Append(bin, item)) = usedVolume(bin) + item.volume
             /\ totalWeight(Append(bin, item)) = totalWeight(bin) + item.weight
    <2> DEFINE more == Append(bin, item)
    <2>1. /\ more \in Seq(PackItems) /\ Len(more) = n + 1 /\ more[n + 1] = item
          /\ \A i \in 1 .. n : more[i] = bin[i]
        BY AppendProperties
    <2> HIDE DEF more
    <2>2. DOMAIN more = 1 .. n + 1
        BY <2>1, LenProperties
    <2>3. item.volume \in Nat /\ item.weight \in Nat
        BY DEF PackItems
    <2>4. \A i \in 1 .. n : i \in 1 .. n + 1 /\ i \in Nat
        BY <1>1
    <2>5. n + 1 \in 1 .. n + 1
        BY <1>1
    <2>6. /\ v(more)[n + 1] = item.volume /\ w(more)[n + 1] = item.weight
          /\ v(more)[n + 1] \in Int /\ w(more)[n + 1] \in Int
        BY <1>4, <2>1, <2>2, <2>3, <2>5
    <2>7. \A k \in 1 .. n : /\ v(more)[k] \in Int /\ v(more)[k] = v(bin)[k]
                            /\ w(more)[k] \in Int /\ w(more)[k] = w(bin)[k]
        BY <1>1, <1>2, <1>4, <2>1, <2>2, <2>4
    <2>8. SumFunctionOnSet(v(more), 1 .. n + 1) = SumFunctionOnSet(v(bin), 1 .. n) + v(more)[n + 1]
        BY <1>1, <2>6, <2>7, SumAppend
    <2>9. SumFunctionOnSet(w(more), 1 .. n + 1) = SumFunctionOnSet(w(bin), 1 .. n) + w(more)[n + 1]
        BY <1>1, <2>6, <2>7, SumAppend
    <2>10. usedVolume(more) = usedVolume(bin) + item.volume /\ totalWeight(more) = totalWeight(bin) + item.weight
        BY <1>1, <1>3, <2>2, <2>6, <2>8, <2>9
    <2> QED
        BY <2>10 DEF more
<1> QED
    BY <1>5, <1>6

\* A bin with one item
LEMMA FirstLoad ==
    ASSUME NEW item \in PackItems
    PROVE  /\ <<item>> \in Seq(PackItems) /\ Len(<<item>>) = 1
           /\ usedVolume(<<item>>) = item.volume /\ totalWeight(<<item>>) = item.weight
           /\ \A x : Copies(<<item>>, x) = IF item = x THEN 1 ELSE 0
<1> DEFINE none == <<>>
           one == <<item>>
<1>1. none \in Seq(PackItems) /\ one = Append(none, item) /\ one \in Seq(PackItems) /\ Len(one) = 1
    OBVIOUS
<1>2. usedVolume(none) = 0 /\ totalWeight(none) = 0
    <2> DEFINE v == [i \in DOMAIN <<>> |-> <<>>[i].volume]
               w == [i \in DOMAIN <<>> |-> <<>>[i].weight]
    <2>1. DOMAIN v = {} /\ DOMAIN w = {}
        OBVIOUS
    <2>2. usedVolume(<<>>) = SumFunctionOnSet(v, DOMAIN v) /\ totalWeight(<<>>) = SumFunctionOnSet(w, DOMAIN w)
        BY Zenon DEF usedVolume, totalWeight, SumFunction
    <2> HIDE DEF v, w
    <2> QED
        BY <2>1, <2>2, SumEmpty
<1>3. item.volume \in Nat /\ item.weight \in Nat
    BY DEF PackItems
<1>6. \A x : Copies(none, x) = 0
    BY CopiesNone
<1> HIDE DEF none, one
<1>4. usedVolume(one) = item.volume /\ totalWeight(one) = item.weight
    BY <1>1, <1>2, <1>3, BinLoadFacts
<1>5. ASSUME NEW x PROVE Copies(one, x) = IF item = x THEN 1 ELSE 0
    <2>1. Copies(Append(none, item), x) = Copies(none, x) + (IF item = x THEN 1 ELSE 0)
        BY <1>1, CopiesAppend
    <2> QED
        BY <1>1, <1>6, <2>1
<1> QED
    BY <1>1, <1>4, <1>5 DEF one

LEMMA MinOfNat ==
    ASSUME NEW T \in SUBSET Nat, T # {} PROVE Min(T) \in T
<1> DEFINE P == {n \in Nat : (\E m \in T : m <= n) => \E x \in T : \A y \in T : x <= y}
<1>1. 0 \in P
    OBVIOUS
<1>2. ASSUME NEW n \in Nat, n \in P PROVE n + 1 \in P
    <2>1. CASE \E m \in T : m <= n
        BY <2>1, <1>2
    <2>2. CASE ~\E m \in T : m <= n
        <3>1. \A y \in T : n + 1 <= y
            BY <2>2
        <3> QED
            BY <3>1
    <2> QED
        BY <2>1, <2>2
<1> HIDE DEF P
<1>3. \A n \in Nat : n \in P
    BY <1>1, <1>2, SetInduction
<1>4. \E x \in T : \A y \in T : x <= y
    <2>1. PICK m \in T : m \in Nat
        OBVIOUS
    <2>2. m \in P /\ m <= m
        BY <1>3, <2>1
    <2> QED
        BY <2>1, <2>2 DEF P
<1> QED
    BY <1>4, Zenon DEF Min

\* Copies in all the bins
BinCopies(bs, x) == [b \in DOMAIN bs |-> Copies(bs[b], x)]
InBins(bs, x) == SumFunctionOnSet(BinCopies(bs, x), 1 .. Len(bs))

\* No bin is empty, one that holds more than it should holds one item, no two
\* go into one, and everything is somewhere.
Apart(a, b) ==
    \/ usedVolume(a) + usedVolume(b) > usableVolume
    \/ totalWeight(a) + totalWeight(b) > maxWeightKg
NotOver(a) == usedVolume(a) <= usableVolume /\ totalWeight(a) <= maxWeightKg

BinsInv(bs) ==
    /\ bs \in Seq(Seq(PackItems))
    /\ \A b \in 1 .. Len(bs) : NotOver(bs[b]) \/ Len(bs[b]) = 1
    /\ \A a, b \in 1 .. Len(bs) : a < b => Apart(bs[a], bs[b])

PackingInv ==
    /\ parcels \in Seq(PackItems) /\ sortedItems \in Seq(PackItems)
    /\ BinsInv(bins)
    /\ \A x : InBins(bins, x) + Copies(sortedItems, x) = Copies(parcels, x)

LEMMA PackingStart ==
    ASSUME PackingInit PROVE PackingInv
<1>1. parcels \in Seq(PackItems)
    BY PackingAssumption DEF PackingInit, PackItems
<1>2. sortedItems \in Seq(PackItems) /\ \A x : Copies(sortedItems, x) = Copies(parcels, x)
    BY <1>1, SortedFacts DEF PackingInit
<1>3. bins \in Seq(Seq(PackItems)) /\ Len(bins) = 0 /\ 1 .. Len(bins) = {}
    BY DEF PackingInit
<1>4. \A x : InBins(bins, x) = 0
    BY <1>3, SumEmpty DEF InBins
<1>5. \A x : Copies(parcels, x) \in Nat
    BY <1>1, AtFacts
<1>6. \A x : InBins(bins, x) + Copies(sortedItems, x) = Copies(parcels, x)
    BY <1>2, <1>4, <1>5
<1> QED
    BY <1>1, <1>2, <1>3, <1>6 DEF PackingInv, BinsInv

\* What the bins hold of x is a number.
LEMMA BinFacts ==
    ASSUME NEW bs, BinsInv(bs), NEW x
    PROVE  /\ Len(bs) \in Nat /\ DOMAIN bs = 1 .. Len(bs)
           /\ \A b \in 1 .. Len(bs) : bs[b] \in Seq(PackItems) /\ BinCopies(bs, x)[b] = Copies(bs[b], x)
                                      /\ BinCopies(bs, x)[b] \in Nat
           /\ InBins(bs, x) \in Nat
<1>0. bs \in Seq(Seq(PackItems))
    BY DEF BinsInv
<1>1. Len(bs) \in Nat /\ DOMAIN bs = 1 .. Len(bs)
    BY <1>0, LenProperties
<1>2. \A b \in 1 .. Len(bs) : bs[b] \in Seq(PackItems)
    BY <1>0, ElementOfSeq
<1>3. \A b \in 1 .. Len(bs) : BinCopies(bs, x)[b] = Copies(bs[b], x)
    BY <1>1, Zenon DEF BinCopies
<1>4. \A b \in 1 .. Len(bs) : BinCopies(bs, x)[b] \in Nat
    BY <1>2, <1>3, AtFacts
<1>5. IsFiniteSet(1 .. Len(bs))
    BY <1>1, FS_Interval
<1>6. InBins(bs, x) \in Nat
    BY <1>4, <1>5, SumNat DEF InBins
<1> QED
    BY <1>1, <1>2, <1>3, <1>4, <1>6

FitsIn(bin, item) ==
    /\ usedVolume(bin) + item.volume <= usableVolume
    /\ totalWeight(bin) + item.weight <= maxWeightKg

\* The item is the only one that more holds and bs does not.
Gains(more, bs, item) ==
    /\ BinsInv(more)
    /\ \A x : InBins(more, x) = InBins(bs, x) + (IF item = x THEN 1 ELSE 0)

\* A bin that fits the item grows by it.
LEMMA IntoBin ==
    ASSUME NEW bs, BinsInv(bs), NEW c \in 1 .. Len(bs), NEW item \in PackItems,
           FitsIn(bs[c], item), NEW more, more = [bs EXCEPT ![c] = Append(@, item)]
    PROVE  Gains(more, bs, item)
<1>1. /\ bs \in Seq(Seq(PackItems)) /\ Len(bs) \in Nat /\ DOMAIN bs = 1 .. Len(bs)
      /\ \A b \in 1 .. Len(bs) : bs[b] \in Seq(PackItems)
      /\ \A b \in 1 .. Len(bs) : NotOver(bs[b]) \/ Len(bs[b]) = 1
      /\ \A a, b \in 1 .. Len(bs) : a < b => Apart(bs[a], bs[b])
    BY BinFacts DEF BinsInv
<1>2. item.volume \in Nat /\ item.weight \in Nat /\ usableVolume \in Nat /\ maxWeightKg \in Nat
    BY PackingAssumption DEF PackItems
<1> DEFINE n == Len(bs)
           I == 1 .. n
           S == Seq(PackItems)
<1>3. Append(bs[c], item) \in S
    BY <1>1, AppendProperties
<1>4. more \in [I -> S] /\ more[c] = Append(bs[c], item) /\ \A b \in I : b # c => more[b] = bs[b]
    <2> HIDE DEF S
    <2>1. \A b \in I : bs[b] \in S
        BY <1>1 DEF S
    <2> QED
        BY <2>1, <1>1, <1>3
<1>5. more \in Seq(S) /\ Len(more) = n /\ DOMAIN more = I
    BY <1>1, <1>4, LenFacts
<1> HIDE DEF n, I
<1>6. \A b \in I : /\ usedVolume(bs[b]) \in Nat /\ totalWeight(bs[b]) \in Nat
                   /\ bs[b] \in S
    BY <1>1, BinLoadFacts DEF I, n
<1>7. /\ c \in I
      /\ usedVolume(more[c]) = usedVolume(bs[c]) + item.volume
      /\ totalWeight(more[c]) = totalWeight(bs[c]) + item.weight
    BY <1>1, <1>4, BinLoadFacts DEF I, n
<1>8. \A b \in I : /\ usedVolume(more[b]) \in Nat /\ usedVolume(more[b]) >= usedVolume(bs[b])
                   /\ totalWeight(more[b]) \in Nat /\ totalWeight(more[b]) >= totalWeight(bs[b])
    <2> SUFFICES ASSUME NEW b \in I
                 PROVE  /\ usedVolume(more[b]) \in Nat /\ usedVolume(more[b]) >= usedVolume(bs[b])
                        /\ totalWeight(more[b]) \in Nat /\ totalWeight(more[b]) >= totalWeight(bs[b])
        OBVIOUS
    <2>1. usedVolume(bs[b]) \in Nat /\ totalWeight(bs[b]) \in Nat
        BY <1>6
    <2>2. CASE b = c
        BY <2>1, <2>2, <1>2, <1>7
    <2>3. CASE b # c
        <3>1. more[b] = bs[b]
            BY <2>3, <1>4
        <3> QED
            BY <3>1, <2>1
    <2> QED
        BY <2>2, <2>3
<1>9. ASSUME NEW b \in I PROVE NotOver(more[b]) \/ Len(more[b]) = 1
    <2>1. CASE b = c
        BY <2>1, <1>7 DEF NotOver, FitsIn
    <2>2. CASE b # c
        BY <2>2, <1>1, <1>4 DEF I, n
    <2> QED
        BY <2>1, <2>2
<1>10. ASSUME NEW a \in I, NEW b \in I, a < b PROVE Apart(more[a], more[b])
    <2>1. Apart(bs[a], bs[b])
        BY <1>1, <1>10 DEF I, n
    <2>2. /\ usedVolume(bs[a]) \in Nat /\ usedVolume(bs[b]) \in Nat
          /\ totalWeight(bs[a]) \in Nat /\ totalWeight(bs[b]) \in Nat
        BY <1>6
    <2>3. /\ usedVolume(more[a]) \in Nat /\ usedVolume(more[a]) >= usedVolume(bs[a])
          /\ totalWeight(more[a]) \in Nat /\ totalWeight(more[a]) >= totalWeight(bs[a])
        BY <1>8
    <2>4. /\ usedVolume(more[b]) \in Nat /\ usedVolume(more[b]) >= usedVolume(bs[b])
          /\ totalWeight(more[b]) \in Nat /\ totalWeight(more[b]) >= totalWeight(bs[b])
        BY <1>8
    <2>5. usableVolume \in Nat /\ maxWeightKg \in Nat
        BY <1>2
    <2>6. usedVolume(bs[a]) + usedVolume(bs[b]) <= usedVolume(more[a]) + usedVolume(more[b])
        BY <2>2, <2>3, <2>4
    <2>7. totalWeight(bs[a]) + totalWeight(bs[b]) <= totalWeight(more[a]) + totalWeight(more[b])
        BY <2>2, <2>3, <2>4
    <2>8. CASE usedVolume(bs[a]) + usedVolume(bs[b]) > usableVolume
        <3>1. usedVolume(more[a]) + usedVolume(more[b]) > usableVolume
            BY <2>2, <2>3, <2>4, <2>5, <2>6, <2>8
        <3> QED
            BY <3>1 DEF Apart
    <2>9. CASE totalWeight(bs[a]) + totalWeight(bs[b]) > maxWeightKg
        <3>1. totalWeight(more[a]) + totalWeight(more[b]) > maxWeightKg
            BY <2>2, <2>3, <2>4, <2>5, <2>7, <2>9
        <3> QED
            BY <3>1 DEF Apart
    <2> QED
        BY <2>1, <2>8, <2>9 DEF Apart
<1>11. BinsInv(more)
    BY <1>5, <1>9, <1>10 DEF BinsInv, I, n, S
<1>12. ASSUME NEW x PROVE InBins(more, x) = InBins(bs, x) + (IF item = x THEN 1 ELSE 0)
    <2> DEFINE f == BinCopies(bs, x)
               g == BinCopies(more, x)
    <2>1. \A b \in I : f[b] = Copies(bs[b], x) /\ f[b] \in Nat
        BY BinFacts DEF I, n
    <2>2. \A b \in I : g[b] = Copies(more[b], x) /\ g[b] \in Nat
        BY <1>5, <1>11, BinFacts DEF I
    <2>3. Copies(Append(bs[c], item), x) = Copies(bs[c], x) + (IF item = x THEN 1 ELSE 0)
        BY <1>6, <1>7, CopiesAppend
    <2>4. IsFiniteSet(I)
        BY <1>1, FS_Interval DEF I, n
    <2>5. InBins(bs, x) = SumFunctionOnSet(f, I) /\ InBins(more, x) = SumFunctionOnSet(g, I)
        BY <1>5 DEF InBins, I, n
    <2>6. InBins(bs, x) \in Nat
        BY BinFacts
    <2> HIDE DEF f, g
    <2>7. SumFunctionOnSet(g, I) = SumFunctionOnSet(f, I) + g[c] - f[c]
        <3>1. (\A b \in I : f[b] \in Int) /\ g[c] \in Int /\ c \in I
            BY <1>7, <2>1, <2>2
        <3>2. \A b \in I : b # c => g[b] = f[b]
            BY <1>4, <2>1, <2>2
        <3> QED
            BY <3>1, <3>2, <2>4, SumChange
    <2>8. g[c] = f[c] + (IF item = x THEN 1 ELSE 0) /\ f[c] \in Nat
        BY <1>4, <1>7, <2>1, <2>2, <2>3
    <2> QED
        BY <2>5, <2>6, <2>7, <2>8
<1> QED
    BY <1>11, <1>12 DEF Gains

\* An item that fits no bin opens one.
LEMMA IntoNewBin ==
    ASSUME NEW bs, BinsInv(bs), NEW item \in PackItems,
           \A b \in 1 .. Len(bs) : ~FitsIn(bs[b], item),
           NEW more, more = Append(bs, <<item>>)
    PROVE  Gains(more, bs, item)
<1> DEFINE n == Len(bs)
           I == 1 .. n
           J == 1 .. n + 1
           S == Seq(PackItems)
           one == <<item>>
<1>1. /\ bs \in Seq(S) /\ n \in Nat /\ DOMAIN bs = I
      /\ \A b \in I : bs[b] \in S
      /\ \A b \in I : NotOver(bs[b]) \/ Len(bs[b]) = 1
      /\ \A a, b \in I : a < b => Apart(bs[a], bs[b])
    BY BinFacts DEF BinsInv
<1>2. /\ one \in S /\ Len(one) = 1
      /\ usedVolume(one) = item.volume /\ totalWeight(one) = item.weight
      /\ \A x : Copies(one, x) = IF item = x THEN 1 ELSE 0
    BY FirstLoad
<1>3. \A b \in I : \/ usedVolume(bs[b]) + item.volume > usableVolume
                   \/ totalWeight(bs[b]) + item.weight > maxWeightKg
    <2> SUFFICES ASSUME NEW b \in I
                 PROVE  \/ usedVolume(bs[b]) + item.volume > usableVolume
                        \/ totalWeight(bs[b]) + item.weight > maxWeightKg
        OBVIOUS
    <2>1. /\ usedVolume(bs[b]) \in Nat /\ totalWeight(bs[b]) \in Nat
          /\ item.volume \in Nat /\ item.weight \in Nat
          /\ usableVolume \in Nat /\ maxWeightKg \in Nat
        BY <1>1, BinLoadFacts, PackingAssumption DEF PackItems
    <2> QED
        BY <2>1 DEF FitsIn
<1> HIDE DEF one, S
<1>4. more \in Seq(S) /\ Len(more) = n + 1 /\ more[n + 1] = one /\ \A b \in I : more[b] = bs[b]
    <2>1. more = Append(bs, one)
        BY DEF one
    <2> QED
        BY <2>1, <1>1, <1>2, AppendProperties
<1>5. \A b \in J : b \in I \/ b = n + 1
    BY <1>1
<1>6. \A b \in I : b < n + 1 /\ ~(n + 1 < b)
    BY <1>1
<1> HIDE DEF n, I, J
<1>7. ASSUME NEW b \in J PROVE NotOver(more[b]) \/ Len(more[b]) = 1
    BY <1>1, <1>2, <1>4, <1>5
<1>8. ASSUME NEW a \in J, NEW b \in J, a < b PROVE Apart(more[a], more[b])
    <2>1. a \in I
        <3>1. CASE a = n + 1
            <4>1. b \in I \/ b = n + 1
                BY <1>5
            <4> QED
                BY <4>1, <3>1, <1>1, <1>6, <1>8
        <3> QED
            BY <3>1, <1>5
    <2>2. CASE b \in I
        BY <2>1, <2>2, <1>1, <1>4, <1>8
    <2>3. CASE b = n + 1
        <3>1. more[b] = one /\ more[a] = bs[a]
            BY <2>1, <2>3, <1>4
        <3> QED
            BY <3>1, <2>1, <1>2, <1>3 DEF Apart
    <2> QED
        BY <2>2, <2>3, <1>5
<1>9. BinsInv(more)
    BY <1>4, <1>7, <1>8 DEF BinsInv, J, S
<1>10. ASSUME NEW x PROVE InBins(more, x) = InBins(bs, x) + (IF item = x THEN 1 ELSE 0)
    <2> DEFINE f == BinCopies(bs, x)
               g == BinCopies(more, x)
    <2>1. \A b \in I : f[b] = Copies(bs[b], x) /\ f[b] \in Nat
        BY BinFacts DEF I, n
    <2>2. \A b \in J : g[b] = Copies(more[b], x) /\ g[b] \in Nat
        BY <1>4, <1>9, BinFacts DEF J
    <2>3. /\ InBins(bs, x) = SumFunctionOnSet(f, 1 .. n)
          /\ InBins(more, x) = SumFunctionOnSet(g, 1 .. n + 1)
        BY <1>4 DEF InBins, n
    <2>4. InBins(bs, x) \in Nat
        BY BinFacts
    <2> HIDE DEF f, g
    <2>5. g[n + 1] \in Int /\ g[n + 1] = IF item = x THEN 1 ELSE 0
        BY <1>1, <1>2, <1>4, <2>2 DEF J
    <2>6. \A k \in 1 .. n : g[k] \in Int /\ g[k] = f[k]
        <3>1. \A k \in I : k \in J
            BY <1>1 DEF I, J
        <3>2. ASSUME NEW k \in I PROVE g[k] \in Int /\ g[k] = f[k]
            <4>1. f[k] = Copies(bs[k], x) /\ f[k] \in Nat /\ more[k] = bs[k]
                BY <2>1, <1>4
            <4>2. g[k] = Copies(more[k], x)
                BY <3>1, <2>2
            <4> QED
                BY <4>1, <4>2
        <3> QED
            BY <3>2 DEF I
    <2>7. SumFunctionOnSet(g, 1 .. n + 1) = SumFunctionOnSet(f, 1 .. n) + g[n + 1]
        BY <1>1, <2>5, <2>6, SumAppend
    <2> QED
        BY <2>3, <2>5, <2>7
<1> QED
    BY <1>9, <1>10 DEF Gains

LEMMA PackingStep ==
    ASSUME PackingInv, [PackItem]_packingVars PROVE PackingInv'
<1>1. CASE UNCHANGED packingVars
    BY <1>1 DEF PackingInv, packingVars
<1>2. CASE PackItem
    <2> DEFINE item == Head(sortedItems)
               fitting == {b \in DOMAIN bins : Fits(b, item)}
    <2>1. /\ sortedItems \in Seq(PackItems) /\ sortedItems # <<>> /\ BinsInv(bins)
          /\ parcels' = parcels /\ sortedItems' = Tail(sortedItems)
          /\ bins' = IF fitting = {} THEN Append(bins, <<item>>)
                     ELSE [bins EXCEPT ![Min(fitting)] = Append(@, item)]
        BY <1>2 DEF PackItem, PackingInv
    <2>2. item \in PackItems /\ sortedItems' \in Seq(PackItems)
        BY <2>1, HeadTailProperties
    <2>3. Len(bins) \in Nat /\ DOMAIN bins = 1 .. Len(bins)
        BY <2>1, BinFacts
    <2>4. \A b : Fits(b, item) <=> FitsIn(bins[b], item)
        BY DEF Fits, FitsIn
    <2>5. \A x : Copies(sortedItems, x) = Copies(sortedItems', x) + (IF item = x THEN 1 ELSE 0)
        BY <2>1, CopiesTail
    <2> HIDE DEF item
    <2>6. Gains(bins', bins, item)
        <3>1. CASE fitting = {}
            <4>1. \A b \in 1 .. Len(bins) : ~FitsIn(bins[b], item)
                BY <3>1, <2>3, <2>4
            <4>2. bins' = Append(bins, <<item>>)
                BY <3>1, <2>1
            <4>3. BinsInv(bins) /\ item \in PackItems
                BY <2>1, <2>2
            <4> QED
                BY <4>1, <4>2, <4>3, IntoNewBin
        <3>2. CASE fitting # {}
            <4> DEFINE c == Min(fitting)
            <4>1. fitting \subseteq Nat
                BY <2>3
            <4>2. c \in fitting
                BY <4>1, <3>2, MinOfNat
            <4>3. c \in 1 .. Len(bins) /\ FitsIn(bins[c], item)
                BY <4>2, <2>3, <2>4
            <4>5. BinsInv(bins) /\ item \in PackItems
                BY <2>1, <2>2
            <4>4. bins' = [bins EXCEPT ![c] = Append(@, item)]
                BY <3>2, <2>1
            <4> HIDE DEF c
            <4> QED
                BY <4>3, <4>4, <4>5, IntoBin
        <3> QED
            BY <3>1, <3>2
    <2>7. ASSUME NEW x PROVE InBins(bins', x) + Copies(sortedItems', x) = Copies(parcels', x)
        <3>1. InBins(bins, x) + Copies(sortedItems, x) = Copies(parcels, x)
            BY DEF PackingInv
        <3>2. InBins(bins, x) \in Nat
            BY <2>1, BinFacts
        <3>3. Copies(sortedItems', x) \in Nat
            BY <2>2, AtFacts
        <3>4. InBins(bins', x) = InBins(bins, x) + (IF item = x THEN 1 ELSE 0)
            BY <2>6 DEF Gains
        <3>5. Copies(sortedItems, x) = Copies(sortedItems', x) + (IF item = x THEN 1 ELSE 0)
            BY <2>5
        <3>6. parcels' = parcels
            BY <2>1
        <3> QED
            BY <3>1, <3>2, <3>3, <3>4, <3>5, <3>6
    <2> QED
        BY <2>1, <2>2, <2>6, <2>7 DEF PackingInv, Gains
<1> QED
    BY <1>1, <1>2

LEMMA PackingFrom ==
    ASSUME PackingInv PROVE OverloadIsOneItem /\ NoBinToSpare
<1>1. /\ Len(bins) \in Nat /\ DOMAIN bins = 1 .. Len(bins)
      /\ \A b \in 1 .. Len(bins) : bins[b] \in Seq(PackItems)
    BY BinFacts DEF PackingInv
<1>2. /\ \A b \in 1 .. Len(bins) : NotOver(bins[b]) \/ Len(bins[b]) = 1
      /\ \A a, b \in 1 .. Len(bins) : a < b => Apart(bins[a], bins[b])
    BY DEF PackingInv, BinsInv
<1>3. OverloadIsOneItem
    <2> SUFFICES ASSUME NEW b \in 1 .. Len(bins), NotOver(bins[b])
                 PROVE  ~(usedVolume(bins[b]) > usableVolume \/ totalWeight(bins[b]) > maxWeightKg)
        BY <1>1, <1>2 DEF OverloadIsOneItem
    <2>1. /\ usedVolume(bins[b]) \in Nat /\ totalWeight(bins[b]) \in Nat
          /\ usableVolume \in Nat /\ maxWeightKg \in Nat
        BY <1>1, BinLoadFacts, PackingAssumption
    <2> QED
        BY <2>1 DEF NotOver
<1>4. \A x : SumFunction([b \in DOMAIN bins |-> Copies(bins[b], x)]) = InBins(bins, x)
    <2> TAKE x
    <2>1. DOMAIN BinCopies(bins, x) = 1 .. Len(bins)
        BY <1>1 DEF BinCopies
    <2>2. SumFunction(BinCopies(bins, x)) = InBins(bins, x)
        BY <2>1, Zenon DEF SumFunction, InBins
    <2> QED
        BY <2>2 DEF BinCopies
<1>5. \A x : InBins(bins, x) + Copies(sortedItems, x) = Copies(parcels, x)
    BY DEF PackingInv
<1>6. \A x : SumFunction([b \in DOMAIN bins |-> Copies(bins[b], x)]) + Copies(sortedItems, x)
               = Copies(parcels, x)
    BY <1>4, <1>5
<1>7. \A a, b \in DOMAIN bins : a < b =>
        \/ usedVolume(bins[a]) + usedVolume(bins[b]) > usableVolume
        \/ totalWeight(bins[a]) + totalWeight(bins[b]) > maxWeightKg
    BY <1>1, <1>2 DEF Apart
<1>8. NoBinToSpare
    BY <1>6, <1>7, Zenon DEF NoBinToSpare
<1> QED
    BY <1>3, <1>8
----------------------------------------------------------------------------
(* 2-opt: any routes, any distances, any limit on the rounds.              *)

\* Where a stop comes from when the stretch from i to k is turned round
Turned(i, k) == [j \in Nat |-> IF i <= j /\ j <= k THEN i + k - j ELSE j]

\* A stretch between the ends of the route
Inside(r, i, k) == i \in Nat /\ k \in Nat /\ 1 < i /\ i < k /\ k < Len(r)

LEMMA SwapFacts ==
    ASSUME NEW S, NEW r \in Seq(S), NEW i, NEW k, Inside(r, i, k)
    PROVE  LET t == twoOptSwap(r, i, k)
           IN  t \in Seq(S) /\ Len(t) = Len(r) /\ \A j \in 1 .. Len(r) : t[j] = r[Turned(i, k)[j]]
<1> DEFINE n == Len(r)
           a == SubSeq(r, 1, i - 1)
           m == SubSeq(r, i, k)
           b == Reverse(m)
           c == SubSeq(r, k + 1, n)
           ab == a \o b
           t == twoOptSwap(r, i, k)
<1>1. /\ n \in Nat /\ DOMAIN r = 1 .. n
      /\ i \in Nat /\ k \in Nat /\ 1 < i /\ i < k /\ k < n
    BY LenProperties DEF Inside
<1>2. a \in Seq(S) /\ Len(a) = i - 1 /\ \A j \in 1 .. i - 1 : a[j] = r[j]
    <2>1. 1 \in 1 .. n + 1 /\ i - 1 \in 1 - 1 .. n
        BY <1>1
    <2> QED
        BY <2>1, <1>1, SubSeqProperties
<1>3. m \in Seq(S) /\ Len(m) = k - i + 1 /\ \A j \in 1 .. k - i + 1 : m[j] = r[i + j - 1]
    <2>1. i \in 1 .. n + 1 /\ k \in i - 1 .. n
        BY <1>1
    <2> QED
        BY <2>1, <1>1, SubSeqProperties
<1>4. c \in Seq(S) /\ Len(c) = n - k /\ \A j \in 1 .. n - k : c[j] = r[k + j]
    <2>1. \A j \in k + 1 .. n : r[j] \in S
        BY <1>1, ElementOfSeq
    <2>2. k + 1 \in Int /\ n \in Int /\ k + 1 <= n
        BY <1>1
    <2>3. /\ c \in Seq(S) /\ Len(c) = IF k + 1 <= n THEN n - (k + 1) + 1 ELSE 0
          /\ \A j \in 1 .. n - (k + 1) + 1 : c[j] = r[(k + 1) + j - 1]
        BY <2>1, <2>2, SubSeqProperties
    <2>4. n - (k + 1) + 1 = n - k /\ \A j \in 1 .. n - k : (k + 1) + j - 1 = k + j
        BY <1>1
    <2> HIDE DEF c, n
    <2> QED
        BY <2>2, <2>3, <2>4
<1>5. t = ab \o c
    BY Zenon DEF twoOptSwap
<1> HIDE DEF a, m, c, n
<1>6. b \in Seq(S) /\ Len(b) = k - i + 1 /\ \A j \in 1 .. k - i + 1 : b[j] = r[k - j + 1]
    <2> DEFINE l == k - i + 1
    <2>1. l \in Nat /\ b = [j \in 1 .. l |-> m[(l - j) + 1]]
        BY <1>1, <1>3 DEF Reverse
    <2>2. \A j \in 1 .. l : (l - j) + 1 \in 1 .. l /\ i + ((l - j) + 1) - 1 = k - j + 1
        BY <1>1
    <2>3. \A j \in 1 .. l : m[(l - j) + 1] \in S /\ m[(l - j) + 1] = r[k - j + 1]
        BY <1>3, <2>2, ElementOfSeq
    <2> HIDE DEF l, b
    <2>4. b \in [1 .. l -> S] /\ \A j \in 1 .. l : b[j] = r[k - j + 1]
        BY <2>1, <2>3
    <2>5. b \in Seq(S) /\ Len(b) = l
        BY <2>1, <2>4, LenFacts
    <2> QED
        BY <2>4, <2>5 DEF l
<1> HIDE DEF b
<1>7. /\ ab \in Seq(S) /\ Len(ab) = k
      /\ \A j \in 1 .. i - 1 : ab[j] = r[j]
      /\ \A j \in i .. k : ab[j] = r[i + k - j]
    <2>1. /\ ab \in Seq(S) /\ Len(ab) = Len(a) + Len(b)
          /\ \A j \in 1 .. Len(a) + Len(b) : ab[j] = IF j <= Len(a) THEN a[j] ELSE b[j - Len(a)]
        BY <1>2, <1>6, ConcatProperties
    <2> HIDE DEF ab
    <2>2. Len(ab) = k
        BY <2>1, <1>1, <1>2, <1>6
    <2>3. ASSUME NEW j \in 1 .. i - 1 PROVE ab[j] = r[j]
        BY <2>1, <1>1, <1>2, <1>6
    <2>4. ASSUME NEW j \in i .. k PROVE ab[j] = r[i + k - j]
        <3>1. ab[j] = b[j - (i - 1)]
            <4>1. j \in 1 .. Len(a) + Len(b) /\ ~(j <= Len(a))
                BY <1>1, <1>2, <1>6
            <4> QED
                BY <4>1, <2>1, <1>2
        <3>2. j - (i - 1) \in 1 .. k - i + 1 /\ k - (j - (i - 1)) + 1 = i + k - j
            BY <1>1
        <3> QED
            BY <3>1, <3>2, <1>6
    <2> QED
        BY <2>1, <2>2, <2>3, <2>4
<1> HIDE DEF ab
<1>8. /\ t \in Seq(S) /\ Len(t) = n
      /\ \A j \in 1 .. n : t[j] = IF j <= k THEN ab[j] ELSE c[j - k]
    <2>1. /\ ab \o c \in Seq(S) /\ Len(ab \o c) = Len(ab) + Len(c)
          /\ \A j \in 1 .. Len(ab) + Len(c) : (ab \o c)[j] = IF j <= Len(ab) THEN ab[j] ELSE c[j - Len(ab)]
        <3>1. ab \in Seq(S) /\ c \in Seq(S)
            BY <1>4, <1>7
        <3> QED
            BY <3>1, ConcatProperties, Zenon
    <2>2. k + (n - k) = n
        BY <1>1
    <2> QED
        BY <2>1, <2>2, <1>4, <1>5, <1>7
<1> HIDE DEF t
<1>9. ASSUME NEW j \in 1 .. n PROVE t[j] = r[Turned(i, k)[j]]
    <2>0. Turned(i, k)[j] = IF i <= j /\ j <= k THEN i + k - j ELSE j
        BY <1>1 DEF Turned
    <2>1. CASE j < i
        <3>1. j \in 1 .. i - 1 /\ j <= k /\ ~(i <= j)
            BY <2>1, <1>1
        <3> QED
            BY <3>1, <2>0, <1>7, <1>8
    <2>2. CASE i <= j /\ j <= k
        <3>1. j \in i .. k
            BY <2>2, <1>1
        <3> QED
            BY <3>1, <2>0, <2>2, <1>7, <1>8
    <2>3. CASE k < j
        <3>1. j - k \in 1 .. n - k /\ ~(j <= k) /\ k + (j - k) = j
            BY <2>3, <1>1
        <3> QED
            BY <3>1, <2>0, <1>4, <1>8
    <2> QED
        BY <2>1, <2>2, <2>3, <1>1
<1> QED
    BY <1>8, <1>9 DEF t, n

\* The same stops in another order, between the same ends
LEMMA SwapMoves ==
    ASSUME NEW S, NEW r \in Seq(S), NEW i, NEW k, Inside(r, i, k)
    PROVE  LET t == twoOptSwap(r, i, k)
           IN  /\ t \in Seq(S) /\ Len(t) = Len(r)
               /\ t[1] = r[1] /\ t[Len(t)] = r[Len(r)]
               /\ \A stop : Count(t, stop) = Count(r, stop)
<1> DEFINE n == Len(r)
           t == twoOptSwap(r, i, k)
           move == Turned(i, k)
<1>1. n \in Nat /\ i \in Nat /\ k \in Nat /\ 1 < i /\ i < k /\ k < n
    BY LenProperties DEF Inside
<1>2. t \in Seq(S) /\ Len(t) = n /\ \A j \in 1 .. n : t[j] = r[move[j]]
    BY SwapFacts
<1>3. \A j \in 1 .. n : move[j] = IF i <= j /\ j <= k THEN i + k - j ELSE j
    BY <1>1 DEF Turned
<1> HIDE DEF t, move
<1>4. \A j \in 1 .. n : move[j] \in 1 .. n /\ move[move[j]] = j
    <2> SUFFICES ASSUME NEW j \in 1 .. n PROVE move[j] \in 1 .. n /\ move[move[j]] = j
        OBVIOUS
    <2>1. CASE i <= j /\ j <= k
        <3>1. /\ move[j] = i + k - j /\ move[j] \in 1 .. n /\ i <= move[j] /\ move[j] <= k
              /\ i + k - (i + k - j) = j
            BY <2>1, <1>1, <1>3
        <3> QED
            BY <3>1, <1>3
    <2>2. CASE ~(i <= j /\ j <= k)
        BY <2>2, <1>3
    <2> QED
        BY <2>1, <2>2
<1>5. Moves(move, r, t)
    <2>1. \A x, y \in 1 .. n : move[x] = move[y] => x = y
        BY <1>4
    <2>2. \A x \in 1 .. n : \E y \in 1 .. n : move[y] = x
        BY <1>4
    <2> QED
        BY <2>1, <2>2, <1>2, <1>4 DEF Moves
<1>6. \A stop : Copies(t, stop) = Copies(r, stop)
    BY <1>2, <1>5, CopiesMoved
<1>7. \A stop : Count(t, stop) = Count(r, stop)
    BY <1>6, Zenon DEF Count, Copies
<1>8. t[1] = r[1] /\ t[n] = r[n]
    <2>1. 1 \in 1 .. n /\ n \in 1 .. n /\ move[1] = 1 /\ move[n] = n
        BY <1>1, <1>3
    <2> QED
        BY <2>1, <1>2
<1> QED
    BY <1>2, <1>7, <1>8 DEF t

\* Lengths are numbers.
LEMMA DistanceFacts ==
    ASSUME NEW r \in Routes, NEW t \in Seq(Range(r))
    PROVE  computeTotalRouteDistanceKm(t) \in Nat
<1> DEFINE n == Len(t)
           f == [i \in 1 .. n - 1 |-> Distance(t[i], t[i + 1])]
<1>1. n \in Nat /\ \A i \in 1 .. n : t[i] \in Range(r)
    BY LenProperties, ElementOfSeq
<1>2. ASSUME NEW i \in 1 .. n - 1 PROVE f[i] \in Nat
    <2>1. i \in 1 .. n /\ i + 1 \in 1 .. n
        BY <1>1
    <2>2. t[i] \in Range(r) /\ t[i + 1] \in Range(r)
        BY <2>1, <1>1
    <2>3. Distance(t[i], t[i + 1]) \in Nat
        BY <2>2, RouteAssumption
    <2> QED
        BY <2>3
<1>3. IsFiniteSet(1 .. n - 1)
    BY <1>1, FS_Interval
<1>4. computeTotalRouteDistanceKm(t) = SumFunctionOnSet(f, 1 .. n - 1)
    <2>1. DOMAIN f = 1 .. n - 1
        OBVIOUS
    <2>2. computeTotalRouteDistanceKm(t) = SumFunction(f)
        BY Zenon DEF computeTotalRouteDistanceKm
    <2> HIDE DEF f
    <2> QED
        BY <2>1, <2>2, Zenon DEF SumFunction
<1> HIDE DEF f
<1> QED
    BY <1>2, <1>3, <1>4, SumNat
----------------------------------------------------------------------------
\* The best route so far is the given one with stretches turned round; it only
\* stops improving when nothing is shorter.
Shortest ==
    \A s \in Swaps(bestRoute) :
        computeTotalRouteDistanceKm(twoOptSwap(bestRoute, s[1], s[2])) >= bestDistance

RouteInv ==
    /\ route \in Routes
    /\ bestRoute \in Seq(Range(route)) /\ Len(bestRoute) = Len(route)
    /\ bestRoute[1] = route[1] /\ bestRoute[Len(route)] = route[Len(route)]
    /\ \A stop : Count(bestRoute, stop) = Count(route, stop)
    /\ bestDistance = computeTotalRouteDistanceKm(bestRoute)
    /\ bestDistance <= computeTotalRouteDistanceKm(route)
    /\ ~improved /\ Len(route) > 3 => Shortest

LEMMA RouteStart ==
    ASSUME RouteInit PROVE RouteInv
<1>1. /\ route \in Routes /\ bestRoute = route /\ improved = (Len(route) > 3)
      /\ bestDistance = computeTotalRouteDistanceKm(route)
    BY DEF RouteInit
<1>2. route \in Seq(Range(route))
    BY <1>1, RouteAssumption
<1>3. computeTotalRouteDistanceKm(route) \in Nat
    BY <1>1, <1>2, DistanceFacts
<1>4. bestDistance <= computeTotalRouteDistanceKm(route)
    BY <1>1, <1>3
<1>5. ~(~improved /\ Len(route) > 3)
    BY <1>1
<1> QED
    BY <1>1, <1>2, <1>4, <1>5 DEF RouteInv

\* The pairs of the two loops are stretches inside of the route.
LEMMA SwapsInside ==
    ASSUME NEW S, NEW r \in Seq(S), NEW s \in Swaps(r)
    PROVE  Inside(r, s[1], s[2])
<1>1. Len(r) \in Nat
    BY LenProperties
<1> QED
    BY <1>1 DEF Swaps, Inside

LEMMA RouteStep ==
    ASSUME RouteInv, [Improve]_routeVars PROVE RouteInv'
<1> DEFINE swapped(s) == twoOptSwap(bestRoute, s[1], s[2])
           length(s) == computeTotalRouteDistanceKm(swapped(s))
           shorter == {s \in Swaps(bestRoute) : length(s) < bestDistance}
<1>1. CASE UNCHANGED routeVars
    BY <1>1 DEF RouteInv, routeVars, Shortest
<1>0. /\ route \in Routes
      /\ bestRoute \in Seq(Range(route)) /\ Len(bestRoute) = Len(route)
      /\ bestRoute[1] = route[1] /\ bestRoute[Len(route)] = route[Len(route)]
      /\ \A stop : Count(bestRoute, stop) = Count(route, stop)
      /\ bestDistance = computeTotalRouteDistanceKm(bestRoute)
      /\ bestDistance <= computeTotalRouteDistanceKm(route)
    BY DEF RouteInv
<1>2. bestDistance \in Nat /\ computeTotalRouteDistanceKm(route) \in Nat
    <2>1. route \in Seq(Range(route))
        BY <1>0, RouteAssumption
    <2> QED
        BY <2>1, <1>0, DistanceFacts
<1>3. ASSUME NEW s \in Swaps(bestRoute)
      PROVE  /\ swapped(s) \in Seq(Range(route)) /\ Len(swapped(s)) = Len(route)
             /\ swapped(s)[1] = route[1] /\ swapped(s)[Len(route)] = route[Len(route)]
             /\ \A stop : Count(swapped(s), stop) = Count(route, stop)
             /\ length(s) \in Nat
    <2>1. Inside(bestRoute, s[1], s[2])
        BY <1>0, SwapsInside
    <2>2. /\ swapped(s) \in Seq(Range(route)) /\ Len(swapped(s)) = Len(bestRoute)
          /\ swapped(s)[1] = bestRoute[1]
          /\ swapped(s)[Len(swapped(s))] = bestRoute[Len(bestRoute)]
          /\ \A stop : Count(swapped(s), stop) = Count(bestRoute, stop)
        BY <2>1, <1>0, SwapMoves
    <2> HIDE DEF swapped
    <2>3. computeTotalRouteDistanceKm(swapped(s)) \in Nat
        BY <2>2, <1>0, DistanceFacts
    <2> QED
        BY <2>2, <2>3, <1>0
<1>4. CASE Improve /\ shorter = {} /\ UNCHANGED <<bestRoute, bestDistance>>
    <2>1. UNCHANGED <<route, bestRoute, bestDistance>>
        BY <1>4 DEF Improve
    <2>2. ASSUME NEW s \in Swaps(bestRoute) PROVE length(s) >= bestDistance
        <3>1. ~(length(s) < bestDistance)
            BY <1>4
        <3>2. length(s) \in Nat
            BY <1>3
        <3> HIDE DEF length
        <3> QED
            BY <3>1, <3>2, <1>2
    <2>3. Shortest
        BY <2>2, Zenon DEF Shortest
    <2>4. Shortest'
        BY <2>1, <2>3 DEF Shortest
    <2> QED
        BY <2>1, <2>4, <1>0 DEF RouteInv
<1>5. ASSUME Improve, NEW s \in shorter, bestRoute' = swapped(s), bestDistance' = length(s),
             improved' = TRUE
      PROVE  RouteInv'
    <2>1. route' = route
        BY <1>5 DEF Improve
    <2>2. s \in Swaps(bestRoute) /\ length(s) < bestDistance
        BY <1>5
    <2>3. /\ bestRoute' \in Seq(Range(route)) /\ Len(bestRoute') = Len(route)
          /\ bestRoute'[1] = route[1] /\ bestRoute'[Len(route)] = route[Len(route)]
          /\ \A stop : Count(bestRoute', stop) = Count(route, stop)
          /\ bestDistance' \in Nat
        BY <1>3, <1>5, <2>2
    <2>4. bestDistance' = computeTotalRouteDistanceKm(bestRoute')
        BY <1>5
    <2>5. bestDistance' <= computeTotalRouteDistanceKm(route)
        <3>1. bestDistance' < bestDistance
            BY <1>5, <2>2
        <3> QED
            BY <3>1, <2>3, <1>0, <1>2
    <2> QED
        BY <2>1, <2>3, <2>4, <2>5, <1>0, <1>5 DEF RouteInv
<1>6. ASSUME Improve
      PROVE  \/ shorter = {} /\ UNCHANGED <<bestRoute, bestDistance>>
             \/ \E s \in shorter : /\ bestRoute' = swapped(s) /\ bestDistance' = length(s)
                                   /\ improved' = TRUE
    BY <1>6, Zenon DEF Improve
<1> HIDE DEF swapped, length, shorter
<1> QED
    BY <1>1, <1>4, <1>5, <1>6

LEMMA RouteFrom ==
    ASSUME RouteInv PROVE RouteKept /\ LocallyOptimal
<1>1. /\ route \in Routes
      /\ bestRoute \in Seq(Range(route)) /\ Len(bestRoute) = Len(route)
      /\ bestRoute[1] = route[1] /\ bestRoute[Len(route)] = route[Len(route)]
      /\ \A stop : Count(bestRoute, stop) = Count(route, stop)
      /\ bestDistance = computeTotalRouteDistanceKm(bestRoute)
      /\ bestDistance <= computeTotalRouteDistanceKm(route)
    BY DEF RouteInv
<1>2. RouteKept
    BY <1>1 DEF RouteKept, Last
<1>3. LocallyOptimal
    <2> SUFFICES ASSUME ~improved, Len(route) > 1,
                        NEW i \in 2 .. Len(bestRoute) - 1, NEW k \in 2 .. Len(bestRoute) - 1, i < k
                 PROVE  computeTotalRouteDistanceKm(twoOptSwap(bestRoute, i, k)) >= bestDistance
        BY DEF LocallyOptimal
    <2> DEFINE s == <<i, k>>
    <2>1. Len(bestRoute) \in Nat
        BY <1>1, LenProperties
    <2>2. s \in Swaps(bestRoute) /\ Len(route) > 3
        BY <2>1, <1>1 DEF Swaps
    <2>3. Shortest
        BY <2>2 DEF RouteInv
    <2>4. computeTotalRouteDistanceKm(twoOptSwap(bestRoute, s[1], s[2])) >= bestDistance
        BY <2>2, <2>3, Zenon DEF Shortest
    <2> QED
        BY <2>4
<1> QED
    BY <1>2, <1>3
----------------------------------------------------------------------------
(* The algorithms                                                          *)

\* The entries of a revenue schedule sum up to the contract's total to the
\* cent, whatever the rounding of the monthly rate, over consecutive months
\* (generateStraightLineSchedule).
THEOREM ScheduleCorrect == ScheduleSpec => [](ScheduleExact /\ PeriodsFollow)
<1>1. ScheduleInv => ScheduleExact /\ PeriodsFollow
    BY ScheduleExactFrom, PeriodsFrom
<1> QED
    BY <1>1, ScheduleStart, ScheduleStep, PTL DEF ScheduleSpec

\* The ring buffer gives back what was last published to a place, and nothing
\* before anything was (HighThroughputDisruptorRingBuffer).
THEOREM RingAgreesCorrect == RingSpec => []RingAgrees
    BY RingStart, RingStep, RingFrom, PTL DEF RingSpec

\* The window of samples only drops what is older than the window is long
\* (RealtimeThroughputStreamAggregator.ingestSample).
THEOREM FreshKeptCorrect == SamplesSpec => []FreshKept
    BY SamplesStart, SamplesStep, FreshFrom, PTL DEF SamplesSpec

\* What is proposed from the lots is what was asked for, first expired, first
\* out (LotBatchExpirationTracker.getNextFefoAllocation).
THEOREM FefoKeptCorrect == LotSpec => []FefoKept
<1>1. LotsInv => FefoKept
    BY FefoFrom
<1> QED
    BY <1>1, LotsStart, LotsStep, PTL DEF LotSpec

\* First-fit decreasing loses no item, opens no bin in vain and overloads none
\* but for an item that fits nowhere (pack3DBins).
THEOREM PackingCorrect == PackingSpec => [](OverloadIsOneItem /\ NoBinToSpare)
<1>1. PackingInit => PackingInv
    BY PackingStart
<1>2. PackingInv /\ [PackItem]_packingVars => PackingInv'
    BY PackingStep
<1>3. PackingInv => OverloadIsOneItem /\ NoBinToSpare
    BY PackingFrom
<1> QED
    BY <1>1, <1>2, <1>3, PTL DEF PackingSpec

\* 2-opt visits the stops it was given between the same ends, never makes the
\* route longer, and only gives up where nothing can be gained
\* (twoOptOptimization).
THEOREM RouteCorrect == RouteSpec => [](RouteKept /\ LocallyOptimal)
<1>1. RouteInit => RouteInv
    BY RouteStart
<1>2. RouteInv /\ [Improve]_routeVars => RouteInv'
    BY RouteStep
<1>3. RouteInv => RouteKept /\ LocallyOptimal
    BY RouteFrom
<1> QED
    BY <1>1, <1>2, <1>3, PTL DEF RouteSpec

AlgorithmsInv ==
    /\ TrieInv /\ ScheduleInv /\ RingInv /\ SamplesInv
    /\ LotsInv /\ PackingInv /\ RouteInv

LEMMA AlgorithmsStart ==
    ASSUME EnginesInit PROVE AlgorithmsInv
<1>1. TrieInit /\ ScheduleInit /\ RingInit /\ SamplesInit /\ LotInit /\ PackingInit /\ RouteInit
    BY DEF EnginesInit
<1> QED
    BY <1>1, TrieStart, ScheduleStart, RingStart, SamplesStart, LotsStart, PackingStart, RouteStart
       DEF AlgorithmsInv

\* Each algorithm takes a step of its own or none.
LEMMA AlgorithmsStep ==
    ASSUME AlgorithmsInv, [EnginesNext]_engineVars PROVE AlgorithmsInv'
<1>1. CASE EnginesNext
    <2>1. /\ [TrieNext]_trieVars /\ [RecognizeMonth]_scheduleVars /\ [RingNext]_ringVars
          /\ [SamplesNext]_sampleVars /\ [LotNext]_lotVars /\ [PackItem]_packingVars /\ [Improve]_routeVars
        BY <1>1 DEF EnginesNext
    <2> QED
        BY <2>1, TrieStep, ScheduleStep, RingStep, SamplesStep, LotsStep, PackingStep, RouteStep
           DEF AlgorithmsInv
<1>2. CASE UNCHANGED engineVars
    <2>1. /\ [TrieNext]_trieVars /\ [RecognizeMonth]_scheduleVars /\ [RingNext]_ringVars
          /\ [SamplesNext]_sampleVars /\ [LotNext]_lotVars /\ [PackItem]_packingVars /\ [Improve]_routeVars
        BY <1>2 DEF engineVars
    <2> QED
        BY <2>1, TrieStep, ScheduleStep, RingStep, SamplesStep, LotsStep, PackingStep, RouteStep
           DEF AlgorithmsInv
<1> QED
    BY <1>1, <1>2

\* All of it, wherever the engines are run side by side.
THEOREM AlgorithmsAgreeCorrect == EnginesSpec => []AlgorithmsAgree
<1>1. EnginesInit => AlgorithmsInv
    BY AlgorithmsStart
<1>2. AlgorithmsInv /\ [EnginesNext]_engineVars => AlgorithmsInv'
    BY AlgorithmsStep
<1>3. AlgorithmsInv => AlgorithmsAgree
    BY TrieAgrees, ScheduleExactFrom, PeriodsFrom, RingFrom, FreshFrom, FefoFrom, PackingFrom, RouteFrom
       DEF AlgorithmsInv, AlgorithmsAgree
<1> QED
    BY <1>1, <1>2, <1>3, PTL DEF EnginesSpec

\* The same of the index wherever the engines are run side by side.
THEOREM TreeAgreesCorrect == EnginesSpec => []TreeAgrees
<1>1. EnginesInit => TreeInv
    BY TreeStart DEF EnginesInit
<1>2. TreeInv /\ [EnginesNext]_engineVars => TreeInv'
    <2>1. [EnginesNext]_engineVars => [TreeNext]_treeVars
        BY DEF EnginesNext, engineVars
    <2> QED
        BY <2>1, TreeStep
<1>3. TreeInv => TreeAgrees
    BY IsTreeFrom, KeysInOrderFrom, BalancedFrom DEF TreeAgrees
<1> QED
    BY <1>1, <1>2, <1>3, PTL DEF EnginesSpec
=============================================================================
