----------------------------- MODULE LotPicking -----------------------------
(***************************************************************************)
(* LotBatchExpirationTracker (inventory-service/src/lot) for one SKU in    *)
(* one warehouse: lots are registered, replaced and run out of time, and   *)
(* getNextFefoAllocation proposes which of them to pick from.  A proposal  *)
(* takes nothing from the lots.                                            *)
(***************************************************************************)
EXTENDS Naturals, Sequences, FiniteSets, Functions, SequencesExt

CONSTANTS
    LotNumbers,         \* a set of numbers
    LotRecords,         \* [expirationDate, quantityOnHand, quarantineStatus]
    MaxRequest,         \* bound: requestedQuantity
    MaxLotTime          \* bound: the clock

ASSUME LotAssumption ==
    /\ LotNumbers \subseteq Nat
    /\ \A record \in LotRecords : record.expirationDate \in Nat /\ record.quantityOnHand \in Nat
    /\ MaxRequest \in Nat

VARIABLES
    lots,               \* lots: the lots registered, as <<lotNumber, record>>, in
                        \* the order of the map
    lotTime             \* the clock read by new Date()

lotVars == <<lots, lotTime>>

LotInit == lots = <<>> /\ lotTime = 0

\* A lot that is registered again keeps its place in the map.
registerLot(n, record) ==
    /\ lots' = IF \E i \in DOMAIN lots : lots[i][1] = n
               THEN [i \in DOMAIN lots |-> IF lots[i][1] = n THEN <<n, record>> ELSE lots[i]]
               ELSE Append(lots, <<n, record>>)
    /\ UNCHANGED lotTime

LotTick ==
    /\ lotTime < MaxLotTime
    /\ lotTime' = lotTime + 1
    /\ UNCHANGED lots

Pickable(record) ==
    /\ record.quarantineStatus = "RELEASED"
    /\ record.expirationDate > lotTime
    /\ record.quantityOnHand > 0

pickable == {i \in DOMAIN lots : Pickable(lots[i][2])}
expires(i) == lots[i][2].expirationDate
onHand(i) == lots[i][2].quantityOnHand

\* The sort by expiration date is stable.
Sooner(i, k) == expires(i) < expires(k) \/ (expires(i) = expires(k) /\ i < k)

\* The lots to pick from: the n-th is the one that n - 1 of them go before.
matchingLots ==
    [n \in 1 .. Cardinality(pickable) |->
        CHOOSE i \in pickable : Cardinality({k \in pickable : Sooner(k, i)}) = n - 1]

\* Variant with one plausible mistake: as much as is asked for, from every lot.
TakeAll(remaining, record) == record.quantityOnHand

Take(remaining, record) == Min({remaining, record.quantityOnHand})

\* What is left to allocate and what is proposed, after n of the lots
getNextFefoAllocation(requestedQuantity) ==
    LET order == matchingLots
        loop[n \in 0 .. Len(order)] ==
            IF n = 0 THEN [remaining |-> requestedQuantity, picks |-> <<>>]
            ELSE LET acc == loop[n - 1]
                     take == Take(acc.remaining, lots[order[n]][2])
                 IN  IF acc.remaining = 0 THEN acc
                     ELSE [remaining |-> acc.remaining - take,
                           picks |-> Append(acc.picks, [lot |-> order[n], quantity |-> take])]
    IN  loop[Len(order)].picks

LotNext ==
    \/ LotTick
    \/ \E n \in LotNumbers, record \in LotRecords : registerLot(n, record)

LotSpec == LotInit /\ [][LotNext]_lotVars

----------------------------------------------------------------------------
\* First expired, first out: what is proposed is as much as was asked for or
\* all there is, no lot is named twice or for more than it has, and a lot is
\* only touched when every lot that expires earlier is used up.
FefoKept ==
    \A quantity \in 0 .. MaxRequest :
        LET picks == getNextFefoAllocation(quantity)
            from(i) == [p \in DOMAIN picks |-> IF picks[p].lot = i THEN picks[p].quantity ELSE 0]
            picked == [i \in pickable |-> SumFunction(from(i))]
        IN  /\ \A p \in DOMAIN picks : picks[p].lot \in pickable
            /\ SumFunction(picked) = Min({quantity, SumFunction([i \in pickable |-> onHand(i)])})
            /\ Len(picks) = Cardinality({i \in pickable : picked[i] > 0})
            /\ \A i, k \in pickable :
                /\ picked[i] <= onHand(i)
                /\ picked[k] > 0 /\ expires(i) < expires(k) => picked[i] = onHand(i)
=============================================================================
