-------------------------- MODULE StockReservation --------------------------
(***************************************************************************)
(* InventoryService.reserveItemsForOrder and adjustStock over              *)
(* StockLevelRepository, for one tenant and one warehouse.                 *)
(*                                                                         *)
(* Every method is async and suspends at each `await`, where calls that    *)
(* overlap can run.  An action is the code between two awaits: a call      *)
(* looks a row up (getStock) before it suspends and uses the row when it   *)
(* is resumed.  The row is a live reference, so its quantities are current *)
(* when used, but the answer "there is no row" is kept across the await.   *)
(*                                                                         *)
(* getStock returns the first matching row in insertion order.  stock[s]   *)
(* is the sequence of the rows of SKU s in that order: only stock[s][1] is *)
(* ever found, and a call is resumed with `found`, whether there was one.  *)
(***************************************************************************)
EXTENDS Integers, Sequences, FiniteSets, Functions

CONSTANTS
    Skus,
    Orders,         \* the calls of reserveItemsForOrder
    Cart,           \* Cart[o]: the items of call o, a sequence of [sku, qty]
    Receipts,       \* the calls of adjustStock
    Receipt,        \* Receipt[r]: its [sku, delta]
    Releases,       \* the calls of releaseReservation
    SerialRelease   \* callers never release a reservation twice at a time

ASSUME StockAssumption ==
    /\ Cart \in [Orders -> Seq([sku : Skus, qty : Nat \ {0}])]
    /\ \A o \in Orders : Len(Cart[o]) > 0
    /\ Receipt \in [Receipts -> [sku : Skus, delta : Int]]
    /\ SerialRelease \in BOOLEAN

\* A process has received finitely many calls: what the sums below range over.
ASSUME CallsAssumption == IsFiniteSet(Orders) /\ IsFiniteSet(Receipts)

VARIABLES
    stock,          \* stock[s]: the stock rows of s, in insertion order
    reservation,    \* reservation[o][i]: status of the one for item i of o
    movements,      \* net quantity of the audit movements recorded for s
    order,          \* order[o]: where call o is
    receipt,        \* receipt[r]: where call r is
    release         \* release[x]: where call x is

vars == <<stock, reservation, movements, order, receipt, release>>

\* StockLevelEntity; Math.max(0, ...) keeps reserved from going negative
StockRow == [onHand : Int, reserved : Nat, available : Int]

Lines(o) == 1 .. Len(Cart[o])

\* Where a call of reserveItemsForOrder is: the await it is suspended at, the
\* item it is at, and whether the lookup it waits for found a row; then how
\* it ended: rejected by the check, failed in reserveStock, or done.
OrderState ==
    [pc : {"idle", "check", "reserve", "push", "rejected", "failed", "done"},
     i : Nat, found : BOOLEAN]

\* getStock(s): is there a row?
getStock(s) == stock[s] # << >>

\* The row a lookup that found one refers to, in the present state
RowOf(s) == stock[s][1]

Init ==
    /\ stock = [s \in Skus |-> << >>]
    /\ reservation = [o \in Orders |-> [i \in Lines(o) |-> "NONE"]]
    /\ movements = [s \in Skus |-> 0]
    /\ order = [o \in Orders |-> [pc |-> "idle", i |-> 1, found |-> FALSE]]
    /\ receipt = [r \in Receipts |-> [pc |-> "idle", found |-> FALSE]]
    /\ release = [x \in Releases |-> [pc |-> "idle", order |-> "", i |-> 0]]

----------------------------------------------------------------------------
(* Variants of the definitions below, each with one plausible mistake.     *)

\* reserveStock trusts the check the service made before it.
CoveredByCheck(s, q, found) == found

\* upsertStock adds to onHand but leaves available alone.
StaleAvailable(row, d) == [row EXCEPT !.onHand = @ + d]

\* upsertStock assigns the quantity instead of adding it.
OverwriteOnHand(row, d) ==
    [onHand |-> d, reserved |-> row.reserved, available |-> d - row.reserved]

\* The loop over the items stops one short.
LastButOne(o) == order[o].i + 1 >= Len(Cart[o])

\* releaseReservation never gives the units back.
KeepReserved(row, q) == row

\* reserved - qty without the max(0, ...).
GiveUnclamped(row, q) ==
    [row EXCEPT !.reserved = @ - q, !.available = row.onHand - (row.reserved - q)]

----------------------------------------------------------------------------
(* reserveItemsForOrder                                                    *)

Item(o) == Cart[o][order[o].i]

\* Suspended at `await getStock` for item i
Await(o, pc, i) ==
    order' = [order EXCEPT ![o] =
        [pc |-> pc, i |-> i, found |-> getStock(Cart[o][i].sku)]]

Settle(o, outcome) == order' = [order EXCEPT ![o].pc = outcome]

\* The call, up to the first await
reserveItemsForOrder(o) ==
    /\ order[o].pc = "idle"
    /\ Await(o, "check", 1)
    /\ UNCHANGED <<stock, reservation, movements, receipt, release>>

\* quantityAvailable of the row found covers the item
Available(s, q, found) == found /\ RowOf(s).available >= q

\* The first loop: an item that is not covered rejects the whole order;
\* after the last item the second loop starts without suspending.
CheckItem(o) ==
    /\ order[o].pc = "check"
    /\ IF ~Available(Item(o).sku, Item(o).qty, order[o].found)
       THEN Settle(o, "rejected")
       ELSE IF order[o].i = Len(Cart[o])
            THEN Await(o, "reserve", 1)
            ELSE Await(o, "check", order[o].i + 1)
    /\ UNCHANGED <<stock, reservation, movements, receipt, release>>

\* reserveStock tests the row again when it resumes from getStock
Covered(s, q, found) == Available(s, q, found)

TakeUnits(row, q) ==
    [onHand    |-> row.onHand,
     reserved  |-> row.reserved + q,
     available |-> row.onHand - (row.reserved + q)]

\* reserveStock: the test, the row and the new reservation are one step
reserveStock(o) ==
    LET s == Item(o).sku
        q == Item(o).qty
    IN  /\ order[o].pc = "reserve"
        /\ IF Covered(s, q, order[o].found)
           THEN /\ stock' = [stock EXCEPT ![s][1] = TakeUnits(@, q)]
                /\ reservation' = [reservation EXCEPT ![o][order[o].i] = "ACTIVE"]
                /\ Settle(o, "push")
           ELSE /\ Settle(o, "failed")
                /\ UNCHANGED <<stock, reservation>>
        /\ UNCHANGED <<movements, receipt, release>>

LastItem(o) == order[o].i = Len(Cart[o])

\* The second loop is resumed from reserveStock and goes on, or returns
PushReservation(o) ==
    /\ order[o].pc = "push"
    /\ IF LastItem(o) THEN Settle(o, "done")
                      ELSE Await(o, "reserve", order[o].i + 1)
    /\ UNCHANGED <<stock, reservation, movements, receipt, release>>

----------------------------------------------------------------------------
(* adjustStock                                                             *)

\* The call, up to `await getStock` in upsertStock
adjustStock(r) ==
    /\ receipt[r].pc = "idle"
    /\ receipt' = [receipt EXCEPT ![r] =
            [pc |-> "upsert", found |-> getStock(Receipt[r].sku)]]
    /\ UNCHANGED <<stock, reservation, movements, order, release>>

AddUnits(row, d) ==
    [onHand    |-> row.onHand + d,
     reserved  |-> row.reserved,
     available |-> row.onHand + d - row.reserved]

\* upsertStock is resumed: the row found gets the units, otherwise a new row
upsertStock(r) ==
    LET s == Receipt[r].sku
        d == Receipt[r].delta
        new == [onHand |-> d, reserved |-> 0, available |-> d]
    IN  /\ receipt[r].pc = "upsert"
        /\ stock' = IF receipt[r].found
                    THEN [stock EXCEPT ![s][1] = AddUnits(@, d)]
                    ELSE [stock EXCEPT ![s] = Append(@, new)]
        /\ receipt' = [receipt EXCEPT ![r].pc = "record"]
        /\ UNCHANGED <<reservation, movements, order, release>>

\* recordMovement: the audit movement is pushed, the call returns
recordMovement(r) ==
    /\ receipt[r].pc = "record"
    /\ movements' = [movements EXCEPT ![Receipt[r].sku] = @ + Receipt[r].delta]
    /\ receipt' = [receipt EXCEPT ![r].pc = "done"]
    /\ UNCHANGED <<stock, reservation, order, release>>

----------------------------------------------------------------------------
(* releaseReservation                                                      *)

InRelease(o, i) ==
    \E x \in Releases : release[x] = [pc |-> "release", order |-> o, i |-> i]

\* The call returns at once unless the reservation is ACTIVE
releaseReservation(x, o, i) ==
    /\ release[x].pc = "idle"
    /\ reservation[o][i] = "ACTIVE"
    /\ SerialRelease => ~InRelease(o, i)
    /\ release' = [release EXCEPT ![x] = [pc |-> "release", order |-> o, i |-> i]]
    /\ UNCHANGED <<stock, reservation, movements, order, receipt>>

\* reserved = max(0, reserved - qty)
GiveUnits(row, q) ==
    LET left == IF row.reserved > q THEN row.reserved - q ELSE 0
    IN  [onHand |-> row.onHand, reserved |-> left, available |-> row.onHand - left]

MarkReleased(o, i) == [reservation EXCEPT ![o][i] = "RELEASED"]

\* Resumed from getStock; rows are never deleted, so the row was found
FinishRelease(x) ==
    LET o == release[x].order
        i == release[x].i
    IN  /\ release[x].pc = "release"
        /\ stock' = [stock EXCEPT ![Cart[o][i].sku][1] = GiveUnits(@, Cart[o][i].qty)]
        /\ reservation' = MarkReleased(o, i)
        /\ release' = [release EXCEPT ![x].pc = "done"]
        /\ UNCHANGED <<movements, order, receipt>>

----------------------------------------------------------------------------
Next ==
    \/ \E o \in Orders :
        \/ reserveItemsForOrder(o)
        \/ CheckItem(o)
        \/ reserveStock(o)
        \/ PushReservation(o)
    \/ \E r \in Receipts :
        \/ adjustStock(r)
        \/ upsertStock(r)
        \/ recordMovement(r)
    \/ \E x \in Releases :
        \/ \E o \in Orders : \E i \in Lines(o) : releaseReservation(x, o, i)
        \/ FinishRelease(x)

Spec == Init /\ [][Next]_vars

----------------------------------------------------------------------------
\* Where every call can be, and that reserved never goes negative: Math.max
\* keeps it from doing so even when one reservation is released twice.
TypeOK ==
    /\ stock \in [Skus -> Seq(StockRow)]
    /\ reservation = [o \in Orders |-> reservation[o]]
    /\ \A o \in Orders : reservation[o] \in [Lines(o) -> {"NONE", "ACTIVE", "RELEASED"}]
    /\ movements \in [Skus -> Int]
    /\ order \in [Orders -> OrderState]
    /\ \A o \in Orders : order[o].i \in Lines(o)
    /\ receipt \in [Receipts -> [pc : {"idle", "upsert", "record", "done"},
                                 found : BOOLEAN]]
    /\ release \in [Releases -> [pc : {"idle", "release", "done"},
                                 order : Orders \cup {""}, i : Nat]]

\* In every row, at every await, available is what is on hand and not
\* reserved: no interleaving of reserveStock, upsertStock and
\* releaseReservation leaves the stored difference behind.
AvailableAgrees ==
    \A s \in Skus : \A n \in DOMAIN stock[s] :
        stock[s][n].available = stock[s][n].onHand - stock[s][n].reserved

\* reserveStock never reserves units that are not there, however many orders
\* passed the service's check on the same units: a step that raises reserved
\* leaves it within what is on hand.
ReservationBacked ==
    [][\A s \in Skus :
        /\ stock[s] # << >>
        /\ stock'[s][1].reserved > stock[s][1].reserved
        => stock'[s][1].reserved <= stock'[s][1].onHand]_vars

\* As long as no adjustment takes units away, no row is ever oversold.
NoOversell ==
    (\A r \in Receipts : Receipt[r].delta >= 0)
        => \A s \in Skus : \A n \in DOMAIN stock[s] : stock[s][n].available >= 0

\* What a call of reserveItemsForOrder leaves behind: every item reserved if
\* it returned, none if the check rejected it, and exactly the items before
\* the one that failed if reserveStock threw.
OutcomeExplained ==
    \A o \in Orders :
        LET Reserved == {i \in Lines(o) : reservation[o][i] # "NONE"}
        IN  /\ order[o].pc = "done" => Reserved = Lines(o)
            /\ order[o].pc \in {"idle", "check", "rejected"} => Reserved = {}
            /\ order[o].pc \in {"reserve", "failed"} => Reserved = 1 .. order[o].i - 1
            /\ order[o].pc = "push" => Reserved = 1 .. order[o].i

----------------------------------------------------------------------------
(* Sums over rows and reservations                                         *)

OnHand(s) == [n \in DOMAIN stock[s] |-> stock[s][n].onHand]

AllOnHand(s) == SumFunctionOnSet(OnHand(s), DOMAIN stock[s])

OrderLines == UNION {{o} \X Lines(o) : o \in Orders}

\* The units of s that the reservation for a line holds
Held(s) ==
    [l \in OrderLines |->
        IF Cart[l[1]][l[2]].sku = s /\ reservation[l[1]][l[2]] = "ACTIVE"
        THEN Cart[l[1]][l[2]].qty ELSE 0]

ActiveUnits(s) == SumFunctionOnSet(Held(s), OrderLines)

\* The units of s an adjustment has added and not yet recorded
Unrecorded(s) ==
    [r \in Receipts |->
        IF Receipt[r].sku = s /\ receipt[r].pc = "record" THEN Receipt[r].delta ELSE 0]

\* The reserved counter of the row getStock finds is the sum of the ACTIVE
\* reservations, so that all units come back once all are released.
ReservedIsActive ==
    SerialRelease =>
        \A s \in Skus :
            ActiveUnits(s) = IF getStock(s) THEN RowOf(s).reserved ELSE 0

\* The audit trail accounts for every unit on hand, except for adjustments
\* suspended between upsertStock and recordMovement.
UnitsRecorded ==
    \A s \in Skus :
        AllOnHand(s) = movements[s] + SumFunctionOnSet(Unrecorded(s), Receipts)

\* Whatever overlaps, the numbers of the inventory go together: reserved is
\* never negative, also when one reservation is released twice, available is
\* the difference, and the movements account for the units.
CountersAgree == TypeOK /\ AvailableAgrees /\ UnitsRecorded

----------------------------------------------------------------------------
(* The row that getStock finds is a StockBook.                             *)

Book == INSTANCE StockBook WITH
    Quantities <- UNION {{Cart[o][i].qty : i \in Lines(o)} : o \in Orders},
    Deltas     <- {Receipt[r].delta : r \in Receipts},
    onHand     <- [s \in Skus |-> IF getStock(s) THEN RowOf(s).onHand ELSE 0],
    promised   <- [s \in Skus |-> IF getStock(s) THEN RowOf(s).reserved ELSE 0]

\* Every step of the code is a step of the abstract book or leaves it alone.
ImplementsBook == Book!Spec

----------------------------------------------------------------------------
(* What the repository says and the code does not do.                      *)

\* "Atomically reserve all items" (inventoryService.ts:47): an order whose
\* reservation threw holds no reservation.
AllOrNothing ==
    \A o \in Orders : order[o].pc \in {"rejected", "failed"} =>
        \A i \in Lines(o) : reservation[o][i] # "ACTIVE"

\* "record inbound stock adjustment and track available quantity" (TC-04):
\* once no adjustment is under way, the row getStock finds has all the units
\* that were recorded.
QuantityTracked ==
    (\A r \in Receipts : receipt[r].pc \in {"idle", "done"})
        => \A s \in Skus : getStock(s) => RowOf(s).onHand = movements[s]
=============================================================================
