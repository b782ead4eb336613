----------------------- MODULE StockReservationProofs -----------------------
(***************************************************************************)
(* TLAPS proofs about StockReservation, for any orders, carts, receipts    *)
(* and releases.  Stands on its own inductive invariant: what every        *)
(* suspended call remembers is still true of the rows; the sums of units   *)
(* rest on the lemmas of Sums.                                             *)
(***************************************************************************)
EXTENDS StockReservation, Sums, SequenceTheorems, TLAPS

\* A call that remembers having found a row, a reservation and a release
\* under way all refer to a SKU that has a row.
Remembered ==
    /\ \A o \in Orders :
        order[o].pc \in {"check", "reserve"} /\ order[o].found => getStock(Item(o).sku)
    /\ \A r \in Receipts :
        receipt[r].pc = "upsert" /\ receipt[r].found => getStock(Receipt[r].sku)
    /\ \A o \in Orders : \A i \in Lines(o) :
        reservation[o][i] # "NONE" => getStock(Cart[o][i].sku)
    /\ \A x \in Releases : release[x].pc = "release" =>
        /\ release[x].order \in Orders
        /\ release[x].i \in Lines(release[x].order)
        /\ reservation[release[x].order][release[x].i] # "NONE"

Inv == TypeOK /\ Remembered

\* Facts about the constants in the form the steps use them.
LEMMA CartFacts ==
  ASSUME NEW o \in Orders
  PROVE  /\ Len(Cart[o]) \in Nat \ {0}
         /\ 1 \in Lines(o)
         /\ \A i \in Lines(o) : Cart[o][i].sku \in Skus /\ Cart[o][i].qty \in Nat \ {0}
<1>1. Cart[o] \in Seq([sku : Skus, qty : Nat \ {0}]) /\ Len(Cart[o]) > 0
  BY StockAssumption
<1>2. Len(Cart[o]) \in Nat /\ \A i \in 1 .. Len(Cart[o]) : Cart[o][i] \in [sku : Skus, qty : Nat \ {0}]
  BY <1>1, LenProperties
<1> QED
  BY <1>1, <1>2 DEF Lines

\* An adjustment is of a known SKU.
LEMMA ReceiptFacts ==
  ASSUME NEW r \in Receipts
  PROVE  Receipt[r].sku \in Skus /\ Receipt[r].delta \in Int
  BY StockAssumption

\* Replacing the row that getStock finds leaves the others as they are.
LEMMA ReplaceFirst ==
  ASSUME NEW rows \in Seq(StockRow), rows # << >>, NEW row \in StockRow
  PROVE  LET new == [rows EXCEPT ![1] = row]
         IN  /\ new \in Seq(StockRow)
             /\ new # << >>
             /\ DOMAIN new = DOMAIN rows
             /\ new[1] = row
             /\ \A n \in DOMAIN rows : n # 1 => new[n] = rows[n]
<1>1. Len(rows) \in Nat \ {0}
  BY EmptySeq
<1>2. 1 \in 1 .. Len(rows)
  BY <1>1
<1> DEFINE new == [rows EXCEPT ![1] = row]
<1>3. /\ new \in Seq(StockRow)
      /\ Len(new) = Len(rows)
      /\ \A j \in 1 .. Len(rows) : new[j] = IF j = 1 THEN row ELSE rows[j]
  BY <1>2, ExceptSeq
<1>4. DOMAIN rows = 1 .. Len(rows) /\ DOMAIN new = 1 .. Len(new)
  BY <1>3, LenProperties
<1>5. new # << >>
  BY <1>3, <1>1
<1> QED
  BY <1>2, <1>3, <1>4, <1>5

\* getStock returns a row when there is one.
LEMMA FirstRow ==
  ASSUME NEW rows \in Seq(StockRow), rows # << >>
  PROVE  1 \in DOMAIN rows /\ rows[1] \in StockRow
<1>1. Len(rows) \in Nat \ {0}
  BY EmptySeq
<1> QED
  BY <1>1, LenProperties

\* A row that is inserted comes after those that are there.
LEMMA AppendRow ==
  ASSUME NEW rows \in Seq(StockRow), NEW row \in StockRow
  PROVE  LET new == Append(rows, row)
         IN  /\ new \in Seq(StockRow)
             /\ new # << >>
             /\ rows # << >> => new[1] = rows[1]
             /\ \A n \in DOMAIN new : new[n] = row \/ (n \in DOMAIN rows /\ new[n] = rows[n])
<1> DEFINE new == Append(rows, row)
<1>1. /\ new \in Seq(StockRow)
      /\ new # << >>
      /\ Len(new) = Len(rows) + 1
      /\ \A i \in 1 .. Len(rows) : new[i] = rows[i]
      /\ new[Len(rows) + 1] = row
  BY AppendProperties
<1>2. Len(rows) \in Nat /\ DOMAIN rows = 1 .. Len(rows) /\ DOMAIN new = 1 .. Len(new)
  BY <1>1, LenProperties
<1>3. rows # << >> => Len(rows) \in Nat \ {0}
  BY EmptySeq
<1> HIDE DEF new
<1> QED
  BY <1>1, <1>2, <1>3 DEF new

\* What the three updates of a row compute.
LEMMA TakeFacts ==
  ASSUME NEW row \in StockRow, NEW q \in Nat
  PROVE  /\ TakeUnits(row, q) \in StockRow
         /\ TakeUnits(row, q).onHand = row.onHand
         /\ TakeUnits(row, q).reserved = row.reserved + q
         /\ TakeUnits(row, q).available = row.onHand - row.reserved - q
         /\ TakeUnits(row, q).available = row.onHand - TakeUnits(row, q).reserved
<1> row.onHand \in Int /\ row.reserved \in Nat
  BY DEF StockRow
<1> QED
  BY DEF StockRow, TakeUnits

\* upsertStock adds to what is on hand.
LEMMA AddFacts ==
  ASSUME NEW row \in StockRow, NEW d \in Int
  PROVE  /\ AddUnits(row, d) \in StockRow
         /\ AddUnits(row, d).onHand = row.onHand + d
         /\ AddUnits(row, d).reserved = row.reserved
         /\ AddUnits(row, d).available = row.onHand + d - row.reserved
         /\ AddUnits(row, d).available = AddUnits(row, d).onHand - AddUnits(row, d).reserved
<1> row.onHand \in Int /\ row.reserved \in Nat
  BY DEF StockRow
<1> QED
  BY DEF StockRow, AddUnits

\* releaseReservation never makes reserved negative or larger.
LEMMA GiveFacts ==
  ASSUME NEW row \in StockRow, NEW q \in Nat
  PROVE  /\ GiveUnits(row, q) \in StockRow
         /\ GiveUnits(row, q).onHand = row.onHand
         /\ GiveUnits(row, q).reserved \in Nat
         /\ GiveUnits(row, q).reserved <= row.reserved
         /\ GiveUnits(row, q).available = GiveUnits(row, q).onHand - GiveUnits(row, q).reserved
<1> row.onHand \in Int /\ row.reserved \in Nat
  BY DEF StockRow
<1> QED
  BY DEF StockRow, GiveUnits

\* How a step may change the rows: it updates the row that getStock finds
\* for one SKU, or appends a row to one SKU.
RowStep(s, row) ==
    /\ getStock(s)
    /\ stock' = [stock EXCEPT ![s] = [stock[s] EXCEPT ![1] = row]]

\* Only the first row of one SKU changes, and every row that was found is
\* still found.
LEMMA RowStepFacts ==
  ASSUME TypeOK, NEW s \in Skus, NEW row \in StockRow, RowStep(s, row)
  PROVE  /\ stock' \in [Skus -> Seq(StockRow)]
         /\ \A t \in Skus : getStock(t)' <=> getStock(t)
         /\ \A t \in Skus : DOMAIN stock'[t] = DOMAIN stock[t]
         /\ \A t \in Skus : \A n \in DOMAIN stock[t] :
                stock'[t][n] = IF t = s /\ n = 1 THEN row ELSE stock[t][n]
<1>1. stock \in [Skus -> Seq(StockRow)] /\ stock[s] # << >>
  BY DEF TypeOK, RowStep, getStock
<1> DEFINE new == [stock[s] EXCEPT ![1] = row]
<1>2. /\ new \in Seq(StockRow)
      /\ new # << >>
      /\ DOMAIN new = DOMAIN stock[s]
      /\ new[1] = row
      /\ \A n \in DOMAIN stock[s] : n # 1 => new[n] = stock[s][n]
  BY <1>1, ReplaceFirst
<1>3. stock' = [stock EXCEPT ![s] = new]
  BY DEF RowStep
<1> HIDE DEF new
<1> QED
  BY <1>1, <1>2, <1>3 DEF getStock

NewRowStep(s, row) == stock' = [stock EXCEPT ![s] = Append(stock[s], row)]

\* An inserted row hides no row that was found before.
LEMMA NewRowStepFacts ==
  ASSUME TypeOK, NEW s \in Skus, NEW row \in StockRow, NewRowStep(s, row)
  PROVE  /\ stock' \in [Skus -> Seq(StockRow)]
         /\ \A t \in Skus : getStock(t) => getStock(t)' /\ stock'[t][1] = stock[t][1]
         /\ \A t \in Skus : \A n \in DOMAIN stock'[t] :
                \/ t = s /\ stock'[t][n] = row
                \/ n \in DOMAIN stock[t] /\ stock'[t][n] = stock[t][n]
<1>1. stock \in [Skus -> Seq(StockRow)]
  BY DEF TypeOK
<1> DEFINE new == Append(stock[s], row)
<1>2. /\ new \in Seq(StockRow)
      /\ new # << >>
      /\ stock[s] # << >> => new[1] = stock[s][1]
      /\ \A n \in DOMAIN new : new[n] = row \/ (n \in DOMAIN stock[s] /\ new[n] = stock[s][n])
  BY <1>1, AppendRow
<1>3. stock' = [stock EXCEPT ![s] = new]
  BY DEF NewRowStep
<1> HIDE DEF new
<1> QED
  BY <1>1, <1>2, <1>3 DEF getStock

----------------------------------------------------------------------------
\* Waiting for the row of another item keeps order[o] well formed.
LEMMA AwaitFacts ==
  ASSUME TypeOK, NEW o \in Orders, NEW pc \in {"check", "reserve"}, NEW i \in Lines(o),
         Await(o, pc, i)
  PROVE  /\ order' \in [Orders -> OrderState]
         /\ order'[o].pc = pc
         /\ order'[o].i = i
         /\ order'[o].found => getStock(Cart[o][i].sku)
         /\ \A p \in Orders : p # o => order'[p] = order[p]
<1> DEFINE f == getStock(Cart[o][i].sku)
           new == [pc |-> pc, i |-> i, found |-> f]
<1>1. f \in BOOLEAN
  BY DEF getStock
<1>2. order' = [order EXCEPT ![o] = new]
  BY DEF Await
<1>3. i \in Nat
  BY CartFacts DEF Lines
<1> HIDE DEF f
<1>4. new \in OrderState /\ new.pc = pc /\ new.i = i /\ new.found = f
  BY <1>1, <1>3 DEF OrderState
<1>5. order \in [Orders -> OrderState]
  BY DEF TypeOK
<1> HIDE DEF new
<1>6. order'[o] = new /\ order' \in [Orders -> OrderState]
      /\ \A p \in Orders : p # o => order'[p] = order[p]
  BY <1>2, <1>4, <1>5
<1> QED
  BY <1>4, <1>6 DEF f

\* A call that ends, or leaves reserveStock, stays at its item.
LEMMA SettleFacts ==
  ASSUME TypeOK, NEW o \in Orders,
         NEW pc \in {"rejected", "failed", "done", "push"}, Settle(o, pc)
  PROVE  /\ order' \in [Orders -> OrderState]
         /\ order'[o].pc = pc
         /\ order'[o].i = order[o].i
         /\ order'[o].found = order[o].found
         /\ \A p \in Orders : p # o => order'[p] = order[p]
<1>1. order \in [Orders -> OrderState]
  BY DEF TypeOK
<1>2. order' = [order EXCEPT ![o] = [order[o] EXCEPT !.pc = pc]]
  BY DEF Settle
<1> DEFINE new == [order[o] EXCEPT !.pc = pc]
<1>3. /\ new \in OrderState
      /\ new.pc = pc
      /\ new.i = order[o].i
      /\ new.found = order[o].found
  BY <1>1 DEF OrderState
<1> HIDE DEF new
<1> QED
  BY <1>1, <1>2, <1>3 DEF new

\* The row a suspended call, a reservation or a release refers to.
LEMMA ItemFacts ==
  ASSUME TypeOK, NEW o \in Orders
  PROVE  /\ Item(o).sku \in Skus
         /\ Item(o).qty \in Nat \ {0}
         /\ Item(o) = Cart[o][order[o].i]
         /\ order[o].i \in Lines(o)
         /\ order[o].i # Len(Cart[o]) => order[o].i + 1 \in Lines(o)
<1>1. order[o].i \in Lines(o)
  BY DEF TypeOK
<1> QED
  BY <1>1, CartFacts DEF Item, Lines

\* A step of reserveItemsForOrder that only moves order[o].
LEMMA OrderStep ==
  ASSUME Inv, NEW o \in Orders,
         UNCHANGED <<stock, reservation, movements, receipt, release>>,
         \/ \E pc \in {"check", "reserve"}, i \in Lines(o) : Await(o, pc, i)
         \/ \E pc \in {"rejected", "failed", "done", "push"} : Settle(o, pc)
  PROVE  Inv'
<1> USE DEF Inv
<1>1. ASSUME NEW pc \in {"check", "reserve"}, NEW i \in Lines(o), Await(o, pc, i)
      PROVE  Inv'
  <2>1. TypeOK'
    <3>1. order' \in [Orders -> OrderState] /\ \A p \in Orders : order'[p].i \in Lines(p)
      <4>1. order'[o].i = i /\ order' \in [Orders -> OrderState]
            /\ \A p \in Orders : p # o => order'[p] = order[p]
        BY <1>1, AwaitFacts
      <4> QED
        BY <4>1 DEF TypeOK
    <3> QED
      BY <3>1 DEF TypeOK
  <2>2. Remembered'
    BY <1>1, AwaitFacts DEF Remembered, getStock, Item
  <2> QED
    BY <2>1, <2>2
<1>2. ASSUME NEW pc \in {"rejected", "failed", "done", "push"}, Settle(o, pc)
      PROVE  Inv'
  <2>1. TypeOK'
    BY <1>2, SettleFacts DEF TypeOK
  <2>2. Remembered'
    BY <1>2, SettleFacts DEF Remembered, getStock, Item
  <2> QED
    BY <2>1, <2>2
<1> QED
  BY <1>1, <1>2

\* reserveStock, by its two outcomes.
LEMMA reserveStockFacts ==
  ASSUME Inv, NEW o \in Orders, reserveStock(o)
  PROVE  /\ UNCHANGED <<movements, receipt, release>>
         /\ order[o].pc = "reserve"
         /\ \/ /\ getStock(Item(o).sku)
               /\ RowOf(Item(o).sku).available >= Item(o).qty
               /\ RowStep(Item(o).sku, TakeUnits(RowOf(Item(o).sku), Item(o).qty))
               /\ reservation' = [reservation EXCEPT ![o][order[o].i] = "ACTIVE"]
               /\ Settle(o, "push")
            \/ Settle(o, "failed") /\ UNCHANGED <<stock, reservation>>
  BY DEF Inv, Remembered, reserveStock, Covered, Available, RowStep, RowOf, Item

\* upsertStock updates the row found or inserts one.
LEMMA upsertStockFacts ==
  ASSUME Inv, NEW r \in Receipts, upsertStock(r)
  PROVE  LET s == Receipt[r].sku
             d == Receipt[r].delta
         IN  /\ UNCHANGED <<reservation, movements, order, release>>
             /\ receipt' = [receipt EXCEPT ![r].pc = "record"]
             /\ \/ getStock(s) /\ RowStep(s, AddUnits(RowOf(s), d))
                \/ NewRowStep(s, [onHand |-> d, reserved |-> 0, available |-> d])
  BY DEF Inv, Remembered, upsertStock, RowStep, NewRowStep, RowOf

\* releaseReservation changes the row and the reservation of one item.
LEMMA FinishReleaseFacts ==
  ASSUME Inv, NEW x \in Releases, FinishRelease(x)
  PROVE  \E o \in Orders : \E i \in Lines(o) :
            LET s == Cart[o][i].sku
            IN  /\ UNCHANGED <<movements, order, receipt>>
                /\ reservation[o][i] # "NONE"
                /\ getStock(s)
                /\ RowStep(s, GiveUnits(RowOf(s), Cart[o][i].qty))
                /\ reservation' = [reservation EXCEPT ![o][i] = "RELEASED"]
                /\ release' = [release EXCEPT ![x].pc = "done"]
<1> DEFINE o == release[x].order
           i == release[x].i
<1>1. o \in Orders /\ i \in Lines(o) /\ reservation[o][i] # "NONE"
  BY DEF Inv, Remembered, FinishRelease
<1>2. getStock(Cart[o][i].sku)
  BY <1>1 DEF Inv, Remembered
<1>3. LET s == Cart[o][i].sku
      IN  /\ UNCHANGED <<movements, order, receipt>>
          /\ RowStep(s, GiveUnits(RowOf(s), Cart[o][i].qty))
          /\ reservation' = [reservation EXCEPT ![o][i] = "RELEASED"]
          /\ release' = [release EXCEPT ![x].pc = "done"]
  BY <1>2 DEF FinishRelease, MarkReleased, RowStep, RowOf
<1> HIDE DEF o, i
<1> QED
  BY <1>1, <1>2, <1>3

\* The row found is a row.
LEMMA RowOfFacts ==
  ASSUME TypeOK, NEW s \in Skus, getStock(s)
  PROVE  RowOf(s) \in StockRow /\ 1 \in DOMAIN stock[s]
  BY FirstRow DEF TypeOK, getStock, RowOf

\* Every suspended call can rely on what it looked up, in every reachable
\* state: the inductive invariant.
THEOREM InvCorrect == Spec => []Inv
<1>1. Init => Inv
  <2> SUFFICES ASSUME Init PROVE TypeOK /\ Remembered
    BY DEF Inv
  <2>1. TypeOK
    <3>1. order \in [Orders -> OrderState] /\ \A o \in Orders : order[o].i \in Lines(o)
      BY CartFacts DEF Init, OrderState
    <3>2. /\ reservation = [o \in Orders |-> reservation[o]]
          /\ \A o \in Orders : reservation[o] \in [Lines(o) -> {"NONE", "ACTIVE", "RELEASED"}]
      BY DEF Init
    <3>3. stock \in [Skus -> Seq(StockRow)] /\ movements \in [Skus -> Int]
      <4>1. << >> \in Seq(StockRow)
        BY EmptySeq
      <4>2. stock \in [Skus -> Seq(StockRow)]
        BY <4>1 DEF Init
      <4>3. movements = [s \in Skus |-> 0]
        BY DEF Init
      <4> QED
        BY <4>2, <4>3
    <3>4. /\ receipt \in [Receipts -> [pc : {"idle", "upsert", "record", "done"},
                                       found : BOOLEAN]]
          /\ release \in [Releases -> [pc : {"idle", "release", "done"},
                                       order : Orders \cup {""}, i : Nat]]
      BY DEF Init
    <3> QED
      BY <3>1, <3>2, <3>3, <3>4 DEF TypeOK
  <2>2. Remembered
    BY DEF Init, Remembered
  <2> QED
    BY <2>1, <2>2
<1>2. Inv /\ [Next]_vars => Inv'
  <2> SUFFICES ASSUME Inv, [Next]_vars PROVE Inv'
    OBVIOUS
  <2>t. TypeOK
    BY DEF Inv
  <2>1. ASSUME NEW o \in Orders, reserveItemsForOrder(o) PROVE Inv'
    BY <2>1, OrderStep, CartFacts DEF reserveItemsForOrder
  <2>2. ASSUME NEW o \in Orders, CheckItem(o) PROVE Inv'
    BY <2>2, <2>t, OrderStep, CartFacts, ItemFacts DEF CheckItem
  <2>3. ASSUME NEW o \in Orders, reserveStock(o) PROVE Inv'
    <3>1. CASE Settle(o, "failed") /\ UNCHANGED <<stock, reservation>>
      BY <2>3, <3>1, OrderStep, reserveStockFacts
    <3>2. CASE ~(Settle(o, "failed") /\ UNCHANGED <<stock, reservation>>)
      <4> DEFINE s == Item(o).sku
                 row == TakeUnits(RowOf(s), Item(o).qty)
      <4>1. /\ getStock(s)
            /\ RowStep(s, row)
            /\ reservation' = [reservation EXCEPT ![o][order[o].i] = "ACTIVE"]
            /\ Settle(o, "push")
            /\ UNCHANGED <<movements, receipt, release>>
        BY <2>3, <3>2, reserveStockFacts
      <4>2. s \in Skus /\ row \in StockRow
        BY <2>t, <4>1, ItemFacts, RowOfFacts, TakeFacts
      <4>4. /\ stock' \in [Skus -> Seq(StockRow)]
            /\ \A t \in Skus : getStock(t)' <=> getStock(t)
        BY <2>t, <4>1, <4>2, RowStepFacts
      <4>6. /\ order' \in [Orders -> OrderState]
            /\ order'[o].pc = "push"
            /\ order'[o].i = order[o].i
            /\ order'[o].found = order[o].found
            /\ \A p \in Orders : p # o => order'[p] = order[p]
        BY <2>t, <4>1, SettleFacts
      <4>7. s = Cart[o][order[o].i].sku /\ order[o].i \in Lines(o)
        BY <2>t, ItemFacts
      <4> HIDE DEF s, row
      <4>8. TypeOK'
        BY <2>t, <4>1, <4>4, <4>6, <4>7 DEF TypeOK
      <4>9. \A p \in Orders : \A i \in Lines(p) :
              reservation'[p][i] # "NONE" => getStock(Cart[p][i].sku)
        BY <2>t, <4>1, <4>7 DEF Inv, Remembered, TypeOK
      <4>10. \A p \in Orders : \A i \in Lines(p) :
              reservation[p][i] # "NONE" => reservation'[p][i] # "NONE"
        BY <2>t, <4>1 DEF TypeOK
      <4>11. \A p \in Orders : \A i \in Lines(p) : Cart[p][i].sku \in Skus
        BY CartFacts
      <4>12. Remembered'
        <5>1. \A p \in Orders : order'[p].pc \in {"check", "reserve"} /\ order'[p].found
                => getStock(Item(p).sku)'
          BY <2>t, <4>4, <4>6, <4>11, ItemFacts DEF Inv, Remembered, Item
        <5>2. \A r \in Receipts : receipt'[r].pc = "upsert" /\ receipt'[r].found
                => getStock(Receipt[r].sku)'
          BY <4>1, <4>4, ReceiptFacts DEF Inv, Remembered
        <5>3. \A p \in Orders : \A i \in Lines(p) :
                reservation'[p][i] # "NONE" => getStock(Cart[p][i].sku)'
          BY <4>4, <4>9, <4>11
        <5>4. \A x \in Releases : release'[x].pc = "release" =>
                /\ release'[x].order \in Orders
                /\ release'[x].i \in Lines(release'[x].order)
                /\ reservation'[release'[x].order][release'[x].i] # "NONE"
          BY <4>1, <4>10 DEF Inv, Remembered
        <5> QED
          BY <5>1, <5>2, <5>3, <5>4 DEF Remembered
      <4> QED
        BY <4>8, <4>12 DEF Inv
    <3> QED
      BY <3>1, <3>2
  <2>4. ASSUME NEW o \in Orders, PushReservation(o) PROVE Inv'
    BY <2>4, <2>t, OrderStep, CartFacts, ItemFacts DEF PushReservation, LastItem
  <2>5. ASSUME NEW r \in Receipts, adjustStock(r) PROVE Inv'
    <3>1. TypeOK'
      BY <2>5, <2>t DEF TypeOK, adjustStock, getStock
    <3>2. Remembered'
      BY <2>5, <2>t DEF TypeOK, Inv, Remembered, adjustStock, getStock, Item
    <3> QED
      BY <3>1, <3>2 DEF Inv
  <2>6. ASSUME NEW r \in Receipts, upsertStock(r) PROVE Inv'
    <3> DEFINE s == Receipt[r].sku
               d == Receipt[r].delta
               new == [onHand |-> d, reserved |-> 0, available |-> d]
    <3>1. s \in Skus /\ d \in Int /\ new \in StockRow
      BY ReceiptFacts DEF StockRow
    <3>2. /\ UNCHANGED <<reservation, movements, order, release>>
          /\ receipt' = [receipt EXCEPT ![r].pc = "record"]
          /\ \/ getStock(s) /\ RowStep(s, AddUnits(RowOf(s), d))
             \/ NewRowStep(s, new)
      BY <2>6, upsertStockFacts
    <3>3. getStock(s) => AddUnits(RowOf(s), d) \in StockRow
      BY <2>t, <3>1, RowOfFacts, AddFacts
    <3> HIDE DEF s, d, new
    <3>4. /\ stock' \in [Skus -> Seq(StockRow)]
          /\ \A t \in Skus : getStock(t) => getStock(t)'
      BY <2>t, <3>1, <3>2, <3>3, RowStepFacts, NewRowStepFacts
    <3>5. TypeOK'
      BY <2>t, <3>2, <3>4 DEF TypeOK
    <3>6. \A p \in Orders : \A i \in Lines(p) : Cart[p][i].sku \in Skus
      BY CartFacts
    <3>7. Remembered'
      <4>1. \A p \in Orders : order'[p].pc \in {"check", "reserve"} /\ order'[p].found
              => getStock(Item(p).sku)'
        BY <2>t, <3>2, <3>4, ItemFacts DEF Inv, Remembered, Item
      <4>2. \A q \in Receipts : receipt'[q].pc = "upsert" /\ receipt'[q].found
              => getStock(Receipt[q].sku)'
        <5> SUFFICES ASSUME NEW q \in Receipts, receipt'[q].pc = "upsert", receipt'[q].found
                     PROVE  getStock(Receipt[q].sku)'
          OBVIOUS
        <5>1. q # r
          BY <2>t, <3>2 DEF TypeOK
        <5>2. receipt'[q] = receipt[q]
          BY <2>t, <3>2, <5>1 DEF TypeOK
        <5>3. getStock(Receipt[q].sku) /\ Receipt[q].sku \in Skus
          BY <5>2, ReceiptFacts DEF Inv, Remembered
        <5> QED
          BY <3>4, <5>3
      <4>3. \A p \in Orders : \A i \in Lines(p) :
              reservation'[p][i] # "NONE" => getStock(Cart[p][i].sku)'
        BY <3>2, <3>4, <3>6 DEF Inv, Remembered
      <4>4. \A x \in Releases : release'[x].pc = "release" =>
              /\ release'[x].order \in Orders
              /\ release'[x].i \in Lines(release'[x].order)
              /\ reservation'[release'[x].order][release'[x].i] # "NONE"
        BY <3>2 DEF Inv, Remembered
      <4> QED
        BY <4>1, <4>2, <4>3, <4>4 DEF Remembered
    <3> QED
      BY <3>5, <3>7 DEF Inv
  <2>7. ASSUME NEW r \in Receipts, recordMovement(r) PROVE Inv'
    <3>1. TypeOK'
      <4>0. movements \in [Skus -> Int] /\ Receipt[r].sku \in Skus /\ Receipt[r].delta \in Int
        BY <2>t, ReceiptFacts DEF TypeOK
      <4>1. movements' \in [Skus -> Int]
        BY <2>7, <4>0 DEF recordMovement
      <4>2. receipt' \in [Receipts -> [pc : {"idle", "upsert", "record", "done"},
                                      found : BOOLEAN]]
        BY ZenonT(40), <2>7, <2>t DEF TypeOK, recordMovement
      <4> QED
        BY <2>7, <2>t, <4>1, <4>2 DEF TypeOK, recordMovement
    <3>2. Remembered'
      BY <2>7, <2>t DEF TypeOK, Inv, Remembered, recordMovement, getStock, Item
    <3> QED
      BY <3>1, <3>2 DEF Inv
  <2>8. ASSUME NEW x \in Releases, NEW o \in Orders, NEW i \in Lines(o),
               releaseReservation(x, o, i)
        PROVE  Inv'
    <3>1. TypeOK'
      <4>1. i \in Nat
        BY CartFacts DEF Lines
      <4>2. release' \in [Releases -> [pc : {"idle", "release", "done"},
                                      order : Orders \cup {""}, i : Nat]]
        BY <2>8, <2>t, <4>1 DEF TypeOK, releaseReservation
      <4> QED
        BY <2>8, <2>t, <4>2 DEF TypeOK, releaseReservation
    <3>2. Remembered'
      BY <2>8, <2>t DEF TypeOK, Inv, Remembered, releaseReservation, getStock, Item
    <3> QED
      BY <3>1, <3>2 DEF Inv
  <2>9. ASSUME NEW x \in Releases, FinishRelease(x) PROVE Inv'
    <3>1. PICK o \in Orders : \E i \in Lines(o) :
            LET s == Cart[o][i].sku
            IN  /\ UNCHANGED <<movements, order, receipt>>
                /\ reservation[o][i] # "NONE"
                /\ getStock(s)
                /\ RowStep(s, GiveUnits(RowOf(s), Cart[o][i].qty))
                /\ reservation' = [reservation EXCEPT ![o][i] = "RELEASED"]
                /\ release' = [release EXCEPT ![x].pc = "done"]
      BY <2>9, FinishReleaseFacts
    <3>2. PICK i \in Lines(o) :
            /\ UNCHANGED <<movements, order, receipt>>
            /\ reservation[o][i] # "NONE"
            /\ getStock(Cart[o][i].sku)
            /\ RowStep(Cart[o][i].sku, GiveUnits(RowOf(Cart[o][i].sku), Cart[o][i].qty))
            /\ reservation' = [reservation EXCEPT ![o][i] = "RELEASED"]
            /\ release' = [release EXCEPT ![x].pc = "done"]
      BY <3>1
    <3>3. Cart[o][i].sku \in Skus /\ GiveUnits(RowOf(Cart[o][i].sku), Cart[o][i].qty) \in StockRow
      BY <2>t, <3>2, CartFacts, RowOfFacts, GiveFacts
    <3>4. /\ stock' \in [Skus -> Seq(StockRow)]
          /\ \A t \in Skus : getStock(t)' <=> getStock(t)
      BY <2>t, <3>2, <3>3, RowStepFacts
    <3>5. TypeOK'
      BY <2>t, <3>2, <3>4 DEF TypeOK
    <3>6. \A p \in Orders : \A j \in Lines(p) : Cart[p][j].sku \in Skus
      BY CartFacts
    <3>7. \A p \in Orders : \A j \in Lines(p) :
            reservation'[p][j] # "NONE" <=> reservation[p][j] # "NONE"
      BY <2>t, <3>2 DEF TypeOK
    <3>8. Remembered'
      <4>1. \A p \in Orders : order'[p].pc \in {"check", "reserve"} /\ order'[p].found
              => getStock(Item(p).sku)'
        BY <2>t, <3>2, <3>4, ItemFacts DEF Inv, Remembered, Item
      <4>2. \A q \in Receipts : receipt'[q].pc = "upsert" /\ receipt'[q].found
              => getStock(Receipt[q].sku)'
        BY <2>t, <3>2, <3>4, ReceiptFacts DEF Inv, Remembered
      <4>3. \A p \in Orders : \A j \in Lines(p) :
              reservation'[p][j] # "NONE" => getStock(Cart[p][j].sku)'
        BY <3>2, <3>4, <3>6, <3>7 DEF Inv, Remembered
      <4>4. \A y \in Releases : release'[y].pc = "release" =>
              /\ release'[y].order \in Orders
              /\ release'[y].i \in Lines(release'[y].order)
              /\ reservation'[release'[y].order][release'[y].i] # "NONE"
        <5>1. \A y \in Releases : release'[y].pc = "release" => release'[y] = release[y]
          BY ZenonT(40), <2>t, <3>2 DEF TypeOK
        <5> QED
          BY <3>7, <5>1 DEF Inv, Remembered
      <4> QED
        BY <4>1, <4>2, <4>3, <4>4 DEF Remembered
    <3> QED
      BY <3>5, <3>8 DEF Inv
  <2>10. CASE UNCHANGED vars
    BY <2>10 DEF Inv, TypeOK, Remembered, vars, getStock, Item
  <2> QED
    BY <2>1, <2>2, <2>3, <2>4, <2>5, <2>6, <2>7, <2>8, <2>9, <2>10 DEF Next
<1> QED
  BY <1>1, <1>2, PTL DEF Spec
----------------------------------------------------------------------------
\* Nothing is in stock at first.
LEMMA NoRows == Init => \A s \in Skus : stock[s] = << >> /\ DOMAIN stock[s] = {}
<1>1. DOMAIN << >> = {}
  OBVIOUS
<1> QED
  BY <1>1 DEF Init

\* The quantities of a row, after a reservation, an adjustment or a release.
\* Steps that leave stock alone are covered by the last lemma.
LEMMA RowStepsOnly ==
  ASSUME Inv, [Next]_vars
  PROVE  \/ UNCHANGED stock
         \/ \E o \in Orders : reserveStock(o)
         \/ \E r \in Receipts : upsertStock(r)
         \/ \E x \in Releases : FinishRelease(x)
  BY DEF Next, vars, reserveItemsForOrder, CheckItem, PushReservation,
         adjustStock, recordMovement, releaseReservation

\* In every row, available is onHand - reserved, whatever the interleaving.
THEOREM AvailableCorrect == Spec => []AvailableAgrees
<1>1. Init => AvailableAgrees
  BY NoRows DEF Init, AvailableAgrees
<1>2. Inv /\ AvailableAgrees /\ [Next]_vars => AvailableAgrees'
  <2> SUFFICES ASSUME Inv, AvailableAgrees, [Next]_vars PROVE AvailableAgrees'
    OBVIOUS
  <2>t. TypeOK
    BY DEF Inv
  <2>0. ASSUME NEW s \in Skus, NEW row \in StockRow, RowStep(s, row),
               row.available = row.onHand - row.reserved
        PROVE  AvailableAgrees'
    BY <2>0, <2>t, RowStepFacts DEF AvailableAgrees
  <2>1. ASSUME NEW o \in Orders, reserveStock(o) PROVE AvailableAgrees'
    <3>1. CASE UNCHANGED stock
      BY <3>1 DEF AvailableAgrees
    <3>2. CASE ~UNCHANGED stock
      <4>1. /\ getStock(Item(o).sku)
            /\ RowStep(Item(o).sku, TakeUnits(RowOf(Item(o).sku), Item(o).qty))
        BY <2>1, <3>2, reserveStockFacts
      <4>2. Item(o).sku \in Skus /\ Item(o).qty \in Nat /\ RowOf(Item(o).sku) \in StockRow
        BY <2>t, <4>1, ItemFacts, RowOfFacts
      <4>3. /\ TakeUnits(RowOf(Item(o).sku), Item(o).qty) \in StockRow
            /\ TakeUnits(RowOf(Item(o).sku), Item(o).qty).onHand = RowOf(Item(o).sku).onHand
            /\ TakeUnits(RowOf(Item(o).sku), Item(o).qty).available
                = RowOf(Item(o).sku).onHand - TakeUnits(RowOf(Item(o).sku), Item(o).qty).reserved
        BY <4>2, TakeFacts
      <4> QED
        BY <2>0, <4>1, <4>2, <4>3
    <3> QED
      BY <3>1, <3>2
  <2>2. ASSUME NEW r \in Receipts, upsertStock(r) PROVE AvailableAgrees'
    <3> DEFINE s == Receipt[r].sku
               d == Receipt[r].delta
               new == [onHand |-> d, reserved |-> 0, available |-> d]
    <3>1. s \in Skus /\ d \in Int /\ new \in StockRow /\ new.available = new.onHand - new.reserved
      BY ReceiptFacts DEF StockRow
    <3>2. \/ getStock(s) /\ RowStep(s, AddUnits(RowOf(s), d))
          \/ NewRowStep(s, new)
      BY <2>2, upsertStockFacts
    <3> HIDE DEF s, d, new
    <3>3. CASE getStock(s) /\ RowStep(s, AddUnits(RowOf(s), d))
      <4>1. RowOf(s) \in StockRow
        BY <2>t, <3>1, <3>3, RowOfFacts
      <4> QED
        BY <2>0, <3>1, <3>3, <4>1, AddFacts
    <3>4. CASE NewRowStep(s, new)
      BY <2>t, <3>1, <3>4, NewRowStepFacts DEF AvailableAgrees
    <3> QED
      BY <3>2, <3>3, <3>4
  <2>3. ASSUME NEW x \in Releases, FinishRelease(x) PROVE AvailableAgrees'
    <3>0. PICK o \in Orders : \E i \in Lines(o) :
            /\ getStock(Cart[o][i].sku)
            /\ RowStep(Cart[o][i].sku, GiveUnits(RowOf(Cart[o][i].sku), Cart[o][i].qty))
      BY <2>3, FinishReleaseFacts
    <3>1. PICK i \in Lines(o) :
            /\ getStock(Cart[o][i].sku)
            /\ RowStep(Cart[o][i].sku, GiveUnits(RowOf(Cart[o][i].sku), Cart[o][i].qty))
      BY <3>0
    <3>2. /\ Cart[o][i].sku \in Skus /\ Cart[o][i].qty \in Nat
          /\ RowOf(Cart[o][i].sku) \in StockRow
      BY <2>t, <3>1, CartFacts, RowOfFacts
    <3> QED
      BY <2>0, <3>1, <3>2, GiveFacts
  <2>4. CASE UNCHANGED stock
    BY <2>4 DEF AvailableAgrees
  <2> QED
    BY <2>1, <2>2, <2>3, <2>4, RowStepsOnly
<1> QED
  BY <1>1, <1>2, InvCorrect, PTL DEF Spec

\* No row is oversold while adjustments only add units: the second test, in
\* reserveStock, is on the live row, so a check that went stale at an await
\* cannot take units twice.
THEOREM NoOversellCorrect == Spec => []NoOversell
<1>1. Init => NoOversell
  BY NoRows DEF Init, NoOversell
<1>2. Inv /\ AvailableAgrees /\ NoOversell /\ [Next]_vars => NoOversell'
  <2> SUFFICES ASSUME Inv, AvailableAgrees, NoOversell, [Next]_vars,
                      \A r \in Receipts : Receipt[r].delta >= 0
               PROVE  \A s \in Skus : \A n \in DOMAIN stock'[s] : stock'[s][n].available >= 0
    BY DEF NoOversell
  <2> DEFINE Goal == \A s \in Skus : \A n \in DOMAIN stock'[s] : stock'[s][n].available >= 0
  <2>t. TypeOK
    BY DEF Inv
  <2>o. \A s \in Skus : \A n \in DOMAIN stock[s] : stock[s][n].available >= 0
    BY DEF NoOversell
  <2>a. ASSUME NEW s \in Skus, getStock(s)
        PROVE  /\ RowOf(s) \in StockRow
               /\ RowOf(s).available = RowOf(s).onHand - RowOf(s).reserved
               /\ RowOf(s).available >= 0
    BY <2>a, <2>t, <2>o, RowOfFacts DEF AvailableAgrees, RowOf
  <2>0. ASSUME NEW s \in Skus, NEW row \in StockRow, RowStep(s, row), row.available >= 0
        PROVE  Goal
    BY <2>0, <2>t, <2>o, RowStepFacts
  <2>1. ASSUME NEW o \in Orders, reserveStock(o) PROVE Goal
    <3>1. CASE UNCHANGED stock
      BY <2>o, <3>1
    <3>2. CASE ~UNCHANGED stock
      <4> DEFINE s == Item(o).sku
                 q == Item(o).qty
      <4>1. /\ getStock(s)
            /\ RowOf(s).available >= q
            /\ RowStep(s, TakeUnits(RowOf(s), q))
        BY <2>1, <3>2, reserveStockFacts
      <4>2. s \in Skus /\ q \in Nat
        BY <2>t, ItemFacts
      <4> HIDE DEF s, q
      <4>3. TakeUnits(RowOf(s), q) \in StockRow /\ TakeUnits(RowOf(s), q).available >= 0
        <5>1. /\ RowOf(s) \in StockRow
              /\ RowOf(s).available = RowOf(s).onHand - RowOf(s).reserved
          BY <2>a, <4>1, <4>2
        <5>2. RowOf(s).onHand \in Int /\ RowOf(s).reserved \in Int
          BY <5>1 DEF StockRow
        <5> QED
          BY <4>1, <4>2, <5>1, <5>2, TakeFacts
      <4> QED
        BY <2>0, <4>1, <4>2, <4>3
    <3> QED
      BY <3>1, <3>2
  <2>2. ASSUME NEW r \in Receipts, upsertStock(r) PROVE Goal
    <3> DEFINE s == Receipt[r].sku
               d == Receipt[r].delta
               new == [onHand |-> d, reserved |-> 0, available |-> d]
    <3>1. s \in Skus /\ d \in Int /\ d >= 0 /\ new \in StockRow /\ new.available >= 0
      BY ReceiptFacts DEF StockRow
    <3>2. \/ getStock(s) /\ RowStep(s, AddUnits(RowOf(s), d))
          \/ NewRowStep(s, new)
      BY <2>2, upsertStockFacts
    <3> HIDE DEF s, d, new
    <3>3. CASE getStock(s) /\ RowStep(s, AddUnits(RowOf(s), d))
      <4>1. /\ RowOf(s) \in StockRow
            /\ RowOf(s).available = RowOf(s).onHand - RowOf(s).reserved
            /\ RowOf(s).available >= 0
        BY <2>a, <3>1, <3>3
      <4>2. RowOf(s).onHand \in Int /\ RowOf(s).reserved \in Int
        BY <4>1 DEF StockRow
      <4>3. AddUnits(RowOf(s), d) \in StockRow /\ AddUnits(RowOf(s), d).available >= 0
        <5>1. /\ AddUnits(RowOf(s), d) \in StockRow
              /\ AddUnits(RowOf(s), d).available = RowOf(s).onHand + d - RowOf(s).reserved
          BY <3>1, <4>1, AddFacts
        <5> QED
          BY <3>1, <4>1, <4>2, <5>1
      <4> QED
        BY <2>0, <3>1, <3>3, <4>3
    <3>4. CASE NewRowStep(s, new)
      BY <2>t, <2>o, <3>1, <3>4, NewRowStepFacts
    <3> QED
      BY <3>2, <3>3, <3>4
  <2>3. ASSUME NEW x \in Releases, FinishRelease(x) PROVE Goal
    <3>0. PICK o \in Orders : \E i \in Lines(o) :
            /\ getStock(Cart[o][i].sku)
            /\ RowStep(Cart[o][i].sku, GiveUnits(RowOf(Cart[o][i].sku), Cart[o][i].qty))
      BY <2>3, FinishReleaseFacts
    <3>1. PICK i \in Lines(o) :
            /\ getStock(Cart[o][i].sku)
            /\ RowStep(Cart[o][i].sku, GiveUnits(RowOf(Cart[o][i].sku), Cart[o][i].qty))
      BY <3>0
    <3> DEFINE s == Cart[o][i].sku
               q == Cart[o][i].qty
    <3>2. s \in Skus /\ q \in Nat
      BY CartFacts
    <3>3. RowStep(s, GiveUnits(RowOf(s), q)) /\ getStock(s)
      BY <3>1
    <3> HIDE DEF s, q
    <3>4. /\ RowOf(s) \in StockRow
          /\ RowOf(s).available = RowOf(s).onHand - RowOf(s).reserved
          /\ RowOf(s).available >= 0
      BY <2>a, <3>2, <3>3
    <3>5. RowOf(s).onHand \in Int /\ RowOf(s).reserved \in Int
      BY <3>4 DEF StockRow
    <3>6. GiveUnits(RowOf(s), q) \in StockRow /\ GiveUnits(RowOf(s), q).reserved \in Int
      BY <3>2, <3>4, GiveFacts
    <3>7. GiveUnits(RowOf(s), q).available >= 0
      <4>1. /\ GiveUnits(RowOf(s), q).reserved <= RowOf(s).reserved
            /\ GiveUnits(RowOf(s), q).available
                = RowOf(s).onHand - GiveUnits(RowOf(s), q).reserved
        BY <3>2, <3>4, GiveFacts
      <4> QED
        BY <3>4, <3>5, <3>6, <4>1
    <3> QED
      BY <2>0, <3>2, <3>3, <3>6, <3>7
  <2>4. CASE UNCHANGED stock
    BY <2>4, <2>o
  <2> QED
    BY <2>1, <2>2, <2>3, <2>4, RowStepsOnly
<1> QED
  BY <1>1, <1>2, InvCorrect, AvailableCorrect, PTL DEF Spec

\* A step that raises the reserved units of a row leaves them within what is
\* on hand, even when other adjustments took units away.
THEOREM ReservationBackedCorrect == Spec => ReservationBacked
<1> DEFINE Backed == \A s \in Skus :
        /\ stock[s] # << >>
        /\ stock'[s][1].reserved > stock[s][1].reserved
        => stock'[s][1].reserved <= stock'[s][1].onHand
<1>1. Inv /\ AvailableAgrees /\ [Next]_vars => [Backed]_vars
  <2> SUFFICES ASSUME Inv, AvailableAgrees, [Next]_vars, NEW s \in Skus, stock[s] # << >>,
                      stock'[s][1].reserved > stock[s][1].reserved
               PROVE  stock'[s][1].reserved <= stock'[s][1].onHand
    OBVIOUS
  <2>t. TypeOK
    BY DEF Inv
  <2>r. getStock(s) /\ RowOf(s) = stock[s][1]
    BY DEF getStock, RowOf
  <2>a. /\ RowOf(s) \in StockRow
        /\ 1 \in DOMAIN stock[s]
        /\ RowOf(s).available = RowOf(s).onHand - RowOf(s).reserved
    BY <2>r, <2>t, RowOfFacts DEF AvailableAgrees, RowOf
  <2>b. RowOf(s).onHand \in Int /\ RowOf(s).reserved \in Int
    BY <2>a DEF StockRow
  <2>c. ASSUME NEW t \in Skus, NEW row \in StockRow, RowStep(t, row)
        PROVE  t = s /\ stock'[s][1] = row
    BY <2>a, <2>b, <2>c, <2>r, <2>t, RowStepFacts
  <2>1. ASSUME NEW o \in Orders, reserveStock(o)
        PROVE  stock'[s][1].reserved <= stock'[s][1].onHand
    <3>1. CASE UNCHANGED stock
      BY <3>1, <2>b, <2>r
    <3>2. CASE ~UNCHANGED stock
      <4> DEFINE t == Item(o).sku
                 q == Item(o).qty
      <4>1. /\ getStock(t)
            /\ RowOf(t).available >= q
            /\ RowStep(t, TakeUnits(RowOf(t), q))
        BY <2>1, <3>2, reserveStockFacts
      <4>2. t \in Skus /\ q \in Nat
        BY <2>t, ItemFacts
      <4> HIDE DEF t, q
      <4>3. TakeUnits(RowOf(t), q) \in StockRow
        BY <2>t, <4>1, <4>2, RowOfFacts, TakeFacts
      <4>4. t = s /\ stock'[s][1] = TakeUnits(RowOf(s), q)
        BY <2>c, <4>1, <4>2, <4>3
      <4>5. /\ TakeUnits(RowOf(s), q).reserved = RowOf(s).reserved + q
            /\ TakeUnits(RowOf(s), q).onHand = RowOf(s).onHand
        BY <2>a, <4>2, TakeFacts
      <4> QED
        BY <2>a, <2>b, <4>1, <4>2, <4>4, <4>5
    <3> QED
      BY <3>1, <3>2
  <2>2. ASSUME NEW r \in Receipts, upsertStock(r) PROVE FALSE
    <3> DEFINE t == Receipt[r].sku
               d == Receipt[r].delta
               new == [onHand |-> d, reserved |-> 0, available |-> d]
    <3>1. t \in Skus /\ d \in Int /\ new \in StockRow
      BY ReceiptFacts DEF StockRow
    <3>2. \/ getStock(t) /\ RowStep(t, AddUnits(RowOf(t), d))
          \/ NewRowStep(t, new)
      BY <2>2, upsertStockFacts
    <3> HIDE DEF t, d, new
    <3>3. CASE getStock(t) /\ RowStep(t, AddUnits(RowOf(t), d))
      <4>1. AddUnits(RowOf(t), d) \in StockRow
        BY <2>t, <3>1, <3>3, RowOfFacts, AddFacts
      <4>2. t = s /\ stock'[s][1] = AddUnits(RowOf(s), d)
        BY <2>c, <3>1, <3>3, <4>1
      <4>3. AddUnits(RowOf(s), d).reserved = RowOf(s).reserved
        BY <2>a, <3>1, AddFacts
      <4> QED
        BY <2>b, <2>r, <4>2, <4>3
    <3>4. CASE NewRowStep(t, new)
      BY <2>b, <2>r, <2>t, <3>1, <3>4, NewRowStepFacts
    <3> QED
      BY <3>2, <3>3, <3>4
  <2>3. ASSUME NEW x \in Releases, FinishRelease(x) PROVE FALSE
    <3>0. PICK o \in Orders : \E i \in Lines(o) :
            /\ getStock(Cart[o][i].sku)
            /\ RowStep(Cart[o][i].sku, GiveUnits(RowOf(Cart[o][i].sku), Cart[o][i].qty))
      BY <2>3, FinishReleaseFacts
    <3>1. PICK i \in Lines(o) :
            /\ getStock(Cart[o][i].sku)
            /\ RowStep(Cart[o][i].sku, GiveUnits(RowOf(Cart[o][i].sku), Cart[o][i].qty))
      BY <3>0
    <3> DEFINE t == Cart[o][i].sku
               q == Cart[o][i].qty
    <3>2. t \in Skus /\ q \in Nat
      BY CartFacts
    <3>3. RowStep(t, GiveUnits(RowOf(t), q)) /\ getStock(t)
      BY <3>1
    <3> HIDE DEF t, q
    <3>4. GiveUnits(RowOf(t), q) \in StockRow
      BY <2>t, <3>2, <3>3, RowOfFacts, GiveFacts
    <3>5. t = s /\ stock'[s][1] = GiveUnits(RowOf(s), q)
      BY <2>c, <3>2, <3>3, <3>4
    <3>6. GiveUnits(RowOf(s), q).reserved \in Nat /\ GiveUnits(RowOf(s), q).reserved <= RowOf(s).reserved
      BY <2>a, <3>2, GiveFacts
    <3> QED
      BY <2>b, <2>r, <3>5, <3>6
  <2>4. CASE UNCHANGED stock
    BY <2>4, <2>b, <2>r
  <2> QED
    BY <2>1, <2>2, <2>3, <2>4, RowStepsOnly
<1> QED
  BY <1>1, InvCorrect, AvailableCorrect, PTL DEF Spec, ReservationBacked

\* What a call leaves behind in the reservations is a function of where it
\* is: all items when it returned, none when it was rejected, exactly the
\* items before the failing one when reserveStock threw.
THEOREM OutcomeCorrect == Spec => []OutcomeExplained
<1> DEFINE Explained(o) ==
        LET Reserved == {i \in Lines(o) : reservation[o][i] # "NONE"}
        IN  /\ order[o].pc = "done" => Reserved = Lines(o)
            /\ order[o].pc \in {"idle", "check", "rejected"} => Reserved = {}
            /\ order[o].pc \in {"reserve", "failed"} => Reserved = 1 .. order[o].i - 1
            /\ order[o].pc = "push" => Reserved = 1 .. order[o].i
<1>1. Init => OutcomeExplained
  <2> SUFFICES ASSUME Init, NEW o \in Orders PROVE Explained(o)
    BY DEF OutcomeExplained
  <2>1. order[o].pc = "idle"
    BY DEF Init
  <2>2. \A i \in Lines(o) : reservation[o][i] = "NONE"
    BY DEF Init
  <2> QED
    BY <2>1, <2>2
<1>2. Inv /\ OutcomeExplained /\ [Next]_vars => OutcomeExplained'
  <2> SUFFICES ASSUME Inv, OutcomeExplained, [Next]_vars PROVE OutcomeExplained'
    OBVIOUS
  <2>t. TypeOK
    BY DEF Inv
  <2>e. \A o \in Orders : Explained(o)
    BY DEF OutcomeExplained
  <2>g. ASSUME \A p \in Orders : Explained(p)' PROVE OutcomeExplained'
    BY <2>g DEF OutcomeExplained
  <2>s. ASSUME NEW o \in Orders, UNCHANGED reservation,
               \A p \in Orders : p # o => order'[p] = order[p], Explained(o)'
        PROVE  OutcomeExplained'
    BY <2>s, <2>e, <2>g
  <2>n. \A o \in Orders : order[o].i \in Lines(o) /\ Len(Cart[o]) \in Nat
    BY <2>t, CartFacts, ItemFacts
  <2>1. ASSUME NEW o \in Orders, reserveItemsForOrder(o) PROVE OutcomeExplained'
    <3>1. /\ order[o].pc = "idle" /\ order'[o].pc = "check"
          /\ \A p \in Orders : p # o => order'[p] = order[p]
          /\ UNCHANGED reservation
      BY <2>1, <2>t, CartFacts, AwaitFacts DEF reserveItemsForOrder
    <3>2. Explained(o)'
      BY <2>e, <3>1
    <3> QED
      BY <2>s, <3>1, <3>2
  <2>2. ASSUME NEW o \in Orders, CheckItem(o) PROVE OutcomeExplained'
    <3>1. /\ order[o].pc = "check"
          /\ \/ order'[o].pc \in {"rejected", "check"}
             \/ order'[o].pc = "reserve" /\ order'[o].i = 1
          /\ \A p \in Orders : p # o => order'[p] = order[p]
          /\ UNCHANGED reservation
      BY <2>2, <2>t, CartFacts, ItemFacts, AwaitFacts, SettleFacts DEF CheckItem
    <3>2. Explained(o)'
      BY <2>e, <3>1
    <3> QED
      BY <2>s, <3>1, <3>2
  <2>3. ASSUME NEW o \in Orders, reserveStock(o) PROVE OutcomeExplained'
    <3>1. CASE Settle(o, "failed") /\ UNCHANGED <<stock, reservation>>
      <4>1. /\ order[o].pc = "reserve" /\ order'[o].pc = "failed"
            /\ order'[o].i = order[o].i
            /\ \A p \in Orders : p # o => order'[p] = order[p]
        BY <2>3, <2>t, <3>1, SettleFacts, reserveStockFacts
      <4>2. Explained(o)'
        BY <2>e, <3>1, <4>1
      <4> QED
        BY <2>s, <3>1, <4>1, <4>2
    <3>2. CASE ~(Settle(o, "failed") /\ UNCHANGED <<stock, reservation>>)
      <4>1. /\ reservation' = [reservation EXCEPT ![o][order[o].i] = "ACTIVE"]
            /\ Settle(o, "push")
            /\ order[o].pc = "reserve"
        BY <2>3, <3>2, reserveStockFacts
      <4>2. /\ order'[o].pc = "push"
            /\ order'[o].i = order[o].i
            /\ \A p \in Orders : p # o => order'[p] = order[p]
        BY <2>t, <4>1, SettleFacts
      <4>3. \A i \in Lines(o) : reservation'[o][i] = IF i = order[o].i THEN "ACTIVE"
                                                     ELSE reservation[o][i]
        BY <2>t, <4>1 DEF TypeOK
      <4>4. \A p \in Orders : p # o => reservation'[p] = reservation[p]
        BY <2>t, <4>1 DEF TypeOK
      <4>5. {i \in Lines(o) : reservation[o][i] # "NONE"} = 1 .. order[o].i - 1
        BY <2>e, <4>1
      <4>6. {i \in Lines(o) : reservation'[o][i] # "NONE"} = 1 .. order[o].i
        BY <2>n, <4>3, <4>5 DEF Lines
      <4>7. Explained(o)'
        BY <4>2, <4>6
      <4>8. \A p \in Orders : p # o => Explained(p)'
        BY <2>e, <4>2, <4>4
      <4> QED
        BY <2>g, <4>7, <4>8
    <3> QED
      BY <3>1, <3>2
  <2>4. ASSUME NEW o \in Orders, PushReservation(o) PROVE OutcomeExplained'
    <3>1. /\ order[o].pc = "push"
          /\ \/ order'[o].pc = "done" /\ order[o].i = Len(Cart[o])
             \/ order'[o].pc = "reserve" /\ order'[o].i = order[o].i + 1
          /\ \A p \in Orders : p # o => order'[p] = order[p]
          /\ UNCHANGED reservation
      BY <2>4, <2>t, ItemFacts, AwaitFacts, SettleFacts DEF PushReservation, LastItem
    <3>2. {i \in Lines(o) : reservation'[o][i] # "NONE"} = 1 .. order[o].i
      BY <2>e, <3>1
    <3>3. order'[o].pc = "reserve" => 1 .. order'[o].i - 1 = 1 .. order[o].i
      BY <2>n, <3>1 DEF Lines
    <3>4. order'[o].pc = "done" => 1 .. order[o].i = Lines(o)
      BY <2>n, <3>1 DEF Lines
    <3>5. Explained(o)'
      BY <3>1, <3>2, <3>3, <3>4
    <3> QED
      BY <2>s, <3>1, <3>5
  <2>5. ASSUME NEW x \in Releases, FinishRelease(x) PROVE OutcomeExplained'
    <3>1. PICK o \in Orders : \E i \in Lines(o) :
            /\ UNCHANGED order
            /\ reservation[o][i] # "NONE"
            /\ reservation' = [reservation EXCEPT ![o][i] = "RELEASED"]
      BY <2>5, FinishReleaseFacts
    <3>i. PICK i \in Lines(o) :
            /\ reservation[o][i] # "NONE"
            /\ reservation' = [reservation EXCEPT ![o][i] = "RELEASED"]
      BY <3>1
    <3>2. \A p \in Orders : \A j \in Lines(p) :
            reservation'[p][j] # "NONE" <=> reservation[p][j] # "NONE"
      BY <2>t, <3>i DEF TypeOK
    <3>3. \A p \in Orders : {j \in Lines(p) : reservation'[p][j] # "NONE"}
                          = {j \in Lines(p) : reservation[p][j] # "NONE"}
      BY <3>2
    <3>4. \A p \in Orders : Explained(p)'
      BY <2>e, <3>1, <3>3
    <3> QED
      BY <2>g, <3>4
  <2>6. CASE UNCHANGED <<order, reservation>>
    BY <2>6 DEF OutcomeExplained
  <2> QED
    BY <2>1, <2>2, <2>3, <2>4, <2>5, <2>6
    DEF Next, vars, adjustStock, upsertStock, recordMovement, releaseReservation
<1> QED
  BY <1>1, <1>2, InvCorrect, PTL DEF Spec

----------------------------------------------------------------------------
(* The audit trail.                                                        *)

\* The units on hand in a sequence of rows
OnHandOf(rows) == SumFunctionOnSet([n \in DOMAIN rows |-> rows[n].onHand], DOMAIN rows)

\* A sum over rows is a number.
LEMMA RowsFacts ==
  ASSUME NEW rows \in Seq(StockRow)
  PROVE  /\ IsFiniteSet(DOMAIN rows)
         /\ \A n \in DOMAIN rows : rows[n] \in StockRow /\ rows[n].onHand \in Int
         /\ OnHandOf(rows) \in Int
<1>1. Len(rows) \in Nat /\ DOMAIN rows = 1 .. Len(rows)
      /\ \A n \in 1 .. Len(rows) : rows[n] \in StockRow
  BY LenProperties
<1>2. IsFiniteSet(DOMAIN rows)
  BY <1>1, FS_Interval
<1>3. \A n \in DOMAIN rows : rows[n] \in StockRow /\ rows[n].onHand \in Int
  BY <1>1 DEF StockRow
<1> DEFINE f == [n \in DOMAIN rows |-> rows[n].onHand]
<1>4. \A n \in DOMAIN rows : f[n] \in Int
  BY <1>3
<1> HIDE DEF f
<1>5. SumFunctionOnSet(f, DOMAIN rows) \in Int
  BY <1>2, <1>4, SumType
<1> QED
  BY <1>2, <1>3, <1>5 DEF OnHandOf, f

\* Updating the row that getStock finds changes the sum by the difference.
LEMMA ReplaceOnHand ==
  ASSUME NEW rows \in Seq(StockRow), rows # << >>, NEW row \in StockRow
  PROVE  OnHandOf([rows EXCEPT ![1] = row]) = OnHandOf(rows) + row.onHand - rows[1].onHand
<1> DEFINE new == [rows EXCEPT ![1] = row]
           f == [n \in DOMAIN rows |-> rows[n].onHand]
           g == [n \in DOMAIN new |-> new[n].onHand]
<1>1. /\ new \in Seq(StockRow) /\ DOMAIN new = DOMAIN rows /\ new[1] = row
      /\ \A n \in DOMAIN rows : n # 1 => new[n] = rows[n]
  BY ReplaceFirst
<1>2. 1 \in DOMAIN rows
  BY FirstRow
<1>3. IsFiniteSet(DOMAIN rows) /\ \A n \in DOMAIN rows : f[n] \in Int
  BY RowsFacts
<1>4. row.onHand \in Int
  BY DEF StockRow
<1> HIDE DEF new
<1>5. /\ g[1] = row.onHand /\ f[1] = rows[1].onHand
      /\ \A n \in DOMAIN rows : n # 1 => g[n] = f[n]
  BY <1>1, <1>2
<1> HIDE DEF f, g
<1>6. SumFunctionOnSet(g, DOMAIN rows) = SumFunctionOnSet(f, DOMAIN rows) + g[1] - f[1]
  BY <1>2, <1>3, <1>4, <1>5, SumChange
<1>7. OnHandOf(rows) = SumFunctionOnSet(f, DOMAIN rows)
      /\ OnHandOf(new) = SumFunctionOnSet(g, DOMAIN rows)
  BY <1>1, Zenon DEF OnHandOf, f, g
<1>8. OnHandOf(new) = OnHandOf(rows) + row.onHand - rows[1].onHand
  BY <1>5, <1>6, <1>7
<1> QED
  BY <1>8 DEF new

\* An inserted row adds what it has.
LEMMA AppendOnHand ==
  ASSUME NEW rows \in Seq(StockRow), NEW row \in StockRow
  PROVE  OnHandOf(Append(rows, row)) = OnHandOf(rows) + row.onHand
<1> DEFINE new == Append(rows, row)
           k == Len(rows) + 1
           f == [n \in DOMAIN rows |-> rows[n].onHand]
           g == [n \in DOMAIN new |-> new[n].onHand]
<1>1. /\ new \in Seq(StockRow) /\ Len(new) = Len(rows) + 1
      /\ \A i \in 1 .. Len(rows) : new[i] = rows[i]
      /\ new[Len(rows) + 1] = row
  BY AppendProperties
<1>2. Len(rows) \in Nat /\ DOMAIN rows = 1 .. Len(rows) /\ DOMAIN new = 1 .. Len(new)
  BY <1>1, LenProperties
<1>3. DOMAIN new = DOMAIN rows \cup {k} /\ k \notin DOMAIN rows
  BY <1>1, <1>2
<1>4. IsFiniteSet(DOMAIN rows) /\ \A n \in DOMAIN rows : f[n] \in Int
  BY RowsFacts
<1>5. row.onHand \in Int
  BY DEF StockRow
<1> HIDE DEF new
<1>6. g[k] = row.onHand /\ \A n \in DOMAIN rows : g[n] = f[n]
  BY <1>1, <1>2, <1>3
<1> HIDE DEF f, g, k
<1>7. SumFunctionOnSet(g, DOMAIN rows \cup {k}) = SumFunctionOnSet(g, DOMAIN rows) + g[k]
  BY <1>3, <1>4, <1>5, <1>6, SumAdd
<1>8. SumFunctionOnSet(g, DOMAIN rows) = SumFunctionOnSet(f, DOMAIN rows)
  BY <1>4, <1>6, SumCongruence
<1>9. OnHandOf(rows) = SumFunctionOnSet(f, DOMAIN rows)
      /\ OnHandOf(new) = SumFunctionOnSet(g, DOMAIN rows \cup {k})
  BY <1>3, Zenon DEF OnHandOf, f, g
<1>10. OnHandOf(new) = OnHandOf(rows) + row.onHand
  BY <1>6, <1>7, <1>8, <1>9
<1> QED
  BY <1>10 DEF new

\* The units of a SKU, before and after a step that updates or inserts a row.
LEMMA AllOnHandFacts ==
  ASSUME TypeOK
  PROVE  \A t \in Skus : AllOnHand(t) = OnHandOf(stock[t]) /\ AllOnHand(t) \in Int
                         /\ AllOnHand(t)' = OnHandOf(stock'[t])
<1>1. \A t \in Skus : stock[t] \in Seq(StockRow)
  BY DEF TypeOK
<1>2. \A t \in Skus : AllOnHand(t) = OnHandOf(stock[t]) /\ AllOnHand(t)' = OnHandOf(stock'[t])
  BY Zenon DEF AllOnHand, OnHand, OnHandOf
<1>3. \A t \in Skus : OnHandOf(stock[t]) \in Int
  BY <1>1, RowsFacts
<1> QED
  BY <1>2, <1>3

\* Only the SKU of the step gains or loses units.
LEMMA RowStepOnHand ==
  ASSUME TypeOK, NEW s \in Skus, NEW row \in StockRow, NEW d \in Int,
         \/ RowStep(s, row) /\ row.onHand = RowOf(s).onHand + d
         \/ NewRowStep(s, row) /\ row.onHand = d
  PROVE  \A t \in Skus : AllOnHand(t)' = AllOnHand(t) + (IF t = s THEN d ELSE 0)
<1>1. stock \in [Skus -> Seq(StockRow)]
  BY DEF TypeOK
<1>2. \A t \in Skus : t # s => stock'[t] = stock[t]
  BY <1>1 DEF RowStep, NewRowStep
<1>3. OnHandOf(stock'[s]) = OnHandOf(stock[s]) + d
  <2>1. CASE RowStep(s, row) /\ row.onHand = RowOf(s).onHand + d
    <3>1. stock[s] # << >> /\ stock'[s] = [stock[s] EXCEPT ![1] = row] /\ stock[s] \in Seq(StockRow)
      BY <2>1, <1>1 DEF RowStep, getStock
    <3>2. OnHandOf(stock'[s]) = OnHandOf(stock[s]) + row.onHand - stock[s][1].onHand
      BY <3>1, ReplaceOnHand
    <3>3. stock[s][1].onHand \in Int /\ OnHandOf(stock[s]) \in Int
      BY <3>1, FirstRow, RowsFacts DEF StockRow
    <3> QED
      BY <2>1, <3>2, <3>3 DEF RowOf
  <2>2. CASE NewRowStep(s, row) /\ row.onHand = d
    <3>1. stock'[s] = Append(stock[s], row) /\ stock[s] \in Seq(StockRow)
      BY <2>2, <1>1 DEF NewRowStep
    <3> QED
      BY <2>2, <3>1, AppendOnHand
  <2> QED
    BY <2>1, <2>2
<1>4. \A t \in Skus : AllOnHand(t) = OnHandOf(stock[t]) /\ AllOnHand(t) \in Int
                      /\ AllOnHand(t)' = OnHandOf(stock'[t])
  BY AllOnHandFacts
<1> QED
  BY <1>2, <1>3, <1>4

\* A step of one adjustment changes what is not recorded by its own units.
LEMMA UnrecordedStep ==
  ASSUME TypeOK, NEW r \in Receipts, NEW s \in Skus,
         \A q \in Receipts : q # r => receipt'[q] = receipt[q]
  PROVE  /\ SumFunctionOnSet(Unrecorded(s), Receipts) \in Int
         /\ SumFunctionOnSet(Unrecorded(s)', Receipts)
              = SumFunctionOnSet(Unrecorded(s), Receipts)
                + (IF Receipt[r].sku = s /\ receipt'[r].pc = "record" THEN Receipt[r].delta ELSE 0)
                - (IF Receipt[r].sku = s /\ receipt[r].pc = "record" THEN Receipt[r].delta ELSE 0)
<1> DEFINE f == Unrecorded(s)
           g == Unrecorded(s)'
<1>1. IsFiniteSet(Receipts)
  BY CallsAssumption
<1>2. \A q \in Receipts : f[q] \in Int /\ g[q] \in Int
  BY ReceiptFacts DEF Unrecorded
<1>3. \A q \in Receipts : q # r => g[q] = f[q]
  BY DEF Unrecorded
<1>4. /\ g[r] = IF Receipt[r].sku = s /\ receipt'[r].pc = "record" THEN Receipt[r].delta ELSE 0
      /\ f[r] = IF Receipt[r].sku = s /\ receipt[r].pc = "record" THEN Receipt[r].delta ELSE 0
  BY DEF Unrecorded
<1> HIDE DEF f, g
<1>5. SumFunctionOnSet(g, Receipts) = SumFunctionOnSet(f, Receipts) + g[r] - f[r]
  BY <1>1, <1>2, <1>3, SumChange
<1>6. SumFunctionOnSet(f, Receipts) \in Int
  BY <1>1, <1>2, SumType
<1>7. /\ SumFunctionOnSet(Unrecorded(s), Receipts) = SumFunctionOnSet(f, Receipts)
      /\ SumFunctionOnSet(Unrecorded(s)', Receipts) = SumFunctionOnSet(g, Receipts)
  BY Zenon DEF f, g
<1> QED
  BY <1>4, <1>5, <1>6, <1>7

\* The movements account for every unit on hand, whatever overlaps: the only
\* units they do not name are those of adjustments that are suspended
\* between upsertStock and recordMovement.
THEOREM UnitsRecordedCorrect == Spec => []UnitsRecorded
<1>1. Init => UnitsRecorded
  <2> SUFFICES ASSUME Init, NEW s \in Skus
               PROVE  AllOnHand(s) = movements[s] + SumFunctionOnSet(Unrecorded(s), Receipts)
    BY DEF UnitsRecorded
  <2>1. DOMAIN stock[s] = {}
    BY NoRows
  <2>2. AllOnHand(s) = 0
    BY <2>1, SumEmpty DEF AllOnHand
  <2>3. \A r \in Receipts : Unrecorded(s)[r] = 0
    BY DEF Init, Unrecorded
  <2>4. SumFunctionOnSet(Unrecorded(s), Receipts) = 0
    BY <2>3, CallsAssumption, SumZero
  <2>5. movements[s] = 0
    BY DEF Init
  <2> QED
    BY <2>2, <2>4, <2>5
<1>2. Inv /\ UnitsRecorded /\ [Next]_vars => UnitsRecorded'
  <2> SUFFICES ASSUME Inv, UnitsRecorded, [Next]_vars, NEW s \in Skus
               PROVE  AllOnHand(s)' = movements'[s] + SumFunctionOnSet(Unrecorded(s)', Receipts)
    BY DEF UnitsRecorded
  <2> DEFINE Sum == SumFunctionOnSet(Unrecorded(s), Receipts)
             Goal == AllOnHand(s)' = movements'[s] + SumFunctionOnSet(Unrecorded(s)', Receipts)
  <2>t. TypeOK
    BY DEF Inv
  <2>m. movements[s] \in Int /\ movements \in [Skus -> Int]
    BY <2>t, Zenon DEF TypeOK
  <2>r. receipt \in [Receipts -> [pc : {"idle", "upsert", "record", "done"}, found : BOOLEAN]]
    BY <2>t, Zenon DEF TypeOK
  <2>a. AllOnHand(s) \in Int /\ AllOnHand(s) = movements[s] + Sum
    BY <2>t, AllOnHandFacts DEF UnitsRecorded
  <2>u. UNCHANGED receipt => SumFunctionOnSet(Unrecorded(s)', Receipts) = Sum
    BY DEF Unrecorded
  <2>s. UNCHANGED stock => AllOnHand(s)' = AllOnHand(s)
    BY DEF AllOnHand, OnHand
  <2>1. ASSUME NEW o \in Orders, reserveStock(o) PROVE Goal
    <3>1. UNCHANGED <<movements, receipt>>
      BY <2>1, reserveStockFacts
    <3>2. AllOnHand(s)' = AllOnHand(s)
      <4>1. CASE UNCHANGED stock
        BY <4>1, <2>s
      <4>2. CASE ~UNCHANGED stock
        <5> DEFINE t == Item(o).sku
                   row == TakeUnits(RowOf(t), Item(o).qty)
        <5>1. getStock(t) /\ RowStep(t, row)
          BY <2>1, <4>2, reserveStockFacts
        <5>2. t \in Skus /\ Item(o).qty \in Nat
          BY <2>t, ItemFacts
        <5>3. RowOf(t) \in StockRow
          BY <2>t, <5>1, <5>2, RowOfFacts
        <5>4. row \in StockRow /\ row.onHand = RowOf(t).onHand
          BY <5>2, <5>3, TakeFacts
        <5>5. RowOf(t).onHand \in Int
          BY <5>3 DEF StockRow
        <5> HIDE DEF t, row
        <5>6. row.onHand = RowOf(t).onHand + 0
          BY <5>4, <5>5
        <5>7. AllOnHand(s)' = AllOnHand(s) + (IF s = t THEN 0 ELSE 0)
          BY <2>t, <5>1, <5>2, <5>4, <5>6, RowStepOnHand
        <5> QED
          BY <5>7, <2>a
      <4> QED
        BY <4>1, <4>2
    <3> QED
      BY <2>a, <2>u, <3>1, <3>2
  <2>2. ASSUME NEW r \in Receipts, adjustStock(r) PROVE Goal
    <3>1. /\ receipt[r].pc = "idle" /\ receipt'[r].pc = "upsert"
          /\ \A q \in Receipts : q # r => receipt'[q] = receipt[q]
          /\ UNCHANGED <<stock, movements>>
      BY <2>2, <2>r DEF adjustStock
    <3>2. Sum \in Int /\ SumFunctionOnSet(Unrecorded(s)', Receipts) = Sum + 0 - 0
      BY <2>t, <3>1, UnrecordedStep
    <3> QED
      BY <2>a, <2>s, <3>1, <3>2
  <2>3. ASSUME NEW r \in Receipts, upsertStock(r) PROVE Goal
    <3> DEFINE t == Receipt[r].sku
               d == Receipt[r].delta
               new == [onHand |-> d, reserved |-> 0, available |-> d]
               row == IF receipt[r].found THEN AddUnits(RowOf(t), d) ELSE new
    <3>1. t \in Skus /\ d \in Int /\ new \in StockRow /\ new.onHand = d
      BY ReceiptFacts DEF StockRow
    <3>2. /\ receipt[r].pc = "upsert" /\ receipt'[r].pc = "record"
          /\ \A q \in Receipts : q # r => receipt'[q] = receipt[q]
          /\ UNCHANGED movements
      BY <2>3, <2>r DEF upsertStock
    <3>3. Sum \in Int /\ SumFunctionOnSet(Unrecorded(s)', Receipts)
                            = Sum + (IF t = s THEN d ELSE 0) - 0
      BY <2>t, <3>2, UnrecordedStep
    <3>4. \/ getStock(t) /\ RowStep(t, AddUnits(RowOf(t), d))
          \/ NewRowStep(t, new)
      BY <2>3, upsertStockFacts
    <3> HIDE DEF t, d, new
    <3>5. getStock(t) => AddUnits(RowOf(t), d) \in StockRow
                         /\ AddUnits(RowOf(t), d).onHand = RowOf(t).onHand + d
      BY <2>t, <3>1, RowOfFacts, AddFacts
    <3>6. AllOnHand(s)' = AllOnHand(s) + (IF s = t THEN d ELSE 0)
      BY <2>t, <3>1, <3>4, <3>5, RowStepOnHand
    <3> HIDE DEF Sum
    <3>7. AllOnHand(s)' = movements'[s] + (Sum + (IF t = s THEN d ELSE 0) - 0)
      BY <2>a, <2>m, <3>1, <3>2, <3>3, <3>6
    <3> QED
      BY <3>3, <3>7
  <2>4. ASSUME NEW r \in Receipts, recordMovement(r) PROVE Goal
    <3> DEFINE t == Receipt[r].sku
               d == Receipt[r].delta
    <3>1. t \in Skus /\ d \in Int
      BY ReceiptFacts
    <3>2. /\ receipt[r].pc = "record" /\ receipt'[r].pc = "done"
          /\ \A q \in Receipts : q # r => receipt'[q] = receipt[q]
          /\ UNCHANGED stock
          /\ movements'[s] = movements[s] + (IF t = s THEN d ELSE 0)
      BY <2>4, <2>r, <2>m DEF recordMovement
    <3>3. Sum \in Int /\ SumFunctionOnSet(Unrecorded(s)', Receipts)
                            = Sum + 0 - (IF t = s THEN d ELSE 0)
      BY <2>t, <3>2, UnrecordedStep
    <3> HIDE DEF Sum, t, d
    <3>4. movements[s] + Sum = movements'[s] + (Sum + 0 - (IF t = s THEN d ELSE 0))
      BY <2>m, <3>1, <3>2, <3>3
    <3> QED
      BY <2>a, <2>s, <3>2, <3>3, <3>4
  <2>5. ASSUME NEW x \in Releases, FinishRelease(x) PROVE Goal
    <3>0. PICK o \in Orders : \E i \in Lines(o) :
            /\ UNCHANGED <<movements, receipt>>
            /\ getStock(Cart[o][i].sku)
            /\ RowStep(Cart[o][i].sku, GiveUnits(RowOf(Cart[o][i].sku), Cart[o][i].qty))
      BY <2>5, FinishReleaseFacts
    <3>1. PICK i \in Lines(o) :
            /\ UNCHANGED <<movements, receipt>>
            /\ getStock(Cart[o][i].sku)
            /\ RowStep(Cart[o][i].sku, GiveUnits(RowOf(Cart[o][i].sku), Cart[o][i].qty))
      BY <3>0
    <3> DEFINE t == Cart[o][i].sku
               row == GiveUnits(RowOf(t), Cart[o][i].qty)
    <3>2. t \in Skus /\ Cart[o][i].qty \in Nat
      BY CartFacts
    <3>3. RowOf(t) \in StockRow
      BY <2>t, <3>1, <3>2, RowOfFacts
    <3>4. row \in StockRow /\ row.onHand = RowOf(t).onHand /\ RowStep(t, row)
      BY <3>1, <3>2, <3>3, GiveFacts
    <3>5. RowOf(t).onHand \in Int
      BY <3>3 DEF StockRow
    <3> HIDE DEF t, row
    <3>6. row.onHand = RowOf(t).onHand + 0
      BY <3>4, <3>5
    <3>7. AllOnHand(s)' = AllOnHand(s) + (IF s = t THEN 0 ELSE 0)
      BY <2>t, <3>2, <3>4, <3>6, RowStepOnHand
    <3> QED
      BY <3>7, <2>a, <2>u, <3>1
  <2>6. CASE UNCHANGED <<stock, movements, receipt>>
    BY <2>6, <2>a, <2>s, <2>u
  <2> QED
    BY <2>1, <2>2, <2>3, <2>4, <2>5, <2>6
    DEF Next, vars, reserveItemsForOrder, CheckItem, PushReservation, releaseReservation
<1> QED
  BY <1>1, <1>2, InvCorrect, PTL DEF Spec

\* The counters go together in every reachable state, with any number of
\* overlapping reservations, adjustments and releases, also with several
\* releases of one reservation.
THEOREM CountersCorrect == Spec => []CountersAgree
<1>1. Inv /\ AvailableAgrees /\ UnitsRecorded => CountersAgree
  BY DEF Inv, CountersAgree
<1> QED
  BY <1>1, InvCorrect, AvailableCorrect, UnitsRecordedCorrect, PTL

----------------------------------------------------------------------------
(* What is reserved, and the book.                                         *)

\* When callers release in turn, a release under way is of an ACTIVE
\* reservation and no other release of it is under way.
ReleasesInTurn ==
    SerialRelease =>
        \A x \in Releases : release[x].pc = "release" =>
            /\ reservation[release[x].order][release[x].i] = "ACTIVE"
            /\ \A y \in Releases :
                /\ release[y].pc = "release"
                /\ release[y].order = release[x].order
                /\ release[y].i = release[x].i
                => y = x

\* The units of the row that getStock finds, 0 when there is none
FoundOnHand(s) == IF getStock(s) THEN RowOf(s).onHand ELSE 0

FoundReserved(s) == IF getStock(s) THEN RowOf(s).reserved ELSE 0

\* There are finitely many lines.
LEMMA OrderLinesFacts ==
  /\ IsFiniteSet(OrderLines)
  /\ \A l \in OrderLines : l[1] \in Orders /\ l[2] \in Lines(l[1]) /\ l = <<l[1], l[2]>>
  /\ \A o \in Orders : \A i \in Lines(o) : <<o, i>> \in OrderLines
<1> DEFINE f == [o \in Orders |-> {o} \X Lines(o)]
           T == {{o} \X Lines(o) : o \in Orders}
<1>1. f \in Surjection(Orders, T)
  BY DEF Surjection
<1>2. IsFiniteSet(T)
  BY <1>1, CallsAssumption, FS_Surjection DEF ExistsSurjection
<1>3. ASSUME NEW o \in Orders PROVE IsFiniteSet({o} \X Lines(o))
  <2>1. IsFiniteSet({o})
    BY FS_Singleton
  <2>2. 1 \in Int /\ Len(Cart[o]) \in Int
    BY CartFacts
  <2>3. IsFiniteSet(Lines(o))
    BY <2>2, FS_Interval DEF Lines
  <2> QED
    BY <2>1, <2>3, FS_Product
<1>4. \A U \in T : IsFiniteSet(U)
  BY <1>3
<1> HIDE DEF T
<1>5. IsFiniteSet(UNION T)
  BY <1>2, <1>4, FS_UNION
<1>6. OrderLines = UNION T
  BY Zenon DEF OrderLines, T
<1>7. \A l \in OrderLines : l[1] \in Orders /\ l[2] \in Lines(l[1]) /\ l = <<l[1], l[2]>>
  BY DEF OrderLines
<1>8. \A o \in Orders : \A i \in Lines(o) : <<o, i>> \in OrderLines
  BY DEF OrderLines
<1> QED
  BY <1>5, <1>6, <1>7, <1>8

\* The units of one line that count as ACTIVE
LineUnits(o, i, status, s) ==
    IF Cart[o][i].sku = s /\ status = "ACTIVE" THEN Cart[o][i].qty ELSE 0

\* What is held is never negative.
LEMMA HeldType ==
  ASSUME NEW s \in Skus
  PROVE  ActiveUnits(s) \in Nat
<1>1. \A l \in OrderLines : Held(s)[l] \in Nat
  BY OrderLinesFacts, CartFacts DEF Held
<1> QED
  BY <1>1, OrderLinesFacts, SumNat DEF ActiveUnits

\* A step that changes one reservation changes what is held by the units of
\* that line.
LEMMA HeldStep ==
  ASSUME TypeOK, NEW s \in Skus, NEW o \in Orders, NEW i \in Lines(o), NEW v,
         reservation' = [reservation EXCEPT ![o][i] = v]
  PROVE  /\ ActiveUnits(s)' \in Nat
         /\ ActiveUnits(s)' = ActiveUnits(s) + LineUnits(o, i, v, s)
                                - LineUnits(o, i, reservation[o][i], s)
<1> DEFINE f == Held(s)
           g == Held(s)'
           k == <<o, i>>
<1>1. IsFiniteSet(OrderLines) /\ k \in OrderLines
  BY OrderLinesFacts
<1>2. /\ reservation = [p \in Orders |-> reservation[p]]
      /\ \A p \in Orders : reservation[p] \in [Lines(p) -> {"NONE", "ACTIVE", "RELEASED"}]
  BY Zenon DEF TypeOK
<1>3. \A p \in Orders : \A j \in Lines(p) :
        reservation'[p][j] = IF p = o /\ j = i THEN v ELSE reservation[p][j]
  BY <1>2
<1>4. \A l \in OrderLines : f[l] \in Nat /\ g[l] \in Nat
  BY OrderLinesFacts, CartFacts DEF Held
<1>5. \A l \in OrderLines : l # k => g[l] = f[l]
  BY <1>3, OrderLinesFacts DEF Held
<1>6. g[k] = LineUnits(o, i, v, s) /\ f[k] = LineUnits(o, i, reservation[o][i], s)
  BY <1>1, <1>3 DEF Held, LineUnits
<1>7. /\ ActiveUnits(s) = SumFunctionOnSet(f, OrderLines)
      /\ ActiveUnits(s)' = SumFunctionOnSet(g, OrderLines)
  BY Zenon DEF ActiveUnits
<1> HIDE DEF f, g, k
<1>8. SumFunctionOnSet(g, OrderLines) = SumFunctionOnSet(f, OrderLines) + g[k] - f[k]
  BY <1>1, <1>4, <1>5, SumChange
<1>9. SumFunctionOnSet(g, OrderLines) \in Nat
  BY <1>1, <1>4, SumNat
<1> QED
  BY <1>6, <1>7, <1>8, <1>9

\* The row found, after a step that updates or inserts a row.
LEMMA FoundStep ==
  ASSUME TypeOK, NEW s \in Skus, NEW row \in StockRow
  PROVE  /\ RowStep(s, row) => \A t \in Skus :
                /\ FoundOnHand(t)' = IF t = s THEN row.onHand ELSE FoundOnHand(t)
                /\ FoundReserved(t)' = IF t = s THEN row.reserved ELSE FoundReserved(t)
         /\ NewRowStep(s, row) => \A t \in Skus :
                /\ FoundOnHand(t)' = IF t = s /\ ~getStock(s) THEN row.onHand ELSE FoundOnHand(t)
                /\ FoundReserved(t)' = IF t = s /\ ~getStock(s) THEN row.reserved
                                       ELSE FoundReserved(t)
<1>1. stock \in [Skus -> Seq(StockRow)]
  BY Zenon DEF TypeOK
<1>2. ASSUME RowStep(s, row), NEW t \in Skus
      PROVE  /\ FoundOnHand(t)' = IF t = s THEN row.onHand ELSE FoundOnHand(t)
             /\ FoundReserved(t)' = IF t = s THEN row.reserved ELSE FoundReserved(t)
  <2>1. getStock(s)
    BY <1>2 DEF RowStep
  <2>2. 1 \in DOMAIN stock[s]
    BY <2>1, RowOfFacts
  <2>3. getStock(t)' <=> getStock(t)
    BY <1>2, RowStepFacts
  <2>4. CASE t = s
    <3>1. stock'[s][1] = row
      BY <1>2, <2>2, RowStepFacts
    <3> QED
      BY <2>1, <2>3, <2>4, <3>1 DEF FoundOnHand, FoundReserved, RowOf
  <2>5. CASE t # s
    <3>1. stock'[t] = stock[t]
      BY <1>1, <1>2, <2>5 DEF RowStep
    <3> QED
      BY <2>5, <3>1 DEF FoundOnHand, FoundReserved, RowOf, getStock
  <2> QED
    BY <2>4, <2>5
<1>3. ASSUME NewRowStep(s, row), NEW t \in Skus
      PROVE  /\ FoundOnHand(t)' = IF t = s /\ ~getStock(s) THEN row.onHand ELSE FoundOnHand(t)
             /\ FoundReserved(t)' = IF t = s /\ ~getStock(s) THEN row.reserved
                                    ELSE FoundReserved(t)
  <2>1. CASE t # s
    <3>1. stock'[t] = stock[t]
      BY <1>1, <1>3, <2>1 DEF NewRowStep
    <3> QED
      BY <2>1, <3>1 DEF FoundOnHand, FoundReserved, RowOf, getStock
  <2>2. CASE t = s /\ getStock(s)
    <3>1. getStock(s)' /\ stock'[s][1] = stock[s][1]
      BY <1>3, <2>2, NewRowStepFacts
    <3> QED
      BY <2>2, <3>1 DEF FoundOnHand, FoundReserved, RowOf
  <2>3. CASE t = s /\ ~getStock(s)
    <3>1. stock'[s] = Append(<< >>, row)
      BY <1>1, <1>3, <2>3 DEF NewRowStep, getStock
    <3>2. stock'[s][1] = row /\ stock'[s] # << >>
      BY <3>1
    <3> QED
      BY <2>3, <3>2 DEF FoundOnHand, FoundReserved, RowOf, getStock
  <2> QED
    BY <2>1, <2>2, <2>3
<1> QED
  BY <1>2, <1>3

\* A step changes, for SKU s, the units on hand by d, those reserved by q and
\* those of ACTIVE reservations by a; for the other SKUs nothing.
Moves(s, d, q, a) ==
    \A t \in Skus :
        /\ FoundOnHand(t)' = IF t = s THEN FoundOnHand(t) + d ELSE FoundOnHand(t)
        /\ FoundReserved(t)' = IF t = s THEN FoundReserved(t) + q ELSE FoundReserved(t)
        /\ ActiveUnits(t)' = IF t = s THEN ActiveUnits(t) + a ELSE ActiveUnits(t)

Stays ==
    \A t \in Skus :
        /\ FoundOnHand(t)' = FoundOnHand(t)
        /\ FoundReserved(t)' = FoundReserved(t)
        /\ ActiveUnits(t)' = ActiveUnits(t)

\* The numbers are numbers.
LEMMA FoundType ==
  ASSUME TypeOK, NEW s \in Skus
  PROVE  FoundOnHand(s) \in Int /\ FoundReserved(s) \in Nat
<1>1. getStock(s) => RowOf(s).onHand \in Int /\ RowOf(s).reserved \in Nat
  BY RowOfFacts DEF StockRow
<1> QED
  BY <1>1 DEF FoundOnHand, FoundReserved

\* reserveStock takes the units of one line, which are there, or nothing.
LEMMA reserveStockMoves ==
  ASSUME Inv, AvailableAgrees, OutcomeExplained, NEW o \in Orders, reserveStock(o)
  PROVE  \/ Stays
         \/ \E i \in Lines(o) :
                LET s == Cart[o][i].sku
                    q == Cart[o][i].qty
                IN  Moves(s, 0, q, q) /\ FoundReserved(s) + q <= FoundOnHand(s)
<1>t. TypeOK
  BY DEF Inv
<1>1. CASE UNCHANGED <<stock, reservation>>
  BY <1>1 DEF Stays, FoundOnHand, FoundReserved, getStock, RowOf, ActiveUnits, Held
<1>2. CASE ~UNCHANGED <<stock, reservation>>
  <2> DEFINE i == order[o].i
             s == Cart[o][i].sku
             q == Cart[o][i].qty
             row == TakeUnits(RowOf(s), q)
  <2>0. i \in Lines(o) /\ s \in Skus /\ q \in Nat /\ Item(o) = Cart[o][i]
    BY <1>t, ItemFacts
  <2>1. /\ getStock(s) /\ RowOf(s).available >= q /\ RowStep(s, row)
        /\ reservation' = [reservation EXCEPT ![o][i] = "ACTIVE"]
        /\ order[o].pc = "reserve"
    BY <1>2, <2>0, reserveStockFacts
  <2>2. reservation[o][i] = "NONE"
    <3>1. {j \in Lines(o) : reservation[o][j] # "NONE"} = 1 .. i - 1
      BY <2>1 DEF OutcomeExplained
    <3>2. i \in Nat
      BY <2>0, CartFacts DEF Lines
    <3>3. i \notin 1 .. i - 1
      BY <3>2
    <3> HIDE DEF i
    <3> QED
      BY <2>0, <3>1, <3>3
  <2> HIDE DEF i, s, q, row
  <2>3. RowOf(s) \in StockRow /\ 1 \in DOMAIN stock[s]
    BY <1>t, <2>0, <2>1, RowOfFacts
  <2>4. RowOf(s).onHand \in Int /\ RowOf(s).reserved \in Nat
        /\ RowOf(s).available = RowOf(s).onHand - RowOf(s).reserved
    BY <2>0, <2>3 DEF StockRow, AvailableAgrees, RowOf
  <2>5. row \in StockRow /\ row.onHand = RowOf(s).onHand /\ row.reserved = RowOf(s).reserved + q
    BY <2>0, <2>3, TakeFacts DEF row
  <2>6. FoundOnHand(s) = RowOf(s).onHand /\ FoundReserved(s) = RowOf(s).reserved
    BY <2>1 DEF FoundOnHand, FoundReserved
  <2>7. FoundReserved(s) + q <= FoundOnHand(s)
    BY <2>0, <2>1, <2>4, <2>6
  <2>8. ASSUME NEW t \in Skus
        PROVE  ActiveUnits(t)' = IF t = s THEN ActiveUnits(t) + q ELSE ActiveUnits(t)
    <3>1. ActiveUnits(t)' = ActiveUnits(t) + LineUnits(o, i, "ACTIVE", t)
                                - LineUnits(o, i, reservation[o][i], t)
      BY <1>t, <2>0, <2>1, HeldStep
    <3>2. LineUnits(o, i, "ACTIVE", t) = IF t = s THEN q ELSE 0
      BY DEF LineUnits, s, q
    <3>3. LineUnits(o, i, reservation[o][i], t) = 0
      BY <2>2 DEF LineUnits
    <3>4. ActiveUnits(t) \in Nat
      BY HeldType
    <3> QED
      BY <2>0, <3>1, <3>2, <3>3, <3>4
  <2>9. ASSUME NEW t \in Skus
        PROVE  /\ FoundOnHand(t)' = IF t = s THEN FoundOnHand(t) + 0 ELSE FoundOnHand(t)
               /\ FoundReserved(t)' = IF t = s THEN FoundReserved(t) + q ELSE FoundReserved(t)
    <3>1. /\ FoundOnHand(t)' = IF t = s THEN row.onHand ELSE FoundOnHand(t)
          /\ FoundReserved(t)' = IF t = s THEN row.reserved ELSE FoundReserved(t)
      BY <1>t, <2>0, <2>1, <2>5, FoundStep
    <3> QED
      BY <2>4, <2>5, <2>6, <3>1
  <2>10. Moves(s, 0, q, q)
    BY <2>8, <2>9 DEF Moves
  <2> QED
    BY <2>0, <2>7, <2>10 DEF s, q
<1> QED
  BY <1>1, <1>2

\* upsertStock adds its units to the row that getStock finds, or it inserts
\* a row that nobody finds, or the first one.
LEMMA upsertStockMoves ==
  ASSUME Inv, NEW r \in Receipts, upsertStock(r)
  PROVE  Stays \/ Moves(Receipt[r].sku, Receipt[r].delta, 0, 0)
<1>t. TypeOK
  BY DEF Inv
<1> DEFINE s == Receipt[r].sku
           d == Receipt[r].delta
           new == [onHand |-> d, reserved |-> 0, available |-> d]
<1>1. s \in Skus /\ d \in Int /\ new \in StockRow /\ new.onHand = d /\ new.reserved = 0
  BY ReceiptFacts DEF StockRow
<1>2. /\ UNCHANGED reservation
      /\ \/ getStock(s) /\ RowStep(s, AddUnits(RowOf(s), d))
         \/ NewRowStep(s, new)
  BY upsertStockFacts
<1>3. \A t \in Skus : ActiveUnits(t)' = ActiveUnits(t) /\ ActiveUnits(t) \in Nat
  BY <1>2, HeldType DEF ActiveUnits, Held
<1>4. \A t \in Skus : FoundOnHand(t) \in Int /\ FoundReserved(t) \in Nat
  BY <1>t, FoundType
<1> HIDE DEF s, d, new
<1>5. CASE getStock(s) /\ RowStep(s, AddUnits(RowOf(s), d))
  <2>1. RowOf(s) \in StockRow
    BY <1>t, <1>1, <1>5, RowOfFacts
  <2>2. /\ AddUnits(RowOf(s), d) \in StockRow
        /\ AddUnits(RowOf(s), d).onHand = RowOf(s).onHand + d
        /\ AddUnits(RowOf(s), d).reserved = RowOf(s).reserved
    BY <1>1, <2>1, AddFacts
  <2>3. FoundOnHand(s) = RowOf(s).onHand /\ FoundReserved(s) = RowOf(s).reserved
    BY <1>5 DEF FoundOnHand, FoundReserved
  <2>4. \A t \in Skus :
          /\ FoundOnHand(t)' = IF t = s THEN RowOf(s).onHand + d ELSE FoundOnHand(t)
          /\ FoundReserved(t)' = IF t = s THEN RowOf(s).reserved ELSE FoundReserved(t)
    BY <1>t, <1>1, <1>5, <2>2, FoundStep
  <2>5. Moves(s, d, 0, 0)
    BY <1>1, <1>3, <1>4, <2>3, <2>4 DEF Moves
  <2> QED
    BY <2>5 DEF s, d
<1>6. CASE NewRowStep(s, new)
  <2>1. \A t \in Skus :
          /\ FoundOnHand(t)' = IF t = s /\ ~getStock(s) THEN d ELSE FoundOnHand(t)
          /\ FoundReserved(t)' = IF t = s /\ ~getStock(s) THEN 0 ELSE FoundReserved(t)
    BY <1>t, <1>1, <1>6, FoundStep
  <2>2. CASE getStock(s)
    BY <1>3, <2>1, <2>2 DEF Stays
  <2>3. CASE ~getStock(s)
    <3>1. FoundOnHand(s) = 0 /\ FoundReserved(s) = 0
      BY <2>3 DEF FoundOnHand, FoundReserved
    <3>2. Moves(s, d, 0, 0)
      BY <1>1, <1>3, <1>4, <2>1, <2>3, <3>1 DEF Moves
    <3> QED
      BY <3>2 DEF s, d
  <2> QED
    BY <2>2, <2>3
<1> QED
  BY <1>2, <1>5, <1>6

\* releaseReservation, when callers release in turn, gives back exactly the
\* units of its line: the max(0, ...) never hides a shortage.
LEMMA FinishReleaseMoves ==
  ASSUME Inv, ReleasesInTurn, ReservedIsActive, SerialRelease,
         NEW x \in Releases, FinishRelease(x)
  PROVE  \E o \in Orders : \E i \in Lines(o) :
            LET s == Cart[o][i].sku
                q == Cart[o][i].qty
            IN  Moves(s, 0, 0 - q, 0 - q) /\ q <= FoundReserved(s)
<1>t. TypeOK
  BY DEF Inv
<1> DEFINE o == release[x].order
           i == release[x].i
           s == Cart[o][i].sku
           q == Cart[o][i].qty
           row == GiveUnits(RowOf(s), q)
<1>1. o \in Orders /\ i \in Lines(o) /\ reservation[o][i] = "ACTIVE"
  BY DEF Inv, Remembered, FinishRelease, ReleasesInTurn
<1>2. getStock(s) /\ s \in Skus /\ q \in Nat
  BY <1>1, CartFacts DEF Inv, Remembered
<1>3. /\ RowStep(s, row)
      /\ reservation' = [reservation EXCEPT ![o][i] = "RELEASED"]
  BY <1>2 DEF FinishRelease, MarkReleased, RowStep, RowOf
<1> HIDE DEF o, i, s, q, row
<1>4. RowOf(s) \in StockRow
  BY <1>t, <1>2, RowOfFacts
<1>5. RowOf(s).onHand \in Int /\ RowOf(s).reserved \in Nat
  BY <1>4 DEF StockRow
<1>6. FoundOnHand(s) = RowOf(s).onHand /\ FoundReserved(s) = RowOf(s).reserved
      /\ ActiveUnits(s) = RowOf(s).reserved
  BY <1>2 DEF FoundOnHand, FoundReserved, ReservedIsActive
<1>7. ASSUME NEW t \in Skus
      PROVE  /\ ActiveUnits(t)' = IF t = s THEN ActiveUnits(t) + (0 - q) ELSE ActiveUnits(t)
             /\ ActiveUnits(t)' \in Nat
  <2>1. /\ ActiveUnits(t)' \in Nat
        /\ ActiveUnits(t)' = ActiveUnits(t) + LineUnits(o, i, "RELEASED", t)
                              - LineUnits(o, i, reservation[o][i], t)
    BY <1>t, <1>1, <1>3, HeldStep
  <2>2. LineUnits(o, i, "RELEASED", t) = 0
    BY DEF LineUnits
  <2>3. LineUnits(o, i, reservation[o][i], t) = IF t = s THEN q ELSE 0
    BY <1>1 DEF LineUnits, s, q
  <2>4. ActiveUnits(t) \in Nat
    BY HeldType
  <2> QED
    BY <1>2, <2>1, <2>2, <2>3, <2>4
<1>8. q <= RowOf(s).reserved
  <2>1. PICK u \in Skus : u = s
    BY <1>2
  <2>2. ActiveUnits(u)' = ActiveUnits(u) + (0 - q) /\ ActiveUnits(u)' \in Nat
    BY <1>7, <2>1
  <2>3. ActiveUnits(u) = RowOf(s).reserved
    BY <1>6, <2>1
  <2> QED
    BY <1>2, <1>5, <2>2, <2>3
<1>9. row \in StockRow /\ row.onHand = RowOf(s).onHand /\ row.reserved = RowOf(s).reserved - q
  <2>1. row \in StockRow /\ row.onHand = RowOf(s).onHand
    BY <1>2, <1>4, GiveFacts DEF row
  <2>2. row.reserved = IF RowOf(s).reserved > q THEN RowOf(s).reserved - q ELSE 0
    BY DEF row, GiveUnits
  <2> QED
    BY <1>2, <1>5, <1>8, <2>1, <2>2
<1>10. \A t \in Skus :
        /\ FoundOnHand(t)' = IF t = s THEN row.onHand ELSE FoundOnHand(t)
        /\ FoundReserved(t)' = IF t = s THEN row.reserved ELSE FoundReserved(t)
  BY <1>t, <1>2, <1>3, <1>9, FoundStep
<1>11. Moves(s, 0, 0 - q, 0 - q)
  BY <1>2, <1>5, <1>6, <1>7, <1>9, <1>10 DEF Moves
<1>12. q <= FoundReserved(s)
  BY <1>6, <1>8
<1> QED
  BY <1>1, <1>11, <1>12 DEF s, q

\* Releases that are made in turn stay in turn, whatever else happens.
THEOREM ReleasesInTurnCorrect == Spec => []ReleasesInTurn
<1>1. Init => ReleasesInTurn
  <2> SUFFICES ASSUME Init PROVE ReleasesInTurn
    OBVIOUS
  <2>1. PICK e : release = [x \in Releases |-> [pc |-> "idle", order |-> e, i |-> 0]]
    BY Zenon DEF Init
  <2>2. \A x \in Releases : release[x].pc = "idle"
    BY <2>1
  <2> QED
    BY <2>2 DEF ReleasesInTurn
<1>2. Inv /\ OutcomeExplained /\ ReleasesInTurn /\ [Next]_vars => ReleasesInTurn'
  <2> SUFFICES ASSUME Inv, OutcomeExplained, ReleasesInTurn, [Next]_vars, SerialRelease
               PROVE  ReleasesInTurn'
    BY DEF ReleasesInTurn
  <2>t. TypeOK
    BY DEF Inv
  <2>l. release \in [Releases -> [pc : {"idle", "release", "done"},
                                  order : Orders \cup {""}, i : Nat]]
    BY <2>t, Zenon DEF TypeOK
  <2>m. \A x \in Releases : release[x].pc = "release" =>
          release[x].order \in Orders /\ release[x].i \in Lines(release[x].order)
    BY DEF Inv, Remembered
  <2>v. /\ reservation = [p \in Orders |-> reservation[p]]
        /\ \A p \in Orders : reservation[p] \in [Lines(p) -> {"NONE", "ACTIVE", "RELEASED"}]
    BY <2>t, Zenon DEF TypeOK
  <2>1. ASSUME NEW o \in Orders, reserveStock(o) PROVE ReleasesInTurn'
    <3>1. UNCHANGED release
      BY <2>1, reserveStockFacts
    <3>2. \/ UNCHANGED reservation
          \/ reservation' = [reservation EXCEPT ![o][order[o].i] = "ACTIVE"]
      BY <2>1, reserveStockFacts
    <3>3. \A p \in Orders : \A j \in Lines(p) :
            reservation[p][j] = "ACTIVE" => reservation'[p][j] = "ACTIVE"
      BY <2>v, <3>2
    <3> QED
      BY <2>m, <3>1, <3>3 DEF ReleasesInTurn
  <2>2. ASSUME NEW x \in Releases, NEW o \in Orders, NEW i \in Lines(o),
               releaseReservation(x, o, i)
        PROVE  ReleasesInTurn'
    <3>1. /\ reservation[o][i] = "ACTIVE" /\ UNCHANGED reservation
          /\ release'[x] = [pc |-> "release", order |-> o, i |-> i]
          /\ \A y \in Releases : y # x => release'[y] = release[y]
      BY <2>2, <2>l DEF releaseReservation
    <3>2. ASSUME NEW y \in Releases, release[y].pc = "release",
                 release[y].order = o, release[y].i = i
          PROVE  FALSE
      <4>1. release[y] = [pc |-> "release", order |-> o, i |-> i]
        BY <2>l, <3>2
      <4> QED
        BY <2>2, <4>1 DEF releaseReservation, InRelease
    <3>3. ASSUME NEW y \in Releases, release'[y].pc = "release"
          PROVE  /\ reservation'[release'[y].order][release'[y].i] = "ACTIVE"
                 /\ \A z \in Releases :
                      release'[z].pc = "release" /\ release'[z].order = release'[y].order
                        /\ release'[z].i = release'[y].i => z = y
      BY <3>1, <3>2, <3>3 DEF ReleasesInTurn
    <3> QED
      BY <3>3 DEF ReleasesInTurn
  <2>3. ASSUME NEW x \in Releases, FinishRelease(x) PROVE ReleasesInTurn'
    <3> DEFINE o == release[x].order
               i == release[x].i
    <3>1. o \in Orders /\ i \in Lines(o) /\ release[x].pc = "release"
      BY <2>3, <2>m DEF FinishRelease
    <3>2. /\ reservation' = [reservation EXCEPT ![o][i] = "RELEASED"]
          /\ release'[x].pc = "done"
          /\ \A y \in Releases : y # x => release'[y] = release[y]
      BY <2>3, <2>l DEF FinishRelease, MarkReleased
    <3>3. ASSUME NEW y \in Releases, release'[y].pc = "release"
          PROVE  /\ y # x /\ release'[y] = release[y]
                 /\ ~(release[y].order = o /\ release[y].i = i)
      BY <3>1, <3>2, <3>3 DEF ReleasesInTurn
    <3>4. \A p \in Orders : \A j \in Lines(p) :
            ~(p = o /\ j = i) => reservation'[p][j] = reservation[p][j]
      BY <2>v, <3>1, <3>2
    <3> HIDE DEF o, i
    <3>5. ASSUME NEW y \in Releases, release'[y].pc = "release"
          PROVE  /\ reservation'[release'[y].order][release'[y].i] = "ACTIVE"
                 /\ \A z \in Releases :
                      release'[z].pc = "release" /\ release'[z].order = release'[y].order
                        /\ release'[z].i = release'[y].i => z = y
      <4>1. reservation'[release'[y].order][release'[y].i] = "ACTIVE"
        BY <2>m, <3>3, <3>4, <3>5 DEF ReleasesInTurn
      <4>2. ASSUME NEW z \in Releases, release'[z].pc = "release",
                   release'[z].order = release'[y].order, release'[z].i = release'[y].i
            PROVE  z = y
        BY <3>3, <3>5, <4>2 DEF ReleasesInTurn
      <4> QED
        BY <4>1, <4>2
    <3> QED
      BY <3>5 DEF ReleasesInTurn
  <2>4. CASE UNCHANGED <<reservation, release>>
    BY <2>4 DEF ReleasesInTurn
  <2> QED
    BY <2>1, <2>2, <2>3, <2>4
    DEF Next, vars, reserveItemsForOrder, CheckItem, PushReservation, adjustStock,
        upsertStock, recordMovement
<1> QED
  BY <1>1, <1>2, InvCorrect, OutcomeCorrect, PTL DEF Spec

\* What every step does to the numbers of the book, when callers release in
\* turn.
LEMMA BookStep ==
  ASSUME Inv, AvailableAgrees, OutcomeExplained, ReleasesInTurn, ReservedIsActive,
         SerialRelease, [Next]_vars
  PROVE  \/ Stays
         \/ \E r \in Receipts : Moves(Receipt[r].sku, Receipt[r].delta, 0, 0)
         \/ \E o \in Orders : \E i \in Lines(o) :
                LET s == Cart[o][i].sku
                    q == Cart[o][i].qty
                IN  \/ Moves(s, 0, q, q) /\ FoundReserved(s) + q <= FoundOnHand(s)
                    \/ Moves(s, 0, 0 - q, 0 - q) /\ q <= FoundReserved(s)
<1>1. CASE UNCHANGED <<stock, reservation>>
  BY <1>1 DEF Stays, FoundOnHand, FoundReserved, getStock, RowOf, ActiveUnits, Held
<1>2. \/ UNCHANGED <<stock, reservation>>
      \/ \E o \in Orders : reserveStock(o)
      \/ \E r \in Receipts : upsertStock(r)
      \/ \E x \in Releases : FinishRelease(x)
  BY DEF Next, vars, reserveItemsForOrder, CheckItem, PushReservation,
         adjustStock, recordMovement, releaseReservation
<1> QED
  BY <1>1, <1>2, reserveStockMoves, upsertStockMoves, FinishReleaseMoves

\* The reserved counter of the row getStock finds is the sum of the ACTIVE
\* reservations when callers release in turn: no unit stays reserved once
\* all are released, and none is given back that was not taken.
THEOREM ReservedIsActiveCorrect == Spec => []ReservedIsActive
<1>1. Init => ReservedIsActive
  <2> SUFFICES ASSUME Init, NEW s \in Skus
               PROVE  ActiveUnits(s) = IF getStock(s) THEN RowOf(s).reserved ELSE 0
    BY DEF ReservedIsActive
  <2>1. ~getStock(s)
    BY DEF Init, getStock
  <2>2. \A l \in OrderLines : Held(s)[l] = 0
    BY OrderLinesFacts DEF Init, Held
  <2>3. ActiveUnits(s) = 0
    BY <2>2, OrderLinesFacts, SumZero DEF ActiveUnits
  <2> QED
    BY <2>1, <2>3
<1>2. /\ Inv /\ AvailableAgrees /\ OutcomeExplained /\ ReleasesInTurn
      /\ ReservedIsActive /\ [Next]_vars
      => ReservedIsActive'
  <2> SUFFICES ASSUME Inv, AvailableAgrees, OutcomeExplained, ReleasesInTurn,
                      ReservedIsActive, [Next]_vars, SerialRelease, NEW t \in Skus
               PROVE  ActiveUnits(t)' = FoundReserved(t)'
    BY DEF ReservedIsActive, FoundReserved
  <2>1. ActiveUnits(t) = FoundReserved(t)
    BY DEF ReservedIsActive, FoundReserved
  <2>2. CASE Stays
    BY <2>1, <2>2 DEF Stays
  <2>3. FoundReserved(t) \in Nat
    BY FoundType DEF Inv
  <2>4. ASSUME NEW r \in Receipts, Moves(Receipt[r].sku, Receipt[r].delta, 0, 0)
        PROVE  ActiveUnits(t)' = FoundReserved(t)'
    BY <2>1, <2>3, <2>4 DEF Moves
  <2>5. ASSUME NEW o \in Orders, NEW i \in Lines(o),
               \/ Moves(Cart[o][i].sku, 0, Cart[o][i].qty, Cart[o][i].qty)
               \/ Moves(Cart[o][i].sku, 0, 0 - Cart[o][i].qty, 0 - Cart[o][i].qty)
        PROVE  ActiveUnits(t)' = FoundReserved(t)'
    BY <2>1, <2>5 DEF Moves
  <2> QED
    BY <2>2, <2>4, <2>5, BookStep
<1> QED
  BY <1>1, <1>2, InvCorrect, AvailableCorrect, OutcomeCorrect, ReleasesInTurnCorrect, PTL DEF Spec

\* When callers release in turn, the code implements the abstract book: every
\* step adjusts, promises within what is on hand, gives back no more than was
\* promised, or leaves the book alone.
THEOREM ImplementsBookCorrect ==
  ASSUME SerialRelease
  PROVE  Spec => ImplementsBook
<1> DEFINE onHand == [s \in Skus |-> FoundOnHand(s)]
           promised == [s \in Skus |-> FoundReserved(s)]
<1>1. Init => Book!Init
  <2> SUFFICES ASSUME Init PROVE Book!Init
    OBVIOUS
  <2>1. \A s \in Skus : ~getStock(s)
    BY DEF Init, getStock
  <2> QED
    BY <2>1 DEF Book!Init
<1>2. /\ Inv /\ AvailableAgrees /\ OutcomeExplained /\ ReleasesInTurn
      /\ ReservedIsActive /\ [Next]_vars
      => [Book!Next]_<<onHand, promised>>
  <2> SUFFICES ASSUME Inv, AvailableAgrees, OutcomeExplained, ReleasesInTurn,
                      ReservedIsActive, [Next]_vars
               PROVE  [Book!Next]_<<onHand, promised>>
    OBVIOUS
  <2>1. CASE Stays
    BY <2>1 DEF Stays
  <2>2. ASSUME NEW r \in Receipts, Moves(Receipt[r].sku, Receipt[r].delta, 0, 0)
        PROVE  Book!Next
    <3> DEFINE s == Receipt[r].sku
               d == Receipt[r].delta
    <3>0. \A t \in Skus : FoundReserved(t) \in Nat
      BY FoundType DEF Inv
    <3>1. /\ onHand' = [onHand EXCEPT ![s] = @ + d]
          /\ promised' = promised
      BY <2>2, <3>0 DEF Moves
    <3>2. s \in Skus /\ d \in {Receipt[q].delta : q \in Receipts}
      BY ReceiptFacts
    <3>3. Book!Adjust(s, d)
      BY <3>1, Zenon DEF Book!Adjust, FoundOnHand, FoundReserved
    <3> QED
      BY <3>2, <3>3, Zenon DEF Book!Next
  <2>3. ASSUME NEW o \in Orders, NEW i \in Lines(o),
               LET s == Cart[o][i].sku
                   q == Cart[o][i].qty
               IN  \/ Moves(s, 0, q, q) /\ FoundReserved(s) + q <= FoundOnHand(s)
                   \/ Moves(s, 0, 0 - q, 0 - q) /\ q <= FoundReserved(s)
        PROVE  Book!Next
    <3> DEFINE s == Cart[o][i].sku
               q == Cart[o][i].qty
    <3>1. \A t \in Skus : FoundOnHand(t) \in Int /\ FoundReserved(t) \in Nat
      BY FoundType DEF Inv
    <3>2. s \in Skus /\ q \in Nat
          /\ q \in UNION {{Cart[p][j].qty : j \in Lines(p)} : p \in Orders}
      BY CartFacts
    <3>3. CASE Moves(s, 0, q, q) /\ FoundReserved(s) + q <= FoundOnHand(s)
      <4>1. /\ promised[s] + q <= onHand[s]
            /\ promised' = [promised EXCEPT ![s] = @ + q]
            /\ onHand' = onHand
        BY <3>1, <3>2, <3>3 DEF Moves
      <4>2. Book!Promise(s, q)
        BY <4>1, Zenon DEF Book!Promise, FoundOnHand, FoundReserved
      <4> QED
        BY <3>2, <4>2, Zenon DEF Book!Next
    <3>4. CASE Moves(s, 0, 0 - q, 0 - q) /\ q <= FoundReserved(s)
      <4>1. /\ q <= promised[s]
            /\ promised' = [promised EXCEPT ![s] = @ - q]
            /\ onHand' = onHand
        BY <3>1, <3>2, <3>4 DEF Moves
      <4>2. Book!GiveBack(s, q)
        BY <4>1, Zenon DEF Book!GiveBack, FoundOnHand, FoundReserved
      <4> QED
        BY <3>2, <4>2, Zenon DEF Book!Next
    <3> QED
      BY <2>3, <3>3, <3>4
  <2> QED
    BY <2>1, <2>2, <2>3, BookStep
<1> QED
  BY <1>1, <1>2, InvCorrect, AvailableCorrect, OutcomeCorrect, ReleasesInTurnCorrect,
     ReservedIsActiveCorrect, PTL
  DEF Spec, ImplementsBook, Book!Spec, FoundOnHand, FoundReserved
=============================================================================
