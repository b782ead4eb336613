------------------------ MODULE MCStockReservation ------------------------
\* Small instances of StockReservation: orders that want the same units in
\* opposite orders, one with a SKU on two lines, and receipts that arrive
\* while the orders run.
EXTENDS StockReservation, TLC

Line(s, q) == [sku |-> s, qty |-> q]

MCCart == "o1" :> <<Line("A", 1), Line("B", 1)>>
       @@ "o2" :> <<Line("B", 1), Line("A", 1)>>
       @@ "o3" :> <<Line("A", 1), Line("A", 1)>>

MCReceipt == "r1" :> [sku |-> "A", delta |-> 2]
          @@ "r2" :> [sku |-> "B", delta |-> 1]

\* Two receipts of one SKU and a write-off
MCShrink == "r1" :> [sku |-> "A", delta |-> 2]
         @@ "r2" :> [sku |-> "A", delta |-> 1]
         @@ "r3" :> [sku |-> "A", delta |-> -2]

\* One order, one receipt, nothing else: a SKU on two lines, units for one
MCDuplicateLine == "o1" :> <<Line("A", 1), Line("A", 1)>>

MCOneUnit == "r1" :> [sku |-> "A", delta |-> 1]

MCSmallCart == "o1" :> <<Line("A", 1), Line("A", 2)>>
            @@ "o2" :> <<Line("A", 2)>>
=============================================================================
