----------------------------- MODULE StockBook -----------------------------
(***************************************************************************)
(* What the stock of one warehouse promises, whatever the code's steps:    *)
(* each SKU has units on hand, some of them promised to orders.  Units are *)
(* promised one order line at a time and never beyond what is on hand, and *)
(* only promised units are given back.                                     *)
(***************************************************************************)
EXTENDS Integers

CONSTANTS Skus, Quantities, Deltas

VARIABLES onHand, promised

Init ==
    /\ onHand = [s \in Skus |-> 0]
    /\ promised = [s \in Skus |-> 0]

Adjust(s, d) ==
    /\ onHand' = [onHand EXCEPT ![s] = @ + d]
    /\ UNCHANGED promised

Promise(s, q) ==
    /\ promised[s] + q <= onHand[s]
    /\ promised' = [promised EXCEPT ![s] = @ + q]
    /\ UNCHANGED onHand

GiveBack(s, q) ==
    /\ q <= promised[s]
    /\ promised' = [promised EXCEPT ![s] = @ - q]
    /\ UNCHANGED onHand

Next ==
    \E s \in Skus :
        \/ \E d \in Deltas : Adjust(s, d)
        \/ \E q \in Quantities : Promise(s, q) \/ GiveBack(s, q)

Spec == Init /\ [][Next]_<<onHand, promised>>
=============================================================================
