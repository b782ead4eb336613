------------------------------ MODULE Slotting ------------------------------
(***************************************************************************)
(* DynamicWarehouseSlottingMatrix (inventory-service/src/slotting): a      *)
(* putaway asks for the best bay and allocates its item there later, when  *)
(* others may have been quicker.  The bays of one warehouse and one zone,  *)
(* which have the same limits, numbered by their pickWalkSequenceIndex.    *)
(***************************************************************************)
EXTENDS Naturals, FiniteSets, FiniteSetsExt, Functions

CONSTANTS
    Putaways,           \* who stores an item
    ItemOf(_),          \* the item of a putaway: [weight, volume]
    Bays,               \* a set of numbers
    maxWeight, maxVolume

ASSUME SlottingAssumption ==
    /\ IsFiniteSet(Putaways)
    /\ Bays \subseteq Nat
    /\ maxWeight \in Nat
    /\ maxVolume \in Nat
    /\ \A p \in Putaways : ItemOf(p).weight \in Nat /\ ItemOf(p).volume \in Nat

VARIABLES
    stored,             \* stored[b]: the putaways whose items are in bay b
    best,               \* best[p]: the bay findBestBay gave p, 0 before
    outcome,            \* outcome[p]: "new", "found", "null", "true" or "false"
    overtaken           \* history: putaways whose bay was filled since they asked

slottingVars == <<stored, best, outcome, overtaken>>

SlottingInit ==
    /\ stored = [b \in Bays |-> {}]
    /\ best = [p \in Putaways |-> 0]
    /\ outcome = [p \in Putaways |-> "new"]
    /\ overtaken = {}

currentWeight(b) == SumFunctionOnSet([p \in Putaways |-> ItemOf(p).weight], stored[b])
currentVolume(b) == SumFunctionOnSet([p \in Putaways |-> ItemOf(p).volume], stored[b])

Candidates(item) ==
    {b \in Bays : /\ currentWeight(b) + item.weight <= maxWeight
                  /\ currentVolume(b) + item.volume <= maxVolume}

findBestBay(p) ==
    /\ outcome[p] = "new"
    /\ IF Candidates(ItemOf(p)) = {}
       THEN /\ outcome' = [outcome EXCEPT ![p] = "null"]
            /\ UNCHANGED best
       ELSE /\ outcome' = [outcome EXCEPT ![p] = "found"]
            /\ best' = [best EXCEPT ![p] = Min(Candidates(ItemOf(p)))]
    /\ UNCHANGED <<stored, overtaken>>

\* Variant with one plausible mistake: a bay is never filled up to its limit.
ExceedsOrMeets(b, item) ==
    currentWeight(b) + item.weight >= maxWeight \/ currentVolume(b) + item.volume >= maxVolume

Exceeds(b, item) ==
    currentWeight(b) + item.weight > maxWeight \/ currentVolume(b) + item.volume > maxVolume

allocateItemToBay(p) ==
    /\ outcome[p] = "found"
    /\ IF Exceeds(best[p], ItemOf(p))
       THEN /\ outcome' = [outcome EXCEPT ![p] = "false"]
            /\ UNCHANGED <<stored, overtaken>>
       ELSE /\ outcome' = [outcome EXCEPT ![p] = "true"]
            /\ stored' = [stored EXCEPT ![best[p]] = @ \cup {p}]
            /\ overtaken' = overtaken \cup
                    {q \in Putaways \ {p} : outcome[q] = "found" /\ best[q] = best[p]}
    /\ UNCHANGED best

SlottingNext == \E p \in Putaways : findBestBay(p) \/ allocateItemToBay(p)

SlottingSpec == SlottingInit /\ [][SlottingNext]_slottingVars

----------------------------------------------------------------------------
\* A putaway that was told a bay is refused there only if somebody else has
\* filled the bay since, and no bay ever holds more than its limits.
RefusedIfOvertaken ==
    /\ \A p \in Putaways : outcome[p] = "false" => p \in overtaken
    /\ \A b \in Bays : currentWeight(b) <= maxWeight /\ currentVolume(b) <= maxVolume

=============================================================================
