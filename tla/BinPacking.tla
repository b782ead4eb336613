----------------------------- MODULE BinPacking -----------------------------
(***************************************************************************)
(* pack3DBins (packages/common/src/utils/mathOptimization.ts), one action  *)
(* per item.  An item is its volume and its weight; 85 % of a bin's volume *)
(* may be used, in whole units of volume.                                  *)
(***************************************************************************)
EXTENDS Naturals, Sequences, FiniteSets, Functions, SequencesExt

CONSTANTS
    Parcels,            \* the lists of items: sequences of [volume, weight]
    usableVolume,       \* binVolume * 0.85
    maxWeightKg

ASSUME PackingAssumption ==
    /\ usableVolume \in Nat /\ maxWeightKg \in Nat
    /\ \A items \in Parcels : items \in Seq([volume : Nat, weight : Nat])

VARIABLES
    parcels,            \* the items, as they were given
    sortedItems,        \* the items that are not yet packed
    bins                \* the bins so far, each a sequence of items

packingVars == <<parcels, sortedItems, bins>>

usedVolume(bin) == SumFunction([i \in DOMAIN bin |-> bin[i].volume])
totalWeight(bin) == SumFunction([i \in DOMAIN bin |-> bin[i].weight])

\* Array.prototype.sort is stable.
Larger(items, i, k) ==
    \/ items[i].volume > items[k].volume
    \/ items[i].volume = items[k].volume /\ i < k

\* The n-th item is the one that n - 1 of them go before.
SortedByVolume(items) ==
    [n \in DOMAIN items |->
        items[CHOOSE i \in DOMAIN items :
                  Cardinality({k \in DOMAIN items : Larger(items, k, i)}) = n - 1]]

PackingInit ==
    /\ parcels \in Parcels
    /\ sortedItems = SortedByVolume(parcels)
    /\ bins = <<>>

\* Variants with one plausible mistake: only the last bin is tried, and the
\* weight of the item is forgotten.
FitsLast(b, item) ==
    /\ b = Len(bins)
    /\ usedVolume(bins[b]) + item.volume <= usableVolume
    /\ totalWeight(bins[b]) + item.weight <= maxWeightKg
FitsByLoad(b, item) ==
    /\ usedVolume(bins[b]) + item.volume <= usableVolume
    /\ totalWeight(bins[b]) <= maxWeightKg

Fits(b, item) ==
    /\ usedVolume(bins[b]) + item.volume <= usableVolume
    /\ totalWeight(bins[b]) + item.weight <= maxWeightKg

\* The first bin the item fits in, or a new one, whether or not it fits there
PackItem ==
    /\ sortedItems # <<>>
    /\ LET item == Head(sortedItems)
           fitting == {b \in DOMAIN bins : Fits(b, item)}
       IN  bins' = IF fitting = {} THEN Append(bins, <<item>>)
                   ELSE [bins EXCEPT ![Min(fitting)] = Append(@, item)]
    /\ sortedItems' = Tail(sortedItems)
    /\ UNCHANGED parcels

PackingSpec == PackingInit /\ [][PackItem]_packingVars

----------------------------------------------------------------------------
\* A bin is over its limits only when all it holds is one item that is too
\* large or too heavy for any bin.
OverloadIsOneItem ==
    \A b \in DOMAIN bins :
        usedVolume(bins[b]) > usableVolume \/ totalWeight(bins[b]) > maxWeightKg
            => Len(bins[b]) = 1

Copies(items, x) == Cardinality({i \in DOMAIN items : items[i] = x})

\* No bin was opened in vain: no two bins could be packed into one, and the
\* bins hold the items that were given, each once.
NoBinToSpare ==
    /\ \A a, b \in DOMAIN bins : a < b =>
        \/ usedVolume(bins[a]) + usedVolume(bins[b]) > usableVolume
        \/ totalWeight(bins[a]) + totalWeight(bins[b]) > maxWeightKg
    /\ \A x \in ToSet(parcels) \cup ToSet(sortedItems) \cup UNION {ToSet(bins[b]) : b \in DOMAIN bins} :
        SumFunction([b \in DOMAIN bins |-> Copies(bins[b], x)]) + Copies(sortedItems, x)
            = Copies(parcels, x)
=============================================================================
