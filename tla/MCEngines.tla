----------------------------- MODULE MCEngines -----------------------------
(***************************************************************************)
(* Engines that are kept in memory and share no state: a behaviour         *)
(* exercises one of them and leaves the others as they started.            *)
(*   lease       three owners compete for one key with a lease that is     *)
(*               over at once, a short one and a longer one;               *)
(*   trie        every word of up to three letters, so that keys are       *)
(*               prefixes of one another and share prefixes;               *)
(*   allocation  reservations that expire at once or later than the retry  *)
(*               that replaces them;                                       *)
(*   dock        a door for everything that may go out of service and one  *)
(*               for outbound loads only, slots of one to three hours;     *)
(*   auction     two shipments, bids that tie in price and in safety;      *)
(*   ring        three rounds of a buffer of two;                          *)
(*   slotting    four putaways for two bays, limited by weight or volume;  *)
(*   tags        reads over three windows, in any order;                   *)
(*   samples     samples as late as the window is long and later;          *)
(*   lots        lots that expire together, one after the other, or are    *)
(*               quarantined or empty;                                     *)
(*   route       every six visits of stops on a line and beside it;        *)
(*   packing     four items, one too large and one too heavy for any bin;  *)
(*   schedule    contracts of a few cents over up to fourteen months;      *)
(*   btree       ten insertions of five keys into nodes of at most three   *)
(*               keys, so that leaves, inner nodes and the root are split; *)
(*   catalog     three calls that create products of two tenants, and two  *)
(*               that create warehouses.                                   *)
(***************************************************************************)
EXTENDS LeaseLock, RadixTrie, Allocation, DockScheduler, CarrierAuction,
        RingBuffer, Slotting, TagStream, SampleWindow, LotPicking,
        RouteTwoOpt, BinPacking, RevenueSchedule, BPlusTree, ProductCatalog, TLC

VARIABLE part

engineVars ==
    <<part, vars, trieVars, allocationVars, dockVars, auctionVars, ringVars, slottingVars,
      tagVars, sampleVars, lotVars, routeVars, packingVars, scheduleVars, treeVars,
      catalogVars>>

MCDurations == {0, 1, 2}
MCWords == BoundedSeq({"a", "b"}, 3)
MCDoors == {[doorId |-> 1, serves |-> {"in", "out"}, isOperational |-> TRUE],
            [doorId |-> 1, serves |-> {"in", "out"}, isOperational |-> FALSE],
            [doorId |-> 2, serves |-> {"out"}, isOperational |-> TRUE]}

MCItemOf(p) == CASE p = 1 -> [weight |-> 3, volume |-> 1]
                 [] p = 2 -> [weight |-> 2, volume |-> 2]
                 [] p = 3 -> [weight |-> 1, volume |-> 3]
                 [] OTHER -> [weight |-> 2, volume |-> 1]

MCLotRecords ==
    {[expirationDate |-> d, quantityOnHand |-> q, quarantineStatus |-> "RELEASED"] :
        d \in 1 .. 2, q \in {0, 2}}
        \cup {[expirationDate |-> 2, quantityOnHand |-> 1, quarantineStatus |-> "QUARANTINED"],
              [expirationDate |-> 3, quantityOnHand |-> 1, quarantineStatus |-> "RELEASED"]}

\* Stops are points of a grid, as far apart as the streets between them.
MCStops == {<<0, 0>>, <<1, 0>>, <<2, 0>>, <<0, 2>>}
MCDistance(a, b) ==
    LET apart(x, y) == IF x < y THEN y - x ELSE x - y
    IN  apart(a[1], b[1]) + apart(a[2], b[2])
MCRoutes == [1 .. 6 -> MCStops] \cup [1 .. 3 -> MCStops]

MCParcels == [1 .. 4 -> {[volume |-> v, weight |-> w] : v \in {1, 3, 4}, w \in {1, 4}}
                        \cup {[volume |-> 7, weight |-> 1], [volume |-> 1, weight |-> 7]}]

MCProductSpecs == {[sku |-> s, tenantId |-> t] : s \in {"A"}, t \in {"t1", "t2"}}

\* The owners are interchangeable.
Symmetry == Permutations(Owners)

\* Parts that start in one of many states do so only when they are exercised.
Starts(p, S) == IF part = p THEN S ELSE {CHOOSE x \in S : TRUE}

EnginesInit ==
    /\ part \in {"lease", "trie", "allocation", "dock", "auction", "ring", "slotting",
                "tags", "samples", "lots", "route", "packing", "schedule", "btree", "catalog"}
    /\ route \in Starts("route", Routes)
    /\ parcels \in Starts("packing", Parcels)
    /\ contractTotal \in Starts("schedule", Totals)
    /\ durationMonths \in Starts("schedule", Terms)
    /\ startMonth \in Starts("schedule", StartMonths)
    /\ Init /\ TrieInit /\ AllocationInit /\ DockInit /\ AuctionInit /\ RingInit
    /\ SlottingInit /\ TagInit /\ SamplesInit /\ LotInit
    /\ RouteInit /\ PackingInit /\ ScheduleInit /\ TreeInit /\ CatalogInit

\* The part that is exercised takes a step and the others none.
EnginesNext ==
    /\ UNCHANGED part
    /\ IF part = "lease" THEN Next ELSE UNCHANGED vars
    /\ IF part = "trie" THEN TrieNext ELSE UNCHANGED trieVars
    /\ IF part = "btree" THEN TreeNext ELSE UNCHANGED treeVars
    /\ IF part = "allocation" THEN AllocationNext ELSE UNCHANGED allocationVars
    /\ IF part = "dock" THEN DockNext ELSE UNCHANGED dockVars
    /\ IF part = "auction" THEN AuctionNext ELSE UNCHANGED auctionVars
    /\ IF part = "ring" THEN RingNext ELSE UNCHANGED ringVars
    /\ IF part = "slotting" THEN SlottingNext ELSE UNCHANGED slottingVars
    /\ IF part = "tags" THEN TagNext ELSE UNCHANGED tagVars
    /\ IF part = "samples" THEN SamplesNext ELSE UNCHANGED sampleVars
    /\ IF part = "lots" THEN LotNext ELSE UNCHANGED lotVars
    /\ IF part = "route" THEN Improve ELSE UNCHANGED routeVars
    /\ IF part = "packing" THEN PackItem ELSE UNCHANGED packingVars
    /\ IF part = "schedule" THEN RecognizeMonth ELSE UNCHANGED scheduleVars
    /\ IF part = "catalog" THEN CatalogNext ELSE UNCHANGED catalogVars

EnginesSpec == EnginesInit /\ [][EnginesNext]_engineVars

----------------------------------------------------------------------------
\* The B+ tree keeps its keys in order and its leaves at one depth through
\* every split.
TreeAgrees == IsTree /\ KeysInOrder /\ Balanced

\* The index structures and algorithms give what they are asked for: the trie
\* is a map and stays compressed, the ring reads back the last round, and the
\* window of samples built on the same idea drops nothing that is fresh; 2-opt
\* keeps the stops and the ends of the route and stops where no reversal helps,
\* first-fit decreasing overloads no bin but for one item and wastes none, a
\* revenue schedule adds up to the cent over consecutive months, and picking
\* uses lots in the order they expire.
AlgorithmsAgree ==
    /\ LookupAgrees /\ Compressed
    /\ RingAgrees /\ FreshKept
    /\ RouteKept /\ LocallyOptimal
    /\ OverloadIsOneItem /\ NoBinToSpare
    /\ ScheduleExact /\ PeriodsFollow
    /\ FefoKept
=============================================================================
