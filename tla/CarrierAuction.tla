--------------------------- MODULE CarrierAuction ---------------------------
(***************************************************************************)
(* AutonomousCarrierBiddingEngine (logistics-service/src/dispatch): spot   *)
(* auctions that the lowest bid wins.                                      *)
(*                                                                         *)
(* As in the dock scheduler, the id of an auction is the millisecond it    *)
(* was created in, and a second one of the same millisecond replaces it.   *)
(* auctionClosesAt is kept relative to the clock (left), below zero once   *)
(* it is past.  A bid carries its number, which stands for its random id   *)
(* and its time.                                                           *)
(***************************************************************************)
EXTENDS Integers, Sequences, SequencesExt

CONSTANTS
    Amounts, SafetyScores,      \* what is bid
    ceilingRate,                \* maxCeilingRateUSD
    OpenFor,                    \* durationMinutes, in ticks of the model's clock
    MaxAuctions, MaxBids        \* bounds: auctions created, bids accepted

ASSUME AuctionAssumption ==
    /\ Amounts \subseteq Nat
    /\ SafetyScores \subseteq Nat
    /\ OpenFor \in Nat

VARIABLES
    auctions,           \* the map, in the order of insertion
    auctionOfMs,        \* the clock has not moved since the last auction
    created, bidCount   \* auctions and bids so far

auctionVars == <<auctions, auctionOfMs, created, bidCount>>

AuctionInit ==
    /\ auctions = <<>>
    /\ auctionOfMs = FALSE
    /\ created = 0
    /\ bidCount = 0

----------------------------------------------------------------------------
(* Variants of the definitions below, each with one plausible mistake.     *)

\* An auction that was awarded before its time still takes bids.
AcceptsUntilClosing(a) == auctions[a].left >= 0

\* The tie-breaker the wrong way round.
BeforeUnsafe(b, c) ==
    b.amount < c.amount \/ (b.amount = c.amount /\ b.safety <= c.safety)

----------------------------------------------------------------------------
createSpotAuction ==
    LET auction == [shipment |-> created + 1, left |-> OpenFor, status |-> "OPEN",
                    bids |-> <<>>, winningBid |-> <<>>]
    IN  /\ created < MaxAuctions
        /\ created' = created + 1
        /\ auctions' = IF auctionOfMs THEN [auctions EXCEPT ![Len(auctions)] = auction]
                       ELSE Append(auctions, auction)
        /\ auctionOfMs' = TRUE
        /\ UNCHANGED bidCount

Accepts(a) == auctions[a].status = "OPEN" /\ auctions[a].left >= 0

\* The comparison of the sort, which is stable
Before(b, c) ==
    b.amount < c.amount \/ (b.amount = c.amount /\ b.safety >= c.safety)

\* push and sort: the bid goes behind those that come before it
Ranked(bids, bid) ==
    LET ahead == {i \in DOMAIN bids : Before(bids[i], bid)}
        n == IF ahead = {} THEN 0 ELSE CHOOSE i \in ahead : \A j \in ahead : j <= i
    IN  InsertAt(bids, n + 1, bid)

\* A bid that is not accepted changes nothing.
submitBid(a, amount, safety) ==
    LET bid == [amount |-> amount, safety |-> safety, number |-> bidCount + 1]
    IN  /\ bidCount < MaxBids
        /\ Accepts(a)
        /\ amount <= ceilingRate
        /\ bidCount' = bidCount + 1
        /\ auctions' = [auctions EXCEPT ![a].bids = Ranked(@, bid)]
        /\ UNCHANGED <<auctionOfMs, created>>

\* Neither the status nor the closing time is looked at.
awardAuction(a) ==
    /\ auctions[a].bids # <<>>
    /\ auctions' = [auctions EXCEPT ![a].status = "AWARDED",
                                    ![a].winningBid = <<auctions[a].bids[1]>>]
    /\ UNCHANGED <<auctionOfMs, created, bidCount>>

\* external: the clock moves on
AuctionTick ==
    /\ auctionOfMs' = FALSE
    /\ auctions' = [a \in DOMAIN auctions |->
                        [auctions[a] EXCEPT !.left = IF @ < 0 THEN @ ELSE @ - 1]]
    /\ UNCHANGED <<created, bidCount>>

AuctionNext ==
    \/ createSpotAuction
    \/ \E a \in DOMAIN auctions :
        \/ \E amount \in Amounts, safety \in SafetyScores : submitBid(a, amount, safety)
        \/ awardAuction(a)
    \/ AuctionTick

AuctionSpec == AuctionInit /\ [][AuctionNext]_auctionVars

----------------------------------------------------------------------------
\* "auto-tendering to lowest qualified carrier": the bid that won is the lowest
\* of all that were ever accepted, of the carrier with the best safety score
\* among equals, and of the first of these.
WinnerIsBest ==
    \A a \in DOMAIN auctions : \A w \in ToSet(auctions[a].winningBid) :
        \A b \in ToSet(auctions[a].bids) \ {w} :
            \/ w.amount < b.amount
            \/ w.amount = b.amount /\ w.safety > b.safety
            \/ w.amount = b.amount /\ w.safety = b.safety /\ w.number < b.number
=============================================================================
