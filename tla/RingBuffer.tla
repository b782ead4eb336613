----------------------------- MODULE RingBuffer -----------------------------
(***************************************************************************)
(* HighThroughputDisruptorRingBuffer (packages/common/src/buffers).        *)
(* Nothing holds a publisher back: a reader finds out only by itself that  *)
(* it was overtaken.  With a capacity that is a power of two, & mask is    *)
(* the remainder.                                                          *)
(***************************************************************************)
EXTENDS Naturals, Sequences

CONSTANTS
    Items,
    capacity,
    MaxSequence         \* bound: publications

ASSUME RingAssumption ==
    /\ capacity \in Nat \ {0}
    /\ MaxSequence \in Nat

VARIABLES
    buffer,             \* buffer[idx]: <<>> while undefined, else <<item>>
    sequence,
    stream              \* history: what was published, in order

ringVars == <<buffer, sequence, stream>>

RingInit ==
    /\ buffer = [idx \in 0 .. capacity - 1 |-> <<>>]
    /\ sequence = 0
    /\ stream = <<>>

\* Variant with one plausible mistake: the sequence is increased before.
SlotAfter(seq) == (seq + 1) % capacity

Slot(seq) == seq % capacity

\* The publisher's slot
WriteSlot(seq) == seq % capacity

publishItem(item) ==
    /\ sequence < MaxSequence
    /\ buffer' = [buffer EXCEPT ![WriteSlot(sequence)] = <<item>>]
    /\ sequence' = sequence + 1
    /\ stream' = Append(stream, item)

get(seq) == buffer[Slot(seq)]

RingNext == \E item \in Items : publishItem(item)

RingSpec == RingInit /\ [][RingNext]_ringVars

----------------------------------------------------------------------------
\* The last capacity items are read back under the numbers publish returned.
\* A number that has been overtaken reads the item one or more rounds later,
\* and one that is not yet published the item of the round before: undefined
\* is only read in the first round.
RingAgrees ==
    \A seq \in 0 .. sequence + capacity - 1 :
        LET same == {n \in 0 .. sequence - 1 : Slot(n) = Slot(seq)}
        IN  get(seq) = IF same = {} THEN <<>>
                       ELSE <<stream[1 + CHOOSE n \in same : \A k \in same : k <= n]>>
=============================================================================
