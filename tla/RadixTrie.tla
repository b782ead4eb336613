------------------------------ MODULE RadixTrie ------------------------------
(***************************************************************************)
(* RadixTrieRoutingIndex (packages/common/src/trees): insert and lookup of *)
(* a compressed prefix tree, beside the map it stands for.  A string is    *)
(* the sequence of its characters.  Nodes refer to one another by number,  *)
(* in the order of their creation, and are changed in place.  The children *)
(* of a node have different first characters, so at most one shares a      *)
(* prefix with the key and the order in which they are tried makes no      *)
(* difference.                                                             *)
(***************************************************************************)
EXTENDS Naturals, Sequences, FiniteSets, SequencesExt

CONSTANTS
    Alphabet,
    Words,          \* the keys, sequences over Alphabet
    Values,
    MaxInserts      \* bound: insertions

ASSUME TrieAssumption ==
    /\ Words \subseteq Seq(Alphabet)
    /\ 0 \notin Values

VARIABLES
    trieNodes,      \* the nodes: <<the root, ...>>
    entries,        \* the map: entries[w] is the value of w, undefined without
    inserts

trieVars == <<trieNodes, entries, inserts>>

undefined == 0

\* A node and its children, by the first character of their prefixes
TrieNode(prefix, isLeaf, value, children) ==
    [prefix |-> prefix, isLeaf |-> isLeaf, value |-> value, children |-> children]

Leaf(prefix, value) == TrieNode(prefix, TRUE, value, << >>)

TrieInit ==
    /\ trieNodes = <<TrieNode(<< >>, FALSE, undefined, << >>)>>
    /\ entries = [w \in Words |-> undefined]
    /\ inserts = 0

\* children.set(prefix[0], node)
SetChild(children, prefix, n) ==
    [a \in DOMAIN children \cup {prefix[1]} |-> IF a = prefix[1] THEN n ELSE children[a]]

After(s, n) == SubSeq(s, n + 1, Len(s))

\* Variant with one plausible mistake: the node that is cut short keeps its
\* value.
ShortenedKeepsValue(node, n, s) ==
    [node EXCEPT !.prefix = SubSeq(@, 1, n), !.children = SetChild(<< >>, After(node.prefix, n), s)]

getCommonPrefixLength(a, b) ==
    CHOOSE n \in 0 .. Len(a) :
        /\ n <= Len(b)
        /\ \A i \in 1 .. n : a[i] = b[i]
        /\ n < Len(a) /\ n < Len(b) => a[n + 1] # b[n + 1]

----------------------------------------------------------------------------
(* Where the loops of insert and lookup are: curr and remaining            *)

Places == [curr : DOMAIN trieNodes, remaining : Seq(Alphabet)]

Start(key) == [curr |-> 1, remaining |-> key]

Children(place) == trieNodes[place.curr].children
ChildPrefix(place, a) == trieNodes[Children(place)[a]].prefix
commonLen(place, a) == getCommonPrefixLength(place.remaining, ChildPrefix(place, a))

\* Under the child, with what its prefix leaves of the key
Below(place, a) ==
    [curr |-> Children(place)[a], remaining |-> After(place.remaining, Len(ChildPrefix(place, a)))]

Matched(place) == {a \in DOMAIN Children(place) : commonLen(place, a) > 0}
Whole(place) == {a \in Matched(place) : commonLen(place, a) = Len(ChildPrefix(place, a))}

\* Where insert stops going down
reached[place \in Places] ==
    IF Whole(place) = {} THEN place ELSE reached[Below(place, CHOOSE a \in Whole(place) : TRUE)]

lookupBelow[place \in Places] ==
    LET curr == trieNodes[place.curr]
        first == place.remaining[1]
    IN  IF place.remaining = << >> THEN IF curr.isLeaf THEN curr.value ELSE undefined
        ELSE IF first \notin DOMAIN curr.children THEN undefined
        ELSE IF ~IsPrefix(ChildPrefix(place, first), place.remaining) THEN undefined
        ELSE lookupBelow[Below(place, first)]

lookup(key) == lookupBelow[Start(key)]

----------------------------------------------------------------------------
\* The child is cut after n characters; what it was hangs below it as node s.
Shortened(node, n, s) ==
    TrieNode(SubSeq(node.prefix, 1, n), FALSE, undefined, SetChild(<< >>, After(node.prefix, n), s))

EndsHere(place, value) ==
    /\ place.remaining = << >>
    /\ trieNodes' = [trieNodes EXCEPT ![place.curr].isLeaf = TRUE, ![place.curr].value = value]

NewChild(place, value) ==
    /\ place.remaining # << >> /\ Matched(place) = {}
    /\ trieNodes' = Append([trieNodes EXCEPT ![place.curr].children =
                                SetChild(@, place.remaining, Len(trieNodes) + 1)],
                           Leaf(place.remaining, value))

Split(place, a, value) ==
    LET c == Children(place)[a]
        n == commonLen(place, a)
        s == Len(trieNodes) + 1
        short == Shortened(trieNodes[c], n, s)
        splitNode == [trieNodes[c] EXCEPT !.prefix = After(@, n)]
        rest == After(place.remaining, n)
    IN  trieNodes' =
            IF rest = << >>
            THEN Append([trieNodes EXCEPT ![c] = [short EXCEPT !.isLeaf = TRUE, !.value = value]],
                        splitNode)
            ELSE [trieNodes EXCEPT ![c] = [short EXCEPT !.children = SetChild(@, rest, s + 1)]]
                    \o <<splitNode, Leaf(rest, value)>>

insert(w, value) ==
    /\ inserts < MaxInserts
    /\ inserts' = inserts + 1
    /\ entries' = [entries EXCEPT ![w] = value]
    /\ LET place == reached[Start(w)]
       IN  \/ EndsHere(place, value)
           \/ NewChild(place, value)
           \/ \E a \in Matched(place) : Split(place, a, value)

TrieNext == \E w \in Words, value \in Values : insert(w, value)

TrieSpec == TrieInit /\ [][TrieNext]_trieVars

----------------------------------------------------------------------------
\* The index is a map: lookup finds the value last inserted under a key and
\* nothing under any other, in whatever order keys that are prefixes of one
\* another, or share one, were inserted.
LookupAgrees == \A w \in Words : lookup(w) = entries[w]

\* "Compressed": below the root every node is a key or a fork, and is filed
\* under the first character of its prefix, which lookup relies on.
Compressed ==
    /\ \A n \in 2 .. Len(trieNodes) :
        trieNodes[n].isLeaf \/ Cardinality(DOMAIN trieNodes[n].children) > 1
    /\ \A n \in DOMAIN trieNodes : \A a \in DOMAIN trieNodes[n].children :
        LET child == trieNodes[trieNodes[n].children[a]]
        IN  child.prefix # << >> /\ child.prefix[1] = a
=============================================================================
