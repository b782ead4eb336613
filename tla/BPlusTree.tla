----------------------------- MODULE BPlusTree -----------------------------
(***************************************************************************)
(* BPlusTreeDatabaseIndex.  A node keeps its keys in order; a leaf keeps a *)
(* value for each of them, an inner node one child more than keys.  A full *)
(* node is split before anything is inserted below it.  The links between  *)
(* neighbouring leaves are written and never read, and are left out.       *)
(*                                                                         *)
(* Records are filed under their own key, so that the value a search       *)
(* returns tells whose record it is.                                       *)
(***************************************************************************)
EXTENDS Naturals, Sequences, SequencesExt

CONSTANTS
    TreeKeys,
    treeOrder,      \* the parameter of the constructor, 4 by default
    MaxCopies       \* bound: how often a key is inserted

ASSUME TreeAssumption == TreeKeys \subseteq Nat /\ treeOrder \in Nat \ {0, 1}

VARIABLES
    treeNodes,      \* the nodes, in the order of their creation
    treeRoot,       \* the number of the root
    filed           \* filed[k]: how often k was inserted

treeVars == <<treeNodes, treeRoot, filed>>

\* The answer to a search that finds nothing
null == 0

\* Children are numbers of nodes.
TreeNodes == [isLeaf : BOOLEAN, keys : Seq(TreeKeys), values : Seq(TreeKeys), children : Seq(Nat)]

TreeInit ==
    /\ treeNodes = <<[isLeaf |-> TRUE, keys |-> << >>, values |-> << >>, children |-> << >>]>>
    /\ treeRoot = 1
    /\ filed = [k \in TreeKeys |-> 0]

----------------------------------------------------------------------------
(* Variants of the definitions below, each with one plausible mistake.     *)

\* > for ===: a node is split one insertion late.
FullLater(node) == Len(node.keys) > 2 * treeOrder - 1

\* The key always goes to the first half.
FirstHalf(keys, i, key) == i

----------------------------------------------------------------------------
IsFull(node) == Len(node.keys) = 2 * treeOrder - 1

\* The place of the first key that is greater than key: insertNonFull looks
\* for it from the end, search from the start
Position(keys, key) == 1 + Max({0} \cup {i \in DOMAIN keys : keys[i] <= key})

\* The first n elements; a leaf has no children and an inner node no values.
First(s, n) == SubSeq(s, 1, Min({n, Len(s)}))

\* The i-th child of node p is split in two around its middle key, which moves
\* up.  The values of a leaf are parted one place before its keys.
splitChild(nodes, p, i) ==
    LET c == nodes[p].children[i]
        child == nodes[c]
        t == treeOrder
        first == [isLeaf |-> child.isLeaf,
                  keys |-> First(child.keys, t - 1),
                  values |-> First(child.values, t - 1),
                  children |-> First(child.children, t)]
        z == [isLeaf |-> child.isLeaf,
              keys |-> SubSeq(child.keys, t + 1, Len(child.keys)),
              values |-> SubSeq(child.values, t, Len(child.values)),
              children |-> SubSeq(child.children, t + 1, Len(child.children))]
        parent == [nodes[p] EXCEPT !.keys = InsertAt(@, i, child.keys[t]),
                                   !.children = InsertAt(@, i + 1, Len(nodes) + 1)]
    IN  Append([nodes EXCEPT ![p] = parent, ![c] = first], z)

\* Which of the halves the key belongs to
Half(keys, i, key) == IF key > keys[i] THEN i + 1 ELSE i

\* A call of insertNonFull: the nodes as they are, the one to insert below, and
\* what to insert
Calls == [nodes : Seq(TreeNodes), node : Nat, key : TreeKeys, value : TreeKeys]

\* The call for the child the key belongs to, which is split first if it is full
NextCall(call) ==
    LET node == call.nodes[call.node]
        i == Position(node.keys, call.key)
        full == IsFull(call.nodes[node.children[i]])
        room == IF full THEN splitChild(call.nodes, call.node, i) ELSE call.nodes
        j == IF full THEN Half(room[call.node].keys, i, call.key) ELSE i
    IN  [call EXCEPT !.nodes = room, !.node = room[call.node].children[j]]

Spliced(call) ==
    LET node == call.nodes[call.node]
        i == Position(node.keys, call.key)
    IN  [call.nodes EXCEPT ![call.node] =
            [node EXCEPT !.keys = InsertAt(@, i, call.key), !.values = InsertAt(@, i, call.value)]]

\* The nodes when the call is over.  Only a tree has a child for every key.
insertNonFull[call \in Calls] ==
    IF call.nodes[call.node].isLeaf \/ NextCall(call) \notin Calls THEN Spliced(call)
    ELSE insertNonFull[NextCall(call)]

Insert(nodes, root, key, value) ==
    insertNonFull[[nodes |-> nodes, node |-> root, key |-> key, value |-> value]]

\* A full root is split under a new one.
insertKey(key, value) ==
    LET s == Len(treeNodes) + 1
        above == [isLeaf |-> FALSE, keys |-> << >>, values |-> << >>, children |-> <<treeRoot>>]
    IN  /\ filed[key] < MaxCopies
        /\ IF IsFull(treeNodes[treeRoot])
           THEN /\ treeRoot' = s
                /\ treeNodes' = Insert(splitChild(Append(treeNodes, above), s, 1), s, key, value)
           ELSE /\ treeNodes' = Insert(treeNodes, treeRoot, key, value)
                /\ UNCHANGED treeRoot
        /\ filed' = [filed EXCEPT ![key] = @ + 1]

search(key) ==
    LET below[n \in DOMAIN treeNodes] ==
            LET curr == treeNodes[n]
                hits == {i \in DOMAIN curr.keys : curr.keys[i] = key}
            IN  IF ~curr.isLeaf THEN below[curr.children[Position(curr.keys, key)]]
                ELSE IF hits = {} THEN null
                ELSE curr.values[Min(hits)]
    IN  below[treeRoot]

TreeNext == \E key \in TreeKeys : insertKey(key, key)

TreeSpec == TreeInit /\ [][TreeNext]_treeVars

----------------------------------------------------------------------------
\* The keys of a node and of the nodes below it
KeysBelow[n \in DOMAIN treeNodes] ==
    ToSet(treeNodes[n].keys) \cup UNION {KeysBelow[c] : c \in ToSet(treeNodes[n].children)}

\* How far the leaves are below a node
Depths[n \in DOMAIN treeNodes] ==
    IF treeNodes[n].isLeaf THEN {0}
    ELSE {d + 1 : d \in UNION {Depths[c] : c \in ToSet(treeNodes[n].children)}}

KeyCount(keys, k) == Cardinality({i \in DOMAIN keys : keys[i] = k})

\* No node is in two places or lost: all but the root are the child of one
\* node, once.
IsTree ==
    \A n \in DOMAIN treeNodes :
        LET places == {x \in (DOMAIN treeNodes) \X (1 .. 2 * treeOrder) :
                        /\ x[2] \in DOMAIN treeNodes[x[1]].children
                        /\ treeNodes[x[1]].children[x[2]] = n}
        IN  IF n = treeRoot THEN places = {} ELSE \E x \in places : places = {x}

\* Through every split of leaves, inner nodes and the root, and with keys that
\* are inserted twice, the tree holds every key as often as it was inserted,
\* from left to right in order: those of inner nodes are between the children
\* they separate.
KeysInOrder ==
    /\ \A n \in DOMAIN treeNodes :
        LET node == treeNodes[n]
        IN  /\ \A i, j \in DOMAIN node.keys : i < j => node.keys[i] <= node.keys[j]
            /\ \A i \in DOMAIN node.children : \A k \in KeysBelow[node.children[i]] :
                /\ i > 1 => node.keys[i - 1] <= k
                /\ i <= Len(node.keys) => k <= node.keys[i]
    /\ \A k \in TreeKeys :
        filed[k] = SumFunction([n \in DOMAIN treeNodes |-> KeyCount(treeNodes[n].keys, k)])

\* The tree stays balanced: all leaves are equally deep, an inner node has one
\* child more than keys, and every node but the root is at least half full and
\* never over-full, so that a search takes logarithmic time.
Balanced ==
    /\ Cardinality(Depths[treeRoot]) = 1
    /\ \A n \in DOMAIN treeNodes :
        LET node == treeNodes[n]
        IN  /\ ~node.isLeaf => Len(node.children) = Len(node.keys) + 1
            /\ Len(node.keys) <= 2 * treeOrder - 1
            /\ n # treeRoot => Len(node.keys) >= treeOrder - 1

\* What a search index is for: a key that was inserted is found, with the value
\* it was inserted with.
SearchAgrees == \A k \in TreeKeys : search(k) = IF filed[k] > 0 THEN k ELSE null
=============================================================================
