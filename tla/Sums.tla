-------------------------------- MODULE Sums --------------------------------
(***************************************************************************)
(* Facts about sums over finite sets, which the theorems on counters,      *)
(* journals and stock rest on, and about orders and runs, which those on   *)
(* sorting and looping rest on.                                            *)
(***************************************************************************)
EXTENDS Integers, FiniteSets, Functions, FiniteSetTheorems, WellFoundedInduction, TLAPS

\* The element a fold takes next
Pick(T) == CHOOSE x \in T : TRUE

\* g is defined on the subsets of S as the fold defines it
Folds(f, S, g) ==
    g = [T \in SUBSET S |-> IF T = {} THEN 0 ELSE f[Pick(T)] + g[T \ {Pick(T)}]]

Fold(f, S) == CHOOSE g : Folds(f, S, g)

\* SumFunctionOnSet is this fold.
LEMMA SumIsFold ==
    ASSUME NEW f, NEW S
    PROVE  SumFunctionOnSet(f, S) = Fold(f, S)[S]
    BY Zenon DEF SumFunctionOnSet, FoldFunctionOnSet, MapThenFoldSet, Fold, Folds, Pick

\* Induction on natural numbers, for a property given as a set.
LEMMA SetInduction ==
    ASSUME NEW P, 0 \in P, \A n \in Nat : n \in P => n + 1 \in P
    PROVE  \A n \in Nat : n \in P
<1> DEFINE Bad == Nat \ P
<1>1. SUFFICES ASSUME Bad # {} PROVE FALSE
    OBVIOUS
<1>2. PICK n \in Bad : \A m \in Bad : ~(<<m, n>> \in OpToRel(<, Nat))
    BY <1>1, NatLessThanWellFounded, WFMin, Zenon
<1>3. n \in Nat /\ n # 0 /\ n - 1 \in Nat
    OBVIOUS
<1>4. ~(<<n - 1, n>> \in OpToRel(<, Nat)) => n - 1 \in Nat /\ FALSE
    BY <1>3 DEF OpToRel
<1>5. n - 1 \notin Bad
    BY <1>2, <1>4
<1>6. (n - 1) + 1 \in P
    BY <1>3, <1>5
<1> QED
    BY <1>3, <1>6

\* Sets of at most n elements
Small(S, n) == {T \in SUBSET S : Cardinality(T) <= n}

\* The fold on the sets of at most n elements
FoldsTo(f, S, n, g) ==
    g = [T \in Small(S, n) |-> IF T = {} THEN 0 ELSE f[Pick(T)] + g[T \ {Pick(T)}]]

LEMMA PickFacts ==
    ASSUME NEW S, IsFiniteSet(S), NEW T \in SUBSET S, T # {}
    PROVE  /\ Pick(T) \in T
           /\ T \ {Pick(T)} \in SUBSET S
           /\ IsFiniteSet(T)
           /\ Cardinality(T) \in Nat \ {0}
           /\ Cardinality(T \ {Pick(T)}) = Cardinality(T) - 1
<1>1. Pick(T) \in T
    BY Zenon DEF Pick
<1>2. IsFiniteSet(T)
    BY FS_Subset, Zenon
<1>3. Cardinality(T) \in Nat /\ Cardinality(T) # 0
    BY <1>2, FS_CardinalityType, FS_EmptySet, Zenon
<1>4. Cardinality(T \ {Pick(T)}) = Cardinality(T) - 1
    BY <1>1, <1>2, FS_RemoveElement
<1> QED
    BY <1>1, <1>2, <1>3, <1>4

\* There is a function the fold describes.
LEMMA FoldExists ==
    ASSUME NEW f, NEW S, IsFiniteSet(S)
    PROVE  Folds(f, S, Fold(f, S))
<1> DEFINE P == {n \in Nat : \E g : FoldsTo(f, S, n, g)}
<1>1. 0 \in P
    <2> DEFINE g == [T \in Small(S, 0) |-> 0]
    <2>1. ASSUME NEW T \in Small(S, 0) PROVE T = {}
        <3>1. T \in SUBSET S /\ Cardinality(T) <= 0
            BY <2>1 DEF Small
        <3>2. IsFiniteSet(T) /\ Cardinality(T) \in Nat
            BY <3>1, FS_Subset, FS_CardinalityType
        <3> QED BY <3>1, <3>2, FS_EmptySet
    <2>2. FoldsTo(f, S, 0, g)
        BY <2>1 DEF FoldsTo
    <2> QED BY <2>2
<1>2. ASSUME NEW n \in Nat, n \in P PROVE n + 1 \in P
    <2>1. PICK g : FoldsTo(f, S, n, g)
        BY <1>2
    <2> DEFINE h == [T \in Small(S, n + 1) |-> IF T = {} THEN 0 ELSE f[Pick(T)] + g[T \ {Pick(T)}]]
    <2>2. ASSUME NEW T \in Small(S, n + 1), T # {}
          PROVE  T \ {Pick(T)} \in Small(S, n) /\ T \ {Pick(T)} \in Small(S, n + 1)
        <3>1. T \in SUBSET S /\ Cardinality(T) <= n + 1
            BY <2>2 DEF Small
        <3> QED BY <3>1, <2>2, PickFacts DEF Small
    <2>3. ASSUME NEW T \in Small(S, n) PROVE T \in Small(S, n + 1) /\ h[T] = g[T]
        <3>1. T \in SUBSET S /\ Cardinality(T) <= n
            BY <2>3 DEF Small
        <3>2. Cardinality(T) \in Nat
            BY <3>1, FS_Subset, FS_CardinalityType
        <3>3. T \in Small(S, n + 1)
            BY <3>1, <3>2 DEF Small
        <3>4. g[T] = IF T = {} THEN 0 ELSE f[Pick(T)] + g[T \ {Pick(T)}]
            BY <2>1, Zenon DEF FoldsTo
        <3> QED BY <3>3, <3>4
    <2> HIDE DEF h
    <2>4. ASSUME NEW T \in Small(S, n + 1), T # {}
          PROVE  g[T \ {Pick(T)}] = h[T \ {Pick(T)}]
        BY <2>2, <2>3, <2>4
    <2>5. FoldsTo(f, S, n + 1, h)
        <3>1. \A T \in Small(S, n + 1) :
                (IF T = {} THEN 0 ELSE f[Pick(T)] + g[T \ {Pick(T)}])
                  = (IF T = {} THEN 0 ELSE f[Pick(T)] + h[T \ {Pick(T)}])
            BY <2>4
        <3>2. h = [T \in Small(S, n + 1) |-> IF T = {} THEN 0 ELSE f[Pick(T)] + h[T \ {Pick(T)}]]
            BY <3>1 DEF h
        <3> QED BY <3>2 DEF FoldsTo
    <2> QED BY <2>5
<1>3. Cardinality(S) \in Nat
    BY FS_CardinalityType
<1> HIDE DEF P
<1>4. Cardinality(S) \in P
    BY <1>1, <1>2, <1>3, SetInduction
<1>5. PICK g : FoldsTo(f, S, Cardinality(S), g)
    BY <1>4 DEF P
<1>6. Small(S, Cardinality(S)) = SUBSET S
    BY FS_Subset DEF Small
<1>7. Folds(f, S, g)
    BY <1>5, <1>6, Zenon DEF Folds, FoldsTo
<1> QED
    BY <1>7, Zenon DEF Fold

\* What a function the fold describes is at a subset.
LEMMA FoldsAt ==
    ASSUME NEW f, NEW S, NEW g, Folds(f, S, g), NEW T \in SUBSET S
    PROVE  g[T] = IF T = {} THEN 0 ELSE f[Pick(T)] + g[T \ {Pick(T)}]
    BY DEF Folds

\* What the fold computes for a subset.
LEMMA FoldEquation ==
    ASSUME NEW f, NEW S, IsFiniteSet(S), NEW T \in SUBSET S
    PROVE  Fold(f, S)[T] = IF T = {} THEN 0 ELSE f[Pick(T)] + Fold(f, S)[T \ {Pick(T)}]
    BY FoldExists, FoldsAt

----------------------------------------------------------------------------
\* Induction on the subsets of a finite set, for a property given as a set: a
\* subset has it when all smaller ones do.
LEMMA SubsetInduction ==
    ASSUME NEW S, IsFiniteSet(S), NEW P,
           \A T \in SUBSET S : (\A U \in SUBSET T : U # T => U \in P) => T \in P
    PROVE  \A T \in SUBSET S : T \in P
<1> DEFINE Q == {n \in Nat : \A T \in SUBSET S : Cardinality(T) <= n => T \in P}
<1>1. ASSUME NEW T \in SUBSET S, NEW U \in SUBSET T, U # T
      PROVE  /\ U \in SUBSET S
             /\ Cardinality(T) \in Nat /\ Cardinality(U) \in Nat
             /\ Cardinality(U) < Cardinality(T)
    <2>1. IsFiniteSet(T)
        BY FS_Subset
    <2>2. IsFiniteSet(U) /\ Cardinality(U) <= Cardinality(T) /\ Cardinality(U) # Cardinality(T)
        BY <2>1, <1>1, FS_Subset
    <2>3. Cardinality(T) \in Nat /\ Cardinality(U) \in Nat
        BY <2>1, <2>2, FS_CardinalityType
    <2> QED BY <2>2, <2>3
<1>2. 0 \in Q
    <2> SUFFICES ASSUME NEW T \in SUBSET S, Cardinality(T) <= 0 PROVE T \in P
        OBVIOUS
    <2>1. ASSUME NEW U \in SUBSET T, U # T PROVE U \in P
        BY <1>1, <2>1
    <2> QED BY <2>1
<1>3. ASSUME NEW n \in Nat, n \in Q PROVE n + 1 \in Q
    <2> SUFFICES ASSUME NEW T \in SUBSET S, Cardinality(T) <= n + 1 PROVE T \in P
        OBVIOUS
    <2>1. ASSUME NEW U \in SUBSET T, U # T PROVE U \in P
        <3>1. U \in SUBSET S /\ Cardinality(U) <= n
            BY <1>1, <2>1
        <3> QED BY <3>1, <1>3
    <2> QED BY <2>1
<1> HIDE DEF Q
<1>4. \A n \in Nat : n \in Q
    BY <1>2, <1>3, SetInduction
<1>5. ASSUME NEW T \in SUBSET S PROVE T \in P
    <2>1. Cardinality(T) \in Nat
        BY FS_Subset, FS_CardinalityType
    <2> QED BY <2>1, <1>4 DEF Q
<1> QED
    BY <1>5

\* The fold of a subset does not depend on the set it is part of.
LEMMA FoldUnique ==
    ASSUME NEW f, NEW S, IsFiniteSet(S), NEW T \in SUBSET S
    PROVE  Fold(f, S)[T] = Fold(f, T)[T]
<1> DEFINE P == {U \in SUBSET T : Fold(f, S)[U] = Fold(f, T)[U]}
<1>1. IsFiniteSet(T)
    BY FS_Subset
<1>2. ASSUME NEW U \in SUBSET T, \A V \in SUBSET U : V # U => V \in P
      PROVE  U \in P
    <2>1. CASE U = {}
        BY <2>1, <1>1, FoldEquation
    <2>2. CASE U # {}
        <3>1. U \ {Pick(U)} \in SUBSET U /\ U \ {Pick(U)} # U
            BY <1>1, <2>2, PickFacts
        <3>2. Fold(f, S)[U \ {Pick(U)}] = Fold(f, T)[U \ {Pick(U)}]
            BY <3>1, <1>2
        <3>3. Fold(f, S)[U] = f[Pick(U)] + Fold(f, S)[U \ {Pick(U)}]
            BY <2>2, FoldEquation
        <3>4. Fold(f, T)[U] = f[Pick(U)] + Fold(f, T)[U \ {Pick(U)}]
            BY <2>2, <1>1, FoldEquation
        <3> QED BY <3>2, <3>3, <3>4
    <2> QED BY <2>1, <2>2
<1> HIDE DEF P
<1>3. T \in P
    BY <1>1, <1>2, SubsetInduction
<1> QED
    BY <1>3 DEF P

\* The sum over nothing
LEMMA SumEmpty ==
    ASSUME NEW f
    PROVE  SumFunctionOnSet(f, {}) = 0
    BY SumIsFold, FoldEquation, FS_EmptySet

\* A sum takes one element after the other.
LEMMA SumPick ==
    ASSUME NEW f, NEW S, IsFiniteSet(S), S # {}
    PROVE  SumFunctionOnSet(f, S) = f[Pick(S)] + SumFunctionOnSet(f, S \ {Pick(S)})
<1>1. Fold(f, S)[S] = f[Pick(S)] + Fold(f, S)[S \ {Pick(S)}]
    BY FoldEquation
<1>2. Fold(f, S)[S \ {Pick(S)}] = Fold(f, S \ {Pick(S)})[S \ {Pick(S)}]
    BY FoldUnique
<1> QED
    BY <1>1, <1>2, SumIsFold

\* A sum of integers is an integer.
LEMMA SumType ==
    ASSUME NEW f, NEW S, IsFiniteSet(S), \A x \in S : f[x] \in Int
    PROVE  SumFunctionOnSet(f, S) \in Int
<1> DEFINE P == {T \in SUBSET S : SumFunctionOnSet(f, T) \in Int}
<1>1. ASSUME NEW T \in SUBSET S, \A U \in SUBSET T : U # T => U \in P
      PROVE  T \in P
    <2>1. CASE T = {}
        BY <2>1, SumEmpty
    <2>2. CASE T # {}
        <3>1. Pick(T) \in T /\ T \ {Pick(T)} \in SUBSET T /\ T \ {Pick(T)} # T /\ IsFiniteSet(T)
            BY <2>2, PickFacts
        <3>2. SumFunctionOnSet(f, T \ {Pick(T)}) \in Int /\ f[Pick(T)] \in Int
            BY <3>1, <1>1
        <3> QED BY <2>2, <3>1, <3>2, SumPick
    <2> QED BY <2>1, <2>2
<1> HIDE DEF P
<1>2. S \in P
    BY <1>1, SubsetInduction
<1> QED
    BY <1>2 DEF P

\* A sum only depends on the values at the elements summed over.
LEMMA SumCongruence ==
    ASSUME NEW f, NEW g, NEW S, IsFiniteSet(S), \A x \in S : f[x] = g[x]
    PROVE  SumFunctionOnSet(f, S) = SumFunctionOnSet(g, S)
<1> DEFINE P == {T \in SUBSET S : SumFunctionOnSet(f, T) = SumFunctionOnSet(g, T)}
<1>1. ASSUME NEW T \in SUBSET S, \A U \in SUBSET T : U # T => U \in P
      PROVE  T \in P
    <2>1. CASE T = {}
        BY <2>1, SumEmpty
    <2>2. CASE T # {}
        <3>1. Pick(T) \in T /\ T \ {Pick(T)} \in SUBSET T /\ T \ {Pick(T)} # T /\ IsFiniteSet(T)
            BY <2>2, PickFacts
        <3>2. /\ SumFunctionOnSet(f, T \ {Pick(T)}) = SumFunctionOnSet(g, T \ {Pick(T)})
              /\ f[Pick(T)] = g[Pick(T)]
            BY <3>1, <1>1
        <3> QED BY <2>2, <3>1, <3>2, SumPick
    <2> QED BY <2>1, <2>2
<1> HIDE DEF P
<1>2. S \in P
    BY <1>1, SubsetInduction
<1> QED
    BY <1>2 DEF P

\* The order does not matter: any element can be taken first.
LEMMA SumRemove ==
    ASSUME NEW f, NEW S, IsFiniteSet(S), \A x \in S : f[x] \in Int, NEW y \in S
    PROVE  SumFunctionOnSet(f, S) = f[y] + SumFunctionOnSet(f, S \ {y})
<1> DEFINE P == {T \in SUBSET S : \A z \in T :
                    SumFunctionOnSet(f, T) = f[z] + SumFunctionOnSet(f, T \ {z})}
<1>1. ASSUME NEW T \in SUBSET S, \A U \in SUBSET T : U # T => U \in P
      PROVE  T \in P
    <2> SUFFICES ASSUME NEW z \in T
                 PROVE  SumFunctionOnSet(f, T) = f[z] + SumFunctionOnSet(f, T \ {z})
        OBVIOUS
    <2> DEFINE p == Pick(T)
    <2>1. p \in T /\ IsFiniteSet(T)
        BY PickFacts
    <2>2. SumFunctionOnSet(f, T) = f[p] + SumFunctionOnSet(f, T \ {p})
        BY <2>1, SumPick
    <2> HIDE DEF p
    <2>3. CASE z = p
        BY <2>2, <2>3
    <2>4. CASE z # p
        <3> DEFINE R == T \ {p, z}
        <3>1. T \ {p} \in P /\ T \ {z} \in P
            BY <2>1, <1>1
        <3>2. (T \ {p}) \ {z} = R /\ (T \ {z}) \ {p} = R
            OBVIOUS
        <3>3. SumFunctionOnSet(f, T \ {p}) = f[z] + SumFunctionOnSet(f, R)
            BY <3>1, <3>2, <2>4
        <3>4. SumFunctionOnSet(f, T \ {z}) = f[p] + SumFunctionOnSet(f, R)
            BY <3>1, <3>2, <2>1, <2>4
        <3>5. SumFunctionOnSet(f, R) \in Int /\ f[p] \in Int /\ f[z] \in Int
            <4>1. IsFiniteSet(R)
                BY <2>1, FS_Subset
            <4>2. \A x \in R : f[x] \in Int
                OBVIOUS
            <4> QED BY <4>1, <4>2, <2>1, SumType
        <3> HIDE DEF R
        <3> QED BY <2>2, <3>3, <3>4, <3>5
    <2> QED BY <2>3, <2>4
<1> HIDE DEF P
<1>2. S \in P
    BY <1>1, SubsetInduction
<1> QED
    BY <1>2 DEF P

\* One more element
LEMMA SumAdd ==
    ASSUME NEW f, NEW S, IsFiniteSet(S), NEW y, y \notin S,
           \A x \in S : f[x] \in Int, f[y] \in Int
    PROVE  SumFunctionOnSet(f, S \cup {y}) = SumFunctionOnSet(f, S) + f[y]
<1> DEFINE T == S \cup {y}
<1>1. IsFiniteSet(T) /\ T \ {y} = S /\ y \in T /\ \A x \in T : f[x] \in Int
    BY FS_AddElement
<1>2. SumFunctionOnSet(f, S) \in Int
    BY SumType
<1> HIDE DEF T
<1>3. SumFunctionOnSet(f, T) = f[y] + SumFunctionOnSet(f, T \ {y})
    BY <1>1, SumRemove
<1>4. SumFunctionOnSet(f, T) = f[y] + SumFunctionOnSet(f, S)
    BY <1>1, <1>3, Zenon
<1>5. SumFunctionOnSet(f, T) = SumFunctionOnSet(f, S) + f[y]
    BY <1>2, <1>4
<1> QED
    BY <1>5 DEF T

\* The value at one element changes.
LEMMA SumChange ==
    ASSUME NEW f, NEW g, NEW S, IsFiniteSet(S), NEW y \in S,
           \A x \in S : f[x] \in Int, g[y] \in Int,
           \A x \in S : x # y => g[x] = f[x]
    PROVE  SumFunctionOnSet(g, S) = SumFunctionOnSet(f, S) + g[y] - f[y]
<1> DEFINE R == S \ {y}
<1>1. IsFiniteSet(R) /\ \A x \in R : f[x] \in Int /\ f[x] = g[x]
    BY FS_Subset
<1>2. SumFunctionOnSet(f, R) = SumFunctionOnSet(g, R) /\ SumFunctionOnSet(f, R) \in Int
    BY <1>1, SumCongruence, SumType
<1>3. SumFunctionOnSet(f, S) = f[y] + SumFunctionOnSet(f, R)
    BY SumRemove
<1>4. SumFunctionOnSet(g, S) = g[y] + SumFunctionOnSet(g, R)
    <2>1. \A x \in S : g[x] \in Int
        OBVIOUS
    <2> QED BY <2>1, SumRemove
<1> HIDE DEF R
<1> QED
    BY <1>2, <1>3, <1>4

\* Summing f on more elements, all of them 0
LEMMA SumZero ==
    ASSUME NEW f, NEW S, IsFiniteSet(S), \A x \in S : f[x] = 0
    PROVE  SumFunctionOnSet(f, S) = 0
<1> DEFINE P == {T \in SUBSET S : SumFunctionOnSet(f, T) = 0}
<1>1. ASSUME NEW T \in SUBSET S, \A U \in SUBSET T : U # T => U \in P
      PROVE  T \in P
    <2>1. CASE T = {}
        BY <2>1, SumEmpty
    <2>2. CASE T # {}
        <3>1. Pick(T) \in T /\ T \ {Pick(T)} \in SUBSET T /\ T \ {Pick(T)} # T /\ IsFiniteSet(T)
            BY <2>2, PickFacts
        <3>2. SumFunctionOnSet(f, T \ {Pick(T)}) = 0 /\ f[Pick(T)] = 0
            BY <3>1, <1>1
        <3> QED BY <2>2, <3>1, <3>2, SumPick
    <2> QED BY <2>1, <2>2
<1> HIDE DEF P
<1>2. S \in P
    BY <1>1, SubsetInduction
<1> QED
    BY <1>2 DEF P

\* A sum of smaller values is smaller.
LEMMA SumMonotone ==
    ASSUME NEW f, NEW g, NEW S, IsFiniteSet(S),
           \A x \in S : f[x] \in Int /\ g[x] \in Int /\ f[x] <= g[x]
    PROVE  SumFunctionOnSet(f, S) <= SumFunctionOnSet(g, S)
<1> DEFINE P == {T \in SUBSET S : SumFunctionOnSet(f, T) <= SumFunctionOnSet(g, T)}
<1>1. ASSUME NEW T \in SUBSET S, \A U \in SUBSET T : U # T => U \in P
      PROVE  T \in P
    <2>1. CASE T = {}
        BY <2>1, SumEmpty
    <2>2. CASE T # {}
        <3> DEFINE R == T \ {Pick(T)}
        <3>1. Pick(T) \in T /\ R \in SUBSET T /\ R # T /\ IsFiniteSet(T) /\ R \in SUBSET S
            BY <2>2, PickFacts
        <3>2. /\ SumFunctionOnSet(f, R) <= SumFunctionOnSet(g, R)
              /\ f[Pick(T)] \in Int /\ g[Pick(T)] \in Int /\ f[Pick(T)] <= g[Pick(T)]
            BY <3>1, <1>1
        <3>3. IsFiniteSet(R) /\ \A x \in R : f[x] \in Int /\ g[x] \in Int
            BY <3>1, FS_Subset
        <3>4. SumFunctionOnSet(f, R) \in Int /\ SumFunctionOnSet(g, R) \in Int
            BY <3>3, SumType
        <3>5. /\ SumFunctionOnSet(f, T) = f[Pick(T)] + SumFunctionOnSet(f, R)
              /\ SumFunctionOnSet(g, T) = g[Pick(T)] + SumFunctionOnSet(g, R)
            BY <2>2, <3>1, SumPick
        <3> HIDE DEF R
        <3>6. SumFunctionOnSet(f, T) <= SumFunctionOnSet(g, T)
            BY <3>2, <3>4, <3>5
        <3> QED BY <3>6
    <2> QED BY <2>1, <2>2
<1> HIDE DEF P
<1>2. S \in P
    BY <1>1, SubsetInduction
<1> QED
    BY <1>2 DEF P

\* A sum of values that are not negative is not negative.
LEMMA SumNat ==
    ASSUME NEW f, NEW S, IsFiniteSet(S), \A x \in S : f[x] \in Nat
    PROVE  SumFunctionOnSet(f, S) \in Nat
<1> DEFINE z == [x \in S |-> 0]
<1>1. SumFunctionOnSet(z, S) = 0
    BY SumZero
<1>2. \A x \in S : z[x] \in Int /\ f[x] \in Int /\ z[x] <= f[x]
    OBVIOUS
<1> HIDE DEF z
<1>3. SumFunctionOnSet(z, S) <= SumFunctionOnSet(f, S)
    BY <1>2, SumMonotone
<1>4. SumFunctionOnSet(f, S) \in Int
    BY <1>2, SumType
<1> QED
    BY <1>1, <1>3, <1>4

\* The sum over two sets with no common element
LEMMA SumUnion ==
    ASSUME NEW f, NEW S, NEW T, IsFiniteSet(S), IsFiniteSet(T), S \cap T = {},
           \A x \in S \cup T : f[x] \in Int
    PROVE  SumFunctionOnSet(f, S \cup T) = SumFunctionOnSet(f, S) + SumFunctionOnSet(f, T)
<1> DEFINE P == {U \in SUBSET T : SumFunctionOnSet(f, S \cup U)
                                    = SumFunctionOnSet(f, S) + SumFunctionOnSet(f, U)}
<1>1. ASSUME NEW U \in SUBSET T, \A V \in SUBSET U : V # U => V \in P
      PROVE  U \in P
    <2>0. SumFunctionOnSet(f, S) \in Int
        BY SumType
    <2>1. CASE U = {}
        <3>1. S \cup U = S
            BY <2>1
        <3> QED BY <2>0, <2>1, <3>1, SumEmpty
    <2>2. CASE U # {}
        <3> DEFINE u == Pick(U)
                   R == U \ {u}
        <3>1. u \in U /\ R \in SUBSET U /\ R # U /\ IsFiniteSet(U)
            BY <2>2, PickFacts
        <3> HIDE DEF u
        <3>2. IsFiniteSet(R) /\ IsFiniteSet(S \cup R)
            BY <3>1, FS_Subset, FS_Union
        <3>3. /\ (S \cup R) \cup {u} = S \cup U /\ u \notin S \cup R
              /\ R \cup {u} = U /\ u \notin R
            BY <3>1
        <3>4. f[u] \in Int /\ \A x \in S \cup R : f[x] \in Int
            BY <3>1
        <3>5. SumFunctionOnSet(f, S \cup R) = SumFunctionOnSet(f, S) + SumFunctionOnSet(f, R)
            BY <3>1, <1>1
        <3>6. SumFunctionOnSet(f, R) \in Int
            BY <3>2, <3>4, SumType
        <3> HIDE DEF R
        <3>7. SumFunctionOnSet(f, S \cup U) = SumFunctionOnSet(f, S \cup R) + f[u]
            <4>1. SumFunctionOnSet(f, (S \cup R) \cup {u}) = SumFunctionOnSet(f, S \cup R) + f[u]
                BY <3>2, <3>3, <3>4, SumAdd
            <4> QED BY <4>1, <3>3
        <3>8. SumFunctionOnSet(f, U) = SumFunctionOnSet(f, R) + f[u]
            <4>1. SumFunctionOnSet(f, R \cup {u}) = SumFunctionOnSet(f, R) + f[u]
                BY <3>2, <3>3, <3>4, SumAdd
            <4> QED BY <4>1, <3>3
        <3> QED BY <2>0, <3>4, <3>5, <3>6, <3>7, <3>8
    <2> QED BY <2>1, <2>2
<1> HIDE DEF P
<1>2. T \in P
    BY <1>1, SubsetInduction
<1> QED
    BY <1>2 DEF P

\* The sum of the sums
LEMMA SumPlus ==
    ASSUME NEW f, NEW g, NEW h, NEW S, IsFiniteSet(S),
           \A x \in S : f[x] \in Int /\ g[x] \in Int /\ h[x] = f[x] + g[x]
    PROVE  SumFunctionOnSet(h, S) = SumFunctionOnSet(f, S) + SumFunctionOnSet(g, S)
<1> DEFINE P == {T \in SUBSET S : SumFunctionOnSet(h, T)
                                    = SumFunctionOnSet(f, T) + SumFunctionOnSet(g, T)}
<1>1. ASSUME NEW T \in SUBSET S, \A U \in SUBSET T : U # T => U \in P
      PROVE  T \in P
    <2>1. CASE T = {}
        BY <2>1, SumEmpty
    <2>2. CASE T # {}
        <3> DEFINE t == Pick(T)
                   R == T \ {t}
        <3>1. t \in T /\ R \in SUBSET T /\ R # T /\ IsFiniteSet(T) /\ R \in SUBSET S
            BY <2>2, PickFacts
        <3>2. /\ SumFunctionOnSet(h, R) = SumFunctionOnSet(f, R) + SumFunctionOnSet(g, R)
              /\ f[t] \in Int /\ g[t] \in Int /\ h[t] = f[t] + g[t]
            BY <3>1, <1>1
        <3>3. IsFiniteSet(R) /\ \A x \in R : f[x] \in Int /\ g[x] \in Int
            BY <3>1, FS_Subset
        <3>4. SumFunctionOnSet(f, R) \in Int /\ SumFunctionOnSet(g, R) \in Int
            BY <3>3, SumType
        <3>5. /\ SumFunctionOnSet(f, T) = f[t] + SumFunctionOnSet(f, R)
              /\ SumFunctionOnSet(g, T) = g[t] + SumFunctionOnSet(g, R)
              /\ SumFunctionOnSet(h, T) = h[t] + SumFunctionOnSet(h, R)
            BY <2>2, <3>1, SumPick
        <3> HIDE DEF R, t
        <3> QED BY <3>2, <3>4, <3>5
    <2> QED BY <2>1, <2>2
<1> HIDE DEF P
<1>2. S \in P
    BY <1>1, SubsetInduction
<1> QED
    BY <1>2 DEF P

\* The sum over a set, with another name for each element
LEMMA SumRename ==
    ASSUME NEW f, NEW g, NEW S, NEW T, NEW r, IsFiniteSet(S),
           \A x \in S : r[x] \in T /\ g[r[x]] = f[x] /\ f[x] \in Int,
           \A x, y \in S : r[x] = r[y] => x = y,
           T = {r[x] : x \in S}
    PROVE  SumFunctionOnSet(g, T) = SumFunctionOnSet(f, S)
<1> DEFINE Im(U) == {r[x] : x \in U}
           P == {U \in SUBSET S : IsFiniteSet(Im(U))
                    /\ SumFunctionOnSet(g, Im(U)) = SumFunctionOnSet(f, U)}
<1>1. ASSUME NEW U \in SUBSET S, \A V \in SUBSET U : V # U => V \in P
      PROVE  U \in P
    <2>1. CASE U = {}
        <3>1. Im(U) = {}
            BY <2>1
        <3> QED BY <2>1, <3>1, SumEmpty, FS_EmptySet
    <2>2. CASE U # {}
        <3> DEFINE u == Pick(U)
                   R == U \ {u}
        <3>1. u \in U /\ R \in SUBSET U /\ R # U /\ IsFiniteSet(U)
            BY <2>2, PickFacts
        <3> HIDE DEF u
        <3>2. IsFiniteSet(R) /\ IsFiniteSet(Im(R))
              /\ SumFunctionOnSet(g, Im(R)) = SumFunctionOnSet(f, R)
            BY <3>1, <1>1, FS_Subset
        <3>3. Im(U) = Im(R) \cup {r[u]} /\ r[u] \notin Im(R) /\ R \cup {u} = U /\ u \notin R
            BY <3>1
        <3>4. g[r[u]] = f[u] /\ f[u] \in Int
            BY <3>1
        <3>5. (\A x \in Im(R) : g[x] \in Int) /\ (\A x \in R : f[x] \in Int)
            BY <3>1
        <3> HIDE DEF Im, R
        <3>6. SumFunctionOnSet(g, Im(R) \cup {r[u]}) = SumFunctionOnSet(g, Im(R)) + g[r[u]]
            BY <3>2, <3>3, <3>4, <3>5, SumAdd
        <3>7. SumFunctionOnSet(f, R \cup {u}) = SumFunctionOnSet(f, R) + f[u]
            BY <3>2, <3>3, <3>4, <3>5, SumAdd
        <3>8. IsFiniteSet(Im(R) \cup {r[u]})
            BY <3>2, FS_AddElement
        <3>9. SumFunctionOnSet(g, Im(U)) = SumFunctionOnSet(f, U) /\ IsFiniteSet(Im(U))
            BY <3>2, <3>3, <3>4, <3>6, <3>7, <3>8
        <3> QED BY <3>9
    <2> QED BY <2>1, <2>2
<1>3. T = Im(S)
    OBVIOUS
<1> HIDE DEF P, Im
<1>2. S \in P
    BY <1>1, SubsetInduction
<1> QED
    BY <1>2, <1>3 DEF P

\* The sum over a part, as a sum over all: the others count 0
LEMMA SumFilter ==
    ASSUME NEW f, NEW g, NEW S, NEW T \in SUBSET S, IsFiniteSet(S),
           \A x \in T : f[x] \in Int /\ g[x] = f[x],
           \A x \in S \ T : g[x] = 0
    PROVE  SumFunctionOnSet(f, T) = SumFunctionOnSet(g, S)
<1>1. IsFiniteSet(T) /\ IsFiniteSet(S \ T) /\ T \cap (S \ T) = {} /\ T \cup (S \ T) = S
    BY FS_Subset
<1>2. SumFunctionOnSet(g, S \ T) = 0
    BY <1>1, SumZero
<1>3. SumFunctionOnSet(g, T) = SumFunctionOnSet(f, T) /\ SumFunctionOnSet(f, T) \in Int
    BY <1>1, SumCongruence, SumType
<1>4. SumFunctionOnSet(g, T \cup (S \ T)) = SumFunctionOnSet(g, T) + SumFunctionOnSet(g, S \ T)
    BY <1>1, SumUnion
<1> QED
    BY <1>1, <1>2, <1>3, <1>4

\* The sum over a sequence that grows by one element
LEMMA SumAppend ==
    ASSUME NEW f, NEW g, NEW n \in Nat, g[n + 1] \in Int,
           \A k \in 1 .. n : g[k] \in Int /\ g[k] = f[k]
    PROVE  SumFunctionOnSet(g, 1 .. n + 1) = SumFunctionOnSet(f, 1 .. n) + g[n + 1]
<1> DEFINE S == 1 .. n
           T == 1 .. n + 1
<1>1. IsFiniteSet(S)
    BY FS_Interval
<1>2. T = S \cup {n + 1} /\ n + 1 \notin S
    OBVIOUS
<1>3. \A k \in S : g[k] \in Int /\ g[k] = f[k]
    OBVIOUS
<1> HIDE DEF S, T
<1>4. SumFunctionOnSet(g, S \cup {n + 1}) = SumFunctionOnSet(g, S) + g[n + 1]
    BY <1>1, <1>2, <1>3, SumAdd
<1>5. SumFunctionOnSet(g, S) = SumFunctionOnSet(f, S)
    BY <1>1, <1>3, SumCongruence
<1>6. SumFunctionOnSet(g, T) = SumFunctionOnSet(f, S) + g[n + 1]
    BY <1>2, <1>4, <1>5
<1> QED
    BY <1>6 DEF S, T

\* The sum over a sequence of two
LEMMA SumPair ==
    ASSUME NEW f, f[1] \in Int, f[2] \in Int
    PROVE  SumFunctionOnSet(f, 1 .. 2) = f[1] + f[2]
<1> DEFINE S == {1}
           T == 1 .. 2
<1>1. S = {} \cup {1} /\ T = S \cup {2} /\ 2 \notin S /\ 1 \notin {} /\ S \ {1} = {}
    OBVIOUS
<1>2. IsFiniteSet(S)
    BY FS_Singleton
<1>3. 1 \in S /\ \A k \in S : f[k] \in Int
    OBVIOUS
<1> HIDE DEF S, T
<1>4. SumFunctionOnSet(f, S) = f[1] + SumFunctionOnSet(f, S \ {1})
    BY <1>2, <1>3, SumRemove
<1>5. SumFunctionOnSet(f, S \cup {2}) = SumFunctionOnSet(f, S) + f[2]
    BY <1>1, <1>2, <1>3, SumAdd
<1>6. SumFunctionOnSet(f, S) = f[1]
    <2>1. SumFunctionOnSet(f, S \ {1}) = 0
        BY <1>1, SumEmpty
    <2> QED BY <1>4, <2>1
<1>7. SumFunctionOnSet(f, T) = f[1] + f[2]
    BY <1>1, <1>5, <1>6
<1> QED
    BY <1>7 DEF T
----------------------------------------------------------------------------
\* Elements counted by how many come before them: B[x] is the set of those,
\* in a total order.  No two have the same number, and the numbers are all
\* there are.
LEMMA RankFacts ==
    ASSUME NEW S, IsFiniteSet(S), NEW B,
           \A x \in S : B[x] \in SUBSET S /\ x \notin B[x],
           \A x, y \in S : x # y => x \in B[y] \/ y \in B[x],
           \A x, y \in S : x \in B[y] => B[x] \subseteq B[y]
    PROVE  /\ Cardinality(S) \in Nat
           /\ \A x \in S : Cardinality(B[x]) \in 0 .. Cardinality(S) - 1
           /\ \A x, y \in S : Cardinality(B[x]) < Cardinality(B[y]) <=> x \in B[y]
           /\ \A x, y \in S : Cardinality(B[x]) = Cardinality(B[y]) => x = y
           /\ \A n \in 0 .. Cardinality(S) - 1 : \E x \in S : Cardinality(B[x]) = n
<1> DEFINE n == Cardinality(S)
           C(x) == Cardinality(B[x])
<1>1. n \in Nat
    BY FS_CardinalityType
<1>2. ASSUME NEW x \in S PROVE IsFiniteSet(B[x]) /\ C(x) \in Nat /\ C(x) <= n - 1
    <2>1. IsFiniteSet(S \ {x}) /\ Cardinality(S \ {x}) = n - 1
        BY FS_RemoveElement
    <2>2. B[x] \in SUBSET (S \ {x})
        OBVIOUS
    <2>3. IsFiniteSet(B[x]) /\ C(x) <= n - 1
        BY <2>1, <2>2, FS_Subset
    <2> QED
        BY <2>3, FS_CardinalityType
<1>3. ASSUME NEW x \in S, NEW y \in S, x \in B[y] PROVE C(x) < C(y)
    <2>1. B[x] \in SUBSET B[y] /\ B[x] # B[y]
        BY <1>3
    <2>2. C(x) <= C(y) /\ C(y) # C(x)
        BY <2>1, <1>2, FS_Subset
    <2>3. C(x) \in Nat /\ C(y) \in Nat
        BY <1>2
    <2> HIDE DEF C
    <2> QED
        BY <2>2, <2>3
<1>4. \A x, y \in S : C(x) < C(y) <=> x \in B[y]
    <2> SUFFICES ASSUME NEW x \in S, NEW y \in S, C(x) < C(y) PROVE x \in B[y]
        BY <1>3
    <2>1. C(x) \in Nat /\ C(y) \in Nat
        BY <1>2
    <2>2. CASE x = y
        BY <2>1, <2>2
    <2>3. CASE y \in B[x]
        <3>1. C(y) < C(x)
            BY <2>3, <1>3
        <3> HIDE DEF C
        <3> QED
            BY <3>1, <2>1
    <2> QED
        BY <2>2, <2>3
<1>5. \A x, y \in S : C(x) = C(y) => x = y
    <2> SUFFICES ASSUME NEW x \in S, NEW y \in S, C(x) = C(y), x # y PROVE FALSE
        OBVIOUS
    <2>1. C(x) \in Nat /\ C(y) \in Nat
        BY <1>2
    <2>2. C(x) < C(y) \/ C(y) < C(x)
        BY <1>3
    <2> HIDE DEF C
    <2> QED
        BY <2>1, <2>2
<1>6. \A k \in 0 .. n - 1 : \E x \in S : C(x) = k
    <2> DEFINE f == [x \in S |-> C(x)]
               T == 0 .. n - 1
    <2>1. IsFiniteSet(T) /\ Cardinality(T) = n
        BY <1>1, FS_Interval
    <2>2. f \in [S -> T]
        BY <1>1, <1>2
    <2>3. f \in Injection(S, T)
        BY <2>2, <1>5 DEF Injection, IsInjective
    <2> HIDE DEF f, T
    <2>4. f \in Surjection(S, T)
        BY <2>1, <2>3, FS_Injection
    <2>5. \A k \in T : \E x \in S : f[x] = k
        BY <2>4 DEF Surjection
    <2> QED
        BY <2>5 DEF f, T
<1>7. \A x \in S : C(x) \in 0 .. n - 1
    BY <1>1, <1>2
<1> QED
    BY <1>1, <1>4, <1>5, <1>6, <1>7

\* What is defined from one number to the next exists: f is the first n steps
\* from start, of step[<<i, x>>] the i-th.
RunsTo(f, start, step, n) ==
    f = [i \in 0 .. n |-> IF i = 0 THEN start ELSE step[<<i, f[i - 1]>>]]

LEMMA RunExists ==
    ASSUME NEW X, NEW start \in X, NEW N \in Nat, NEW step \in [(1 .. N) \X X -> X]
    PROVE  \E f \in [0 .. N -> X] : RunsTo(f, start, step, N)
<1> DEFINE P == {n \in Nat : n <= N => \E f \in [0 .. n -> X] : RunsTo(f, start, step, n)}
<1>1. 0 \in P
    <2> DEFINE f == [i \in 0 .. 0 |-> start]
    <2>1. f \in [0 .. 0 -> X] /\ f = [i \in 0 .. 0 |-> IF i = 0 THEN start ELSE step[<<i, f[i - 1]>>]]
        OBVIOUS
    <2> HIDE DEF f
    <2> QED
        BY <2>1 DEF RunsTo
<1>2. ASSUME NEW n \in Nat, n \in P PROVE n + 1 \in P
    <2> SUFFICES ASSUME n + 1 <= N
                 PROVE  \E f \in [0 .. n + 1 -> X] : RunsTo(f, start, step, n + 1)
        OBVIOUS
    <2>1. PICK g \in [0 .. n -> X] : RunsTo(g, start, step, n)
        BY <1>2
    <2> DEFINE x == step[<<n + 1, g[n]>>]
               f == [i \in 0 .. n + 1 |-> IF i = n + 1 THEN x ELSE g[i]]
    <2>2. x \in X
        <3>1. <<n + 1, g[n]>> \in (1 .. N) \X X
            OBVIOUS
        <3> QED
            BY <3>1
    <2>3. f \in [0 .. n + 1 -> X]
        BY <2>2
    <2>4. \A i \in 0 .. n : g[i] = IF i = 0 THEN start ELSE step[<<i, g[i - 1]>>]
        BY <2>1 DEF RunsTo
    <2>5. ASSUME NEW i \in 0 .. n + 1
          PROVE  f[i] = IF i = 0 THEN start ELSE step[<<i, f[i - 1]>>]
        <3>1. CASE i = n + 1
            <4>1. i # 0 /\ i - 1 = n /\ i - 1 \in 0 .. n + 1 /\ i - 1 # n + 1
                BY <3>1
            <4>2. f[i - 1] = g[n] /\ f[i] = x
                BY <3>1, <4>1
            <4> QED
                BY <3>1, <4>1, <4>2
        <3>2. CASE i # n + 1
            <4>1. i \in 0 .. n /\ f[i] = g[i]
                BY <3>2
            <4>2. i # 0 => i - 1 \in 0 .. n + 1 /\ i - 1 # n + 1
                BY <3>2
            <4>3. i # 0 => f[i - 1] = g[i - 1]
                BY <4>2
            <4> QED
                BY <4>1, <4>3, <2>4
        <3> QED
            BY <3>1, <3>2
    <2> HIDE DEF f
    <2>6. f = [i \in 0 .. n + 1 |-> IF i = 0 THEN start ELSE step[<<i, f[i - 1]>>]]
        BY <2>3, <2>5
    <2> QED
        BY <2>3, <2>6 DEF RunsTo
<1> HIDE DEF P
<1>3. \A n \in Nat : n \in P
    BY <1>1, <1>2, SetInduction
<1> QED
    BY <1>3 DEF P
----------------------------------------------------------------------------
\* The sum of a function that is 0 everywhere but at y
LEMMA SumOne ==
    ASSUME NEW f, NEW S, IsFiniteSet(S), NEW y \in S, f[y] \in Int,
           \A x \in S : x # y => f[x] = 0
    PROVE  SumFunctionOnSet(f, S) = f[y]
<1>1. \A x \in S : f[x] \in Int
    OBVIOUS
<1>2. SumFunctionOnSet(f, S) = f[y] + SumFunctionOnSet(f, S \ {y})
    BY <1>1, SumRemove
<1>3. IsFiniteSet(S \ {y}) /\ \A x \in S \ {y} : f[x] = 0
    BY FS_Subset
<1>4. SumFunctionOnSet(f, S \ {y}) = 0
    BY <1>3, SumZero
<1> QED
    BY <1>2, <1>4
----------------------------------------------------------------------------
\* A loop that goes from p to next[p] until it is in Stop, and then gives
\* result[p], has a function, whether or not it always ends.
Loops(f, P, Stop, result, next) ==
    f = [p \in P |-> IF p \in Stop THEN result[p] ELSE f[next[p]]]

\* From p the loop gets to r in n rounds.
LeadsIn(P, Stop, result, next, p, r, n) ==
    \E path \in [0 .. n -> P] :
        /\ path[0] = p
        /\ \A i \in 0 .. n - 1 : path[i] \notin Stop /\ path[i + 1] = next[path[i]]
        /\ path[n] \in Stop /\ r = result[path[n]]
Leads(P, Stop, result, next, p, r) == \E n \in Nat : LeadsIn(P, Stop, result, next, p, r, n)

LEMMA LoopFunction ==
    ASSUME NEW P, NEW Stop, NEW result, NEW next, \A p \in P \ Stop : next[p] \in P
    PROVE  \E f : Loops(f, P, Stop, result, next)
<1> DEFINE L(p, r) == Leads(P, Stop, result, next, p, r)
           f == [p \in P |-> CHOOSE r : L(p, r)]
<1>1. ASSUME NEW p \in P, p \in Stop PROVE f[p] = result[p]
    <2>1. L(p, result[p])
        <3> DEFINE path == [i \in 0 .. 0 |-> p]
        <3>1. /\ path \in [0 .. 0 -> P] /\ path[0] = p /\ path[0] \in Stop
              /\ \A i \in 0 .. 0 - 1 : path[i] \notin Stop /\ path[i + 1] = next[path[i]]
            BY <1>1
        <3> HIDE DEF path
        <3>2. LeadsIn(P, Stop, result, next, p, result[p], 0)
            BY <3>1, Zenon DEF LeadsIn
        <3> QED
            BY <3>2, Zenon DEF Leads
    <2>2. ASSUME NEW r, L(p, r) PROVE r = result[p]
        <3>1. PICK n \in Nat : LeadsIn(P, Stop, result, next, p, r, n)
            BY <2>2, Zenon DEF Leads
        <3>2. PICK path \in [0 .. n -> P] :
                /\ path[0] = p
                /\ \A i \in 0 .. n - 1 : path[i] \notin Stop /\ path[i + 1] = next[path[i]]
                /\ path[n] \in Stop /\ r = result[path[n]]
            BY <3>1, Zenon DEF LeadsIn
        <3>3. n = 0
            <4>1. n # 0 => 0 \in 0 .. n - 1
                BY <3>1
            <4> QED
                BY <4>1, <3>2, <1>1
        <3> QED
            BY <3>2, <3>3
    <2> HIDE DEF L
    <2> QED
        BY <2>1, <2>2, Zenon
<1>2. ASSUME NEW p \in P, p \notin Stop, NEW r PROVE L(p, r) <=> L(next[p], r)
    <2>1. ASSUME L(p, r) PROVE L(next[p], r)
        <3>1. PICK n \in Nat : LeadsIn(P, Stop, result, next, p, r, n)
            BY <2>1, Zenon DEF Leads
        <3>2. PICK path \in [0 .. n -> P] :
                /\ path[0] = p
                /\ \A i \in 0 .. n - 1 : path[i] \notin Stop /\ path[i + 1] = next[path[i]]
                /\ path[n] \in Stop /\ r = result[path[n]]
            BY <3>1, Zenon DEF LeadsIn
        <3>3. n # 0
            BY <3>2, <1>2
        <3> DEFINE m == n - 1
                   rest == [i \in 0 .. m |-> path[i + 1]]
        <3>4. m \in Nat /\ m + 1 = n /\ \A i \in 0 .. m : i + 1 \in 0 .. n
            BY <3>1, <3>3
        <3>5. rest \in [0 .. m -> P]
            BY <3>2, <3>4
        <3>6. rest[0] = next[p]
            <4>1. 0 \in 0 .. n - 1 /\ 0 \in 0 .. m
                BY <3>1, <3>3, <3>4
            <4>2. rest[0] = path[0 + 1]
                BY <4>1
            <4> QED
                BY <4>1, <4>2, <3>2
        <3>7. ASSUME NEW i \in 0 .. m - 1 PROVE rest[i] \notin Stop /\ rest[i + 1] = next[rest[i]]
            <4>1. i + 1 \in 0 .. n - 1 /\ i \in 0 .. m /\ i + 1 \in 0 .. m
                BY <3>4
            <4>2. rest[i] = path[i + 1] /\ rest[i + 1] = path[(i + 1) + 1]
                BY <4>1
            <4> HIDE DEF rest
            <4> QED
                BY <4>1, <4>2, <3>2
        <3>8. rest[m] = path[n]
            BY <3>4
        <3> HIDE DEF rest, m
        <3>9. LeadsIn(P, Stop, result, next, next[p], r, m)
            BY <3>2, <3>5, <3>6, <3>7, <3>8 DEF LeadsIn
        <3> QED
            BY <3>4, <3>9, Zenon DEF Leads
    <2>2. ASSUME L(next[p], r) PROVE L(p, r)
        <3>1. PICK n \in Nat : LeadsIn(P, Stop, result, next, next[p], r, n)
            BY <2>2, Zenon DEF Leads
        <3>2. PICK path \in [0 .. n -> P] :
                /\ path[0] = next[p]
                /\ \A i \in 0 .. n - 1 : path[i] \notin Stop /\ path[i + 1] = next[path[i]]
                /\ path[n] \in Stop /\ r = result[path[n]]
            BY <3>1, Zenon DEF LeadsIn
        <3> DEFINE m == n + 1
                   more == [i \in 0 .. m |-> IF i = 0 THEN p ELSE path[i - 1]]
        <3>3. m \in Nat /\ m # 0 /\ \A i \in 0 .. m : i # 0 => i - 1 \in 0 .. n
            BY <3>1
        <3>4. more \in [0 .. m -> P] /\ more[0] = p
            BY <3>2, <3>3
        <3>5. \A i \in 0 .. m : i # 0 => more[i] = path[i - 1]
            OBVIOUS
        <3>6. more[m] = path[n]
            BY <3>3, <3>5
        <3> HIDE DEF more
        <3>7. ASSUME NEW i \in 0 .. m - 1 PROVE more[i] \notin Stop /\ more[i + 1] = next[more[i]]
            <4>1. i \in 0 .. m /\ i + 1 \in 0 .. m /\ i + 1 # 0 /\ (i + 1) - 1 = i
                BY <3>1
            <4>2. more[i + 1] = path[i]
                BY <4>1, <3>5
            <4>3. CASE i = 0
                BY <4>2, <4>3, <3>2, <3>4, <1>2
            <4>4. CASE i # 0
                <5>1. i - 1 \in 0 .. n - 1 /\ (i - 1) + 1 = i
                    BY <4>4, <3>1
                <5> QED
                    BY <5>1, <4>1, <4>2, <4>4, <3>2, <3>5
            <4> QED
                BY <4>3, <4>4
        <3> HIDE DEF m
        <3>8. LeadsIn(P, Stop, result, next, p, r, m)
            BY <3>2, <3>4, <3>6, <3>7 DEF LeadsIn
        <3> QED
            BY <3>3, <3>8, Zenon DEF Leads
    <2> QED
        BY <2>1, <2>2
<1>3. ASSUME NEW p \in P, p \notin Stop PROVE f[p] = f[next[p]]
    <2>1. next[p] \in P
        BY <1>3
    <2>2. \A r : L(p, r) <=> L(next[p], r)
        BY <1>2, <1>3
    <2> HIDE DEF L
    <2>3. (CHOOSE r : L(p, r)) = (CHOOSE r : L(next[p], r))
        BY <2>2, Zenon
    <2> DEFINE c(q) == CHOOSE r : L(q, r)
    <2>4. c(p) = c(next[p])
        BY <2>3
    <2>5. \A q \in P : f[q] = c(q)
        OBVIOUS
    <2> HIDE DEF c, f
    <2> QED
        BY <2>1, <2>4, <2>5
<1>4. f = [p \in P |-> IF p \in Stop THEN result[p] ELSE f[next[p]]]
    <2>1. \A p \in P : f[p] = IF p \in Stop THEN result[p] ELSE f[next[p]]
        BY <1>1, <1>3
    <2> DEFINE g == [p \in P |-> IF p \in Stop THEN result[p] ELSE f[next[p]]]
    <2>2. \A p \in P : g[p] = f[p]
        <3> HIDE DEF f
        <3> QED
            BY <2>1
    <2>3. f = [p \in P |-> f[p]] /\ g = [p \in P |-> g[p]]
        <3>1. g = [p \in P |-> g[p]]
            <4> HIDE DEF f
            <4> QED
                OBVIOUS
        <3>2. f = [p \in P |-> f[p]]
            <4> DEFINE c(p) == CHOOSE r : L(p, r)
            <4>1. f = [p \in P |-> c(p)]
                OBVIOUS
            <4> HIDE DEF c, f
            <4> QED
                BY <4>1
        <3> QED
            BY <3>1, <3>2
    <2> HIDE DEF f, g
    <2>4. f = g
        BY <2>2, <2>3
    <2> QED
        BY <2>4 DEF g
<1> HIDE DEF f
<1> QED
    BY <1>4, Zenon DEF Loops
=============================================================================
