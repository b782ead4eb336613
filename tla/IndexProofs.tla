----------------------------- MODULE IndexProofs -----------------------------
(***************************************************************************)
(* Theorems about the two indexes: the radix trie, for any alphabet, words *)
(* and values, and the B+ tree, for any keys and any order of at least     *)
(* two.  Both rest on labels the invariant gives the nodes, which say what *)
(* a node stands for.                                                      *)
(***************************************************************************)
EXTENDS RadixTrie, BPlusTree, BinPacking, Sums, SequenceTheorems, TLAPS

----------------------------------------------------------------------------
(* Sequences: what is put into one, and how often something is in it       *)

\* A set of numbers has a smallest one.
LEMMA SmallestNumber ==
    ASSUME NEW T \in SUBSET Nat, T # {}
    PROVE  \E x \in T : \A y \in T : x <= y
<1>1. PICK x \in T : \A y \in T : ~(<<y, x>> \in OpToRel(<, Nat))
    BY NatLessThanWellFounded, WFMin, Zenon
<1>2. ASSUME NEW y \in T PROVE x <= y
    <2>1. x \in Nat /\ y \in Nat
        OBVIOUS
    <2>2. y < x => <<y, x>> \in OpToRel(<, Nat)
        BY <2>1 DEF OpToRel
    <2>3. ~(y < x)
        BY <1>1, <2>2, Zenon
    <2> QED
        BY <2>1, <2>3
<1> QED
    BY <1>2

\* A bounded set of numbers has a largest one.
LEMMA LargestNumber ==
    ASSUME NEW n \in Nat, NEW T \in SUBSET (0 .. n), T # {}
    PROVE  \E x \in T : \A y \in T : y <= x
<1> DEFINE U == {n - x : x \in T}
<1>1. U \in SUBSET Nat /\ U # {}
    <2>1. \A x \in T : n - x \in Nat
        OBVIOUS
    <2> QED
        BY <2>1
<1>2. PICK u \in U : \A v \in U : u <= v
    BY <1>1, SmallestNumber
<1>3. PICK x \in T : u = n - x
    BY <1>2
<1>4. ASSUME NEW y \in T PROVE y <= x
    <2>1. n - y \in U /\ x \in 0 .. n /\ y \in 0 .. n
        OBVIOUS
    <2>2. n - x <= n - y
        BY <2>1, <1>2, <1>3
    <2> QED
        BY <2>1, <2>2
<1> QED
    BY <1>4

\* r is s with e put in after the first n.
Put(s, n, e, r) ==
    /\ Len(r) = Len(s) + 1
    /\ \A k \in 1 .. n : r[k] = s[k]
    /\ r[n + 1] = e
    /\ \A k \in n + 2 .. Len(s) + 1 : r[k] = s[k - 1]

LEMMA PutFacts ==
    ASSUME NEW S, NEW s \in Seq(S), NEW e \in S, NEW n \in 0 .. Len(s)
    PROVE  InsertAt(s, n + 1, e) \in Seq(S) /\ Put(s, n, e, InsertAt(s, n + 1, e))
<1> DEFINE L == Len(s)
           front == SubSeq(s, 1, n)
           back == SubSeq(s, n + 1, L)
           m == <<e>>
<1>1. L \in Nat /\ n \in Nat /\ n <= L /\ \A i \in 1 .. L : s[i] \in S
    BY LenProperties, ElementOfSeq
<1>2. /\ front \in Seq(S) /\ Len(front) = n
      /\ \A i \in 1 .. n : front[i] = s[i]
    <2>1. \A i \in 1 .. n : s[i] \in S
        BY <1>1
    <2>2. /\ front \in Seq(S) /\ Len(front) = IF 1 <= n THEN n - 1 + 1 ELSE 0
          /\ \A i \in 1 .. n - 1 + 1 : front[i] = s[1 + i - 1]
        BY <2>1, <1>1, SubSeqProperties
    <2> HIDE DEF front
    <2> QED
        BY <2>2, <1>1
<1>3. /\ back \in Seq(S) /\ Len(back) = L - n
      /\ \A i \in 1 .. L - n : back[i] = s[n + i]
    <2>1. \A i \in n + 1 .. L : s[i] \in S
        BY <1>1
    <2>2. n + 1 \in Int /\ L \in Int
        BY <1>1
    <2> HIDE DEF L
    <2>3. /\ back \in Seq(S) /\ Len(back) = IF n + 1 <= L THEN L - (n + 1) + 1 ELSE 0
          /\ \A i \in 1 .. L - (n + 1) + 1 : back[i] = s[(n + 1) + i - 1]
        BY <2>1, <2>2, SubSeqProperties
    <2> HIDE DEF back
    <2> QED
        BY <2>3, <1>1
<1>4. m \in Seq(S) /\ Len(m) = 1 /\ m[1] = e
    OBVIOUS
<1> HIDE DEF front, back, L, m
<1>5. /\ front \o m \in Seq(S) /\ Len(front \o m) = n + 1
      /\ \A i \in 1 .. n + 1 : (front \o m)[i] = IF i <= n THEN front[i] ELSE m[i - n]
    <2>1. /\ front \o m \in Seq(S)
          /\ Len(front \o m) = Len(front) + Len(m)
          /\ \A i \in 1 .. Len(front) + Len(m) :
                (front \o m)[i] = IF i <= Len(front) THEN front[i] ELSE m[i - Len(front)]
        BY <1>2, <1>4, ConcatProperties, Zenon
    <2> QED
        BY <2>1, <1>2, <1>4
<1> DEFINE fm == front \o m
<1>6. fm \in Seq(S) /\ Len(fm) = n + 1 /\ fm[n + 1] = e /\ \A i \in 1 .. n : fm[i] = s[i]
    <2>1. n + 1 \in 1 .. n + 1 /\ ~(n + 1 <= n) /\ (n + 1) - n = 1
        BY <1>1
    <2>2. \A i \in 1 .. n : i \in 1 .. n + 1 /\ i <= n
        BY <1>1
    <2>3. fm[n + 1] = m[1]
        BY <2>1, <1>5
    <2>4. \A i \in 1 .. n : fm[i] = front[i]
        BY <2>2, <1>5
    <2> QED
        BY <2>3, <2>4, <1>2, <1>4, <1>5
<1> HIDE DEF fm
<1> DEFINE r == fm \o back
<1>7. /\ r \in Seq(S) /\ Len(r) = Len(fm) + Len(back)
      /\ \A i \in 1 .. Len(fm) + Len(back) :
            r[i] = IF i <= Len(fm) THEN fm[i] ELSE back[i - Len(fm)]
    BY <1>3, <1>6, ConcatProperties
<1> HIDE DEF r
<1>8. Len(r) = L + 1
    BY <1>1, <1>3, <1>6, <1>7
<1>9. \A i \in 1 .. n + 1 : r[i] = fm[i]
    BY <1>1, <1>3, <1>6, <1>7
<1>10. \A k \in n + 2 .. L + 1 : r[k] = s[k - 1]
    <2> SUFFICES ASSUME NEW k \in n + 2 .. L + 1 PROVE r[k] = s[k - 1]
        OBVIOUS
    <2>1. r[k] = back[k - (n + 1)]
        BY <1>1, <1>3, <1>6, <1>7
    <2>2. k - (n + 1) \in 1 .. L - n /\ n + (k - (n + 1)) = k - 1
        BY <1>1
    <2> QED
        BY <2>1, <2>2, <1>3
<1>11. r[n + 1] = e /\ \A k \in 1 .. n : r[k] = s[k]
    <2>1. n + 1 \in 1 .. n + 1 /\ \A k \in 1 .. n : k \in 1 .. n + 1
        BY <1>1
    <2> QED
        BY <2>1, <1>6, <1>9
<1> QED
    <2>1. InsertAt(s, n + 1, e) = r
        <3>1. (n + 1) - 1 = n
            BY <1>1
        <3> QED
            BY <3>1 DEF InsertAt, r, fm, front, back, m, L
    <2>2. r \in Seq(S) /\ Put(s, n, e, r)
        BY <1>7, <1>8, <1>10, <1>11 DEF Put, L
    <2> QED
        BY <2>1, <2>2, Zenon

\* Where x is found in a sequence
At(items, x) == {i \in DOMAIN items : items[i] = x}

LEMMA AtFacts ==
    ASSUME NEW S, NEW items \in Seq(S), NEW x
    PROVE  IsFiniteSet(At(items, x)) /\ Copies(items, x) = Cardinality(At(items, x))
           /\ Copies(items, x) \in Nat
<1>1. Len(items) \in Nat /\ DOMAIN items = 1 .. Len(items)
    BY LenProperties
<1>2. IsFiniteSet(1 .. Len(items)) /\ At(items, x) \in SUBSET (1 .. Len(items))
    BY <1>1, FS_Interval DEF At
<1>3. IsFiniteSet(At(items, x))
    BY <1>2, FS_Subset
<1>4. Copies(items, x) = Cardinality(At(items, x))
    BY Zenon DEF Copies, At
<1> QED
    BY <1>3, <1>4, FS_CardinalityType

LEMMA CopiesNone ==
    ASSUME NEW x PROVE Copies(<<>>, x) = 0
<1>1. At(<<>>, x) = {}
    BY DEF At
<1>2. Copies(<<>>, x) = Cardinality(At(<<>>, x))
    BY Zenon DEF Copies, At
<1> QED
    BY <1>1, <1>2, FS_EmptySet

\* One more at the end
LEMMA CopiesAppend ==
    ASSUME NEW S, NEW items \in Seq(S), NEW y \in S, NEW x
    PROVE  Copies(Append(items, y), x) = Copies(items, x) + (IF y = x THEN 1 ELSE 0)
<1> DEFINE longer == Append(items, y)
           n == Len(items)
<1>1. n \in Nat /\ DOMAIN items = 1 .. n
    BY LenProperties
<1>2. /\ longer \in Seq(S) /\ Len(longer) = n + 1 /\ longer[n + 1] = y
      /\ \A i \in 1 .. n : longer[i] = items[i]
    BY AppendProperties
<1> HIDE DEF longer
<1>3. DOMAIN longer = 1 .. n + 1
    BY <1>1, <1>2, LenProperties
<1>4. /\ IsFiniteSet(At(items, x)) /\ n + 1 \notin At(items, x)
      /\ Copies(items, x) = Cardinality(At(items, x)) /\ Copies(items, x) \in Nat
      /\ Copies(longer, x) = Cardinality(At(longer, x))
    <2>1. n + 1 \notin At(items, x)
        BY <1>1 DEF At
    <2> QED
        BY <2>1, <1>2, AtFacts
<1>5. At(longer, x) = IF y = x THEN At(items, x) \cup {n + 1} ELSE At(items, x)
    BY <1>1, <1>2, <1>3 DEF At
<1>6. Cardinality(At(items, x) \cup {n + 1}) = Cardinality(At(items, x)) + 1
    BY <1>4, FS_AddElement
<1>7. Copies(longer, x) = Copies(items, x) + (IF y = x THEN 1 ELSE 0)
    BY <1>4, <1>5, <1>6
<1> QED
    BY <1>7 DEF longer

\* t has what s has in another order: its i-th element is the r[i]-th of s.
Moves(r, s, t) ==
    /\ Len(t) = Len(s)
    /\ \A i \in 1 .. Len(s) : r[i] \in 1 .. Len(s) /\ t[i] = s[r[i]]
    /\ \A i, k \in 1 .. Len(s) : r[i] = r[k] => i = k
    /\ \A i \in 1 .. Len(s) : \E k \in 1 .. Len(s) : r[k] = i

LEMMA CopiesMoved ==
    ASSUME NEW S, NEW s \in Seq(S), NEW t \in Seq(S), NEW r, Moves(r, s, t), NEW x
    PROVE  Copies(t, x) = Copies(s, x)
<1>1. /\ Len(s) \in Nat /\ DOMAIN s = 1 .. Len(s) /\ DOMAIN t = 1 .. Len(s)
    BY LenProperties DEF Moves
<1>2. /\ IsFiniteSet(At(s, x)) /\ IsFiniteSet(At(t, x))
      /\ Copies(s, x) = Cardinality(At(s, x)) /\ Copies(t, x) = Cardinality(At(t, x))
    BY AtFacts
<1> DEFINE I == 1 .. Len(s)
           f == [i \in At(t, x) |-> r[i]]
<1>3. /\ \A i \in I : r[i] \in I /\ t[i] = s[r[i]]
      /\ \A i, k \in I : r[i] = r[k] => i = k
      /\ \A i \in I : \E k \in I : r[k] = i
      /\ DOMAIN s = I /\ DOMAIN t = I
    BY <1>1 DEF Moves
<1> HIDE DEF I
<1>4. f \in Injection(At(t, x), At(s, x))
    <2>1. \A i \in At(t, x) : i \in I /\ r[i] \in At(s, x)
        BY <1>3 DEF At
    <2> QED
        BY <2>1, <1>3 DEF Injection, IsInjective
<1>5. f \in Surjection(At(t, x), At(s, x))
    <2>1. ASSUME NEW i \in At(s, x) PROVE \E k \in At(t, x) : f[k] = i
        <3>1. PICK k \in I : r[k] = i
            BY <1>3 DEF At
        <3>2. k \in At(t, x)
            BY <3>1, <1>3 DEF At
        <3> QED
            BY <3>1, <3>2
    <2> QED
        BY <2>1, <1>4 DEF Surjection, Injection
<1>6. ExistsBijection(At(t, x), At(s, x))
    BY <1>4, <1>5, Zenon DEF ExistsBijection, Bijection
<1> QED
    BY <1>2, <1>6, FS_Bijection, Zenon

----------------------------------------------------------------------------
(* The trie: any alphabet, any words, any values.                          *)

\* One string begins another.
Begins(s, t) == Len(s) <= Len(t) /\ \A i \in 1 .. Len(s) : s[i] = t[i]

\* A string begins itself.
LEMMA BeginsSelf ==
    ASSUME NEW S, NEW s \in Seq(S) PROVE Begins(s, s)
    BY LenProperties DEF Begins

\* Strings that begin one another are equal.
LEMMA BeginsEqual ==
    ASSUME NEW S, NEW s \in Seq(S), NEW t \in Seq(S), Begins(s, t), Len(t) <= Len(s)
    PROVE  s = t
<1>1. Len(s) \in Nat /\ Len(t) \in Nat
    BY LenProperties
<1>2. Len(s) = Len(t) /\ \A i \in 1 .. Len(s) : s[i] = t[i]
    BY <1>1 DEF Begins
<1> QED
    BY <1>2, SeqEqual

LEMMA BeginsTransitive ==
    ASSUME NEW S, NEW s \in Seq(S), NEW t \in Seq(S), NEW u \in Seq(S), Begins(s, t), Begins(t, u)
    PROVE  Begins(s, u)
<1>1. Len(s) \in Nat /\ Len(t) \in Nat /\ Len(u) \in Nat
    BY LenProperties
<1> QED
    BY <1>1 DEF Begins

\* Of two strings that begin a third, the shorter begins the longer.
LEMMA BeginsBoth ==
    ASSUME NEW S, NEW s \in Seq(S), NEW t \in Seq(S), NEW u \in Seq(S), Begins(s, u), Begins(t, u),
           Len(s) <= Len(t)
    PROVE  Begins(s, t)
<1>1. Len(s) \in Nat /\ Len(t) \in Nat /\ Len(u) \in Nat
    BY LenProperties
<1> QED
    BY <1>1 DEF Begins

LEMMA BeginsIsPrefix ==
    ASSUME NEW S, NEW s \in Seq(S), NEW t \in Seq(S)
    PROVE  IsPrefix(s, t) <=> Begins(s, t)
<1>1. Len(s) \in Nat /\ Len(t) \in Nat
    BY LenProperties
<1>2. ASSUME Len(s) <= Len(t)
      PROVE  SubSeq(s, 1, Len(s)) = SubSeq(t, 1, Len(s)) <=> \A i \in 1 .. Len(s) : s[i] = t[i]
    <2> DEFINE a == SubSeq(s, 1, Len(s))
               b == SubSeq(t, 1, Len(s))
               n == Len(s)
    <2>1. (\A i \in 1 .. n : s[i] \in S) /\ (\A i \in 1 .. n : t[i] \in S)
        BY <1>1, <1>2, ElementOfSeq
    <2>2. a \in Seq(S) /\ Len(a) = n /\ \A i \in 1 .. n : a[i] = s[i]
        BY <1>1, <2>1, SubSeqProperties
    <2>3. b \in Seq(S) /\ Len(b) = n /\ \A i \in 1 .. n : b[i] = t[i]
        BY <1>1, <2>1, SubSeqProperties
    <2> HIDE DEF a, b, n
    <2>4. a = b <=> \A i \in 1 .. n : a[i] = b[i]
        BY <2>2, <2>3, SeqEqual
    <2>5. a = b <=> \A i \in 1 .. n : s[i] = t[i]
        BY <2>2, <2>3, <2>4
    <2> QED
        BY <2>5 DEF a, b, n
<1> QED
    BY <1>1, <1>2 DEF IsPrefix, Begins

\* What is put behind a string
LEMMA BehindFacts ==
    ASSUME NEW S, NEW s \in Seq(S), NEW u \in Seq(S)
    PROVE  /\ s \o u \in Seq(S) /\ Len(s \o u) = Len(s) + Len(u)
           /\ Begins(s, s \o u)
           /\ u # <<>> => Len(s) < Len(s \o u) /\ (s \o u)[Len(s) + 1] = u[1]
<1>1. Len(s) \in Nat /\ Len(u) \in Nat
    BY LenProperties
<1>2. /\ s \o u \in Seq(S) /\ Len(s \o u) = Len(s) + Len(u)
      /\ \A i \in 1 .. Len(s) + Len(u) : (s \o u)[i] = IF i <= Len(s) THEN s[i] ELSE u[i - Len(s)]
    BY ConcatProperties
<1> DEFINE su == s \o u
<1> HIDE DEF su
<1>3. u # <<>> => Len(u) > 0
    BY <1>1, EmptySeq
<1>4. Begins(s, su)
    BY <1>1, <1>2 DEF Begins, su
<1>5. ASSUME u # <<>> PROVE Len(s) < Len(su) /\ su[Len(s) + 1] = u[1]
    <2>1. Len(s) + 1 \in 1 .. Len(s) + Len(u) /\ ~(Len(s) + 1 <= Len(s)) /\ (Len(s) + 1) - Len(s) = 1
        BY <1>1, <1>3, <1>5
    <2> QED
        BY <2>1, <1>2, <1>1, <1>3, <1>5 DEF su
<1> QED
    BY <1>2, <1>4, <1>5 DEF su

LEMMA BehindBegins ==
    ASSUME NEW S, NEW s \in Seq(S), NEW u \in Seq(S), NEW v \in Seq(S)
    PROVE  Begins(s \o u, s \o v) <=> Begins(u, v)
<1> DEFINE su == s \o u
           sv == s \o v
<1>1. Len(s) \in Nat /\ Len(u) \in Nat /\ Len(v) \in Nat
    BY LenProperties
<1>2. /\ Len(su) = Len(s) + Len(u)
      /\ \A i \in 1 .. Len(s) + Len(u) : su[i] = IF i <= Len(s) THEN s[i] ELSE u[i - Len(s)]
    BY ConcatProperties
<1>3. /\ Len(sv) = Len(s) + Len(v)
      /\ \A i \in 1 .. Len(s) + Len(v) : sv[i] = IF i <= Len(s) THEN s[i] ELSE v[i - Len(s)]
    BY ConcatProperties
<1> HIDE DEF su, sv
<1>4. ASSUME Begins(su, sv) PROVE Begins(u, v)
    <2>1. Len(u) <= Len(v)
        BY <1>1, <1>2, <1>3, <1>4 DEF Begins
    <2>2. ASSUME NEW i \in 1 .. Len(u) PROVE u[i] = v[i]
        <3> DEFINE k == Len(s) + i
        <3>1. /\ k \in 1 .. Len(s) + Len(u) /\ k \in 1 .. Len(s) + Len(v)
              /\ ~(k <= Len(s)) /\ k - Len(s) = i
            BY <1>1, <2>1
        <3> HIDE DEF k
        <3>2. su[k] = u[i] /\ sv[k] = v[i]
            BY <3>1, <1>2, <1>3
        <3>3. su[k] = sv[k]
            BY <3>1, <1>2, <1>4 DEF Begins
        <3> QED
            BY <3>2, <3>3
    <2> QED
        BY <2>1, <2>2 DEF Begins
<1>5. ASSUME Begins(u, v) PROVE Begins(su, sv)
    <2>1. Len(u) <= Len(v) /\ Len(su) <= Len(sv)
        BY <1>1, <1>2, <1>3, <1>5 DEF Begins
    <2>2. ASSUME NEW k \in 1 .. Len(su) PROVE su[k] = sv[k]
        <3>1. k \in 1 .. Len(s) + Len(u) /\ k \in 1 .. Len(s) + Len(v)
            BY <1>1, <1>2, <2>1
        <3>2. CASE k <= Len(s)
            BY <3>1, <3>2, <1>2, <1>3
        <3>3. CASE ~(k <= Len(s))
            <4>1. k - Len(s) \in 1 .. Len(u)
                BY <3>1, <3>3, <1>1
            <4>2. su[k] = u[k - Len(s)] /\ sv[k] = v[k - Len(s)]
                BY <3>1, <3>3, <1>2, <1>3
            <4> QED
                BY <4>1, <4>2, <1>5 DEF Begins
        <3> QED
            BY <3>2, <3>3
    <2> QED
        BY <2>1, <2>2 DEF Begins
<1> QED
    BY <1>4, <1>5 DEF su, sv

\* A string cut in two
LEMMA CutFacts ==
    ASSUME NEW S, NEW s \in Seq(S), NEW n \in 0 .. Len(s)
    PROVE  /\ SubSeq(s, 1, n) \in Seq(S) /\ Len(SubSeq(s, 1, n)) = n /\ Begins(SubSeq(s, 1, n), s)
           /\ After(s, n) \in Seq(S) /\ Len(After(s, n)) = Len(s) - n
           /\ SubSeq(s, 1, n) \o After(s, n) = s
           /\ n < Len(s) => After(s, n)[1] = s[n + 1]
<1> DEFINE l == Len(s)
           a == SubSeq(s, 1, n)
           b == SubSeq(s, n + 1, l)
<1>1. l \in Nat /\ n \in Nat /\ n <= l
    BY LenProperties
<1>2. a \in Seq(S) /\ Len(a) = n /\ \A i \in 1 .. n : a[i] = s[i]
    <2>1. \A i \in 1 .. n : s[i] \in S
        BY <1>1, ElementOfSeq
    <2> QED
        BY <1>1, <2>1, SubSeqProperties
<1>3. b \in Seq(S) /\ Len(b) = l - n /\ \A i \in 1 .. l - n : b[i] = s[n + i]
    <2>1. \A i \in n + 1 .. l : s[i] \in S
        BY <1>1, ElementOfSeq
    <2>2. n + 1 \in Int /\ l \in Int
        BY <1>1
    <2>3. /\ b \in Seq(S) /\ Len(b) = IF n + 1 <= l THEN l - (n + 1) + 1 ELSE 0
          /\ \A i \in 1 .. l - (n + 1) + 1 : b[i] = s[(n + 1) + i - 1]
        BY <2>1, <2>2, SubSeqProperties
    <2>4. l - (n + 1) + 1 = l - n /\ \A i \in 1 .. l - n : (n + 1) + i - 1 = n + i
        BY <1>1
    <2>5. ~(n + 1 <= l) => l - n = 0
        BY <1>1
    <2> HIDE DEF b, l
    <2> QED
        BY <2>3, <2>4, <2>5
<1> HIDE DEF a, b
<1>4. a \o b = s
    <2>1. /\ a \o b \in Seq(S) /\ Len(a \o b) = Len(a) + Len(b)
          /\ \A i \in 1 .. Len(a) + Len(b) : (a \o b)[i] = IF i <= Len(a) THEN a[i] ELSE b[i - Len(a)]
        BY <1>2, <1>3, ConcatProperties
    <2> DEFINE ab == a \o b
    <2> HIDE DEF ab
    <2>2. Len(a) + Len(b) = l
        BY <1>1, <1>2, <1>3
    <2>3. ASSUME NEW i \in 1 .. l PROVE ab[i] = s[i]
        <3>1. CASE i <= n
            BY <3>1, <1>1, <1>2, <2>1, <2>2 DEF ab
        <3>2. CASE ~(i <= n)
            <4>1. i - n \in 1 .. l - n /\ n + (i - n) = i
                BY <3>2, <1>1
            <4>2. ab[i] = b[i - n]
                BY <3>2, <1>2, <2>1, <2>2 DEF ab
            <4> QED
                BY <4>1, <4>2, <1>3
        <3> QED
            BY <3>1, <3>2
    <2> QED
        BY <2>1, <2>2, <2>3, SeqEqual DEF ab
<1>5. Begins(a, s)
    BY <1>1, <1>2 DEF Begins
<1>6. n < l => b[1] = s[n + 1]
    BY <1>1, <1>3
<1> QED
    BY <1>2, <1>3, <1>4, <1>5, <1>6 DEF After, a, b, l

\* What two strings begin with
LEMMA CommonFacts ==
    ASSUME NEW S, NEW s \in Seq(S), NEW t \in Seq(S)
    PROVE  LET n == getCommonPrefixLength(s, t)
           IN  /\ n \in Nat /\ n <= Len(s) /\ n <= Len(t)
               /\ \A i \in 1 .. n : s[i] = t[i]
               /\ n < Len(s) /\ n < Len(t) => s[n + 1] # t[n + 1]
<1> DEFINE Q(n) == /\ n <= Len(t)
                   /\ \A i \in 1 .. n : s[i] = t[i]
                   /\ n < Len(s) /\ n < Len(t) => s[n + 1] # t[n + 1]
           P == {n \in Nat : (\E i \in 1 .. n : i > Len(s) \/ i > Len(t) \/ s[i] # t[i])
                                => \E m \in 0 .. Len(s) : Q(m)}
<1>1. Len(s) \in Nat /\ Len(t) \in Nat
    BY LenProperties
<1>2. 0 \in P
    OBVIOUS
<1>3. ASSUME NEW n \in Nat, n \in P PROVE n + 1 \in P
    <2>1. CASE \E i \in 1 .. n : i > Len(s) \/ i > Len(t) \/ s[i] # t[i]
        BY <2>1, <1>3
    <2>2. CASE ~\E i \in 1 .. n : i > Len(s) \/ i > Len(t) \/ s[i] # t[i]
        <3>1. n <= Len(s) /\ n <= Len(t)
            <4>1. CASE n = 0
                BY <4>1, <1>1
            <4>2. CASE n # 0
                <5>1. n \in 1 .. n
                    BY <4>2
                <5> QED
                    BY <5>1, <2>2, <1>1
            <4> QED
                BY <4>1, <4>2
        <3>2. \A i \in 1 .. n : s[i] = t[i]
            BY <2>2
        <3> SUFFICES ASSUME NEW i \in 1 .. n + 1, i > Len(s) \/ i > Len(t) \/ s[i] # t[i]
                     PROVE  Q(n) /\ n \in 0 .. Len(s)
            OBVIOUS
        <3>3. i = n + 1
            BY <2>2
        <3> QED
            BY <3>1, <3>2, <3>3, <1>1
    <2> QED
        BY <2>1, <2>2
<1> HIDE DEF P, Q
<1>4. \A n \in Nat : n \in P
    BY <1>2, <1>3, SetInduction
<1>5. \E m \in 0 .. Len(s) : Q(m)
    <2> DEFINE n == Len(s) + 1
    <2>1. n \in P /\ n \in 1 .. n /\ n > Len(s)
        BY <1>1, <1>4
    <2> HIDE DEF n
    <2> QED
        BY <2>1 DEF P
<1>6. getCommonPrefixLength(s, t) = CHOOSE m \in 0 .. Len(s) : Q(m)
    BY Zenon DEF getCommonPrefixLength, Q
<1>7. getCommonPrefixLength(s, t) \in 0 .. Len(s) /\ Q(getCommonPrefixLength(s, t))
    BY <1>5, <1>6, Zenon
<1> QED
    BY <1>1, <1>7 DEF Q
----------------------------------------------------------------------------
\* u is s with p behind it.
Joined(s, p, u) == u = s \o p

\* What is joined begins with its first part, and goes on with its second.
LEMMA JoinFacts ==
    ASSUME NEW S, NEW s, NEW p, NEW u, s \in Seq(S), p \in Seq(S), Joined(s, p, u)
    PROVE  /\ u \in Seq(S) /\ Len(u) = Len(s) + Len(p) /\ Begins(s, u)
           /\ p # <<>> => Len(s) < Len(u) /\ u[Len(s) + 1] = p[1]
<1>1. u = s \o p
    BY DEF Joined
<1> QED
    BY <1>1, BehindFacts

\* Behind the same string
LEMMA JoinBegins ==
    ASSUME NEW S, NEW s, NEW p, NEW u, NEW q, NEW v, s \in Seq(S), p \in Seq(S), q \in Seq(S),
           Joined(s, p, u), Joined(s, q, v)
    PROVE  Begins(u, v) <=> Begins(p, q)
<1>1. u = s \o p /\ v = s \o q
    BY DEF Joined
<1>2. Begins(s \o p, s \o q) <=> Begins(p, q)
    BY BehindBegins
<1> QED
    BY <1>1, <1>2

\* Joining is associative.
LEMMA JoinJoin ==
    ASSUME NEW S, NEW s, NEW p, NEW t, NEW u, NEW v, NEW w,
           s \in Seq(S), p \in Seq(S), t \in Seq(S),
           Joined(s, p, u), Joined(p, t, v), Joined(s, v, w)
    PROVE  Joined(u, t, w)
<1>1. u = s \o p /\ v = p \o t /\ w = s \o v
    BY DEF Joined
<1>2. (s \o p) \o t = s \o (p \o t)
    BY ConcatAssociative
<1> QED
    BY <1>1, <1>2 DEF Joined

\* What is cut off a string joins it again.
LEMMA CutJoins ==
    ASSUME NEW S, NEW s, s \in Seq(S), NEW n \in Nat, n <= Len(s)
    PROVE  /\ SubSeq(s, 1, n) \in Seq(S) /\ Len(SubSeq(s, 1, n)) = n /\ Begins(SubSeq(s, 1, n), s)
           /\ After(s, n) \in Seq(S) /\ Len(After(s, n)) = Len(s) - n
           /\ Joined(SubSeq(s, 1, n), After(s, n), s)
           /\ n < Len(s) => After(s, n) # <<>> /\ After(s, n)[1] = s[n + 1]
<1>1. n \in 0 .. Len(s) /\ Len(s) \in Nat
    BY LenProperties
<1>2. /\ SubSeq(s, 1, n) \in Seq(S) /\ Len(SubSeq(s, 1, n)) = n /\ Begins(SubSeq(s, 1, n), s)
      /\ After(s, n) \in Seq(S) /\ Len(After(s, n)) = Len(s) - n
      /\ SubSeq(s, 1, n) \o After(s, n) = s
      /\ n < Len(s) => After(s, n)[1] = s[n + 1]
    BY <1>1, CutFacts
<1>3. ASSUME n < Len(s) PROVE After(s, n) # <<>>
    <2>1. Len(s) - n # 0
        BY <1>1, <1>3
    <2>2. Len(<<>>) = 0
        BY EmptySeq
    <2> QED
        BY <1>2, <2>1, <2>2
<1> QED
    BY <1>2, <1>3 DEF Joined

\* What is behind a prefix joins it.
LEMMA PrefixJoins ==
    ASSUME NEW S, NEW p, NEW s, p \in Seq(S), s \in Seq(S), Begins(p, s)
    PROVE  /\ Len(p) \in Nat /\ Len(p) <= Len(s)
           /\ After(s, Len(p)) \in Seq(S) /\ Len(After(s, Len(p))) = Len(s) - Len(p)
           /\ Joined(p, After(s, Len(p)), s)
<1>1. Len(p) \in Nat /\ Len(p) <= Len(s) /\ Len(s) \in Nat
    BY LenProperties DEF Begins
<1> DEFINE q == SubSeq(s, 1, Len(p))
<1>2. /\ q \in Seq(S) /\ Len(q) = Len(p) /\ Begins(q, s)
      /\ After(s, Len(p)) \in Seq(S) /\ Len(After(s, Len(p))) = Len(s) - Len(p)
      /\ Joined(q, After(s, Len(p)), s)
    BY <1>1, CutJoins
<1> HIDE DEF q
<1>3. Begins(p, q)
    BY <1>1, <1>2, BeginsBoth
<1>4. p = q
    BY <1>1, <1>2, <1>3, BeginsEqual
<1> QED
    BY <1>1, <1>2, <1>4

\* Children, by the first letter of their prefixes
ChildMaps == UNION {[D -> Nat] : D \in {D \in SUBSET Alphabet : IsFiniteSet(D)}}

Key(label, n) == label[n]
Prefix(nodes, n) == nodes[n].prefix

TrieKind ==
    [prefix : Seq(Alphabet), isLeaf : BOOLEAN, value : Values \cup {undefined}, children : ChildMaps]

\* The key above m is a proper prefix of the one above n.
Above(label, m, n) == Begins(Key(label, m), Key(label, n)) /\ Len(Key(label, m)) < Len(Key(label, n))

\* From m a child leads towards n.
LeadsTo(nodes, label, m, n) ==
    LET a == Key(label, n)[Len(Key(label, m)) + 1]
    IN  a \in DOMAIN nodes[m].children /\ Begins(Key(label, nodes[m].children[a]), Key(label, n))

\* The child c of m is filed under a.
FiledUnder(nodes, label, m, a, c) ==
    /\ c \in 1 .. Len(nodes)
    /\ Prefix(nodes, c) # <<>> /\ Prefix(nodes, c)[1] = a
    /\ Joined(Key(label, m), Prefix(nodes, c), Key(label, c))

TrieTyped(nodes, label) ==
    /\ nodes \in Seq(TrieKind) /\ Len(nodes) > 0
    /\ label \in [1 .. Len(nodes) -> Seq(Alphabet)]
    /\ Key(label, 1) = <<>>

\* Key(label, n): what the prefixes from the root to n spell.  Every node is where
\* its label leads to.
Spells(nodes, label) ==
    /\ TrieTyped(nodes, label)
    /\ \A m \in 1 .. Len(nodes) : \A a \in DOMAIN nodes[m].children :
        FiledUnder(nodes, label, m, a, nodes[m].children[a])
    /\ \A m, n \in 1 .. Len(nodes) : Key(label, m) = Key(label, n) => m = n
    /\ \A m, n \in 1 .. Len(nodes) : Above(label, m, n) => LeadsTo(nodes, label, m, n)

\* v is filed under w, or nothing is and v is undefined.
FilesIt(nodes, label, w, v) ==
    \/ \E n \in 1 .. Len(nodes) : Key(label, n) = w /\ nodes[n].isLeaf /\ v = nodes[n].value
    \/ v = undefined /\ \A n \in 1 .. Len(nodes) : Key(label, n) = w => ~nodes[n].isLeaf

\* The parts of a node
LEMMA KindFacts ==
    ASSUME NEW node \in TrieKind
    PROVE  /\ node.prefix \in Seq(Alphabet) /\ node.isLeaf \in BOOLEAN
           /\ node.value \in Values \cup {undefined}
           /\ IsFiniteSet(DOMAIN node.children) /\ DOMAIN node.children \subseteq Alphabet
           /\ \A a \in DOMAIN node.children : node.children[a] \in Nat
           /\ node = TrieNode(node.prefix, node.isLeaf, node.value, node.children)
<1>1. node.children \in ChildMaps
    BY DEF TrieKind
<1>2. PICK D \in SUBSET Alphabet : IsFiniteSet(D) /\ node.children \in [D -> Nat]
    BY <1>1 DEF ChildMaps
<1>3. DOMAIN node.children = D
    BY <1>2
<1> QED
    BY <1>2, <1>3 DEF TrieKind, TrieNode

\* A node is of its parts.
LEMMA KindOf ==
    ASSUME NEW prefix \in Seq(Alphabet), NEW isLeaf \in BOOLEAN, NEW value \in Values \cup {undefined},
           NEW D \in SUBSET Alphabet, IsFiniteSet(D), NEW children \in [D -> Nat]
    PROVE  TrieNode(prefix, isLeaf, value, children) \in TrieKind
<1>1. children \in ChildMaps
    BY DEF ChildMaps
<1> QED
    BY <1>1 DEF TrieKind, TrieNode

\* A node and its key
LEMMA NodeFacts ==
    ASSUME NEW nodes, NEW label, Spells(nodes, label), NEW m \in 1 .. Len(nodes)
    PROVE  nodes[m] \in TrieKind /\ Key(label, m) \in Seq(Alphabet) /\ Len(Key(label, m)) \in Nat
<1>1. nodes \in Seq(TrieKind) /\ label \in [1 .. Len(nodes) -> Seq(Alphabet)]
    BY DEF Spells, TrieTyped
<1>2. nodes[m] \in TrieKind /\ Key(label, m) \in Seq(Alphabet)
    BY <1>1, ElementOfSeq DEF Key
<1> QED
    BY <1>2, LenProperties

\* The first node is the root.
LEMMA NodesFacts ==
    ASSUME NEW nodes, NEW label, Spells(nodes, label)
    PROVE  /\ Len(nodes) \in Nat /\ DOMAIN nodes = 1 .. Len(nodes) /\ 1 \in 1 .. Len(nodes)
           /\ Key(label, 1) = <<>>
<1>1. nodes \in Seq(TrieKind) /\ Len(nodes) > 0 /\ Key(label, 1) = <<>>
    BY DEF Spells, TrieTyped
<1> QED
    BY <1>1, LenProperties

\* The child c of m
IsChild(nodes, m, a, c) == a \in DOMAIN nodes[m].children /\ c = nodes[m].children[a]

\* A child is not the root and is filed under the first letter of its prefix.
LEMMA ChildFacts ==
    ASSUME NEW nodes, NEW label, Spells(nodes, label), NEW m \in 1 .. Len(nodes), NEW a, NEW c,
           IsChild(nodes, m, a, c)
    PROVE  /\ c \in 1 .. Len(nodes) /\ c # 1
           /\ Prefix(nodes, c) \in Seq(Alphabet) /\ Prefix(nodes, c) # <<>>
           /\ Len(Prefix(nodes, c)) \in Nat /\ Len(Prefix(nodes, c)) > 0 /\ Prefix(nodes, c)[1] = a
           /\ Joined(Key(label, m), Prefix(nodes, c), Key(label, c))
           /\ Len(Key(label, c)) = Len(Key(label, m)) + Len(Prefix(nodes, c))
<1>1. Key(label, m) \in Seq(Alphabet) /\ Len(Key(label, m)) \in Nat
    BY NodeFacts
<1>2. FiledUnder(nodes, label, m, a, c)
    BY Zenon DEF Spells, IsChild
<1>3. /\ c \in 1 .. Len(nodes) /\ Prefix(nodes, c) # <<>> /\ Prefix(nodes, c)[1] = a
      /\ Joined(Key(label, m), Prefix(nodes, c), Key(label, c))
    BY <1>2 DEF FiledUnder
<1> DEFINE p == Prefix(nodes, c)
<1>4. p \in Seq(Alphabet)
    <2>1. nodes[c] \in TrieKind
        BY <1>3, NodeFacts
    <2> QED
        BY <2>1, KindFacts DEF Prefix
<1>5. Len(p) \in Nat /\ Len(p) > 0
    BY <1>3, <1>4, EmptySeq
<1>6. Len(Key(label, c)) = Len(Key(label, m)) + Len(p)
    BY <1>1, <1>3, <1>4, JoinFacts
<1>7. c # 1
    <2>1. Len(Key(label, 1)) = 0
        BY NodesFacts, EmptySeq
    <2>2. Len(Key(label, m)) + Len(p) # 0
        <3> HIDE DEF p
        <3> QED
            BY <1>1, <1>5
    <2> QED
        BY <2>1, <2>2, <1>6
<1> QED
    BY <1>3, <1>4, <1>5, <1>6, <1>7

----------------------------------------------------------------------------
\* Where the loops are, on the way to w
LeadsThere(label, place, w) == Joined(Key(label, place.curr), place.remaining, w)

\* The loops start at the root, with the whole key.
LEMMA StartFacts ==
    ASSUME NEW label, Spells(trieNodes, label), NEW w \in Seq(Alphabet)
    PROVE  Start(w) \in Places /\ LeadsThere(label, Start(w), w)
<1>1. Key(label, 1) = <<>> /\ DOMAIN trieNodes = 1 .. Len(trieNodes) /\ 1 \in 1 .. Len(trieNodes)
    BY NodesFacts
<1>2. <<>> \o w = w
    BY ConcatEmptySeq
<1> QED
    BY <1>1, <1>2 DEF Start, Places, LeadsThere, Joined

\* The loops are at a node.
LEMMA PlaceFacts ==
    ASSUME NEW label, Spells(trieNodes, label), NEW place \in Places
    PROVE  /\ place.curr \in 1 .. Len(trieNodes) /\ place.remaining \in Seq(Alphabet)
           /\ Len(place.remaining) \in Nat
           /\ place.remaining # <<>> => Len(place.remaining) > 0
<1>1. place.curr \in DOMAIN trieNodes /\ place.remaining \in Seq(Alphabet)
    BY DEF Places
<1>2. DOMAIN trieNodes = 1 .. Len(trieNodes)
    BY LenProperties DEF Spells, TrieTyped
<1> QED
    BY <1>1, <1>2, EmptySeq, LenProperties

\* A child whose prefix begins what remains is on the way, and less remains.
LEMMA BelowFacts ==
    ASSUME NEW label, Spells(trieNodes, label), NEW place \in Places,
           NEW a \in DOMAIN Children(place), Begins(ChildPrefix(place, a), place.remaining)
    PROVE  /\ Below(place, a) \in Places
           /\ Len(Below(place, a).remaining) < Len(place.remaining)
           /\ \A w : LeadsThere(label, place, w) => LeadsThere(label, Below(place, a), w)
<1> DEFINE m == place.curr
           c == Children(place)[a]
           p == ChildPrefix(place, a)
           r == place.remaining
           rest == After(r, Len(p))
<1>1. m \in 1 .. Len(trieNodes) /\ r \in Seq(Alphabet) /\ Len(r) \in Nat
    BY PlaceFacts
<1>2. IsChild(trieNodes, m, a, c) /\ p = Prefix(trieNodes, c)
      /\ Begins(p, r) /\ Below(place, a) = [curr |-> c, remaining |-> rest]
    BY DEF IsChild, Children, ChildPrefix, Below, Prefix
<1> HIDE DEF c, m, p, r
<1>3. /\ DOMAIN trieNodes = 1 .. Len(trieNodes) /\ Key(label, m) \in Seq(Alphabet)
      /\ c \in 1 .. Len(trieNodes) /\ p \in Seq(Alphabet)
      /\ Len(p) > 0 /\ Joined(Key(label, m), p, Key(label, c))
    BY <1>1, <1>2, NodeFacts, NodesFacts, ChildFacts
<1>4. /\ Len(p) \in Nat /\ rest \in Seq(Alphabet) /\ Len(rest) = Len(r) - Len(p)
      /\ Joined(p, rest, r)
    BY <1>1, <1>2, <1>3, PrefixJoins
<1> HIDE DEF rest
<1>7. ASSUME NEW w, Joined(Key(label, m), r, w) PROVE Joined(Key(label, c), rest, w)
    BY <1>3, <1>4, <1>7, JoinJoin
<1>8. Below(place, a) \in Places /\ Below(place, a).curr = c /\ Below(place, a).remaining = rest
    BY <1>2, <1>3, <1>4 DEF Places
<1>9. Len(rest) < Len(r)
    BY <1>1, <1>3, <1>4
<1> QED
    BY <1>7, <1>8, <1>9 DEF LeadsThere, m, r

----------------------------------------------------------------------------
\* Where lookup stops, and with what
LookupEnds ==
    {place \in Places :
        \/ place.remaining = <<>>
        \/ place.remaining[1] \notin DOMAIN Children(place)
        \/ ~IsPrefix(ChildPrefix(place, place.remaining[1]), place.remaining)}
LookupResult ==
    [place \in Places |->
        IF place.remaining = <<>> /\ trieNodes[place.curr].isLeaf THEN trieNodes[place.curr].value
        ELSE undefined]
LookupStep == [place \in Places |-> Below(place, place.remaining[1])]

LookupBody(f) ==
    f = [place \in Places |->
            LET curr == trieNodes[place.curr]
                first == place.remaining[1]
            IN  IF place.remaining = << >> THEN IF curr.isLeaf THEN curr.value ELSE undefined
                ELSE IF first \notin DOMAIN curr.children THEN undefined
                ELSE IF ~IsPrefix(ChildPrefix(place, first), place.remaining) THEN undefined
                ELSE f[Below(place, first)]]

\* One round of the loop of lookup
LEMMA LookupGoesOn ==
    ASSUME NEW label, Spells(trieNodes, label), NEW place \in Places \ LookupEnds
    PROVE  /\ place.remaining # <<>> /\ place.remaining[1] \in DOMAIN Children(place)
           /\ Begins(ChildPrefix(place, place.remaining[1]), place.remaining)
           /\ LookupStep[place] = Below(place, place.remaining[1])
           /\ LookupStep[place] \in Places
           /\ Len(LookupStep[place].remaining) < Len(place.remaining)
           /\ \A w : LeadsThere(label, place, w) => LeadsThere(label, LookupStep[place], w)
<1> DEFINE a == place.remaining[1]
<1>1. place.remaining # <<>> /\ a \in DOMAIN Children(place) /\ IsPrefix(ChildPrefix(place, a), place.remaining)
    BY DEF LookupEnds
<1>2. place.curr \in 1 .. Len(trieNodes) /\ place.remaining \in Seq(Alphabet)
    BY PlaceFacts
<1>3. ChildPrefix(place, a) \in Seq(Alphabet)
    <2>1. IsChild(trieNodes, place.curr, a, Children(place)[a])
        BY <1>1 DEF IsChild, Children
    <2> QED
        BY <2>1, <1>2, ChildFacts DEF ChildPrefix, Prefix
<1>4. Begins(ChildPrefix(place, a), place.remaining)
    BY <1>1, <1>2, <1>3, BeginsIsPrefix
<1>5. LookupStep[place] = Below(place, a)
    BY DEF LookupStep
<1> HIDE DEF a
<1>6. /\ Below(place, a) \in Places
      /\ Len(Below(place, a).remaining) < Len(place.remaining)
      /\ \A w : LeadsThere(label, place, w) => LeadsThere(label, Below(place, a), w)
    BY <1>1, <1>4, BelowFacts
<1> QED
    BY <1>1, <1>4, <1>5, <1>6 DEF a

\* lookup is its loop.
LEMMA LookupUnfolds ==
    ASSUME NEW label, Spells(trieNodes, label)
    PROVE  \A place \in Places :
                lookupBelow[place] = IF place \in LookupEnds THEN LookupResult[place]
                                     ELSE lookupBelow[LookupStep[place]]
<1>1. \A place \in Places \ LookupEnds : LookupStep[place] \in Places
    BY LookupGoesOn
<1>2. \E f : Loops(f, Places, LookupEnds, LookupResult, LookupStep)
    BY <1>1, LoopFunction
<1>3. ASSUME NEW f PROVE LookupBody(f) <=> Loops(f, Places, LookupEnds, LookupResult, LookupStep)
    <2>1. ASSUME NEW place \in Places
          PROVE  (LET curr == trieNodes[place.curr]
                      first == place.remaining[1]
                  IN  IF place.remaining = << >> THEN IF curr.isLeaf THEN curr.value ELSE undefined
                      ELSE IF first \notin DOMAIN curr.children THEN undefined
                      ELSE IF ~IsPrefix(ChildPrefix(place, first), place.remaining) THEN undefined
                      ELSE f[Below(place, first)])
                 = (IF place \in LookupEnds THEN LookupResult[place] ELSE f[LookupStep[place]])
        <3>1. LookupStep[place] = Below(place, place.remaining[1])
            BY DEF LookupStep
        <3>2. LookupResult[place] =
                IF place.remaining = <<>> /\ trieNodes[place.curr].isLeaf THEN trieNodes[place.curr].value
                ELSE undefined
            BY DEF LookupResult
        <3>3. place \in LookupEnds <=>
                \/ place.remaining = <<>>
                \/ place.remaining[1] \notin DOMAIN trieNodes[place.curr].children
                \/ ~IsPrefix(ChildPrefix(place, place.remaining[1]), place.remaining)
            BY DEF LookupEnds, Children
        <3> QED
            BY <3>1, <3>2, <3>3, Zenon
    <2> QED
        BY <2>1, Zenon DEF LookupBody, Loops
<1>4. lookupBelow = CHOOSE f : LookupBody(f)
    BY Zenon DEF lookupBelow, LookupBody
<1>5. LookupBody(lookupBelow)
    BY <1>2, <1>3, <1>4, Zenon
<1>6. Loops(lookupBelow, Places, LookupEnds, LookupResult, LookupStep)
    BY <1>3, <1>5, Zenon
<1> DEFINE f == lookupBelow
<1> HIDE DEF f
<1>7. f = [place \in Places |->
            IF place \in LookupEnds THEN LookupResult[place] ELSE f[LookupStep[place]]]
    BY <1>6, Zenon DEF f, Loops
<1>8. ASSUME NEW place \in Places
      PROVE  f[place] = IF place \in LookupEnds THEN LookupResult[place] ELSE f[LookupStep[place]]
    BY <1>7, Zenon
<1> QED
    BY <1>8, Zenon DEF f
----------------------------------------------------------------------------
\* Nothing joined
LEMMA JoinEmpty ==
    ASSUME NEW S, NEW s, NEW u, s \in Seq(S), Joined(s, <<>>, u)
    PROVE  u = s
    BY ConcatEmptySeq DEF Joined

\* Nodes have different keys.
LEMMA KeysDiffer ==
    ASSUME NEW nodes, NEW label, Spells(nodes, label), NEW m \in 1 .. Len(nodes),
           NEW n \in 1 .. Len(nodes), Key(label, m) = Key(label, n)
    PROVE  m = n
    BY DEF Spells

\* From a node to one whose key is longer
LEMMA OnTheWay ==
    ASSUME NEW nodes, NEW label, Spells(nodes, label), NEW m \in 1 .. Len(nodes),
           NEW n \in 1 .. Len(nodes), NEW r \in Seq(Alphabet), r # <<>>,
           Joined(Key(label, m), r, Key(label, n))
    PROVE  \E c : IsChild(nodes, m, r[1], c) /\ Begins(Prefix(nodes, c), r)
<1> DEFINE s == Key(label, m)
           t == Key(label, n)
<1>1. s \in Seq(Alphabet)
    BY NodeFacts
<1>2. Begins(s, t) /\ Len(s) < Len(t) /\ t[Len(s) + 1] = r[1]
    <2> HIDE DEF s, t
    <2> QED
        BY <1>1, JoinFacts DEF s, t
<1>3. LeadsTo(nodes, label, m, n)
    BY <1>2, Zenon DEF Spells, Above
<1> DEFINE c == nodes[m].children[r[1]]
<1>4. r[1] \in DOMAIN nodes[m].children /\ Begins(Key(label, c), t)
    BY <1>2, <1>3 DEF LeadsTo
<1>5. IsChild(nodes, m, r[1], c)
    BY <1>4 DEF IsChild
<1> HIDE DEF s, t, c
<1>6. Prefix(nodes, c) \in Seq(Alphabet) /\ Joined(s, Prefix(nodes, c), Key(label, c))
    BY <1>5, ChildFacts DEF s
<1>7. Begins(Prefix(nodes, c), r)
    BY <1>1, <1>4, <1>6, JoinBegins DEF s, t
<1> QED
    BY <1>5, <1>7

\* Where lookup stops it has the answer.
LEMMA LookupEndsRight ==
    ASSUME NEW label, Spells(trieNodes, label), NEW w, NEW place \in LookupEnds,
           LeadsThere(label, place, w)
    PROVE  FilesIt(trieNodes, label, w, LookupResult[place])
<1> DEFINE m == place.curr
           r == place.remaining
<1>1. place \in Places
    BY DEF LookupEnds
<1>2. m \in 1 .. Len(trieNodes) /\ r \in Seq(Alphabet)
    BY <1>1, PlaceFacts
<1>3. Joined(Key(label, m), r, w)
    BY DEF LeadsThere
<1>4. LookupResult[place] = IF r = <<>> /\ trieNodes[m].isLeaf THEN trieNodes[m].value ELSE undefined
    BY <1>1 DEF LookupResult
<1>5. \/ r = <<>>
      \/ r[1] \notin DOMAIN trieNodes[m].children
      \/ ~IsPrefix(trieNodes[trieNodes[m].children[r[1]]].prefix, r)
    BY Zenon DEF LookupEnds, Children, ChildPrefix
<1> HIDE DEF m, r
<1>6. CASE r = <<>>
    <2>1. w = Key(label, m)
        BY <1>2, <1>3, <1>6, NodeFacts, JoinEmpty
    <2>2. \A n \in 1 .. Len(trieNodes) : Key(label, n) = w => n = m
        BY <2>1, <1>2, KeysDiffer
    <2>3. CASE trieNodes[m].isLeaf
        BY <2>1, <2>3, <1>2, <1>4, <1>6 DEF FilesIt
    <2>4. CASE ~trieNodes[m].isLeaf
        BY <2>2, <2>4, <1>4 DEF FilesIt
    <2> QED
        BY <2>3, <2>4
<1>7. CASE r # <<>>
    <2>1. LookupResult[place] = undefined
        BY <1>4, <1>7
    <2>2. ASSUME NEW n \in 1 .. Len(trieNodes), Key(label, n) = w PROVE FALSE
        <3>1. PICK c : IsChild(trieNodes, m, r[1], c) /\ Begins(Prefix(trieNodes, c), r)
            BY <2>2, <1>2, <1>3, <1>7, OnTheWay
        <3>2. Prefix(trieNodes, c) \in Seq(Alphabet)
            BY <3>1, <1>2, ChildFacts
        <3>3. IsPrefix(Prefix(trieNodes, c), r)
            BY <3>1, <3>2, <1>2, BeginsIsPrefix
        <3> QED
            BY <3>1, <3>3, <1>5, <1>7 DEF IsChild, Prefix
    <2> QED
        BY <2>1, <2>2 DEF FilesIt
<1> QED
    BY <1>6, <1>7

\* Lookup finds what is filed under the key.
LEMMA LookupFinds ==
    ASSUME NEW label, Spells(trieNodes, label), NEW w, NEW place \in Places,
           LeadsThere(label, place, w)
    PROVE  FilesIt(trieNodes, label, w, lookupBelow[place])
<1> DEFINE P == {k \in Nat : \A p \in Places :
                    Len(p.remaining) < k /\ LeadsThere(label, p, w)
                        => FilesIt(trieNodes, label, w, lookupBelow[p])}
<1>1. 0 \in P
    <2>1. \A p \in Places : ~(Len(p.remaining) < 0)
        BY PlaceFacts
    <2> QED
        BY <2>1
<1>2. ASSUME NEW k \in Nat, k \in P PROVE k + 1 \in P
    <2> SUFFICES ASSUME NEW p \in Places, Len(p.remaining) < k + 1, LeadsThere(label, p, w)
                 PROVE  FilesIt(trieNodes, label, w, lookupBelow[p])
        OBVIOUS
    <2>1. CASE p \in LookupEnds
        <3>1. lookupBelow[p] = LookupResult[p]
            BY <2>1, LookupUnfolds
        <3> QED
            BY <2>1, <3>1, LookupEndsRight
    <2>2. CASE p \notin LookupEnds
        <3> DEFINE q == LookupStep[p]
        <3>1. lookupBelow[p] = lookupBelow[q]
            BY <2>2, LookupUnfolds
        <3>2. q \in Places /\ Len(q.remaining) < Len(p.remaining) /\ LeadsThere(label, q, w)
            BY <2>2, LookupGoesOn
        <3>3. Len(q.remaining) < k
            <4>1. Len(q.remaining) \in Nat /\ Len(p.remaining) \in Nat
                BY <3>2, PlaceFacts
            <4> HIDE DEF q
            <4> QED
                BY <4>1, <3>2
        <3> HIDE DEF q
        <3> QED
            BY <3>1, <3>2, <3>3, <1>2
    <2> QED
        BY <2>1, <2>2
<1> HIDE DEF P
<1>3. \A k \in Nat : k \in P
    BY <1>1, <1>2, SetInduction
<1> DEFINE l == Len(place.remaining)
<1>4. l \in Nat
    BY PlaceFacts
<1> HIDE DEF l
<1>5. l + 1 \in P /\ l < l + 1
    BY <1>3, <1>4
<1> QED
    BY <1>5 DEF P, l

\* What is filed under a key is one value.
LEMMA FiledOnce ==
    ASSUME NEW nodes, NEW label, Spells(nodes, label), NEW w, NEW u, NEW v,
           FilesIt(nodes, label, w, u), FilesIt(nodes, label, w, v)
    PROVE  u = v
<1>1. \A m, n \in 1 .. Len(nodes) : Key(label, m) = w /\ Key(label, n) = w => m = n
    BY KeysDiffer
<1> QED
    BY <1>1 DEF FilesIt

----------------------------------------------------------------------------
\* Where insert stops going down
ReachEnds == {place \in Places : Whole(place) = {}}
ReachResult == [place \in Places |-> place]
ReachStep == [place \in Places |-> Below(place, CHOOSE a \in Whole(place) : TRUE)]

\* A child gone down to has a prefix that begins what remains.
LEMMA WholeBegins ==
    ASSUME NEW label, Spells(trieNodes, label), NEW place \in Places, NEW a \in Whole(place)
    PROVE  a \in DOMAIN Children(place) /\ Begins(ChildPrefix(place, a), place.remaining)
<1> DEFINE p == ChildPrefix(place, a)
           r == place.remaining
           n == commonLen(place, a)
<1>1. a \in DOMAIN Children(place) /\ n = Len(p)
    BY DEF Whole, Matched
<1>2. place.curr \in 1 .. Len(trieNodes) /\ r \in Seq(Alphabet)
    BY PlaceFacts
<1>3. p \in Seq(Alphabet)
    <2>1. IsChild(trieNodes, place.curr, a, Children(place)[a])
        BY <1>1 DEF IsChild, Children
    <2> QED
        BY <2>1, <1>2, ChildFacts DEF ChildPrefix, Prefix
<1>4. n = getCommonPrefixLength(r, p)
    BY DEF commonLen
<1> HIDE DEF p, r, n
<1>5. n <= Len(r) /\ \A i \in 1 .. n : r[i] = p[i]
    BY <1>2, <1>3, <1>4, CommonFacts
<1>6. Begins(p, r)
    BY <1>1, <1>5 DEF Begins
<1> QED
    BY <1>1, <1>6 DEF p, r

\* One round of the loop of insert
LEMMA ReachGoesOn ==
    ASSUME NEW label, Spells(trieNodes, label), NEW place \in Places \ ReachEnds
    PROVE  /\ ReachStep[place] \in Places
           /\ Len(ReachStep[place].remaining) < Len(place.remaining)
           /\ \A w : LeadsThere(label, place, w) => LeadsThere(label, ReachStep[place], w)
<1> DEFINE a == CHOOSE a \in Whole(place) : TRUE
<1>1. a \in Whole(place)
    BY DEF ReachEnds
<1>2. ReachStep[place] = Below(place, a)
    BY DEF ReachStep
<1> HIDE DEF a
<1>3. a \in DOMAIN Children(place) /\ Begins(ChildPrefix(place, a), place.remaining)
    BY <1>1, WholeBegins
<1> QED
    BY <1>2, <1>3, BelowFacts

ReachBody(f) ==
    f = [place \in Places |->
            IF Whole(place) = {} THEN place ELSE f[Below(place, CHOOSE a \in Whole(place) : TRUE)]]

\* reached is the loop of insert.
LEMMA ReachUnfolds ==
    ASSUME NEW label, Spells(trieNodes, label)
    PROVE  \A place \in Places :
                reached[place] = IF place \in ReachEnds THEN place ELSE reached[ReachStep[place]]
<1>1. \A place \in Places \ ReachEnds : ReachStep[place] \in Places
    BY ReachGoesOn
<1>2. \E f : Loops(f, Places, ReachEnds, ReachResult, ReachStep)
    BY <1>1, LoopFunction
<1>3. ASSUME NEW f PROVE ReachBody(f) <=> Loops(f, Places, ReachEnds, ReachResult, ReachStep)
    <2>1. ASSUME NEW place \in Places
          PROVE  (IF Whole(place) = {} THEN place
                  ELSE f[Below(place, CHOOSE a \in Whole(place) : TRUE)])
                 = (IF place \in ReachEnds THEN ReachResult[place] ELSE f[ReachStep[place]])
        <3>1. /\ ReachStep[place] = Below(place, CHOOSE a \in Whole(place) : TRUE)
              /\ ReachResult[place] = place
              /\ place \in ReachEnds <=> Whole(place) = {}
            BY DEF ReachStep, ReachResult, ReachEnds
        <3> QED
            BY <3>1, Zenon
    <2> QED
        BY <2>1, Zenon DEF ReachBody, Loops
<1>4. reached = CHOOSE f : ReachBody(f)
    BY Zenon DEF reached, ReachBody
<1>5. ReachBody(reached)
    BY <1>2, <1>3, <1>4, Zenon
<1> DEFINE f == reached
<1> HIDE DEF f
<1>6. f = [place \in Places |->
            IF Whole(place) = {} THEN place ELSE f[Below(place, CHOOSE a \in Whole(place) : TRUE)]]
    BY <1>5, Zenon DEF f, ReachBody
<1>7. ASSUME NEW place \in Places
      PROVE  f[place] = IF place \in ReachEnds THEN place ELSE f[ReachStep[place]]
    <2>1. f[place] = IF Whole(place) = {} THEN place
                     ELSE f[Below(place, CHOOSE a \in Whole(place) : TRUE)]
        BY <1>6, Zenon
    <2>2. /\ ReachStep[place] = Below(place, CHOOSE a \in Whole(place) : TRUE)
          /\ place \in ReachEnds <=> Whole(place) = {}
        BY DEF ReachStep, ReachEnds
    <2> QED
        BY <2>1, <2>2, Zenon
<1> QED
    BY <1>7, Zenon DEF f

\* Insert stops on the way to the key, where no child can be gone down.
LEMMA ReachedFacts ==
    ASSUME NEW label, Spells(trieNodes, label), NEW w, NEW place \in Places,
           LeadsThere(label, place, w)
    PROVE  reached[place] \in ReachEnds /\ LeadsThere(label, reached[place], w)
<1> DEFINE P == {k \in Nat : \A p \in Places :
                    Len(p.remaining) < k /\ LeadsThere(label, p, w)
                        => reached[p] \in ReachEnds /\ LeadsThere(label, reached[p], w)}
<1>1. 0 \in P
    <2>1. \A p \in Places : ~(Len(p.remaining) < 0)
        BY PlaceFacts
    <2> QED
        BY <2>1
<1>2. ASSUME NEW k \in Nat, k \in P PROVE k + 1 \in P
    <2> SUFFICES ASSUME NEW p \in Places, Len(p.remaining) < k + 1, LeadsThere(label, p, w)
                 PROVE  reached[p] \in ReachEnds /\ LeadsThere(label, reached[p], w)
        OBVIOUS
    <2>1. CASE p \in ReachEnds
        <3>1. reached[p] = p
            BY <2>1, ReachUnfolds
        <3> QED
            BY <2>1, <3>1
    <2>2. CASE p \notin ReachEnds
        <3> DEFINE q == ReachStep[p]
        <3>1. reached[p] = reached[q]
            BY <2>2, ReachUnfolds
        <3>2. q \in Places /\ Len(q.remaining) < Len(p.remaining) /\ LeadsThere(label, q, w)
            BY <2>2, ReachGoesOn
        <3>3. Len(q.remaining) < k
            <4>1. Len(q.remaining) \in Nat /\ Len(p.remaining) \in Nat
                BY <3>2, PlaceFacts
            <4> HIDE DEF q
            <4> QED
                BY <4>1, <3>2
        <3> HIDE DEF q
        <3> QED
            BY <3>1, <3>2, <3>3, <1>2
    <2> QED
        BY <2>1, <2>2
<1> HIDE DEF P
<1>3. \A k \in Nat : k \in P
    BY <1>1, <1>2, SetInduction
<1> DEFINE l == Len(place.remaining)
<1>4. l \in Nat
    BY PlaceFacts
<1> HIDE DEF l
<1>5. l + 1 \in P /\ l < l + 1
    BY <1>3, <1>4
<1> QED
    BY <1>5 DEF P, l
----------------------------------------------------------------------------
\* A node is a key or a fork, but for those in X.
Forks(nodes, X) ==
    \A n \in 2 .. Len(nodes) :
        n \in X \/ nodes[n].isLeaf \/ \E a, b \in DOMAIN nodes[n].children : a # b

\* What is filed is what was, with v under w.
FilesMore(nodes, label, nodes2, label2, w, v) ==
    /\ FilesIt(nodes2, label2, w, v)
    /\ \A x, u : x # w /\ FilesIt(nodes, label, x, u) => FilesIt(nodes2, label2, x, u)

----------------------------------------------------------------------------
\* The key ends at m.
Ended(nodes, nodes2, m, v) ==
    nodes2 = [nodes EXCEPT ![m].isLeaf = TRUE, ![m].value = v]

EndedShape(nodes, nodes2, m, v) ==
    /\ nodes2 \in Seq(TrieKind) /\ Len(nodes2) = Len(nodes)
    /\ \A n \in 1 .. Len(nodes) :
         /\ nodes2[n].prefix = nodes[n].prefix /\ nodes2[n].children = nodes[n].children
         /\ n # m => nodes2[n] = nodes[n]
    /\ nodes2[m].isLeaf /\ nodes2[m].value = v

\* Only the node where the key ends is changed, ...
LEMMA EndedFacts ==
    ASSUME NEW nodes \in Seq(TrieKind), NEW nodes2, NEW m \in 1 .. Len(nodes), NEW v \in Values,
           Ended(nodes, nodes2, m, v)
    PROVE  EndedShape(nodes, nodes2, m, v)
<1> DEFINE node == nodes[m]
           node2 == [node EXCEPT !.isLeaf = TRUE, !.value = v]
<1>1. node \in TrieKind
    BY ElementOfSeq
<1>2. node2 \in TrieKind /\ node2.prefix = node.prefix /\ node2.children = node.children
      /\ node2.isLeaf = TRUE /\ node2.value = v
    <2> HIDE DEF node
    <2> QED
        BY <1>1 DEF TrieKind
<1>3. nodes2 = [nodes EXCEPT ![m] = node2]
    <2>1. m \in DOMAIN nodes
        BY LenProperties
    <2> QED
        BY <2>1 DEF Ended
<1> HIDE DEF node2, node
<1>4. /\ nodes2 \in Seq(TrieKind) /\ Len(nodes2) = Len(nodes)
      /\ \A n \in 1 .. Len(nodes) : nodes2[n] = IF n = m THEN node2 ELSE nodes[n]
    BY <1>2, <1>3, ExceptSeq
<1> QED
    BY <1>2, <1>4 DEF EndedShape, node

\* ... no key is, ...
LEMMA EndedSpells ==
    ASSUME NEW nodes, NEW nodes2, NEW label, Spells(nodes, label), NEW m \in 1 .. Len(nodes),
           NEW v \in Values, Ended(nodes, nodes2, m, v)
    PROVE  Spells(nodes2, label)
<1>1. nodes \in Seq(TrieKind)
    BY DEF Spells, TrieTyped
<1>2. /\ nodes2 \in Seq(TrieKind) /\ Len(nodes2) = Len(nodes)
      /\ \A n \in 1 .. Len(nodes) :
            nodes2[n].prefix = nodes[n].prefix /\ nodes2[n].children = nodes[n].children
    <2>1. EndedShape(nodes, nodes2, m, v)
        BY <1>1, EndedFacts
    <2> QED
        BY <2>1 DEF EndedShape
<1>3. TrieTyped(nodes2, label)
    BY <1>2 DEF Spells, TrieTyped
<1>4. \A k \in 1 .. Len(nodes2) : \A a \in DOMAIN nodes2[k].children :
            FiledUnder(nodes2, label, k, a, nodes2[k].children[a])
    <2> SUFFICES ASSUME NEW k \in 1 .. Len(nodes2), NEW a \in DOMAIN nodes2[k].children
                 PROVE  FiledUnder(nodes2, label, k, a, nodes2[k].children[a])
        OBVIOUS
    <2>1. nodes2[k].children = nodes[k].children /\ k \in 1 .. Len(nodes)
        BY <1>2
    <2>2. FiledUnder(nodes, label, k, a, nodes[k].children[a])
        BY <2>1 DEF Spells
    <2> QED
        BY <2>1, <2>2, <1>2 DEF FiledUnder, Prefix
<1>5. \A k, n \in 1 .. Len(nodes2) : Key(label, k) = Key(label, n) => k = n
    BY <1>2, KeysDiffer
<1>6. \A k, n \in 1 .. Len(nodes2) : Above(label, k, n) => LeadsTo(nodes2, label, k, n)
    <2> SUFFICES ASSUME NEW k \in 1 .. Len(nodes2), NEW n \in 1 .. Len(nodes2), Above(label, k, n)
                 PROVE  LeadsTo(nodes2, label, k, n)
        OBVIOUS
    <2>1. k \in 1 .. Len(nodes) /\ n \in 1 .. Len(nodes) /\ nodes2[k].children = nodes[k].children
        BY <1>2
    <2>2. LeadsTo(nodes, label, k, n)
        BY <2>1 DEF Spells
    <2> QED
        BY <2>1, <2>2 DEF LeadsTo
<1> QED
    BY <1>3, <1>4, <1>5, <1>6 DEF Spells

\* ... the value is filed and nothing lost, ...
LEMMA EndedFiles ==
    ASSUME NEW nodes, NEW nodes2, NEW label, Spells(nodes, label), NEW m \in 1 .. Len(nodes),
           NEW v \in Values, Ended(nodes, nodes2, m, v)
    PROVE  FilesMore(nodes, label, nodes2, label, Key(label, m), v)
<1>1. nodes \in Seq(TrieKind)
    BY DEF Spells, TrieTyped
<1>2. /\ Len(nodes2) = Len(nodes) /\ nodes2[m].isLeaf /\ nodes2[m].value = v
      /\ \A n \in 1 .. Len(nodes) : n # m => nodes2[n] = nodes[n]
    <2>1. EndedShape(nodes, nodes2, m, v)
        BY <1>1, EndedFacts
    <2> QED
        BY <2>1 DEF EndedShape
<1>3. FilesIt(nodes2, label, Key(label, m), v)
    BY <1>2 DEF FilesIt
<1>4. ASSUME NEW x, NEW u, x # Key(label, m), FilesIt(nodes, label, x, u)
      PROVE  FilesIt(nodes2, label, x, u)
    BY <1>2, <1>4 DEF FilesIt
<1> QED
    BY <1>3, <1>4 DEF FilesMore

\* ... and the node is a key, whatever it was.
LEMMA EndedForks ==
    ASSUME NEW nodes \in Seq(TrieKind), NEW nodes2, NEW m \in 1 .. Len(nodes), NEW v \in Values,
           Ended(nodes, nodes2, m, v), NEW X \in SUBSET {m}, Forks(nodes, X)
    PROVE  Forks(nodes2, {})
<1>1. /\ Len(nodes2) = Len(nodes) /\ nodes2[m].isLeaf
      /\ \A n \in 1 .. Len(nodes) : n # m => nodes2[n] = nodes[n]
    <2>1. EndedShape(nodes, nodes2, m, v)
        BY EndedFacts
    <2> QED
        BY <2>1 DEF EndedShape
<1>2. ASSUME NEW n \in 2 .. Len(nodes2)
      PROVE  nodes2[n].isLeaf \/ \E a, b \in DOMAIN nodes2[n].children : a # b
    <2>1. n \in 1 .. Len(nodes) /\ n \in 2 .. Len(nodes)
        BY <1>1
    <2>2. CASE n = m
        BY <2>2, <1>1
    <2>3. CASE n # m
        <3>1. nodes2[n] = nodes[n] /\ n \notin X
            BY <2>1, <2>3, <1>1
        <3> QED
            BY <3>1, <2>1 DEF Forks
    <2> QED
        BY <2>2, <2>3
<1> QED
    BY <1>2, Zenon DEF Forks
----------------------------------------------------------------------------
\* A new child of m holds the rest r of the key.
Hung(nodes, nodes2, m, r, v) ==
    nodes2 = Append([nodes EXCEPT ![m].children = SetChild(@, r, Len(nodes) + 1)], Leaf(r, v))

\* The key of the new node
Extended(label, n, w) == [k \in 1 .. n + 1 |-> IF k = n + 1 THEN w ELSE label[k]]

\* ch is children with the new child n under the first letter of r.
ChildSet(D, children, r, n, ch) ==
    /\ D \in SUBSET Alphabet /\ IsFiniteSet(D) /\ children \in [D -> Nat]
    /\ r \in Seq(Alphabet) /\ r # <<>> /\ n \in Nat
    /\ ch = SetChild(children, r, n)

ChildSetShape(D, children, r, n, ch) ==
    /\ r[1] \in Alphabet
    /\ IsFiniteSet(D \cup {r[1]})
    /\ ch \in [D \cup {r[1]} -> Nat]
    /\ ch[r[1]] = n
    /\ \A a \in D : a # r[1] => ch[a] = children[a]

\* A child added (children.set)
LEMMA SetChildFacts ==
    ASSUME NEW D, NEW children, NEW r, NEW n, NEW ch, ChildSet(D, children, r, n, ch)
    PROVE  ChildSetShape(D, children, r, n, ch)
<1> USE DEF ChildSet, ChildSetShape
<1>1. r[1] \in Alphabet
    <2>1. 1 \in 1 .. Len(r)
        BY EmptySeq
    <2> QED
        BY <2>1, ElementOfSeq
<1>2. IsFiniteSet(D \cup {r[1]})
    BY FS_AddElement
<1>3. ch = [a \in D \cup {r[1]} |-> IF a = r[1] THEN n ELSE children[a]]
    BY DEF SetChild
<1> QED
    BY <1>1, <1>2, <1>3

\* The nodes with the new child
HungShape(nodes, nodes2, m, r, v) ==
    /\ nodes2 \in Seq(TrieKind) /\ Len(nodes2) = Len(nodes) + 1 /\ Len(nodes) \in Nat
    /\ \A n \in 1 .. Len(nodes) :
         /\ nodes2[n].prefix = nodes[n].prefix /\ nodes2[n].isLeaf = nodes[n].isLeaf
         /\ nodes2[n].value = nodes[n].value
         /\ n # m => nodes2[n] = nodes[n]
    /\ DOMAIN nodes2[m].children = DOMAIN nodes[m].children \cup {r[1]}
    /\ \A a \in DOMAIN nodes[m].children : nodes2[m].children[a] = nodes[m].children[a]
    /\ nodes2[m].children[r[1]] = Len(nodes) + 1
    /\ nodes2[Len(nodes) + 1] = Leaf(r, v)

\* Only the parent of a new child is changed, ...
LEMMA HungFacts ==
    ASSUME NEW nodes \in Seq(TrieKind), NEW nodes2, NEW m \in 1 .. Len(nodes), NEW v \in Values,
           NEW r \in Seq(Alphabet), r # <<>>, r[1] \notin DOMAIN nodes[m].children,
           Hung(nodes, nodes2, m, r, v)
    PROVE  HungShape(nodes, nodes2, m, r, v)
<1> DEFINE node == nodes[m]
           s == Len(nodes) + 1
           ch == SetChild(node.children, r, s)
           node2 == [node EXCEPT !.children = ch]
           nodes1 == [nodes EXCEPT ![m] = node2]
<1>1. node \in TrieKind /\ Len(nodes) \in Nat /\ m \in DOMAIN nodes
    BY ElementOfSeq, LenProperties
<1>2. PICK D \in SUBSET Alphabet : IsFiniteSet(D) /\ node.children \in [D -> Nat]
    <2> HIDE DEF node
    <2> QED
        BY <1>1 DEF TrieKind, ChildMaps
<1>3. s \in Nat
    BY <1>1
<1>4. nodes2 = Append(nodes1, Leaf(r, v))
    BY <1>1 DEF Hung
<1> DEFINE old == node.children
<1> HIDE DEF s, old
<1>5. /\ r[1] \in Alphabet /\ IsFiniteSet(D \cup {r[1]}) /\ ch \in [D \cup {r[1]} -> Nat]
      /\ ch[r[1]] = s /\ \A a \in D : a # r[1] => ch[a] = node.children[a]
    <2>1. old \in [D -> Nat] /\ ch = SetChild(old, r, s)
        BY <1>2 DEF old
    <2> HIDE DEF ch, node
    <2>2. /\ r[1] \in Alphabet /\ IsFiniteSet(D \cup {r[1]}) /\ ch \in [D \cup {r[1]} -> Nat]
          /\ ch[r[1]] = s /\ \A a \in D : a # r[1] => ch[a] = old[a]
        <3>1. ChildSet(D, old, r, s, ch)
            BY <2>1, <1>2, <1>3 DEF ChildSet
        <3>2. ChildSetShape(D, old, r, s, ch)
            BY <3>1, SetChildFacts
        <3> QED
            BY <3>2 DEF ChildSetShape
    <2> QED
        BY <2>2 DEF old
<1> HIDE DEF ch
<1>6. ch \in ChildMaps /\ DOMAIN ch = D \cup {r[1]} /\ DOMAIN node.children = D
    <2>1. D \cup {r[1]} \in SUBSET Alphabet
        BY <1>5
    <2> QED
        BY <2>1, <1>2, <1>5 DEF ChildMaps
<1>7. node2 \in TrieKind /\ node2.prefix = node.prefix /\ node2.isLeaf = node.isLeaf
      /\ node2.value = node.value /\ node2.children = ch
    <2> HIDE DEF node
    <2> QED
        BY <1>1, <1>6 DEF TrieKind
<1> HIDE DEF node2
<1>8. /\ nodes1 \in Seq(TrieKind) /\ Len(nodes1) = Len(nodes)
      /\ \A n \in 1 .. Len(nodes) : nodes1[n] = IF n = m THEN node2 ELSE nodes[n]
    BY <1>7, ExceptSeq
<1>9. Leaf(r, v) \in TrieKind
    <2>1. {} \in SUBSET Alphabet /\ IsFiniteSet({}) /\ << >> \in [{} -> Nat]
        BY FS_EmptySet
    <2> QED
        BY <2>1, KindOf DEF Leaf
<1> HIDE DEF nodes1
<1>10. /\ nodes2 \in Seq(TrieKind) /\ Len(nodes2) = Len(nodes) + 1
       /\ \A n \in 1 .. Len(nodes) : nodes2[n] = nodes1[n]
       /\ nodes2[Len(nodes) + 1] = Leaf(r, v)
    BY <1>4, <1>8, <1>9, AppendProperties
<1>11. /\ nodes2[m] = node2
       /\ \A n \in 1 .. Len(nodes) : n # m => nodes2[n] = nodes[n]
    BY <1>8, <1>10
<1>12. \A n \in 1 .. Len(nodes) :
        /\ nodes2[n].prefix = nodes[n].prefix /\ nodes2[n].isLeaf = nodes[n].isLeaf
        /\ nodes2[n].value = nodes[n].value
    BY <1>7, <1>11
<1>13. \A a \in D : a # r[1]
    BY <1>6
<1> QED
    BY <1>1, <1>5, <1>6, <1>7, <1>10, <1>11, <1>12, <1>13 DEF s, HungShape

\* No node is at the new key or beyond the new child.
LEMMA NothingThere ==
    ASSUME NEW nodes, NEW label, Spells(nodes, label), NEW m \in 1 .. Len(nodes),
           NEW r \in Seq(Alphabet), r # <<>>, r[1] \notin DOMAIN nodes[m].children,
           NEW w, Joined(Key(label, m), r, w), NEW n \in 1 .. Len(nodes)
    PROVE  ~Begins(w, Key(label, n))
<1> DEFINE s == Key(label, m)
           t == Key(label, n)
<1>1. s \in Seq(Alphabet) /\ t \in Seq(Alphabet) /\ Len(s) \in Nat /\ Len(t) \in Nat
    BY NodeFacts
<1>2. SUFFICES ASSUME Begins(w, t) PROVE FALSE
    OBVIOUS
<1> HIDE DEF s, t
<1>3. w \in Seq(Alphabet) /\ Begins(s, w) /\ Len(s) < Len(w) /\ w[Len(s) + 1] = r[1]
    BY <1>1, JoinFacts DEF s
<1>4. Len(w) \in Nat
    BY <1>3, LenProperties
<1>5. Begins(s, t)
    BY <1>1, <1>2, <1>3, BeginsTransitive
<1>6. Len(s) < Len(t) /\ t[Len(s) + 1] = w[Len(s) + 1]
    <2>1. Len(w) <= Len(t) /\ Len(s) + 1 \in 1 .. Len(w)
        BY <1>1, <1>2, <1>3, <1>4 DEF Begins
    <2> QED
        BY <2>1, <1>1, <1>2, <1>3, <1>4 DEF Begins
<1>7. LeadsTo(nodes, label, m, n)
    BY <1>5, <1>6, Zenon DEF Spells, Above, s, t
<1> QED
    BY <1>3, <1>6, <1>7 DEF LeadsTo, s, t

\* ... and a key is added, ...
LEMMA ExtendedFacts ==
    ASSUME NEW n \in Nat, NEW label \in [1 .. n -> Seq(Alphabet)], NEW w \in Seq(Alphabet)
    PROVE  /\ Extended(label, n, w) \in [1 .. n + 1 -> Seq(Alphabet)]
           /\ Key(Extended(label, n, w), n + 1) = w
           /\ \A k \in 1 .. n : Key(Extended(label, n, w), k) = Key(label, k)
<1>1. n + 1 \in 1 .. n + 1 /\ \A k \in 1 .. n : k \in 1 .. n + 1 /\ k # n + 1
    OBVIOUS
<1>2. \A k \in 1 .. n + 1 : k # n + 1 => k \in 1 .. n
    OBVIOUS
<1> QED
    BY <1>1, <1>2 DEF Extended, Key

\* Letters that follow a string in one that it begins
LEMMA SameLetter ==
    ASSUME NEW S, NEW s, NEW t, NEW u, s \in Seq(S), t \in Seq(S), u \in Seq(S),
           Begins(t, u), Len(s) < Len(t)
    PROVE  t[Len(s) + 1] = u[Len(s) + 1]
<1>1. Len(s) \in Nat /\ Len(t) \in Nat
    BY LenProperties
<1>2. Len(s) + 1 \in 1 .. Len(t)
    BY <1>1
<1> QED
    BY <1>2 DEF Begins

\* The child towards n
LEMMA ChildTowards ==
    ASSUME NEW nodes, NEW label, Spells(nodes, label), NEW m \in 1 .. Len(nodes),
           NEW n \in 1 .. Len(nodes), Begins(Key(label, m), Key(label, n)),
           Len(Key(label, m)) < Len(Key(label, n))
    PROVE  \E c : /\ IsChild(nodes, m, Key(label, n)[Len(Key(label, m)) + 1], c)
                  /\ Begins(Key(label, c), Key(label, n))
<1>1. LeadsTo(nodes, label, m, n)
    BY Zenon DEF Spells, Above
<1> QED
    BY <1>1, Zenon DEF LeadsTo, IsChild, Key

\* ... which the prefixes from the root spell, ...
LEMMA HungSpells ==
    ASSUME NEW nodes, NEW nodes2, NEW label, Spells(nodes, label), NEW m \in 1 .. Len(nodes),
           NEW v \in Values,
           NEW r \in Seq(Alphabet), r # <<>>, r[1] \notin DOMAIN nodes[m].children,
           NEW w, Joined(Key(label, m), r, w),
           Hung(nodes, nodes2, m, r, v)
    PROVE  Spells(nodes2, Extended(label, Len(nodes), w))
<1> DEFINE N == Len(nodes)
           s == N + 1
           label2 == Extended(label, N, w)
           key == Key(label, m)
<1>1. nodes \in Seq(TrieKind) /\ label \in [1 .. N -> Seq(Alphabet)] /\ Key(label, 1) = <<>>
    BY DEF Spells, TrieTyped
<1>2. /\ nodes2 \in Seq(TrieKind) /\ Len(nodes2) = s /\ N \in Nat
      /\ \A n \in 1 .. N : nodes2[n].prefix = nodes[n].prefix
      /\ \A n \in 1 .. N : n # m => nodes2[n] = nodes[n]
      /\ DOMAIN nodes2[m].children = DOMAIN nodes[m].children \cup {r[1]}
      /\ \A a \in DOMAIN nodes[m].children : nodes2[m].children[a] = nodes[m].children[a]
      /\ nodes2[m].children[r[1]] = s
      /\ nodes2[s] = Leaf(r, v)
    <2>1. HungShape(nodes, nodes2, m, r, v)
        BY <1>1, HungFacts
    <2> QED
        BY <2>1 DEF HungShape
<1>3. w \in Seq(Alphabet) /\ Begins(key, w) /\ Len(key) < Len(w) /\ w[Len(key) + 1] = r[1]
      /\ key \in Seq(Alphabet)
    <2>1. key \in Seq(Alphabet)
        BY NodeFacts
    <2> QED
        BY <2>1, JoinFacts
<1>4. /\ label2 \in [1 .. N + 1 -> Seq(Alphabet)] /\ Key(label2, s) = w
      /\ \A k \in 1 .. N : Key(label2, k) = Key(label, k)
    <2>1. N \in Nat /\ label \in [1 .. N -> Seq(Alphabet)] /\ w \in Seq(Alphabet)
        BY <1>1, <1>2, <1>3
    <2> HIDE DEF N
    <2> QED
        BY <2>1, ExtendedFacts, ZenonT(60) DEF label2, s
<1> HIDE DEF label2, N
<1>5. s \in 1 .. s /\ \A k \in 1 .. s : k # s => k \in 1 .. N
    BY <1>2
<1>6. \A k \in 1 .. N : k \in 1 .. s /\ k # s
    BY <1>2
<1> HIDE DEF s
<1>7. m \in 1 .. N /\ 1 \in 1 .. N
    BY NodesFacts DEF N
<1>8. nodes2[s].prefix = r /\ nodes2[s].children = << >>
    BY <1>2 DEF Leaf, TrieNode
<1>9. TrieTyped(nodes2, label2)
    <2>1. Key(label2, 1) = Key(label, 1)
        BY <1>4, <1>7
    <2> QED
        BY <2>1, <1>1, <1>2, <1>4 DEF TrieTyped, s
<1> HIDE DEF key
<1>10. ASSUME NEW k \in 1 .. s, NEW a \in DOMAIN nodes2[k].children
       PROVE  FiledUnder(nodes2, label2, k, a, nodes2[k].children[a])
    <2>1. CASE k = s
        BY <2>1, <1>8
    <2>2. ASSUME k \in 1 .. N, a \in DOMAIN nodes[k].children,
                 nodes2[k].children[a] = nodes[k].children[a]
          PROVE  FiledUnder(nodes2, label2, k, a, nodes2[k].children[a])
        <3> DEFINE c == nodes[k].children[a]
        <3>1. IsChild(nodes, k, a, c)
            BY <2>2 DEF IsChild
        <3> HIDE DEF c
        <3>2. c \in 1 .. N /\ FiledUnder(nodes, label, k, a, c)
            <4>1. c \in 1 .. N
                BY <3>1, <2>2, ChildFacts DEF N
            <4>2. FiledUnder(nodes, label, k, a, c)
                BY <2>2, Zenon DEF Spells, c, N
            <4> QED
                BY <4>1, <4>2
        <3>3. Key(label2, k) = Key(label, k) /\ Key(label2, c) = Key(label, c)
              /\ Prefix(nodes2, c) = Prefix(nodes, c) /\ c \in 1 .. Len(nodes2)
            BY <2>2, <3>2, <1>2, <1>4, <1>6 DEF Prefix
        <3>4. FiledUnder(nodes2, label2, k, a, c)
            BY <3>2, <3>3 DEF FiledUnder
        <3> QED
            BY <3>4, <2>2 DEF c
    <2>3. CASE k # s /\ k # m
        <3>1. k \in 1 .. N /\ nodes2[k] = nodes[k]
            BY <2>3, <1>2, <1>5
        <3> QED
            BY <3>1, <2>2
    <2>4. CASE k = m /\ a # r[1]
        <3>1. a \in DOMAIN nodes[m].children
            BY <2>4, <1>2
        <3> QED
            BY <3>1, <2>2, <2>4, <1>2, <1>7
    <2>5. CASE k = m /\ a = r[1]
        <3>1. nodes2[k].children[a] = s
            BY <2>5, <1>2
        <3>2. Key(label2, k) = key /\ Key(label2, s) = w /\ Prefix(nodes2, s) = r
            BY <2>5, <1>4, <1>7, <1>8 DEF key, Prefix
        <3>3. Joined(key, r, w)
            BY DEF key
        <3> QED
            BY <2>5, <3>1, <3>2, <3>3, <1>2, <1>5 DEF FiledUnder
    <2> QED
        BY <2>1, <2>3, <2>4, <2>5
<1>11. ASSUME NEW n \in 1 .. N PROVE ~Begins(w, Key(label, n))
    BY NothingThere DEF N
<1>12. ASSUME NEW k \in 1 .. s, NEW n \in 1 .. s, Key(label2, k) = Key(label2, n) PROVE k = n
    <2>1. Begins(w, w)
        BY <1>3, BeginsSelf
    <2>2. \A i \in 1 .. N : Key(label, i) # w
        BY <2>1, <1>11
    <2>3. CASE k # s /\ n # s
        <3>1. k \in 1 .. N /\ n \in 1 .. N
            BY <2>3, <1>5
        <3> QED
            BY <3>1, <1>4, <1>12, KeysDiffer DEF N
    <2>4. CASE k = s \/ n = s
        BY <2>2, <2>4, <1>4, <1>5, <1>12
    <2> QED
        BY <2>3, <2>4
<1>13. ASSUME NEW k \in 1 .. N, NEW c, NEW a, IsChild(nodes, k, a, c)
       PROVE  IsChild(nodes2, k, a, c) /\ Key(label2, c) = Key(label, c)
    <2>1. c \in 1 .. N
        BY <1>13, ChildFacts DEF N
    <2> QED
        BY <2>1, <1>2, <1>4, <1>13 DEF IsChild
<1>14. ASSUME NEW k \in 1 .. s, NEW n \in 1 .. s, Above(label2, k, n)
       PROVE  LeadsTo(nodes2, label2, k, n)
    <2> DEFINE x == Key(label2, k)
               y == Key(label2, n)
               a == y[Len(x) + 1]
    <2>1. Begins(x, y) /\ Len(x) < Len(y) /\ x \in Seq(Alphabet) /\ y \in Seq(Alphabet)
          /\ Len(x) \in Nat /\ Len(y) \in Nat
        <3>1. x \in Seq(Alphabet) /\ y \in Seq(Alphabet)
            BY <1>4 DEF Key, s
        <3> QED
            BY <3>1, <1>14, LenProperties DEF Above
    <2> SUFFICES \E c : IsChild(nodes2, k, a, c) /\ Begins(Key(label2, c), y)
        BY DEF LeadsTo, IsChild
    <2> HIDE DEF x, y
    <2>2. CASE k # s /\ n # s
        <3>1. k \in 1 .. N /\ n \in 1 .. N /\ x = Key(label, k) /\ y = Key(label, n)
            BY <2>2, <1>4, <1>5 DEF x, y
        <3>2. PICK c : IsChild(nodes, k, a, c) /\ Begins(Key(label, c), y)
            BY <3>1, <2>1, ChildTowards DEF N
        <3> QED
            BY <3>1, <3>2, <1>13
    <2>3. CASE k = s /\ n # s
        <3>1. n \in 1 .. N /\ x = w /\ y = Key(label, n)
            BY <2>3, <1>4, <1>5 DEF x, y
        <3> QED
            BY <3>1, <2>1, <1>11
    <2>4. CASE k = s /\ n = s
        BY <2>4, <2>1 DEF x, y
    <2>5. CASE k = m /\ n = s
        <3>1. x = key /\ y = w
            BY <2>5, <1>4, <1>7 DEF x, y, key
        <3>2. IsChild(nodes2, m, r[1], s) /\ Begins(Key(label2, s), w)
            BY <1>2, <1>3, <1>4, BeginsSelf DEF IsChild
        <3> QED
            BY <3>1, <3>2, <2>5, <1>3
    <2>6. CASE k # m /\ k # s /\ n = s
        <3>1. k \in 1 .. N /\ x = Key(label, k) /\ y = w
            BY <2>6, <1>4, <1>5 DEF x, y
        <3>2. Len(key) \in Nat /\ key \in Seq(Alphabet)
            BY <1>3, LenProperties
        <3>3. CASE Len(x) <= Len(key)
            <4>1. Begins(x, key)
                BY <3>1, <3>2, <3>3, <2>1, <1>3, BeginsBoth
            <4>2. Len(x) # Len(key)
                <5>1. Len(x) = Len(key) => x = key
                    BY <4>1, <3>2, <3>3, <2>1, BeginsEqual
                <5>2. x # key
                    BY <3>1, <2>6, <1>7, KeysDiffer DEF key, N
                <5> QED
                    BY <5>1, <5>2
            <4>3. Len(x) < Len(key)
                BY <4>2, <3>2, <3>3, <2>1
            <4>4. key[Len(x) + 1] = a
                BY <4>3, <3>1, <3>2, <2>1, <1>3, SameLetter
            <4>5. PICK c : IsChild(nodes, k, a, c) /\ Begins(Key(label, c), key)
                BY <4>1, <4>3, <4>4, <3>1, <1>7, ChildTowards DEF key, N
            <4>6. c \in 1 .. N
                BY <4>5, <3>1, ChildFacts DEF N
            <4>7. Key(label, c) \in Seq(Alphabet)
                BY <4>6, NodeFacts DEF N
            <4>8. Begins(Key(label, c), y)
                BY <4>5, <4>7, <3>1, <3>2, <1>3, BeginsTransitive
            <4> QED
                BY <4>5, <4>8, <3>1, <1>13
        <3>4. CASE ~(Len(x) <= Len(key))
            <4>1. Len(key) < Len(x)
                BY <3>2, <3>4, <2>1
            <4>2. Begins(key, x)
                BY <4>1, <3>1, <3>2, <2>1, <1>3, BeginsBoth
            <4>3. x[Len(key) + 1] = r[1]
                BY <4>1, <3>1, <3>2, <2>1, <1>3, SameLetter
            <4>4. \E c : IsChild(nodes, m, r[1], c)
                BY <4>1, <4>2, <4>3, <3>1, <1>7, ChildTowards DEF key, N
            <4> QED
                BY <4>4 DEF IsChild
        <3> QED
            BY <3>3, <3>4
    <2> QED
        BY <2>2, <2>3, <2>4, <2>5, <2>6
<1> QED
    BY <1>2, <1>9, <1>10, <1>12, <1>14 DEF Spells, label2, N
----------------------------------------------------------------------------
\* ... under which the value is filed, and nothing is lost.
LEMMA HungFiles ==
    ASSUME NEW nodes, NEW nodes2, NEW label, Spells(nodes, label), NEW m \in 1 .. Len(nodes),
           NEW v \in Values,
           NEW r \in Seq(Alphabet), r # <<>>, r[1] \notin DOMAIN nodes[m].children,
           NEW w, Joined(Key(label, m), r, w),
           Hung(nodes, nodes2, m, r, v)
    PROVE  FilesMore(nodes, label, nodes2, Extended(label, Len(nodes), w), w, v)
<1> DEFINE N == Len(nodes)
           s == N + 1
           label2 == Extended(label, N, w)
<1>1. nodes \in Seq(TrieKind) /\ label \in [1 .. N -> Seq(Alphabet)]
    BY DEF Spells, TrieTyped
<1>2. /\ Len(nodes2) = s /\ N \in Nat
      /\ \A n \in 1 .. N : nodes2[n].isLeaf = nodes[n].isLeaf /\ nodes2[n].value = nodes[n].value
      /\ nodes2[s] = Leaf(r, v)
    <2>1. HungShape(nodes, nodes2, m, r, v)
        BY <1>1, HungFacts
    <2> QED
        BY <2>1 DEF HungShape
<1>3. Key(label2, s) = w /\ \A k \in 1 .. N : Key(label2, k) = Key(label, k)
    <2>1. Key(label, m) \in Seq(Alphabet)
        BY NodeFacts
    <2>2. w \in Seq(Alphabet)
        BY <2>1, JoinFacts
    <2>3. N \in Nat /\ label \in [1 .. N -> Seq(Alphabet)]
        BY <1>1, <1>2
    <2> HIDE DEF N
    <2> QED
        BY <2>2, <2>3, ExtendedFacts, ZenonT(60) DEF label2, s
<1> HIDE DEF label2, N
<1>4. s \in 1 .. s /\ \A k \in 1 .. s : k # s => k \in 1 .. N
    BY <1>2
<1>5. \A k \in 1 .. N : k \in 1 .. s
    BY <1>2
<1> HIDE DEF s
<1>6. nodes2[s].isLeaf /\ nodes2[s].value = v
    BY <1>2 DEF Leaf, TrieNode
<1>7. FilesIt(nodes2, label2, w, v)
    BY <1>2, <1>3, <1>4, <1>6, Zenon DEF FilesIt
<1>8. ASSUME NEW x, NEW u, x # w, FilesIt(nodes, label, x, u) PROVE FilesIt(nodes2, label2, x, u)
    <2>1. CASE \E n \in 1 .. N : Key(label, n) = x /\ nodes[n].isLeaf /\ u = nodes[n].value
        <3>1. PICK n \in 1 .. N : Key(label, n) = x /\ nodes[n].isLeaf /\ u = nodes[n].value
            BY <2>1
        <3>2. n \in 1 .. Len(nodes2) /\ Key(label2, n) = x /\ nodes2[n].isLeaf /\ u = nodes2[n].value
            BY <3>1, <1>2, <1>3, <1>5
        <3> QED
            BY <3>2, Zenon DEF FilesIt
    <2>2. CASE u = undefined /\ \A n \in 1 .. N : Key(label, n) = x => ~nodes[n].isLeaf
        <3>1. ASSUME NEW n \in 1 .. Len(nodes2), Key(label2, n) = x PROVE ~nodes2[n].isLeaf
            <4>1. n # s
                BY <3>1, <1>3, <1>8
            <4>2. n \in 1 .. N
                BY <4>1, <1>2, <1>4
            <4> QED
                BY <4>2, <3>1, <2>2, <1>2, <1>3
        <3> QED
            BY <3>1, <2>2, Zenon DEF FilesIt
    <2> QED
        BY <1>8, <2>1, <2>2, Zenon DEF FilesIt, N
<1> QED
    BY <1>7, <1>8, Zenon DEF FilesMore, label2, N

\* The parent is a fork if it had a child.
LEMMA HungForks ==
    ASSUME NEW nodes \in Seq(TrieKind), NEW nodes2, NEW m \in 1 .. Len(nodes), NEW v \in Values,
           NEW r \in Seq(Alphabet), r # <<>>, r[1] \notin DOMAIN nodes[m].children,
           Hung(nodes, nodes2, m, r, v),
           NEW X \in SUBSET {m}, m \in X => DOMAIN nodes[m].children # {}, Forks(nodes, X)
    PROVE  Forks(nodes2, {})
<1> DEFINE s == Len(nodes) + 1
<1>1. /\ Len(nodes2) = s /\ Len(nodes) \in Nat
      /\ \A n \in 1 .. Len(nodes) :
            nodes2[n].isLeaf = nodes[n].isLeaf /\ (n # m => nodes2[n] = nodes[n])
      /\ DOMAIN nodes2[m].children = DOMAIN nodes[m].children \cup {r[1]}
      /\ nodes2[s] = Leaf(r, v)
    <2>1. HungShape(nodes, nodes2, m, r, v)
        BY HungFacts
    <2> QED
        BY <2>1 DEF HungShape
<1>2. \A n \in 2 .. s : n # s => n \in 1 .. Len(nodes) /\ n \in 2 .. Len(nodes)
    BY <1>1
<1> HIDE DEF s
<1>3. ASSUME NEW n \in 2 .. s
      PROVE  nodes2[n].isLeaf \/ \E a, b \in DOMAIN nodes2[n].children : a # b
    <2>1. CASE n = s
        BY <2>1, <1>1 DEF Leaf, TrieNode
    <2>2. CASE n # s /\ n # m
        <3>1. nodes2[n] = nodes[n] /\ n \notin X /\ n \in 2 .. Len(nodes)
            BY <2>2, <1>1, <1>2
        <3> QED
            BY <3>1 DEF Forks
    <2>3. CASE n # s /\ n = m
        <3>1. n \in 2 .. Len(nodes) /\ nodes2[n].isLeaf = nodes[n].isLeaf
            BY <2>3, <1>1, <1>2
        <3>2. nodes[n].isLeaf \/ \E b \in DOMAIN nodes[m].children : b # r[1]
            <4>1. \A b \in DOMAIN nodes[m].children : b # r[1]
                OBVIOUS
            <4>2. m \in X \/ nodes[n].isLeaf \/ \E a, b \in DOMAIN nodes[n].children : a # b
                BY <3>1, <2>3 DEF Forks
            <4> QED
                BY <4>1, <4>2, <2>3
        <3> QED
            BY <3>1, <3>2, <2>3, <1>1
    <2> QED
        BY <2>1, <2>2, <2>3
<1> QED
    BY <1>1, <1>3, Zenon DEF Forks

----------------------------------------------------------------------------
\* The child c is cut after k characters.
MayCut(nodes, c, k) ==
    /\ nodes \in Seq(TrieKind) /\ c \in 1 .. Len(nodes)
    /\ k \in Nat /\ 0 < k /\ k < Len(nodes[c].prefix)

CutOff(nodes, nodes2, c, k) ==
    nodes2 = Append([nodes EXCEPT ![c] = Shortened(nodes[c], k, Len(nodes) + 1)],
                    [nodes[c] EXCEPT !.prefix = After(@, k)])

\* The nodes with a child cut
CutShape(nodes, nodes2, c, k) ==
    LET s == Len(nodes) + 1
        left == After(nodes[c].prefix, k)
    IN  /\ nodes2 \in Seq(TrieKind) /\ Len(nodes2) = s /\ Len(nodes) \in Nat
        /\ \A n \in 1 .. Len(nodes) : n # c => nodes2[n] = nodes[n]
        /\ nodes2[c].prefix = SubSeq(nodes[c].prefix, 1, k)
        /\ ~nodes2[c].isLeaf
        /\ DOMAIN nodes2[c].children = {left[1]} /\ nodes2[c].children[left[1]] = s
        /\ nodes2[s].prefix = left
        /\ nodes2[s].isLeaf = nodes[c].isLeaf /\ nodes2[s].value = nodes[c].value
        /\ nodes2[s].children = nodes[c].children

\* Only the child that is cut is changed, and what it was is the new node.
LEMMA CutOffFacts ==
    ASSUME NEW nodes, NEW nodes2, NEW c, NEW k, MayCut(nodes, c, k), CutOff(nodes, nodes2, c, k)
    PROVE  CutShape(nodes, nodes2, c, k)
<1> DEFINE node == nodes[c]
           prefix == node.prefix
           s == Len(nodes) + 1
           left == After(prefix, k)
           first == SubSeq(prefix, 1, k)
           short == Shortened(node, k, s)
           split == [node EXCEPT !.prefix = left]
           nodes1 == [nodes EXCEPT ![c] = short]
           ch == SetChild(<< >>, left, s)
<1>1. nodes \in Seq(TrieKind) /\ c \in 1 .. Len(nodes) /\ k \in Nat /\ 0 < k /\ k < Len(prefix)
    BY DEF MayCut
<1>2. node \in TrieKind /\ Len(nodes) \in Nat /\ s \in Nat
    BY <1>1, ElementOfSeq, LenProperties
<1>3. nodes2 = Append(nodes1, split)
    BY DEF CutOff
<1>4. short = TrieNode(first, FALSE, undefined, ch)
    BY DEF Shortened
<1>5. prefix \in Seq(Alphabet)
    BY <1>2, KindFacts
<1> HIDE DEF node, prefix, short, ch
<1>6. first \in Seq(Alphabet) /\ left \in Seq(Alphabet) /\ left # <<>>
    <2>1. k <= Len(prefix)
        BY <1>1, <1>5, LenProperties
    <2> QED
        BY <2>1, <1>1, <1>5, CutJoins
<1> HIDE DEF first, left, s
<1>7. left[1] \in Alphabet /\ ch \in [{left[1]} -> Nat] /\ ch[left[1]] = s /\ IsFiniteSet({left[1]})
    <2>1. ChildSet({}, << >>, left, s, ch)
        <3>1. IsFiniteSet({}) /\ << >> \in [{} -> Nat] /\ {} \in SUBSET Alphabet
            BY FS_EmptySet
        <3> QED
            BY <3>1, <1>2, <1>6 DEF ChildSet, ch
    <2>2. ChildSetShape({}, << >>, left, s, ch)
        BY <2>1, SetChildFacts
    <2>3. {} \cup {left[1]} = {left[1]}
        OBVIOUS
    <2> QED
        BY <2>2, <2>3 DEF ChildSetShape
<1>8. short \in TrieKind /\ short.prefix = first /\ ~short.isLeaf /\ short.children = ch
    <2>1. {left[1]} \in SUBSET Alphabet
        BY <1>7
    <2>2. short \in TrieKind
        BY <2>1, <1>4, <1>6, <1>7, KindOf
    <2> QED
        BY <2>2, <1>4 DEF TrieNode
<1>9. split \in TrieKind /\ split.prefix = left /\ split.isLeaf = node.isLeaf
      /\ split.value = node.value /\ split.children = node.children
    BY <1>2, <1>6 DEF TrieKind
<1> HIDE DEF split
<1>10. /\ nodes1 \in Seq(TrieKind) /\ Len(nodes1) = Len(nodes)
       /\ \A n \in 1 .. Len(nodes) : nodes1[n] = IF n = c THEN short ELSE nodes[n]
    BY <1>1, <1>8, ExceptSeq
<1> HIDE DEF nodes1
<1>11. /\ nodes2 \in Seq(TrieKind) /\ Len(nodes2) = Len(nodes1) + 1
       /\ \A n \in 1 .. Len(nodes1) : nodes2[n] = nodes1[n]
       /\ nodes2[Len(nodes1) + 1] = split
    BY <1>3, <1>9, <1>10, AppendProperties
<1>12. /\ Len(nodes2) = s /\ nodes2[c] = short /\ nodes2[s] = split
       /\ \A n \in 1 .. Len(nodes) : n # c => nodes2[n] = nodes[n]
    BY <1>1, <1>10, <1>11 DEF s
<1>13. DOMAIN ch = {left[1]}
    BY <1>7
<1> QED
    BY <1>2, <1>7, <1>8, <1>9, <1>11, <1>12, <1>13 DEF CutShape, node, prefix, first, left, s
----------------------------------------------------------------------------
\* The child c of m, under a, is cut after k characters; cut is its new key.
Cuts(nodes, nodes2, label, m, a, c, k, cut) ==
    /\ Spells(nodes, label)
    /\ m \in 1 .. Len(nodes)
    /\ IsChild(nodes, m, a, c)
    /\ MayCut(nodes, c, k)
    /\ CutOff(nodes, nodes2, c, k)
    /\ Joined(Key(label, m), SubSeq(Prefix(nodes, c), 1, k), cut)

\* The keys of the nodes: the new node has the one of c.
CutKeys(label, n, c, cut) ==
    [i \in 1 .. n + 1 |-> IF i = n + 1 THEN label[c] ELSE IF i = c THEN cut ELSE label[i]]

\* Where the new key is
CutKeyShape(nodes, label, m, a, c, k, cut) ==
    LET key == Key(label, m)
        full == Key(label, c)
        left == After(Prefix(nodes, c), k)
    IN  /\ key \in Seq(Alphabet) /\ full \in Seq(Alphabet) /\ cut \in Seq(Alphabet)
        /\ Len(key) \in Nat /\ Len(cut) \in Nat /\ Len(full) \in Nat
        /\ Begins(key, cut) /\ Begins(key, full) /\ Begins(cut, full)
        /\ Len(key) < Len(cut) /\ Len(cut) < Len(full)
        /\ cut[Len(key) + 1] = a /\ full[Len(key) + 1] = a
        /\ left \in Seq(Alphabet) /\ left # <<>> /\ full[Len(cut) + 1] = left[1]
        /\ Joined(cut, left, full)

\* The new key is between the one of the parent and the old one.
LEMMA CutKeyFacts ==
    ASSUME NEW nodes, NEW nodes2, NEW label, NEW m, NEW a, NEW c, NEW k, NEW cut,
           Cuts(nodes, nodes2, label, m, a, c, k, cut)
    PROVE  CutKeyShape(nodes, label, m, a, c, k, cut)
<1> DEFINE key == Key(label, m)
           full == Key(label, c)
           prefix == Prefix(nodes, c)
           first == SubSeq(prefix, 1, k)
           left == After(prefix, k)
<1>1. /\ Spells(nodes, label) /\ m \in 1 .. Len(nodes) /\ IsChild(nodes, m, a, c)
      /\ k \in Nat /\ 0 < k /\ k < Len(prefix) /\ Joined(key, first, cut)
    BY DEF Cuts, MayCut, Prefix
<1>2. /\ c \in 1 .. Len(nodes) /\ prefix \in Seq(Alphabet) /\ prefix # <<>> /\ prefix[1] = a
      /\ Len(prefix) \in Nat /\ Joined(key, prefix, full)
    BY <1>1, ChildFacts
<1>3. key \in Seq(Alphabet) /\ full \in Seq(Alphabet) /\ Len(key) \in Nat /\ Len(full) \in Nat
    BY <1>1, <1>2, NodeFacts
<1> HIDE DEF key, full, prefix
<1>4. /\ first \in Seq(Alphabet) /\ Len(first) = k
      /\ left \in Seq(Alphabet) /\ Len(left) = Len(prefix) - k
      /\ Joined(first, left, prefix) /\ left # <<>>
    <2>1. k <= Len(prefix)
        BY <1>1, <1>2
    <2> QED
        BY <2>1, <1>1, <1>2, CutJoins
<1> HIDE DEF first, left
<1>5. first # <<>>
    BY <1>1, <1>4, EmptySeq
<1>6. Joined(cut, left, full)
    BY <1>1, <1>2, <1>3, <1>4, JoinJoin
<1>7. cut \in Seq(Alphabet) /\ Begins(key, cut) /\ Len(key) < Len(cut)
    BY <1>1, <1>3, <1>4, <1>5, JoinFacts
<1>8. Begins(key, full) /\ full[Len(key) + 1] = a
    BY <1>2, <1>3, JoinFacts
<1>9. Begins(cut, full) /\ Len(cut) < Len(full) /\ full[Len(cut) + 1] = left[1]
    BY <1>4, <1>6, <1>7, JoinFacts
<1>10. cut[Len(key) + 1] = a
    BY <1>3, <1>7, <1>8, <1>9, SameLetter
<1>11. Len(cut) \in Nat
    BY <1>7, LenProperties
<1> QED
    BY <1>3, <1>4, <1>6, <1>7, <1>8, <1>9, <1>10, <1>11 DEF CutKeyShape, key, full, prefix, left

\* Beyond m, under a, every key goes on from the one of c.
LEMMA ThroughChild ==
    ASSUME NEW nodes, NEW label, Spells(nodes, label), NEW m \in 1 .. Len(nodes), NEW a, NEW c,
           IsChild(nodes, m, a, c), NEW n \in 1 .. Len(nodes),
           Begins(Key(label, m), Key(label, n)), Len(Key(label, m)) < Len(Key(label, n)),
           Key(label, n)[Len(Key(label, m)) + 1] = a
    PROVE  Begins(Key(label, c), Key(label, n))
<1>1. \E d : IsChild(nodes, m, a, d) /\ Begins(Key(label, d), Key(label, n))
    BY ChildTowards
<1> QED
    BY <1>1 DEF IsChild

\* The keys with the new one
CutKeysShape(label, N, c, cut) ==
    LET label2 == CutKeys(label, N, c, cut)
    IN  /\ label2 \in [1 .. N + 1 -> Seq(Alphabet)]
        /\ Key(label2, N + 1) = Key(label, c) /\ Key(label2, c) = cut
        /\ \A i \in 1 .. N : i # c => Key(label2, i) = Key(label, i)

\* Only the key of the child that is cut changes.
LEMMA CutKeysFacts ==
    ASSUME NEW N \in Nat, NEW label \in [1 .. N -> Seq(Alphabet)], NEW c \in 1 .. N,
           NEW cut \in Seq(Alphabet)
    PROVE  CutKeysShape(label, N, c, cut)
<1>1. N + 1 \in 1 .. N + 1 /\ \A i \in 1 .. N : i \in 1 .. N + 1 /\ i # N + 1
    OBVIOUS
<1>2. \A i \in 1 .. N + 1 : i # N + 1 => i \in 1 .. N
    OBVIOUS
<1> QED
    BY <1>1, <1>2 DEF CutKeysShape, CutKeys, Key

\* Every node is where the prefixes spell its key once a child is cut.
LEMMA CutSpells ==
    ASSUME NEW nodes, NEW nodes2, NEW label, NEW m, NEW a, NEW c, NEW k, NEW cut,
           Cuts(nodes, nodes2, label, m, a, c, k, cut)
    PROVE  Spells(nodes2, CutKeys(label, Len(nodes), c, cut))
<1> DEFINE N == Len(nodes)
           s == N + 1
           label2 == CutKeys(label, N, c, cut)
           key == Key(label, m)
           full == Key(label, c)
           left == After(Prefix(nodes, c), k)
           first == SubSeq(Prefix(nodes, c), 1, k)
           old(n) == IF n = s THEN c ELSE n
<1>1. /\ Spells(nodes, label) /\ m \in 1 .. N /\ IsChild(nodes, m, a, c)
      /\ MayCut(nodes, c, k) /\ CutOff(nodes, nodes2, c, k) /\ Joined(key, first, cut)
    BY DEF Cuts
<1>2. /\ key \in Seq(Alphabet) /\ full \in Seq(Alphabet) /\ cut \in Seq(Alphabet)
      /\ Len(key) \in Nat /\ Len(cut) \in Nat /\ Len(full) \in Nat
      /\ Begins(key, cut) /\ Begins(key, full) /\ Begins(cut, full)
      /\ Len(key) < Len(cut) /\ Len(cut) < Len(full)
      /\ cut[Len(key) + 1] = a /\ full[Len(key) + 1] = a
      /\ left # <<>> /\ full[Len(cut) + 1] = left[1] /\ Joined(cut, left, full)
    <2>1. CutKeyShape(nodes, label, m, a, c, k, cut)
        BY CutKeyFacts
    <2> QED
        BY <2>1 DEF CutKeyShape
<1>3. /\ nodes2 \in Seq(TrieKind) /\ Len(nodes2) = s /\ N \in Nat
      /\ \A n \in 1 .. N : n # c => nodes2[n] = nodes[n]
      /\ Prefix(nodes2, c) = first
      /\ DOMAIN nodes2[c].children = {left[1]} /\ nodes2[c].children[left[1]] = s
      /\ Prefix(nodes2, s) = left
      /\ nodes2[s].children = nodes[c].children
    <2>1. CutShape(nodes, nodes2, c, k)
        BY <1>1, CutOffFacts
    <2> QED
        BY <2>1 DEF CutShape, Prefix
<1>4. label \in [1 .. N -> Seq(Alphabet)] /\ Key(label, 1) = <<>> /\ 1 \in 1 .. N
    BY <1>1, NodesFacts DEF Spells, TrieTyped, Key
<1>5. c \in 1 .. N /\ c # 1
    BY <1>1, ChildFacts
<1>6. /\ label2 \in [1 .. s -> Seq(Alphabet)]
      /\ Key(label2, s) = full /\ Key(label2, c) = cut
      /\ \A i \in 1 .. N : i # c => Key(label2, i) = Key(label, i)
    <2>1. CutKeysShape(label, N, c, cut)
        BY <1>2, <1>3, <1>4, <1>5, CutKeysFacts
    <2> QED
        BY <2>1 DEF CutKeysShape
<1> HIDE DEF label2, key, full, left, first
<1>7. s \in 1 .. s /\ s # c /\ (\A n \in 1 .. s : n # s => n \in 1 .. N)
      /\ \A n \in 1 .. N : n \in 1 .. s /\ n # s
    <2> HIDE DEF N
    <2> QED
        BY <1>3, <1>5
<1> HIDE DEF s, N
\* But for c, a node is where it was: the new one where c was.
<1>8. ASSUME NEW n \in 1 .. s, n # c
      PROVE  /\ old(n) \in 1 .. N /\ Key(label2, n) = Key(label, old(n))
             /\ nodes2[n].children = nodes[old(n)].children
    BY <1>3, <1>5, <1>6, <1>7, <1>8 DEF full
<1>9. ASSUME NEW n \in 1 .. N PROVE Begins(Key(label2, n), Key(label, n))
    <2>1. CASE n = c
        BY <2>1, <1>2, <1>6 DEF full
    <2>2. CASE n # c
        <3>1. Key(label, n) \in Seq(Alphabet)
            BY <1>1, NodeFacts DEF N
        <3> QED
            BY <2>2, <3>1, <1>6, BeginsSelf
    <2> QED
        BY <2>1, <2>2
<1>10. TrieTyped(nodes2, label2)
    <2>1. label2[1] = <<>>
        BY <1>4, <1>5, <1>6 DEF Key
    <2>2. Len(nodes2) > 0
        BY <1>3 DEF s
    <2> QED
        BY <2>1, <2>2, <1>3, <1>6 DEF TrieTyped, Key
<1>11. ASSUME NEW n \in 1 .. N, NEW b, NEW d, IsChild(nodes, n, b, d)
       PROVE  d \in 1 .. N /\ FiledUnder(nodes, label, n, b, d)
    <2>1. d \in 1 .. N
        BY <1>1, <1>11, ChildFacts DEF N
    <2>2. FiledUnder(nodes, label, n, b, d)
        BY <1>1, <1>11, Zenon DEF Spells, IsChild, N
    <2> QED
        BY <2>1, <2>2
<1>12. ASSUME NEW n \in 1 .. s, NEW b \in DOMAIN nodes2[n].children
       PROVE  FiledUnder(nodes2, label2, n, b, nodes2[n].children[b])
    <2>1. CASE n = c
        <3>1. b = left[1] /\ nodes2[n].children[b] = s
            BY <2>1, <1>3
        <3>2. Joined(Key(label2, c), Prefix(nodes2, s), Key(label2, s))
            BY <1>2, <1>3, <1>6
        <3> QED
            BY <3>1, <3>2, <2>1, <1>2, <1>3, <1>7 DEF FiledUnder
    <2>2. CASE n # c
        <3> DEFINE o == old(n)
                   d == nodes[o].children[b]
        <3>1. o \in 1 .. N /\ Key(label2, n) = Key(label, o) /\ nodes2[n].children = nodes[o].children
            BY <2>2, <1>8
        <3> HIDE DEF o
        <3>2. IsChild(nodes, o, b, d) /\ nodes2[n].children[b] = d
            BY <3>1 DEF IsChild
        <3> HIDE DEF d
        <3>3. d \in 1 .. N /\ FiledUnder(nodes, label, o, b, d)
            BY <3>1, <3>2, <1>11
        <3>4. /\ Prefix(nodes, d) # <<>> /\ Prefix(nodes, d)[1] = b
              /\ Joined(Key(label, o), Prefix(nodes, d), Key(label, d))
            BY <3>3 DEF FiledUnder
        <3>5. d \in 1 .. Len(nodes2)
            BY <3>3, <1>3, <1>7
        <3>6. CASE d # c
            <4>1. Prefix(nodes2, d) = Prefix(nodes, d) /\ Key(label2, d) = Key(label, d)
                BY <3>3, <3>6, <1>3, <1>6 DEF Prefix
            <4> QED
                BY <4>1, <3>1, <3>2, <3>4, <3>5 DEF FiledUnder
        <3>7. CASE d = c
            <4> DEFINE x == Key(label, o)
                       p == Prefix(nodes, c)
            <4>1. x \in Seq(Alphabet) /\ Len(x) \in Nat /\ p \in Seq(Alphabet) /\ Len(p) \in Nat
                  /\ Joined(key, p, full) /\ p[1] = a
                BY <3>1, <1>1, NodeFacts, ChildFacts DEF N, key, full
            <4>2. Joined(x, p, full)
                BY <3>4, <3>7 DEF full
            <4>3. b = a
                BY <3>4, <3>7, <4>1
            <4> HIDE DEF x, p
            <4>4. Begins(x, full) /\ Len(full) = Len(x) + Len(p) /\ Len(full) = Len(key) + Len(p)
                BY <4>1, <4>2, <1>2, JoinFacts
            <4>5. Len(x) = Len(key)
                BY <4>1, <4>4, <1>2
            <4>6. Begins(x, key)
                BY <4>1, <4>4, <4>5, <1>2, BeginsBoth
            <4>7. x = key
                BY <4>1, <4>5, <4>6, <1>2, BeginsEqual
            <4>8. Joined(Key(label2, n), Prefix(nodes2, c), Key(label2, c))
                BY <4>7, <3>1, <1>1, <1>3, <1>6 DEF x
            <4>9. Prefix(nodes2, c) # <<>> /\ Prefix(nodes2, c)[1] = a
                <5>1. first # <<>>
                    <6>1. first = <<>> => cut = key
                        BY <1>1, <1>2, JoinEmpty
                    <6> QED
                        BY <6>1, <1>2
                <5>2. first \in Seq(Alphabet)
                    <6>1. k \in Nat /\ k <= Len(p)
                        BY <1>1, <4>1 DEF MayCut, p, Prefix
                    <6> QED
                        BY <6>1, <4>1, CutJoins DEF first, p
                <5>3. cut[Len(key) + 1] = first[1]
                    BY <5>1, <5>2, <1>1, <1>2, JoinFacts
                <5> QED
                    BY <5>1, <5>3, <1>2, <1>3
            <4> QED
                BY <4>3, <4>8, <4>9, <3>2, <3>5, <3>7 DEF FiledUnder
        <3> QED
            BY <3>6, <3>7
    <2> QED
        BY <2>1, <2>2
\* No other node is at the cut.
<1>13. ASSUME NEW n \in 1 .. N PROVE Key(label, n) # cut
    <2>1. SUFFICES ASSUME Key(label, n) = cut PROVE FALSE
        OBVIOUS
    <2>2. Begins(full, cut)
        BY <2>1, <1>1, <1>2, ThroughChild DEF key, full, N
    <2> QED
        BY <2>2, <1>2 DEF Begins
<1>14. ASSUME NEW n \in 1 .. s, NEW i \in 1 .. s, Key(label2, n) = Key(label2, i) PROVE n = i
    <2>1. CASE n # c /\ i # c
        <3>1. old(n) = old(i)
            <4>1. old(n) \in 1 .. N /\ old(i) \in 1 .. N /\ Key(label, old(n)) = Key(label, old(i))
                BY <2>1, <1>8, <1>14
            <4> HIDE DEF old
            <4> QED
                BY <4>1, <1>1, KeysDiffer DEF N
        <3> QED
            BY <3>1, <2>1
    <2>2. CASE n = c \/ i = c
        <3>1. \A j \in 1 .. s : j # c => Key(label2, j) # cut
            <4> SUFFICES ASSUME NEW j \in 1 .. s, j # c PROVE Key(label2, j) # cut
                OBVIOUS
            <4>1. old(j) \in 1 .. N /\ Key(label2, j) = Key(label, old(j))
                BY <1>8
            <4> HIDE DEF old
            <4> QED
                BY <4>1, <1>13
        <3> QED
            BY <3>1, <2>2, <1>6, <1>14
    <2> QED
        BY <2>1, <2>2
<1>15. ASSUME NEW n \in 1 .. s, NEW i \in 1 .. s, Above(label2, n, i)
       PROVE  LeadsTo(nodes2, label2, n, i)
    <2> DEFINE x == Key(label2, n)
               y == Key(label2, i)
               b == y[Len(x) + 1]
    <2>1. Begins(x, y) /\ Len(x) < Len(y) /\ x \in Seq(Alphabet) /\ y \in Seq(Alphabet)
          /\ Len(x) \in Nat /\ Len(y) \in Nat
        <3>1. x \in Seq(Alphabet) /\ y \in Seq(Alphabet)
            BY <1>6 DEF Key
        <3> QED
            BY <3>1, <1>15, LenProperties DEF Above
    <2> SUFFICES \E d : IsChild(nodes2, n, b, d) /\ Begins(Key(label2, d), y)
        BY DEF LeadsTo, IsChild
    <2> HIDE DEF x, y
    \* A child that leads towards a key still does.
    <2>2. ASSUME n # c, NEW z, z \in Seq(Alphabet), NEW d,
                 IsChild(nodes, old(n), b, d), Begins(Key(label, d), z)
          PROVE  IsChild(nodes2, n, b, d) /\ Begins(Key(label2, d), z) /\ d \in 1 .. N
        <3>1. old(n) \in 1 .. N /\ nodes2[n].children = nodes[old(n)].children
            BY <2>2, <1>8
        <3> HIDE DEF old
        <3>2. d \in 1 .. N
            BY <3>1, <2>2, <1>11
        <3>3. Begins(Key(label2, d), Key(label, d))
            BY <3>2, <1>9
        <3>4. Key(label, d) \in Seq(Alphabet) /\ Key(label2, d) \in Seq(Alphabet)
            BY <3>2, <1>1, <1>6, <1>7, NodeFacts DEF N, Key
        <3>5. Begins(Key(label2, d), z)
            BY <3>3, <3>4, <2>2, BeginsTransitive
        <3> QED
            BY <3>1, <3>2, <3>5, <2>2 DEF IsChild
    <2>3. CASE n # c /\ i # c
        <3>1. old(n) \in 1 .. N /\ old(i) \in 1 .. N /\ x = Key(label, old(n)) /\ y = Key(label, old(i))
            BY <2>3, <1>8 DEF x, y
        <3> HIDE DEF old
        <3>2. PICK d : IsChild(nodes, old(n), b, d) /\ Begins(Key(label, d), y)
            BY <3>1, <2>1, <1>1, ChildTowards DEF N
        <3> QED
            BY <3>2, <2>1, <2>2, <2>3
    <2>4. CASE n # c /\ i = c
        <3>1. old(n) \in 1 .. N /\ x = Key(label, old(n)) /\ y = cut
            BY <2>4, <1>6, <1>8 DEF x, y
        <3> HIDE DEF old
        <3>2. Begins(x, full) /\ Len(x) < Len(full) /\ full[Len(x) + 1] = b
            <4>1. Begins(x, full) /\ Len(x) < Len(full)
                BY <3>1, <2>1, <1>2, BeginsTransitive
            <4>2. cut[Len(x) + 1] = full[Len(x) + 1]
                BY <3>1, <2>1, <1>2, SameLetter
            <4> QED
                BY <4>1, <4>2, <3>1
        <3>3. PICK d : IsChild(nodes, old(n), b, d) /\ Begins(Key(label, d), full)
            BY <3>1, <3>2, <1>1, <1>5, ChildTowards DEF N, full
        <3>4. IsChild(nodes2, n, b, d) /\ d \in 1 .. N
            BY <3>3, <1>2, <2>2, <2>4
        <3>5. CASE d = c
            BY <3>1, <3>4, <3>5, <1>2, <1>6, BeginsSelf
        <3>6. CASE d # c
            <4> DEFINE z == Key(label, d)
            <4>1. z \in Seq(Alphabet) /\ Len(z) \in Nat /\ Key(label2, d) = z
                BY <3>4, <3>6, <1>1, <1>6, NodeFacts DEF N
            <4> SUFFICES Begins(z, cut)
                BY <3>1, <3>4, <4>1
            <4>2. Begins(z, full)
                BY <3>3
            <4>3. CASE Len(z) <= Len(cut)
                <5> HIDE DEF z
                <5> QED
                    BY <4>1, <4>2, <4>3, <1>2, BeginsBoth
            <4>4. CASE ~(Len(z) <= Len(cut))
                <5> HIDE DEF z
                <5>1. Len(key) < Len(z)
                    BY <4>1, <4>4, <1>2
                <5>2. Begins(key, z)
                    BY <4>1, <4>2, <5>1, <1>2, BeginsBoth
                <5>3. z[Len(key) + 1] = a
                    BY <4>1, <4>2, <5>1, <1>2, SameLetter
                <5>4. Begins(full, z)
                    BY <5>1, <5>2, <5>3, <3>4, <1>1, ThroughChild DEF z, key, full, N
                <5>5. Len(z) <= Len(full)
                    BY <4>2 DEF Begins
                <5>6. full = z
                    BY <4>1, <5>4, <5>5, <1>2, BeginsEqual
                <5>7. d = c
                    BY <5>6, <3>4, <1>1, <1>5, KeysDiffer DEF z, full, N
                <5> QED
                    BY <5>7, <3>6
            <4> QED
                BY <4>3, <4>4
        <3> QED
            BY <3>5, <3>6
    <2>5. CASE n = c /\ i # c
        <3>1. old(i) \in 1 .. N /\ x = cut /\ y = Key(label, old(i))
            BY <2>5, <1>6, <1>8 DEF x, y
        <3> HIDE DEF old
        <3>2. Begins(key, y) /\ Len(key) < Len(y)
            BY <3>1, <2>1, <1>2, BeginsTransitive
        <3>3. y[Len(key) + 1] = a
            BY <3>1, <2>1, <1>2, SameLetter
        <3>4. Begins(full, y)
            BY <3>1, <3>2, <3>3, <1>1, ThroughChild DEF y, key, full, N
        <3>5. b = left[1]
            <4>1. full[Len(x) + 1] = y[Len(x) + 1]
                BY <3>1, <3>4, <2>1, <1>2, SameLetter
            <4> QED
                BY <4>1, <3>1, <1>2
        <3>6. IsChild(nodes2, c, left[1], s) /\ Key(label2, s) = full
            BY <1>3, <1>6 DEF IsChild
        <3> QED
            BY <3>4, <3>5, <3>6, <2>5
    <2>6. CASE n = c /\ i = c
        BY <2>6, <2>1 DEF x, y
    <2> QED
        BY <2>3, <2>4, <2>5, <2>6
<1> QED
    BY <1>3, <1>10, <1>12, <1>14, <1>15 DEF Spells, label2, N
----------------------------------------------------------------------------
\* Nothing filed is lost when a node is cut.
LEMMA CutFiles ==
    ASSUME NEW nodes, NEW nodes2, NEW label, NEW m, NEW a, NEW c, NEW k, NEW cut,
           Cuts(nodes, nodes2, label, m, a, c, k, cut),
           NEW x, NEW u, FilesIt(nodes, label, x, u)
    PROVE  FilesIt(nodes2, CutKeys(label, Len(nodes), c, cut), x, u)
<1> DEFINE N == Len(nodes)
           s == N + 1
           label2 == CutKeys(label, N, c, cut)
<1> SUFFICES FilesIt(nodes2, label2, x, u)
    OBVIOUS
<1>1. /\ Spells(nodes, label) /\ m \in 1 .. N /\ IsChild(nodes, m, a, c)
      /\ MayCut(nodes, c, k) /\ CutOff(nodes, nodes2, c, k)
    BY DEF Cuts
<1>2. /\ Len(nodes2) = s /\ N \in Nat
      /\ \A n \in 1 .. N : n # c => nodes2[n] = nodes[n]
      /\ ~nodes2[c].isLeaf
      /\ nodes2[s].isLeaf = nodes[c].isLeaf /\ nodes2[s].value = nodes[c].value
    <2>1. CutShape(nodes, nodes2, c, k)
        BY <1>1, CutOffFacts
    <2> QED
        BY <2>1 DEF CutShape
<1>3. c \in 1 .. N
    BY <1>1, ChildFacts
<1>4. /\ Key(label2, s) = Key(label, c)
      /\ \A i \in 1 .. N : i # c => Key(label2, i) = Key(label, i)
    <2>1. cut \in Seq(Alphabet)
        <3>1. CutKeyShape(nodes, label, m, a, c, k, cut)
            BY CutKeyFacts
        <3> QED
            BY <3>1 DEF CutKeyShape
    <2>2. label \in [1 .. N -> Seq(Alphabet)]
        BY <1>1 DEF Spells, TrieTyped
    <2>3. CutKeysShape(label, N, c, cut)
        BY <2>1, <2>2, <1>2, <1>3, CutKeysFacts
    <2> QED
        BY <2>3 DEF CutKeysShape
<1> HIDE DEF label2, N
<1>5. /\ s \in 1 .. s /\ \A n \in 1 .. N : n \in 1 .. s
      /\ \A n \in 1 .. s : n # s => n \in 1 .. N
    BY <1>2
<1> HIDE DEF s
<1>6. CASE \E n \in 1 .. N : Key(label, n) = x /\ nodes[n].isLeaf /\ u = nodes[n].value
    <2>1. PICK n \in 1 .. N : Key(label, n) = x /\ nodes[n].isLeaf /\ u = nodes[n].value
        BY <1>6
    <2>2. CASE n = c
        <3>1. Key(label2, s) = x /\ nodes2[s].isLeaf /\ u = nodes2[s].value /\ s \in 1 .. Len(nodes2)
            BY <2>1, <2>2, <1>2, <1>4, <1>5
        <3> QED
            BY <3>1, Zenon DEF FilesIt
    <2>3. CASE n # c
        <3>1. Key(label2, n) = x /\ nodes2[n].isLeaf /\ u = nodes2[n].value /\ n \in 1 .. Len(nodes2)
            BY <2>1, <2>3, <1>2, <1>4, <1>5
        <3> QED
            BY <3>1, Zenon DEF FilesIt
    <2> QED
        BY <2>2, <2>3
<1>7. CASE u = undefined /\ \A n \in 1 .. N : Key(label, n) = x => ~nodes[n].isLeaf
    <2>1. ASSUME NEW n \in 1 .. Len(nodes2), Key(label2, n) = x PROVE ~nodes2[n].isLeaf
        <3>1. CASE n = c
            BY <3>1, <1>2
        <3>2. CASE n = s
            BY <3>2, <2>1, <1>2, <1>3, <1>4, <1>7
        <3>3. CASE n # c /\ n # s
            <4>1. n \in 1 .. N
                BY <3>3, <1>2, <1>5
            <4> QED
                BY <4>1, <3>3, <2>1, <1>2, <1>4, <1>7
        <3> QED
            BY <3>1, <3>2, <3>3
    <2> QED
        BY <2>1, <1>7, Zenon DEF FilesIt
<1> QED
    BY <1>6, <1>7, Zenon DEF FilesIt, N

\* The node that is cut is no fork yet; the new one is as the old one was.
LEMMA CutForks ==
    ASSUME NEW nodes, NEW nodes2, NEW c, NEW k, MayCut(nodes, c, k), CutOff(nodes, nodes2, c, k),
           c # 1, Forks(nodes, {})
    PROVE  Forks(nodes2, {c})
<1> DEFINE N == Len(nodes)
           s == N + 1
<1>1. /\ Len(nodes2) = s /\ N \in Nat
      /\ \A n \in 1 .. N : n # c => nodes2[n] = nodes[n]
      /\ nodes2[s].isLeaf = nodes[c].isLeaf
      /\ nodes2[s].children = nodes[c].children
    <2>1. CutShape(nodes, nodes2, c, k)
        BY CutOffFacts
    <2> QED
        BY <2>1 DEF CutShape
<1>2. c \in 1 .. N
    BY DEF MayCut
<1>3. c \in 2 .. N
    BY <1>1, <1>2
<1>4. \A n \in 2 .. s : n # s => n \in 2 .. N /\ n \in 1 .. N
    BY <1>1
<1> HIDE DEF s
<1>5. ASSUME NEW n \in 2 .. Len(nodes2), n # c
      PROVE  nodes2[n].isLeaf \/ \E a, b \in DOMAIN nodes2[n].children : a # b
    <2>1. CASE n = s
        <3>1. nodes[c].isLeaf \/ \E a, b \in DOMAIN nodes[c].children : a # b
            BY <1>3 DEF Forks
        <3> QED
            BY <3>1, <2>1, <1>1
    <2>2. CASE n # s
        <3>1. n \in 2 .. N /\ nodes2[n] = nodes[n]
            BY <2>2, <1>1, <1>4, <1>5
        <3>2. nodes[n].isLeaf \/ \E a, b \in DOMAIN nodes[n].children : a # b
            BY <3>1 DEF Forks
        <3> QED
            BY <3>1, <3>2
    <2> QED
        BY <2>1, <2>2
<1> QED
    BY <1>5, Zenon DEF Forks
----------------------------------------------------------------------------
\* An element replaced before or after another is added
LEMMA AddedThenReplaced ==
    ASSUME NEW S, NEW q \in Seq(S), NEW i \in 1 .. Len(q), NEW x \in S, NEW y \in S, NEW z \in S
    PROVE  LET q1 == Append([q EXCEPT ![i] = x], y)
           IN  /\ q1 \in Seq(S) /\ Len(q1) = Len(q) + 1 /\ i \in 1 .. Len(q1) /\ q1[i] = x
               /\ [q1 EXCEPT ![i] = z] = Append([q EXCEPT ![i] = z], y)
<1> DEFINE p1 == [q EXCEPT ![i] = x]
           q1 == Append(p1, y)
           p2 == [q EXCEPT ![i] = z]
           q2 == Append(p2, y)
           q3 == [q1 EXCEPT ![i] = z]
<1>1. /\ p1 \in Seq(S) /\ Len(p1) = Len(q) /\ \A j \in 1 .. Len(q) : p1[j] = IF j = i THEN x ELSE q[j]
      /\ p2 \in Seq(S) /\ Len(p2) = Len(q) /\ \A j \in 1 .. Len(q) : p2[j] = IF j = i THEN z ELSE q[j]
    BY ExceptSeq
<1>2. Len(q) \in Nat
    BY LenProperties
<1> HIDE DEF p1, p2
<1>3. /\ q1 \in Seq(S) /\ Len(q1) = Len(q) + 1 /\ \A j \in 1 .. Len(q) : q1[j] = p1[j]
      /\ q1[Len(q) + 1] = y
      /\ q2 \in Seq(S) /\ Len(q2) = Len(q) + 1 /\ \A j \in 1 .. Len(q) : q2[j] = p2[j]
      /\ q2[Len(q) + 1] = y
    <2>1. /\ p1 \in Seq(S) /\ Len(p1) = Len(q)
          /\ p2 \in Seq(S) /\ Len(p2) = Len(q)
        BY <1>1
    <2>2. /\ q1 \in Seq(S) /\ Len(q1) = Len(p1) + 1 /\ \A j \in 1 .. Len(p1) : q1[j] = p1[j]
          /\ q1[Len(p1) + 1] = y
        BY <2>1, AppendProperties
    <2>3. /\ q2 \in Seq(S) /\ Len(q2) = Len(p2) + 1 /\ \A j \in 1 .. Len(p2) : q2[j] = p2[j]
          /\ q2[Len(p2) + 1] = y
        BY <2>1, AppendProperties
    <2> HIDE DEF q1, q2
    <2> QED
        BY <2>1, <2>2, <2>3
<1> HIDE DEF q1, q2
<1>4. i \in 1 .. Len(q1)
    BY <1>2, <1>3
<1>5. /\ q3 \in Seq(S) /\ Len(q3) = Len(q1) /\ \A j \in 1 .. Len(q1) : q3[j] = IF j = i THEN z ELSE q1[j]
    BY <1>3, <1>4, ExceptSeq
<1> HIDE DEF q3
<1>6. ASSUME NEW j \in 1 .. Len(q3) PROVE q3[j] = q2[j]
    <2>1. j \in 1 .. Len(q) \/ j = Len(q) + 1
        BY <1>2, <1>3, <1>5
    <2>2. i # Len(q) + 1
        BY <1>2
    <2> QED
        BY <2>1, <2>2, <1>1, <1>2, <1>3, <1>5
<1>7. q3 = q2
    BY <1>3, <1>5, <1>6, SeqEqual
<1> QED
    BY <1>1, <1>3, <1>4, <1>7 DEF q1, q2, q3, p1, p2

LEMMA AddedTwice ==
    ASSUME NEW S, NEW q \in Seq(S), NEW x \in S, NEW y \in S
    PROVE  Append(Append(q, x), y) = q \o <<x, y>>
<1> DEFINE p == Append(Append(q, x), y)
           e == <<x, y>>
           r == q \o e
<1>1. /\ p \in Seq(S) /\ Len(p) = Len(q) + 1 + 1
      /\ \A j \in 1 .. Len(q) : p[j] = q[j]
      /\ p[Len(q) + 1] = x /\ p[Len(q) + 2] = y
    <2> DEFINE p1 == Append(q, x)
               p2 == Append(p1, y)
    <2>1. /\ p1 \in Seq(S) /\ Len(p1) = Len(q) + 1 /\ \A j \in 1 .. Len(q) : p1[j] = q[j]
          /\ p1[Len(q) + 1] = x /\ Len(q) \in Nat
        BY AppendProperties, LenProperties
    <2> HIDE DEF p1
    <2>2. /\ p2 \in Seq(S) /\ Len(p2) = Len(p1) + 1 /\ \A j \in 1 .. Len(p1) : p2[j] = p1[j]
          /\ p2[Len(p1) + 1] = y
        BY <2>1, AppendProperties
    <2> HIDE DEF p2
    <2>3. p2 = p
        BY DEF p2, p1
    <2> HIDE DEF p
    <2> QED
        BY <2>1, <2>2, <2>3
<1>2. e \in Seq(S) /\ Len(e) = 2 /\ e[1] = x /\ e[2] = y
    OBVIOUS
<1>3. Len(q) \in Nat
    BY LenProperties
<1> HIDE DEF p, e
<1>4. /\ r \in Seq(S) /\ Len(r) = Len(q) + 2
      /\ \A j \in 1 .. Len(q) + 2 : r[j] = IF j <= Len(q) THEN q[j] ELSE e[j - Len(q)]
    <2>1. /\ r \in Seq(S) /\ Len(r) = Len(q) + Len(e)
          /\ \A j \in 1 .. Len(q) + Len(e) : r[j] = IF j <= Len(q) THEN q[j] ELSE e[j - Len(q)]
        BY <1>2, ConcatProperties, Zenon
    <2> HIDE DEF r
    <2> QED
        BY <2>1, <1>2
<1> HIDE DEF r
<1>5. ASSUME NEW j \in 1 .. Len(p) PROVE p[j] = r[j]
    <2>1. j \in 1 .. Len(q) \/ j = Len(q) + 1 \/ j = Len(q) + 2
        BY <1>1, <1>3
    <2>2. CASE j \in 1 .. Len(q)
        BY <2>2, <1>1, <1>3, <1>4
    <2>3. CASE j = Len(q) + 1
        BY <2>3, <1>1, <1>2, <1>3, <1>4, SMTT(60)
    <2>4. CASE j = Len(q) + 2
        BY <2>4, <1>1, <1>2, <1>3, <1>4
    <2> QED
        BY <2>1, <2>2, <2>3, <2>4
<1> QED
    BY <1>1, <1>3, <1>4, <1>5, SeqEqual DEF p, r, e

----------------------------------------------------------------------------
\* The nodes after an insertion
TrieInserted(nodes, label, nodes2, w, v) ==
    \E label2 : Spells(nodes2, label2) /\ Forks(nodes2, {}) /\ FilesMore(nodes, label, nodes2, label2, w, v)

\* The key ends at a node there is.
LEMMA EndsHereFacts ==
    ASSUME NEW label, Spells(trieNodes, label), Forks(trieNodes, {}), NEW place \in Places,
           NEW w, LeadsThere(label, place, w), NEW v \in Values, EndsHere(place, v)
    PROVE  TrieInserted(trieNodes, label, trieNodes', w, v)
<1> DEFINE m == place.curr
           nodes2 == trieNodes'
<1>1. m \in 1 .. Len(trieNodes) /\ Joined(Key(label, m), <<>>, w)
    BY PlaceFacts DEF LeadsThere, EndsHere
<1>2. w = Key(label, m)
    BY <1>1, NodeFacts, JoinEmpty
<1>3. Ended(trieNodes, nodes2, m, v)
    BY DEF EndsHere, Ended
<1>4. trieNodes \in Seq(TrieKind)
    BY DEF Spells, TrieTyped
<1> HIDE DEF m, nodes2
<1>5. Spells(nodes2, label) /\ FilesMore(trieNodes, label, nodes2, label, w, v)
    BY <1>1, <1>2, <1>3, EndedSpells, EndedFiles
<1>6. Forks(nodes2, {})
    <2>1. {} \in SUBSET {m}
        OBVIOUS
    <2> QED
        BY <2>1, <1>1, <1>3, <1>4, EndedForks
<1> QED
    BY <1>5, <1>6 DEF TrieInserted, nodes2

\* Nothing begins as the rest of the key does.
LEMMA NewChildFacts ==
    ASSUME NEW label, Spells(trieNodes, label), Forks(trieNodes, {}), NEW place \in Places,
           NEW w, LeadsThere(label, place, w), NEW v \in Values, NewChild(place, v)
    PROVE  TrieInserted(trieNodes, label, trieNodes', w, v)
<1> DEFINE m == place.curr
           r == place.remaining
           nodes2 == trieNodes'
           label2 == Extended(label, Len(trieNodes), w)
<1>1. /\ m \in 1 .. Len(trieNodes) /\ r \in Seq(Alphabet) /\ r # <<>> /\ Len(r) \in Nat /\ Len(r) > 0
      /\ Joined(Key(label, m), r, w)
    BY PlaceFacts DEF LeadsThere, NewChild
<1>2. Hung(trieNodes, nodes2, m, r, v)
    BY DEF NewChild, Hung
<1>3. trieNodes \in Seq(TrieKind)
    BY DEF Spells, TrieTyped
<1>4. r[1] \notin DOMAIN trieNodes[m].children
    <2> SUFFICES ASSUME r[1] \in DOMAIN trieNodes[m].children PROVE FALSE
        OBVIOUS
    <2> DEFINE c == trieNodes[m].children[r[1]]
               p == Prefix(trieNodes, c)
    <2>1. IsChild(trieNodes, m, r[1], c)
        BY DEF IsChild
    <2> HIDE DEF c
    <2>2. p \in Seq(Alphabet) /\ Len(p) > 0 /\ Len(p) \in Nat /\ p[1] = r[1]
        BY <2>1, <1>1, ChildFacts
    <2>3. commonLen(place, r[1]) = getCommonPrefixLength(r, p) /\ r[1] \in DOMAIN Children(place)
        BY DEF commonLen, Children, ChildPrefix, Prefix, c
    <2> DEFINE k == getCommonPrefixLength(r, p)
    <2> HIDE DEF p, r, m
    <2>4. k \in Nat /\ (k < Len(r) /\ k < Len(p) => r[k + 1] # p[k + 1])
        BY <2>2, <1>1, CommonFacts
    <2> HIDE DEF k
    <2>5. k > 0
        BY <2>2, <2>4, <1>1
    <2>6. r[1] \in Matched(place)
        BY <2>3, <2>5 DEF Matched, k
    <2> QED
        BY <2>6 DEF NewChild
<1> HIDE DEF m, r, nodes2
<1>5. Spells(nodes2, label2) /\ FilesMore(trieNodes, label, nodes2, label2, w, v)
    BY <1>1, <1>2, <1>4, HungSpells, HungFiles
<1>6. Forks(nodes2, {})
    <2>1. {} \in SUBSET {m} /\ m \notin {}
        OBVIOUS
    <2> QED
        BY <2>1, <1>1, <1>2, <1>3, <1>4, HungForks
<1> QED
    BY <1>5, <1>6 DEF TrieInserted, nodes2
----------------------------------------------------------------------------
\* Two steps that lose nothing lose nothing.
LEMMA FilesAfterCut ==
    ASSUME NEW nodes, NEW nodes1, NEW nodes2, NEW label, NEW label1, NEW label2, NEW w, NEW v,
           \A x, u : FilesIt(nodes, label, x, u) => FilesIt(nodes1, label1, x, u),
           FilesMore(nodes1, label1, nodes2, label2, w, v)
    PROVE  FilesMore(nodes, label, nodes2, label2, w, v)
    BY Zenon DEF FilesMore

\* What the cut leaves: the nodes, their keys, and the node cut
CutDone(nodes, label, nodes1, label1, c, cut, left) ==
    /\ Spells(nodes1, label1) /\ Forks(nodes1, {c})
    /\ \A x, u : FilesIt(nodes, label, x, u) => FilesIt(nodes1, label1, x, u)
    /\ nodes1 \in Seq(TrieKind) /\ c \in 1 .. Len(nodes1)
    /\ Key(label1, c) = cut
    /\ DOMAIN nodes1[c].children = {left[1]}

\* The cut is only half of the step.
LEMMA CutDoneFacts ==
    ASSUME NEW nodes, NEW nodes1, NEW label, Forks(nodes, {}),
           NEW m, NEW a, NEW c, NEW k, NEW cut,
           Cuts(nodes, nodes1, label, m, a, c, k, cut)
    PROVE  CutDone(nodes, label, nodes1, CutKeys(label, Len(nodes), c, cut), c, cut,
                   After(Prefix(nodes, c), k))
<1> DEFINE label1 == CutKeys(label, Len(nodes), c, cut)
<1>1. /\ Spells(nodes, label) /\ m \in 1 .. Len(nodes) /\ IsChild(nodes, m, a, c)
      /\ MayCut(nodes, c, k) /\ CutOff(nodes, nodes1, c, k)
    BY DEF Cuts
<1>2. Spells(nodes1, label1) /\ \A x, u : FilesIt(nodes, label, x, u) => FilesIt(nodes1, label1, x, u)
    BY CutSpells, CutFiles
<1>3. c \in 1 .. Len(nodes) /\ c # 1
    BY <1>1, ChildFacts
<1>4. Forks(nodes1, {c})
    BY <1>1, <1>3, CutForks
<1>5. /\ nodes1 \in Seq(TrieKind) /\ Len(nodes1) = Len(nodes) + 1 /\ Len(nodes) \in Nat
      /\ DOMAIN nodes1[c].children = {After(Prefix(nodes, c), k)[1]}
    <2>1. CutShape(nodes, nodes1, c, k)
        BY <1>1, CutOffFacts
    <2> QED
        BY <2>1 DEF CutShape, Prefix
<1>6. c \in 1 .. Len(nodes1)
    BY <1>3, <1>5
<1>7. Key(label1, c) = cut
    <2>1. cut \in Seq(Alphabet)
        <3>1. CutKeyShape(nodes, label, m, a, c, k, cut)
            BY CutKeyFacts
        <3> QED
            BY <3>1 DEF CutKeyShape
    <2>2. label \in [1 .. Len(nodes) -> Seq(Alphabet)]
        BY <1>1 DEF Spells, TrieTyped
    <2>3. CutKeysShape(label, Len(nodes), c, cut)
        BY <2>1, <2>2, <1>3, <1>5, CutKeysFacts
    <2> QED
        BY <2>3 DEF CutKeysShape
<1> QED
    BY <1>2, <1>4, <1>5, <1>6, <1>7 DEF CutDone

\* The child of m under a is cut and the key ends there, ...
LEMMA CutAndEnded ==
    ASSUME NEW nodes, NEW nodes1, NEW nodes2, NEW label, Forks(nodes, {}),
           NEW m, NEW a, NEW c, NEW k, NEW w, Cuts(nodes, nodes1, label, m, a, c, k, w),
           NEW v \in Values, Ended(nodes1, nodes2, c, v)
    PROVE  TrieInserted(nodes, label, nodes2, w, v)
<1> DEFINE label1 == CutKeys(label, Len(nodes), c, w)
           left == After(Prefix(nodes, c), k)
<1>1. CutDone(nodes, label, nodes1, label1, c, w, left)
    BY CutDoneFacts
<1> HIDE DEF label1, left
<1>2. /\ Spells(nodes1, label1) /\ Forks(nodes1, {c}) /\ nodes1 \in Seq(TrieKind)
      /\ \A x, u : FilesIt(nodes, label, x, u) => FilesIt(nodes1, label1, x, u)
      /\ c \in 1 .. Len(nodes1) /\ Key(label1, c) = w
    BY <1>1, Zenon DEF CutDone
<1>3. Spells(nodes2, label1) /\ FilesMore(nodes1, label1, nodes2, label1, w, v)
    <2>1. FilesMore(nodes1, label1, nodes2, label1, Key(label1, c), v)
        BY <1>2, EndedFiles
    <2> QED
        BY <2>1, <1>2, EndedSpells
<1>4. Forks(nodes2, {})
    <2>1. {c} \in SUBSET {c}
        OBVIOUS
    <2> QED
        BY <2>1, <1>2, EndedForks
<1>5. FilesMore(nodes, label, nodes2, label1, w, v)
    BY <1>2, <1>3, FilesAfterCut
<1> QED
    BY <1>3, <1>4, <1>5, Zenon DEF TrieInserted

\* ... or the rest of the key hangs below.
LEMMA CutAndHung ==
    ASSUME NEW nodes, NEW nodes1, NEW nodes2, NEW label, Forks(nodes, {}),
           NEW m, NEW a, NEW c, NEW k, NEW cut, Cuts(nodes, nodes1, label, m, a, c, k, cut),
           NEW v \in Values, NEW r \in Seq(Alphabet), r # <<>>, r[1] # After(Prefix(nodes, c), k)[1],
           NEW w, Joined(cut, r, w), Hung(nodes1, nodes2, c, r, v)
    PROVE  TrieInserted(nodes, label, nodes2, w, v)
<1> DEFINE label1 == CutKeys(label, Len(nodes), c, cut)
           left == After(Prefix(nodes, c), k)
           label2 == Extended(label1, Len(nodes1), w)
<1>1. CutDone(nodes, label, nodes1, label1, c, cut, left)
    BY CutDoneFacts
<1>2. r[1] # left[1]
    OBVIOUS
<1> HIDE DEF label1, left
<1>3. /\ Spells(nodes1, label1) /\ Forks(nodes1, {c}) /\ nodes1 \in Seq(TrieKind)
      /\ \A x, u : FilesIt(nodes, label, x, u) => FilesIt(nodes1, label1, x, u)
      /\ c \in 1 .. Len(nodes1) /\ Key(label1, c) = cut
      /\ DOMAIN nodes1[c].children = {left[1]}
    BY <1>1, Zenon DEF CutDone
<1>4. r[1] \notin DOMAIN nodes1[c].children /\ DOMAIN nodes1[c].children # {}
    BY <1>2, <1>3
<1>5. Joined(Key(label1, c), r, w)
    BY <1>3
<1>6. Spells(nodes2, label2) /\ FilesMore(nodes1, label1, nodes2, label2, w, v)
    BY <1>3, <1>4, <1>5, HungSpells, HungFiles
<1>7. Forks(nodes2, {})
    <2>1. {c} \in SUBSET {c}
        OBVIOUS
    <2> QED
        BY <2>1, <1>3, <1>4, HungForks
<1> HIDE DEF label2
<1>8. FilesMore(nodes, label, nodes2, label2, w, v)
    BY <1>3, <1>6, FilesAfterCut
<1> QED
    BY <1>6, <1>7, <1>8, Zenon DEF TrieInserted

----------------------------------------------------------------------------
\* The nodes once the child c is cut after k characters
CutNodes(nodes, c, k) ==
    Append([nodes EXCEPT ![c] = Shortened(nodes[c], k, Len(nodes) + 1)],
           [nodes[c] EXCEPT !.prefix = After(@, k)])

\* An element replaced, and one or two added
With(q, i, z) == [q EXCEPT ![i] = z]
Added(q, y) == Append(q, y)
Both(q, y, t) == q \o <<y, t>>

\* The same with what is added and replaced of any kind
LEMMA ReplacedOnce ==
    ASSUME NEW S, NEW q \in Seq(S), NEW i \in 1 .. Len(q), NEW x, NEW y, NEW z, NEW t, NEW q1,
           q1 = Added(With(q, i, x), y)
    PROVE  /\ Len(q1) = Len(q) + 1 /\ i \in DOMAIN q1 /\ q1[i] = x
           /\ With(q1, i, z) = Added(With(q, i, z), y)
           /\ Added(With(q1, i, z), t) = Both(With(q, i, z), y, t)
<1> DEFINE T == S \cup {x, y, z, t}
           q2 == With(q, i, z)
<1>1. q \in Seq(T) /\ x \in T /\ y \in T /\ z \in T /\ t \in T
    <2>1. \A j \in 1 .. Len(q) : q[j] \in T
        BY ElementOfSeq
    <2> HIDE DEF T
    <2>2. q \in Seq(T)
        BY <2>1
    <2> QED
        BY <2>2 DEF T
<1> HIDE DEF T
<1>2. /\ q1 \in Seq(T) /\ Len(q1) = Len(q) + 1 /\ i \in 1 .. Len(q1) /\ q1[i] = x
      /\ With(q1, i, z) = Added(q2, y)
    BY <1>1, AddedThenReplaced DEF With, Added
<1>3. q2 \in Seq(T)
    BY <1>1, ExceptSeq DEF With
<1> HIDE DEF q2
<1>4. Added(Added(q2, y), t) = Both(q2, y, t)
    BY <1>1, <1>3, AddedTwice DEF Both, Added
<1>5. i \in DOMAIN q1
    BY <1>2, LenProperties
<1> QED
    BY <1>2, <1>4, <1>5 DEF q2

\* What Split does beyond the cut
LEMMA SplitFacts ==
    ASSUME NEW nodes, NEW c, NEW k, MayCut(nodes, c, k), NEW v \in Values
    PROVE  LET s == Len(nodes) + 1
               short == Shortened(nodes[c], k, s)
               splitNode == [nodes[c] EXCEPT !.prefix = After(@, k)]
               nodes1 == CutNodes(nodes, c, k)
           IN  /\ Ended(nodes1, Append([nodes EXCEPT ![c] = [short EXCEPT !.isLeaf = TRUE, !.value = v]],
                                       splitNode), c, v)
               /\ \A r \in Seq(Alphabet) : r # <<>> =>
                    Hung(nodes1, [nodes EXCEPT ![c] = [short EXCEPT !.children = SetChild(@, r, s + 1)]]
                                    \o <<splitNode, Leaf(r, v)>>, c, r, v)
<1> DEFINE s == Len(nodes) + 1
           short == Shortened(nodes[c], k, s)
           splitNode == [nodes[c] EXCEPT !.prefix = After(@, k)]
           nodes1 == CutNodes(nodes, c, k)
<1>1. nodes \in Seq(TrieKind) /\ c \in 1 .. Len(nodes)
    BY DEF MayCut
<1>2. nodes1 = Added(With(nodes, c, short), splitNode)
    BY DEF CutNodes, With, Added
<1> HIDE DEF short, splitNode, nodes1, s
<1>3. Len(nodes1) = s /\ c \in DOMAIN nodes1 /\ nodes1[c] = short
    BY <1>1, <1>2, ReplacedOnce DEF s
<1>4. Ended(nodes1, Append([nodes EXCEPT ![c] = [short EXCEPT !.isLeaf = TRUE, !.value = v]], splitNode), c, v)
    <2> DEFINE z == [short EXCEPT !.isLeaf = TRUE, !.value = v]
    <2>1. [nodes1 EXCEPT ![c].isLeaf = TRUE, ![c].value = v] = With(nodes1, c, z)
        BY <1>3 DEF With
    <2> HIDE DEF z
    <2>2. With(nodes1, c, z) = Added(With(nodes, c, z), splitNode)
        BY <1>1, <1>2, ReplacedOnce
    <2>3. [nodes1 EXCEPT ![c].isLeaf = TRUE, ![c].value = v] = Append([nodes EXCEPT ![c] = z], splitNode)
        BY <2>1, <2>2 DEF With, Added
    <2> QED
        BY <2>3 DEF Ended, z
<1>5. ASSUME NEW r \in Seq(Alphabet)
      PROVE  Hung(nodes1, [nodes EXCEPT ![c] = [short EXCEPT !.children = SetChild(@, r, s + 1)]]
                            \o <<splitNode, Leaf(r, v)>>, c, r, v)
    <2> DEFINE z == [short EXCEPT !.children = SetChild(@, r, s + 1)]
               leaf == Leaf(r, v)
    <2>1. [nodes1 EXCEPT ![c].children = SetChild(@, r, Len(nodes1) + 1)] = With(nodes1, c, z)
        BY <1>3 DEF With
    <2> HIDE DEF z, leaf
    <2>2. Added(With(nodes1, c, z), leaf) = Both(With(nodes, c, z), splitNode, leaf)
        BY <1>1, <1>2, ReplacedOnce
    <2>3. Append([nodes1 EXCEPT ![c].children = SetChild(@, r, Len(nodes1) + 1)], leaf)
            = [nodes EXCEPT ![c] = z] \o <<splitNode, leaf>>
        BY <2>1, <2>2 DEF With, Added, Both
    <2> QED
        BY <2>3 DEF Hung, z, leaf
<1> QED
    BY <1>4, <1>5 DEF short, splitNode, nodes1, s

\* The rest of the key and the prefix of a child part after a few letters.
LEMMA SplitChild ==
    ASSUME NEW label, Spells(trieNodes, label), Forks(trieNodes, {}), NEW place \in ReachEnds,
           NEW w, LeadsThere(label, place, w), NEW v \in Values,
           NEW a \in Matched(place), Split(place, a, v)
    PROVE  TrieInserted(trieNodes, label, trieNodes', w, v)
<1> DEFINE m == place.curr
           r == place.remaining
           c == Children(place)[a]
           p == Prefix(trieNodes, c)
           k == commonLen(place, a)
           first == SubSeq(p, 1, k)
           rest == After(r, k)
           left == After(p, k)
           cut == Key(label, m) \o first
           nodes1 == CutNodes(trieNodes, c, k)
           nodes2 == trieNodes'
<1>1. place \in Places /\ Whole(place) = {}
    BY DEF ReachEnds
<1>2. m \in 1 .. Len(trieNodes) /\ r \in Seq(Alphabet) /\ Len(r) \in Nat /\ Joined(Key(label, m), r, w)
    BY <1>1, PlaceFacts DEF LeadsThere
<1>3. IsChild(trieNodes, m, a, c)
    BY DEF Matched, IsChild, Children
<1>4. k > 0 /\ k # Len(p) /\ k = getCommonPrefixLength(r, p)
    BY <1>1 DEF Matched, Whole, commonLen, ChildPrefix, Prefix
<1>5. nodes2 = IF rest = << >>
               THEN Append([trieNodes EXCEPT ![c] = [Shortened(trieNodes[c], k, Len(trieNodes) + 1)
                                                        EXCEPT !.isLeaf = TRUE, !.value = v]],
                           [trieNodes[c] EXCEPT !.prefix = After(@, k)])
               ELSE [trieNodes EXCEPT ![c] = [Shortened(trieNodes[c], k, Len(trieNodes) + 1)
                                                EXCEPT !.children = SetChild(@, rest, Len(trieNodes) + 1 + 1)]]
                      \o <<[trieNodes[c] EXCEPT !.prefix = After(@, k)], Leaf(rest, v)>>
    BY DEF Split
<1> HIDE DEF c, k, m, r, nodes2
<1>6. /\ c \in 1 .. Len(trieNodes) /\ p \in Seq(Alphabet) /\ Len(p) \in Nat
      /\ Key(label, m) \in Seq(Alphabet) /\ trieNodes \in Seq(TrieKind)
    BY <1>2, <1>3, ChildFacts, NodeFacts DEF Spells, TrieTyped
<1> HIDE DEF p
<1>8. /\ k \in Nat /\ k <= Len(r) /\ k <= Len(p) /\ \A i \in 1 .. k : r[i] = p[i]
      /\ k < Len(r) /\ k < Len(p) => r[k + 1] # p[k + 1]
    BY <1>2, <1>4, <1>6, CommonFacts, SMTT(60)
<1>9. MayCut(trieNodes, c, k) /\ k < Len(p)
    BY <1>4, <1>6, <1>8 DEF MayCut, p, Prefix
<1>10. /\ first \in Seq(Alphabet) /\ Joined(first, left, p) /\ left[1] = p[k + 1]
    BY <1>6, <1>8, <1>9, CutJoins
<1>11. /\ rest \in Seq(Alphabet) /\ Joined(first, rest, r)
       /\ rest # <<>> => rest[1] = r[k + 1] /\ k < Len(r)
    <2> DEFINE first2 == SubSeq(r, 1, k)
    <2>1. /\ first2 \in Seq(Alphabet) /\ Len(first2) = k /\ Begins(first2, r)
          /\ rest \in Seq(Alphabet) /\ Len(rest) = Len(r) - k /\ Joined(first2, rest, r)
          /\ k < Len(r) => rest[1] = r[k + 1]
        BY <1>2, <1>8, CutJoins
    <2>2. Len(first) = k /\ Begins(first, p)
        BY <1>6, <1>8, CutJoins
    <2> HIDE DEF first, first2, rest
    <2>3. first = first2
        <3>1. \A i \in 1 .. k : first[i] = first2[i]
            BY <2>1, <2>2, <1>8 DEF Begins
        <3> QED
            BY <3>1, <2>1, <2>2, <1>10, SeqEqual
    <2>4. rest # <<>> => k < Len(r)
        <3>1. rest # <<>> => Len(rest) # 0
            BY <2>1, EmptySeq
        <3> QED
            BY <3>1, <2>1, <1>2, <1>8
    <2> QED
        BY <2>1, <2>3, <2>4
<1> HIDE DEF first, rest, left
<1>12. Joined(Key(label, m), first, cut)
    BY DEF Joined
<1> HIDE DEF cut
<1>13. Joined(cut, rest, w)
    BY <1>2, <1>6, <1>10, <1>11, <1>12, JoinJoin
<1>14. CutOff(trieNodes, nodes1, c, k)
    BY DEF CutOff, CutNodes
<1>15. Cuts(trieNodes, nodes1, label, m, a, c, k, cut)
    BY <1>2, <1>3, <1>9, <1>12, <1>14 DEF Cuts, first, p
<1> HIDE DEF nodes1
<1>16. CASE rest = <<>>
    <2>1. Ended(nodes1, nodes2, c, v)
        BY <1>5, <1>9, <1>16, SplitFacts DEF nodes1
    <2>2. w = cut
        <3>1. cut \in Seq(Alphabet)
            BY <1>6, <1>10, <1>12, JoinFacts
        <3> QED
            BY <3>1, <1>13, <1>16, JoinEmpty
    <2> QED
        BY <2>1, <2>2, <1>15, CutAndEnded DEF nodes2
<1>17. CASE rest # <<>>
    <2>1. Hung(nodes1, nodes2, c, rest, v)
        BY <1>5, <1>9, <1>11, <1>17, SplitFacts DEF nodes1
    <2>2. rest[1] # After(Prefix(trieNodes, c), k)[1]
        BY <1>8, <1>9, <1>10, <1>11, <1>17 DEF left, p
    <2> QED
        BY <2>1, <2>2, <1>11, <1>13, <1>15, <1>17, CutAndHung DEF nodes2
<1> QED
    BY <1>16, <1>17
----------------------------------------------------------------------------
\* Keys spell the way from the root to the nodes, and what is filed under a key
\* is what the map holds.
TrieInv ==
    /\ entries \in [Words -> Values \cup {undefined}]
    /\ \E label :
        /\ Spells(trieNodes, label)
        /\ Forks(trieNodes, {})
        /\ \A w \in Words : FilesIt(trieNodes, label, w, entries[w])

\* The empty index
LEMMA TrieStart == TrieInit => TrieInv
<1> SUFFICES ASSUME TrieInit PROVE TrieInv
    OBVIOUS
<1> DEFINE root == TrieNode(<< >>, FALSE, undefined, << >>)
           label == [n \in 1 .. 1 |-> <<>>]
<1>1. entries \in [Words -> Values \cup {undefined}] /\ \A w \in Words : entries[w] = undefined
    BY DEF TrieInit
<1>2. root \in TrieKind
    <2>1. {} \in SUBSET Alphabet /\ IsFiniteSet({}) /\ << >> \in [{} -> Nat]
        BY FS_EmptySet
    <2>2. << >> \in Seq(Alphabet) /\ undefined \in Values \cup {undefined}
        BY EmptySeq
    <2> QED
        BY <2>1, <2>2, KindOf
<1>3. ~root.isLeaf /\ DOMAIN root.children = {}
    BY DEF TrieNode
<1> HIDE DEF root
<1>4. trieNodes = <<root>>
    BY DEF TrieInit, root
<1>5. trieNodes \in Seq(TrieKind) /\ Len(trieNodes) = 1 /\ trieNodes[1] = root
    BY <1>2, <1>4
<1>6. label \in [1 .. 1 -> Seq(Alphabet)] /\ Key(label, 1) = <<>> /\ Len(Key(label, 1)) = 0
    BY EmptySeq DEF Key
<1> HIDE DEF label
<1>7. \A n \in 1 .. 1 : n = 1
    OBVIOUS
<1>8. Spells(trieNodes, label)
    <2>1. TrieTyped(trieNodes, label)
        BY <1>5, <1>6 DEF TrieTyped
    <2>2. \A m \in 1 .. Len(trieNodes) : DOMAIN trieNodes[m].children = {}
        BY <1>3, <1>5, <1>7
    <2>3. \A m, n \in 1 .. Len(trieNodes) : ~Above(label, m, n) /\ m = n
        BY <1>5, <1>6, <1>7 DEF Above
    <2> QED
        BY <2>1, <2>2, <2>3 DEF Spells
<1>9. Forks(trieNodes, {})
    BY <1>5 DEF Forks
<1>10. \A w \in Words : FilesIt(trieNodes, label, w, entries[w])
    BY <1>1, <1>3, <1>5, <1>7 DEF FilesIt
<1> QED
    BY <1>1, <1>8, <1>9, <1>10 DEF TrieInv

\* Insert files the value under its key.
LEMMA InsertFacts ==
    ASSUME NEW label, Spells(trieNodes, label), Forks(trieNodes, {}),
           NEW w \in Words, NEW v \in Values, insert(w, v)
    PROVE  TrieInserted(trieNodes, label, trieNodes', w, v)
<1> DEFINE place == reached[Start(w)]
<1>1. w \in Seq(Alphabet)
    BY TrieAssumption
<1>2. Start(w) \in Places /\ LeadsThere(label, Start(w), w)
    BY <1>1, StartFacts
<1>3. place \in ReachEnds /\ LeadsThere(label, place, w)
    BY <1>2, ReachedFacts
<1>4. \/ EndsHere(place, v)
      \/ NewChild(place, v)
      \/ \E a \in Matched(place) : Split(place, a, v)
    BY DEF insert
<1> HIDE DEF place
<1>5. place \in Places
    BY <1>3 DEF ReachEnds
<1>6. CASE EndsHere(place, v)
    BY <1>3, <1>5, <1>6, EndsHereFacts
<1>7. CASE NewChild(place, v)
    BY <1>3, <1>5, <1>7, NewChildFacts
<1>8. CASE \E a \in Matched(place) : Split(place, a, v)
    BY <1>3, <1>8, SplitChild
<1> QED
    BY <1>4, <1>6, <1>7, <1>8

\* Every insertion keeps it, ...
LEMMA TrieStep == TrieInv /\ [TrieNext]_trieVars => TrieInv'
<1> SUFFICES ASSUME TrieInv, [TrieNext]_trieVars PROVE TrieInv'
    OBVIOUS
<1>1. CASE UNCHANGED trieVars
    <2>1. trieNodes' = trieNodes /\ entries' = entries
        BY <1>1 DEF trieVars
    <2> QED
        BY <2>1 DEF TrieInv
<1>2. CASE TrieNext
    <2>1. PICK w \in Words, v \in Values : insert(w, v)
        BY <1>2 DEF TrieNext
    <2>2. PICK label :
            /\ Spells(trieNodes, label) /\ Forks(trieNodes, {})
            /\ \A x \in Words : FilesIt(trieNodes, label, x, entries[x])
        BY DEF TrieInv
    <2>3. TrieInserted(trieNodes, label, trieNodes', w, v)
        BY <2>1, <2>2, InsertFacts
    <2> DEFINE nodes2 == trieNodes'
               entries2 == entries'
    <2>4. PICK label2 :
            /\ Spells(nodes2, label2) /\ Forks(nodes2, {})
            /\ FilesMore(trieNodes, label, nodes2, label2, w, v)
        BY <2>3 DEF TrieInserted
    <2>5. entries \in [Words -> Values \cup {undefined}] /\ entries2 = [entries EXCEPT ![w] = v]
        BY <2>1 DEF TrieInv, insert
    <2> HIDE DEF nodes2, entries2
    <2>6. entries2 \in [Words -> Values \cup {undefined}] /\ entries2[w] = v
          /\ \A x \in Words : x # w => entries2[x] = entries[x]
        BY <2>5
    <2>7. ASSUME NEW x \in Words PROVE FilesIt(nodes2, label2, x, entries2[x])
        <3>1. CASE x = w
            BY <3>1, <2>4, <2>6 DEF FilesMore
        <3>2. CASE x # w
            BY <3>2, <2>2, <2>4, <2>6 DEF FilesMore
        <3> QED
            BY <3>1, <3>2
    <2>8. \E l : /\ Spells(nodes2, l) /\ Forks(nodes2, {})
                 /\ \A x \in Words : FilesIt(nodes2, l, x, entries2[x])
        BY <2>4, <2>7
    <2> QED
        BY <2>6, <2>8 DEF TrieInv, nodes2, entries2
<1> QED
    BY <1>1, <1>2

\* ... and lookup reads it back.
LEMMA TrieAgrees == TrieInv => LookupAgrees /\ Compressed
<1> SUFFICES ASSUME TrieInv PROVE LookupAgrees /\ Compressed
    OBVIOUS
<1>1. PICK label :
        /\ Spells(trieNodes, label) /\ Forks(trieNodes, {})
        /\ \A w \in Words : FilesIt(trieNodes, label, w, entries[w])
    BY DEF TrieInv
<1>2. ASSUME NEW w \in Words PROVE lookup(w) = entries[w]
    <2>1. w \in Seq(Alphabet)
        BY TrieAssumption
    <2>2. FilesIt(trieNodes, label, w, lookupBelow[Start(w)])
        BY <2>1, <1>1, StartFacts, LookupFinds
    <2>3. lookupBelow[Start(w)] = entries[w]
        BY <2>2, <1>1, FiledOnce
    <2> QED
        BY <2>3 DEF lookup
<1>3. ASSUME NEW n \in 2 .. Len(trieNodes)
      PROVE  trieNodes[n].isLeaf \/ Cardinality(DOMAIN trieNodes[n].children) > 1
    <2> DEFINE D == DOMAIN trieNodes[n].children
    <2>1. n \in 1 .. Len(trieNodes)
        BY <1>1, NodesFacts
    <2>2. IsFiniteSet(D)
        <3>1. trieNodes[n] \in TrieKind
            BY <2>1, <1>1, NodeFacts
        <3> QED
            BY <3>1, KindFacts
    <2>3. trieNodes[n].isLeaf \/ \E a, b \in D : a # b
        BY <1>1 DEF Forks
    <2> HIDE DEF D
    <2>4. ASSUME NEW a \in D, NEW b \in D, a # b PROVE Cardinality(D) > 1
        <3>1. {a, b} \subseteq D /\ Cardinality({a, b}) = 2 /\ IsFiniteSet({a, b})
            <4>1. IsFiniteSet({a}) /\ Cardinality({a}) = 1
                BY FS_Singleton
            <4>2. Cardinality({a} \cup {b}) = Cardinality({a}) + 1 /\ IsFiniteSet({a} \cup {b})
                <5>1. b \notin {a}
                    BY <2>4
                <5> QED
                    BY <5>1, <4>1, FS_AddElement
            <4>3. {a} \cup {b} = {a, b}
                OBVIOUS
            <4>4. Cardinality({a}) + 1 = 2
                BY <4>1
            <4>5. Cardinality({a, b}) = 2 /\ IsFiniteSet({a, b})
                BY <4>2, <4>3, <4>4, Zenon
            <4>6. {a, b} \subseteq D
                OBVIOUS
            <4> QED
                BY <4>5, <4>6, Zenon
        <3>2. Cardinality({a, b}) <= Cardinality(D) /\ Cardinality(D) \in Nat
            BY <3>1, <2>2, FS_Subset, FS_CardinalityType
        <3> QED
            BY <3>1, <3>2
    <2> QED
        BY <2>3, <2>4 DEF D
<1>4. ASSUME NEW n \in DOMAIN trieNodes, NEW a \in DOMAIN trieNodes[n].children
      PROVE  LET child == trieNodes[trieNodes[n].children[a]]
             IN  child.prefix # << >> /\ child.prefix[1] = a
    <2>1. n \in 1 .. Len(trieNodes)
        BY <1>1, NodesFacts
    <2>2. FiledUnder(trieNodes, label, n, a, trieNodes[n].children[a])
        BY <2>1, <1>1 DEF Spells
    <2> QED
        BY <2>2 DEF FiledUnder, Prefix
<1> QED
    BY <1>2, <1>3, <1>4 DEF LookupAgrees, Compressed

\* In every state of the index lookup finds the value last inserted under a key and
\* nothing under any other, whatever keys were inserted in whatever order, and
\* no node but the root is neither a key nor a fork.
THEOREM TrieCorrect == TrieSpec => [](LookupAgrees /\ Compressed)
<1>1. TrieInit => TrieInv
    BY TrieStart
<1>2. TrieInv /\ [TrieNext]_trieVars => TrieInv'
    BY TrieStep
<1>3. TrieInv => LookupAgrees /\ Compressed
    BY TrieAgrees
<1> QED
    BY <1>1, <1>2, <1>3, PTL DEF TrieSpec
----------------------------------------------------------------------------
(* The B+ tree: any keys, any order of at least two, any insertions.       *)

\* The first n of s, and those behind them
FrontOf(s, n, r) == Len(r) = n /\ \A k \in 1 .. n : r[k] = s[k]
BackOf(s, n, r) == Len(r) = Len(s) - n /\ \A k \in 1 .. Len(s) - n : r[k] = s[n + k]

LEMMA FrontFacts ==
    ASSUME NEW S, NEW s \in Seq(S), NEW n \in 0 .. Len(s)
    PROVE  SubSeq(s, 1, n) \in Seq(S) /\ FrontOf(s, n, SubSeq(s, 1, n))
<1> DEFINE a == SubSeq(s, 1, n)
<1>1. Len(s) \in Nat /\ n \in Nat /\ \A i \in 1 .. n : s[i] \in S
    BY LenProperties, ElementOfSeq
<1>2. a \in Seq(S) /\ Len(a) = n /\ \A i \in 1 .. n : a[i] = s[i]
    BY <1>1, SubSeqProperties
<1> QED
    BY <1>2 DEF FrontOf

LEMMA BackFacts ==
    ASSUME NEW S, NEW s \in Seq(S), NEW n \in 0 .. Len(s)
    PROVE  SubSeq(s, n + 1, Len(s)) \in Seq(S) /\ BackOf(s, n, SubSeq(s, n + 1, Len(s)))
<1> DEFINE l == Len(s)
           b == SubSeq(s, n + 1, l)
<1>1. l \in Nat /\ n \in Nat /\ n <= l
    BY LenProperties
<1>2. \A i \in n + 1 .. l : s[i] \in S
    BY <1>1, ElementOfSeq
<1>3. n + 1 \in Int /\ l \in Int
    BY <1>1
<1>4. /\ b \in Seq(S) /\ Len(b) = IF n + 1 <= l THEN l - (n + 1) + 1 ELSE 0
      /\ \A i \in 1 .. l - (n + 1) + 1 : b[i] = s[(n + 1) + i - 1]
    BY <1>2, <1>3, SubSeqProperties
<1>5. l - (n + 1) + 1 = l - n /\ \A i \in 1 .. l - n : (n + 1) + i - 1 = n + i
    BY <1>1
<1>6. ~(n + 1 <= l) => l - n = 0
    BY <1>1
<1> HIDE DEF b, l
<1>7. b \in Seq(S) /\ Len(b) = l - n /\ \A i \in 1 .. l - n : b[i] = s[n + i]
    BY <1>4, <1>5, <1>6
<1> QED
    BY <1>7 DEF BackOf, b, l

\* What is cut in two is still there.
LEMMA CopiesCut ==
    ASSUME NEW S, NEW s \in Seq(S), NEW n \in 0 .. Len(s),
           NEW a \in Seq(S), FrontOf(s, n, a), NEW b \in Seq(S), BackOf(s, n, b), NEW x
    PROVE  Copies(s, x) = Copies(a, x) + Copies(b, x)
<1> DEFINE l == Len(s)
           shifted == {n + i : i \in At(b, x)}
           f == [i \in At(b, x) |-> n + i]
<1>1. /\ l \in Nat /\ n \in Nat /\ n <= l /\ DOMAIN s = 1 .. l
      /\ DOMAIN a = 1 .. n /\ DOMAIN b = 1 .. l - n
    BY LenProperties DEF FrontOf, BackOf
<1>2. /\ IsFiniteSet(At(a, x)) /\ IsFiniteSet(At(b, x))
      /\ Copies(s, x) = Cardinality(At(s, x)) /\ Copies(a, x) = Cardinality(At(a, x))
      /\ Copies(b, x) = Cardinality(At(b, x)) /\ Copies(b, x) \in Nat /\ Copies(a, x) \in Nat
    BY AtFacts
<1>3. \A i \in At(b, x) : i \in 1 .. l - n
    BY <1>1 DEF At
<1>4. f \in Bijection(At(b, x), shifted)
    <2>1. f \in Injection(At(b, x), shifted)
        <3>1. f \in [At(b, x) -> shifted]
            OBVIOUS
        <3>2. \A i \in At(b, x) : f[i] = n + i /\ i \in Int
            BY <1>3
        <3> HIDE DEF f, shifted
        <3>3. \A i, k \in At(b, x) : f[i] = f[k] => i = k
            BY <3>2, <1>1
        <3> QED
            BY <3>1, <3>3 DEF Injection, IsInjective
    <2>2. f \in Surjection(At(b, x), shifted)
        BY DEF Surjection
    <2> QED
        BY <2>1, <2>2 DEF Bijection
<1>5. IsFiniteSet(shifted) /\ Cardinality(shifted) = Cardinality(At(b, x))
    <2>1. f \in Surjection(At(b, x), shifted)
        BY <1>4, Zenon DEF Bijection
    <2>2. ExistsBijection(At(b, x), shifted)
        BY <1>4, Zenon DEF ExistsBijection
    <2> HIDE DEF f, shifted
    <2>3. IsFiniteSet(shifted)
        BY <2>1, <1>2, FS_Surjection, Zenon
    <2> QED
        BY <2>2, <2>3, <1>2, FS_Bijection, Zenon
<1>6. At(s, x) = At(a, x) \cup shifted
    <2>1. ASSUME NEW i \in At(s, x) PROVE i \in At(a, x) \/ i \in shifted
        <3>1. i \in 1 .. l /\ s[i] = x
            BY <1>1 DEF At
        <3>2. CASE i <= n
            BY <3>1, <3>2, <1>1 DEF At, FrontOf
        <3>3. CASE ~(i <= n)
            <4>1. i - n \in 1 .. l - n /\ n + (i - n) = i
                BY <3>1, <3>3, <1>1
            <4>2. i - n \in At(b, x)
                BY <4>1, <3>1, <1>1 DEF At, BackOf
            <4> QED
                BY <4>1, <4>2
        <3> QED
            BY <3>2, <3>3
    <2>2. ASSUME NEW i \in At(a, x) PROVE i \in At(s, x)
        BY <1>1 DEF At, FrontOf
    <2>3. ASSUME NEW i \in At(b, x) PROVE n + i \in At(s, x)
        BY <1>1 DEF At, BackOf
    <2> QED
        BY <2>1, <2>2, <2>3
<1>7. At(a, x) \cap shifted = {}
    BY <1>1, <1>3 DEF At
<1> HIDE DEF shifted
<1>8. Cardinality(At(a, x) \cup shifted)
        = Cardinality(At(a, x)) + Cardinality(shifted) - Cardinality(At(a, x) \cap shifted)
    BY <1>2, <1>5, FS_Union
<1>9. Cardinality(At(a, x) \cap shifted) = 0
    BY <1>7, FS_EmptySet
<1> QED
    BY <1>2, <1>5, <1>6, <1>8, <1>9

LEMMA CopiesPut ==
    ASSUME NEW S, NEW s \in Seq(S), NEW e \in S, NEW n \in 0 .. Len(s),
           NEW r \in Seq(S), Put(s, n, e, r), NEW x
    PROVE  Copies(r, x) = Copies(s, x) + (IF e = x THEN 1 ELSE 0)
<1> DEFINE l == Len(s)
           u == Append(s, e)
           w == [i \in 1 .. l + 1 |-> IF i <= n THEN i ELSE IF i = n + 1 THEN l + 1 ELSE i - 1]
<1>1. l \in Nat /\ n \in Nat /\ n <= l
    BY LenProperties
<1>2. /\ u \in Seq(S) /\ Len(u) = l + 1 /\ u[l + 1] = e /\ \A i \in 1 .. l : u[i] = s[i]
    BY AppendProperties
<1>3. /\ Len(r) = l + 1 /\ r[n + 1] = e
      /\ \A k \in 1 .. n : r[k] = s[k]
      /\ \A k \in n + 2 .. l + 1 : r[k] = s[k - 1]
    BY DEF Put
<1> HIDE DEF u
<1>4. Moves(w, u, r)
    <2>1. ASSUME NEW i \in 1 .. l + 1 PROVE w[i] \in 1 .. l + 1 /\ r[i] = u[w[i]]
        <3>1. CASE i <= n
            <4>1. w[i] = i /\ i \in 1 .. n /\ i \in 1 .. l
                BY <3>1, <1>1
            <4> QED
                BY <4>1, <1>1, <1>2, <1>3
        <3>2. CASE i = n + 1
            <4>1. w[i] = l + 1
                BY <3>2, <1>1
            <4> QED
                BY <4>1, <3>2, <1>1, <1>2, <1>3
        <3>3. CASE i > n + 1
            <4>1. w[i] = i - 1 /\ i \in n + 2 .. l + 1 /\ i - 1 \in 1 .. l
                BY <3>3, <1>1
            <4>2. r[i] = s[i - 1] /\ u[i - 1] = s[i - 1]
                BY <4>1, <1>2, <1>3
            <4> HIDE DEF w
            <4> QED
                BY <4>1, <4>2, <1>1
        <3> QED
            BY <3>1, <3>2, <3>3, <1>1
    <2>2. ASSUME NEW i \in 1 .. l + 1, NEW k \in 1 .. l + 1, w[i] = w[k] PROVE i = k
        BY <2>2, <1>1
    <2>3. ASSUME NEW i \in 1 .. l + 1 PROVE \E k \in 1 .. l + 1 : w[k] = i
        <3>1. CASE i <= n
            BY <3>1
        <3>2. CASE i = l + 1
            <4>1. n + 1 \in 1 .. l + 1 /\ w[n + 1] = i
                BY <3>2, <1>1
            <4> QED
                BY <4>1
        <3>3. CASE n < i /\ i <= l
            <4>1. i + 1 \in 1 .. l + 1 /\ w[i + 1] = i
                BY <3>3, <1>1
            <4> QED
                BY <4>1
        <3> QED
            BY <3>1, <3>2, <3>3, <1>1
    <2> HIDE DEF w
    <2> QED
        BY <1>2, <1>3, <2>1, <2>2, <2>3 DEF Moves
<1> HIDE DEF w
<1>5. Copies(r, x) = Copies(u, x)
    BY <1>2, <1>4, CopiesMoved
<1> QED
    BY <1>5, CopiesAppend DEF u

Keyed(keys) == \A i, j \in 1 .. Len(keys) : i < j => keys[i] <= keys[j]

\* Keys in the i-th place between those of a node
Between(keys, i, span) ==
    {k \in span : (i > 1 => keys[i - 1] <= k) /\ (i <= Len(keys) => k <= keys[i])}

\* The key can go there.
GoesTo(keys, key, i) ==
    /\ i \in 1 .. Len(keys) + 1
    /\ i > 1 => keys[i - 1] <= key
    /\ i <= Len(keys) => key <= keys[i]

LEMMA PositionFacts ==
    ASSUME NEW keys \in Seq(TreeKeys), NEW key \in TreeKeys
    PROVE  GoesTo(keys, key, Position(keys, key))
<1> DEFINE n == Len(keys)
           T == {0} \cup {i \in DOMAIN keys : keys[i] <= key}
           m == Max(T)
<1>1. /\ n \in Nat /\ DOMAIN keys = 1 .. n /\ key \in Nat
      /\ \A i \in 1 .. n : keys[i] \in Nat
    BY LenProperties, ElementOfSeq, TreeAssumption
<1>2. T \in SUBSET (0 .. n) /\ T # {}
    BY <1>1
<1>3. \E x \in T : \A y \in T : y <= x
    BY <1>1, <1>2, LargestNumber
<1>4. m \in T /\ \A y \in T : y <= m
    <2>1. \E x \in T : \A y \in T : x >= y
        BY <1>2, <1>3
    <2> HIDE DEF T
    <2>2. m \in T /\ \A y \in T : m >= y
        BY <2>1, Zenon DEF Max
    <2> HIDE DEF m
    <2> QED
        BY <2>2, <1>2
<1> HIDE DEF m
<1>5. m \in 0 .. n /\ (m > 0 => keys[m] <= key)
    BY <1>1, <1>4
<1>6. m < n => key <= keys[m + 1]
    <2> SUFFICES ASSUME m < n PROVE key <= keys[m + 1]
        OBVIOUS
    <2>1. m + 1 \in 1 .. n /\ ~(m + 1 <= m)
        BY <1>1, <1>5
    <2>2. m + 1 \notin T
        BY <2>1, <1>4
    <2>3. ~(keys[m + 1] <= key)
        BY <2>1, <2>2, <1>1
    <2> QED
        BY <2>1, <2>3, <1>1
<1>7. Position(keys, key) = m + 1
    BY <1>5 DEF Position, m
<1> DEFINE i == m + 1
<1>8. i \in 1 .. n + 1 /\ i - 1 = m /\ (i > 1 => m > 0) /\ (i <= n => m < n)
    BY <1>1, <1>5
<1>9. GoesTo(keys, key, i)
    <2>1. i > 1 => keys[i - 1] <= key
        BY <1>5, <1>8
    <2>2. i <= Len(keys) => key <= keys[i]
        BY <1>6, <1>8
    <2> HIDE DEF i
    <2> QED
        BY <1>8, <2>1, <2>2 DEF GoesTo
<1> QED
    BY <1>7, <1>9

\* It goes between those before it and those behind.
LEMMA GoesBetween ==
    ASSUME NEW s \in Seq(Nat), Keyed(s), NEW e \in Nat, NEW i, GoesTo(s, e, i)
    PROVE  /\ \A k \in 1 .. i - 1 : s[k] <= e
           /\ \A k \in i .. Len(s) : e <= s[k]
<1>1. Len(s) \in Nat /\ (\A k \in 1 .. Len(s) : s[k] \in Nat) /\ i \in 1 .. Len(s) + 1
    BY LenProperties, ElementOfSeq DEF GoesTo
<1>2. ASSUME NEW k \in 1 .. i - 1 PROVE s[k] <= e
    <2>1. i - 1 \in 1 .. Len(s) /\ k \in 1 .. Len(s) /\ i > 1
        BY <1>1
    <2>2. s[i - 1] <= e
        BY <2>1 DEF GoesTo
    <2>3. k = i - 1 \/ s[k] <= s[i - 1]
        BY <2>1 DEF Keyed
    <2> QED
        BY <2>1, <2>2, <2>3, <1>1
<1>3. ASSUME NEW k \in i .. Len(s) PROVE e <= s[k]
    <2>1. i \in 1 .. Len(s) /\ k \in 1 .. Len(s) /\ i <= Len(s)
        BY <1>1
    <2>2. e <= s[i]
        BY <2>1 DEF GoesTo
    <2>3. k = i \/ s[i] <= s[k]
        BY <2>1 DEF Keyed
    <2> QED
        BY <2>1, <2>2, <2>3, <1>1
<1> QED
    BY <1>2, <1>3

LEMMA KeyedPut ==
    ASSUME NEW s \in Seq(Nat), Keyed(s), NEW e \in Nat, NEW i, GoesTo(s, e, i),
           NEW r, Put(s, i - 1, e, r)
    PROVE  Keyed(r)
<1> DEFINE n == Len(s)
<1>1. n \in Nat /\ (\A k \in 1 .. n : s[k] \in Nat) /\ i \in 1 .. n + 1
    BY LenProperties, ElementOfSeq DEF GoesTo
<1>2. /\ Len(r) = n + 1 /\ r[i] = e
      /\ \A k \in 1 .. i - 1 : r[k] = s[k]
      /\ \A k \in i + 1 .. n + 1 : r[k] = s[k - 1]
    <2>1. (i - 1) + 1 = i /\ (i - 1) + 2 = i + 1
        BY <1>1
    <2> QED
        BY <2>1 DEF Put
<1>3. /\ \A k \in 1 .. i - 1 : s[k] <= e
      /\ \A k \in i .. n : e <= s[k]
    BY GoesBetween
<1> HIDE DEF n
<1>4. ASSUME NEW k \in 1 .. n + 1, NEW j \in 1 .. n + 1, k < j PROVE r[k] <= r[j]
    <2>1. CASE j < i
        <3>1. /\ k \in 1 .. i - 1 /\ j \in 1 .. i - 1 /\ k \in 1 .. n /\ j \in 1 .. n
            BY <1>1, <1>4, <2>1
        <3> QED
            BY <3>1, <1>2, <1>4 DEF Keyed, n
    <2>2. CASE j = i
        <3>1. k \in 1 .. i - 1
            BY <1>1, <1>4, <2>2
        <3> QED
            BY <3>1, <2>2, <1>2, <1>3
    <2>3. CASE j > i
        <3>1. j \in i + 1 .. n + 1 /\ j - 1 \in i .. n /\ j - 1 \in 1 .. n
            BY <1>1, <2>3
        <3>2. r[j] = s[j - 1] /\ e <= s[j - 1]
            BY <3>1, <1>2, <1>3
        <3>3. CASE k < i
            <4>1. k \in 1 .. i - 1 /\ k \in 1 .. n /\ k < j - 1
                BY <1>1, <2>3, <3>3
            <4> QED
                BY <4>1, <3>1, <3>2, <1>2 DEF Keyed, n
        <3>4. CASE k = i
            BY <3>2, <3>4, <1>2
        <3>5. CASE k > i
            <4>1. k \in i + 1 .. n + 1 /\ k - 1 \in 1 .. n /\ k - 1 < j - 1
                BY <1>1, <1>4, <2>3, <3>5
            <4> QED
                BY <4>1, <3>1, <3>2, <1>2 DEF Keyed, n
        <3> QED
            BY <3>3, <3>4, <3>5, <1>1
    <2> QED
        BY <2>1, <2>2, <2>3, <1>1
<1> QED
    BY <1>2, <1>4 DEF Keyed

\* What a key divides that is put in at i
LEMMA BetweenPut ==
    ASSUME NEW s \in Seq(Nat), Keyed(s), NEW e \in Nat, NEW i, GoesTo(s, e, i),
           NEW r, Put(s, i - 1, e, r), NEW span \in SUBSET Nat
    PROVE  /\ Between(r, i, span) = {k \in Between(s, i, span) : k <= e}
           /\ Between(r, i + 1, span) = {k \in Between(s, i, span) : e <= k}
           /\ \A j \in 1 .. i - 1 : Between(r, j, span) = Between(s, j, span)
           /\ \A j \in i + 1 .. Len(s) + 1 : Between(r, j + 1, span) = Between(s, j, span)
<1> DEFINE n == Len(s)
<1>1. n \in Nat /\ (\A k \in 1 .. n : s[k] \in Nat) /\ i \in 1 .. n + 1
    BY LenProperties, ElementOfSeq DEF GoesTo
<1>2. /\ Len(r) = n + 1 /\ r[i] = e
      /\ \A k \in 1 .. i - 1 : r[k] = s[k]
      /\ \A k \in i + 1 .. n + 1 : r[k] = s[k - 1]
    <2>1. (i - 1) + 1 = i /\ (i - 1) + 2 = i + 1
        BY <1>1
    <2> QED
        BY <2>1 DEF Put
<1>3. (i > 1 => s[i - 1] <= e) /\ (i <= n => e <= s[i])
    BY DEF GoesTo
<1> HIDE DEF n
<1>4. i > 1 => r[i - 1] = s[i - 1] /\ s[i - 1] \in Nat
    BY <1>1, <1>2
<1>5. i <= n => r[i + 1] = s[i] /\ s[i] \in Nat
    BY <1>1, <1>2
<1>6. Between(r, i, span) = {k \in Between(s, i, span) : k <= e}
    <2>1. ASSUME NEW k \in span
          PROVE  ((i > 1 => r[i - 1] <= k) /\ (i <= Len(r) => k <= r[i]))
                  <=> ((i > 1 => s[i - 1] <= k) /\ (i <= n => k <= s[i]) /\ k <= e)
        <3>1. k \in Nat
            OBVIOUS
        <3> QED
            BY <3>1, <1>1, <1>2, <1>3, <1>4, <1>5
    <2> QED
        BY <2>1 DEF Between, n
<1>7. Between(r, i + 1, span) = {k \in Between(s, i, span) : e <= k}
    <2>1. ASSUME NEW k \in span
          PROVE  ((i + 1 > 1 => r[(i + 1) - 1] <= k) /\ (i + 1 <= Len(r) => k <= r[i + 1]))
                  <=> ((i > 1 => s[i - 1] <= k) /\ (i <= n => k <= s[i]) /\ e <= k)
        <3>1. k \in Nat /\ (i + 1) - 1 = i
            BY <1>1
        <3> QED
            BY <3>1, <1>1, <1>2, <1>3, <1>4, <1>5
    <2> QED
        BY <2>1 DEF Between, n
<1>8. ASSUME NEW j \in 1 .. i - 1 PROVE Between(r, j, span) = Between(s, j, span)
    <2>1. /\ j > 1 => r[j - 1] = s[j - 1]
          /\ j <= Len(r) /\ j <= n /\ r[j] = s[j]
        BY <1>1, <1>2
    <2> QED
        BY <2>1 DEF Between, n
<1>9. ASSUME NEW j \in i + 1 .. n + 1 PROVE Between(r, j + 1, span) = Between(s, j, span)
    <2>1. /\ j + 1 > 1 /\ j > 1 /\ r[(j + 1) - 1] = s[j - 1]
          /\ j + 1 <= Len(r) <=> j <= n
          /\ j <= n => r[j + 1] = s[j]
        BY <1>1, <1>2
    <2> QED
        BY <2>1 DEF Between, n
<1> QED
    BY <1>6, <1>7, <1>8, <1>9 DEF n

\* What the two halves of a node divide that is cut at its m + 1-st key
LEMMA BetweenFront ==
    ASSUME NEW s \in Seq(Nat), Keyed(s), NEW m \in Nat, m < Len(s), NEW a, FrontOf(s, m, a),
           NEW span \in SUBSET Nat, NEW j \in 1 .. m + 1
    PROVE  Between(a, j, {k \in span : k <= s[m + 1]}) = Between(s, j, span)
<1> DEFINE n == Len(s)
           e == s[m + 1]
<1>1. n \in Nat /\ (\A k \in 1 .. n : s[k] \in Nat) /\ m + 1 \in 1 .. n /\ j \in 1 .. n
    BY LenProperties, ElementOfSeq
<1>2. Len(a) = m /\ \A k \in 1 .. m : a[k] = s[k]
    BY DEF FrontOf
<1>3. j > 1 => a[j - 1] = s[j - 1]
    BY <1>2
<1>4. j <= m => a[j] = s[j] /\ s[j] <= e
    BY <1>1, <1>2 DEF Keyed
<1>5. ~(j <= m) => s[j] = e
    BY <1>1
<1>6. e \in Nat /\ s[j] \in Nat /\ j <= n
    BY <1>1
<1> HIDE DEF n, e
<1>7. ASSUME NEW k \in span
      PROVE  (k <= e /\ (j > 1 => a[j - 1] <= k) /\ (j <= Len(a) => k <= a[j]))
              <=> ((j > 1 => s[j - 1] <= k) /\ (j <= n => k <= s[j]))
    <2>1. k \in Nat
        OBVIOUS
    <2>2. (k <= e /\ (j <= m => k <= a[j])) <=> k <= s[j]
        <3>1. CASE j <= m
            BY <2>1, <3>1, <1>4, <1>6
        <3>2. CASE ~(j <= m)
            BY <3>2, <1>5
        <3> QED
            BY <3>1, <3>2
    <2> QED
        BY <2>2, <1>2, <1>3, <1>6
<1> QED
    BY <1>7 DEF Between, n, e

LEMMA BetweenBack ==
    ASSUME NEW s \in Seq(Nat), Keyed(s), NEW m \in Nat, m < Len(s), NEW b, BackOf(s, m + 1, b),
           NEW span \in SUBSET Nat, NEW j \in 1 .. Len(s) - m
    PROVE  Between(b, j, {k \in span : s[m + 1] <= k}) = Between(s, m + 1 + j, span)
<1> DEFINE n == Len(s)
           e == s[m + 1]
           i == m + 1 + j
<1>1. n \in Nat /\ (\A k \in 1 .. n : s[k] \in Nat) /\ m + 1 \in 1 .. n
    BY LenProperties, ElementOfSeq
<1>2. Len(b) = n - (m + 1) /\ \A k \in 1 .. n - (m + 1) : b[k] = s[m + 1 + k]
    BY DEF BackOf
<1>3. j > 1 => b[j - 1] = s[i - 1] /\ e <= s[i - 1]
    <2> SUFFICES ASSUME j > 1 PROVE b[j - 1] = s[i - 1] /\ e <= s[i - 1]
        OBVIOUS
    <2>1. j - 1 \in 1 .. n - (m + 1) /\ m + 1 + (j - 1) = i - 1 /\ i - 1 \in 1 .. n /\ m + 1 < i - 1
        BY <1>1
    <2> HIDE DEF i
    <2> QED
        BY <2>1, <1>1, <1>2 DEF Keyed
<1>4. ~(j > 1) => s[i - 1] = e
    BY <1>1
<1>5. (j <= Len(b) <=> i <= n) /\ (j <= Len(b) => b[j] = s[i])
    BY <1>1, <1>2
<1>6. e \in Nat /\ s[i - 1] \in Nat /\ i > 1
    BY <1>1
<1> HIDE DEF n, e, i
<1>7. ASSUME NEW k \in span
      PROVE  (e <= k /\ (j > 1 => b[j - 1] <= k) /\ (j <= Len(b) => k <= b[j]))
              <=> ((i > 1 => s[i - 1] <= k) /\ (i <= n => k <= s[i]))
    <2>1. k \in Nat
        OBVIOUS
    <2>2. (e <= k /\ (j > 1 => b[j - 1] <= k)) <=> s[i - 1] <= k
        <3>1. CASE j > 1
            BY <2>1, <3>1, <1>3, <1>6
        <3>2. CASE ~(j > 1)
            BY <3>2, <1>4
        <3> QED
            BY <3>1, <3>2
    <2> QED
        BY <2>2, <1>5, <1>6
<1> QED
    BY <1>7 DEF Between, n, e, i

\* What the invariant says of a tree: the height of every node above the
\* leaves, its parent and its place there, and the keys it may hold.
Labels(size) ==
    [h : [1 .. size -> Nat], par : [1 .. size -> Nat], pos : [1 .. size -> Nat],
     span : [1 .. size -> SUBSET TreeKeys]]

NodeShape(nodes, r, label, n) ==
    LET node == nodes[n]
    IN  /\ node.isLeaf => /\ label.h[n] = 0
                          /\ node.children = <<>>
                          /\ Len(node.keys) <= Len(node.values)
        /\ ~node.isLeaf => Len(node.children) = Len(node.keys) + 1
        /\ Len(node.keys) <= 2 * treeOrder - 1
        /\ n # r => Len(node.keys) >= treeOrder - 1

NodeKeys(nodes, label, n) ==
    /\ Keyed(nodes[n].keys)
    /\ \A i \in 1 .. Len(nodes[n].keys) : nodes[n].keys[i] \in label.span[n]

NodeChild(nodes, label, n, i) ==
    LET c == nodes[n].children[i]
    IN  /\ c \in 1 .. Len(nodes)
        /\ label.par[c] = n /\ label.pos[c] = i
        /\ label.h[n] = label.h[c] + 1
        /\ label.span[c] = Between(nodes[n].keys, i, label.span[n])

NodePlace(nodes, label, n) ==
    LET p == label.par[n]
    IN  /\ p \in 1 .. Len(nodes)
        /\ label.pos[n] \in 1 .. Len(nodes[p].children)
        /\ nodes[p].children[label.pos[n]] = n

Tree(nodes, r, label) ==
    /\ nodes \in Seq(TreeNodes) /\ r \in 1 .. Len(nodes)
    /\ label \in Labels(Len(nodes))
    /\ label.par[r] = 0 /\ label.span[r] = TreeKeys
    /\ \A n \in 1 .. Len(nodes) : NodeShape(nodes, r, label, n)
    /\ \A n \in 1 .. Len(nodes) : NodeKeys(nodes, label, n)
    /\ \A n \in 1 .. Len(nodes) : \A i \in 1 .. Len(nodes[n].children) : NodeChild(nodes, label, n, i)
    /\ \A n \in 1 .. Len(nodes) : n # r => NodePlace(nodes, label, n)

LEMMA KeysAreNumbers ==
    ASSUME NEW s \in Seq(TreeKeys) PROVE s \in Seq(Nat)
<1>1. Len(s) \in Nat /\ s \in [1 .. Len(s) -> TreeKeys]
    BY LenProperties
<1>2. s \in [1 .. Len(s) -> Nat]
    BY <1>1, TreeAssumption
<1>3. Seq(Nat) = UNION {[1 .. n -> Nat] : n \in Nat}
    BY SeqDef, Zenon
<1>4. [1 .. Len(s) -> Nat] \in {[1 .. n -> Nat] : n \in Nat}
    BY <1>1
<1> QED
    BY <1>2, <1>3, <1>4, Zenon

LEMMA TreeOrder == treeOrder \in Nat /\ treeOrder > 1
    BY TreeAssumption

LEMMA TreeNodeFacts ==
    ASSUME NEW nodes \in Seq(TreeNodes)
    PROVE  /\ Len(nodes) \in Nat /\ DOMAIN nodes = 1 .. Len(nodes)
           /\ \A n \in 1 .. Len(nodes) :
                /\ nodes[n] \in TreeNodes
                /\ nodes[n].isLeaf \in BOOLEAN
                /\ nodes[n].keys \in Seq(TreeKeys) /\ nodes[n].keys \in Seq(Nat)
                /\ nodes[n].values \in Seq(TreeKeys)
                /\ nodes[n].children \in Seq(Nat)
                /\ Len(nodes[n].keys) \in Nat /\ DOMAIN nodes[n].keys = 1 .. Len(nodes[n].keys)
                /\ Len(nodes[n].values) \in Nat
                /\ Len(nodes[n].children) \in Nat
                /\ DOMAIN nodes[n].children = 1 .. Len(nodes[n].children)
<1>1. Len(nodes) \in Nat /\ DOMAIN nodes = 1 .. Len(nodes)
    BY LenProperties
<1>2. ASSUME NEW n \in 1 .. Len(nodes)
      PROVE  /\ nodes[n] \in TreeNodes
             /\ nodes[n].isLeaf \in BOOLEAN
             /\ nodes[n].keys \in Seq(TreeKeys)
             /\ nodes[n].values \in Seq(TreeKeys)
             /\ nodes[n].children \in Seq(Nat)
    <2>1. nodes[n] \in TreeNodes
        BY ElementOfSeq
    <2> QED
        BY <2>1 DEF TreeNodes
<1>3. ASSUME NEW n \in 1 .. Len(nodes)
      PROVE  /\ nodes[n].keys \in Seq(Nat)
             /\ Len(nodes[n].keys) \in Nat /\ DOMAIN nodes[n].keys = 1 .. Len(nodes[n].keys)
             /\ Len(nodes[n].values) \in Nat
             /\ Len(nodes[n].children) \in Nat
             /\ DOMAIN nodes[n].children = 1 .. Len(nodes[n].children)
    BY <1>2, KeysAreNumbers, LenProperties
<1> QED
    BY <1>1, <1>2, <1>3

LEMMA LabelFacts ==
    ASSUME NEW nodes, NEW r, NEW label, Tree(nodes, r, label)
    PROVE  /\ nodes \in Seq(TreeNodes) /\ r \in 1 .. Len(nodes)
           /\ \A n \in 1 .. Len(nodes) :
                /\ label.h[n] \in Nat /\ label.par[n] \in Nat /\ label.pos[n] \in Nat
                /\ label.span[n] \in SUBSET TreeKeys /\ label.span[n] \in SUBSET Nat
           /\ DOMAIN label.h = 1 .. Len(nodes) /\ DOMAIN label.par = 1 .. Len(nodes)
    BY TreeAssumption DEF Tree, Labels

\* A node is cut in two.
Halved(node, first, z) ==
    /\ first.isLeaf = node.isLeaf /\ z.isLeaf = node.isLeaf
    /\ FrontOf(node.keys, treeOrder - 1, first.keys)
    /\ BackOf(node.keys, treeOrder, z.keys)
    /\ node.isLeaf => /\ first.children = <<>> /\ z.children = <<>>
                      /\ Len(first.keys) <= Len(first.values)
                      /\ Len(z.keys) <= Len(z.values)
    /\ ~node.isLeaf => /\ FrontOf(node.children, treeOrder, first.children)
                       /\ BackOf(node.children, treeOrder, z.children)

\* The i-th child of p is.
Parted(nodes, p, i, nodes2) ==
    LET c == nodes[p].children[i]
        s == Len(nodes) + 1
    IN  /\ nodes2 \in Seq(TreeNodes) /\ Len(nodes2) = s
        /\ \A n \in 1 .. Len(nodes) : n # p /\ n # c => nodes2[n] = nodes[n]
        /\ ~nodes2[p].isLeaf
        /\ Put(nodes[p].keys, i - 1, nodes[c].keys[treeOrder], nodes2[p].keys)
        /\ Put(nodes[p].children, i, s, nodes2[p].children)
        /\ Halved(nodes[c], nodes2[c], nodes2[s])

\* A full child of a node that is not
Splits(nodes, p, i) ==
    /\ p \in 1 .. Len(nodes) /\ ~nodes[p].isLeaf /\ ~IsFull(nodes[p])
    /\ i \in 1 .. Len(nodes[p].children)
    /\ IsFull(nodes[nodes[p].children[i]])

LEMMA FirstFacts ==
    ASSUME NEW S, NEW s \in Seq(S), NEW n \in 0 .. Len(s)
    PROVE  First(s, n) \in Seq(S) /\ FrontOf(s, n, First(s, n))
<1> DEFINE l == Len(s)
<1>1. l \in Nat /\ n \in Nat /\ n <= l
    BY LenProperties
<1>2. Min({n, l}) = n
    <2> HIDE DEF l
    <2>1. \E x \in {n, l} : \A y \in {n, l} : x <= y
        BY <1>1
    <2>2. Min({n, l}) \in {n, l} /\ \A y \in {n, l} : Min({n, l}) <= y
        BY <2>1, Zenon DEF Min
    <2> QED
        BY <2>2, <1>1
<1>3. First(s, n) = SubSeq(s, 1, n)
    BY <1>2, Zenon DEF First, l
<1> QED
    BY <1>3, FrontFacts

\* Nothing is cut off from nothing.
LEMMA FirstOfNone ==
    ASSUME NEW S, NEW n \in Nat
    PROVE  First(<<>>, n) = <<>> /\ SubSeq(<<>>, n + 1, Len(<<>>)) = <<>>
<1>1. Min({n, 0}) = 0
    <2>1. \E x \in {n, 0} : \A y \in {n, 0} : x <= y
        OBVIOUS
    <2>2. Min({n, 0}) \in {n, 0} /\ \A y \in {n, 0} : Min({n, 0}) <= y
        BY <2>1, Zenon DEF Min
    <2> QED
        BY <2>2
<1>2. First(<<>>, n) = SubSeq(<<>>, 1, 0)
    BY <1>1 DEF First
<1> QED
    BY <1>2

\* A child is below its parent, and not the root.
LEMMA ChildBelow ==
    ASSUME NEW nodes, NEW r, NEW label, Tree(nodes, r, label),
           NEW p \in 1 .. Len(nodes), NEW i \in 1 .. Len(nodes[p].children)
    PROVE  /\ nodes[p].children[i] \in 1 .. Len(nodes)
           /\ label.h[p] = label.h[nodes[p].children[i]] + 1
           /\ nodes[p].children[i] # p
           /\ nodes[p].children[i] # r
<1> DEFINE c == nodes[p].children[i]
<1>1. /\ c \in 1 .. Len(nodes) /\ label.par[c] = p /\ label.h[p] = label.h[c] + 1
    BY DEF Tree, NodeChild
<1>2. label.h[c] \in Nat /\ label.h[p] \in Nat /\ label.par[r] = 0
    BY <1>1, LabelFacts DEF Tree
<1>3. c # p
    BY <1>1, <1>2
<1>4. c # r
    BY <1>1, <1>2
<1> QED
    BY <1>1, <1>3, <1>4

LEMMA AnyFirst ==
    ASSUME NEW S, NEW s \in Seq(S), NEW n \in Nat
    PROVE  First(s, n) \in Seq(S)
<1> DEFINE m == Min({n, Len(s)})
<1>1. m \in Nat /\ m <= Len(s)
    <2>1. Len(s) \in Nat
        BY LenProperties
    <2>2. \E x \in {n, Len(s)} : \A y \in {n, Len(s)} : x <= y
        BY <2>1
    <2>3. m \in {n, Len(s)} /\ \A y \in {n, Len(s)} : m <= y
        BY <2>2, Zenon DEF Min
    <2> HIDE DEF m
    <2> QED
        BY <2>1, <2>3
<1>2. First(s, n) = SubSeq(s, 1, m)
    BY Zenon DEF First
<1> HIDE DEF m
<1>3. m \in 0 .. Len(s)
    BY <1>1
<1> QED
    BY <1>2, <1>3, FrontFacts

LEMMA AnyRest ==
    ASSUME NEW S, NEW s \in Seq(S), NEW n \in Nat, n > 0
    PROVE  SubSeq(s, n, Len(s)) \in Seq(S)
<1>1. Len(s) \in Nat
    BY LenProperties
<1>2. \A k \in n .. Len(s) : s[k] \in S
    BY <1>1, ElementOfSeq
<1>3. n \in Int /\ Len(s) \in Int
    BY <1>1
<1> QED
    BY <1>2, <1>3, SubSeqProperties

\* The halves of a full node
FirstHalfOf(child) ==
    [isLeaf |-> child.isLeaf,
     keys |-> First(child.keys, treeOrder - 1),
     values |-> First(child.values, treeOrder - 1),
     children |-> First(child.children, treeOrder)]

SecondHalfOf(child) ==
    [isLeaf |-> child.isLeaf,
     keys |-> SubSeq(child.keys, treeOrder + 1, Len(child.keys)),
     values |-> SubSeq(child.values, treeOrder, Len(child.values)),
     children |-> SubSeq(child.children, treeOrder + 1, Len(child.children))]

ChildShape(child) ==
    /\ child.isLeaf => child.children = <<>> /\ Len(child.keys) <= Len(child.values)
    /\ ~child.isLeaf => Len(child.children) = Len(child.keys) + 1

LEMMA HalvesFacts ==
    ASSUME NEW child \in TreeNodes, IsFull(child), ChildShape(child)
    PROVE  /\ FirstHalfOf(child) \in TreeNodes /\ SecondHalfOf(child) \in TreeNodes
           /\ Halved(child, FirstHalfOf(child), SecondHalfOf(child))
<1> DEFINE t == treeOrder
           first == FirstHalfOf(child)
           z == SecondHalfOf(child)
<1>1. /\ child.isLeaf \in BOOLEAN /\ child.keys \in Seq(TreeKeys)
      /\ child.values \in Seq(TreeKeys) /\ child.children \in Seq(Nat)
    BY DEF TreeNodes
<1>2. /\ Len(child.keys) \in Nat /\ Len(child.values) \in Nat /\ Len(child.children) \in Nat
    BY <1>1, LenProperties
<1>3. t \in Nat /\ t > 1 /\ Len(child.keys) = 2 * t - 1
    BY TreeOrder DEF IsFull
<1>4. /\ First(child.keys, t - 1) \in Seq(TreeKeys)
      /\ FrontOf(child.keys, t - 1, First(child.keys, t - 1))
    <2>1. t - 1 \in 0 .. Len(child.keys)
        BY <1>3
    <2> QED
        BY <2>1, <1>1, FirstFacts
<1>5. /\ SubSeq(child.keys, t + 1, Len(child.keys)) \in Seq(TreeKeys)
      /\ BackOf(child.keys, t, SubSeq(child.keys, t + 1, Len(child.keys)))
    <2>1. t \in 0 .. Len(child.keys)
        BY <1>3
    <2> QED
        BY <2>1, <1>1, BackFacts
<1>6. First(child.values, t - 1) \in Seq(TreeKeys) /\ First(child.children, t) \in Seq(Nat)
    <2>1. t - 1 \in Nat /\ t \in Nat
        BY <1>3
    <2> QED
        BY <2>1, <1>1, AnyFirst
<1>7. /\ SubSeq(child.values, t, Len(child.values)) \in Seq(TreeKeys)
      /\ SubSeq(child.children, t + 1, Len(child.children)) \in Seq(Nat)
    <2>1. t \in Nat /\ t > 0 /\ t + 1 \in Nat /\ t + 1 > 0
        BY <1>3
    <2> QED
        BY <2>1, <1>1, AnyRest
<1>8. /\ first = [isLeaf |-> child.isLeaf, keys |-> First(child.keys, t - 1),
                  values |-> First(child.values, t - 1), children |-> First(child.children, t)]
      /\ z = [isLeaf |-> child.isLeaf, keys |-> SubSeq(child.keys, t + 1, Len(child.keys)),
              values |-> SubSeq(child.values, t, Len(child.values)),
              children |-> SubSeq(child.children, t + 1, Len(child.children))]
    BY DEF FirstHalfOf, SecondHalfOf
<1> HIDE DEF first, z
<1>9. first \in TreeNodes /\ z \in TreeNodes
    BY <1>1, <1>4, <1>5, <1>6, <1>7, <1>8 DEF TreeNodes
<1>10. ASSUME child.isLeaf
       PROVE  /\ first.children = <<>> /\ z.children = <<>>
              /\ Len(first.keys) <= Len(first.values)
              /\ Len(z.keys) <= Len(z.values)
    <2>1. child.children = <<>> /\ Len(child.keys) <= Len(child.values)
        BY <1>10 DEF ChildShape
    <2>2. first.children = <<>> /\ z.children = <<>>
        <3>1. First(<<>>, t) = <<>> /\ SubSeq(<<>>, t + 1, Len(<<>>)) = <<>>
            BY <1>3, FirstOfNone
        <3> QED
            BY <3>1, <2>1, <1>8
    <2>3. Len(first.values) = t - 1
        <3>1. t - 1 \in 0 .. Len(child.values)
            BY <2>1, <1>2, <1>3
        <3> QED
            BY <3>1, <1>1, <1>8, FirstFacts DEF FrontOf
    <2>4. Len(z.values) = Len(child.values) - (t - 1)
        <3>1. t - 1 \in 0 .. Len(child.values) /\ (t - 1) + 1 = t
            BY <2>1, <1>2, <1>3
        <3>2. BackOf(child.values, t - 1, SubSeq(child.values, (t - 1) + 1, Len(child.values)))
            BY <3>1, <1>1, BackFacts
        <3> QED
            BY <3>1, <3>2, <1>8 DEF BackOf
    <2>5. Len(first.keys) = t - 1 /\ Len(z.keys) = Len(child.keys) - t
        BY <1>4, <1>5, <1>8 DEF FrontOf, BackOf
    <2> QED
        BY <2>1, <2>2, <2>3, <2>4, <2>5, <1>2, <1>3
<1>11. ASSUME ~child.isLeaf
       PROVE  /\ FrontOf(child.children, t, first.children)
              /\ BackOf(child.children, t, z.children)
    <2>1. t \in 0 .. Len(child.children)
        BY <1>2, <1>3, <1>11 DEF ChildShape
    <2> QED
        BY <2>1, <1>1, <1>8, FirstFacts, BackFacts
<1>12. Halved(child, first, z)
    BY <1>4, <1>5, <1>8, <1>10, <1>11 DEF Halved
<1> QED
    BY <1>9, <1>12 DEF first, z

\* A node gets another key and another child.
Widened(node, i, e, s) ==
    [node EXCEPT !.keys = InsertAt(@, i, e), !.children = InsertAt(@, i + 1, s)]

LEMMA WidenedFacts ==
    ASSUME NEW node \in TreeNodes, ~node.isLeaf, ChildShape(node),
           NEW i \in 1 .. Len(node.children), NEW e \in TreeKeys, NEW s \in Nat
    PROVE  /\ Widened(node, i, e, s) \in TreeNodes
           /\ ~Widened(node, i, e, s).isLeaf
           /\ Put(node.keys, i - 1, e, Widened(node, i, e, s).keys)
           /\ Put(node.children, i, s, Widened(node, i, e, s).children)
<1> DEFINE r == Widened(node, i, e, s)
<1>1. /\ node.isLeaf = FALSE /\ node.keys \in Seq(TreeKeys)
      /\ node.values \in Seq(TreeKeys) /\ node.children \in Seq(Nat)
    BY DEF TreeNodes
<1>2. /\ Len(node.keys) \in Nat /\ Len(node.children) = Len(node.keys) + 1
    BY <1>1, LenProperties DEF ChildShape
<1>3. InsertAt(node.keys, i, e) \in Seq(TreeKeys) /\ Put(node.keys, i - 1, e, InsertAt(node.keys, i, e))
    <2>1. i - 1 \in 0 .. Len(node.keys) /\ (i - 1) + 1 = i
        BY <1>2
    <2>2. /\ InsertAt(node.keys, (i - 1) + 1, e) \in Seq(TreeKeys)
          /\ Put(node.keys, i - 1, e, InsertAt(node.keys, (i - 1) + 1, e))
        BY <2>1, <1>1, PutFacts
    <2> QED
        BY <2>1, <2>2
<1>4. /\ InsertAt(node.children, i + 1, s) \in Seq(Nat)
      /\ Put(node.children, i, s, InsertAt(node.children, i + 1, s))
    <2>1. i \in 0 .. Len(node.children)
        OBVIOUS
    <2> QED
        BY <2>1, <1>1, PutFacts
<1>5. r = [node EXCEPT !.keys = InsertAt(node.keys, i, e), !.children = InsertAt(node.children, i + 1, s)]
    BY DEF Widened
<1> HIDE DEF r
<1>6. /\ r \in TreeNodes /\ r.isLeaf = FALSE
      /\ r.keys = InsertAt(node.keys, i, e) /\ r.children = InsertAt(node.children, i + 1, s)
    BY <1>1, <1>3, <1>4, <1>5 DEF TreeNodes
<1> QED
    BY <1>3, <1>4, <1>6 DEF r

\* p and c are replaced, and z is added.
Renewed(nodes, p, x, c, y, z, nodes2) ==
    /\ nodes2 \in Seq(TreeNodes) /\ Len(nodes2) = Len(nodes) + 1
    /\ nodes2[p] = x /\ nodes2[c] = y /\ nodes2[Len(nodes) + 1] = z
    /\ \A n \in 1 .. Len(nodes) : n # p /\ n # c => nodes2[n] = nodes[n]

LEMMA RenewedFacts ==
    ASSUME NEW nodes \in Seq(TreeNodes), NEW p \in 1 .. Len(nodes), NEW c \in 1 .. Len(nodes), p # c,
           NEW x \in TreeNodes, NEW y \in TreeNodes, NEW z \in TreeNodes
    PROVE  Renewed(nodes, p, x, c, y, z, Append([nodes EXCEPT ![p] = x, ![c] = y], z))
<1> DEFINE m1 == [nodes EXCEPT ![p] = x]
           m2 == [m1 EXCEPT ![c] = y]
           l == Len(nodes)
<1>1. l \in Nat /\ DOMAIN nodes = 1 .. l
    BY LenProperties
<1>2. m1 \in Seq(TreeNodes) /\ Len(m1) = l /\ m1[p] = x /\ \A n \in 1 .. l : n # p => m1[n] = nodes[n]
    BY <1>1, ExceptSeq
<1>3. DOMAIN m1 = 1 .. l
    BY <1>1
<1> HIDE DEF m1
<1>4. m2 \in Seq(TreeNodes) /\ Len(m2) = l /\ m2[c] = y /\ \A n \in 1 .. l : n # c => m2[n] = m1[n]
    BY <1>2, <1>3, ExceptSeq
<1> HIDE DEF m2
<1>5. /\ Append(m2, z) \in Seq(TreeNodes) /\ Len(Append(m2, z)) = l + 1
      /\ Append(m2, z)[l + 1] = z
      /\ \A n \in 1 .. l : Append(m2, z)[n] = m2[n]
    BY <1>1, <1>4, AppendProperties
<1>6. Renewed(nodes, p, x, c, y, z, Append(m2, z))
    BY <1>2, <1>4, <1>5 DEF Renewed, l
<1> QED
    BY <1>6 DEF m1, m2

LEMMA SplitParts ==
    ASSUME NEW nodes, NEW r, NEW label, Tree(nodes, r, label), NEW p, NEW i, Splits(nodes, p, i)
    PROVE  Parted(nodes, p, i, splitChild(nodes, p, i))
<1> DEFINE c == nodes[p].children[i]
           child == nodes[c]
           s == Len(nodes) + 1
           e == child.keys[treeOrder]
           nodes2 == splitChild(nodes, p, i)
<1>1. /\ nodes \in Seq(TreeNodes) /\ p \in 1 .. Len(nodes) /\ i \in 1 .. Len(nodes[p].children)
      /\ ~nodes[p].isLeaf
    BY LabelFacts DEF Splits
<1>2. c \in 1 .. Len(nodes) /\ c # p /\ IsFull(child)
    BY <1>1, ChildBelow DEF Splits
<1> HIDE DEF c
<1>3. /\ nodes[p] \in TreeNodes /\ child \in TreeNodes /\ s \in Nat
      /\ child.keys \in Seq(TreeKeys) /\ Len(child.keys) \in Nat
    BY <1>1, <1>2, TreeNodeFacts
<1>4. ChildShape(nodes[p]) /\ ChildShape(child)
    BY <1>1, <1>2 DEF Tree, NodeShape, ChildShape
<1>5. e \in TreeKeys
    <2>1. treeOrder \in 1 .. Len(child.keys)
        BY <1>2, <1>3, TreeOrder DEF IsFull
    <2> QED
        BY <2>1, <1>3, ElementOfSeq
<1> DEFINE x == Widened(nodes[p], i, e, s)
           y == FirstHalfOf(child)
           z == SecondHalfOf(child)
<1>6. nodes2 = Append([nodes EXCEPT ![p] = x, ![c] = y], z)
    BY DEF splitChild, Widened, FirstHalfOf, SecondHalfOf, c
<1>7. /\ x \in TreeNodes /\ ~x.isLeaf
      /\ Put(nodes[p].keys, i - 1, e, x.keys) /\ Put(nodes[p].children, i, s, x.children)
    BY <1>1, <1>3, <1>4, <1>5, WidenedFacts
<1>8. y \in TreeNodes /\ z \in TreeNodes /\ Halved(child, y, z)
    BY <1>2, <1>3, <1>4, HalvesFacts
<1> HIDE DEF x, y, z, nodes2
<1>9. Renewed(nodes, p, x, c, y, z, nodes2)
    BY <1>1, <1>2, <1>6, <1>7, <1>8, RenewedFacts
<1> QED
    BY <1>7, <1>8, <1>9 DEF Renewed, Parted, c, nodes2

\* A full child of a tree's node is parted.
Parting(nodes, r, label, p, i, nodes2) ==
    Tree(nodes, r, label) /\ Splits(nodes, p, i) /\ Parted(nodes, p, i, nodes2)

\* The new node, and the key that moves up
NewNode(nodes) == Len(nodes) + 1
MiddleKey(nodes, p, i) == nodes[nodes[p].children[i]].keys[treeOrder]

\* The labels after that
HalfLabels(nodes, label, p, i) ==
    LET c == nodes[p].children[i]
        s == NewNode(nodes)
        mid == MiddleKey(nodes, p, i)
        Moved(n) == label.par[n] = c /\ label.pos[n] > treeOrder
    IN  [h |-> [n \in 1 .. s |-> IF n = s THEN label.h[c] ELSE label.h[n]],
         par |-> [n \in 1 .. s |->
                    IF n = s THEN p ELSE IF Moved(n) THEN s ELSE label.par[n]],
         pos |-> [n \in 1 .. s |->
                    IF n = s THEN i + 1 ELSE IF Moved(n) THEN label.pos[n] - treeOrder
                    ELSE IF label.par[n] = p /\ label.pos[n] > i THEN label.pos[n] + 1
                    ELSE label.pos[n]],
         span |-> [n \in 1 .. s |->
                    IF n = s THEN {k \in label.span[c] : mid <= k}
                    ELSE IF n = c THEN {k \in label.span[c] : k <= mid}
                    ELSE label.span[n]]]

\* What they are, one by one
HalfLabelled(nodes, label, p, i, label2) ==
    LET c == nodes[p].children[i]
        s == NewNode(nodes)
        mid == MiddleKey(nodes, p, i)
    IN  /\ label2 \in Labels(s)
        /\ label2.h[s] = label.h[c] /\ label2.par[s] = p /\ label2.pos[s] = i + 1
        /\ label2.span[s] = {k \in label.span[c] : mid <= k}
        /\ label2.span[c] = {k \in label.span[c] : k <= mid}
        /\ \A n \in 1 .. Len(nodes) :
            /\ label2.h[n] = label.h[n]
            /\ n # c => label2.span[n] = label.span[n]
            /\ label.par[n] = c /\ label.pos[n] > treeOrder
                => label2.par[n] = s /\ label2.pos[n] = label.pos[n] - treeOrder
            /\ label.par[n] = c /\ ~(label.pos[n] > treeOrder)
                => label2.par[n] = c /\ label2.pos[n] = label.pos[n]
            /\ label.par[n] = p /\ label.pos[n] > i
                => label2.par[n] = p /\ label2.pos[n] = label.pos[n] + 1
            /\ label.par[n] = p /\ ~(label.pos[n] > i)
                => label2.par[n] = p /\ label2.pos[n] = label.pos[n]
            /\ label.par[n] # p /\ label.par[n] # c
                => label2.par[n] = label.par[n] /\ label2.pos[n] = label.pos[n]

\* Facts about a parting
PartingFacts(nodes, r, label, p, i, nodes2) ==
    LET c == nodes[p].children[i]
        s == NewNode(nodes)
        l == Len(nodes)
        t == treeOrder
        mid == MiddleKey(nodes, p, i)
    IN  /\ l \in Nat /\ s = l + 1 /\ s \in Nat /\ s \notin 1 .. l /\ t \in Nat /\ t > 1
        /\ Len(nodes2) = s /\ nodes2 \in Seq(TreeNodes)
        /\ p \in 1 .. l /\ c \in 1 .. l /\ c # p /\ c # r /\ r \in 1 .. l
        /\ ~nodes[p].isLeaf /\ ~nodes2[p].isLeaf
        /\ i \in 1 .. Len(nodes[p].children) /\ i \in Nat /\ i > 0
        /\ Len(nodes[p].keys) \in Nat /\ Len(nodes[p].children) = Len(nodes[p].keys) + 1
        /\ Len(nodes[p].keys) < 2 * t - 1
        /\ Len(nodes[c].keys) = 2 * t - 1
        /\ ~nodes[c].isLeaf => Len(nodes[c].children) = 2 * t
        /\ nodes[c].isLeaf => nodes[c].children = <<>>
        /\ nodes[p].keys \in Seq(Nat) /\ Keyed(nodes[p].keys)
        /\ nodes[c].keys \in Seq(Nat) /\ Keyed(nodes[c].keys)
        /\ mid \in label.span[c] /\ mid \in Nat
        /\ label.par[c] = p /\ label.pos[c] = i /\ label.h[p] = label.h[c] + 1
        /\ label.span[c] = Between(nodes[p].keys, i, label.span[p])
        /\ GoesTo(nodes[p].keys, mid, i)
        /\ Put(nodes[p].keys, i - 1, mid, nodes2[p].keys)
        /\ Put(nodes[p].children, i, s, nodes2[p].children)
        /\ Halved(nodes[c], nodes2[c], nodes2[s])
        /\ \A n \in 1 .. l : n # p /\ n # c => nodes2[n] = nodes[n]

LEMMA PartingKnown ==
    ASSUME NEW nodes, NEW r, NEW label, NEW p, NEW i, NEW nodes2,
           Parting(nodes, r, label, p, i, nodes2)
    PROVE  PartingFacts(nodes, r, label, p, i, nodes2)
<1> DEFINE c == nodes[p].children[i]
           s == NewNode(nodes)
           l == Len(nodes)
           t == treeOrder
           mid == MiddleKey(nodes, p, i)
<1>1. Tree(nodes, r, label) /\ Splits(nodes, p, i) /\ Parted(nodes, p, i, nodes2)
    BY DEF Parting
<1>2. nodes \in Seq(TreeNodes) /\ r \in 1 .. l /\ p \in 1 .. l /\ ~nodes[p].isLeaf
      /\ i \in 1 .. Len(nodes[p].children)
    BY <1>1, LabelFacts DEF Splits
<1>3. l \in Nat /\ s = l + 1 /\ s \in Nat /\ s \notin 1 .. l /\ t \in Nat /\ t > 1
    BY <1>2, LenProperties, TreeOrder DEF NewNode
<1>4. c \in 1 .. l /\ c # p /\ c # r
    BY <1>1, <1>2, ChildBelow
<1>5. /\ label.par[c] = p /\ label.pos[c] = i /\ label.h[p] = label.h[c] + 1
      /\ label.span[c] = Between(nodes[p].keys, i, label.span[p])
    BY <1>1, <1>2 DEF Tree, NodeChild
<1>6. /\ Len(nodes[p].keys) \in Nat /\ nodes[p].keys \in Seq(Nat)
      /\ Len(nodes[p].children) \in Nat
    BY <1>2, TreeNodeFacts
<1>7. i \in Nat /\ i > 0
    BY <1>2, <1>6
<1>8. Len(nodes[p].children) = Len(nodes[p].keys) + 1 /\ Len(nodes[p].keys) <= 2 * t - 1
    BY <1>1, <1>2 DEF Tree, NodeShape
<1>9. Len(nodes[p].keys) < 2 * t - 1
    <2> DEFINE q == Len(nodes[p].keys)
    <2>1. q # 2 * t - 1
        BY <1>1 DEF Splits, IsFull
    <2>2. q \in Nat /\ q <= 2 * t - 1 /\ t \in Nat
        BY <1>3, <1>6, <1>8
    <2> HIDE DEF q, t
    <2>3. q < 2 * t - 1
        BY <2>1, <2>2
    <2> QED
        BY <2>3 DEF q, t
<1> HIDE DEF c, mid, l, s
<1>10. nodes[c].keys \in Seq(Nat) /\ Len(nodes[c].keys) = 2 * t - 1
    <2>1. IsFull(nodes[c])
        BY <1>1 DEF Splits, c
    <2> QED
        BY <2>1, <1>2, <1>4, TreeNodeFacts DEF IsFull, l
<1>11. /\ ~nodes[c].isLeaf => Len(nodes[c].children) = 2 * t
       /\ nodes[c].isLeaf => nodes[c].children = <<>>
    <2>1. NodeShape(nodes, r, label, c)
        BY <1>1, <1>4 DEF Tree, l
    <2> QED
        BY <2>1, <1>3, <1>10 DEF NodeShape
<1>12. Keyed(nodes[p].keys) /\ Keyed(nodes[c].keys) /\ mid \in label.span[c]
    <2>1. NodeKeys(nodes, label, p) /\ NodeKeys(nodes, label, c)
        BY <1>1, <1>2, <1>4 DEF Tree, l
    <2>2. mid = nodes[c].keys[t] /\ t \in 1 .. Len(nodes[c].keys)
        BY <1>3, <1>10 DEF mid, MiddleKey, c
    <2> QED
        BY <2>1, <2>2 DEF NodeKeys
<1>13. mid \in Nat
    BY <1>1, <1>4, <1>12, LabelFacts DEF l
<1>14. GoesTo(nodes[p].keys, mid, i)
    <2>1. mid \in Between(nodes[p].keys, i, label.span[p]) /\ i \in 1 .. Len(nodes[p].keys) + 1
        BY <1>2, <1>5, <1>8, <1>12
    <2> QED
        BY <2>1 DEF Between, GoesTo
<1>15. /\ Len(nodes2) = s /\ nodes2 \in Seq(TreeNodes) /\ ~nodes2[p].isLeaf
       /\ Put(nodes[p].keys, i - 1, mid, nodes2[p].keys)
       /\ Put(nodes[p].children, i, s, nodes2[p].children)
       /\ Halved(nodes[c], nodes2[c], nodes2[s])
       /\ \A n \in 1 .. l : n # p /\ n # c => nodes2[n] = nodes[n]
    BY <1>1 DEF Parted, c, s, mid, l, NewNode, MiddleKey
<1> QED
    BY <1>2, <1>3, <1>4, <1>5, <1>6, <1>7, <1>8, <1>9, <1>10, <1>11, <1>12, <1>13, <1>14, <1>15
        DEF PartingFacts, c, s, mid, l

LEMMA HalfLabelsFacts ==
    ASSUME NEW nodes, NEW r, NEW label, NEW p, NEW i, NEW nodes2,
           Parting(nodes, r, label, p, i, nodes2)
    PROVE  HalfLabelled(nodes, label, p, i, HalfLabels(nodes, label, p, i))
<1> DEFINE c == nodes[p].children[i]
           s == NewNode(nodes)
           l == Len(nodes)
           t == treeOrder
           mid == MiddleKey(nodes, p, i)
           Moved(n) == label.par[n] = c /\ label.pos[n] > t
           hh == [n \in 1 .. s |-> IF n = s THEN label.h[c] ELSE label.h[n]]
           pp == [n \in 1 .. s |-> IF n = s THEN p ELSE IF Moved(n) THEN s ELSE label.par[n]]
           qq == [n \in 1 .. s |->
                    IF n = s THEN i + 1 ELSE IF Moved(n) THEN label.pos[n] - t
                    ELSE IF label.par[n] = p /\ label.pos[n] > i THEN label.pos[n] + 1
                    ELSE label.pos[n]]
           ss == [n \in 1 .. s |->
                    IF n = s THEN {k \in label.span[c] : mid <= k}
                    ELSE IF n = c THEN {k \in label.span[c] : k <= mid}
                    ELSE label.span[n]]
           label2 == [h |-> hh, par |-> pp, pos |-> qq, span |-> ss]
<1>1. PartingFacts(nodes, r, label, p, i, nodes2)
    BY PartingKnown
<1>2. HalfLabels(nodes, label, p, i) = label2
    BY DEF HalfLabels
<1>3. /\ l \in Nat /\ s = l + 1 /\ t \in Nat /\ c \in 1 .. l /\ p \in 1 .. l /\ c # p
      /\ i \in Nat
    BY <1>1 DEF PartingFacts
<1>4. \A n \in 1 .. l :
        /\ label.h[n] \in Nat /\ label.par[n] \in Nat /\ label.pos[n] \in Nat
        /\ label.span[n] \in SUBSET TreeKeys
    BY LabelFacts DEF Parting
<1> HIDE DEF c, mid, l, s, t
<1>5. s \in 1 .. s /\ s \notin 1 .. l /\ \A n \in 1 .. s : n \in 1 .. l \/ n = s
    BY <1>3
<1>6. \A n \in 1 .. l : n \in 1 .. s /\ n # s
    BY <1>3
<1>7. hh \in [1 .. s -> Nat] /\ pp \in [1 .. s -> Nat]
    BY <1>3, <1>4, <1>5
<1>8. qq \in [1 .. s -> Nat]
    <2>1. ASSUME NEW n \in 1 .. s PROVE qq[n] \in Nat
        BY <1>3, <1>4, <1>5
    <2> QED
        BY <2>1
<1>9. ss \in [1 .. s -> SUBSET TreeKeys]
    <2>1. ASSUME NEW n \in 1 .. s PROVE ss[n] \in SUBSET TreeKeys
        BY <1>3, <1>4, <1>5
    <2> QED
        BY <2>1
<1>10. label2 \in Labels(s)
    <2> HIDE DEF hh, pp, qq, ss
    <2> QED
        BY <1>7, <1>8, <1>9 DEF Labels
<1>11. /\ hh[s] = label.h[c] /\ pp[s] = p /\ qq[s] = i + 1
       /\ ss[s] = {k \in label.span[c] : mid <= k}
       /\ ss[c] = {k \in label.span[c] : k <= mid}
    BY <1>3, <1>5, <1>6
<1>12. ASSUME NEW n \in 1 .. l
       PROVE  /\ hh[n] = label.h[n]
              /\ n # c => ss[n] = label.span[n]
              /\ label.par[n] = c /\ label.pos[n] > t => pp[n] = s /\ qq[n] = label.pos[n] - t
              /\ label.par[n] = c /\ ~(label.pos[n] > t) => pp[n] = c /\ qq[n] = label.pos[n]
              /\ label.par[n] = p /\ label.pos[n] > i => pp[n] = p /\ qq[n] = label.pos[n] + 1
              /\ label.par[n] = p /\ ~(label.pos[n] > i) => pp[n] = p /\ qq[n] = label.pos[n]
              /\ label.par[n] # p /\ label.par[n] # c
                    => pp[n] = label.par[n] /\ qq[n] = label.pos[n]
    BY <1>3, <1>6
<1> HIDE DEF hh, pp, qq, ss
<1>13. HalfLabelled(nodes, label, p, i, label2)
    BY <1>10, <1>11, <1>12 DEF HalfLabelled, c, mid, l, s, t
<1> QED
    BY <1>2, <1>13

LEMMA PartedShape ==
    ASSUME NEW nodes, NEW r, NEW label, NEW p, NEW i, NEW nodes2,
           Parting(nodes, r, label, p, i, nodes2),
           NEW label2, HalfLabelled(nodes, label, p, i, label2),
           NEW n \in 1 .. NewNode(nodes)
    PROVE  NodeShape(nodes2, r, label2, n)
<1> DEFINE c == nodes[p].children[i]
           s == NewNode(nodes)
           l == Len(nodes)
           t == treeOrder
           mid == MiddleKey(nodes, p, i)
<1>1. PartingFacts(nodes, r, label, p, i, nodes2)
    BY PartingKnown
<1>2. /\ l \in Nat /\ s = l + 1 /\ t \in Nat /\ t > 1 /\ c \in 1 .. l /\ p \in 1 .. l /\ c # p
      /\ s \notin 1 .. l
      /\ Len(nodes[p].keys) \in Nat /\ Len(nodes[p].children) = Len(nodes[p].keys) + 1
      /\ Len(nodes[p].keys) < 2 * t - 1 /\ Len(nodes[c].keys) = 2 * t - 1
      /\ ~nodes[c].isLeaf => Len(nodes[c].children) = 2 * t
      /\ ~nodes2[p].isLeaf
    BY <1>1 DEF PartingFacts
<1>3. /\ Put(nodes[p].keys, i - 1, mid, nodes2[p].keys)
      /\ Put(nodes[p].children, i, s, nodes2[p].children)
      /\ Halved(nodes[c], nodes2[c], nodes2[s])
      /\ \A k \in 1 .. l : k # p /\ k # c => nodes2[k] = nodes[k]
    BY <1>1 DEF PartingFacts
<1>4. /\ label2.h[s] = label.h[c]
      /\ \A k \in 1 .. l : label2.h[k] = label.h[k]
    BY DEF HalfLabelled
<1>5. \A k \in 1 .. l : NodeShape(nodes, r, label, k)
    BY DEF Parting, Tree
<1> HIDE DEF c, mid, l, s, t
<1>6. CASE n = p
    <2>1. Len(nodes2[p].keys) = Len(nodes[p].keys) + 1
          /\ Len(nodes2[p].children) = Len(nodes[p].children) + 1
        BY <1>3 DEF Put
    <2>2. p # r => Len(nodes[p].keys) >= t - 1
        BY <1>2, <1>5 DEF NodeShape, t
    <2>3. /\ Len(nodes2[p].children) = Len(nodes2[p].keys) + 1
          /\ Len(nodes2[p].keys) <= 2 * t - 1
          /\ p # r => Len(nodes2[p].keys) >= t - 1
        BY <2>1, <2>2, <1>2, SMTT(60)
    <2> QED
        BY <2>3, <1>2, <1>6 DEF NodeShape, t
<1>7. /\ Len(nodes2[c].keys) = t - 1 /\ Len(nodes2[s].keys) = t - 1
      /\ nodes2[c].isLeaf = nodes[c].isLeaf /\ nodes2[s].isLeaf = nodes[c].isLeaf
      /\ nodes[c].isLeaf => /\ nodes2[c].children = <<>> /\ nodes2[s].children = <<>>
                            /\ Len(nodes2[c].keys) <= Len(nodes2[c].values)
                            /\ Len(nodes2[s].keys) <= Len(nodes2[s].values)
      /\ ~nodes[c].isLeaf => Len(nodes2[c].children) = t /\ Len(nodes2[s].children) = t
    <2>1. /\ Len(nodes2[c].keys) = t - 1 /\ Len(nodes2[s].keys) = (2 * t - 1) - t
          /\ ~nodes[c].isLeaf => Len(nodes2[c].children) = t /\ Len(nodes2[s].children) = (2 * t) - t
        BY <1>2, <1>3 DEF Halved, FrontOf, BackOf, t
    <2>2. (2 * t - 1) - t = t - 1 /\ 2 * t - t = t
        BY <1>2
    <2> QED
        BY <2>1, <2>2, <1>3 DEF Halved
<1>8. t = (t - 1) + 1 /\ t - 1 <= 2 * t - 1 /\ t - 1 >= t - 1
    BY <1>2
<1>9. nodes[c].isLeaf => label.h[c] = 0
    BY <1>2, <1>5 DEF NodeShape
<1>10. CASE n = c
    <2>1. label2.h[c] = label.h[c]
        BY <1>2, <1>4
    <2> QED
        BY <2>1, <1>7, <1>8, <1>9, <1>10 DEF NodeShape, t
<1>11. CASE n = s
    BY <1>4, <1>7, <1>8, <1>9, <1>11 DEF NodeShape, t
<1>12. CASE n # p /\ n # c /\ n # s
    <2>1. n \in 1 .. l
        BY <1>2, <1>12 DEF s
    <2>2. nodes2[n] = nodes[n] /\ label2.h[n] = label.h[n] /\ NodeShape(nodes, r, label, n)
        BY <2>1, <1>3, <1>4, <1>5, <1>12
    <2> QED
        BY <2>2 DEF NodeShape
<1> QED
    BY <1>6, <1>10, <1>11, <1>12

\* Where a key comes from that is put in
LEMMA FromPut ==
    ASSUME NEW s, NEW n \in 0 .. Len(s), Len(s) \in Nat, NEW e, NEW r, Put(s, n, e, r),
           NEW k \in 1 .. Len(r)
    PROVE  r[k] = e \/ \E j \in 1 .. Len(s) : r[k] = s[j]
<1>1. Len(r) = Len(s) + 1 /\ n \in Nat
    BY DEF Put
<1>2. CASE k <= n
    <2>1. k \in 1 .. n /\ k \in 1 .. Len(s)
        BY <1>1, <1>2
    <2> QED
        BY <2>1 DEF Put
<1>3. CASE k = n + 1
    BY <1>3 DEF Put
<1>4. CASE k > n + 1
    <2>1. k \in n + 2 .. Len(s) + 1 /\ k - 1 \in 1 .. Len(s)
        BY <1>1, <1>4
    <2> QED
        BY <2>1 DEF Put
<1> QED
    BY <1>1, <1>2, <1>3, <1>4

LEMMA KeyedParts ==
    ASSUME NEW s, Keyed(s), Len(s) \in Nat, NEW n \in 0 .. Len(s), NEW a,
           FrontOf(s, n, a) \/ BackOf(s, n, a)
    PROVE  Keyed(a)
<1>1. CASE FrontOf(s, n, a)
    <2>1. ASSUME NEW k \in 1 .. Len(a), NEW j \in 1 .. Len(a), k < j PROVE a[k] <= a[j]
        <3>1. k \in 1 .. n /\ j \in 1 .. n /\ k \in 1 .. Len(s) /\ j \in 1 .. Len(s)
            BY <1>1 DEF FrontOf
        <3>2. a[k] = s[k] /\ a[j] = s[j]
            BY <3>1, <1>1 DEF FrontOf
        <3>3. s[k] <= s[j]
            BY <3>1, <2>1 DEF Keyed
        <3> QED
            BY <3>2, <3>3
    <2> QED
        BY <2>1 DEF Keyed
<1>2. CASE BackOf(s, n, a)
    <2>1. ASSUME NEW k \in 1 .. Len(a), NEW j \in 1 .. Len(a), k < j PROVE a[k] <= a[j]
        <3>1. k \in 1 .. Len(s) - n /\ j \in 1 .. Len(s) - n
            BY <1>2 DEF BackOf
        <3>2. n + k \in 1 .. Len(s) /\ n + j \in 1 .. Len(s) /\ n + k < n + j
            BY <3>1, <2>1
        <3>3. a[k] = s[n + k] /\ a[j] = s[n + j]
            BY <3>1, <1>2 DEF BackOf
        <3>4. s[n + k] <= s[n + j]
            BY <3>2 DEF Keyed
        <3> QED
            BY <3>3, <3>4
    <2> QED
        BY <2>1 DEF Keyed
<1> QED
    BY <1>1, <1>2

LEMMA PartedKeys ==
    ASSUME NEW nodes, NEW r, NEW label, NEW p, NEW i, NEW nodes2,
           Parting(nodes, r, label, p, i, nodes2),
           NEW label2, HalfLabelled(nodes, label, p, i, label2),
           NEW n \in 1 .. NewNode(nodes)
    PROVE  NodeKeys(nodes2, label2, n)
<1> DEFINE c == nodes[p].children[i]
           s == NewNode(nodes)
           l == Len(nodes)
           t == treeOrder
           mid == MiddleKey(nodes, p, i)
           kc == nodes[c].keys
<1>1. PartingFacts(nodes, r, label, p, i, nodes2)
    BY PartingKnown
<1>2. /\ l \in Nat /\ s = l + 1 /\ t \in Nat /\ t > 1 /\ c \in 1 .. l /\ p \in 1 .. l /\ c # p
      /\ s \notin 1 .. l
      /\ i \in 1 .. Len(nodes[p].children)
      /\ Len(nodes[p].keys) \in Nat /\ Len(nodes[p].children) = Len(nodes[p].keys) + 1
      /\ nodes[p].keys \in Seq(Nat) /\ Keyed(nodes[p].keys) /\ GoesTo(nodes[p].keys, mid, i)
      /\ kc \in Seq(Nat) /\ Keyed(kc) /\ Len(kc) = 2 * t - 1
      /\ mid \in Nat /\ mid \in label.span[c]
      /\ label.span[c] = Between(nodes[p].keys, i, label.span[p])
    BY <1>1 DEF PartingFacts
<1>3. /\ Put(nodes[p].keys, i - 1, mid, nodes2[p].keys)
      /\ FrontOf(kc, t - 1, nodes2[c].keys) /\ BackOf(kc, t, nodes2[s].keys)
      /\ \A k \in 1 .. l : k # p /\ k # c => nodes2[k] = nodes[k]
    BY <1>1 DEF PartingFacts, Halved
<1>4. /\ label2.span[s] = {k \in label.span[c] : mid <= k}
      /\ label2.span[c] = {k \in label.span[c] : k <= mid}
      /\ \A k \in 1 .. l : k # c => label2.span[k] = label.span[k]
    BY DEF HalfLabelled
<1>5. \A k \in 1 .. l : NodeKeys(nodes, label, k)
    BY DEF Parting, Tree
<1>6. mid = kc[t]
    BY DEF MiddleKey
<1> HIDE DEF c, mid, l, s, t, kc
<1>7. t \in 1 .. Len(kc) /\ t \in 0 .. Len(kc) /\ t - 1 \in 0 .. Len(kc) /\ Len(kc) \in Nat
    BY <1>2
<1>8. \A k \in 1 .. Len(kc) : kc[k] \in label.span[c] /\ kc[k] \in Nat
    <2>1. \A k \in 1 .. Len(kc) : kc[k] \in Nat
        BY <1>2, ElementOfSeq
    <2> QED
        BY <2>1, <1>2, <1>5 DEF NodeKeys, kc
<1>9. CASE n = p
    <2>1. Keyed(nodes2[p].keys)
        BY <1>2, <1>3, KeyedPut
    <2>2. ASSUME NEW k \in 1 .. Len(nodes2[p].keys) PROVE nodes2[p].keys[k] \in label.span[p]
        <3>1. i - 1 \in 0 .. Len(nodes[p].keys)
            BY <1>2, SMTT(60)
        <3>2. nodes2[p].keys[k] = mid \/ \E j \in 1 .. Len(nodes[p].keys) : nodes2[p].keys[k] = nodes[p].keys[j]
            <4> DEFINE kp == nodes[p].keys
                       kp2 == nodes2[p].keys
                       m == i - 1
            <4>1. m \in 0 .. Len(kp) /\ Len(kp) \in Nat /\ Put(kp, m, mid, kp2) /\ k \in 1 .. Len(kp2)
                BY <3>1, <1>2, <1>3
            <4> HIDE DEF kp, kp2, m
            <4>2. kp2[k] = mid \/ \E j \in 1 .. Len(kp) : kp2[k] = kp[j]
                BY <4>1, FromPut
            <4> QED
                BY <4>2 DEF kp, kp2
        <3>3. mid \in label.span[p]
            BY <1>2 DEF Between
        <3>4. \A j \in 1 .. Len(nodes[p].keys) : nodes[p].keys[j] \in label.span[p]
            BY <1>2, <1>5 DEF NodeKeys
        <3> QED
            BY <3>2, <3>3, <3>4
    <2>3. label2.span[p] = label.span[p]
        BY <1>2, <1>4
    <2> QED
        BY <2>1, <2>2, <2>3, <1>9 DEF NodeKeys
<1>10. CASE n = c
    <2>1. Keyed(nodes2[c].keys)
        BY <1>2, <1>3, <1>7, KeyedParts
    <2>2. ASSUME NEW k \in 1 .. Len(nodes2[c].keys) PROVE nodes2[c].keys[k] \in label2.span[c]
        <3>1. k \in 1 .. t - 1 /\ nodes2[c].keys[k] = kc[k]
            BY <1>3 DEF FrontOf
        <3>2. k \in 1 .. Len(kc) /\ k < t
            BY <3>1, <1>7
        <3>3. kc[k] \in label.span[c] /\ kc[k] <= mid
            BY <3>2, <1>2, <1>6, <1>7, <1>8 DEF Keyed
        <3> QED
            BY <3>1, <3>3, <1>4
    <2> QED
        BY <2>1, <2>2, <1>10 DEF NodeKeys
<1>11. CASE n = s
    <2>1. Keyed(nodes2[s].keys)
        BY <1>2, <1>3, <1>7, KeyedParts
    <2>2. ASSUME NEW k \in 1 .. Len(nodes2[s].keys) PROVE nodes2[s].keys[k] \in label2.span[s]
        <3>1. k \in 1 .. Len(kc) - t /\ nodes2[s].keys[k] = kc[t + k]
            BY <1>3 DEF BackOf
        <3>2. t + k \in 1 .. Len(kc) /\ t < t + k
            BY <3>1, <1>2, <1>7
        <3>3. kc[t + k] \in label.span[c] /\ mid <= kc[t + k]
            BY <3>2, <1>2, <1>6, <1>7, <1>8 DEF Keyed
        <3> QED
            BY <3>1, <3>3, <1>4
    <2> QED
        BY <2>1, <2>2, <1>11 DEF NodeKeys
<1>12. CASE n # p /\ n # c /\ n # s
    <2>1. n \in 1 .. l
        BY <1>2, <1>12 DEF s
    <2>2. nodes2[n] = nodes[n] /\ label2.span[n] = label.span[n] /\ NodeKeys(nodes, label, n)
        BY <2>1, <1>3, <1>4, <1>5, <1>12
    <2> QED
        BY <2>2 DEF NodeKeys
<1> QED
    BY <1>9, <1>10, <1>11, <1>12

\* Preconditions and conclusions of the above, named
PutInto(s, i, e, r) ==
    s \in Seq(Nat) /\ Keyed(s) /\ e \in Nat /\ GoesTo(s, e, i) /\ Put(s, i - 1, e, r)

Divides(s, i, e, r, span) ==
    /\ Between(r, i, span) = {k \in Between(s, i, span) : k <= e}
    /\ Between(r, i + 1, span) = {k \in Between(s, i, span) : e <= k}
    /\ \A j \in 1 .. i - 1 : Between(r, j, span) = Between(s, j, span)
    /\ \A j \in i + 1 .. Len(s) + 1 : Between(r, j + 1, span) = Between(s, j, span)

LEMMA PutDivides ==
    ASSUME NEW s, NEW i, NEW e, NEW r, PutInto(s, i, e, r), NEW span \in SUBSET Nat
    PROVE  Divides(s, i, e, r, span)
<1>1. s \in Seq(Nat) /\ Keyed(s) /\ e \in Nat /\ GoesTo(s, e, i) /\ Put(s, i - 1, e, r)
    BY DEF PutInto
<1>2. /\ Between(r, i, span) = {k \in Between(s, i, span) : k <= e}
      /\ Between(r, i + 1, span) = {k \in Between(s, i, span) : e <= k}
      /\ \A j \in 1 .. i - 1 : Between(r, j, span) = Between(s, j, span)
      /\ \A j \in i + 1 .. Len(s) + 1 : Between(r, j + 1, span) = Between(s, j, span)
    BY <1>1, BetweenPut
<1> QED
    BY <1>2, Zenon DEF Divides

CutAt(s, m) == s \in Seq(Nat) /\ Keyed(s) /\ m \in Nat /\ m < Len(s)
Upto(span, e) == {k \in span : k <= e}
From(span, e) == {k \in span : e <= k}

LEMMA FrontDivides ==
    ASSUME NEW s, NEW m, CutAt(s, m), NEW a, FrontOf(s, m, a), NEW span \in SUBSET Nat,
           NEW e, e = s[m + 1], NEW j, j \in 1 .. m + 1
    PROVE  Between(a, j, Upto(span, e)) = Between(s, j, span)
    BY BetweenFront DEF CutAt, Upto

LEMMA BackDivides ==
    ASSUME NEW s, NEW m, CutAt(s, m), NEW n, n = m + 1, NEW b, BackOf(s, n, b), NEW span \in SUBSET Nat,
           NEW e, e = s[n], NEW j, j \in 1 .. Len(s) - m, NEW q, q = n + j
    PROVE  Between(b, j, From(span, e)) = Between(s, q, span)
    BY BetweenBack DEF CutAt, From

\* A node keeps a child, or another takes it over.
KeepsChild(nodes, label, n, j, nodes2, label2, n2, j2, d) ==
    /\ Len(nodes) \in Nat /\ Len(nodes2) = Len(nodes) + 1
    /\ NodeChild(nodes, label, n, j)
    /\ nodes[n].children[j] = d /\ nodes2[n2].children[j2] = d
    /\ label2.par[d] = n2 /\ label2.pos[d] = j2
    /\ label2.h[n2] = label.h[n] /\ label2.h[d] = label.h[d]
    /\ label2.span[d] = label.span[d]
    /\ Between(nodes2[n2].keys, j2, label2.span[n2]) = Between(nodes[n].keys, j, label.span[n])

LEMMA ChildStays ==
    ASSUME NEW nodes, NEW nodes2, NEW label, NEW label2, NEW n, NEW j, NEW n2, NEW j2, NEW d,
           KeepsChild(nodes, label, n, j, nodes2, label2, n2, j2, d)
    PROVE  NodeChild(nodes2, label2, n2, j2)
<1> DEFINE l == Len(nodes)
<1>1. d \in 1 .. l /\ label.h[n] = label.h[d] + 1
      /\ label.span[d] = Between(nodes[n].keys, j, label.span[n])
    BY DEF NodeChild, KeepsChild
<1>2. d \in 1 .. Len(nodes2)
    BY <1>1 DEF KeepsChild
<1> QED
    BY <1>1, <1>2 DEF NodeChild, KeepsChild

LEMMA PartedChild ==
    ASSUME NEW nodes, NEW r, NEW label, NEW p, NEW i, NEW nodes2,
           Parting(nodes, r, label, p, i, nodes2),
           NEW label2, HalfLabelled(nodes, label, p, i, label2),
           NEW n \in 1 .. NewNode(nodes), NEW j \in 1 .. Len(nodes2[n].children)
    PROVE  NodeChild(nodes2, label2, n, j)
<1> DEFINE c == nodes[p].children[i]
           s == NewNode(nodes)
           l == Len(nodes)
           t == treeOrder
           mid == MiddleKey(nodes, p, i)
           kc == nodes[c].keys
           kp == nodes[p].keys
           cp == nodes[p].children
           cc == nodes[c].children
           lp == Len(cp)
           lc == Len(cc)
           before == i - 1
           less == t - 1
<1>1. PartingFacts(nodes, r, label, p, i, nodes2)
    BY PartingKnown
<1>2. /\ l \in Nat /\ s = l + 1 /\ c \in 1 .. l /\ p \in 1 .. l /\ c # p
      /\ s \notin 1 .. l /\ Len(nodes2) = l + 1 /\ s \in 1 .. l + 1
    <2>1. /\ l \in Nat /\ s = l + 1 /\ c \in 1 .. l /\ p \in 1 .. l /\ c # p /\ Len(nodes2) = s
        BY <1>1, Zenon DEF PartingFacts
    <2> HIDE DEF l, s, c
    <2> QED
        BY <2>1
<1>3. i \in 1 .. lp /\ lp = Len(kp) + 1 /\ Len(kp) \in Nat
    BY <1>1 DEF PartingFacts
<1>4. /\ label.span[c] = Between(kp, i, label.span[p])
      /\ label.par[c] = p /\ label.pos[c] = i /\ label.h[p] = label.h[c] + 1
    BY <1>1 DEF PartingFacts
<1>5. PutInto(kp, i, mid, nodes2[p].keys)
    BY <1>1 DEF PartingFacts, PutInto
<1>6. t \in Nat /\ t > 1 /\ Len(kc) = 2 * t - 1
    BY <1>1 DEF PartingFacts
<1>7. CutAt(kc, less) /\ t = less + 1 /\ less \in Nat /\ Len(kc) - less = t
    <2>1. kc \in Seq(Nat) /\ Keyed(kc)
        BY <1>1 DEF PartingFacts
    <2> DEFINE lk == Len(kc)
    <2>2. lk = 2 * t - 1
        BY <1>6
    <2> HIDE DEF lk, t
    <2>3. less \in Nat /\ less < lk /\ t = less + 1 /\ lk - less = t
        BY <2>2, <1>6 DEF less
    <2> QED
        BY <2>1, <2>3 DEF CutAt, lk, t
<1>8. ~nodes[c].isLeaf => lc = 2 * t
    BY <1>1 DEF PartingFacts
<1>9. Put(cp, i, s, nodes2[p].children)
    BY <1>1 DEF PartingFacts
<1>10. /\ FrontOf(kc, less, nodes2[c].keys) /\ BackOf(kc, t, nodes2[s].keys)
       /\ nodes[c].isLeaf => nodes2[c].children = <<>> /\ nodes2[s].children = <<>>
       /\ ~nodes[c].isLeaf => FrontOf(cc, t, nodes2[c].children) /\ BackOf(cc, t, nodes2[s].children)
    BY <1>1 DEF PartingFacts, Halved
<1>11. \A k \in 1 .. l : k # p /\ k # c => nodes2[k] = nodes[k]
    BY <1>1 DEF PartingFacts
<1>12. mid = kc[t]
    BY DEF MiddleKey
<1>13. /\ label2.h[s] = label.h[c] /\ label2.par[s] = p /\ label2.pos[s] = i + 1
       /\ label2.span[s] = From(label.span[c], mid)
       /\ label2.span[c] = Upto(label.span[c], mid)
       /\ \A k \in 1 .. l : label2.h[k] = label.h[k]
       /\ \A k \in 1 .. l : k # c => label2.span[k] = label.span[k]
    BY DEF HalfLabelled, From, Upto
<1>14. ASSUME NEW k \in 1 .. l
       PROVE  /\ label.par[k] = c /\ label.pos[k] > t
                    => label2.par[k] = s /\ label2.pos[k] = label.pos[k] - t
              /\ label.par[k] = c /\ ~(label.pos[k] > t)
                    => label2.par[k] = c /\ label2.pos[k] = label.pos[k]
              /\ label.par[k] = p /\ label.pos[k] > i
                    => label2.par[k] = p /\ label2.pos[k] = label.pos[k] + 1
              /\ label.par[k] = p /\ ~(label.pos[k] > i)
                    => label2.par[k] = p /\ label2.pos[k] = label.pos[k]
              /\ label.par[k] # p /\ label.par[k] # c
                    => label2.par[k] = label.par[k] /\ label2.pos[k] = label.pos[k]
    BY DEF HalfLabelled
<1>15. \A k \in 1 .. l : \A m \in 1 .. Len(nodes[k].children) : NodeChild(nodes, label, k, m)
    BY DEF Parting, Tree
<1>16. \A k \in 1 .. l : label.span[k] \in SUBSET Nat /\ label.h[k] \in Nat
    BY LabelFacts DEF Parting
<1> HIDE DEF c, mid, l, s, t, kc, kp, cp, cc, lp, lc, before, less
<1>17. ASSUME n = p PROVE NodeChild(nodes2, label2, n, j)
    <2>1. /\ Len(nodes2[p].children) = lp + 1 /\ nodes2[p].children[i + 1] = s
          /\ \A k \in 1 .. i : nodes2[p].children[k] = cp[k]
          /\ \A k \in i + 2 .. lp + 1 : nodes2[p].children[k] = cp[k - 1]
        BY <1>9 DEF Put, lp
    <2>2. j \in 1 .. lp + 1
        BY <2>1, <1>17
    <2>3. label.span[p] \in SUBSET Nat /\ label2.span[p] = label.span[p]
          /\ label2.h[p] = label.h[p]
        BY <1>2, <1>13, <1>16
    <2>4. Divides(kp, i, mid, nodes2[p].keys, label.span[p])
        BY <2>3, <1>5, PutDivides
    <2>5. /\ Between(nodes2[p].keys, i, label.span[p]) = Upto(label.span[c], mid)
          /\ Between(nodes2[p].keys, i + 1, label.span[p]) = From(label.span[c], mid)
          /\ \A k \in 1 .. i - 1 :
                Between(nodes2[p].keys, k, label.span[p]) = Between(kp, k, label.span[p])
          /\ \A k \in i + 1 .. lp :
                Between(nodes2[p].keys, k + 1, label.span[p]) = Between(kp, k, label.span[p])
        BY <2>4, <1>3, <1>4 DEF Divides, Upto, From
    <2>6. CASE j = i
        <3>1. nodes2[p].children[i] = c /\ ~(label.pos[c] > i)
            BY <2>1, <1>3, <1>4 DEF c, cp
        <3>2. /\ label2.par[c] = p /\ label2.pos[c] = i
            BY <3>1, <1>2, <1>4, <1>14
        <3>3. label2.h[p] = label2.h[c] + 1
            BY <2>3, <1>2, <1>4, <1>13
        <3>4. label2.span[c] = Between(nodes2[p].keys, i, label2.span[p])
            BY <2>3, <2>5, <1>13
        <3>5. c \in 1 .. Len(nodes2)
            BY <1>2
        <3> QED
            BY <3>1, <3>2, <3>3, <3>4, <3>5, <2>6, <1>17 DEF NodeChild
    <2>7. CASE j = i + 1
        <3>1. label2.h[p] = label2.h[s] + 1
            BY <2>3, <1>4, <1>13
        <3>2. label2.span[s] = Between(nodes2[p].keys, i + 1, label2.span[p])
            BY <2>3, <2>5, <1>13
        <3>3. s \in 1 .. Len(nodes2)
            BY <1>2
        <3> QED
            BY <3>1, <3>2, <3>3, <2>1, <2>7, <1>13, <1>17 DEF NodeChild
    <2>8. CASE j < i
        <3> DEFINE d == cp[j]
        <3>1. j \in 1 .. i /\ j \in 1 .. i - 1 /\ j \in 1 .. lp /\ ~(j > i) /\ j # i
            BY <2>2, <2>8, <1>3
        <3>2. NodeChild(nodes, label, p, j) /\ nodes[p].children[j] = d
            BY <3>1, <1>2, <1>15 DEF cp, lp
        <3>3. d \in 1 .. l /\ label.par[d] = p /\ label.pos[d] = j
            BY <3>2 DEF NodeChild, l
        <3>4. d # c
            BY <3>1, <3>3, <1>4
        <3>5. /\ label2.par[d] = p /\ label2.pos[d] = j /\ label2.h[d] = label.h[d]
              /\ label2.span[d] = label.span[d]
            BY <3>1, <3>3, <3>4, <1>13, <1>14
        <3>6. nodes2[p].children[j] = d
            BY <3>1, <2>1
        <3>7. Between(nodes2[p].keys, j, label2.span[p]) = Between(nodes[p].keys, j, label.span[p])
            BY <3>1, <2>3, <2>5 DEF kp
        <3> HIDE DEF d
        <3>8. KeepsChild(nodes, label, p, j, nodes2, label2, p, j, d)
            BY <3>2, <3>5, <3>6, <3>7, <2>3, <1>2 DEF l, KeepsChild
        <3> QED
            BY <3>8, <1>17, ChildStays
    <2>9. CASE j > i + 1
        <3> DEFINE m == j - 1
                   d == cp[m]
        <3>1. /\ j \in i + 2 .. lp + 1 /\ m \in 1 .. lp /\ m > i
              /\ m \in i + 1 .. lp /\ j = m + 1 /\ m # i
            BY <2>2, <2>9, <1>3
        <3>2. nodes2[p].children[j] = d
            BY <3>1, <2>1
        <3> HIDE DEF m
        <3>3. NodeChild(nodes, label, p, m) /\ nodes[p].children[m] = d
            BY <3>1, <1>2, <1>15 DEF cp, lp
        <3>4. d \in 1 .. l /\ label.par[d] = p /\ label.pos[d] = m
            BY <3>3 DEF NodeChild, l
        <3>5. d # c
            BY <3>1, <3>4, <1>4
        <3>6. /\ label2.par[d] = p /\ label2.pos[d] = j /\ label2.h[d] = label.h[d]
              /\ label2.span[d] = label.span[d]
            BY <3>1, <3>4, <3>5, <1>13, <1>14
        <3>7. Between(nodes2[p].keys, j, label2.span[p]) = Between(nodes[p].keys, m, label.span[p])
            BY <3>1, <2>3, <2>5 DEF kp
        <3> HIDE DEF d
        <3>8. KeepsChild(nodes, label, p, m, nodes2, label2, p, j, d)
            BY <3>2, <3>3, <3>6, <3>7, <2>3, <1>2 DEF l, KeepsChild
        <3> QED
            BY <3>8, <1>17, ChildStays
    <2>10. j < i \/ j = i \/ j = i + 1 \/ j > i + 1
        BY <2>2, <1>3
    <2> QED
        BY <2>6, <2>7, <2>8, <2>9, <2>10
<1>18. ASSUME NEW k \in 1 .. lc
       PROVE  /\ NodeChild(nodes, label, c, k) /\ cc[k] \in 1 .. l /\ nodes[c].children[k] = cc[k]
              /\ label.par[cc[k]] = c /\ label.pos[cc[k]] = k
              /\ label2.h[cc[k]] = label.h[cc[k]] /\ label2.span[cc[k]] = label.span[cc[k]]
    <2>1. NodeChild(nodes, label, c, k) /\ cc[k] = nodes[c].children[k]
        BY <1>2, <1>15 DEF cc, lc
    <2>2. cc[k] \in 1 .. l /\ label.par[cc[k]] = c /\ label.pos[cc[k]] = k
        BY <2>1 DEF NodeChild, l
    <2>3. cc[k] # c
        BY <2>2, <1>2, <1>4
    <2> QED
        BY <2>1, <2>2, <2>3, <1>13
<1>19. label.span[c] \in SUBSET Nat /\ label2.h[c] = label.h[c] /\ label2.h[s] = label.h[c]
    BY <1>2, <1>13, <1>16
<1>20. ASSUME n = c PROVE NodeChild(nodes2, label2, n, j)
    <2>1. ~nodes[c].isLeaf
        BY <1>10, <1>20
    <2>2. Len(nodes2[c].children) = t /\ \A k \in 1 .. t : nodes2[c].children[k] = cc[k]
        BY <2>1, <1>10 DEF FrontOf
    <2>3. j \in 1 .. t /\ j \in 1 .. lc /\ ~(j > t)
        BY <2>1, <2>2, <1>6, <1>8, <1>20
    <2> DEFINE d == cc[j]
    <2>4. label2.par[d] = c /\ label2.pos[d] = j /\ nodes2[c].children[j] = d
        BY <2>2, <2>3, <1>14, <1>18
    <2>5. Between(nodes2[c].keys, j, label2.span[c]) = Between(nodes[c].keys, j, label.span[c])
        <3> DEFINE span == label.span[c]
                   a == nodes2[c].keys
        <3>1. /\ FrontOf(kc, less, a) /\ j \in 1 .. less + 1
              /\ span \in SUBSET Nat /\ mid = kc[less + 1]
            BY <2>3, <1>7, <1>10, <1>12, <1>19
        <3> HIDE DEF span, a
        <3>2. Between(a, j, Upto(span, mid)) = Between(kc, j, span)
            BY <3>1, <1>7, FrontDivides
        <3> QED
            BY <3>2, <1>13 DEF span, a, kc
    <2>6. KeepsChild(nodes, label, c, j, nodes2, label2, c, j, d)
        BY <2>3, <2>4, <2>5, <1>2, <1>18, <1>19 DEF l, KeepsChild
    <2> HIDE DEF d
    <2> QED
        BY <2>6, <1>20, ChildStays
<1>21. ASSUME n = s PROVE NodeChild(nodes2, label2, n, j)
    <2>1. ~nodes[c].isLeaf
        BY <1>10, <1>21
    <2>2. Len(nodes2[s].children) = lc - t /\ lc = 2 * t
          /\ \A k \in 1 .. lc - t : nodes2[s].children[k] = cc[t + k]
        BY <2>1, <1>8, <1>10 DEF BackOf, lc
    <2> DEFINE q == t + j
               d == cc[q]
    <2>3. j \in 1 .. lc - t
        BY <2>2, <1>21
    <2>4. q \in 1 .. lc /\ q > t /\ q - t = j /\ j \in 1 .. Len(kc) - less
        BY <2>2, <2>3, <1>6, <1>7
    <2>5. nodes2[s].children[j] = d
        BY <2>2, <2>3
    <2>6. Between(nodes2[s].keys, j, label2.span[s]) = Between(nodes[c].keys, q, label.span[c])
        <3> DEFINE span == label.span[c]
                   b == nodes2[s].keys
        <3>1. span \in SUBSET Nat /\ BackOf(kc, t, b)
            BY <1>10, <1>19
        <3> HIDE DEF span, b, q
        <3>2. Between(b, j, From(span, mid)) = Between(kc, q, span)
            <4>1. q = t + j
                BY DEF q
            <4>2. CutAt(kc, less) /\ t = less + 1 /\ mid = kc[t] /\ j \in 1 .. Len(kc) - less
                BY <2>4, <1>7, <1>12
            <4> QED
                BY <3>1, <4>1, <4>2, BackDivides
        <3> QED
            BY <3>2, <1>13 DEF span, b, kc
    <2> HIDE DEF q
    <2>7. label2.par[d] = s /\ label2.pos[d] = j
        BY <2>4, <1>14, <1>18
    <2>8. KeepsChild(nodes, label, c, q, nodes2, label2, s, j, d)
        BY <2>4, <2>5, <2>6, <2>7, <1>2, <1>18, <1>19 DEF l, KeepsChild
    <2> HIDE DEF d
    <2> QED
        BY <2>8, <1>21, ChildStays
<1>22. ASSUME n # p, n # c, n # s PROVE NodeChild(nodes2, label2, n, j)
    <2>1. n \in 1 .. l
        BY <1>2, <1>22 DEF s
    <2>2. nodes2[n] = nodes[n] /\ label2.h[n] = label.h[n] /\ label2.span[n] = label.span[n]
        BY <2>1, <1>11, <1>13, <1>22
    <2> DEFINE d == nodes[n].children[j]
    <2>3. NodeChild(nodes, label, n, j)
        BY <2>1, <2>2, <1>15
    <2>4. d \in 1 .. l /\ label.par[d] = n
        BY <2>3 DEF NodeChild, l
    <2>5. d # c
        BY <2>4, <1>4, <1>22
    <2>6. label.pos[d] = j
        BY <2>3 DEF NodeChild
    <2>7. /\ label2.par[d] = n /\ label2.pos[d] = j /\ label2.h[d] = label.h[d]
          /\ label2.span[d] = label.span[d]
        BY <2>4, <2>5, <2>6, <1>13, <1>14, <1>22
    <2>8. nodes2[n].children[j] = d /\ nodes[n].children[j] = d
        BY <2>2
    <2>9. Between(nodes2[n].keys, j, label2.span[n]) = Between(nodes[n].keys, j, label.span[n])
        BY <2>2
    <2> HIDE DEF d
    <2>10. KeepsChild(nodes, label, n, j, nodes2, label2, n, j, d)
        BY <2>2, <2>3, <2>7, <2>8, <2>9, <1>2 DEF l, KeepsChild
    <2> QED
        BY <2>10, ChildStays
<1> QED
    BY <1>17, <1>20, <1>21, <1>22

LEMMA PartedPlace ==
    ASSUME NEW nodes, NEW r, NEW label, NEW p, NEW i, NEW nodes2,
           Parting(nodes, r, label, p, i, nodes2),
           NEW label2, HalfLabelled(nodes, label, p, i, label2),
           NEW n \in 1 .. NewNode(nodes), n # r
    PROVE  NodePlace(nodes2, label2, n)
<1> DEFINE c == nodes[p].children[i]
           s == NewNode(nodes)
           l == Len(nodes)
           t == treeOrder
           cp == nodes[p].children
           cc == nodes[c].children
           lp == Len(cp)
           lc == Len(cc)
<1>1. PartingFacts(nodes, r, label, p, i, nodes2)
    BY PartingKnown
<1>2. /\ l \in Nat /\ s = l + 1 /\ c \in 1 .. l /\ p \in 1 .. l /\ c # p
      /\ s \notin 1 .. l /\ Len(nodes2) = l + 1 /\ s \in 1 .. l + 1
    <2>1. /\ l \in Nat /\ s = l + 1 /\ c \in 1 .. l /\ p \in 1 .. l /\ c # p /\ Len(nodes2) = s
        BY <1>1, Zenon DEF PartingFacts
    <2> HIDE DEF l, s, c
    <2> QED
        BY <2>1
<1>3. i \in 1 .. lp /\ lp \in Nat
    <2>1. i \in 1 .. lp /\ lp = Len(nodes[p].keys) + 1 /\ Len(nodes[p].keys) \in Nat
        BY <1>1, Zenon DEF PartingFacts
    <2> HIDE DEF lp
    <2> QED
        BY <2>1
<1>4. t \in Nat /\ t > 1
    BY <1>1 DEF PartingFacts
<1>5. /\ ~nodes[c].isLeaf => lc = 2 * t
      /\ nodes[c].isLeaf => cc = <<>>
    BY <1>1 DEF PartingFacts
<1>6. Put(cp, i, s, nodes2[p].children)
    BY <1>1 DEF PartingFacts
<1>7. ~nodes[c].isLeaf => FrontOf(cc, t, nodes2[c].children) /\ BackOf(cc, t, nodes2[s].children)
    BY <1>1 DEF PartingFacts, Halved
<1>8. \A k \in 1 .. l : k # p /\ k # c => nodes2[k] = nodes[k]
    BY <1>1 DEF PartingFacts
<1>9. label2.par[s] = p /\ label2.pos[s] = i + 1
    BY DEF HalfLabelled
<1>10. ASSUME NEW k \in 1 .. l
       PROVE  /\ label.par[k] = c /\ label.pos[k] > t
                    => label2.par[k] = s /\ label2.pos[k] = label.pos[k] - t
              /\ label.par[k] = c /\ ~(label.pos[k] > t)
                    => label2.par[k] = c /\ label2.pos[k] = label.pos[k]
              /\ label.par[k] = p /\ label.pos[k] > i
                    => label2.par[k] = p /\ label2.pos[k] = label.pos[k] + 1
              /\ label.par[k] = p /\ ~(label.pos[k] > i)
                    => label2.par[k] = p /\ label2.pos[k] = label.pos[k]
              /\ label.par[k] # p /\ label.par[k] # c
                    => label2.par[k] = label.par[k] /\ label2.pos[k] = label.pos[k]
    BY DEF HalfLabelled
<1>11. \A k \in 1 .. l : k # r => NodePlace(nodes, label, k)
    BY DEF Parting, Tree
<1>12. ASSUME nodes[c].isLeaf PROVE Len(cc) = 0
    BY <1>12, <1>5
<1> HIDE DEF c, s, t, cp, cc, lp, lc
<1>13. /\ Len(nodes2[p].children) = lp + 1 /\ nodes2[p].children[i + 1] = s
       /\ \A k \in 1 .. i : nodes2[p].children[k] = cp[k]
       /\ \A k \in i + 2 .. lp + 1 : nodes2[p].children[k] = cp[k - 1]
    BY <1>6 DEF Put, lp
<1>14. CASE n = s
    <2>1. i + 1 \in 1 .. lp + 1 /\ p \in 1 .. l + 1
        BY <1>2, <1>3
    <2> QED
        BY <2>1, <1>2, <1>9, <1>13, <1>14 DEF NodePlace
<1>15. ASSUME n # s PROVE NodePlace(nodes2, label2, n)
    <2> DEFINE b == label.par[n]
               q == label.pos[n]
    <2>1. n \in 1 .. l
        BY <1>2, <1>15 DEF s
    <2>2. /\ b \in 1 .. l /\ q \in 1 .. Len(nodes[b].children) /\ nodes[b].children[q] = n
        BY <2>1, <1>11 DEF NodePlace, l
    <2>3. b \in 1 .. l + 1 /\ q \in Nat
        <3>1. q \in Nat
            BY <2>1, LabelFacts DEF Parting, l
        <3> QED
            BY <3>1, <2>2, <1>2
    <2>4. CASE b = c
        <3>1. ~nodes[c].isLeaf
            <4> SUFFICES ASSUME nodes[c].isLeaf PROVE FALSE
                OBVIOUS
            <4>1. q \in 1 .. Len(cc) /\ Len(cc) = 0
                BY <2>2, <2>4, <1>12 DEF cc
            <4> QED
                BY <4>1
        <3>2. q \in 1 .. lc /\ cc[q] = n /\ lc = 2 * t
            BY <3>1, <2>2, <2>4, <1>5 DEF cc, lc
        <3>3. /\ Len(nodes2[c].children) = t /\ Len(nodes2[s].children) = lc - t
              /\ \A k \in 1 .. t : nodes2[c].children[k] = cc[k]
              /\ \A k \in 1 .. lc - t : nodes2[s].children[k] = cc[t + k]
            BY <3>1, <1>7 DEF FrontOf, BackOf, lc
        <3>4. CASE q > t
            <4>1. label2.par[n] = s /\ label2.pos[n] = q - t
                BY <3>4, <2>1, <2>4, <1>10
            <4>2. q - t \in 1 .. lc - t /\ t + (q - t) = q
                BY <3>2, <3>4, <2>3, <1>4
            <4>3. nodes2[s].children[q - t] = n
                BY <3>2, <3>3, <4>2
            <4> HIDE DEF q
            <4> QED
                BY <3>3, <4>1, <4>2, <4>3, <1>2 DEF NodePlace
        <3>5. CASE ~(q > t)
            <4>1. label2.par[n] = c /\ label2.pos[n] = q
                BY <3>5, <2>1, <2>4, <1>10
            <4>2. q \in 1 .. t
                BY <3>2, <3>5, <2>3, <1>4
            <4>3. c \in 1 .. l + 1
                BY <1>2
            <4> HIDE DEF q
            <4> QED
                BY <3>2, <3>3, <4>1, <4>2, <4>3, <1>2 DEF NodePlace
        <3> QED
            BY <3>4, <3>5
    <2>5. CASE b = p
        <3>1. q \in 1 .. lp /\ cp[q] = n
            BY <2>2, <2>5 DEF cp, lp
        <3>2. p \in 1 .. l + 1
            BY <1>2
        <3>3. CASE q > i
            <4>1. label2.par[n] = p /\ label2.pos[n] = q + 1
                BY <3>3, <2>1, <2>5, <1>10
            <4>2. q + 1 \in i + 2 .. lp + 1 /\ (q + 1) - 1 = q /\ q + 1 \in 1 .. lp + 1
                BY <3>1, <3>3, <2>3, <1>3
            <4> HIDE DEF q
            <4>3. nodes2[p].children[q + 1] = n
                BY <3>1, <4>2, <1>13
            <4> QED
                BY <3>2, <4>1, <4>2, <4>3, <1>2, <1>13 DEF NodePlace
        <3>4. CASE ~(q > i)
            <4>1. label2.par[n] = p /\ label2.pos[n] = q
                BY <3>4, <2>1, <2>5, <1>10
            <4>2. q \in 1 .. i /\ q \in 1 .. lp + 1
                BY <3>1, <3>4, <2>3, <1>3
            <4> HIDE DEF q
            <4> QED
                BY <3>1, <3>2, <4>1, <4>2, <1>2, <1>13 DEF NodePlace
        <3> QED
            BY <3>3, <3>4
    <2>6. CASE b # c /\ b # p
        <3>1. label2.par[n] = b /\ label2.pos[n] = q /\ nodes2[b] = nodes[b]
            BY <2>1, <2>2, <2>6, <1>8, <1>10
        <3> QED
            BY <3>1, <2>2, <2>3, <1>2 DEF NodePlace
    <2> QED
        BY <2>4, <2>5, <2>6
<1> QED
    BY <1>14, <1>15

\* A tree stays one.
LEMMA SplitTree ==
    ASSUME NEW nodes, NEW r, NEW label, NEW p, NEW i, NEW nodes2,
           Parting(nodes, r, label, p, i, nodes2)
    PROVE  /\ HalfLabelled(nodes, label, p, i, HalfLabels(nodes, label, p, i))
           /\ Tree(nodes2, r, HalfLabels(nodes, label, p, i))
<1> DEFINE label2 == HalfLabels(nodes, label, p, i)
           s == NewNode(nodes)
           c == nodes[p].children[i]
<1>1. HalfLabelled(nodes, label, p, i, label2)
    BY HalfLabelsFacts
<1>2. /\ nodes2 \in Seq(TreeNodes) /\ Len(nodes2) = s /\ r \in 1 .. Len(nodes)
      /\ s = Len(nodes) + 1 /\ Len(nodes) \in Nat /\ c # r /\ p \in 1 .. Len(nodes)
      /\ c \in 1 .. Len(nodes)
    BY PartingKnown DEF PartingFacts
<1>3. label.par[r] = 0 /\ label.span[r] = TreeKeys
    BY DEF Parting, Tree
<1> HIDE DEF label2, s, c
<1>4. label2 \in Labels(s) /\ label2.span[r] = label.span[r]
    BY <1>1, <1>2 DEF HalfLabelled, s, c
<1>5. label2.par[r] = label.par[r]
    <2>1. label.par[r] # p /\ label.par[r] # c
        BY <1>2, <1>3
    <2> QED
        BY <2>1, <1>1, <1>2 DEF HalfLabelled, c
<1>6. r \in 1 .. s
    BY <1>2
<1>7. \A n \in 1 .. s : NodeShape(nodes2, r, label2, n) /\ NodeKeys(nodes2, label2, n)
    BY <1>1, PartedShape, PartedKeys DEF s
<1>8. \A n \in 1 .. s : \A j \in 1 .. Len(nodes2[n].children) : NodeChild(nodes2, label2, n, j)
    BY <1>1, PartedChild DEF s
<1>9. \A n \in 1 .. s : n # r => NodePlace(nodes2, label2, n)
    BY <1>1, PartedPlace DEF s
<1>10. Tree(nodes2, r, label2)
    BY <1>2, <1>3, <1>4, <1>5, <1>6, <1>7, <1>8, <1>9 DEF Tree
<1> QED
    BY <1>1, <1>10 DEF label2

\* How often a tree holds a key
CountIn(nodes, k) == SumFunctionOnSet([n \in 1 .. Len(nodes) |-> Copies(nodes[n].keys, k)], 1 .. Len(nodes))

\* What is cut in two around an element
LEMMA CopiesAround ==
    ASSUME NEW S, NEW s \in Seq(S), NEW n \in 1 .. Len(s),
           NEW a \in Seq(S), FrontOf(s, n - 1, a), NEW b \in Seq(S), BackOf(s, n, b), NEW x
    PROVE  Copies(s, x) = Copies(a, x) + Copies(b, x) + (IF s[n] = x THEN 1 ELSE 0)
<1> DEFINE e == s[n]
           front == Append(a, e)
<1>1. Len(s) \in Nat /\ e \in S /\ n \in Nat /\ n \in 0 .. Len(s)
    BY LenProperties, ElementOfSeq
<1>2. /\ front \in Seq(S) /\ Len(front) = Len(a) + 1 /\ front[Len(a) + 1] = e
      /\ \A k \in 1 .. Len(a) : front[k] = a[k]
    BY <1>1, AppendProperties
<1>3. Len(a) = n - 1 /\ \A k \in 1 .. n - 1 : a[k] = s[k]
    BY DEF FrontOf
<1>4. Copies(front, x) = Copies(a, x) + (IF e = x THEN 1 ELSE 0)
    BY <1>1, CopiesAppend
<1> HIDE DEF front
<1>5. FrontOf(s, n, front)
    <2>1. Len(front) = n
        BY <1>1, <1>2, <1>3
    <2>2. ASSUME NEW k \in 1 .. n PROVE front[k] = s[k]
        <3>1. CASE k = n
            BY <3>1, <1>1, <1>2, <1>3
        <3>2. CASE k # n
            <4>1. k \in 1 .. n - 1
                BY <3>2, <1>1
            <4> QED
                BY <4>1, <1>2, <1>3
        <3> QED
            BY <3>1, <3>2
    <2> QED
        BY <2>1, <2>2 DEF FrontOf
<1>6. Copies(s, x) = Copies(front, x) + Copies(b, x)
    BY <1>1, <1>2, <1>5, CopiesCut
<1>7. Copies(a, x) \in Nat /\ Copies(b, x) \in Nat
    BY AtFacts
<1> QED
    BY <1>4, <1>6, <1>7

LEMMA CopiesPutKey ==
    ASSUME NEW s \in Seq(Nat), NEW e \in Nat, NEW n \in 0 .. Len(s),
           NEW r \in Seq(Nat), Put(s, n, e, r), NEW x, NEW one, one = IF e = x THEN 1 ELSE 0
    PROVE  Copies(r, x) = Copies(s, x) + one
<1> DEFINE N == Nat
<1>1. s \in Seq(N) /\ e \in N /\ r \in Seq(N)
    OBVIOUS
<1> HIDE DEF N
<1>2. Copies(r, x) = Copies(s, x) + (IF e = x THEN 1 ELSE 0)
    BY <1>1, CopiesPut
<1> QED
    BY <1>2

\* A split loses no key and finds none.
LEMMA SplitCounts ==
    ASSUME NEW nodes, NEW r, NEW label, NEW p, NEW i, NEW nodes2,
           Parting(nodes, r, label, p, i, nodes2), NEW k
    PROVE  CountIn(nodes2, k) = CountIn(nodes, k)
<1> DEFINE c == nodes[p].children[i]
           s == NewNode(nodes)
           l == Len(nodes)
           t == treeOrder
           mid == MiddleKey(nodes, p, i)
           kc == nodes[c].keys
           kp == nodes[p].keys
           one == IF mid = k THEN 1 ELSE 0
           S == 1 .. l
           f == [n \in 1 .. l |-> Copies(nodes[n].keys, k)]
           g == [n \in 1 .. Len(nodes2) |-> Copies(nodes2[n].keys, k)]
           h == [n \in 1 .. l |-> IF n = c THEN g[c] ELSE f[n]]
<1>1. PartingFacts(nodes, r, label, p, i, nodes2)
    BY PartingKnown
<1>2. /\ l \in Nat /\ s = l + 1 /\ c \in 1 .. l /\ p \in 1 .. l /\ c # p
      /\ Len(nodes2) = l + 1 /\ s \in 1 .. l + 1
    <2>1. /\ l \in Nat /\ s = l + 1 /\ c \in 1 .. l /\ p \in 1 .. l /\ c # p /\ Len(nodes2) = s
        BY <1>1, Zenon DEF PartingFacts
    <2> HIDE DEF l, s, c
    <2> QED
        BY <2>1
<1>3. nodes \in Seq(TreeNodes) /\ nodes2 \in Seq(TreeNodes)
    BY <1>1, LabelFacts DEF PartingFacts, Parting
<1>4. /\ \A n \in 1 .. l : nodes[n].keys \in Seq(Nat)
      /\ \A n \in 1 .. l + 1 : nodes2[n].keys \in Seq(Nat)
    BY <1>2, <1>3, TreeNodeFacts
<1>5. i \in 1 .. Len(kp) + 1 /\ Len(kp) \in Nat /\ mid \in Nat /\ t \in 1 .. Len(kc)
    <2>1. /\ i \in 1 .. Len(nodes[p].children) /\ Len(nodes[p].children) = Len(kp) + 1
          /\ Len(kp) \in Nat /\ mid \in Nat
        BY <1>1 DEF PartingFacts
    <2>2. t \in Nat /\ t > 1 /\ Len(kc) = 2 * t - 1
        BY <1>1 DEF PartingFacts
    <2>3. t \in 1 .. Len(kc)
        BY <2>2
    <2> QED
        BY <2>1, <2>3
<1>6. Put(kp, i - 1, mid, nodes2[p].keys)
    BY <1>1 DEF PartingFacts
<1>7. FrontOf(kc, t - 1, nodes2[c].keys) /\ BackOf(kc, t, nodes2[s].keys)
    BY <1>1 DEF PartingFacts, Halved
<1>8. \A n \in 1 .. l : n # p /\ n # c => nodes2[n] = nodes[n]
    BY <1>1 DEF PartingFacts
<1>9. mid = kc[t]
    BY DEF MiddleKey
<1>10. /\ \A n \in 1 .. l : f[n] = Copies(nodes[n].keys, k)
       /\ \A n \in 1 .. l + 1 : g[n] = Copies(nodes2[n].keys, k)
       /\ \A n \in 1 .. l : h[n] = IF n = c THEN g[c] ELSE f[n]
    BY <1>2
<1>11. CountIn(nodes, k) = SumFunctionOnSet(f, S)
       /\ CountIn(nodes2, k) = SumFunctionOnSet(g, 1 .. l + 1)
    BY <1>2 DEF CountIn
<1> HIDE DEF c, s, l, t, mid, kc, kp, f, g, h
<1>12. /\ \A n \in 1 .. l : f[n] \in Nat
       /\ \A n \in 1 .. l + 1 : g[n] \in Nat
    BY <1>4, <1>10, AtFacts
<1>13. g[p] = f[p] + one
    <2>1. i - 1 \in 0 .. Len(kp) /\ kp \in Seq(Nat) /\ nodes2[p].keys \in Seq(Nat)
        BY <1>2, <1>4, <1>5 DEF kp
    <2>2. Copies(nodes2[p].keys, k) = Copies(kp, k) + one
        <3> DEFINE m == i - 1
                   kp2 == nodes2[p].keys
        <3>1. m \in 0 .. Len(kp) /\ kp2 \in Seq(Nat) /\ Put(kp, m, mid, kp2)
            BY <2>1, <1>6
        <3> HIDE DEF m, kp2
        <3>2. Copies(kp2, k) = Copies(kp, k) + one
            <4>1. kp \in Seq(Nat) /\ mid \in Nat
                BY <2>1, <1>5
            <4>2. one = IF mid = k THEN 1 ELSE 0
                OBVIOUS
            <4> HIDE DEF one
            <4> QED
                BY <3>1, <4>1, <4>2, CopiesPutKey
        <3> QED
            BY <3>2 DEF kp2
    <2> QED
        BY <2>2, <1>2, <1>10 DEF kp
<1>14. f[c] = g[c] + g[s] + one
    <2> DEFINE a == nodes2[c].keys
               b == nodes2[s].keys
    <2>1. kc \in Seq(Nat) /\ a \in Seq(Nat) /\ b \in Seq(Nat)
        BY <1>2, <1>4 DEF kc
    <2>2. f[c] = Copies(kc, k) /\ g[c] = Copies(a, k) /\ g[s] = Copies(b, k)
        BY <1>2, <1>10 DEF kc
    <2>3. FrontOf(kc, t - 1, a) /\ BackOf(kc, t, b)
        BY <1>7
    <2> HIDE DEF a, b
    <2>4. Copies(kc, k) = Copies(a, k) + Copies(b, k) + (IF kc[t] = k THEN 1 ELSE 0)
        BY <2>1, <2>3, <1>5, CopiesAround
    <2>5. Copies(a, k) \in Nat /\ Copies(b, k) \in Nat
        BY <2>1, AtFacts
    <2> QED
        BY <2>2, <2>4, <2>5, <1>9
<1>15. /\ IsFiniteSet(S) /\ c \in S /\ p \in S /\ c # p
       /\ \A n \in S : f[n] \in Int
       /\ \A n \in S : h[n] = IF n = c THEN g[c] ELSE f[n]
       /\ g[c] \in Int /\ g[s] \in Int /\ g[p] \in Int
    <2>1. 1 \in Int /\ l \in Int /\ \A n \in 1 .. l : n \in 1 .. l + 1
        BY <1>2
    <2>2. IsFiniteSet(S)
        BY <2>1, FS_Interval
    <2>3. /\ \A n \in S : f[n] \in Nat
          /\ g[c] \in Nat /\ g[s] \in Nat /\ g[p] \in Nat
        BY <2>1, <1>2, <1>12
    <2> QED
        BY <2>2, <2>3, <1>2, <1>10
<1>16. \A n \in S : n # p => g[n] = IF n = c THEN g[c] ELSE f[n]
    <2>1. ASSUME NEW n \in S, n # p, n # c PROVE g[n] = f[n]
        <3>1. n \in 1 .. l /\ n \in 1 .. l + 1
            BY <1>2
        <3> QED
            BY <3>1, <2>1, <1>8, <1>10
    <2> QED
        BY <2>1
<1>17. SumFunctionOnSet(g, 1 .. l + 1) = SumFunctionOnSet(g, S) + g[s]
    <2>1. g[l + 1] \in Int /\ \A n \in 1 .. l : g[n] \in Int /\ g[n] = g[n]
        BY <1>2, <1>12
    <2> QED
        BY <2>1, <1>2, SumAppend
<1> HIDE DEF S, one
<1>18. \A n \in S : h[n] \in Int
    BY <1>15
<1>19. SumFunctionOnSet(h, S) = SumFunctionOnSet(f, S) + h[c] - f[c]
    <2>1. h[c] \in Int /\ \A n \in S : n # c => h[n] = f[n]
        BY <1>15
    <2> QED
        BY <2>1, <1>15, SumChange
<1>20. SumFunctionOnSet(g, S) = SumFunctionOnSet(h, S) + g[p] - h[p]
    <2>1. \A n \in S : n # p => g[n] = h[n]
        BY <1>15, <1>16
    <2> QED
        BY <2>1, <1>15, <1>18, SumChange
<1>21. h[c] = g[c] /\ h[p] = f[p]
    BY <1>15
<1>22. SumFunctionOnSet(f, S) \in Int
    BY <1>15, SumType
<1>23. f[c] \in Int /\ f[p] \in Int /\ one \in Int
    BY <1>15 DEF one
<1> DEFINE sf == SumFunctionOnSet(f, S)
           sg == SumFunctionOnSet(g, S)
           sh == SumFunctionOnSet(h, S)
<1>24. sh = sf + g[c] - f[c] /\ sg = sh + g[p] - f[p] /\ sf \in Int
    BY <1>19, <1>20, <1>21, <1>22
<1>25. g[p] = f[p] + one /\ f[c] = g[c] + g[s] + one
    BY <1>13, <1>14
<1> HIDE DEF sf, sg, sh
<1>26. sg + g[s] = sf
    BY <1>15, <1>23, <1>24, <1>25
<1> QED
    BY <1>11, <1>17, <1>26 DEF sf, sg

\* A call that goes down a tree: the key belongs below a node with room.
Fitting(call, r, label) ==
    /\ call \in Calls
    /\ Tree(call.nodes, r, label)
    /\ call.node \in 1 .. Len(call.nodes)
    /\ call.key \in label.span[call.node]
    /\ ~IsFull(call.nodes[call.node])

\* A tree with one key more
MoreKeys(nodes, nodes2, key) ==
    \A k : CountIn(nodes2, k) = CountIn(nodes, k) + (IF key = k THEN 1 ELSE 0)

\* A leaf with one key more
Refilled(node, i, key, value) ==
    [node EXCEPT !.keys = InsertAt(@, i, key), !.values = InsertAt(@, i, value)]

LEMMA RefilledFacts ==
    ASSUME NEW node \in TreeNodes, node.isLeaf, ChildShape(node),
           NEW key \in TreeKeys, NEW value \in TreeKeys, NEW i, GoesTo(node.keys, key, i)
    PROVE  /\ Refilled(node, i, key, value) \in TreeNodes
           /\ Refilled(node, i, key, value).isLeaf
           /\ Refilled(node, i, key, value).children = <<>>
           /\ Put(node.keys, i - 1, key, Refilled(node, i, key, value).keys)
           /\ Len(Refilled(node, i, key, value).keys) = Len(node.keys) + 1
           /\ Len(Refilled(node, i, key, value).keys) <= Len(Refilled(node, i, key, value).values)
<1> DEFINE r == Refilled(node, i, key, value)
<1>1. /\ node.isLeaf = TRUE /\ node.keys \in Seq(TreeKeys)
      /\ node.values \in Seq(TreeKeys) /\ node.children = <<>> /\ node.children \in Seq(Nat)
    BY DEF TreeNodes, ChildShape
<1>2. /\ Len(node.keys) \in Nat /\ Len(node.values) \in Nat /\ Len(node.keys) <= Len(node.values)
      /\ i \in 1 .. Len(node.keys) + 1
    BY <1>1, LenProperties DEF ChildShape, GoesTo
<1>3. /\ InsertAt(node.keys, i, key) \in Seq(TreeKeys)
      /\ Put(node.keys, i - 1, key, InsertAt(node.keys, i, key))
    <2>1. i - 1 \in 0 .. Len(node.keys) /\ (i - 1) + 1 = i
        BY <1>2
    <2>2. /\ InsertAt(node.keys, (i - 1) + 1, key) \in Seq(TreeKeys)
          /\ Put(node.keys, i - 1, key, InsertAt(node.keys, (i - 1) + 1, key))
        BY <2>1, <1>1, PutFacts
    <2> QED
        BY <2>1, <2>2
<1>4. /\ InsertAt(node.values, i, value) \in Seq(TreeKeys)
      /\ Put(node.values, i - 1, value, InsertAt(node.values, i, value))
    <2>1. i - 1 \in 0 .. Len(node.values) /\ (i - 1) + 1 = i
        BY <1>2
    <2>2. /\ InsertAt(node.values, (i - 1) + 1, value) \in Seq(TreeKeys)
          /\ Put(node.values, i - 1, value, InsertAt(node.values, (i - 1) + 1, value))
        BY <2>1, <1>1, PutFacts
    <2> QED
        BY <2>1, <2>2
<1>5. r = [node EXCEPT !.keys = InsertAt(node.keys, i, key), !.values = InsertAt(node.values, i, value)]
    BY DEF Refilled
<1> HIDE DEF r
<1>6. /\ r \in TreeNodes /\ r.isLeaf = TRUE /\ r.children = <<>>
      /\ r.keys = InsertAt(node.keys, i, key) /\ r.values = InsertAt(node.values, i, value)
    BY <1>1, <1>3, <1>4, <1>5 DEF TreeNodes
<1>7. Len(r.keys) = Len(node.keys) + 1 /\ Len(r.values) = Len(node.values) + 1
    BY <1>3, <1>4, <1>6 DEF Put
<1>8. Len(r.keys) <= Len(r.values)
    BY <1>2, <1>7
<1> QED
    BY <1>3, <1>6, <1>7, <1>8 DEF r

\* One node is replaced.
Patched(nodes, m, x, nodes2) ==
    /\ nodes2 \in Seq(TreeNodes) /\ Len(nodes2) = Len(nodes)
    /\ nodes2[m] = x
    /\ \A n \in 1 .. Len(nodes) : n # m => nodes2[n] = nodes[n]

LEMMA PatchedFacts ==
    ASSUME NEW nodes \in Seq(TreeNodes), NEW m \in 1 .. Len(nodes), NEW x \in TreeNodes
    PROVE  Patched(nodes, m, x, [nodes EXCEPT ![m] = x])
<1> DEFINE nodes2 == [nodes EXCEPT ![m] = x]
           l == Len(nodes)
<1>1. l \in Nat /\ DOMAIN nodes = 1 .. l
    BY LenProperties
<1>2. nodes2 \in Seq(TreeNodes) /\ Len(nodes2) = l /\ nodes2[m] = x /\ \A n \in 1 .. l : n # m => nodes2[n] = nodes[n]
    BY <1>1, ExceptSeq
<1> HIDE DEF nodes2
<1> QED
    BY <1>2 DEF Patched, nodes2, l

\* The count of a tree in which one node changed
LEMMA PatchedCounts ==
    ASSUME NEW nodes \in Seq(TreeNodes), NEW m \in 1 .. Len(nodes), NEW x \in TreeNodes,
           NEW nodes2, Patched(nodes, m, x, nodes2), NEW k, NEW one \in Int,
           Copies(x.keys, k) = Copies(nodes[m].keys, k) + one
    PROVE  CountIn(nodes2, k) = CountIn(nodes, k) + one
<1> DEFINE l == Len(nodes)
           S == 1 .. l
           f == [n \in 1 .. l |-> Copies(nodes[n].keys, k)]
           g == [n \in 1 .. Len(nodes2) |-> Copies(nodes2[n].keys, k)]
<1>1. l \in Nat /\ Len(nodes2) = l /\ nodes2[m] = x /\ nodes2 \in Seq(TreeNodes)
      /\ \A n \in 1 .. l : n # m => nodes2[n] = nodes[n]
    BY LenProperties DEF Patched
<1>2. /\ \A n \in S : f[n] = Copies(nodes[n].keys, k)
      /\ \A n \in S : g[n] = Copies(nodes2[n].keys, k)
    BY <1>1
<1>3. /\ \A n \in S : nodes[n].keys \in Seq(TreeKeys)
      /\ \A n \in S : nodes2[n].keys \in Seq(TreeKeys)
    BY <1>1, TreeNodeFacts
<1>4. CountIn(nodes, k) = SumFunctionOnSet(f, S) /\ CountIn(nodes2, k) = SumFunctionOnSet(g, S)
    BY <1>1 DEF CountIn
<1>5. IsFiniteSet(S) /\ m \in S
    <2>1. 1 \in Int /\ l \in Int
        BY <1>1
    <2> QED
        BY <2>1, FS_Interval
<1>6. \A n \in S : n # m => nodes2[n] = nodes[n]
    BY <1>1
<1> HIDE DEF f, g, S
<1>7. \A n \in S : f[n] \in Int /\ g[n] \in Int
    <2>1. \A n \in S : f[n] \in Nat /\ g[n] \in Nat
        BY <1>2, <1>3, AtFacts
    <2> QED
        BY <2>1
<1>8. \A n \in S : n # m => g[n] = f[n]
    BY <1>2, <1>6
<1>9. SumFunctionOnSet(g, S) = SumFunctionOnSet(f, S) + g[m] - f[m]
    BY <1>5, <1>7, <1>8, SumChange
<1>10. g[m] = f[m] + one /\ f[m] \in Int
    BY <1>1, <1>2, <1>5, <1>7
<1>11. SumFunctionOnSet(f, S) \in Int
    BY <1>5, <1>7, SumType
<1> QED
    BY <1>4, <1>9, <1>10, <1>11

LEMMA FittingFacts ==
    ASSUME NEW call, NEW r, NEW label, Fitting(call, r, label)
    PROVE  LET nodes == call.nodes
               n == call.node
               node == nodes[n]
           IN  /\ nodes \in Seq(TreeNodes) /\ n \in 1 .. Len(nodes) /\ node \in TreeNodes
               /\ call.key \in TreeKeys /\ call.key \in Nat /\ call.value \in TreeKeys
               /\ node.keys \in Seq(TreeKeys) /\ node.keys \in Seq(Nat) /\ Len(node.keys) \in Nat
               /\ ChildShape(node) /\ Keyed(node.keys)
               /\ Len(node.keys) < 2 * treeOrder - 1
               /\ GoesTo(node.keys, call.key, Position(node.keys, call.key))
<1> DEFINE nodes == call.nodes
           n == call.node
           node == nodes[n]
           lk == Len(node.keys)
           t == treeOrder
<1>1. /\ nodes \in Seq(TreeNodes) /\ n \in 1 .. Len(nodes) /\ Tree(nodes, r, label)
    BY LabelFacts DEF Fitting
<1>2. call.key \in TreeKeys /\ call.value \in TreeKeys
    BY DEF Fitting, Calls
<1>3. call.key \in Nat
    BY <1>2, TreeAssumption
<1>4. node \in TreeNodes /\ node.keys \in Seq(TreeKeys) /\ node.keys \in Seq(Nat) /\ lk \in Nat
    BY <1>1, TreeNodeFacts
<1>5. NodeShape(nodes, r, label, n) /\ NodeKeys(nodes, label, n)
    BY <1>1 DEF Tree
<1>6. ChildShape(node) /\ lk <= 2 * t - 1 /\ Keyed(node.keys)
    BY <1>5 DEF NodeShape, NodeKeys, ChildShape
<1>7. lk # 2 * t - 1
    BY DEF Fitting, IsFull
<1>8. GoesTo(node.keys, call.key, Position(node.keys, call.key))
    BY <1>2, <1>4, PositionFacts
<1> HIDE DEF lk, t
<1>9. lk < 2 * t - 1
    <2>1. t \in Nat
        BY TreeOrder DEF t
    <2> QED
        BY <2>1, <1>4, <1>6, <1>7
<1> QED
    BY <1>1, <1>2, <1>3, <1>4, <1>6, <1>8, <1>9 DEF lk, t

\* The end of a call: the key is put into a leaf.
LEMMA SplicedKeeps ==
    ASSUME NEW call, NEW r, NEW label, Fitting(call, r, label), call.nodes[call.node].isLeaf
    PROVE  Tree(Spliced(call), r, label) /\ MoreKeys(call.nodes, Spliced(call), call.key)
<1> DEFINE nodes == call.nodes
           m == call.node
           node == nodes[m]
           key == call.key
           i == Position(node.keys, key)
           x == Refilled(node, i, key, call.value)
           nodes2 == Spliced(call)
           l == Len(nodes)
           before == i - 1
<1>1. /\ nodes \in Seq(TreeNodes) /\ m \in 1 .. l /\ node \in TreeNodes
      /\ key \in TreeKeys /\ key \in Nat /\ call.value \in TreeKeys
      /\ node.keys \in Seq(TreeKeys) /\ node.keys \in Seq(Nat) /\ Len(node.keys) \in Nat
      /\ ChildShape(node) /\ Keyed(node.keys)
      /\ Len(node.keys) < 2 * treeOrder - 1
      /\ GoesTo(node.keys, key, i)
    BY FittingFacts
<1>2. node.isLeaf /\ Tree(nodes, r, label) /\ key \in label.span[m]
    BY DEF Fitting
<1>3. nodes2 = [nodes EXCEPT ![m] = x]
    BY DEF Spliced, Refilled
<1> HIDE DEF i, nodes2, nodes, m, node, key, l, before
<1>4. /\ x \in TreeNodes /\ x.isLeaf /\ x.children = <<>>
      /\ Put(node.keys, i - 1, key, x.keys)
      /\ Len(x.keys) = Len(node.keys) + 1 /\ Len(x.keys) <= Len(x.values)
    BY <1>1, <1>2, RefilledFacts
<1> HIDE DEF x
<1>5. Patched(nodes, m, x, nodes2)
    BY <1>1, <1>3, <1>4, PatchedFacts DEF l
<1>6. /\ nodes2 \in Seq(TreeNodes) /\ Len(nodes2) = l /\ nodes2[m] = x
      /\ \A n \in 1 .. l : n # m => nodes2[n] = nodes[n]
    BY <1>5 DEF Patched, l
<1>7. /\ r \in 1 .. l /\ label \in Labels(l)
      /\ label.par[r] = 0 /\ label.span[r] = TreeKeys
      /\ \A n \in 1 .. l : NodeShape(nodes, r, label, n)
      /\ \A n \in 1 .. l : NodeKeys(nodes, label, n)
      /\ \A n \in 1 .. l : \A j \in 1 .. Len(nodes[n].children) : NodeChild(nodes, label, n, j)
      /\ \A n \in 1 .. l : n # r => NodePlace(nodes, label, n)
    BY <1>2 DEF Tree, l
<1>8. node.children = <<>> /\ nodes[m] = node
    BY <1>1, <1>2 DEF ChildShape, node
<1>9. ASSUME NEW n \in 1 .. l
      PROVE  nodes2[n].children = nodes[n].children
    BY <1>4, <1>6, <1>8
<1>10. ASSUME NEW n \in 1 .. l PROVE NodeShape(nodes2, r, label, n)
    <2>1. CASE n = m
        <3>1. NodeShape(nodes, r, label, m)
            BY <1>1, <1>7
        <3>2. label.h[m] = 0 /\ (m # r => Len(node.keys) >= treeOrder - 1)
            BY <3>1, <1>2, <1>8 DEF NodeShape
        <3>3. Len(x.keys) <= 2 * treeOrder - 1 /\ (m # r => Len(x.keys) >= treeOrder - 1)
            <4> DEFINE lk == Len(node.keys)
                       t == treeOrder
            <4>1. t \in Nat /\ lk \in Nat /\ lk < 2 * t - 1 /\ (m # r => lk >= t - 1)
                  /\ Len(x.keys) = lk + 1
                BY <3>2, <1>1, <1>4, TreeOrder
            <4> HIDE DEF t, lk
            <4>2. Len(x.keys) <= 2 * t - 1 /\ (m # r => Len(x.keys) >= t - 1)
                BY <4>1
            <4> QED
                BY <4>2 DEF t
        <3> QED
            BY <3>2, <3>3, <2>1, <1>4, <1>6 DEF NodeShape
    <2>2. CASE n # m
        <3>1. nodes2[n] = nodes[n] /\ NodeShape(nodes, r, label, n)
            BY <2>2, <1>6, <1>7
        <3> QED
            BY <3>1 DEF NodeShape
    <2> QED
        BY <2>1, <2>2
<1>11. ASSUME NEW n \in 1 .. l PROVE NodeKeys(nodes2, label, n)
    <2>1. CASE n = m
        <3> DEFINE ks == node.keys
                   xs == x.keys
                   b == i - 1
        <3>1. Keyed(xs)
            BY <1>1, <1>4, KeyedPut
        <3>2. ASSUME NEW k \in 1 .. Len(xs) PROVE xs[k] \in label.span[m]
            <4>1. b \in 0 .. Len(ks) /\ Len(ks) \in Nat /\ Put(ks, b, key, xs)
                BY <1>1, <1>4 DEF GoesTo
            <4>2. \A j \in 1 .. Len(ks) : ks[j] \in label.span[m]
                BY <1>1, <1>7, <1>8 DEF NodeKeys
            <4> HIDE DEF ks, xs, b
            <4>3. xs[k] = key \/ \E j \in 1 .. Len(ks) : xs[k] = ks[j]
                BY <3>2, <4>1, FromPut
            <4> QED
                BY <4>2, <4>3, <1>2
        <3> QED
            BY <3>1, <3>2, <2>1, <1>6 DEF NodeKeys
    <2>2. CASE n # m
        <3>1. nodes2[n] = nodes[n] /\ NodeKeys(nodes, label, n)
            BY <2>2, <1>6, <1>7
        <3> QED
            BY <3>1 DEF NodeKeys
    <2> QED
        BY <2>1, <2>2
<1>12. ASSUME NEW n \in 1 .. l, NEW j \in 1 .. Len(nodes2[n].children)
       PROVE  NodeChild(nodes2, label, n, j)
    <2>1. n # m
        <3> SUFFICES ASSUME n = m PROVE FALSE
            OBVIOUS
        <3>1. nodes2[n].children = <<>>
            BY <1>4, <1>6
        <3>2. j \in 1 .. 0
            BY <3>1
        <3> QED
            BY <3>2
    <2>2. nodes2[n] = nodes[n]
        BY <2>1, <1>6
    <2>3. NodeChild(nodes, label, n, j)
        BY <2>2, <1>7
    <2> QED
        BY <2>2, <2>3, <1>6 DEF NodeChild, l
<1>13. ASSUME NEW n \in 1 .. l, n # r PROVE NodePlace(nodes2, label, n)
    <2>1. NodePlace(nodes, label, n)
        BY <1>7, <1>13
    <2>2. label.par[n] \in 1 .. l
        BY <2>1 DEF NodePlace, l
    <2>3. nodes2[label.par[n]].children = nodes[label.par[n]].children
        BY <2>2, <1>9
    <2> QED
        BY <2>1, <2>2, <2>3, <1>6 DEF NodePlace
<1>14. Tree(nodes2, r, label)
    BY <1>6, <1>7, <1>10, <1>11, <1>12, <1>13 DEF Tree
<1>15. ASSUME NEW k PROVE CountIn(nodes2, k) = CountIn(nodes, k) + (IF key = k THEN 1 ELSE 0)
    <2> DEFINE one == IF key = k THEN 1 ELSE 0
               ks == node.keys
               xs == x.keys
    <2>1. one \in Int
        OBVIOUS
    <2>2. Copies(xs, k) = Copies(ks, k) + one
        <3> DEFINE b == i - 1
        <3>1. b \in 0 .. Len(ks) /\ ks \in Seq(Nat) /\ xs \in Seq(Nat) /\ Put(ks, b, key, xs) /\ key \in Nat
            <4>1. xs \in Seq(TreeKeys)
                BY <1>4 DEF TreeNodes
            <4>2. xs \in Seq(Nat)
                BY <4>1, KeysAreNumbers
            <4> QED
                BY <4>2, <1>1, <1>4 DEF GoesTo
        <3>2. one = IF key = k THEN 1 ELSE 0
            OBVIOUS
        <3> HIDE DEF b, ks, xs, one
        <3> QED
            BY <3>1, <3>2, CopiesPutKey
    <2> HIDE DEF one
    <2>3. CountIn(nodes2, k) = CountIn(nodes, k) + one
        BY <2>1, <2>2, <1>1, <1>4, <1>5, <1>8, PatchedCounts DEF l
    <2> QED
        BY <2>3 DEF one
<1>16. MoreKeys(nodes, nodes2, key)
    BY <1>15 DEF MoreKeys
<1> QED
    BY <1>14, <1>16 DEF nodes, nodes2, key

\* One step down
Lower(call, r, label, call2, label2) ==
    /\ Fitting(call2, r, label2)
    /\ call2.key = call.key
    /\ label2.h[call2.node] < label.h[call.node]
    /\ \A k : CountIn(call2.nodes, k) = CountIn(call.nodes, k)

\* A call with other nodes and another node
TurnedTo(call, nodes, c) == [call EXCEPT !.nodes = nodes, !.node = c]

LEMMA TurnedToFacts ==
    ASSUME NEW call \in Calls, NEW nodes \in Seq(TreeNodes), NEW c, c \in Nat
    PROVE  /\ TurnedTo(call, nodes, c) \in Calls
           /\ TurnedTo(call, nodes, c).nodes = nodes /\ TurnedTo(call, nodes, c).node = c
           /\ TurnedTo(call, nodes, c).key = call.key
    BY DEF TurnedTo, Calls

LEMMA GoesDown ==
    ASSUME NEW call, NEW r, NEW label, Fitting(call, r, label), ~call.nodes[call.node].isLeaf
    PROVE  \E label2 : Lower(call, r, label, NextCall(call), label2)
<1> DEFINE nodes == call.nodes
           p == call.node
           node == nodes[p]
           key == call.key
           kp == node.keys
           i == Position(kp, key)
           c == node.children[i]
           child == nodes[c]
           l == Len(nodes)
<1>1. /\ nodes \in Seq(TreeNodes) /\ p \in 1 .. l /\ node \in TreeNodes
      /\ key \in TreeKeys /\ key \in Nat /\ kp \in Seq(Nat) /\ Len(kp) \in Nat
      /\ ChildShape(node) /\ Keyed(kp) /\ GoesTo(kp, key, i)
    BY FittingFacts
<1>2. ~node.isLeaf /\ Tree(nodes, r, label) /\ key \in label.span[p] /\ ~IsFull(node) /\ call \in Calls
    BY DEF Fitting
<1>3. i \in 1 .. Len(node.children) /\ Len(node.children) = Len(kp) + 1
    BY <1>1, <1>2 DEF ChildShape, GoesTo
<1>4. /\ c \in 1 .. l /\ label.h[p] = label.h[c] + 1 /\ label.span[c] = Between(kp, i, label.span[p])
    <2>1. NodeChild(nodes, label, p, i)
        BY <1>1, <1>2, <1>3 DEF Tree
    <2> QED
        BY <2>1 DEF NodeChild
<1>5. key \in label.span[c]
    <2>1. (i > 1 => kp[i - 1] <= key) /\ (i <= Len(kp) => key <= kp[i])
        BY <1>1 DEF GoesTo
    <2> QED
        BY <2>1, <1>2, <1>4 DEF Between
<1>6. label.h[c] \in Nat /\ label.h[c] < label.h[p]
    <2>1. label.h[c] \in Nat
        BY <1>2, <1>4, LabelFacts
    <2> DEFINE hc == label.h[c]
               hp == label.h[p]
    <2>2. hc \in Nat /\ hp = hc + 1
        BY <2>1, <1>4
    <2> HIDE DEF hc, hp
    <2>3. hc \in Nat /\ hc < hp
        BY <2>2
    <2> QED
        BY <2>3 DEF hc, hp
<1>7. l \in Nat /\ c \in Nat
    <2>1. l \in Nat
        BY <1>1, LenProperties
    <2>2. c \in 1 .. l
        BY <1>4
    <2> HIDE DEF l, c
    <2> QED
        BY <2>1, <2>2
<1>8. NextCall(call) = IF IsFull(child)
                       THEN LET room == splitChild(nodes, p, i)
                            IN  TurnedTo(call, room, room[p].children[Half(room[p].keys, i, key)])
                       ELSE TurnedTo(call, nodes, c)
    <2>1. CASE IsFull(child)
        BY <2>1 DEF NextCall, TurnedTo
    <2>2. CASE ~IsFull(child)
        BY <2>2 DEF NextCall, TurnedTo
    <2> QED
        BY <2>1, <2>2
<1> HIDE DEF i, c
<1>9. CASE ~IsFull(child)
    <2> DEFINE call2 == TurnedTo(call, nodes, c)
    <2>1. call2 \in Calls /\ call2.nodes = nodes /\ call2.node = c /\ call2.key = key
        <3>1. call \in Calls /\ nodes \in Seq(TreeNodes) /\ c \in Nat
            BY <1>1, <1>2, <1>7
        <3> HIDE DEF nodes
        <3> QED
            BY <3>1, TurnedToFacts
    <2>2. NextCall(call) = call2
        BY <1>8, <1>9
    <2> HIDE DEF call2
    <2>3. Fitting(call2, r, label)
        BY <2>1, <1>2, <1>4, <1>5, <1>9 DEF Fitting
    <2>4. Lower(call, r, label, call2, label)
        BY <2>1, <2>3, <1>6 DEF Lower
    <2> QED
        BY <2>2, <2>4
<1>10. CASE IsFull(child)
    <2> DEFINE room == splitChild(nodes, p, i)
               s == NewNode(nodes)
               mid == MiddleKey(nodes, p, i)
               j == Half(room[p].keys, i, key)
               d == room[p].children[j]
               call2 == TurnedTo(call, room, d)
               label2 == HalfLabels(nodes, label, p, i)
    <2>1. Splits(nodes, p, i)
        BY <1>1, <1>2, <1>3, <1>10 DEF Splits, c
    <2>2. Parting(nodes, r, label, p, i, room)
        BY <2>1, <1>2, SplitParts DEF Parting
    <2>3. NextCall(call) = call2
        BY <1>8, <1>10
    <2> HIDE DEF room, label2, mid, s, j, d, call2
    <2>4. HalfLabelled(nodes, label, p, i, label2) /\ Tree(room, r, label2)
        BY <2>2, SplitTree DEF label2
    <2>5. /\ label2.h[s] = label.h[c] /\ label2.h[c] = label.h[c]
          /\ label2.span[s] = {k \in label.span[c] : mid <= k}
          /\ label2.span[c] = {k \in label.span[c] : k <= mid}
        BY <2>4, <1>4 DEF HalfLabelled, s, mid, c
    <2>6. PartingFacts(nodes, r, label, p, i, room)
        BY <2>2, PartingKnown
    <2>7. /\ s = l + 1 /\ Len(room) = l + 1 /\ room \in Seq(TreeNodes)
          /\ mid \in Nat /\ i \in Nat
          /\ Put(kp, i - 1, mid, room[p].keys)
          /\ Put(node.children, i, s, room[p].children)
          /\ Halved(child, room[c], room[s]) /\ Len(child.keys) = 2 * treeOrder - 1
        BY <2>6 DEF PartingFacts, s, mid, c
    <2>8. room[p].keys[i] = mid
        <3>1. (i - 1) + 1 = i
            BY <2>7
        <3> QED
            BY <3>1, <2>7 DEF Put
    <2>9. room[p].children[i] = c /\ room[p].children[i + 1] = s
        <3> DEFINE chp == node.children
                   chp2 == room[p].children
        <3>1. Put(chp, i, s, chp2) /\ i \in 1 .. Len(chp) /\ i \in Nat /\ chp[i] = c
            BY <2>7, <1>3 DEF c
        <3> HIDE DEF chp, chp2
        <3>2. i \in 1 .. i
            BY <3>1
        <3>3. chp2[i] = chp[i] /\ chp2[i + 1] = s
            BY <3>1, <3>2 DEF Put
        <3> QED
            BY <3>1, <3>3 DEF chp2
    <2>10. /\ j = IF key > mid THEN i + 1 ELSE i
        BY <2>8 DEF j, Half
    <2>11. d = IF key > mid THEN s ELSE c
        BY <2>9, <2>10 DEF d
    <2>12. /\ d \in 1 .. l + 1 /\ d \in Nat /\ label2.h[d] = label.h[c] /\ key \in label2.span[d]
        <3>1. CASE key > mid
            <4>1. d = s /\ mid <= key
                BY <3>1, <2>7, <2>11, <1>1
            <4> QED
                BY <4>1, <2>5, <2>7, <1>5, <1>7
        <3>2. CASE ~(key > mid)
            <4>1. d = c /\ key <= mid
                BY <3>2, <2>7, <2>11, <1>1
            <4> QED
                BY <4>1, <2>5, <1>4, <1>5, <1>7
        <3> QED
            BY <3>1, <3>2
    <2>13. ~IsFull(room[d])
        <3> DEFINE t == treeOrder
        <3>1. t \in Nat /\ t > 1
            BY TreeOrder
        <3>2. Len(room[c].keys) = t - 1 /\ Len(room[s].keys) = (2 * t - 1) - t
            BY <2>7 DEF Halved, FrontOf, BackOf
        <3>3. Len(room[d].keys) = t - 1 \/ Len(room[d].keys) = (2 * t - 1) - t
            BY <3>2, <2>11
        <3> HIDE DEF t
        <3>4. Len(room[d].keys) # 2 * t - 1
            BY <3>1, <3>3
        <3> QED
            BY <3>4 DEF IsFull, t
    <2>14. call2 \in Calls /\ call2.nodes = room /\ call2.node = d /\ call2.key = key
        BY <2>7, <2>12, <1>2, TurnedToFacts, SMTT(60) DEF call2
    <2>15. Fitting(call2, r, label2)
        BY <2>4, <2>7, <2>12, <2>13, <2>14 DEF Fitting
    <2>16. \A k : CountIn(room, k) = CountIn(nodes, k)
        BY <2>2, SplitCounts
    <2>17. Lower(call, r, label, call2, label2)
        BY <2>12, <2>14, <2>15, <2>16, <1>6 DEF Lower
    <2> QED
        BY <2>3, <2>17
<1> QED
    BY <1>9, <1>10

----------------------------------------------------------------------------
\* Where insertNonFull ends
DownEnds == {call \in Calls : call.nodes[call.node].isLeaf \/ NextCall(call) \notin Calls}
DownResult == [call \in Calls |-> Spliced(call)]
DownStep == [call \in Calls |-> NextCall(call)]

DownBody(f) ==
    f = [call \in Calls |->
            IF call.nodes[call.node].isLeaf \/ NextCall(call) \notin Calls THEN Spliced(call)
            ELSE f[NextCall(call)]]

\* It is the loop it is written as.
LEMMA DownUnfolds ==
    \A call \in Calls :
        insertNonFull[call] = IF call \in DownEnds THEN Spliced(call) ELSE insertNonFull[NextCall(call)]
<1>1. \A call \in Calls \ DownEnds : DownStep[call] \in Calls
    BY DEF DownEnds, DownStep
<1>2. \E f : Loops(f, Calls, DownEnds, DownResult, DownStep)
    BY <1>1, LoopFunction
<1>3. ASSUME NEW f PROVE DownBody(f) <=> Loops(f, Calls, DownEnds, DownResult, DownStep)
    <2>1. ASSUME NEW call \in Calls
          PROVE  (IF call.nodes[call.node].isLeaf \/ NextCall(call) \notin Calls THEN Spliced(call)
                  ELSE f[NextCall(call)])
                 = (IF call \in DownEnds THEN DownResult[call] ELSE f[DownStep[call]])
        <3>1. /\ DownStep[call] = NextCall(call)
              /\ DownResult[call] = Spliced(call)
              /\ call \in DownEnds <=> (call.nodes[call.node].isLeaf \/ NextCall(call) \notin Calls)
            BY DEF DownStep, DownResult, DownEnds
        <3> QED
            BY <3>1, Zenon
    <2> QED
        BY <2>1, Zenon DEF DownBody, Loops
<1>4. insertNonFull = CHOOSE f : DownBody(f)
    BY Zenon DEF insertNonFull, DownBody
<1>5. DownBody(insertNonFull)
    BY <1>2, <1>3, <1>4, Zenon
<1> DEFINE f == insertNonFull
<1> HIDE DEF f
<1>6. f = [call \in Calls |->
            IF call.nodes[call.node].isLeaf \/ NextCall(call) \notin Calls THEN Spliced(call)
            ELSE f[NextCall(call)]]
    BY <1>5, Zenon DEF f, DownBody
<1>7. ASSUME NEW call \in Calls
      PROVE  f[call] = IF call \in DownEnds THEN Spliced(call) ELSE f[NextCall(call)]
    <2>1. f[call] = IF call.nodes[call.node].isLeaf \/ NextCall(call) \notin Calls THEN Spliced(call)
                    ELSE f[NextCall(call)]
        BY <1>6, Zenon
    <2>2. call \in DownEnds <=> (call.nodes[call.node].isLeaf \/ NextCall(call) \notin Calls)
        BY DEF DownEnds
    <2> QED
        BY <2>1, <2>2, Zenon
<1> QED
    BY <1>7, Zenon DEF f

\* What insertNonFull leaves behind
Inserts(nodes, r, key, nodes2) ==
    /\ \E label2 : Tree(nodes2, r, label2)
    /\ MoreKeys(nodes, nodes2, key)

LEMMA InsertNonFullKeeps ==
    ASSUME NEW call, NEW r, NEW label, Fitting(call, r, label)
    PROVE  Inserts(call.nodes, r, call.key, insertNonFull[call])
<1> DEFINE P == {h \in Nat : \A p, lb : Fitting(p, r, lb) /\ lb.h[p.node] < h
                                => Inserts(p.nodes, r, p.key, insertNonFull[p])}
<1>0. \A p, lb : Fitting(p, r, lb) => p \in Calls /\ lb.h[p.node] \in Nat
    <2> SUFFICES ASSUME NEW p, NEW lb, Fitting(p, r, lb) PROVE p \in Calls /\ lb.h[p.node] \in Nat
        OBVIOUS
    <2>1. p \in Calls /\ Tree(p.nodes, r, lb) /\ p.node \in 1 .. Len(p.nodes)
        BY DEF Fitting
    <2> QED
        BY <2>1, LabelFacts
<1>1. 0 \in P
    <2>1. \A p, lb : ~(Fitting(p, r, lb) /\ lb.h[p.node] < 0)
        BY <1>0
    <2> QED
        BY <2>1
<1>2. ASSUME NEW h \in Nat, h \in P PROVE h + 1 \in P
    <2> SUFFICES ASSUME NEW p, NEW lb, Fitting(p, r, lb), lb.h[p.node] < h + 1
                 PROVE  Inserts(p.nodes, r, p.key, insertNonFull[p])
        OBVIOUS
    <2>0. p \in Calls /\ lb.h[p.node] \in Nat
        BY <1>0
    <2>1. CASE p.nodes[p.node].isLeaf
        <3>1. p \in DownEnds
            BY <2>0, <2>1 DEF DownEnds
        <3>2. insertNonFull[p] = Spliced(p)
            BY <2>0, <3>1, DownUnfolds
        <3>3. Tree(Spliced(p), r, lb) /\ MoreKeys(p.nodes, Spliced(p), p.key)
            BY <2>1, SplicedKeeps
        <3> QED
            BY <3>2, <3>3 DEF Inserts
    <2>2. CASE ~p.nodes[p.node].isLeaf
        <3>1. PICK lb2 : Lower(p, r, lb, NextCall(p), lb2)
            BY <2>2, GoesDown
        <3> DEFINE q == NextCall(p)
        <3> HIDE DEF q
        <3>2. Fitting(q, r, lb2) /\ q.key = p.key /\ lb2.h[q.node] < lb.h[p.node]
              /\ \A k : CountIn(q.nodes, k) = CountIn(p.nodes, k)
            BY <3>1 DEF Lower, q
        <3>3. q \in Calls /\ lb2.h[q.node] \in Nat
            BY <3>2, <1>0
        <3>4. p \notin DownEnds
            BY <3>3, <2>2 DEF DownEnds, q
        <3>5. insertNonFull[p] = insertNonFull[q]
            BY <2>0, <3>4, DownUnfolds DEF q
        <3>6. lb2.h[q.node] < h
            BY <2>0, <3>2, <3>3
        <3>7. Inserts(q.nodes, r, q.key, insertNonFull[q])
            BY <3>2, <3>6, <1>2
        <3>8. MoreKeys(p.nodes, insertNonFull[q], p.key)
            BY <3>2, <3>7 DEF Inserts, MoreKeys
        <3> QED
            BY <3>5, <3>7, <3>8 DEF Inserts
    <2> QED
        BY <2>1, <2>2
<1> HIDE DEF P
<1>3. \A h \in Nat : h \in P
    BY <1>1, <1>2, SetInduction
<1> DEFINE n == label.h[call.node]
<1>4. n \in Nat
    BY <1>0
<1> HIDE DEF n
<1>5. n + 1 \in P /\ n < n + 1
    BY <1>3, <1>4
<1> QED
    BY <1>5 DEF P, n

\* A root above the root
AboveRoot(r) == [isLeaf |-> FALSE, keys |-> << >>, values |-> << >>, children |-> <<r>>]

\* What is added is the last node.
Grown(nodes, x, nodes2) ==
    /\ nodes2 \in Seq(TreeNodes) /\ Len(nodes2) = Len(nodes) + 1
    /\ nodes2[Len(nodes) + 1] = x
    /\ \A n \in 1 .. Len(nodes) : nodes2[n] = nodes[n]

LEMMA GrownFacts ==
    ASSUME NEW nodes \in Seq(TreeNodes), NEW x \in TreeNodes
    PROVE  Grown(nodes, x, Append(nodes, x))
<1>1. /\ Append(nodes, x) \in Seq(TreeNodes) /\ Len(Append(nodes, x)) = Len(nodes) + 1
      /\ Append(nodes, x)[Len(nodes) + 1] = x
      /\ \A n \in 1 .. Len(nodes) : Append(nodes, x)[n] = nodes[n]
    BY AppendProperties
<1> QED
    BY <1>1 DEF Grown

LEMMA AboveFacts ==
    ASSUME NEW r \in Nat
    PROVE  /\ AboveRoot(r) \in TreeNodes /\ AboveRoot(r).isLeaf = FALSE
           /\ AboveRoot(r).keys = <<>> /\ Len(AboveRoot(r).keys) = 0
           /\ Len(AboveRoot(r).children) = 1 /\ AboveRoot(r).children[1] = r
<1> DEFINE x == AboveRoot(r)
<1>1. << >> \in Seq(TreeKeys) /\ <<r>> \in Seq(Nat) /\ Len(<<r>>) = 1 /\ <<r>>[1] = r
    OBVIOUS
<1>2. /\ x.isLeaf = FALSE /\ x.keys = <<>> /\ x.values = <<>> /\ x.children = <<r>>
    BY DEF AboveRoot
<1>3. x \in TreeNodes
    BY <1>1 DEF AboveRoot, TreeNodes
<1>4. Len(<<>>) = 0
    OBVIOUS
<1> HIDE DEF x
<1> QED
    BY <1>1, <1>2, <1>3, <1>4 DEF x

\* The labels under a new root
RaisedLabels(nodes, r, label) ==
    LET s == NewNode(nodes)
    IN  [h |-> [n \in 1 .. s |-> IF n = s THEN label.h[r] + 1 ELSE label.h[n]],
         par |-> [n \in 1 .. s |-> IF n = s THEN 0 ELSE IF n = r THEN s ELSE label.par[n]],
         pos |-> [n \in 1 .. s |-> IF n = s THEN 0 ELSE IF n = r THEN 1 ELSE label.pos[n]],
         span |-> [n \in 1 .. s |-> IF n = s THEN TreeKeys ELSE label.span[n]]]

LEMMA RaisedFacts ==
    ASSUME NEW nodes, NEW r, NEW label, Tree(nodes, r, label)
    PROVE  LET label2 == RaisedLabels(nodes, r, label)
               s == NewNode(nodes)
           IN  /\ label2 \in Labels(s)
               /\ label2.h[s] = label.h[r] + 1 /\ label2.par[s] = 0 /\ label2.span[s] = TreeKeys
               /\ label2.par[r] = s /\ label2.pos[r] = 1
               /\ \A n \in 1 .. Len(nodes) :
                    /\ label2.h[n] = label.h[n] /\ label2.span[n] = label.span[n]
                    /\ n # r => label2.par[n] = label.par[n] /\ label2.pos[n] = label.pos[n]
<1> DEFINE s == NewNode(nodes)
           l == Len(nodes)
           hh == [n \in 1 .. s |-> IF n = s THEN label.h[r] + 1 ELSE label.h[n]]
           pp == [n \in 1 .. s |-> IF n = s THEN 0 ELSE IF n = r THEN s ELSE label.par[n]]
           qq == [n \in 1 .. s |-> IF n = s THEN 0 ELSE IF n = r THEN 1 ELSE label.pos[n]]
           ss == [n \in 1 .. s |-> IF n = s THEN TreeKeys ELSE label.span[n]]
           label2 == [h |-> hh, par |-> pp, pos |-> qq, span |-> ss]
<1>1. RaisedLabels(nodes, r, label) = label2
    BY DEF RaisedLabels
<1>2. /\ l \in Nat /\ s = l + 1 /\ r \in 1 .. l
      /\ \A n \in 1 .. l :
            /\ label.h[n] \in Nat /\ label.par[n] \in Nat /\ label.pos[n] \in Nat
            /\ label.span[n] \in SUBSET TreeKeys
    BY LabelFacts, LenProperties DEF NewNode
<1> HIDE DEF s, l
<1>3. s \in 1 .. s /\ s \notin 1 .. l /\ \A n \in 1 .. s : n \in 1 .. l \/ n = s
    BY <1>2
<1>4. \A n \in 1 .. l : n \in 1 .. s /\ n # s
    BY <1>2
<1>5. hh \in [1 .. s -> Nat] /\ pp \in [1 .. s -> Nat] /\ qq \in [1 .. s -> Nat]
    BY <1>2, <1>3
<1>6. ss \in [1 .. s -> SUBSET TreeKeys]
    BY <1>2, <1>3
<1>7. label2 \in Labels(s)
    <2> HIDE DEF hh, pp, qq, ss
    <2> QED
        BY <1>5, <1>6 DEF Labels
<1>8. /\ hh[s] = label.h[r] + 1 /\ pp[s] = 0 /\ ss[s] = TreeKeys
      /\ pp[r] = s /\ qq[r] = 1
    BY <1>2, <1>3, <1>4
<1>9. ASSUME NEW n \in 1 .. l
      PROVE  /\ hh[n] = label.h[n] /\ ss[n] = label.span[n]
             /\ n # r => pp[n] = label.par[n] /\ qq[n] = label.pos[n]
    BY <1>4
<1> HIDE DEF hh, pp, qq, ss
<1> QED
    BY <1>1, <1>7, <1>8, <1>9 DEF s, l

LEMMA RaisedTree ==
    ASSUME NEW nodes, NEW r, NEW label, Tree(nodes, r, label), IsFull(nodes[r]),
           NEW nodes2, Grown(nodes, AboveRoot(r), nodes2)
    PROVE  Tree(nodes2, NewNode(nodes), RaisedLabels(nodes, r, label))
<1> DEFINE label2 == RaisedLabels(nodes, r, label)
           s == NewNode(nodes)
           l == Len(nodes)
           x == AboveRoot(r)
<1>1. /\ l \in Nat /\ s = l + 1 /\ r \in 1 .. l /\ r \in Nat /\ s \in 1 .. s
      /\ \A n \in 1 .. l : n \in 1 .. s /\ n # s
      /\ \A n \in 1 .. s : n \in 1 .. l \/ n = s
    <2>1. l \in Nat /\ s = l + 1 /\ r \in 1 .. l
        BY LabelFacts, LenProperties DEF NewNode
    <2> HIDE DEF s, l
    <2> QED
        BY <2>1
<1>2. /\ nodes2 \in Seq(TreeNodes) /\ Len(nodes2) = s /\ nodes2[s] = x
      /\ \A n \in 1 .. l : nodes2[n] = nodes[n]
    BY DEF Grown, NewNode
<1>3. /\ x.isLeaf = FALSE /\ x.keys = <<>> /\ Len(x.keys) = 0
      /\ Len(x.children) = 1 /\ x.children[1] = r
    BY <1>1, AboveFacts
<1>4. /\ label2 \in Labels(s)
      /\ label2.h[s] = label.h[r] + 1 /\ label2.par[s] = 0 /\ label2.span[s] = TreeKeys
      /\ label2.par[r] = s /\ label2.pos[r] = 1
      /\ \A n \in 1 .. l :
            /\ label2.h[n] = label.h[n] /\ label2.span[n] = label.span[n]
            /\ n # r => label2.par[n] = label.par[n] /\ label2.pos[n] = label.pos[n]
    BY RaisedFacts
<1>5. /\ label.par[r] = 0 /\ label.span[r] = TreeKeys
      /\ \A n \in 1 .. l : NodeShape(nodes, r, label, n)
      /\ \A n \in 1 .. l : NodeKeys(nodes, label, n)
      /\ \A n \in 1 .. l : \A j \in 1 .. Len(nodes[n].children) : NodeChild(nodes, label, n, j)
      /\ \A n \in 1 .. l : n # r => NodePlace(nodes, label, n)
    BY DEF Tree
<1>6. \A n \in 1 .. l : \A j \in 1 .. Len(nodes[n].children) : nodes[n].children[j] # r
    BY ChildBelow
<1>7. treeOrder \in Nat /\ treeOrder > 1 /\ Len(nodes[r].keys) = 2 * treeOrder - 1
    BY TreeOrder DEF IsFull
<1> DEFINE t == treeOrder
<1>8. 0 <= 2 * t - 1 /\ 2 * t - 1 >= t - 1
    BY <1>7
<1> HIDE DEF label2, s, l, x, t
<1>9. ASSUME NEW n \in 1 .. s PROVE NodeShape(nodes2, s, label2, n)
    <2>1. CASE n = s
        BY <2>1, <1>2, <1>3, <1>8 DEF NodeShape, t
    <2>2. CASE n \in 1 .. l
        <3>1. nodes2[n] = nodes[n] /\ label2.h[n] = label.h[n] /\ NodeShape(nodes, r, label, n)
            BY <2>2, <1>2, <1>4, <1>5
        <3>2. n = r => Len(nodes[n].keys) >= t - 1
            BY <1>7, <1>8 DEF t
        <3> QED
            BY <3>1, <3>2 DEF NodeShape, t
    <2> QED
        BY <2>1, <2>2, <1>1
<1>10. ASSUME NEW n \in 1 .. s PROVE NodeKeys(nodes2, label2, n)
    <2>1. CASE n = s
        <3>1. 1 .. Len(nodes2[n].keys) = {}
            BY <2>1, <1>2, <1>3
        <3> QED
            BY <3>1 DEF NodeKeys, Keyed
    <2>2. CASE n \in 1 .. l
        <3>1. nodes2[n] = nodes[n] /\ label2.span[n] = label.span[n] /\ NodeKeys(nodes, label, n)
            BY <2>2, <1>2, <1>4, <1>5
        <3> QED
            BY <3>1 DEF NodeKeys
    <2> QED
        BY <2>1, <2>2, <1>1
<1>11. ASSUME NEW n \in 1 .. s, NEW j \in 1 .. Len(nodes2[n].children)
       PROVE  NodeChild(nodes2, label2, n, j)
    <2>1. CASE n = s
        <3>1. j = 1 /\ nodes2[n].children[j] = r
            BY <2>1, <1>2, <1>3
        <3>2. Between(x.keys, 1, TreeKeys) = TreeKeys
            BY <1>3 DEF Between
        <3> QED
            BY <3>1, <3>2, <2>1, <1>1, <1>2, <1>4, <1>5 DEF NodeChild
    <2>2. CASE n \in 1 .. l
        <3> DEFINE d == nodes[n].children[j]
        <3>1. nodes2[n] = nodes[n] /\ label2.span[n] = label.span[n] /\ label2.h[n] = label.h[n]
            BY <2>2, <1>2, <1>4
        <3>2. NodeChild(nodes, label, n, j) /\ d # r
            BY <2>2, <3>1, <1>5, <1>6
        <3>3. d \in 1 .. l /\ nodes2[n].children[j] = d
            BY <3>1, <3>2 DEF NodeChild, l
        <3>4. /\ label.par[d] = n /\ label.pos[d] = j /\ label.h[n] = label.h[d] + 1
              /\ label.span[d] = Between(nodes[n].keys, j, label.span[n])
            BY <3>2 DEF NodeChild
        <3> HIDE DEF d
        <3>5. /\ label2.par[d] = n /\ label2.pos[d] = j /\ label2.h[d] = label.h[d]
              /\ label2.span[d] = label.span[d] /\ d \in 1 .. s
            BY <3>2, <3>3, <3>4, <1>1, <1>4 DEF d
        <3> QED
            BY <3>1, <3>3, <3>4, <3>5, <1>2 DEF NodeChild
    <2> QED
        BY <2>1, <2>2, <1>1
<1>12. ASSUME NEW n \in 1 .. s, n # s PROVE NodePlace(nodes2, label2, n)
    <2>1. CASE n = r
        <3>1. s \in 1 .. s /\ 1 \in 1 .. 1
            BY <1>1
        <3> QED
            BY <3>1, <2>1, <1>2, <1>3, <1>4 DEF NodePlace
    <2>2. CASE n # r
        <3>1. n \in 1 .. l
            BY <1>1, <1>12
        <3>2. NodePlace(nodes, label, n) /\ label2.par[n] = label.par[n] /\ label2.pos[n] = label.pos[n]
            BY <3>1, <2>2, <1>4, <1>5
        <3>3. label.par[n] \in 1 .. l
            BY <3>2 DEF NodePlace, l
        <3>4. label.par[n] \in 1 .. s /\ nodes2[label.par[n]] = nodes[label.par[n]]
            BY <3>3, <1>1, <1>2
        <3> QED
            BY <3>2, <3>4, <1>2 DEF NodePlace
    <2> QED
        BY <2>1, <2>2
<1>13. s \in 1 .. Len(nodes2)
    BY <1>1, <1>2
<1> QED
    BY <1>2, <1>4, <1>9, <1>10, <1>11, <1>12, <1>13 DEF Tree, label2, s

LEMMA RaisedCounts ==
    ASSUME NEW nodes \in Seq(TreeNodes), NEW r \in Nat,
           NEW nodes2, Grown(nodes, AboveRoot(r), nodes2), NEW k
    PROVE  CountIn(nodes2, k) = CountIn(nodes, k)
<1> DEFINE l == Len(nodes)
           f == [n \in 1 .. l |-> Copies(nodes[n].keys, k)]
           g == [n \in 1 .. Len(nodes2) |-> Copies(nodes2[n].keys, k)]
<1>1. /\ l \in Nat /\ Len(nodes2) = l + 1 /\ nodes2[l + 1] = AboveRoot(r)
      /\ \A n \in 1 .. l : nodes2[n] = nodes[n]
    BY LenProperties DEF Grown
<1>2. CountIn(nodes, k) = SumFunctionOnSet(f, 1 .. l) /\ CountIn(nodes2, k) = SumFunctionOnSet(g, 1 .. l + 1)
    BY <1>1 DEF CountIn
<1>3. \A n \in 1 .. l : nodes[n].keys \in Seq(TreeKeys)
    BY TreeNodeFacts
<1>4. /\ \A n \in 1 .. l : f[n] = Copies(nodes[n].keys, k) /\ g[n] = Copies(nodes[n].keys, k)
      /\ g[l + 1] = Copies(AboveRoot(r).keys, k)
    BY <1>1
<1>5. AboveRoot(r).keys = <<>>
    BY AboveFacts
<1>6. Copies(AboveRoot(r).keys, k) = 0
    BY <1>5, CopiesNone
<1> HIDE DEF f, g, l
<1>7. \A n \in 1 .. l : g[n] = f[n] /\ f[n] \in Nat
    BY <1>3, <1>4, AtFacts
<1>8. g[l + 1] = 0
    BY <1>4, <1>6
<1>9. g[l + 1] \in Int /\ \A n \in 1 .. l : g[n] \in Int /\ g[n] = f[n]
    BY <1>7, <1>8
<1>10. SumFunctionOnSet(g, 1 .. l + 1) = SumFunctionOnSet(f, 1 .. l) + g[l + 1]
    BY <1>1, <1>9, SumAppend
<1>11. SumFunctionOnSet(f, 1 .. l) \in Int
    <2>1. 1 \in Int /\ l \in Int
        BY <1>1
    <2>2. IsFiniteSet(1 .. l)
        BY <2>1, FS_Interval
    <2>3. \A n \in 1 .. l : f[n] \in Int
        BY <1>7
    <2> QED
        BY <2>2, <2>3, SumType
<1> QED
    BY <1>2, <1>8, <1>10, <1>11

\* A node that can take a key
CallFor(nodes, s, key, value) == [nodes |-> nodes, node |-> s, key |-> key, value |-> value]

LEMMA InsertKeeps ==
    ASSUME NEW nodes, NEW r, NEW label, Tree(nodes, r, label), ~IsFull(nodes[r]),
           NEW key \in TreeKeys, NEW value \in TreeKeys
    PROVE  Inserts(nodes, r, key, Insert(nodes, r, key, value))
<1> DEFINE call == CallFor(nodes, r, key, value)
<1>1. nodes \in Seq(TreeNodes) /\ r \in 1 .. Len(nodes) /\ r \in Nat /\ label.span[r] = TreeKeys
    BY LabelFacts, LenProperties DEF Tree
<1>2. call \in Calls /\ call.nodes = nodes /\ call.node = r /\ call.key = key
    BY <1>1 DEF CallFor, Calls
<1>3. Insert(nodes, r, key, value) = insertNonFull[call]
    BY Zenon DEF Insert, CallFor
<1> HIDE DEF call
<1>4. Fitting(call, r, label)
    BY <1>1, <1>2 DEF Fitting
<1> QED
    BY <1>2, <1>3, <1>4, InsertNonFullKeeps

\* Under a new root there is room.
LEMMA RootSplits ==
    ASSUME NEW nodes, NEW r, NEW label, Tree(nodes, r, label), IsFull(nodes[r]),
           NEW key \in TreeKeys, NEW value \in TreeKeys
    PROVE  LET s == NewNode(nodes)
               room == splitChild(Append(nodes, AboveRoot(r)), s, 1)
           IN  Inserts(nodes, s, key, Insert(room, s, key, value))
<1> DEFINE s == NewNode(nodes)
           above == Append(nodes, AboveRoot(r))
           room == splitChild(above, s, 1)
           label1 == RaisedLabels(nodes, r, label)
           label2 == HalfLabels(above, label1, s, 1)
           t == treeOrder
<1>1. nodes \in Seq(TreeNodes) /\ r \in 1 .. Len(nodes) /\ r \in Nat /\ Len(nodes) \in Nat
    BY LabelFacts, LenProperties
<1>2. /\ AboveRoot(r) \in TreeNodes /\ AboveRoot(r).isLeaf = FALSE
      /\ Len(AboveRoot(r).keys) = 0
      /\ Len(AboveRoot(r).children) = 1 /\ AboveRoot(r).children[1] = r
    BY <1>1, AboveFacts
<1>3. Grown(nodes, AboveRoot(r), above)
    BY <1>1, <1>2, GrownFacts
<1>4. /\ above[s] = AboveRoot(r) /\ above[r] = nodes[r] /\ s \in 1 .. Len(above)
    BY <1>1, <1>3 DEF Grown, NewNode
<1>5. t \in Nat /\ t > 1
    BY TreeOrder
<1> HIDE DEF above, room, label1, label2, s, t
<1>6. Tree(above, s, label1)
    BY <1>3, RaisedTree DEF s, label1
<1>7. Splits(above, s, 1)
    <2>1. 0 # 2 * t - 1
        BY <1>5
    <2>2. ~IsFull(above[s])
        BY <2>1, <1>2, <1>4 DEF IsFull, t
    <2>3. 1 \in 1 .. Len(above[s].children) /\ above[s].children[1] = r
        BY <1>2, <1>4
    <2> QED
        BY <2>2, <2>3, <1>2, <1>4 DEF Splits
<1>8. Parting(above, s, label1, s, 1, room)
    BY <1>6, <1>7, SplitParts DEF Parting, room
<1>9. Tree(room, s, label2)
    BY <1>8, SplitTree DEF label2
<1>10. ~IsFull(room[s])
    <2>1. PartingFacts(above, s, label1, s, 1, room)
        BY <1>8, PartingKnown
    <2> DEFINE mid == MiddleKey(above, s, 1)
               one == 1 - 1
    <2> HIDE DEF mid, one
    <2>2. Put(above[s].keys, one, mid, room[s].keys)
        BY <2>1 DEF PartingFacts, mid, one
    <2>3. Len(room[s].keys) = 0 + 1
        BY <2>2, <1>2, <1>4 DEF Put
    <2>4. 0 + 1 # 2 * t - 1
        BY <1>5
    <2> QED
        BY <2>3, <2>4 DEF IsFull, t
<1>11. Inserts(room, s, key, Insert(room, s, key, value))
    BY <1>9, <1>10, InsertKeeps
<1>12. \A k : CountIn(room, k) = CountIn(nodes, k)
    BY <1>1, <1>3, <1>8, SplitCounts, RaisedCounts
<1> DEFINE nodes2 == Insert(room, s, key, value)
<1> HIDE DEF nodes2
<1>13. Inserts(nodes, s, key, nodes2)
    <2>1. Inserts(room, s, key, nodes2)
        BY <1>11 DEF nodes2
    <2> QED
        BY <2>1, <1>12 DEF Inserts, MoreKeys
<1> QED
    BY <1>13 DEF nodes2, room, above, s

----------------------------------------------------------------------------
\* The tree is one, and holds what was filed.
TreeInv ==
    /\ \E label : Tree(treeNodes, treeRoot, label)
    /\ filed \in [TreeKeys -> Nat]
    /\ \A k \in TreeKeys : filed[k] = CountIn(treeNodes, k)

LEMMA TreeStart == TreeInit => TreeInv
<1> SUFFICES ASSUME TreeInit PROVE TreeInv
    OBVIOUS
<1> DEFINE leaf == [isLeaf |-> TRUE, keys |-> << >>, values |-> << >>, children |-> << >>]
           nodes == <<leaf>>
           N == 1 .. 1
           hh == [n \in N |-> 0]
           ss == [n \in N |-> TreeKeys]
           label == [h |-> hh, par |-> hh, pos |-> hh, span |-> ss]
<1>1. << >> \in Seq(TreeKeys) /\ << >> \in Seq(Nat) /\ Len(<< >>) = 0
    OBVIOUS
<1>2. /\ leaf.isLeaf = TRUE /\ leaf.keys = <<>> /\ leaf.values = <<>> /\ leaf.children = <<>>
      /\ leaf \in TreeNodes
    BY <1>1 DEF TreeNodes
<1> HIDE DEF leaf
<1>3. nodes \in Seq(TreeNodes) /\ Len(nodes) = 1 /\ nodes[1] = leaf
    BY <1>2
<1>4. treeNodes = nodes /\ treeRoot = 1 /\ filed = [k \in TreeKeys |-> 0]
    BY DEF TreeInit, leaf
<1> HIDE DEF nodes
<1>5. /\ label \in Labels(1) /\ label.par[1] = 0 /\ label.span[1] = TreeKeys /\ label.h[1] = 0
    <2>1. hh \in [N -> Nat] /\ ss \in [N -> SUBSET TreeKeys] /\ hh[1] = 0 /\ ss[1] = TreeKeys
        OBVIOUS
    <2> HIDE DEF hh, ss
    <2> QED
        BY <2>1 DEF Labels
<1> HIDE DEF label
<1>6. \A n \in 1 .. Len(nodes) : n = 1
    BY <1>3
<1>7. NodeShape(nodes, 1, label, 1)
    <2> DEFINE t == treeOrder
    <2>1. t \in Nat /\ t > 1
        BY TreeOrder
    <2>2. 0 <= 2 * t - 1
        BY <2>1
    <2> HIDE DEF t
    <2> QED
        BY <2>2, <1>1, <1>2, <1>3, <1>5 DEF NodeShape, t
<1>8. NodeKeys(nodes, label, 1)
    BY <1>1, <1>2, <1>3 DEF NodeKeys, Keyed
<1>9. 1 .. Len(nodes[1].children) = {}
    BY <1>1, <1>2, <1>3
<1>10. Tree(nodes, 1, label)
    BY <1>3, <1>5, <1>6, <1>7, <1>8, <1>9 DEF Tree
<1>11. ASSUME NEW k PROVE CountIn(nodes, k) = 0
    <2> DEFINE f == [n \in 1 .. 1 |-> Copies(nodes[n].keys, k)]
    <2>1. CountIn(nodes, k) = SumFunctionOnSet(f, 1 .. 1)
        BY <1>3 DEF CountIn
    <2>2. \A n \in 1 .. 1 : f[n] = 0
        <3>1. nodes[1].keys = <<>>
            BY <1>2, <1>3
        <3>2. Copies(<<>>, k) = 0
            BY CopiesNone
        <3> QED
            BY <3>1, <3>2
    <2>3. IsFiniteSet(1 .. 1)
        <3>1. IsFiniteSet({1})
            BY FS_Singleton
        <3>2. 1 .. 1 = {1}
            OBVIOUS
        <3> QED
            BY <3>1, <3>2
    <2> HIDE DEF f
    <2> QED
        BY <2>1, <2>2, <2>3, SumZero
<1>12. filed \in [TreeKeys -> Nat] /\ \A k \in TreeKeys : filed[k] = 0
    BY <1>4
<1> QED
    BY <1>4, <1>10, <1>11, <1>12 DEF TreeInv

LEMMA InsertKeyStep ==
    ASSUME TreeInv, NEW key \in TreeKeys, insertKey(key, key)
    PROVE  TreeInv'
<1> DEFINE nodes2 == treeNodes'
           s == treeRoot'
           one(k) == IF key = k THEN 1 ELSE 0
<1>1. PICK label : Tree(treeNodes, treeRoot, label)
    BY DEF TreeInv
<1>2. filed \in [TreeKeys -> Nat] /\ \A k \in TreeKeys : filed[k] = CountIn(treeNodes, k)
    BY DEF TreeInv
<1>3. filed' = [filed EXCEPT ![key] = @ + 1]
    BY DEF insertKey
<1>4. Inserts(treeNodes, s, key, nodes2)
    <2>1. CASE IsFull(treeNodes[treeRoot])
        <3>1. /\ s = NewNode(treeNodes)
              /\ nodes2 = Insert(splitChild(Append(treeNodes, AboveRoot(treeRoot)), NewNode(treeNodes), 1),
                                 NewNode(treeNodes), key, key)
            BY <2>1 DEF insertKey, AboveRoot, NewNode
        <3> QED
            BY <3>1, <2>1, <1>1, RootSplits
    <2>2. CASE ~IsFull(treeNodes[treeRoot])
        <3>1. s = treeRoot /\ nodes2 = Insert(treeNodes, treeRoot, key, key)
            BY <2>2 DEF insertKey
        <3> QED
            BY <3>1, <2>2, <1>1, InsertKeeps
    <2> QED
        BY <2>1, <2>2
<1>5. (\E label2 : Tree(nodes2, s, label2)) /\ MoreKeys(treeNodes, nodes2, key)
    BY <1>4 DEF Inserts
<1>6. filed' \in [TreeKeys -> Nat]
    BY <1>2, <1>3
<1>7. ASSUME NEW k \in TreeKeys PROVE filed'[k] = CountIn(nodes2, k)
    <2>1. CountIn(nodes2, k) = CountIn(treeNodes, k) + one(k)
        BY <1>5 DEF MoreKeys
    <2>2. filed'[k] = filed[k] + one(k)
        BY <1>2, <1>3
    <2> QED
        BY <2>1, <2>2, <1>2
<1> QED
    BY <1>5, <1>6, <1>7 DEF TreeInv, CountIn, Tree, NodeShape, NodeKeys, NodeChild, NodePlace

LEMMA TreeStep == TreeInv /\ [TreeNext]_treeVars => TreeInv'
<1> SUFFICES ASSUME TreeInv, [TreeNext]_treeVars PROVE TreeInv'
    OBVIOUS
<1>1. CASE TreeNext
    BY <1>1, InsertKeyStep DEF TreeNext
<1>2. CASE UNCHANGED treeVars
    BY <1>2 DEF treeVars, TreeInv, CountIn, Tree, NodeShape, NodeKeys, NodeChild, NodePlace
<1> QED
    BY <1>1, <1>2

\* The places a node has
PlacesOf(nodes, n) ==
    {x \in (DOMAIN nodes) \X (1 .. 2 * treeOrder) :
        /\ x[2] \in DOMAIN nodes[x[1]].children
        /\ nodes[x[1]].children[x[2]] = n}

LEMMA IsTreeFrom == TreeInv => IsTree
<1> SUFFICES ASSUME TreeInv PROVE IsTree
    OBVIOUS
<1>1. PICK label : Tree(treeNodes, treeRoot, label)
    BY DEF TreeInv
<1> DEFINE nodes == treeNodes
           l == Len(nodes)
           t == treeOrder
<1>2. nodes \in Seq(TreeNodes) /\ DOMAIN nodes = 1 .. l /\ t \in Nat
    BY <1>1, LabelFacts, TreeNodeFacts, TreeOrder
<1>3. ASSUME NEW n \in 1 .. l, NEW x \in PlacesOf(nodes, n)
      PROVE  label.par[n] = x[1] /\ label.pos[n] = x[2] /\ x[1] \in 1 .. l
    <2>1. /\ x[1] \in 1 .. l /\ x[2] \in 1 .. Len(nodes[x[1]].children)
          /\ nodes[x[1]].children[x[2]] = n
        BY <1>2, TreeNodeFacts DEF PlacesOf
    <2>2. NodeChild(nodes, label, x[1], x[2])
        BY <2>1, <1>1 DEF Tree
    <2> QED
        BY <2>1, <2>2 DEF NodeChild
<1>4. ASSUME NEW n \in 1 .. l
      PROVE  IF n = treeRoot THEN PlacesOf(nodes, n) = {}
             ELSE \E x \in PlacesOf(nodes, n) : PlacesOf(nodes, n) = {x}
    <2>1. CASE n = treeRoot
        <3>1. label.par[n] = 0
            BY <2>1, <1>1 DEF Tree
        <3> QED
            BY <3>1, <2>1, <1>3
    <2>2. CASE n # treeRoot
        <3> DEFINE p == label.par[n]
                   i == label.pos[n]
                   len == Len(nodes[p].children)
        <3>1. NodePlace(nodes, label, n)
            BY <2>2, <1>1 DEF Tree
        <3>2. p \in 1 .. l /\ i \in 1 .. len /\ nodes[p].children[i] = n
            BY <3>1 DEF NodePlace
        <3>3. DOMAIN nodes[p].children = 1 .. len /\ len \in Nat
            BY <3>2, <1>2, TreeNodeFacts
        <3>4. len <= 2 * t
            <4>1. NodeShape(nodes, treeRoot, label, p)
                BY <3>2, <1>1 DEF Tree
            <4>2. Len(nodes[p].keys) \in Nat
                BY <3>2, <1>2, TreeNodeFacts
            <4>3. CASE nodes[p].isLeaf
                <5>1. len = 0
                    BY <4>1, <4>3 DEF NodeShape
                <5> HIDE DEF len
                <5> QED
                    BY <5>1, <3>3, <1>2
            <4>4. CASE ~nodes[p].isLeaf
                <5>1. len = Len(nodes[p].keys) + 1 /\ Len(nodes[p].keys) <= 2 * t - 1
                    BY <4>1, <4>4 DEF NodeShape
                <5> HIDE DEF len, t
                <5> QED
                    BY <5>1, <4>2, <1>2
            <4> QED
                BY <4>3, <4>4
        <3>5. i \in 1 .. 2 * t
            <4> HIDE DEF i, len, t
            <4> QED
                BY <3>2, <3>3, <3>4, <1>2
        <3> DEFINE y == <<p, i>>
        <3>6. y[1] = p /\ y[2] = i /\ y \in (DOMAIN nodes) \X (1 .. 2 * t)
            BY <3>2, <3>5, <1>2
        <3> HIDE DEF y
        <3>7. y \in PlacesOf(nodes, n)
            BY <3>2, <3>3, <3>6 DEF PlacesOf
        <3>8. ASSUME NEW x \in PlacesOf(nodes, n) PROVE x = y
            <4>1. x[1] = y[1] /\ x[2] = y[2]
                BY <3>6, <1>3
            <4>2. x \in (DOMAIN nodes) \X (1 .. 2 * t)
                BY DEF PlacesOf
            <4> QED
                BY <4>1, <4>2, <3>6
        <3> QED
            BY <3>7, <3>8, <2>2
    <2> QED
        BY <2>1, <2>2
<1> QED
    BY <1>2, <1>4 DEF IsTree, PlacesOf

----------------------------------------------------------------------------
\* What Depths and KeysBelow are defined as
DepthsBody(f) ==
    f = [n \in DOMAIN treeNodes |->
            IF treeNodes[n].isLeaf THEN {0}
            ELSE {d + 1 : d \in UNION {f[c] : c \in ToSet(treeNodes[n].children)}}]

KeysBelowBody(f) ==
    f = [n \in DOMAIN treeNodes |->
            ToSet(treeNodes[n].keys) \cup UNION {f[c] : c \in ToSet(treeNodes[n].children)}]

\* The children of a node, as a set
NodeChildren(nodes, n) == {nodes[n].children[i] : i \in 1 .. Len(nodes[n].children)}

LEMMA ChildrenFacts ==
    ASSUME NEW nodes, NEW r, NEW label, Tree(nodes, r, label), NEW n \in 1 .. Len(nodes)
    PROVE  ToSet(nodes[n].children) = NodeChildren(nodes, n)
<1>1. DOMAIN nodes[n].children = 1 .. Len(nodes[n].children)
    BY LabelFacts, TreeNodeFacts
<1> QED
    BY <1>1 DEF ToSet, NodeChildren

LEMMA ChildIsLower ==
    ASSUME NEW nodes, NEW r, NEW label, Tree(nodes, r, label), NEW n \in 1 .. Len(nodes),
           NEW c \in ToSet(nodes[n].children)
    PROVE  c \in 1 .. Len(nodes) /\ label.h[n] = label.h[c] + 1
<1>3. ToSet(nodes[n].children) = NodeChildren(nodes, n)
    BY ChildrenFacts
<1>1. PICK i \in 1 .. Len(nodes[n].children) : nodes[n].children[i] = c
    BY <1>3 DEF NodeChildren
<1>2. /\ nodes[n].children[i] \in 1 .. Len(nodes)
      /\ label.h[n] = label.h[nodes[n].children[i]] + 1
    BY ChildBelow
<1> QED
    BY <1>1, <1>2

DepthsOf(nodes, f, n) ==
    IF nodes[n].isLeaf THEN {0} ELSE {d + 1 : d \in UNION {f[c] : c \in ToSet(nodes[n].children)}}

\* A node above the leaves has a child, and all are one level lower.
LEMMA DepthsAre ==
    ASSUME NEW nodes, NEW r, NEW label, Tree(nodes, r, label), NEW n \in 1 .. Len(nodes),
           NEW f, \A c \in ToSet(nodes[n].children) : f[c] = {label.h[c]}
    PROVE  DepthsOf(nodes, f, n) = {label.h[n]}
<1>1. NodeShape(nodes, r, label, n)
    BY DEF Tree
<1>2. CASE nodes[n].isLeaf
    <2>1. label.h[n] = 0
        BY <1>1, <1>2 DEF NodeShape
    <2> QED
        BY <2>1, <1>2 DEF DepthsOf
<1>3. CASE ~nodes[n].isLeaf
    <2> DEFINE C == ToSet(nodes[n].children)
               D == UNION {f[c] : c \in C}
               first == nodes[n].children[1]
    <2>1. Len(nodes[n].children) = Len(nodes[n].keys) + 1 /\ Len(nodes[n].keys) \in Nat
        BY <1>1, <1>3, LabelFacts, TreeNodeFacts DEF NodeShape
    <2>2. 1 \in 1 .. Len(nodes[n].children)
        BY <2>1
    <2>3. first \in C
        <3>1. ToSet(nodes[n].children) = NodeChildren(nodes, n)
            BY ChildrenFacts
        <3> QED
            BY <3>1, <2>2 DEF NodeChildren
    <2>4. \A c \in C : c \in 1 .. Len(nodes) /\ label.h[n] = label.h[c] + 1 /\ label.h[c] \in Nat
        BY ChildIsLower, LabelFacts
    <2> HIDE DEF C, first
    <2> DEFINE e == label.h[first]
    <2>5. \A c \in C : f[c] = {e}
        <3>1. ASSUME NEW c \in C PROVE f[c] = {e}
            <4>1. label.h[c] + 1 = e + 1 /\ label.h[c] \in Nat /\ e \in Nat
                BY <2>3, <2>4
            <4>2. label.h[c] = e
                BY <4>1
            <4> QED
                BY <4>2 DEF C
        <3> QED
            BY <3>1
    <2>6. D = {e}
        BY <2>3, <2>5
    <2>7. label.h[n] = e + 1
        BY <2>3, <2>4
    <2> HIDE DEF D, e
    <2>8. {d + 1 : d \in D} = {label.h[n]}
        BY <2>6, <2>7
    <2> QED
        BY <2>8, <1>3 DEF D, C, DepthsOf
<1> QED
    BY <1>2, <1>3

LEMMA BalancedFrom == TreeInv => Balanced
<1> SUFFICES ASSUME TreeInv PROVE Balanced
    OBVIOUS
<1>1. PICK label : Tree(treeNodes, treeRoot, label)
    BY DEF TreeInv
<1> DEFINE nodes == treeNodes
           l == Len(nodes)
           one == [n \in DOMAIN nodes |-> {label.h[n]}]
<1>2. /\ nodes \in Seq(TreeNodes) /\ DOMAIN nodes = 1 .. l /\ treeRoot \in 1 .. l
      /\ \A n \in 1 .. l : label.h[n] \in Nat
    BY <1>1, LabelFacts, TreeNodeFacts
<1>3. \A n \in 1 .. l : \A c \in ToSet(nodes[n].children) :
        c \in 1 .. l /\ label.h[n] = label.h[c] + 1
    BY <1>1, ChildIsLower
<1>4. DepthsBody(one)
    <2>1. ASSUME NEW n \in DOMAIN nodes
          PROVE  one[n] = DepthsOf(nodes, one, n)
        <3>1. one[n] = {label.h[n]} /\ \A c \in ToSet(nodes[n].children) : one[c] = {label.h[c]}
            BY <1>2, <1>3
        <3>2. n \in 1 .. Len(nodes) /\ Tree(nodes, treeRoot, label)
            BY <1>1, <1>2
        <3> HIDE DEF one
        <3>3. DepthsOf(nodes, one, n) = {label.h[n]}
            BY <3>1, <3>2, DepthsAre
        <3> QED
            BY <3>1, <3>3
    <2>2. one = [n \in DOMAIN nodes |-> one[n]]
        OBVIOUS
    <2> HIDE DEF one
    <2>3. one = [n \in DOMAIN nodes |-> DepthsOf(nodes, one, n)]
        BY <2>1, <2>2, Zenon
    <2> QED
        BY <2>3, Zenon DEF DepthsBody, DepthsOf
<1>5. DepthsBody(Depths)
    <2>1. Depths = CHOOSE f : DepthsBody(f)
        BY Zenon DEF Depths, DepthsBody
    <2> QED
        BY <2>1, <1>4, Zenon
<1> DEFINE f == Depths
           P == {h \in Nat : \A n \in 1 .. l : label.h[n] < h => f[n] = {label.h[n]}}
<1> HIDE DEF f
<1>6. 0 \in P
    BY <1>2
<1>7. ASSUME NEW h \in Nat, h \in P PROVE h + 1 \in P
    <2> SUFFICES ASSUME NEW n \in 1 .. l, label.h[n] < h + 1 PROVE f[n] = {label.h[n]}
        OBVIOUS
    <2>1. ASSUME NEW c \in ToSet(nodes[n].children) PROVE f[c] = {label.h[c]}
        <3>1. c \in 1 .. l /\ label.h[c] \in Nat /\ label.h[n] = label.h[c] + 1
            BY <1>2, <1>3
        <3>2. label.h[c] < h
            BY <3>1
        <3> QED
            BY <3>1, <3>2, <1>7
    <2>2. f[n] = DepthsOf(nodes, f, n)
        BY <1>2, <1>5, Zenon DEF DepthsBody, DepthsOf, f
    <2> QED
        BY <2>1, <2>2, <1>1, DepthsAre
<1> HIDE DEF P
<1>8. \A h \in Nat : h \in P
    BY <1>6, <1>7, SetInduction
<1> DEFINE top == label.h[treeRoot]
<1>9. top \in Nat /\ top + 1 \in Nat /\ top < top + 1
    BY <1>2
<1>10. f[treeRoot] = {top}
    <2>1. top + 1 \in P
        BY <1>8, <1>9
    <2> QED
        BY <2>1, <1>2, <1>9 DEF P
<1>11. Cardinality(Depths[treeRoot]) = 1
    BY <1>10, FS_Singleton DEF f
<1>12. ASSUME NEW n \in 1 .. l
       PROVE  /\ ~nodes[n].isLeaf => Len(nodes[n].children) = Len(nodes[n].keys) + 1
              /\ Len(nodes[n].keys) <= 2 * treeOrder - 1
              /\ n # treeRoot => Len(nodes[n].keys) >= treeOrder - 1
    <2>1. NodeShape(nodes, treeRoot, label, n)
        BY <1>1 DEF Tree
    <2> QED
        BY <2>1 DEF NodeShape
<1> QED
    BY <1>2, <1>11, <1>12 DEF Balanced

KeysOf(nodes, f, n) == ToSet(nodes[n].keys) \cup UNION {f[c] : c \in ToSet(nodes[n].children)}

LEMMA KeysOfFacts ==
    ASSUME NEW nodes, NEW r, NEW label, Tree(nodes, r, label), NEW n \in 1 .. Len(nodes), NEW f, NEW k
    PROVE  k \in KeysOf(nodes, f, n) <=>
            \/ k \in ToSet(nodes[n].keys)
            \/ \E c \in ToSet(nodes[n].children) : k \in f[c]
    BY DEF KeysOf

\* What is closed under going up
ClosedUp(nodes) ==
    {g \in [1 .. Len(nodes) -> SUBSET TreeKeys] :
        \A n \in 1 .. Len(nodes) : KeysOf(nodes, g, n) \subseteq g[n]}
LeastClosed(nodes) ==
    [n \in 1 .. Len(nodes) |-> {k \in TreeKeys : \A g \in ClosedUp(nodes) : k \in g[n]}]

\* The least of it is what KeysBelow is defined as.
LEMMA KeysBelowExists ==
    ASSUME NEW nodes, NEW r, NEW label, Tree(nodes, r, label)
    PROVE  \A n \in 1 .. Len(nodes) : LeastClosed(nodes)[n] = KeysOf(nodes, LeastClosed(nodes), n)
<1> DEFINE l == Len(nodes)
           f == LeastClosed(nodes)
           above == [n \in 1 .. l |-> KeysOf(nodes, f, n)]
<1>1. \A n \in 1 .. l : ToSet(nodes[n].keys) \in SUBSET TreeKeys
    <2>1. \A n \in 1 .. l : nodes[n].keys \in Seq(TreeKeys)
        BY LabelFacts, TreeNodeFacts
    <2> SUFFICES ASSUME NEW n \in 1 .. l PROVE ToSet(nodes[n].keys) \in SUBSET TreeKeys
        OBVIOUS
    <2>2. nodes[n].keys \in [1 .. Len(nodes[n].keys) -> TreeKeys]
        BY <2>1, LenProperties
    <2> QED
        BY <2>2 DEF ToSet
<1>2. \A n \in 1 .. l : \A c \in ToSet(nodes[n].children) : c \in 1 .. l
    BY ChildIsLower
<1>3. \A n \in 1 .. l : \A k : k \in f[n] <=> k \in TreeKeys /\ \A g \in ClosedUp(nodes) : k \in g[n]
    BY DEF LeastClosed
<1> HIDE DEF f
<1>4. ASSUME NEW n \in 1 .. l, NEW k \in KeysOf(nodes, f, n) PROVE k \in TreeKeys /\ k \in f[n]
    <2>1. k \in ToSet(nodes[n].keys) \/ \E c \in ToSet(nodes[n].children) : k \in f[c]
        BY KeysOfFacts
    <2>2. k \in TreeKeys
        BY <2>1, <1>1, <1>2, <1>3
    <2>3. ASSUME NEW g \in ClosedUp(nodes) PROVE k \in g[n]
        <3>1. k \in ToSet(nodes[n].keys) \/ \E c \in ToSet(nodes[n].children) : k \in g[c]
            BY <2>1, <1>2, <1>3
        <3>2. k \in KeysOf(nodes, g, n)
            BY <3>1, KeysOfFacts
        <3> QED
            BY <3>2 DEF ClosedUp
    <2> QED
        BY <2>2, <2>3, <1>3
<1>5. above \in ClosedUp(nodes)
    <2>1. above \in [1 .. l -> SUBSET TreeKeys]
        BY <1>4
    <2>2. ASSUME NEW n \in 1 .. l, NEW k \in KeysOf(nodes, above, n) PROVE k \in above[n]
        <3>0. \A c \in 1 .. l : above[c] = KeysOf(nodes, f, c)
            OBVIOUS
        <3> HIDE DEF above
        <3>1. k \in ToSet(nodes[n].keys) \/ \E c \in ToSet(nodes[n].children) : k \in above[c]
            BY KeysOfFacts
        <3>2. k \in ToSet(nodes[n].keys) \/ \E c \in ToSet(nodes[n].children) : k \in f[c]
            BY <3>0, <3>1, <1>2, <1>4
        <3>3. k \in KeysOf(nodes, f, n)
            BY <3>2, KeysOfFacts
        <3> QED
            BY <3>0, <3>3
    <2> HIDE DEF above
    <2> QED
        BY <2>1, <2>2 DEF ClosedUp
<1>6. ASSUME NEW n \in 1 .. l PROVE f[n] = KeysOf(nodes, f, n)
    <2>1. above[n] = KeysOf(nodes, f, n)
        OBVIOUS
    <2> HIDE DEF above
    <2>2. \A k : k \in f[n] => k \in above[n]
        BY <1>3, <1>5
    <2>3. \A k : k \in KeysOf(nodes, f, n) => k \in f[n]
        BY <1>4
    <2>4. f[n] \in SUBSET TreeKeys /\ KeysOf(nodes, f, n) \in SUBSET TreeKeys
        BY <1>3, <1>4
    <2> QED
        BY <2>1, <2>2, <2>3, <2>4
<1> QED
    BY <1>6 DEF f

LEMMA KeysBelowUnfolds ==
    ASSUME NEW label, Tree(treeNodes, treeRoot, label)
    PROVE  \A n \in 1 .. Len(treeNodes) : KeysBelow[n] = KeysOf(treeNodes, KeysBelow, n)
<1> DEFINE f == LeastClosed(treeNodes)
<1>1. DOMAIN treeNodes = 1 .. Len(treeNodes)
    BY LabelFacts, TreeNodeFacts
<1>2. \A n \in DOMAIN treeNodes : f[n] = KeysOf(treeNodes, f, n)
    BY <1>1, KeysBelowExists
<1>3. f = [n \in DOMAIN treeNodes |-> f[n]]
    BY <1>1 DEF LeastClosed
<1> HIDE DEF f
<1>4. f = [n \in DOMAIN treeNodes |-> KeysOf(treeNodes, f, n)]
    BY <1>2, <1>3, Zenon
<1>5. KeysBelowBody(f)
    BY <1>4, Zenon DEF KeysBelowBody, KeysOf
<1>6. KeysBelow = CHOOSE g : KeysBelowBody(g)
    BY Zenon DEF KeysBelow, KeysBelowBody
<1>7. KeysBelowBody(KeysBelow)
    BY <1>5, <1>6, Zenon
<1> DEFINE g == KeysBelow
<1> HIDE DEF g
<1>8. g = [n \in DOMAIN treeNodes |-> KeysOf(treeNodes, g, n)]
    BY <1>7, Zenon DEF KeysBelowBody, KeysOf, g
<1>9. \A n \in DOMAIN treeNodes : g[n] = KeysOf(treeNodes, g, n)
    BY <1>8, Zenon
<1> QED
    BY <1>1, <1>9 DEF g

\* The keys below a node are those it may hold.
LEMMA KeysBelowSpan ==
    ASSUME NEW label, Tree(treeNodes, treeRoot, label)
    PROVE  \A n \in 1 .. Len(treeNodes) : KeysBelow[n] \subseteq label.span[n]
<1> DEFINE nodes == treeNodes
           l == Len(nodes)
           f == KeysBelow
           P == {h \in Nat : \A n \in 1 .. l : label.h[n] < h => f[n] \subseteq label.span[n]}
<1>1. \A n \in 1 .. l : f[n] = KeysOf(nodes, f, n)
    BY KeysBelowUnfolds
<1> HIDE DEF f
<1>2. \A n \in 1 .. l : label.h[n] \in Nat
    BY LabelFacts
<1>3. 0 \in P
    BY <1>2
<1>4. ASSUME NEW h \in Nat, h \in P PROVE h + 1 \in P
    <2> SUFFICES ASSUME NEW n \in 1 .. l, label.h[n] < h + 1, NEW k \in f[n] PROVE k \in label.span[n]
        OBVIOUS
    <2>1. k \in KeysOf(nodes, f, n)
        BY <1>1
    <2>2. k \in ToSet(nodes[n].keys) \/ \E c \in ToSet(nodes[n].children) : k \in f[c]
        BY <2>1, KeysOfFacts
    <2>3. CASE k \in ToSet(nodes[n].keys)
        <3>1. DOMAIN nodes[n].keys = 1 .. Len(nodes[n].keys)
            BY LabelFacts, TreeNodeFacts
        <3>2. PICK i \in 1 .. Len(nodes[n].keys) : k = nodes[n].keys[i]
            BY <3>1, <2>3 DEF ToSet
        <3>3. NodeKeys(nodes, label, n)
            BY DEF Tree
        <3> QED
            BY <3>2, <3>3 DEF NodeKeys
    <2>4. ASSUME NEW c \in ToSet(nodes[n].children), k \in f[c] PROVE k \in label.span[n]
        <3>1. c \in 1 .. l /\ label.h[n] = label.h[c] + 1
            BY ChildIsLower
        <3>2. label.h[c] < h
            BY <3>1, <1>2
        <3>3. k \in label.span[c]
            BY <3>1, <3>2, <2>4, <1>4
        <3>4. PICK i \in 1 .. Len(nodes[n].children) : nodes[n].children[i] = c
            <4>1. ToSet(nodes[n].children) = NodeChildren(nodes, n)
                BY ChildrenFacts
            <4> QED
                BY <4>1, <2>4 DEF NodeChildren
        <3>5. NodeChild(nodes, label, n, i)
            BY DEF Tree
        <3>6. label.span[c] = Between(nodes[n].keys, i, label.span[n])
            BY <3>4, <3>5 DEF NodeChild
        <3> QED
            BY <3>3, <3>6 DEF Between
    <2> QED
        BY <2>2, <2>3, <2>4
<1> HIDE DEF P
<1>5. \A h \in Nat : h \in P
    BY <1>3, <1>4, SetInduction
<1>6. ASSUME NEW n \in 1 .. l PROVE f[n] \subseteq label.span[n]
    <2> DEFINE h == label.h[n]
    <2>1. h \in Nat
        BY <1>2
    <2> HIDE DEF h
    <2>2. h + 1 \in P /\ h < h + 1
        BY <2>1, <1>5
    <2> QED
        BY <2>2 DEF P, h
<1> QED
    BY <1>6 DEF f

LEMMA KeysInOrderFrom == TreeInv => KeysInOrder
<1> SUFFICES ASSUME TreeInv PROVE KeysInOrder
    OBVIOUS
<1>1. PICK label : Tree(treeNodes, treeRoot, label)
    BY DEF TreeInv
<1> DEFINE nodes == treeNodes
           l == Len(nodes)
<1>2. /\ nodes \in Seq(TreeNodes) /\ DOMAIN nodes = 1 .. l
      /\ \A n \in 1 .. l : /\ DOMAIN nodes[n].keys = 1 .. Len(nodes[n].keys)
                           /\ DOMAIN nodes[n].children = 1 .. Len(nodes[n].children)
    <2>1. nodes \in Seq(TreeNodes)
        BY <1>1, LabelFacts
    <2> QED
        BY <2>1, TreeNodeFacts
<1>3. ASSUME NEW n \in 1 .. l, NEW i \in 1 .. Len(nodes[n].keys), NEW j \in 1 .. Len(nodes[n].keys), i < j
      PROVE  nodes[n].keys[i] <= nodes[n].keys[j]
    <2>1. NodeKeys(nodes, label, n)
        BY <1>1 DEF Tree
    <2> QED
        BY <2>1, <1>3 DEF NodeKeys, Keyed
<1>4. ASSUME NEW n \in 1 .. l, NEW i \in 1 .. Len(nodes[n].children),
             NEW k \in KeysBelow[nodes[n].children[i]]
      PROVE  /\ i > 1 => nodes[n].keys[i - 1] <= k
             /\ i <= Len(nodes[n].keys) => k <= nodes[n].keys[i]
    <2> DEFINE c == nodes[n].children[i]
    <2>1. NodeChild(nodes, label, n, i)
        BY <1>1 DEF Tree
    <2>2. c \in 1 .. l /\ label.span[c] = Between(nodes[n].keys, i, label.span[n])
        BY <2>1 DEF NodeChild
    <2>3. k \in label.span[c]
        BY <2>2, <1>1, KeysBelowSpan
    <2> QED
        BY <2>2, <2>3 DEF Between
<1>5. ASSUME NEW k \in TreeKeys
      PROVE  filed[k] = SumFunction([n \in DOMAIN nodes |-> KeyCount(nodes[n].keys, k)])
    <2> DEFINE g == [n \in DOMAIN nodes |-> KeyCount(nodes[n].keys, k)]
    <2>1. g = [n \in 1 .. l |-> Copies(nodes[n].keys, k)]
        BY <1>2, Zenon DEF KeyCount, Copies
    <2>2. DOMAIN g = 1 .. l
        BY <1>2
    <2>3. SumFunction(g) = SumFunctionOnSet(g, DOMAIN g)
        BY Zenon DEF SumFunction
    <2> HIDE DEF g
    <2>4. SumFunction(g) = CountIn(nodes, k)
        BY <2>1, <2>2, <2>3 DEF CountIn
    <2>5. filed[k] = CountIn(nodes, k)
        BY DEF TreeInv
    <2> QED
        BY <2>4, <2>5 DEF g
<1> QED
    BY <1>2, <1>3, <1>4, <1>5, Zenon DEF KeysInOrder

\* Whatever is inserted in whatever order, with any splits on the way, the index
\* stays a tree of which no node is lost or in two places, holds every key as
\* often as it was inserted, in order, and stays balanced, none of its nodes
\* over-full and none but the root less than half full
\* (BPlusTreeDatabaseIndex: insertKey, insertNonFull, splitChild).
THEOREM TreeCorrect == TreeSpec => [](IsTree /\ KeysInOrder /\ Balanced)
<1>1. TreeInit => TreeInv
    BY TreeStart
<1>2. TreeInv /\ [TreeNext]_treeVars => TreeInv'
    BY TreeStep
<1>3. TreeInv => IsTree /\ KeysInOrder /\ Balanced
    BY IsTreeFrom, KeysInOrderFrom, BalancedFrom
<1> QED
    BY <1>1, <1>2, <1>3, PTL DEF TreeSpec
=============================================================================
