--------------------------- MODULE MerkleRowsProofs ---------------------------
(***************************************************************************)
(* The rows of the Merkle chip: how many there are, in which order they    *)
(* stand, that they satisfy the Merkle AIR and that the Merkle bus         *)
(* balances, for trees of any height and any set of touched leaves.        *)
(***************************************************************************)
EXTENDS MemoryMerkleProofs

-----------------------------------------------------------------------------
(* The layers of an update, as sets of node indices.                       *)

\* Each layer holds the parents of the layer below, from some leaf upwards.
Layered(L) ==
    /\ DOMAIN L[0] \subseteq Level(0) /\ DOMAIN L[0] # {}
    /\ \A h \in 1..Height : DOMAIN L[h] = Parents(DOMAIN L[h - 1])

\* The leaves an update starts from (MerkleTree::finalize).
UpdateLeaves(nodes, mem, ls) ==
    IF ls # {} THEN Leaves(mem, ls) ELSE [i \in {2^Height} |-> GetNode(nodes, i)]

UpdateLayers(nodes, mem, ls) == Layers(nodes, UpdateLeaves(nodes, mem, ls))

LEMMA UpdateIsLayered ==
    ASSUME NEW nodes, NEW mem, NEW ls \in SUBSET Labels
    PROVE  /\ Layered(UpdateLayers(nodes, mem, ls))
           /\ ls # {} => DOMAIN UpdateLayers(nodes, mem, ls)[0] = {LeafIndex(l) : l \in ls}
           /\ ls = {} => DOMAIN UpdateLayers(nodes, mem, ls)[0] = {2^Height}
<1> DEFINE leaves == UpdateLeaves(nodes, mem, ls)
           L == UpdateLayers(nodes, mem, ls)
<1>1. L = [h \in 0..Height |-> IF h = 0 THEN leaves ELSE LayerAbove(nodes, L[h - 1])]
  BY LayersDefined DEF UpdateLayers
<1>2. 0 \in 0..Height /\ \A h \in 1..Height : h \in 0..Height /\ h # 0
  BY Heights
<1> HIDE DEF L, leaves
<1>3. L[0] = leaves
  BY <1>1, <1>2
<1>4. \A h \in 1..Height : L[h] = LayerAbove(nodes, L[h - 1])
  BY <1>1, <1>2
<1>5. \A h \in 1..Height : DOMAIN L[h] = Parents(DOMAIN L[h - 1])
  BY <1>4 DEF LayerAbove
<1>6. ls # {} => DOMAIN leaves = {LeafIndex(l) : l \in ls}
  BY DEF leaves, UpdateLeaves, Leaves
<1>7. ls = {} => DOMAIN leaves = {2^Height}
  BY DEF leaves, UpdateLeaves
<1>8. 2^Height \in Level(0)
  <2>1. Height - 0 = Height /\ 2^Height \in Nat /\ 2^Height > 0
    BY Heights, TwoTo, TwoToPositive
  <2> QED BY <2>1 DEF Level
<1>9. DOMAIN leaves \subseteq Level(0) /\ DOMAIN leaves # {}
  BY <1>6, <1>7, <1>8, LabelAtLeaf
<1> QED BY <1>3, <1>5, <1>6, <1>7, <1>9 DEF Layered, L

\* A layer lies within its level and holds the ancestors of the leaves.
LEMMA LayerAncestors ==
    ASSUME NEW L, Layered(L)
    PROVE  \A h \in 0..Height :
              /\ DOMAIN L[h] \subseteq Level(h) /\ DOMAIN L[h] # {}
              /\ \A i : i \in DOMAIN L[h] <=> \E j \in DOMAIN L[0] : i = j \div 2^h
<1> DEFINE Good(h) == /\ DOMAIN L[h] \subseteq Level(h) /\ DOMAIN L[h] # {}
                      /\ \A i : i \in DOMAIN L[h] <=> \E j \in DOMAIN L[0] : i = j \div 2^h
           Bad == {h \in 0..Height : ~Good(h)}
<1> SUFFICES ASSUME Bad # {} PROVE FALSE
  OBVIOUS
<1>1. PICK h \in Bad : h \in 0..Height /\ ~Good(h) /\ \A y \in Bad : h <= y
  <2>1. Bad \in SUBSET Nat
    OBVIOUS
  <2> QED BY <2>1, LeastNumber
<1>2. \A j \in DOMAIN L[0] : j \in Nat /\ j \in Level(0)
  <2>1. 0 \in 0..Height
    BY Heights
  <2> QED BY <2>1, LevelFacts DEF Layered
<1>3. h # 0
  <2> SUFFICES ASSUME h = 0 PROVE FALSE
    OBVIOUS
  <2>1. 2^0 = 1
    BY TwoToZero
  <2>2. \A j \in DOMAIN L[0] : j \div 2^0 = j
    BY <1>2, <2>1
  <2>3. Good(0)
    BY <2>2 DEF Layered
  <2> QED BY <1>1, <2>3
<1> DEFINE g == h - 1
<1>4. g \in Nat /\ g \in 0..Height /\ h = g + 1 /\ h > 0 /\ h \in 1..Height /\ g < h /\ h - 1 = g
  BY <1>1, <1>3, Heights
<1>5. g \notin Bad
  <2> HIDE DEF Bad
  <2> QED BY <1>1, <1>4
<1>6. Good(g)
  BY <1>4, <1>5
<1> HIDE DEF g
<1>7. DOMAIN L[h] = {i \div 2 : i \in DOMAIN L[g]}
  BY <1>4 DEF Layered, Parents
<1>8. \A j \in DOMAIN L[0] : j \div 2^h = (j \div 2^g) \div 2
  BY <1>2, <1>4, ShiftStep
<1>9. \A i \in Level(g) : i \div 2 \in Level(h)
  BY <1>1, <1>4, ParentLevel
<1>10. Good(h)
  BY <1>6, <1>7, <1>8, <1>9
<1> QED BY <1>1, <1>10

\* Quotient and rest.
LEMMA QuotientRest ==
    ASSUME NEW x \in Nat, NEW y \in Nat, y > 0
    PROVE  /\ x \div y \in Nat /\ x % y \in 0..y - 1
           /\ x = (x \div y) * y + (x % y)
  OBVIOUS

\* A number lies between one power of two and the next one only.
LEMMA BitLength ==
    ASSUME NEW a \in Nat, NEW b \in Nat, NEW x \in Nat,
           2^a <= x, x < 2 * 2^a, 2^b <= x, x < 2 * 2^b
    PROVE  a = b
<1>1. /\ 2^a \in Nat /\ 2^b \in Nat
      /\ 2^(a + 1) = 2 * 2^a /\ 2^(b + 1) = 2 * 2^b
  BY TwoTo
<1>2. CASE a < b
  <2>1. 2^(a + 1) <= 2^b
    BY <1>2, TwoToMonotone
  <2> QED BY <1>1, <2>1
<1>3. CASE b < a
  <2>1. 2^(b + 1) <= 2^a
    BY <1>3, TwoToMonotone
  <2> QED BY <1>1, <2>1
<1> QED BY <1>2, <1>3

-----------------------------------------------------------------------------
(* Counting the parents: every parent has a slot in the page of a leaf     *)
(* below it, no two parents the same slot of the same page.                *)

Slot(h, i) ==
    IF h <= PAGE_BITS THEN 2^(PAGE_BITS - h) + (i % 2^(PAGE_BITS - h))
    ELSE 2^PAGE_BITS + (h - PAGE_BITS - 1)

LEMMA PageBits == PAGE_BITS \in Nat /\ PAGE_BITS <= Height /\ 2^PAGE_BITS \in Nat /\ 2^PAGE_BITS > 0
<1>1. PAGE_BITS \in Nat /\ PAGE_BITS <= Height
  BY MerkleAssumption, Heights
<1> QED BY <1>1, TwoTo, TwoToPositive

\* A slot within the page tells its height by its bit length.
LEMMA SlotInPage ==
    ASSUME NEW h \in 1..Height, h <= PAGE_BITS, NEW i \in Nat
    PROVE  /\ PAGE_BITS - h \in Nat /\ 2^(PAGE_BITS - h) \in Nat /\ 2^(PAGE_BITS - h) > 0
           /\ Slot(h, i) \in Nat
           /\ 2^(PAGE_BITS - h) <= Slot(h, i) /\ Slot(h, i) < 2 * 2^(PAGE_BITS - h)
           /\ Slot(h, i) < 2^PAGE_BITS
<1> DEFINE e == PAGE_BITS - h
<1>1. e \in Nat /\ e + 1 \in Nat /\ e + 1 <= PAGE_BITS
  BY PageBits
<1> HIDE DEF e
<1>2. 2^e \in Nat /\ 2^e > 0 /\ 2^(e + 1) = 2 * 2^e
  BY <1>1, TwoTo, TwoToPositive
<1>3. 2^(e + 1) <= 2^PAGE_BITS
  BY <1>1, PageBits, TwoToMonotone
<1>4. i % 2^e \in 0..2^e - 1
  BY <1>2, QuotientRest
<1>5. Slot(h, i) = 2^e + (i % 2^e)
  BY DEF Slot, e
<1>6. /\ Slot(h, i) \in Nat /\ 2^e <= Slot(h, i) /\ Slot(h, i) < 2 * 2^e
      /\ Slot(h, i) < 2^PAGE_BITS
  BY <1>2, <1>3, <1>4, <1>5, PageBits
<1> QED BY <1>1, <1>2, <1>6 DEF e

LEMMA SlotRange ==
    ASSUME NEW h \in 1..Height, NEW i \in Nat
    PROVE  Slot(h, i) \in 1..NodesPerPage
<1>1. NodesPerPage = (2^PAGE_BITS - 1) + (Height - PAGE_BITS)
  BY DEF NodesPerPage
<1>2. CASE h <= PAGE_BITS
  <2>1. Slot(h, i) \in Nat /\ Slot(h, i) < 2^PAGE_BITS /\ Slot(h, i) > 0
    BY <1>2, SlotInPage
  <2> QED BY <1>1, <2>1, PageBits, Heights
<1>3. CASE ~(h <= PAGE_BITS)
  <2>1. Slot(h, i) = 2^PAGE_BITS + (h - PAGE_BITS - 1)
    BY <1>3 DEF Slot
  <2> QED BY <1>1, <1>3, <2>1, PageBits, Heights
<1> QED BY <1>2, <1>3

LEMMA SlotHeight ==
    ASSUME NEW h \in 1..Height, NEW g \in 1..Height, NEW i \in Nat, NEW k \in Nat,
           Slot(h, i) = Slot(g, k)
    PROVE  h = g
<1>1. \A f \in 1..Height, j \in Nat : ~(f <= PAGE_BITS) => Slot(f, j) = 2^PAGE_BITS + (f - PAGE_BITS - 1)
  BY DEF Slot
<1>2. CASE h <= PAGE_BITS /\ g <= PAGE_BITS
  <2>1. PAGE_BITS - h = PAGE_BITS - g
    BY <1>2, SlotInPage, BitLength
  <2> QED BY <2>1, PageBits
<1>3. CASE h <= PAGE_BITS /\ ~(g <= PAGE_BITS)
  <2>1. Slot(h, i) < 2^PAGE_BITS /\ Slot(h, i) \in Nat
    BY <1>3, SlotInPage
  <2> QED BY <1>1, <1>3, <2>1, PageBits, Heights
<1>4. CASE ~(h <= PAGE_BITS) /\ g <= PAGE_BITS
  <2>1. Slot(g, k) < 2^PAGE_BITS /\ Slot(g, k) \in Nat
    BY <1>4, SlotInPage
  <2> QED BY <1>1, <1>4, <2>1, PageBits, Heights
<1>5. CASE ~(h <= PAGE_BITS) /\ ~(g <= PAGE_BITS)
  BY <1>1, <1>5, PageBits, Heights
<1> QED BY <1>2, <1>3, <1>4, <1>5

\* Page and slot tell the parent.
LEMMA SlotNode ==
    ASSUME NEW h \in 1..Height, NEW a \in Nat, NEW b \in Nat,
           a \div 2^PAGE_BITS = b \div 2^PAGE_BITS,
           Slot(h, a \div 2^h) = Slot(h, b \div 2^h)
    PROVE  a \div 2^h = b \div 2^h
<1>1. h \in Nat /\ 2^h \in Nat /\ 2^h > 0
  BY Heights, TwoTo, TwoToPositive
<1>2. CASE h <= PAGE_BITS
  <2> DEFINE e == PAGE_BITS - h
             i == a \div 2^h
             k == b \div 2^h
  <2>1. e \in Nat /\ h + e = PAGE_BITS
    BY <1>1, <1>2, PageBits
  <2>2. i \in Nat /\ k \in Nat
    BY <1>1, QuotientRest
  <2>3. Slot(h, i) = 2^e + (i % 2^e) /\ Slot(h, k) = 2^e + (k % 2^e)
    BY <1>2 DEF Slot
  <2> HIDE DEF e
  <2>4. i \div 2^e = a \div 2^PAGE_BITS /\ k \div 2^e = b \div 2^PAGE_BITS
    BY <1>1, <2>1, ShiftSum
  <2>5. 2^e \in Nat /\ 2^e > 0
    BY <2>1, TwoTo, TwoToPositive
  <2>6. Slot(h, i) = Slot(h, k)
    OBVIOUS
  <2> HIDE DEF i, k
  <2>7. i % 2^e \in 0..2^e - 1 /\ k % 2^e \in 0..2^e - 1
    BY <2>2, <2>5, QuotientRest
  <2>8. i % 2^e = k % 2^e
    BY <2>3, <2>5, <2>6, <2>7
  <2>9. i = (i \div 2^e) * 2^e + (i % 2^e) /\ k = (k \div 2^e) * 2^e + (k % 2^e)
    BY <2>2, <2>5, QuotientRest
  <2>10. i = k
    BY <2>4, <2>8, <2>9
  <2> QED BY <2>10 DEF i, k
<1>3. CASE ~(h <= PAGE_BITS)
  <2> DEFINE e == h - PAGE_BITS
  <2>1. e \in Nat /\ PAGE_BITS + e = h
    BY <1>1, <1>3, PageBits
  <2> HIDE DEF e
  <2>2. /\ (a \div 2^PAGE_BITS) \div 2^e = a \div 2^h
        /\ (b \div 2^PAGE_BITS) \div 2^e = b \div 2^h
    BY <2>1, PageBits, ShiftSum
  <2> QED BY <2>2
<1> QED BY <1>2, <1>3

\* The roots of the pages that hold a leaf.
PageRoots(S) == {j \div 2^PAGE_BITS : j \in S}

LEMMA RowNodesBound ==
    ASSUME NEW L, Layered(L), IsFiniteSet(PageRoots(DOMAIN L[0]))
    PROVE  /\ IsFiniteSet(RowNodes(L))
           /\ Cardinality(RowNodes(L)) <= Cardinality(PageRoots(DOMAIN L[0])) * NodesPerPage
<1> DEFINE S == RowNodes(L)
           D == DOMAIN L[0]
           P == PageRoots(D)
           T == P \X (1..NodesPerPage)
           below(n) == CHOOSE j \in D : n[2] = j \div 2^(n[1])
           f == [n \in S |-> <<below(n) \div 2^PAGE_BITS, Slot(n[1], n[2])>>]
<1>1. \A n \in S : n[1] \in 1..Height /\ n[2] \in DOMAIN L[n[1]] /\ n = <<n[1], n[2]>>
  BY DEF RowNodes
<1>2. \A n \in S : below(n) \in D /\ n[2] = below(n) \div 2^(n[1])
  <2>1. \A n \in S : \E j \in D : n[2] = j \div 2^(n[1])
    BY <1>1, Heights, LayerAncestors
  <2> QED BY <2>1
<1>3. \A j \in D : j \in Nat
  <2>1. 0 \in 0..Height
    BY Heights
  <2> QED BY <2>1, LevelFacts DEF Layered
<1> HIDE DEF below, S, D
<1>4. \A n \in S : below(n) \div 2^PAGE_BITS \in P
  BY <1>2 DEF PageRoots
<1>5. \A n \in S : n[2] \in Nat
  <2> SUFFICES ASSUME NEW n \in S PROVE n[2] \in Nat
    OBVIOUS
  <2>1. n[1] \in Nat /\ 2^(n[1]) \in Nat /\ 2^(n[1]) > 0
    BY <1>1, Heights, TwoTo, TwoToPositive
  <2> QED BY <1>2, <1>3, <2>1, QuotientRest
<1>6. \A n \in S : Slot(n[1], n[2]) \in 1..NodesPerPage
  BY <1>1, <1>5, SlotRange
<1>7. f \in [S -> T]
  <2> HIDE DEF P
  <2> QED BY <1>4, <1>6
<1>8. ASSUME NEW m \in S, NEW n \in S, f[m] = f[n] PROVE m = n
  <2>1. below(m) \div 2^PAGE_BITS = below(n) \div 2^PAGE_BITS /\ Slot(m[1], m[2]) = Slot(n[1], n[2])
    BY <1>8
  <2>2. m[1] = n[1]
    BY <1>1, <1>5, <2>1, SlotHeight
  <2>3. m[2] = n[2]
    <3> DEFINE h == m[1]
               a == below(m)
               b == below(n)
    <3>1. h \in 1..Height /\ a \in Nat /\ b \in Nat /\ m[2] = a \div 2^h /\ n[2] = b \div 2^h
      BY <1>1, <1>2, <1>3, <2>2
    <3>2. Slot(h, a \div 2^h) = Slot(h, b \div 2^h) /\ a \div 2^PAGE_BITS = b \div 2^PAGE_BITS
      BY <2>1, <2>2, <3>1
    <3> HIDE DEF a, b, h
    <3> QED BY <3>1, <3>2, SlotNode
  <2> QED BY <1>1, <2>2, <2>3
<1>9. f \in Injection(S, T)
  <2> HIDE DEF f, T
  <2> QED BY <1>7, <1>8 DEF Injection, IsInjective
<1>10. IsFiniteSet(1..NodesPerPage) /\ Cardinality(1..NodesPerPage) = NodesPerPage /\ NodesPerPage \in Nat
  <2>1. NodesPerPage \in Nat
    BY PageBits, Heights DEF NodesPerPage
  <2> QED BY <2>1, FS_Interval
<1>11. IsFiniteSet(T) /\ Cardinality(T) = Cardinality(P) * NodesPerPage
  <2>1. IsFiniteSet(P)
    BY DEF D
  <2> HIDE DEF P
  <2> QED BY <1>10, <2>1, FS_Product
<1> HIDE DEF f, T
<1>12. IsFiniteSet(S) /\ Cardinality(S) <= Cardinality(T)
  BY <1>9, <1>11, FS_Injection
<1> QED BY <1>11, <1>12 DEF S, D

-----------------------------------------------------------------------------
(* The trace: the rows from the last to the first, the roots swapped.      *)

LEMMA FunctionLength ==
    ASSUME NEW N \in Nat, NEW s, s = [k \in 1..N |-> s[k]]
    PROVE  Len(s) = N /\ DOMAIN s = 1..N
<1> DEFINE D == {s[k] : k \in 1..N}
<1>1. s \in [1..N -> D]
  OBVIOUS
<1> HIDE DEF D
<1>2. s \in Seq(D)
  BY <1>1
<1> QED BY <1>1, <1>2

\* Where row k of the trace comes from.
Origin(N, k) == IF k = 1 THEN N - 1 ELSE IF k = 2 THEN N ELSE (N - k) + 1

LEMMA TraceRowsAre ==
    ASSUME NEW N \in Nat, N >= 2, NEW s, s = [k \in 1..N |-> s[k]]
    PROVE  /\ TraceRows(s) = [k \in 1..N |-> s[Origin(N, k)]]
           /\ \A k \in 1..N : Origin(N, k) \in 1..N
<1>1. Len(s) = N
  BY FunctionLength
<1> DEFINE r == Reverse(s)
<1>2. r = [k \in 1..N |-> s[(N - k) + 1]]
  BY <1>1 DEF Reverse
<1>3. TraceRows(s) = [r EXCEPT ![1] = r[2], ![2] = r[1]]
  BY DEF TraceRows, SwapFirst
<1> HIDE DEF r
<1>4. 1 \in 1..N /\ 2 \in 1..N /\ (N - 1) + 1 = N /\ (N - 2) + 1 = N - 1
  OBVIOUS
<1>5. r[1] = s[N] /\ r[2] = s[N - 1]
  BY <1>2, <1>4
<1>6. TraceRows(s) = [k \in 1..N |-> IF k = 2 THEN r[1] ELSE IF k = 1 THEN r[2] ELSE r[k]]
  BY <1>2, <1>3, <1>4
<1>7. ASSUME NEW k \in 1..N
      PROVE  /\ (IF k = 2 THEN r[1] ELSE IF k = 1 THEN r[2] ELSE r[k]) = s[Origin(N, k)]
             /\ Origin(N, k) \in 1..N
  BY <1>2, <1>5 DEF Origin
<1> QED BY <1>6, <1>7

\* What MarkArtificial does to a sequence of rows.
LEMMA MarkArtificialIs ==
    ASSUME NEW N \in Nat, N >= 2, NEW s, s = [k \in 1..N |-> s[k]]
    PROVE  MarkArtificial(s) = [k \in 1..N |-> MarkArtificial(s)[k]]
  BY DEF MarkArtificial

LEMMA RowsShape ==
    ASSUME NEW nodes, NEW L, IsFiniteSet(RowNodes(L))
    PROVE  /\ 2 * Cardinality(RowNodes(L)) \in Nat
           /\ Rows(nodes, L) = [k \in 1..2 * Cardinality(RowNodes(L)) |-> Rows(nodes, L)[k]]
<1>1. Cardinality(RowNodes(L)) \in Nat
  BY FS_CardinalityType
<1> QED BY <1>1 DEF Rows

\* The root is a parent of every update.
LEMMA RootHasRows ==
    ASSUME NEW L, Layered(L), IsFiniteSet(RowNodes(L))
    PROVE  /\ Height \in 1..Height /\ DOMAIN L[Height] = {1}
           /\ <<Height, 1>> \in RowNodes(L)
           /\ Cardinality(RowNodes(L)) >= 1
<1>1. Height \in 1..Height /\ Height \in 0..Height /\ Height - Height = 0
  BY MerkleAssumption DEF Height
<1>2. DOMAIN L[Height] \subseteq Level(Height) /\ DOMAIN L[Height] # {}
  BY <1>1, LayerAncestors
<1>3. Level(Height) = {1}
  <2>1. 2^(Height - Height) = 1
    BY <1>1, TwoToZero
  <2>2. Level(Height) = 1..2 * 1 - 1
    BY <2>1 DEF Level
  <2> QED BY <2>2
<1>4. DOMAIN L[Height] = {1}
  BY <1>2, <1>3
<1>5. <<Height, 1>> \in RowNodes(L)
  BY <1>1, <1>4 DEF RowNodes
<1>6. Cardinality(RowNodes(L)) # 0 /\ Cardinality(RowNodes(L)) \in Nat
  BY <1>5, FS_EmptySet, FS_CardinalityType
<1> QED BY <1>1, <1>4, <1>5, <1>6

\* The rows of a segment, before they are put in trace order.
SegmentRows(nodes, mem, ls) ==
    IF ls # {} THEN Rows(nodes, UpdateLayers(nodes, mem, ls))
    ELSE MarkArtificial(Rows(nodes, UpdateLayers(nodes, mem, ls)))

LEMMA FinalizeRowsAre ==
    ASSUME NEW nodes, NEW mem, NEW ls \in SUBSET Labels,
           IsFiniteSet(RowNodes(UpdateLayers(nodes, mem, ls)))
    PROVE  LET N == 2 * Cardinality(RowNodes(UpdateLayers(nodes, mem, ls)))
               s == SegmentRows(nodes, mem, ls)
           IN /\ N \in Nat /\ N >= 2 /\ s = [k \in 1..N |-> s[k]]
              /\ FinalizeTree(nodes, mem, ls).rows = [k \in 1..N |-> s[Origin(N, k)]]
              /\ Len(FinalizeTree(nodes, mem, ls).rows) = N
<1> DEFINE L == UpdateLayers(nodes, mem, ls)
           N == 2 * Cardinality(RowNodes(L))
           s == SegmentRows(nodes, mem, ls)
           t == FinalizeTree(nodes, mem, ls).rows
<1>1. Layered(L)
  BY UpdateIsLayered
<1>2. N \in Nat /\ N >= 2
  <2>1. Cardinality(RowNodes(L)) >= 1 /\ Cardinality(RowNodes(L)) \in Nat
    BY <1>1, RootHasRows, FS_CardinalityType
  <2> QED BY <2>1
<1>3. Rows(nodes, L) = [k \in 1..N |-> Rows(nodes, L)[k]]
  BY RowsShape
<1>4. t = TraceRows(s)
  BY DEF FinalizeTree, SegmentRows, UpdateLayers, UpdateLeaves
<1>5. s = Rows(nodes, L) \/ s = MarkArtificial(Rows(nodes, L))
  BY DEF SegmentRows
<1> HIDE DEF N, L, t, s
<1>6. s = [k \in 1..N |-> s[k]]
  BY <1>2, <1>3, <1>5, MarkArtificialIs
<1>7. t = [k \in 1..N |-> s[Origin(N, k)]]
  BY <1>2, <1>4, <1>6, TraceRowsAre
<1>8. Len(t) = N
  <2>1. t = [k \in 1..N |-> t[k]]
    BY <1>7
  <2> QED BY <1>2, <2>1, FunctionLength
<1> QED BY <1>2, <1>6, <1>7, <1>8 DEF N, L, t, s

-----------------------------------------------------------------------------
(* The metered estimate.                                                   *)

LEMMA LabelParts ==
    /\ IsFiniteSet(Labels)
    /\ 2^address_height \in Nat /\ 2^address_height > 0
    /\ \A l \in Labels : /\ l = <<l[1], l[2]>> /\ l[1] - ADDR_SPACE_OFFSET \in Nat
                         /\ l[1] \in Nat /\ l[2] \in 0..2^address_height - 1
                         /\ LabelToIndex(l) = (l[1] - ADDR_SPACE_OFFSET) * 2^address_height + l[2]
                         /\ LabelToIndex(l) \in Nat
<1>1. /\ 2^address_height \in Nat /\ 2^address_height > 0
      /\ 2^addr_space_height \in Nat /\ 2^addr_space_height > 0
  BY Heights, TwoTo, TwoToPositive
<1>2. IsFiniteSet(AddressSpaces) /\ IsFiniteSet(0..2^address_height - 1)
  <2>1. 1 \in Int /\ 2^addr_space_height - 1 + 1 \in Int /\ 0 \in Int /\ 2^address_height - 1 \in Int
    BY <1>1
  <2>2. \A a, b \in Int : IsFiniteSet(a..b)
    BY FS_Interval
  <2>3. IsFiniteSet(1..(2^addr_space_height - 1 + 1)) /\ IsFiniteSet(0..2^address_height - 1)
    BY <2>1, <2>2
  <2> QED BY <2>3 DEF AddressSpaces, ADDR_SPACE_OFFSET
<1>3. IsFiniteSet(Labels)
  BY <1>2, FS_Product DEF Labels
<1>4. ASSUME NEW l \in Labels
      PROVE  /\ l = <<l[1], l[2]>> /\ l[1] - ADDR_SPACE_OFFSET \in Nat
             /\ l[1] \in Nat /\ l[2] \in 0..2^address_height - 1
  BY <1>1 DEF Labels, AddressSpaces, ADDR_SPACE_OFFSET
<1>5. ASSUME NEW l \in Labels
      PROVE  /\ LabelToIndex(l) = (l[1] - ADDR_SPACE_OFFSET) * 2^address_height + l[2]
             /\ LabelToIndex(l) \in Nat
  <2> DEFINE q == l[1] - ADDR_SPACE_OFFSET
             p == 2^address_height
  <2>1. LabelToIndex(l) = q * p + l[2]
    BY DEF LabelToIndex
  <2>2. q \in Nat /\ p \in Nat /\ l[2] \in Nat
    BY <1>1, <1>4
  <2> HIDE DEF q, p
  <2>3. q * p \in Nat
    BY <2>2
  <2>4. LabelToIndex(l) \in Nat
    BY <2>1, <2>2, <2>3
  <2> QED BY <2>1, <2>4 DEF q, p
<1> QED BY <1>1, <1>3, <1>4, <1>5

LEMMA LabelToIndexInjective ==
    ASSUME NEW l \in Labels, NEW k \in Labels, LabelToIndex(l) = LabelToIndex(k)
    PROVE  l = k
<1> DEFINE p == 2^address_height
           x == LabelToIndex(l)
           q == l[1] - ADDR_SPACE_OFFSET
           s == k[1] - ADDR_SPACE_OFFSET
<1>1. /\ p \in Nat /\ p > 0 /\ x \in Nat /\ q \in Nat /\ s \in Nat
      /\ l[2] \in 0..p - 1 /\ k[2] \in 0..p - 1
      /\ x = q * p + l[2] /\ x = s * p + k[2]
      /\ l = <<l[1], l[2]>> /\ k = <<k[1], k[2]>> /\ l[1] \in Nat /\ k[1] \in Nat
  BY LabelParts
<1> HIDE DEF p, x
<1>2. q = s
  <2>1. x \div p = q /\ x \div p = s
    <3> HIDE DEF q, s
    <3>1. l[2] \in Nat /\ l[2] < p /\ k[2] \in Nat /\ k[2] < p
      BY <1>1
    <3> QED BY <1>1, <3>1, DivisionFacts
  <2> QED BY <2>1
<1>3. l[2] = k[2]
  <2>1. q * p \in Nat
    <3> HIDE DEF q
    <3> QED BY <1>1
  <2> HIDE DEF q, s
  <2> QED BY <1>1, <1>2, <2>1
<1>4. l[1] = k[1]
  BY <1>1, <1>2 DEF ADDR_SPACE_OFFSET
<1> QED BY <1>1, <1>3, <1>4

LEMMA LabelAtLeafIndex ==
    ASSUME NEW l \in Labels PROVE LabelAt(LeafIndex(l)) = l
<1> DEFINE k == LabelAt(LeafIndex(l))
           a == LabelToIndex(l)
           b == LabelToIndex(k)
           c == 2^Height
<1>1. k \in Labels /\ LeafIndex(k) = LeafIndex(l)
  BY LabelAtLeaf
<1>2. c + a = c + b
  BY <1>1 DEF LeafIndex
<1>3. a \in Nat /\ b \in Nat /\ c \in Nat
  BY <1>1, Heights, TwoTo, LabelParts
<1>4. a = b
  <2> HIDE DEF a, b, c
  <2> QED BY <1>2, <1>3
<1> QED BY <1>1, <1>4, LabelToIndexInjective

\* The root of the page of a leaf.
LEMMA PageRootOf ==
    ASSUME NEW x \in Nat
    PROVE  /\ 2^(Height - PAGE_BITS) \in Nat
           /\ (2^Height + x) \div 2^PAGE_BITS = 2^(Height - PAGE_BITS) + (x \div 2^PAGE_BITS)
<1> DEFINE e == Height - PAGE_BITS
           y == 2^PAGE_BITS
           T == 2^e
           q == x \div y
           r == x % y
<1>1. e \in Nat /\ e + PAGE_BITS = Height
  BY Heights, PageBits
<1>2. T \in Nat /\ y \in Nat /\ y > 0 /\ 2^Height = T * y
  <2> HIDE DEF e
  <2> QED BY <1>1, PageBits, TwoTo, TwoToSum
<1> HIDE DEF e, y, T
<1>3. q \in Nat /\ r \in 0..y - 1 /\ x = q * y + r
  BY <1>2, QuotientRest
<1> HIDE DEF q, r
<1>4. (T + q) * y = T * y + q * y /\ T * y \in Nat /\ q * y \in Nat
  BY <1>2, <1>3
<1>5. T * y + x = (T + q) * y + r /\ T * y + x \in Nat /\ T + q \in Nat /\ r \in Nat /\ r < y
  BY <1>2, <1>3, <1>4
<1>6. (T * y + x) \div y = T + q
  BY <1>2, <1>5, DivisionFacts
<1> QED BY <1>2, <1>6 DEF e, y, T, q

\* Pages metered for a set of touched leaves.
PagesOf(ls) == {LabelToIndex(l) \div 2^PAGE_BITS : l \in ls \cup {RegisterLabel}}

\* The pages of a set of labels are finitely many, and at least one.
LEMMA PagesFinite ==
    ASSUME NEW ls \in SUBSET Labels
    PROVE  /\ IsFiniteSet(PagesOf(ls)) /\ Cardinality(PagesOf(ls)) \in Nat
           /\ Cardinality(PagesOf(ls)) >= 1
           /\ \A p \in PagesOf(ls) : p \in Nat
<1> DEFINE A == ls \cup {RegisterLabel}
           f == [l \in A |-> LabelToIndex(l) \div 2^PAGE_BITS]
<1>1. A \in SUBSET Labels /\ RegisterLabel \in A
  BY MerkleAssumption
<1>2. IsFiniteSet(A)
  BY <1>1, LabelParts, FS_Subset
<1> HIDE DEF A
<1>3. PagesOf(ls) = {LabelToIndex(l) \div 2^PAGE_BITS : l \in A}
  BY DEF PagesOf, A
<1>4. f \in Surjection(A, PagesOf(ls))
  BY <1>3 DEF Surjection
<1> HIDE DEF f
<1>5. IsFiniteSet(PagesOf(ls))
  BY <1>2, <1>4, FS_Surjection
<1>6. Cardinality(PagesOf(ls)) \in Nat /\ Cardinality(PagesOf(ls)) # 0
  <2>1. PagesOf(ls) # {}
    BY <1>1, <1>3
  <2> QED BY <1>5, <2>1, FS_CardinalityType, FS_EmptySet
<1>7. \A l \in A : LabelToIndex(l) \div 2^PAGE_BITS \in Nat
  BY <1>1, LabelParts, PageBits, QuotientRest
<1> QED BY <1>3, <1>5, <1>6, <1>7

\* Two leaves of a page differ in their place within it.
LEMMA LeavesBound ==
    ASSUME NEW ls \in SUBSET Labels
    PROVE  IsFiniteSet(ls) /\ Cardinality(ls) <= Cardinality(PagesOf(ls)) * 2^PAGE_BITS
<1> DEFINE y == 2^PAGE_BITS
           P == PagesOf(ls)
           T == P \X (0..y - 1)
           f == [l \in ls |-> <<LabelToIndex(l) \div y, LabelToIndex(l) % y>>]
<1>1. y \in Nat /\ y > 0
  BY PageBits
<1>2. \A l \in ls : LabelToIndex(l) \div y \in P
  BY DEF PagesOf
<1> HIDE DEF y, P
<1>3. \A l \in ls : /\ LabelToIndex(l) \div y \in Nat /\ LabelToIndex(l) % y \in 0..y - 1
                    /\ LabelToIndex(l) = (LabelToIndex(l) \div y) * y + (LabelToIndex(l) % y)
  BY <1>1, LabelParts, QuotientRest
<1>4. f \in [ls -> T]
  BY <1>2, <1>3
<1>5. ASSUME NEW l \in ls, NEW k \in ls, f[l] = f[k] PROVE l = k
  <2>1. LabelToIndex(l) \div y = LabelToIndex(k) \div y /\ LabelToIndex(l) % y = LabelToIndex(k) % y
    BY <1>5
  <2>2. LabelToIndex(l) = LabelToIndex(k)
    BY <1>3, <2>1
  <2> QED BY <2>2, LabelToIndexInjective
<1>6. f \in Injection(ls, T)
  <2> HIDE DEF f, T
  <2> QED BY <1>4, <1>5 DEF Injection, IsInjective
<1>7. IsFiniteSet(0..y - 1) /\ Cardinality(0..y - 1) = y
  BY <1>1, FS_Interval
<1>8. IsFiniteSet(P)
  BY PagesFinite DEF P
<1>9. IsFiniteSet(T) /\ Cardinality(T) = Cardinality(P) * y
  BY <1>7, <1>8, FS_Product
<1> HIDE DEF f, T
<1>10. IsFiniteSet(ls) /\ Cardinality(ls) <= Cardinality(T)
  BY <1>6, <1>9, FS_Injection
<1> QED BY <1>9, <1>10 DEF P, y

\* The leaves of an update lie in no more pages than were metered.
LEMMA UpdatePages ==
    ASSUME NEW nodes, NEW mem, NEW ls \in SUBSET Labels
    PROVE  LET R == PageRoots(DOMAIN UpdateLayers(nodes, mem, ls)[0])
           IN IsFiniteSet(R) /\ Cardinality(R) <= Cardinality(PagesOf(ls))
<1> DEFINE D == DOMAIN UpdateLayers(nodes, mem, ls)[0]
           R == PageRoots(D)
           T == 2^(Height - PAGE_BITS)
           P == PagesOf(ls)
<1>1. IsFiniteSet(P) /\ Cardinality(P) \in Nat /\ Cardinality(P) >= 1 /\ \A p \in P : p \in Nat
  BY PagesFinite
<1>2. CASE ls = {}
  <2>1. D = {2^Height}
    BY <1>2, UpdateIsLayered
  <2> HIDE DEF D
  <2>2. R = {2^Height \div 2^PAGE_BITS}
    BY <2>1 DEF PageRoots
  <2>3. IsFiniteSet(R) /\ Cardinality(R) = 1
    BY <2>2, FS_Singleton
  <2> HIDE DEF R, P
  <2> QED BY <1>1, <2>3 DEF R, P, D
<1>3. CASE ls # {}
  <2>1. D = {LeafIndex(l) : l \in ls}
    BY <1>3, UpdateIsLayered
  <2>2. \A l \in ls : LeafIndex(l) \div 2^PAGE_BITS = T + (LabelToIndex(l) \div 2^PAGE_BITS)
    BY LabelParts, PageRootOf DEF LeafIndex
  <2>3. \A l \in ls : LabelToIndex(l) \div 2^PAGE_BITS \in P
    BY DEF PagesOf
  <2>4. T \in Nat
    BY PageRootOf
  <2> HIDE DEF D, P, T
  <2>5. \A r \in R : r - T \in P /\ r \in Int
    <3> SUFFICES ASSUME NEW l \in ls
                 PROVE  LeafIndex(l) \div 2^PAGE_BITS - T \in P /\ LeafIndex(l) \div 2^PAGE_BITS \in Int
      BY <2>1 DEF PageRoots
    <3> DEFINE p == LabelToIndex(l) \div 2^PAGE_BITS
    <3>1. p \in P /\ p \in Nat /\ LeafIndex(l) \div 2^PAGE_BITS = T + p
      BY <1>1, <2>2, <2>3
    <3> HIDE DEF p
    <3>2. (T + p) - T = p
      BY <2>4, <3>1
    <3> QED BY <2>4, <3>1, <3>2
  <2> HIDE DEF R
  <2> DEFINE f == [r \in R |-> r - T]
  <2>6. f \in [R -> P]
    BY <2>5
  <2>7. \A q \in R, r \in R : f[q] = f[r] => q = r
    BY <2>4, <2>5
  <2>8. f \in Injection(R, P)
    <3> HIDE DEF f
    <3> QED BY <2>6, <2>7 DEF Injection, IsInjective
  <2> HIDE DEF f
  <2>9. IsFiniteSet(R) /\ Cardinality(R) <= Cardinality(P)
    BY <1>1, <2>8, FS_Injection
  <2> QED BY <2>9 DEF D, R, P
<1> QED BY <1>2, <1>3

LEMMA UpdateRowsBound ==
    ASSUME NEW nodes, NEW mem, NEW ls \in SUBSET Labels
    PROVE  /\ IsFiniteSet(RowNodes(UpdateLayers(nodes, mem, ls)))
           /\ Cardinality(RowNodes(UpdateLayers(nodes, mem, ls))) \in Nat
           /\ Cardinality(RowNodes(UpdateLayers(nodes, mem, ls))) <= Cardinality(PagesOf(ls)) * NodesPerPage
<1> DEFINE L == UpdateLayers(nodes, mem, ls)
           R == PageRoots(DOMAIN L[0])
<1>1. IsFiniteSet(R) /\ Cardinality(R) <= Cardinality(PagesOf(ls))
  BY UpdatePages
<1>2. Layered(L)
  BY UpdateIsLayered
<1> HIDE DEF L
<1>3. IsFiniteSet(RowNodes(L)) /\ Cardinality(RowNodes(L)) <= Cardinality(R) * NodesPerPage
  BY <1>1, <1>2, RowNodesBound
<1> DEFINE a == Cardinality(R)
           b == Cardinality(PagesOf(ls))
           c == Cardinality(RowNodes(L))
<1>4. a \in Nat /\ b \in Nat /\ a <= b /\ NodesPerPage \in Nat /\ c \in Nat
  <2>1. NodesPerPage \in Nat
    BY PageBits, Heights DEF NodesPerPage
  <2> QED BY <1>1, <1>3, <2>1, PagesFinite, FS_CardinalityType
<1>5. c <= a * NodesPerPage
  BY <1>3
<1> HIDE DEF a, b, c
<1>6. a * NodesPerPage <= b * NodesPerPage /\ a * NodesPerPage \in Nat /\ b * NodesPerPage \in Nat
  <2>1. \A x, y, z \in Nat : x <= y => x * z <= y * z /\ x * z \in Nat /\ y * z \in Nat
    OBVIOUS
  <2> QED BY <1>4, <2>1
<1>7. c <= b * NodesPerPage
  BY <1>4, <1>5, <1>6
<1> QED BY <1>3, <1>4, <1>7 DEF b, c, L

-----------------------------------------------------------------------------
(* The finalized segment, while it is there, is that of the tree of the    *)
(* memory the segment started from.                                        *)

FinalInv ==
    /\ MerkleInv
    /\ final # None => final = FinalizeTree(FromMemory(start), memory, touched)

LEMMA FinalInvInductive ==
    /\ MerkleInit => FinalInv
    /\ FinalInv /\ [MerkleNext]_merkleVars => FinalInv'
<1>1. MerkleInit => FinalInv
  BY MerkleInitInv DEF MerkleInit, FinalInv
<1>2. ASSUME FinalInv, [MerkleNext]_merkleVars PROVE FinalInv'
  <2>1. MerkleInv'
    BY <1>2, MerkleNextInv DEF FinalInv
  <2> SUFFICES ASSUME final' # None'
               PROVE  final' = FinalizeTree(FromMemory(start), memory, touched)'
    BY <2>1 DEF FinalInv
  <2>2. None' = None
    BY DEF None
  <2>3. CASE \E l \in Touchable, v \in ChunkValues : Touch(l, v)
    <3>1. final' = None
      BY <2>3 DEF Touch
    <3> QED BY <2>2, <3>1
  <2>4. CASE MerkleFinalize
    <3>1. /\ start' = start /\ memory' = memory /\ touched' = touched
          /\ final' = FinalizeTree(FromMemory(start), memory, touched)
      BY <2>4 DEF MerkleFinalize
    <3> QED BY <3>1
  <2>5. CASE NextSegment
    <3>1. final' = None
      BY <2>5 DEF NextSegment
    <3> QED BY <2>2, <3>1
  <2>6. CASE MerkleDone \/ UNCHANGED merkleVars
    <3>1. start' = start /\ memory' = memory /\ touched' = touched /\ final' = final
      BY <2>6 DEF MerkleDone, merkleVars
    <3>2. final = FinalizeTree(FromMemory(start), memory, touched)
      BY <1>2, <2>2, <3>1 DEF FinalInv
    <3> QED BY <3>1, <3>2
  <2> QED BY <1>2, <2>3, <2>4, <2>5, <2>6 DEF MerkleNext
<1> QED BY <1>1, <1>2

LEMMA FinalInvEstimate == FinalInv => EstimateCovers
<1> SUFFICES ASSUME FinalInv, final # None
             PROVE  LET pages == Cardinality(MeteredPages) IN
                    /\ 2 * Cardinality(touched) <= 2 * 2^PAGE_BITS * pages
                    /\ Len(final.rows) <= 2 * NodesPerPage * pages
  BY DEF EstimateCovers
<1> DEFINE nodes == FromMemory(start)
           a == Cardinality(touched)
           b == Cardinality(PagesOf(touched))
           c == Cardinality(RowNodes(UpdateLayers(nodes, memory, touched)))
           y == 2^PAGE_BITS
           z == NodesPerPage
<1>1. touched \in SUBSET Labels /\ final = FinalizeTree(nodes, memory, touched)
  BY DEF FinalInv, MerkleInv
<1> HIDE DEF nodes
<1>2. MeteredPages = PagesOf(touched)
  BY DEF MeteredPages, PagesOf
<1>3. b \in Nat
  BY <1>1, PagesFinite
<1>4. a \in Nat /\ a <= b * y
  BY <1>1, LeavesBound, FS_CardinalityType
<1>5. c \in Nat /\ c <= b * z /\ Len(final.rows) = 2 * c
  BY <1>1, UpdateRowsBound, FinalizeRowsAre
<1>6. y \in Nat /\ z \in Nat
  BY PageBits, Heights DEF NodesPerPage
<1> HIDE DEF a, b, c, y, z
<1>7. 2 * a <= (2 * y) * b /\ 2 * c <= (2 * z) * b
  <2>1. \A u, v, w \in Nat : w <= v * u => 2 * w <= (2 * u) * v
    OBVIOUS
  <2> QED BY <1>3, <1>4, <1>5, <1>6, <2>1
<1> QED BY <1>2, <1>5, <1>7 DEF a, b, y, z

\* The rows the memory chips need never exceed the metered estimate, for trees
\* and pages of any size and any touched leaves: every parent of a touched leaf
\* has a slot of its own in a metered page (apply_height_updates), so a segment
\* kept within the limits by the estimate stays within them.
THEOREM MerkleEstimateCovers == MerkleSpec => []EstimateCovers
<1>1. FinalInv => EstimateCovers
  BY FinalInvEstimate
<1> QED BY <1>1, FinalInvInductive, PTL DEF MerkleSpec

-----------------------------------------------------------------------------
(* The order of the rows: ranks number the parents.                        *)

Nodes(S) == \A n \in S : n = <<n[1], n[2]>> /\ n[1] \in Nat /\ n[2] \in Nat

LEMMA RankFacts ==
    ASSUME NEW S, IsFiniteSet(S), Nodes(S)
    PROVE  /\ \A n \in S : Rank(S, n) \in 0..Cardinality(S) - 1
           /\ \A m, n \in S : Precedes(m, n) => Rank(S, m) < Rank(S, n)
           /\ \A m, n \in S : m = n \/ Precedes(m, n) \/ Precedes(n, m)
<1> DEFINE B(n) == {m \in S : Precedes(m, n)}
<1>1. \A n \in S : B(n) \in SUBSET (S \ {n})
  BY DEF Precedes, Nodes
<1>2. \A n \in S : /\ IsFiniteSet(S \ {n}) /\ Cardinality(S \ {n}) = Cardinality(S) - 1
                   /\ Cardinality(S \ {n}) \in Nat
  BY FS_RemoveElement, FS_CardinalityType
<1>3. ASSUME NEW n \in S
      PROVE  IsFiniteSet(B(n)) /\ Rank(S, n) = Cardinality(B(n)) /\ Rank(S, n) \in 0..Cardinality(S) - 1
  <2>1. IsFiniteSet(B(n)) /\ Cardinality(B(n)) <= Cardinality(S \ {n})
    BY <1>1, <1>2, FS_Subset
  <2>2. Cardinality(B(n)) \in Nat /\ Cardinality(S) \in Nat
    BY <2>1, FS_CardinalityType
  <2>3. Rank(S, n) = Cardinality(B(n))
    BY DEF Rank
  <2> QED BY <1>2, <2>1, <2>2, <2>3
<1>4. ASSUME NEW m \in S, NEW n \in S, Precedes(m, n) PROVE Rank(S, m) < Rank(S, n)
  <2>1. B(m) \subseteq B(n)
    <3> SUFFICES ASSUME NEW x \in S, Precedes(x, m) PROVE Precedes(x, n)
      OBVIOUS
    <3> QED BY <1>4 DEF Precedes, Nodes
  <2>2. m \in B(n) /\ m \notin B(m)
    BY <1>1, <1>4
  <2> HIDE DEF B
  <2>3. Cardinality(B(m)) <= Cardinality(B(n)) /\ Cardinality(B(m)) # Cardinality(B(n))
    BY <1>3, <2>1, <2>2, FS_Subset
  <2> QED BY <1>3, <2>3
<1>5. \A m, n \in S : m = n \/ Precedes(m, n) \/ Precedes(n, m)
  BY DEF Precedes, Nodes
<1> QED BY <1>3, <1>4, <1>5

\* InOrder lists every node once, at its rank.
LEMMA InOrderFacts ==
    ASSUME NEW S, IsFiniteSet(S), Nodes(S)
    PROVE  /\ \A r \in 0..Cardinality(S) - 1 : InOrder(S)[r] \in S /\ Rank(S, InOrder(S)[r]) = r
           /\ \A n \in S : InOrder(S)[Rank(S, n)] = n
<1> DEFINE T == 0..Cardinality(S) - 1
           f == [n \in S |-> Rank(S, n)]
<1>1. /\ \A n \in S : Rank(S, n) \in T
      /\ \A m, n \in S : Precedes(m, n) => Rank(S, m) < Rank(S, n)
      /\ \A m, n \in S : m = n \/ Precedes(m, n) \/ Precedes(n, m)
  BY RankFacts
<1>2. \A m, n \in S : Rank(S, m) = Rank(S, n) => m = n
  BY <1>1
<1>3. f \in Injection(S, T)
  <2>1. f \in [S -> T]
    BY <1>1
  <2> QED BY <1>2, <2>1 DEF Injection, IsInjective
<1>4. IsFiniteSet(T) /\ Cardinality(T) = Cardinality(S)
  <2>1. Cardinality(S) \in Nat
    BY FS_CardinalityType
  <2> QED BY <2>1, FS_Interval
<1>5. f \in Surjection(S, T)
  <2> HIDE DEF f, T
  <2> QED BY <1>3, <1>4, FS_Injection
<1>6. \A r \in T : \E n \in S : Rank(S, n) = r
  BY <1>5 DEF Surjection
<1>7. \A r \in T : InOrder(S)[r] = CHOOSE n \in S : Rank(S, n) = r
  BY DEF InOrder
<1> HIDE DEF T
<1>8. \A r \in T : InOrder(S)[r] \in S /\ Rank(S, InOrder(S)[r]) = r
  BY <1>6, <1>7
<1>9. \A n \in S : InOrder(S)[Rank(S, n)] = n
  BY <1>1, <1>2, <1>8
<1> QED BY <1>8, <1>9 DEF T

LEMMA RowNodesAre ==
    ASSUME NEW L, Layered(L)
    PROVE  /\ Nodes(RowNodes(L))
           /\ \A n \in RowNodes(L) : n[1] \in 1..Height /\ n[2] \in DOMAIN L[n[1]] /\ n[2] \in Level(n[1])
           /\ \A h \in 1..Height : \A i \in DOMAIN L[h] : <<h, i>> \in RowNodes(L)
           /\ \A h \in 1..Height : \E n \in RowNodes(L) : n[1] = h
<1>1. \A n \in RowNodes(L) : n[1] \in 1..Height /\ n[2] \in DOMAIN L[n[1]] /\ n = <<n[1], n[2]>>
  BY DEF RowNodes
<1>2. \A h \in 1..Height : \A i \in DOMAIN L[h] : <<h, i>> \in RowNodes(L)
  BY DEF RowNodes
<1>3. \A h \in 1..Height : /\ h \in 0..Height /\ h \in Nat
                           /\ DOMAIN L[h] \subseteq Level(h) /\ DOMAIN L[h] # {}
  BY Heights, LayerAncestors
<1>4. \A n \in RowNodes(L) : n[2] \in Level(n[1]) /\ n[1] \in Nat
  BY <1>1, <1>3
<1>5. \A n \in RowNodes(L) : n[2] \in Nat
  BY <1>1, <1>3, <1>4, LevelFacts
<1>6. \A h \in 1..Height : \E n \in RowNodes(L) : n[1] = h
  <2> SUFFICES ASSUME NEW h \in 1..Height PROVE \E n \in RowNodes(L) : n[1] = h
    OBVIOUS
  <2>1. PICK i \in DOMAIN L[h] : TRUE
    BY <1>3
  <2>2. <<h, i>> \in RowNodes(L) /\ <<h, i>>[1] = h
    BY <1>2
  <2> QED BY <2>2
<1> QED BY <1>1, <1>2, <1>4, <1>5, <1>6 DEF Nodes

\* The rows climb layer by layer, from the leaves' parents to the root.
Climbs(S, order) ==
    LET C == Cardinality(S) IN
    /\ C \in Nat /\ C >= 2
    /\ order[C - 1] = <<Height, 1>>
    /\ order[0][1] = 1
    /\ \A r \in 0..C - 1 : order[r] \in S /\ (order[r][1] = Height <=> r = C - 1)
    /\ \A r \in 0..C - 2 : /\ order[r][1] <= order[r + 1][1]
                           /\ order[r + 1][1] <= order[r][1] + 1
    /\ \A n \in S : \E r \in 0..C - 1 : order[r] = n
    /\ \A q, r \in 0..C - 1 : order[q] = order[r] => q = r

LEMMA RowsClimb ==
    ASSUME NEW L, Layered(L), IsFiniteSet(RowNodes(L))
    PROVE  Climbs(RowNodes(L), InOrder(RowNodes(L)))
<1> DEFINE S == RowNodes(L)
           C == Cardinality(S)
           order == InOrder(S)
           root == <<Height, 1>>
<1>1. /\ Nodes(S)
      /\ \A n \in S : n[1] \in 1..Height /\ n[2] \in DOMAIN L[n[1]]
      /\ \A h \in 1..Height : \E n \in S : n[1] = h
  BY RowNodesAre
<1>2. Height \in 1..Height /\ Height >= 2 /\ Height \in Nat
  BY MerkleAssumption DEF Height
<1>3. DOMAIN L[Height] = {1} /\ root \in S
  BY RootHasRows
<1> HIDE DEF S
<1>4. IsFiniteSet(S) /\ C \in Nat
  BY FS_CardinalityType DEF S
<1>5. /\ \A n \in S : Rank(S, n) \in 0..C - 1
      /\ \A m, n \in S : Precedes(m, n) => Rank(S, m) < Rank(S, n)
      /\ \A m, n \in S : m = n \/ Precedes(m, n) \/ Precedes(n, m)
  BY <1>1, <1>4, RankFacts
<1>6. /\ \A r \in 0..C - 1 : order[r] \in S /\ Rank(S, order[r]) = r
      /\ \A n \in S : order[Rank(S, n)] = n
  BY <1>1, <1>4, InOrderFacts
<1> HIDE DEF order, C
<1>7. \A n \in S : n[1] \in Nat /\ n[2] \in Nat /\ n = <<n[1], n[2]>>
  BY <1>1 DEF Nodes
<1>8. root[1] = Height /\ root[2] = 1
  OBVIOUS
<1>9. \A n \in S : n[1] = Height => n = root
  BY <1>1, <1>3, <1>7, <1>8
<1>10. \A n \in S : n # root => Precedes(n, root)
  BY <1>1, <1>2, <1>8, <1>9 DEF Precedes
<1> HIDE DEF root
<1>11. C >= 2
  <2>1. PICK n \in S : n[1] = 1
    BY <1>1, <1>2
  <2>2. n # root
    BY <1>2, <1>8, <2>1
  <2>3. Rank(S, n) < Rank(S, root) /\ Rank(S, n) \in 0..C - 1 /\ Rank(S, root) \in 0..C - 1
    BY <1>3, <1>5, <1>10, <2>2
  <2> QED BY <1>4, <2>3
<1>12. Rank(S, root) = C - 1
  <2>1. C - 1 \in 0..C - 1
    BY <1>4, <1>11
  <2>2. order[C - 1] \in S /\ Rank(S, order[C - 1]) = C - 1
    BY <1>6, <2>1
  <2>3. order[C - 1] # root => C - 1 < Rank(S, root)
    BY <1>3, <1>5, <1>10, <2>2
  <2>4. Rank(S, root) \in 0..C - 1
    BY <1>3, <1>5
  <2> QED BY <1>4, <2>2, <2>3, <2>4
<1>13. order[C - 1] = root
  BY <1>3, <1>6, <1>12
<1>14. \A r \in 0..C - 1 : order[r][1] = Height <=> r = C - 1
  BY <1>6, <1>8, <1>9, <1>12, <1>13
<1>15. order[0][1] = 1
  <2>1. PICK n \in S : n[1] = 1
    BY <1>1, <1>2
  <2>2. 0 \in 0..C - 1
    BY <1>4, <1>11
  <2>3. order[0] \in S /\ Rank(S, order[0]) = 0
    BY <1>6, <2>2
  <2>4. order[0][1] \in 1..Height
    BY <1>1, <2>3
  <2>5. order[0][1] # 1 => Precedes(n, order[0])
    BY <2>1, <2>4, <1>2 DEF Precedes
  <2>6. Precedes(n, order[0]) => Rank(S, n) < 0
    BY <1>5, <2>1, <2>3
  <2>7. Rank(S, n) \in 0..C - 1
    BY <1>5
  <2> QED BY <2>5, <2>6, <2>7
<1>16. ASSUME NEW r \in 0..C - 2
       PROVE  order[r][1] <= order[r + 1][1] /\ order[r + 1][1] <= order[r][1] + 1
  <2> DEFINE a == order[r]
             b == order[r + 1]
  <2>1. r \in 0..C - 1 /\ r + 1 \in 0..C - 1
    BY <1>4
  <2>2. a \in S /\ b \in S /\ Rank(S, a) = r /\ Rank(S, b) = r + 1
    BY <1>6, <2>1
  <2> HIDE DEF a, b
  <2>3. Precedes(a, b)
    <3>1. a # b
      BY <2>1, <2>2
    <3>2. ~Precedes(b, a)
      BY <1>5, <2>1, <2>2
    <3> QED BY <1>5, <2>2, <3>1, <3>2
  <2>4. a[1] \in 1..Height /\ b[1] \in 1..Height
    BY <1>1, <2>2
  <2>5. a[1] <= b[1]
    BY <2>3, <2>4, <1>2 DEF Precedes
  <2>6. ASSUME b[1] > a[1] + 1 PROVE FALSE
    <3>1. a[1] + 1 \in 1..Height
      BY <1>2, <2>4, <2>6
    <3>2. PICK c \in S : c[1] = a[1] + 1
      BY <1>1, <3>1
    <3>3. Precedes(a, c) /\ Precedes(c, b)
      BY <1>2, <2>4, <2>6, <3>2 DEF Precedes
    <3>4. r < Rank(S, c) /\ Rank(S, c) < r + 1 /\ Rank(S, c) \in 0..C - 1
      BY <1>5, <2>2, <3>2, <3>3
    <3> QED BY <2>1, <3>4
  <2>7. b[1] <= a[1] + 1
    BY <1>2, <2>4, <2>6
  <2> QED BY <2>5, <2>7 DEF a, b
<1>17. \A n \in S : \E r \in 0..C - 1 : order[r] = n
  BY <1>5, <1>6
<1>18. \A q, r \in 0..C - 1 : order[q] = order[r] => q = r
  BY <1>6
<1> QED BY <1>4, <1>6, <1>11, <1>13, <1>14, <1>15, <1>16, <1>17, <1>18 DEF Climbs, S, C, order, root

\* Row k of the trace belongs to the parent of this rank, ...
RankAt(C, k) == (C - 1) - ((k - 1) \div 2)

\* ... in the final tree or in the initial one.
IsFinal(k) == k = 2 \/ (k > 2 /\ k % 2 = 1)
DirectionAt(k) == IF IsFinal(k) THEN -1 ELSE 1

LEMMA OriginFacts ==
    ASSUME NEW C \in Nat, NEW k \in 1..2 * C
    PROVE  /\ RankAt(C, k) \in 0..C - 1
           /\ Origin(2 * C, k) \in 1..2 * C
           /\ (Origin(2 * C, k) - 1) \div 2 = RankAt(C, k)
           /\ 1 + ((Origin(2 * C, k) - 1) % 2) = (IF IsFinal(k) THEN 2 ELSE 1)
<1>1. CASE k = 1
  BY <1>1 DEF RankAt, Origin, IsFinal
<1>2. CASE k = 2
  BY <1>2 DEF RankAt, Origin, IsFinal
<1>3. CASE k > 2
  <2>1. Origin(2 * C, k) = (2 * C - k) + 1
    BY <1>3 DEF Origin
  <2>2. PICK a \in Nat : k = 2 * a + 1 \/ k = 2 * a + 2
    <3>1. k = 2 * ((k - 1) \div 2) + 1 \/ k = 2 * ((k - 1) \div 2) + 2
      OBVIOUS
    <3> QED BY <3>1
  <2>3. CASE k = 2 * a + 1
    BY <1>3, <2>1, <2>3 DEF RankAt, IsFinal
  <2>4. CASE k = 2 * a + 2
    BY <1>3, <2>1, <2>4 DEF RankAt, IsFinal
  <2> QED BY <2>2, <2>3, <2>4
<1> QED BY <1>1, <1>2, <1>3

\* Every parent has one row in each direction; ranks fall along the trace.
LEMMA TracePositions ==
    ASSUME NEW C \in Nat, C >= 2
    PROVE  /\ \A r \in 0..C - 1, d \in {1, -1} :
                \E k \in 1..2 * C : RankAt(C, k) = r /\ DirectionAt(k) = d
           /\ \A k, m \in 1..2 * C :
                RankAt(C, k) = RankAt(C, m) /\ DirectionAt(k) = DirectionAt(m) => k = m
           /\ \A k \in 1..2 * C - 1 : RankAt(C, k + 1) \in {RankAt(C, k), RankAt(C, k) - 1}
           /\ \A k \in 1..2 * C : RankAt(C, k) = C - 1 <=> k \in {1, 2}
           /\ RankAt(C, 2 * C) = 0
<1>1. ASSUME NEW r \in 0..C - 1, NEW d \in {1, -1}
      PROVE  \E k \in 1..2 * C : RankAt(C, k) = r /\ DirectionAt(k) = d
  <2> DEFINE a == (C - 1) - r
             odd == 2 * a + 1
             even == 2 * a + 2
  <2>1. odd \in 1..2 * C /\ even \in 1..2 * C /\ a \in Nat
    OBVIOUS
  <2>2. (odd - 1) \div 2 = a /\ (even - 1) \div 2 = a /\ odd % 2 = 1 /\ even % 2 = 0
    BY <2>1
  <2>3. RankAt(C, odd) = r /\ RankAt(C, even) = r
    BY <2>2 DEF RankAt
  <2>4. CASE a = 0
    <3>1. DirectionAt(odd) = 1 /\ DirectionAt(even) = -1
      BY <2>4 DEF DirectionAt, IsFinal
    <3> QED BY <2>1, <2>3, <3>1
  <2>5. CASE a # 0
    <3>1. odd > 2 /\ even > 2 /\ even # 2 /\ odd # 2
      BY <2>1, <2>5
    <3>2. DirectionAt(odd) = -1 /\ DirectionAt(even) = 1
      BY <2>2, <3>1 DEF DirectionAt, IsFinal
    <3> QED BY <2>1, <2>3, <3>2
  <2> QED BY <2>4, <2>5
<1>2. ASSUME NEW k \in 1..2 * C, NEW m \in 1..2 * C,
             RankAt(C, k) = RankAt(C, m), DirectionAt(k) = DirectionAt(m)
      PROVE  k = m
  <2>1. (k - 1) \div 2 = (m - 1) \div 2
    BY <1>2 DEF RankAt
  <2>2. IsFinal(k) <=> IsFinal(m)
    BY <1>2 DEF DirectionAt
  <2> QED BY <2>1, <2>2 DEF IsFinal
<1>3. \A k \in 1..2 * C - 1 : RankAt(C, k + 1) \in {RankAt(C, k), RankAt(C, k) - 1}
  <2> SUFFICES ASSUME NEW k \in 1..2 * C - 1
               PROVE  RankAt(C, k + 1) \in {RankAt(C, k), RankAt(C, k) - 1}
    OBVIOUS
  <2>1. k \div 2 = (k - 1) \div 2 \/ k \div 2 = ((k - 1) \div 2) + 1
    OBVIOUS
  <2>2. (k + 1) - 1 = k
    OBVIOUS
  <2> QED BY <2>1, <2>2 DEF RankAt
<1>4. \A k \in 1..2 * C : RankAt(C, k) = C - 1 <=> k \in {1, 2}
  BY DEF RankAt
<1>5. RankAt(C, 2 * C) = 0
  BY DEF RankAt
<1> QED BY <1>1, <1>2, <1>3, <1>4, <1>5

-----------------------------------------------------------------------------
(* What stands in the rows.                                                *)

Section(h) == 2^(IF address_height > h THEN address_height - h ELSE 0)
AsLabel(h, i) == (i - 2^(Height - h)) \div Section(h)
AddressLabel(h, i) == i % Section(h)

RowCommon(h, i) ==
    [height_section |-> IF h > address_height THEN 1 ELSE 0,
     parent_height |-> h,
     is_root |-> IF h = Height THEN 1 ELSE 0,
     parent_as_label |-> AsLabel(h, i),
     parent_address_label |-> AddressLabel(h, i)]

RowRecord(common, d, parent, left, right, ldiff, rdiff) ==
    [common |-> common, expand_direction |-> d, parent_hash |-> parent,
     left_child_hash |-> left, right_child_hash |-> right,
     left_direction_different |-> ldiff, right_direction_different |-> rdiff]

\* The row of parent i at height h in the tree of a memory.
ParentRow(mem, d, left, right, h, i) ==
    RowRecord(RowCommon(h, i), d, NodeOf(mem, h, i), NodeOf(mem, h - 1, 2 * i),
              NodeOf(mem, h - 1, 2 * i + 1), left, right)

Different(layer, j) == IF j \in DOMAIN layer THEN 0 ELSE 1

LEMMA UpdateCovers ==
    ASSUME NEW nodes, NEW m0, NEW m1, NEW ls \in SUBSET Labels,
           Represents(nodes, m0), \A l \in Labels \ ls : m1[l] = m0[l]
    PROVE  Covers(UpdateLeaves(nodes, m1, ls), m0, m1)
<1>1. CASE ls # {}
  BY <1>1, LeavesCover DEF UpdateLeaves
<1>2. CASE ls = {}
  <2> DEFINE artificial == [i \in {2^Height} |-> GetNode(nodes, i)]
  <2>1. 2^Height \in Level(0)
    <3>1. Height - 0 = Height /\ 2^Height \in Nat /\ 2^Height > 0
      BY Heights, TwoTo, TwoToPositive
    <3> QED BY <3>1 DEF Level
  <2>2. \A i \in Level(0) : m1[LabelAt(i)] = m0[LabelAt(i)]
    BY <1>2, LabelAtLeaf
  <2>3. \A i \in Level(0) : GetNode(nodes, i) = Hash(m0[LabelAt(i)])
    <3>1. 0 \in 0..Height
      BY Heights
    <3> QED BY <3>1, NodeOfStep DEF Represents
  <2>4. Covers(artificial, m0, m1)
    BY <2>1, <2>2, <2>3 DEF Covers
  <2> QED BY <1>2, <2>4 DEF UpdateLeaves
<1> QED BY <1>1, <1>2

LEMMA RowPairIs ==
    ASSUME NEW nodes, NEW leaves, NEW m0, NEW m1,
           Represents(nodes, m0), Covers(leaves, m0, m1),
           NEW h \in 1..Height, NEW i \in Level(h), i \in DOMAIN Layers(nodes, leaves)[h]
    PROVE  LET below == Layers(nodes, leaves)[h - 1]
           IN RowPair(nodes, Layers(nodes, leaves), h, i) =
                <<ParentRow(m0, 1, 0, 0, h, i),
                  ParentRow(m1, -1, Different(below, 2 * i), Different(below, 2 * i + 1), h, i)>>
<1> DEFINE L == Layers(nodes, leaves)
           l == Different(L[h - 1], 2 * i)
           r == Different(L[h - 1], 2 * i + 1)
<1>1. /\ h \in 0..Height /\ h > 0 /\ h - 1 \in 0..Height
      /\ 2 * i \in Level(h - 1) /\ 2 * i + 1 \in Level(h - 1)
  <2>1. h \in 0..Height /\ h > 0 /\ h - 1 \in 0..Height
    BY Heights
  <2> QED BY <2>1, NodeOfStep
<1>2. /\ GetNode(nodes, i) = NodeOf(m0, h, i)
      /\ GetNode(nodes, 2 * i) = NodeOf(m0, h - 1, 2 * i)
      /\ GetNode(nodes, 2 * i + 1) = NodeOf(m0, h - 1, 2 * i + 1)
  BY <1>1 DEF Represents
<1>3. \A g \in 0..Height : \A j \in Level(g) : NewNode(nodes, L[g], j) = NodeOf(m1, g, j)
  BY LayerOfUpdate
<1> HIDE DEF L
<1>4. NewNode(nodes, L[h], i) = L[h][i]
  BY DEF NewNode, L
<1>5. /\ L[h][i] = NodeOf(m1, h, i)
      /\ NewNode(nodes, L[h - 1], 2 * i) = NodeOf(m1, h - 1, 2 * i)
      /\ NewNode(nodes, L[h - 1], 2 * i + 1) = NodeOf(m1, h - 1, 2 * i + 1)
  BY <1>1, <1>3, <1>4
<1>6. RowPair(nodes, L, h, i) =
        <<[common |-> RowCommon(h, i), expand_direction |-> 1, parent_hash |-> GetNode(nodes, i),
           left_child_hash |-> GetNode(nodes, 2 * i), right_child_hash |-> GetNode(nodes, 2 * i + 1),
           left_direction_different |-> 0, right_direction_different |-> 0],
          [common |-> RowCommon(h, i), expand_direction |-> -1, parent_hash |-> L[h][i],
           left_child_hash |-> NewNode(nodes, L[h - 1], 2 * i),
           right_child_hash |-> NewNode(nodes, L[h - 1], 2 * i + 1),
           left_direction_different |-> l, right_direction_different |-> r]>>
  BY Zenon DEF RowPair, RowCommon, AsLabel, AddressLabel, Section, Different, ChangedBelow
<1> HIDE DEF l, r
<1>7. RowPair(nodes, L, h, i) = <<ParentRow(m0, 1, 0, 0, h, i), ParentRow(m1, -1, l, r, h, i)>>
  BY <1>2, <1>5, <1>6, Zenon DEF ParentRow, RowRecord
<1> QED BY <1>7 DEF l, r, L

\* The node changed: it has a row of its own, or is a touched leaf.
ChangedAt(L, ls, g, j) == IF g = 0 THEN \E l \in ls : LeafIndex(l) = j ELSE j \in DOMAIN L[g]
Mark(L, ls, d, g, j) == IF d = 1 \/ ChangedAt(L, ls, g, j) THEN 0 ELSE 1
MemoryOf(m0, m1, d) == IF d = 1 THEN m0 ELSE m1

SegmentRow(m0, m1, L, ls, d, h, i) ==
    ParentRow(MemoryOf(m0, m1, d), d, Mark(L, ls, d, h - 1, 2 * i), Mark(L, ls, d, h - 1, 2 * i + 1), h, i)

\* The one parent of leaf 0 that stands in when nothing was touched.
LEMMA ArtificialParent ==
    ASSUME NEW L, Layered(L), DOMAIN L[0] = {2^Height},
           NEW m \in RowNodes(L), NEW n \in RowNodes(L), m[1] = 1, n[1] = 1
    PROVE  m = n
<1>1. 1 \in 1..Height /\ 1 - 1 = 0
  BY MerkleAssumption DEF Height
<1>2. DOMAIN L[1] = {2^Height \div 2}
  BY <1>1 DEF Layered, Parents
<1>3. /\ m = <<m[1], m[2]>> /\ n = <<n[1], n[2]>>
      /\ m[2] \in DOMAIN L[1] /\ n[2] \in DOMAIN L[1]
  BY RowNodesAre DEF Nodes
<1> QED BY <1>2, <1>3

Marked(row) == [row EXCEPT !.left_direction_different = 1, !.right_direction_different = 1]

LEMMA MarkedRow ==
    ASSUME NEW a, NEW b, NEW c, NEW e, NEW f, NEW l, NEW r
    PROVE  Marked(RowRecord(a, b, c, e, f, l, r)) = RowRecord(a, b, c, e, f, 1, 1)
<1> DEFINE F == {"common", "expand_direction", "parent_hash", "left_child_hash", "right_child_hash",
                 "left_direction_different", "right_direction_different"}
           R == [common |-> a, expand_direction |-> b, parent_hash |-> c, left_child_hash |-> e,
                 right_child_hash |-> f, left_direction_different |-> l, right_direction_different |-> r]
           T == [common |-> a, expand_direction |-> b, parent_hash |-> c, left_child_hash |-> e,
                 right_child_hash |-> f, left_direction_different |-> 1, right_direction_different |-> 1]
           E == [R EXCEPT !.left_direction_different = 1, !.right_direction_different = 1]
<1>1. R = [k \in F |-> R[k]] /\ T = [k \in F |-> T[k]]
  OBVIOUS
<1>2. /\ R.common = a /\ R.expand_direction = b /\ R.parent_hash = c
      /\ R.left_child_hash = e /\ R.right_child_hash = f
      /\ T.common = a /\ T.expand_direction = b /\ T.parent_hash = c
      /\ T.left_child_hash = e /\ T.right_child_hash = f
      /\ T.left_direction_different = 1 /\ T.right_direction_different = 1
  OBVIOUS
<1>3. \A k \in F : (IF k = "right_direction_different" THEN 1
                    ELSE IF k = "left_direction_different" THEN 1 ELSE R[k]) = T[k]
  <2> HIDE DEF R, T
  <2> QED BY <1>2
<1>4. E = [k \in F |-> IF k = "right_direction_different" THEN 1
                       ELSE IF k = "left_direction_different" THEN 1 ELSE R[k]]
  <2> HIDE DEF R
  <2> QED BY <1>1
<1> HIDE DEF R, T, E, F
<1>5. E = T
  BY <1>1, <1>3, <1>4
<1> QED BY <1>5 DEF E, R, T, F, RowRecord, Marked

LEMMA SegmentRowsAre ==
    ASSUME NEW nodes, NEW m0, NEW m1, NEW ls \in SUBSET Labels,
           Represents(nodes, m0), \A l \in Labels \ ls : m1[l] = m0[l],
           IsFiniteSet(RowNodes(UpdateLayers(nodes, m1, ls))),
           NEW p \in 1..2 * Cardinality(RowNodes(UpdateLayers(nodes, m1, ls)))
    PROVE  LET L == UpdateLayers(nodes, m1, ls)
               n == InOrder(RowNodes(L))[(p - 1) \div 2]
               d == IF (p - 1) % 2 = 0 THEN 1 ELSE -1
           IN SegmentRows(nodes, m1, ls)[p] = SegmentRow(m0, m1, L, ls, d, n[1], n[2])
<1> DEFINE leaves == UpdateLeaves(nodes, m1, ls)
           L == UpdateLayers(nodes, m1, ls)
           S == RowNodes(L)
           C == Cardinality(S)
           order == InOrder(S)
           q == (p - 1) \div 2
           n == order[q]
           h == n[1]
           i == n[2]
           d == IF (p - 1) % 2 = 0 THEN 1 ELSE -1
           R == Rows(nodes, L)
           l == Different(L[h - 1], 2 * i)
           r == Different(L[h - 1], 2 * i + 1)
<1>1. Layered(L) /\ L = Layers(nodes, leaves)
  BY UpdateIsLayered DEF UpdateLayers
<1>2. Covers(leaves, m0, m1)
  BY UpdateCovers
<1>3. Climbs(S, order)
  BY <1>1, RowsClimb
<1>4. /\ ls # {} => DOMAIN L[0] = {LeafIndex(k) : k \in ls}
      /\ ls = {} => DOMAIN L[0] = {2^Height}
  BY UpdateIsLayered
<1>5. R = [k \in 1..2 * C |-> RowPair(nodes, L, order[(k - 1) \div 2][1], order[(k - 1) \div 2][2])[1 + ((k - 1) % 2)]]
  BY DEF Rows
<1>6. p \in 1..2 * C
  OBVIOUS
<1>s. SegmentRows(nodes, m1, ls) = IF ls # {} THEN R ELSE MarkArtificial(R)
  BY DEF SegmentRows
<1> HIDE DEF L, leaves
<1>7. C \in Nat /\ C >= 2 /\ q \in 0..C - 1
  <2>1. C \in Nat /\ C >= 2
    BY <1>3 DEF Climbs
  <2> HIDE DEF C
  <2> QED BY <1>6, <2>1
<1>8. n \in S
  BY <1>3, <1>7 DEF Climbs
<1>9. h \in 1..Height /\ i \in DOMAIN L[h] /\ i \in Level(h) /\ i \in Nat /\ h \in Nat
  BY <1>1, <1>8, RowNodesAre DEF Nodes
<1>10. RowPair(nodes, L, h, i) = <<ParentRow(m0, 1, 0, 0, h, i), ParentRow(m1, -1, l, r, h, i)>>
  <2> HIDE DEF n, h, i
  <2> QED BY <1>1, <1>2, <1>9, RowPairIs
<1>11. (p - 1) % 2 \in {0, 1}
  BY <1>6, <1>7
<1>12. R[p] = RowPair(nodes, L, h, i)[1 + ((p - 1) % 2)]
  BY <1>5, <1>6, Zenon DEF n, h, i, q
<1> HIDE DEF n, h, i, R, order, C, S
<1>13. R[p] = IF d = 1 THEN ParentRow(m0, 1, 0, 0, h, i) ELSE ParentRow(m1, -1, l, r, h, i)
  <2>1. CASE (p - 1) % 2 = 0
    <3>1. 1 + ((p - 1) % 2) = 1 /\ d = 1
      BY <2>1
    <3> QED BY <1>10, <1>12, <3>1
  <2>2. CASE (p - 1) % 2 = 1
    <3>1. 1 + ((p - 1) % 2) = 2 /\ d = -1 /\ d # 1
      BY <2>2
    <3> QED BY <1>10, <1>12, <3>1
  <2> QED BY <1>11, <2>1, <2>2
<1>14. d \in {1, -1} /\ 1 # -1
  OBVIOUS
<1>15. d = 1 => SegmentRow(m0, m1, L, ls, d, h, i) = ParentRow(m0, 1, 0, 0, h, i)
  BY DEF SegmentRow, Mark, MemoryOf
<1>16. d = -1 => SegmentRow(m0, m1, L, ls, d, h, i)
                   = ParentRow(m1, -1, IF ChangedAt(L, ls, h - 1, 2 * i) THEN 0 ELSE 1,
                               IF ChangedAt(L, ls, h - 1, 2 * i + 1) THEN 0 ELSE 1, h, i)
  BY <1>14 DEF SegmentRow, Mark, MemoryOf
<1>17. h # 1 \/ ls # {} => \A j : ChangedAt(L, ls, h - 1, j) <=> j \in DOMAIN L[h - 1]
  <2>1. CASE h = 1
    <3>1. h - 1 = 0
      BY <2>1
    <3> QED BY <1>4, <2>1, <3>1 DEF ChangedAt
  <2>2. CASE h # 1
    <3>1. h - 1 # 0
      BY <1>9, <2>2
    <3> QED BY <3>1 DEF ChangedAt
  <2> QED BY <2>1, <2>2
<1>18. h # 1 \/ ls # {} => R[p] = SegmentRow(m0, m1, L, ls, d, h, i)
  <2> HIDE DEF d
  <2> QED BY <1>13, <1>14, <1>15, <1>16, <1>17 DEF Different
<1>19. CASE ls # {}
  BY <1>18, <1>19, <1>s DEF n, h, i, order, S, L, d
<1>20. CASE ls = {}
  <2>1. SegmentRows(nodes, m1, ls) = MarkArtificial(R)
    BY <1>20, <1>s
  <2>2. DOMAIN R = 1..2 * C /\ 2 \in 1..2 * C
    BY <1>5, <1>7
  <2>3. CASE p # 2
    <3>1. MarkArtificial(R)[p] = R[p]
      BY <1>6, <2>2, <2>3 DEF MarkArtificial, C, S
    <3>2. d = -1 => h # 1
      <4> SUFFICES ASSUME d = -1, h = 1 PROVE FALSE
        OBVIOUS
      <4>1. 0 \in 0..C - 1 /\ order[0] \in S /\ order[0][1] = 1
        BY <1>3, <1>7 DEF Climbs, S, C
      <4>2. order[0] = n
        BY <1>1, <1>4, <1>8, <1>20, <4>1, ArtificialParent DEF S, h
      <4>3. q = 0
        BY <1>3, <1>7, <4>1, <4>2 DEF Climbs, n, C
      <4>4. p = 1 \/ p = 2
        BY <1>6, <1>7, <4>3 DEF C, S
      <4>5. p = 1 => d = 1
        OBVIOUS
      <4> QED BY <1>14, <2>3, <4>4, <4>5
    <3>3. R[p] = SegmentRow(m0, m1, L, ls, d, h, i)
      <4> HIDE DEF d
      <4> QED BY <1>13, <1>14, <1>15, <1>18, <3>2
    <3> QED BY <2>1, <3>1, <3>3 DEF n, h, i, order, S, L, d
  <2>4. CASE p = 2
    <3>1. q = 0 /\ d = -1
      BY <2>4
    <3>2. h = 1 /\ h - 1 = 0
      <4>1. h = 1
        BY <1>3, <3>1 DEF Climbs, h, n
      <4> QED BY <4>1
    <3>3. \A j : ~ChangedAt(L, ls, h - 1, j)
      BY <1>20, <3>2 DEF ChangedAt
    <3>4. SegmentRow(m0, m1, L, ls, d, h, i) = ParentRow(m1, -1, 1, 1, h, i)
      <4> HIDE DEF d
      <4> QED BY <1>16, <3>1, <3>3
    <3>5. R[2] = ParentRow(m1, -1, l, r, h, i)
      <4> HIDE DEF d
      <4> QED BY <1>13, <1>14, <2>4, <3>1
    <3>6. MarkArtificial(R)[2] = Marked(R[2])
      BY <2>2 DEF MarkArtificial, Marked
    <3>7. Marked(ParentRow(m1, -1, l, r, h, i)) = ParentRow(m1, -1, 1, 1, h, i)
      <4> HIDE DEF l, r
      <4> QED BY MarkedRow DEF ParentRow
    <3>8. MarkArtificial(R)[2] = SegmentRow(m0, m1, L, ls, d, h, i)
      <4> HIDE DEF l, r, d
      <4> QED BY <3>4, <3>5, <3>6, <3>7, Zenon
    <3>9. MarkArtificial(R)[p] = SegmentRow(m0, m1, L, ls, d, h, i)
      <4> HIDE DEF d
      <4> QED BY <2>4, <3>8
    <3> QED BY <2>1, <3>9 DEF n, h, i, order, S, L, d
  <2> QED BY <2>3, <2>4
<1> QED BY <1>19, <1>20

\* The trace of a segment: which row stands where.
IsTrace(rows, m0, m1, L, ls) ==
    LET S == RowNodes(L)
        C == Cardinality(S)
        order == InOrder(S)
    IN /\ Climbs(S, order)
       /\ rows = [k \in 1..2 * C |-> rows[k]]
       /\ \A k \in 1..2 * C :
            rows[k] = SegmentRow(m0, m1, L, ls, DirectionAt(k),
                                 order[RankAt(C, k)][1], order[RankAt(C, k)][2])

LEMMA FinalizeIsTrace ==
    ASSUME NEW nodes, NEW m0, NEW m1, NEW ls \in SUBSET Labels,
           Represents(nodes, m0), \A l \in Labels \ ls : m1[l] = m0[l]
    PROVE  IsTrace(FinalizeTree(nodes, m1, ls).rows, m0, m1, UpdateLayers(nodes, m1, ls), ls)
<1> DEFINE L == UpdateLayers(nodes, m1, ls)
           S == RowNodes(L)
           C == Cardinality(S)
           order == InOrder(S)
           rows == FinalizeTree(nodes, m1, ls).rows
           s == SegmentRows(nodes, m1, ls)
<1>1. Layered(L) /\ IsFiniteSet(S) /\ C \in Nat
  BY UpdateIsLayered, UpdateRowsBound
<1>2. Climbs(S, order)
  BY <1>1, RowsClimb
<1>3. rows = [k \in 1..2 * C |-> s[Origin(2 * C, k)]]
  BY <1>1, FinalizeRowsAre
<1>4. \A p \in 1..2 * C :
         s[p] = SegmentRow(m0, m1, L, ls, IF (p - 1) % 2 = 0 THEN 1 ELSE -1,
                           order[(p - 1) \div 2][1], order[(p - 1) \div 2][2])
  BY <1>1, SegmentRowsAre
<1> HIDE DEF L, S, C, order, rows, s
<1>5. ASSUME NEW k \in 1..2 * C
      PROVE  rows[k] = SegmentRow(m0, m1, L, ls, DirectionAt(k),
                                  order[RankAt(C, k)][1], order[RankAt(C, k)][2])
  <2> DEFINE p == Origin(2 * C, k)
  <2>1. /\ p \in 1..2 * C /\ (p - 1) \div 2 = RankAt(C, k)
        /\ 1 + ((p - 1) % 2) = (IF IsFinal(k) THEN 2 ELSE 1)
    BY <1>1, OriginFacts
  <2> HIDE DEF p
  <2>2. (p - 1) % 2 \in 0..1
    BY <1>1, <2>1
  <2>3. (IF (p - 1) % 2 = 0 THEN 1 ELSE -1) = DirectionAt(k)
    BY <2>1, <2>2 DEF DirectionAt
  <2>4. rows[k] = s[p]
    BY <1>3 DEF p
  <2>5. s[p] = SegmentRow(m0, m1, L, ls, IF (p - 1) % 2 = 0 THEN 1 ELSE -1,
                          order[(p - 1) \div 2][1], order[(p - 1) \div 2][2])
    BY <1>4, <2>1
  <2> QED BY <2>1, <2>3, <2>4, <2>5
<1>6. rows = [k \in 1..2 * C |-> rows[k]]
  BY <1>3
<1> QED BY <1>2, <1>5, <1>6 DEF IsTrace, L, S, C, order, rows

-----------------------------------------------------------------------------
(* The padded trace satisfies the Merkle AIR.                              *)

Blank ==
    [common |-> [height_section |-> 0, parent_height |-> 0, is_root |-> 0,
                 parent_as_label |-> 0, parent_address_label |-> 0],
     expand_direction |-> 0,
     left_direction_different |-> 0, right_direction_different |-> 0]

LEMMA TwoToExceeds == \A n \in Nat : 2^n > n
<1> DEFINE Bad == {n \in Nat : ~(2^n > n)}
<1> SUFFICES ASSUME Bad # {} PROVE FALSE
  OBVIOUS
<1>1. PICK n \in Bad : n \in Nat /\ \A y \in Bad : n <= y
  BY LeastNumber
<1>2. n # 0
  <2> SUFFICES ASSUME n = 0 PROVE FALSE
    OBVIOUS
  <2>1. 2^n = 1
    BY TwoToZero
  <2> QED BY <2>1
<1>3. n - 1 \in Nat /\ n - 1 \notin Bad /\ (n - 1) + 1 = n
  <2> HIDE DEF Bad
  <2> QED BY <1>1, <1>2
<1>4. 2^(n - 1) > n - 1
  BY <1>3
<1>5. 2^n = 2 * 2^(n - 1) /\ 2^(n - 1) \in Nat
  BY <1>3, TwoTo
<1>6. ~(2^n > n)
  BY <1>1
<1> DEFINE m == n - 1
<1>7. m \in Nat /\ n = m + 1 /\ 2^m > m /\ 2^n = 2 * 2^m /\ 2^m \in Nat
  BY <1>1, <1>3, <1>4, <1>5
<1> HIDE DEF m, Bad
<1> QED BY <1>6, <1>7

LEMMA PaddedIs ==
    ASSUME NEW N \in Nat, N >= 1, NEW rows, rows = [k \in 1..N |-> rows[k]]
    PROVE  \E M \in Nat :
              /\ M >= N /\ Len(Padded(rows)) = M
              /\ \A k \in 1..M : Padded(rows)[k] = IF k <= N THEN rows[k] ELSE Blank
<1>1. Len(rows) = N
  BY FunctionLength
<1> DEFINE Enough == {k \in Nat : 2^k >= N}
           n == CHOOSE k \in 0..N : 2^k >= N /\ (k = 0 \/ 2^(k - 1) < N)
           M == 2^n
           pad == [k \in 1..M - N |-> Blank]
<1>2. \E k \in 0..N : 2^k >= N /\ (k = 0 \/ 2^(k - 1) < N)
  <2>1. N \in Enough
    BY TwoToExceeds, TwoTo
  <2>2. PICK k \in Enough : k \in Nat /\ 2^k >= N /\ \A y \in Enough : k <= y
    BY <2>1, LeastNumber
  <2>3. k \in 0..N
    BY <2>1, <2>2
  <2>4. k # 0 => 2^(k - 1) < N
    <3> SUFFICES ASSUME k # 0 PROVE 2^(k - 1) < N
      OBVIOUS
    <3>1. k - 1 \in Nat /\ ~(k <= k - 1)
      BY <2>2
    <3>2. k - 1 \notin Enough
      <4> HIDE DEF Enough
      <4> QED BY <2>2, <3>1
    <3>3. 2^(k - 1) \in Nat
      BY <3>1, TwoTo
    <3> QED BY <3>1, <3>2, <3>3
  <2> QED BY <2>2, <2>3, <2>4
<1>3. n \in 0..N /\ 2^n >= N
  BY <1>2
<1> HIDE DEF n
<1>4. M \in Nat /\ M >= N
  BY <1>3, TwoTo
<1>5. Padded(rows) = rows \o pad
  BY <1>1 DEF Padded, n, Blank
<1> HIDE DEF M
<1> DEFINE D == {rows[k] : k \in 1..N} \cup {Blank}
<1>6. rows \in Seq(D) /\ pad \in Seq(D) /\ Len(pad) = M - N
  <2>1. rows \in [1..N -> D]
    OBVIOUS
  <2>2. pad \in [1..M - N -> D] /\ M - N \in Nat
    BY <1>4
  <2> HIDE DEF D, pad
  <2> QED BY <2>1, <2>2
<1>7. \A k \in 1..M - N : pad[k] = Blank
  OBVIOUS
<1> HIDE DEF D, pad
<1>8. Len(rows \o pad) = M
  BY <1>1, <1>4, <1>6
<1>9. ASSUME NEW k \in 1..M PROVE (rows \o pad)[k] = IF k <= N THEN rows[k] ELSE Blank
  <2>1. CASE k <= N
    <3>1. k \in 1..Len(rows)
      BY <1>1, <2>1
    <3> QED BY <1>1, <1>6, <2>1, <3>1
  <2>2. CASE ~(k <= N)
    <3>1. k - N \in 1..M - N
      BY <1>4, <2>2
    <3>2. (rows \o pad)[k] = pad[k - N]
      BY <1>1, <1>4, <1>6, <2>2, <3>1
    <3> QED BY <1>7, <2>2, <3>1, <3>2
  <2> QED BY <2>1, <2>2
<1> QED BY <1>4, <1>5, <1>8, <1>9

LEMMA CommonFields ==
    ASSUME NEW h, NEW i
    PROVE  /\ RowCommon(h, i).height_section = (IF h > address_height THEN 1 ELSE 0)
           /\ RowCommon(h, i).parent_height = h
           /\ RowCommon(h, i).is_root = (IF h = Height THEN 1 ELSE 0)
           /\ RowCommon(h, i).parent_as_label = AsLabel(h, i)
           /\ RowCommon(h, i).parent_address_label = AddressLabel(h, i)
  BY DEF RowCommon

LEMMA RecordFields ==
    ASSUME NEW a, NEW b, NEW c, NEW e, NEW f, NEW l, NEW r
    PROVE  /\ RowRecord(a, b, c, e, f, l, r).common = a
           /\ RowRecord(a, b, c, e, f, l, r).expand_direction = b
           /\ RowRecord(a, b, c, e, f, l, r).parent_hash = c
           /\ RowRecord(a, b, c, e, f, l, r).left_child_hash = e
           /\ RowRecord(a, b, c, e, f, l, r).right_child_hash = f
           /\ RowRecord(a, b, c, e, f, l, r).left_direction_different = l
           /\ RowRecord(a, b, c, e, f, l, r).right_direction_different = r
  BY DEF RowRecord

\* The fields of a row.
LEMMA SegmentRowFields ==
    ASSUME NEW m0, NEW m1, NEW L, NEW ls, NEW d, NEW h, NEW i
    PROVE  LET r == SegmentRow(m0, m1, L, ls, d, h, i)
               mem == MemoryOf(m0, m1, d)
           IN /\ r.common = RowCommon(h, i)
              /\ r.expand_direction = d
              /\ r.parent_hash = NodeOf(mem, h, i)
              /\ r.left_child_hash = NodeOf(mem, h - 1, 2 * i)
              /\ r.right_child_hash = NodeOf(mem, h - 1, 2 * i + 1)
              /\ r.left_direction_different = Mark(L, ls, d, h - 1, 2 * i)
              /\ r.right_direction_different = Mark(L, ls, d, h - 1, 2 * i + 1)
  BY RecordFields DEF SegmentRow, ParentRow

LEMMA RootLabels == AsLabel(Height, 1) = 0 /\ AddressLabel(Height, 1) = 0
<1>1. ~(address_height > Height) /\ Height - Height = 0
  BY Heights DEF Height
<1>2. Section(Height) = 1 /\ 2^(Height - Height) = 1
  BY <1>1, TwoToZero DEF Section
<1>3. AsLabel(Height, 1) = (1 - 1) \div 1 /\ AddressLabel(Height, 1) = 1 % 1
  BY <1>2 DEF AsLabel, AddressLabel
<1> QED BY <1>3

LEMMA SegmentRowAccepted ==
    ASSUME NEW m0, NEW m1, NEW L, NEW ls, NEW d \in {1, -1},
           NEW h \in 1..Height, NEW i \in Level(h), h = Height => i = 1
    PROVE  RowConstraints(SegmentRow(m0, m1, L, ls, d, h, i))
<1> DEFINE r == SegmentRow(m0, m1, L, ls, d, h, i)
           mem == MemoryOf(m0, m1, d)
<1>1. /\ r.common = RowCommon(h, i)
      /\ r.expand_direction = d
      /\ r.parent_hash = NodeOf(mem, h, i)
      /\ r.left_child_hash = NodeOf(mem, h - 1, 2 * i)
      /\ r.right_child_hash = NodeOf(mem, h - 1, 2 * i + 1)
      /\ r.left_direction_different = Mark(L, ls, d, h - 1, 2 * i)
      /\ r.right_direction_different = Mark(L, ls, d, h - 1, 2 * i + 1)
  BY SegmentRowFields
<1>2. d = 1 => r.left_direction_different = 0 /\ r.right_direction_different = 0
  BY <1>1 DEF Mark
<1>3. NodeOf(mem, h, i) = Compress(NodeOf(mem, h - 1, 2 * i), NodeOf(mem, h - 1, 2 * i + 1))
  <2>1. h \in 0..Height /\ h > 0
    BY Heights
  <2> QED BY <2>1, InnerNode
<1>8. r.left_direction_different \in Bool /\ r.right_direction_different \in Bool
  BY <1>1 DEF Mark, Bool
<1> HIDE DEF r
<1>4. r.common.is_root = 1 => /\ r.common.parent_address_label = 0
                              /\ r.common.parent_as_label = 0
                              /\ r.common.parent_height = Height
  BY <1>1, CommonFields, RootLabels
<1>5. r.common.parent_height = h /\ h # 0
  BY <1>1, CommonFields, Heights
<1>6. r.expand_direction \in {-1, 0, 1} /\ (r.expand_direction # -1 => d = 1)
  BY <1>1
<1>7. RowConstraints(r)
  BY <1>1, <1>2, <1>3, <1>4, <1>5, <1>6, <1>8 DEF RowConstraints
<1> QED BY <1>7 DEF r

BlankCommon == [height_section |-> 0, parent_height |-> 0, is_root |-> 0,
                parent_as_label |-> 0, parent_address_label |-> 0]

LEMMA BlankFields ==
    /\ Blank.common = BlankCommon /\ Blank.expand_direction = 0
    /\ Blank.left_direction_different = 0 /\ Blank.right_direction_different = 0
    /\ BlankCommon.height_section = 0 /\ BlankCommon.parent_height = 0 /\ BlankCommon.is_root = 0
  BY DEF Blank, BlankCommon

LEMMA BlankAccepted ==
    RowConstraints(Blank) /\ TransitionConstraints(BlankCommon, BlankCommon)
<1>1. RowConstraints(Blank)
  BY BlankFields DEF RowConstraints, Bool
<1>2. TransitionConstraints(BlankCommon, BlankCommon)
  BY BlankFields DEF TransitionConstraints, Bool
<1> QED BY <1>1, <1>2

\* From one row to the next the height falls by at most one.
LEMMA DescentAccepted ==
    ASSUME NEW h \in 1..Height, NEW i, NEW g \in 1..Height, NEW j, g <= h, h <= g + 1
    PROVE  TransitionConstraints(RowCommon(h, i), RowCommon(g, j))
<1>1. h \in Nat /\ g \in Nat /\ address_height \in Nat /\ Height \in Nat /\ h <= Height
  BY Heights
<1> DEFINE a == RowCommon(h, i)
           b == RowCommon(g, j)
<1>2. /\ a.height_section = (IF h > address_height THEN 1 ELSE 0) /\ a.parent_height = h
      /\ b.height_section = (IF g > address_height THEN 1 ELSE 0) /\ b.parent_height = g
      /\ a.is_root = (IF h = Height THEN 1 ELSE 0) /\ b.is_root = (IF g = Height THEN 1 ELSE 0)
  BY CommonFields
<1> HIDE DEF a, b
<1>3. /\ a.parent_height - b.parent_height \in Bool
      /\ a.height_section - b.height_section \in Bool
      /\ a.is_root - b.is_root \in Bool
  BY <1>1, <1>2 DEF Bool
<1>4. /\ a.parent_height # address_height + 1 => a.height_section = b.height_section
      /\ b.parent_height # address_height => a.height_section = b.height_section
  BY <1>1, <1>2
<1> QED BY <1>3, <1>4 DEF TransitionConstraints, a, b

\* After the last row, a parent of leaves, come blank rows.
LEMMA EndAccepted ==
    ASSUME NEW i
    PROVE  TransitionConstraints(RowCommon(1, i), BlankCommon)
<1>1. address_height \in Nat /\ address_height >= 1 /\ Height \in Nat /\ Height >= 2
  BY MerkleAssumption DEF Height
<1> DEFINE a == RowCommon(1, i)
<1>2. a.height_section = 0 /\ a.parent_height = 1 /\ a.is_root = 0
  BY <1>1, CommonFields
<1> HIDE DEF a
<1>3. TransitionConstraints(a, BlankCommon)
  BY <1>1, <1>2, BlankFields DEF TransitionConstraints, Bool
<1> QED BY <1>3 DEF a

\* Row k of a trace, by its rank and direction.
LEMMA TraceRow ==
    ASSUME NEW rows, NEW m0, NEW m1, NEW L, NEW ls, Layered(L),
           IsTrace(rows, m0, m1, L, ls),
           NEW k \in 1..2 * Cardinality(RowNodes(L))
    PROVE  LET C == Cardinality(RowNodes(L))
               n == InOrder(RowNodes(L))[RankAt(C, k)]
           IN /\ RankAt(C, k) \in 0..C - 1 /\ DirectionAt(k) \in {1, -1}
              /\ n \in RowNodes(L)
              /\ n[1] \in 1..Height /\ n[2] \in Level(n[1])
              /\ (n[1] = Height <=> k \in {1, 2}) /\ (n[1] = Height => n[2] = 1)
              /\ rows[k] = SegmentRow(m0, m1, L, ls, DirectionAt(k), n[1], n[2])
              /\ rows[k].common = RowCommon(n[1], n[2])
              /\ rows[k].expand_direction = DirectionAt(k)
              /\ rows[k].parent_hash = NodeOf(MemoryOf(m0, m1, DirectionAt(k)), n[1], n[2])
<1> DEFINE S == RowNodes(L)
           C == Cardinality(S)
           order == InOrder(S)
           n == order[RankAt(C, k)]
<1>1. Climbs(S, order) /\ rows[k] = SegmentRow(m0, m1, L, ls, DirectionAt(k), n[1], n[2])
  BY DEF IsTrace
<1>2. C \in Nat /\ C >= 2
  BY <1>1 DEF Climbs
<1>3. RankAt(C, k) \in 0..C - 1
  <2> HIDE DEF C
  <2> QED BY <1>2, OriginFacts DEF C
<1>4. n \in S /\ (n[1] = Height <=> RankAt(C, k) = C - 1) /\ order[C - 1] = <<Height, 1>>
  BY <1>1, <1>3 DEF Climbs
<1>5. n[1] \in 1..Height /\ n[2] \in Level(n[1])
  BY <1>4, RowNodesAre
<1>6. RankAt(C, k) = C - 1 <=> k \in {1, 2}
  <2> HIDE DEF C
  <2> QED BY <1>2, TracePositions DEF C
<1>7. n[1] = Height => n[2] = 1
  BY <1>4
<1>8. DirectionAt(k) \in {1, -1}
  BY DEF DirectionAt
<1> HIDE DEF n
<1>9. /\ rows[k].common = RowCommon(n[1], n[2])
      /\ rows[k].expand_direction = DirectionAt(k)
      /\ rows[k].parent_hash = NodeOf(MemoryOf(m0, m1, DirectionAt(k)), n[1], n[2])
  BY <1>1, SegmentRowFields
<1> QED BY <1>1, <1>3, <1>4, <1>5, <1>6, <1>7, <1>8, <1>9 DEF n

\* The heights of consecutive rows.
LEMMA TraceDescends ==
    ASSUME NEW L, Climbs(RowNodes(L), InOrder(RowNodes(L))), Layered(L),
           NEW k \in 1..2 * Cardinality(RowNodes(L)) - 1
    PROVE  LET C == Cardinality(RowNodes(L))
               a == InOrder(RowNodes(L))[RankAt(C, k)]
               b == InOrder(RowNodes(L))[RankAt(C, k + 1)]
           IN b[1] <= a[1] /\ a[1] <= b[1] + 1
<1> DEFINE S == RowNodes(L)
           C == Cardinality(S)
           order == InOrder(S)
           q == RankAt(C, k)
           r == RankAt(C, k + 1)
<1>1. C \in Nat /\ C >= 2
  BY DEF Climbs
<1>2. k \in 1..2 * C /\ k + 1 \in 1..2 * C
  <2> HIDE DEF C
  <2> QED BY <1>1 DEF C
<1>3. q \in 0..C - 1 /\ r \in 0..C - 1 /\ (r = q \/ r = q - 1)
  <2>1. k \in 1..2 * C - 1
    OBVIOUS
  <2> HIDE DEF C
  <2> QED BY <1>1, <1>2, <2>1, OriginFacts, TracePositions
<1>4. \A x \in 0..C - 1 : order[x] \in S
  BY DEF Climbs
<1>5. order[q][1] \in 1..Height /\ order[r][1] \in 1..Height
  BY <1>3, <1>4, RowNodesAre
<1>6. \A x \in 0..C - 2 : order[x][1] <= order[x + 1][1] /\ order[x + 1][1] <= order[x][1] + 1
  BY DEF Climbs
<1> HIDE DEF order, C, q, r
<1>7. CASE r = q
  BY <1>5, <1>7, Heights DEF order, C, q, r, S
<1>8. CASE r = q - 1
  <2>1. r \in 0..C - 2 /\ r + 1 = q
    BY <1>1, <1>3, <1>8
  <2>2. order[r][1] <= order[q][1] /\ order[q][1] <= order[r][1] + 1
    BY <1>6, <2>1
  <2> QED BY <2>2 DEF order, C, q, r, S
<1> QED BY <1>3, <1>7, <1>8

LEMMA TraceAccepted ==
    ASSUME NEW rows, NEW m0, NEW m1, NEW L, NEW ls, Layered(L),
           IsTrace(rows, m0, m1, L, ls)
    PROVE  Eval(Padded(rows), NodeOf(m0, Height, 1), NodeOf(m1, Height, 1))
<1> DEFINE S == RowNodes(L)
           C == Cardinality(S)
           N == 2 * C
           order == InOrder(S)
           t == Padded(rows)
           n(k) == order[RankAt(C, k)]
<1>1. Climbs(S, order) /\ rows = [k \in 1..N |-> rows[k]]
  BY DEF IsTrace
<1>2. C \in Nat /\ C >= 2 /\ order[0][1] = 1
  BY <1>1 DEF Climbs
<1>3. N \in Nat /\ N >= 4
  <2> HIDE DEF C
  <2> QED BY <1>2
<1>4. PICK M \in Nat : /\ M >= N /\ Len(t) = M
                       /\ \A k \in 1..M : t[k] = IF k <= N THEN rows[k] ELSE Blank
  <2> HIDE DEF N
  <2>1. N >= 1
    BY <1>3
  <2> QED BY <1>1, <1>3, <2>1, PaddedIs
<1>5. ASSUME NEW k \in 1..N
      PROVE  /\ RankAt(C, k) \in 0..C - 1 /\ DirectionAt(k) \in {1, -1}
             /\ n(k)[1] \in 1..Height /\ n(k)[2] \in Level(n(k)[1])
             /\ (n(k)[1] = Height <=> k \in {1, 2}) /\ (n(k)[1] = Height => n(k)[2] = 1)
             /\ rows[k] = SegmentRow(m0, m1, L, ls, DirectionAt(k), n(k)[1], n(k)[2])
             /\ rows[k].common = RowCommon(n(k)[1], n(k)[2])
             /\ rows[k].expand_direction = DirectionAt(k)
             /\ rows[k].parent_hash = NodeOf(MemoryOf(m0, m1, DirectionAt(k)), n(k)[1], n(k)[2])
  BY <1>5, TraceRow
<1>6. \A k \in 1..N - 1 : n(k + 1)[1] <= n(k)[1] /\ n(k)[1] <= n(k + 1)[1] + 1
  BY <1>1, TraceDescends
<1>7. n(N)[1] = 1
  <2>1. RankAt(C, 2 * C) = 0
    <3> HIDE DEF C
    <3> QED BY <1>2, TracePositions
  <2> QED BY <1>2, <2>1
<1> HIDE DEF n, t, N, order
<1>8. \A k \in 1..M : k <= N => k \in 1..N /\ t[k] = rows[k]
  BY <1>3, <1>4
<1>9. \A k \in 1..M : ~(k <= N) => t[k] = Blank
  BY <1>4
<1>10. \A k \in 1..N : RowConstraints(rows[k])
  BY <1>5, SegmentRowAccepted
<1>11. \A k \in 1..M : RowConstraints(t[k])
  BY <1>8, <1>9, <1>10, BlankAccepted
<1>12. ASSUME NEW k \in 1..M - 1 PROVE TransitionConstraints(t[k].common, t[k + 1].common)
  <2>1. k \in 1..M /\ k + 1 \in 1..M
    BY <1>4
  <2>2. CASE k + 1 <= N
    <3>1. k \in 1..N /\ k + 1 \in 1..N /\ k \in 1..N - 1 /\ t[k] = rows[k] /\ t[k + 1] = rows[k + 1]
      BY <1>3, <1>8, <2>1, <2>2
    <3>2. t[k].common = RowCommon(n(k)[1], n(k)[2]) /\ t[k + 1].common = RowCommon(n(k + 1)[1], n(k + 1)[2])
      BY <1>5, <3>1
    <3>3. /\ n(k)[1] \in 1..Height /\ n(k + 1)[1] \in 1..Height
          /\ n(k + 1)[1] <= n(k)[1] /\ n(k)[1] <= n(k + 1)[1] + 1
      BY <1>5, <1>6, <3>1
    <3> QED BY <3>2, <3>3, DescentAccepted
  <2>3. CASE k = N
    <3>1. k \in 1..N /\ ~(k + 1 <= N)
      BY <1>3, <2>3
    <3>2. t[k].common = RowCommon(1, n(k)[2]) /\ t[k + 1].common = BlankCommon
      BY <1>5, <1>7, <1>8, <1>9, <2>1, <2>3, <3>1, BlankFields
    <3> QED BY <3>2, EndAccepted
  <2>4. CASE k > N
    <3>1. ~(k <= N) /\ ~(k + 1 <= N)
      BY <1>3, <2>4
    <3>2. t[k] = Blank /\ t[k + 1] = Blank
      BY <1>9, <2>1, <3>1
    <3> QED BY <3>2, BlankFields, BlankAccepted
  <2> QED BY <1>3, <2>2, <2>3, <2>4
<1>13. ASSUME NEW k \in 1..M PROVE t[k].common.is_root = 1 <=> k \in {1, 2}
  <2>1. CASE k <= N
    <3>1. k \in 1..N /\ t[k] = rows[k]
      BY <1>8, <2>1
    <3>2. t[k].common = RowCommon(n(k)[1], n(k)[2]) /\ (n(k)[1] = Height <=> k \in {1, 2})
      BY <1>5, <3>1
    <3> QED BY <3>2, CommonFields
  <2>2. CASE ~(k <= N)
    <3>1. t[k].common.is_root = 0 /\ k \notin {1, 2}
      BY <1>3, <1>9, <2>2, BlankFields
    <3> QED BY <3>1
  <2> QED BY <2>1, <2>2
<1>14. DirectionAt(1) = 1 /\ DirectionAt(2) = -1
  BY DEF DirectionAt, IsFinal
<1>15. /\ 1 \in 1..M /\ 2 \in 1..M /\ 1 \in 1..N /\ 2 \in 1..N /\ M \in 1..M
       /\ t[1] = rows[1] /\ t[2] = rows[2]
  BY <1>3, <1>4
<1>16. ASSUME NEW k \in 1..M
       PROVE  LET x == t[IF k = Len(t) THEN 1 ELSE k + 1] IN
              t[k].common.is_root = 1 /\ x.common.is_root = 1
                => t[k].expand_direction - x.expand_direction = 2
  <2> DEFINE j == IF k = Len(t) THEN 1 ELSE k + 1
  <2>1. j \in 1..M
    BY <1>4, <1>15
  <2>2. k \in {1, 2} /\ j \in {1, 2} => k = 1 /\ j = 2
    BY <1>3, <1>4
  <2> HIDE DEF j
  <2>3. t[k].common.is_root = 1 /\ t[j].common.is_root = 1 => k = 1 /\ j = 2
    BY <1>13, <2>1, <2>2
  <2>4. t[1].expand_direction = 1 /\ t[2].expand_direction = -1
    BY <1>5, <1>14, <1>15
  <2>5. 1 - (-1) = 2
    OBVIOUS
  <2> QED BY <2>3, <2>4, <2>5 DEF j
<1>17. /\ t[1].common.height_section = 1 /\ t[1].common.is_root = 1 /\ t[2].common.is_root = 1
       /\ t[1].parent_hash = NodeOf(m0, Height, 1) /\ t[2].parent_hash = NodeOf(m1, Height, 1)
  <2>1. Height > address_height
    BY MerkleAssumption DEF Height
  <2>2. n(1)[1] = Height /\ n(1)[2] = 1 /\ n(2)[1] = Height /\ n(2)[2] = 1
    BY <1>5, <1>15
  <2>3. t[1].common = RowCommon(Height, 1)
    BY <1>5, <1>15, <2>2
  <2>4. t[1].common.height_section = 1
    BY <2>1, <2>3, CommonFields
  <2>5. MemoryOf(m0, m1, 1) = m0 /\ MemoryOf(m0, m1, -1) = m1
    BY DEF MemoryOf
  <2>6. t[1].parent_hash = NodeOf(m0, Height, 1) /\ t[2].parent_hash = NodeOf(m1, Height, 1)
    BY <1>5, <1>14, <1>15, <2>2, <2>5
  <2> QED BY <1>13, <1>15, <2>4, <2>6
<1>18. t[M].common.height_section = 0 /\ t[M].common.is_root = 0
  <2>1. CASE M = N
    <3>1. N \in 1..N /\ t[M] = rows[N]
      BY <1>3, <1>8, <1>15, <2>1
    <3>2. t[M].common = RowCommon(1, n(N)[2])
      BY <1>5, <1>7, <3>1
    <3>3. ~(1 > address_height) /\ 1 # Height
      BY MerkleAssumption DEF Height
    <3> QED BY <3>2, <3>3, CommonFields
  <2>2. CASE M # N
    <3>1. ~(M <= N)
      BY <1>3, <1>4, <2>2
    <3> QED BY <1>9, <1>15, <3>1, BlankFields
  <2> QED BY <2>1, <2>2
<1>19. Eval(t, NodeOf(m0, Height, 1), NodeOf(m1, Height, 1))
  BY <1>4, <1>11, <1>12, <1>16, <1>17, <1>18 DEF Eval
<1> QED BY <1>19 DEF t

-----------------------------------------------------------------------------
(* Labels: where a node stands among those of its height.                  *)

LEMMA RestUnique ==
    ASSUME NEW y \in Nat, y > 0, NEW q \in Nat, NEW r \in Nat, r < y
    PROVE  (q * y + r) \div y = q /\ (q * y + r) % y = r
<1> DEFINE x == q * y + r
<1>1. x \in Nat /\ q * y \in Nat
  <2>1. q * y \in Nat
    OBVIOUS
  <2> QED BY <2>1
<1>2. x \div y = q
  <2>1. x = q * y + r
    OBVIOUS
  <2> HIDE DEF x
  <2> QED BY <1>1, <2>1, DivisionFacts
<1>3. x = (x \div y) * y + (x % y) /\ x % y \in 0..y - 1
  <2> HIDE DEF x
  <2> QED BY <1>1, QuotientRest
<1>4. q * y + r = q * y + (x % y)
  BY <1>2, <1>3
<1> DEFINE z == x % y
           w == q * y
<1>5. w + r = w + z /\ w \in Nat /\ z \in Int
  BY <1>1, <1>3, <1>4
<1> HIDE DEF w, z
<1>6. z = r
  BY <1>5
<1> QED BY <1>2, <1>6 DEF z

LEMMA SectionFacts ==
    ASSUME NEW g \in 0..Height
    PROVE  /\ Section(g) \in Nat /\ Section(g) > 0
           /\ \E B \in Nat : 2^(Height - g) = B * Section(g)
           /\ g > address_height => Section(g) = 1 /\ Section(g - 1) = 1
           /\ g > 0 /\ ~(g > address_height) => Section(g - 1) = 2 * Section(g)
<1> DEFINE e == address_height - g
<1>1. CASE g > address_height
  <2>1. ~(address_height > g) /\ ~(address_height > g - 1)
    BY <1>1, Heights
  <2>2. 2^0 = 1
    BY TwoToZero
  <2>3. Section(g) = 1 /\ Section(g - 1) = 1
    BY <2>1, <2>2 DEF Section
  <2>4. 2^(Height - g) \in Nat
    BY LevelFacts
  <2>5. 2^(Height - g) = 2^(Height - g) * 1
    BY <2>4
  <2> QED BY <1>1, <2>3, <2>4, <2>5
<1>2. CASE ~(g > address_height)
  <2>1. e \in Nat /\ e + 1 \in Nat /\ address_height - (g - 1) = e + 1 /\ address_height > g - 1
        /\ addr_space_height + e = Height - g /\ addr_space_height \in Nat
    BY <1>2, Heights DEF Height
  <2>2. Section(g) = 2^e
    <3>1. CASE address_height > g
      BY <3>1 DEF Section
    <3>2. CASE ~(address_height > g)
      <4>1. e = 0
        BY <1>2, <3>2, Heights
      <4> QED BY <3>2, <4>1 DEF Section
    <3> QED BY <3>1, <3>2
  <2>3. Section(g - 1) = 2^(e + 1)
    BY <2>1 DEF Section
  <2> HIDE DEF e
  <2>4. 2^e \in Nat /\ 2^e > 0 /\ 2^(e + 1) = 2 * 2^e
    BY <2>1, TwoTo, TwoToPositive
  <2>5. 2^(Height - g) = 2^addr_space_height * 2^e /\ 2^addr_space_height \in Nat
    BY <2>1, TwoTo, TwoToSum
  <2> QED BY <1>2, <2>2, <2>3, <2>4, <2>5
<1> QED BY <1>1, <1>2

\* Place q, r among the nodes of height g, and back.
LEMMA LabelsAt ==
    ASSUME NEW g \in 0..Height, NEW q \in Nat, NEW r \in Nat, r < Section(g)
    PROVE  LET j == 2^(Height - g) + (q * Section(g) + r)
           IN AsLabel(g, j) = q /\ AddressLabel(g, j) = r
<1> DEFINE y == Section(g)
           T == 2^(Height - g)
           j == T + (q * y + r)
<1>1. y \in Nat /\ y > 0 /\ r < y
  BY SectionFacts
<1>2. PICK B \in Nat : T = B * y
  BY SectionFacts
<1>3. AsLabel(g, j) = (j - T) \div y /\ AddressLabel(g, j) = j % y
  BY DEF AsLabel, AddressLabel
<1> HIDE DEF y, T
<1>4. q * y \in Nat /\ B * y \in Nat /\ (B + q) * y = B * y + q * y /\ B + q \in Nat
  BY <1>1
<1>5. j - T = q * y + r /\ j = (B + q) * y + r
  BY <1>1, <1>2, <1>4
<1> HIDE DEF j
<1>6. (q * y + r) \div y = q /\ ((B + q) * y + r) % y = r
  BY <1>1, <1>4, RestUnique
<1>7. AsLabel(g, j) = q /\ AddressLabel(g, j) = r
  BY <1>3, <1>5, <1>6
<1> QED BY <1>7 DEF j, T, y

LEMMA LabelsOf ==
    ASSUME NEW g \in 0..Height, NEW j \in Level(g)
    PROVE  /\ AsLabel(g, j) \in Nat /\ AddressLabel(g, j) \in Nat
           /\ AddressLabel(g, j) < Section(g)
           /\ j = 2^(Height - g) + (AsLabel(g, j) * Section(g) + AddressLabel(g, j))
<1> DEFINE y == Section(g)
           T == 2^(Height - g)
           x == j - T
           q == x \div y
           r == x % y
<1>1. y \in Nat /\ y > 0
  BY SectionFacts
<1>2. T \in Nat /\ j \in Nat /\ x \in Nat /\ j = T + x
  BY LevelFacts DEF Level
<1> HIDE DEF x, T, y
<1>3. q \in Nat /\ r \in 0..y - 1 /\ x = q * y + r
  BY <1>1, <1>2, QuotientRest
<1> HIDE DEF q, r
<1>4. r \in Nat /\ r < y
  BY <1>1, <1>3
<1>5. j = T + (q * y + r)
  BY <1>2, <1>3
<1>6. AsLabel(g, T + (q * y + r)) = q /\ AddressLabel(g, T + (q * y + r)) = r
  BY <1>3, <1>4, LabelsAt DEF y, T
<1> QED BY <1>3, <1>4, <1>5, <1>6 DEF y, T

\* Nodes of one height are told apart by their labels.
LEMMA LabelsDiffer ==
    ASSUME NEW g \in 0..Height, NEW j \in Level(g), NEW k \in Level(g),
           AsLabel(g, j) = AsLabel(g, k), AddressLabel(g, j) = AddressLabel(g, k)
    PROVE  j = k
  BY LabelsOf

\* The labels a row computes for its children are those of the children.
LEMMA ChildLabels ==
    ASSUME NEW h \in 1..Height, NEW i \in Level(h)
    PROVE  LET s == IF h > address_height THEN 1 ELSE 0
               a == AsLabel(h, i)
               b == AddressLabel(h, i)
           IN /\ AsLabel(h - 1, 2 * i) = a * (1 + s)
              /\ AddressLabel(h - 1, 2 * i) = b * (2 - s)
              /\ AsLabel(h - 1, 2 * i + 1) = a * (1 + s) + s
              /\ AddressLabel(h - 1, 2 * i + 1) = b * (2 - s) + (1 - s)
<1> DEFINE a == AsLabel(h, i)
           b == AddressLabel(h, i)
           y == Section(h)
           z == Section(h - 1)
           T == 2^(Height - h)
           U == 2^(Height - (h - 1))
<1>1. h \in 0..Height /\ h - 1 \in 0..Height /\ h > 0
  BY Heights
<1>2. T \in Nat /\ U = 2 * T /\ i \in Nat
  BY <1>1, LevelFacts
<1>3. a \in Nat /\ b \in Nat /\ b < y /\ i = T + (a * y + b)
  BY <1>1, LabelsOf
<1>4. \A q, r \in Nat : r < z => AsLabel(h - 1, U + (q * z + r)) = q /\ AddressLabel(h - 1, U + (q * z + r)) = r
  BY <1>1, LabelsAt
<1>5. y \in Nat /\ y > 0
  BY <1>1, SectionFacts
<1>6. CASE h > address_height
  <2>1. y = 1 /\ z = 1
    BY <1>1, <1>6, SectionFacts
  <2> HIDE DEF a, b, y, z, T, U
  <2>2. b = 0 /\ i = T + a
    BY <1>2, <1>3, <2>1
  <2>3. 2 * i = U + ((2 * a) * z + 0) /\ 2 * i + 1 = U + ((2 * a + 1) * z + 0)
    BY <1>2, <1>3, <2>1, <2>2
  <2>4. 2 * a \in Nat /\ 2 * a + 1 \in Nat /\ 0 \in Nat /\ 0 < z
    BY <1>3, <2>1
  <2>5. /\ AsLabel(h - 1, 2 * i) = 2 * a /\ AddressLabel(h - 1, 2 * i) = 0
        /\ AsLabel(h - 1, 2 * i + 1) = 2 * a + 1 /\ AddressLabel(h - 1, 2 * i + 1) = 0
    BY <1>4, <2>3, <2>4
  <2>6. a * (1 + 1) = 2 * a /\ b * (2 - 1) = 0 /\ b * (2 - 1) + (1 - 1) = 0
    BY <1>3, <2>2
  <2> QED BY <1>6, <2>5, <2>6 DEF a, b
<1>7. CASE ~(h > address_height)
  <2>1. z = 2 * y
    BY <1>1, <1>7, SectionFacts
  <2> HIDE DEF a, b, y, z, T, U
  <2>2. a * z = 2 * (a * y) /\ a * y \in Nat
    BY <1>3, <1>5, <2>1
  <2>3. 2 * i = U + (a * z + 2 * b) /\ 2 * i + 1 = U + (a * z + (2 * b + 1))
    BY <1>2, <1>3, <2>2
  <2>4. 2 * b \in Nat /\ 2 * b + 1 \in Nat /\ 2 * b < z /\ 2 * b + 1 < z
    BY <1>3, <1>5, <2>1
  <2>5. /\ AsLabel(h - 1, 2 * i) = a /\ AddressLabel(h - 1, 2 * i) = 2 * b
        /\ AsLabel(h - 1, 2 * i + 1) = a /\ AddressLabel(h - 1, 2 * i + 1) = 2 * b + 1
    BY <1>3, <1>4, <2>3, <2>4
  <2>6. a * (1 + 0) = a /\ a * (1 + 0) + 0 = a /\ b * (2 - 0) = 2 * b /\ b * (2 - 0) + (1 - 0) = 2 * b + 1
    BY <1>3
  <2> QED BY <1>7, <2>5, <2>6 DEF a, b
<1> QED BY <1>6, <1>7

\* The labels of a leaf are its address space and its chunk.
LEMMA LeafLabels ==
    ASSUME NEW l \in Labels
    PROVE  /\ AsLabel(0, LeafIndex(l)) = l[1] - ADDR_SPACE_OFFSET
           /\ AddressLabel(0, LeafIndex(l)) = l[2]
<1> DEFINE q == l[1] - ADDR_SPACE_OFFSET
<1>1. 0 \in 0..Height /\ Height - 0 = Height /\ address_height > 0 /\ address_height - 0 = address_height
  BY MerkleAssumption, Heights
<1>2. Section(0) = 2^address_height
  BY <1>1 DEF Section
<1>3. q \in Nat /\ l[2] \in Nat /\ l[2] < 2^address_height
  BY LabelParts
<1>4. LeafIndex(l) = 2^(Height - 0) + (q * Section(0) + l[2])
  BY <1>1, <1>2, LabelParts DEF LeafIndex
<1> HIDE DEF q
<1>5. AsLabel(0, LeafIndex(l)) = q /\ AddressLabel(0, LeafIndex(l)) = l[2]
  BY <1>1, <1>2, <1>3, <1>4, LabelsAt
<1> QED BY <1>5 DEF q

-----------------------------------------------------------------------------
(* The Merkle bus.  A message is about one node of one of the two trees;   *)
(* its sender and its receiver are a row of the node or its boundary row,  *)
(* and the rows of its parent.                                             *)

Message(d, g, j) ==
    <<d, g, AsLabel(g, j), AddressLabel(g, j), NodeOf(MemoryOf(start, memory, d), g, j)>>

\* The tree a parent's row of direction d takes its child from.
Carried(L, d, g, j) == IF ChangedAt(L, touched, g, j) THEN d ELSE 1

\* The rows of a finalized segment.
SegmentTrace(rows, L) ==
    /\ touched \in SUBSET Labels
    /\ Layered(L)
    /\ IsTrace(rows, start, memory, L, touched)
    /\ touched # {} => DOMAIN L[0] = {LeafIndex(l) : l \in touched}
    /\ \A g \in 0..Height : \A j \in Level(g) :
         ~ChangedAt(L, touched, g, j) => NodeOf(memory, g, j) = NodeOf(start, g, j)

LEMMA ChildMessage ==
    ASSUME NEW rows, NEW L, SegmentTrace(rows, L), NEW d \in {1, -1},
           NEW g \in 0..Height, NEW j \in Level(g)
    PROVE  <<d + 2 * Mark(L, touched, d, g, j), g, AsLabel(g, j), AddressLabel(g, j),
             NodeOf(MemoryOf(start, memory, d), g, j)>>
           = Message(Carried(L, d, g, j), g, j)
<1> DEFINE e == Carried(L, d, g, j)
<1>1. d + 2 * Mark(L, touched, d, g, j) = e
  <2>1. CASE ChangedAt(L, touched, g, j)
    BY <2>1 DEF Mark, Carried
  <2>2. CASE ~ChangedAt(L, touched, g, j)
    BY <2>2 DEF Mark, Carried
  <2> QED BY <2>1, <2>2
<1>2. NodeOf(MemoryOf(start, memory, d), g, j) = NodeOf(MemoryOf(start, memory, e), g, j)
  <2>1. CASE ChangedAt(L, touched, g, j)
    BY <2>1 DEF Carried
  <2>2. CASE ~ChangedAt(L, touched, g, j)
    BY <2>2 DEF Carried, MemoryOf, SegmentTrace
  <2> QED BY <2>1, <2>2
<1> QED BY <1>1, <1>2 DEF Message

\* What a row says on the bus.
RowMessages(L, d, h, i) ==
    {<<1, Message(d, h, i), IF h = Height THEN 0 ELSE d>>,
     <<2, Message(Carried(L, d, h - 1, 2 * i), h - 1, 2 * i), -d>>,
     <<3, Message(Carried(L, d, h - 1, 2 * i + 1), h - 1, 2 * i + 1), -d>>}

LEMMA RowInteractions ==
    ASSUME NEW rows, NEW L, SegmentTrace(rows, L), NEW d \in {1, -1},
           NEW h \in 1..Height, NEW i \in Level(h)
    PROVE  Interactions(SegmentRow(start, memory, L, touched, d, h, i)) = RowMessages(L, d, h, i)
<1> DEFINE r == SegmentRow(start, memory, L, touched, d, h, i)
           mem == MemoryOf(start, memory, d)
           s == IF h > address_height THEN 1 ELSE 0
           a == AsLabel(h, i)
           b == AddressLabel(h, i)
           left == Mark(L, touched, d, h - 1, 2 * i)
           right == Mark(L, touched, d, h - 1, 2 * i + 1)
<1>1. /\ r.common = RowCommon(h, i)
      /\ r.expand_direction = d
      /\ r.parent_hash = NodeOf(mem, h, i)
      /\ r.left_child_hash = NodeOf(mem, h - 1, 2 * i)
      /\ r.right_child_hash = NodeOf(mem, h - 1, 2 * i + 1)
      /\ r.left_direction_different = left
      /\ r.right_direction_different = right
  BY SegmentRowFields
<1>2. /\ r.common.height_section = s /\ r.common.parent_height = h
      /\ r.common.is_root = (IF h = Height THEN 1 ELSE 0)
      /\ r.common.parent_as_label = a /\ r.common.parent_address_label = b
  BY <1>1, CommonFields
<1>3. /\ AsLabel(h - 1, 2 * i) = a * (1 + s) /\ AddressLabel(h - 1, 2 * i) = b * (2 - s)
      /\ AsLabel(h - 1, 2 * i + 1) = a * (1 + s) + s
      /\ AddressLabel(h - 1, 2 * i + 1) = b * (2 - s) + (1 - s)
  BY ChildLabels
<1>4. /\ h \in 0..Height /\ h > 0 /\ h - 1 \in 0..Height
      /\ 2 * i \in Level(h - 1) /\ 2 * i + 1 \in Level(h - 1)
  <2>1. h \in 0..Height /\ h > 0 /\ h - 1 \in 0..Height
    BY Heights
  <2> QED BY <2>1, NodeOfStep
<1>5. /\ <<d + 2 * left, h - 1, AsLabel(h - 1, 2 * i), AddressLabel(h - 1, 2 * i), NodeOf(mem, h - 1, 2 * i)>>
           = Message(Carried(L, d, h - 1, 2 * i), h - 1, 2 * i)
      /\ <<d + 2 * right, h - 1, AsLabel(h - 1, 2 * i + 1), AddressLabel(h - 1, 2 * i + 1),
           NodeOf(mem, h - 1, 2 * i + 1)>>
           = Message(Carried(L, d, h - 1, 2 * i + 1), h - 1, 2 * i + 1)
  BY <1>4, ChildMessage
<1>6. (1 - r.common.is_root) * d = IF h = Height THEN 0 ELSE d
  <2>1. (1 - 1) * d = 0 /\ (1 - 0) * d = d
    OBVIOUS
  <2> QED BY <1>2, <2>1
<1>7. Interactions(r) =
        {<<1, <<d, h, a, b, NodeOf(mem, h, i)>>, (1 - r.common.is_root) * d>>,
         <<2, <<d + 2 * left, h - 1, a * (1 + s), b * (2 - s), NodeOf(mem, h - 1, 2 * i)>>, -d>>,
         <<3, <<d + 2 * right, h - 1, a * (1 + s) + s, b * (2 - s) + (1 - s),
                NodeOf(mem, h - 1, 2 * i + 1)>>, -d>>}
  <2> HIDE DEF r, left, right, mem, s, a, b
  <2> QED BY <1>1, <1>2, Zenon DEF Interactions
<1> HIDE DEF r, left, right, s, a, b
<1>8. Interactions(r) = RowMessages(L, d, h, i)
  <2>1. <<d, h, a, b, NodeOf(mem, h, i)>> = Message(d, h, i)
    BY DEF Message, a, b
  <2> HIDE DEF mem
  <2> QED BY <1>3, <1>5, <1>6, <1>7, <2>1, Zenon DEF RowMessages
<1> QED BY <1>8 DEF r

\* What the boundary chip says.
LEMMA LeafMessages ==
    ASSUME touched \in SUBSET Labels
    PROVE  LeafInteractions =
             {<<l, Message(1, 0, LeafIndex(l)), 1>> : l \in touched}
             \cup {<<l, Message(-1, 0, LeafIndex(l)), -1>> : l \in touched}
<1>1. ASSUME NEW l \in touched
      PROVE  /\ LabelAt(LeafIndex(l)) = l /\ LeafIndex(l) \in Level(0)
             /\ Message(1, 0, LeafIndex(l)) = <<1, 0, l[1] - ADDR_SPACE_OFFSET, l[2], Hash(start[l])>>
             /\ Message(-1, 0, LeafIndex(l)) = <<-1, 0, l[1] - ADDR_SPACE_OFFSET, l[2], Hash(memory[l])>>
  <2> DEFINE j == LeafIndex(l)
             k == LabelAt(j)
  <2>1. l \in Labels /\ j \in Level(0) /\ k \in Labels /\ LeafIndex(k) = j
    BY LabelAtLeaf
  <2>3. k = l
    BY <2>1, LabelAtLeafIndex
  <2>4. \A mem : NodeOf(mem, 0, j) = Hash(mem[l])
    <3>1. 0 \in 0..Height
      BY Heights
    <3> QED BY <2>1, <2>3, <3>1, NodeOfStep
  <2>5. AsLabel(0, j) = l[1] - ADDR_SPACE_OFFSET /\ AddressLabel(0, j) = l[2]
    BY <2>1, LeafLabels
  <2>6. MemoryOf(start, memory, 1) = start /\ MemoryOf(start, memory, -1) = memory
    BY DEF MemoryOf
  <2> HIDE DEF j
  <2>7. /\ Message(1, 0, j) = <<1, 0, l[1] - ADDR_SPACE_OFFSET, l[2], Hash(start[l])>>
        /\ Message(-1, 0, j) = <<-1, 0, l[1] - ADDR_SPACE_OFFSET, l[2], Hash(memory[l])>>
    BY <2>4, <2>5, <2>6 DEF Message
  <2> QED BY <2>1, <2>3, <2>7 DEF j
<1>2. {<<l, Message(1, 0, LeafIndex(l)), 1>> : l \in touched}
        = {<<l, <<1, 0, l[1] - ADDR_SPACE_OFFSET, l[2], Hash(start[l])>>, 1>> : l \in touched}
  BY <1>1
<1>3. {<<l, Message(-1, 0, LeafIndex(l)), -1>> : l \in touched}
        = {<<l, <<-1, 0, l[1] - ADDR_SPACE_OFFSET, l[2], Hash(memory[l])>>, -1>> : l \in touched}
  BY <1>1
<1> QED BY <1>2, <1>3, Zenon DEF LeafInteractions

\* The row of parent i at height h in direction d.
Pos(L, d, h, i) ==
    LET C == Cardinality(RowNodes(L))
    IN CHOOSE k \in 1..2 * C : DirectionAt(k) = d /\ InOrder(RowNodes(L))[RankAt(C, k)] = <<h, i>>

\* Each parent has its row in each direction, and every row is one of these.
LEMMA Positions ==
    ASSUME NEW rows, NEW L, SegmentTrace(rows, L)
    PROVE  LET C == Cardinality(RowNodes(L))
           IN /\ \A d \in {1, -1}, n \in RowNodes(L) :
                   /\ Pos(L, d, n[1], n[2]) \in 1..2 * C
                   /\ rows[Pos(L, d, n[1], n[2])] = SegmentRow(start, memory, L, touched, d, n[1], n[2])
              /\ \A k \in 1..2 * C : \E d \in {1, -1}, n \in RowNodes(L) : k = Pos(L, d, n[1], n[2])
<1> DEFINE S == RowNodes(L)
           C == Cardinality(S)
           order == InOrder(S)
           Is(k, d, n) == DirectionAt(k) = d /\ order[RankAt(C, k)] = n
<1>1. Climbs(S, order) /\ Layered(L) /\ IsTrace(rows, start, memory, L, touched)
  BY DEF SegmentTrace, IsTrace
<1>2. /\ C \in Nat /\ C >= 2
      /\ \A n \in S : \E r \in 0..C - 1 : order[r] = n
      /\ \A q, r \in 0..C - 1 : order[q] = order[r] => q = r
      /\ \A n \in S : n = <<n[1], n[2]>>
  BY <1>1, RowNodesAre DEF Climbs, Nodes
<1>3. \A k \in 1..2 * C : /\ RankAt(C, k) \in 0..C - 1 /\ DirectionAt(k) \in {1, -1}
                          /\ order[RankAt(C, k)] \in S
                          /\ rows[k] = SegmentRow(start, memory, L, touched, DirectionAt(k),
                                                  order[RankAt(C, k)][1], order[RankAt(C, k)][2])
  BY <1>1, TraceRow
<1>4. /\ \A r \in 0..C - 1, d \in {1, -1} : \E k \in 1..2 * C : RankAt(C, k) = r /\ DirectionAt(k) = d
      /\ \A k, m \in 1..2 * C : RankAt(C, k) = RankAt(C, m) /\ DirectionAt(k) = DirectionAt(m) => k = m
  <2> HIDE DEF C
  <2> QED BY <1>2, TracePositions
<1>5. \A d, n : n = <<n[1], n[2]>> => Pos(L, d, n[1], n[2]) = CHOOSE k \in 1..2 * C : Is(k, d, n)
  BY DEF Pos
<1> HIDE DEF C, S, order
<1>6. \A d \in {1, -1}, n \in S : \E k \in 1..2 * C : Is(k, d, n)
  BY <1>2, <1>4
<1>7. \A d \in {1, -1}, n \in S : Pos(L, d, n[1], n[2]) \in 1..2 * C /\ Is(Pos(L, d, n[1], n[2]), d, n)
  <2> HIDE DEF Is
  <2> QED BY <1>2, <1>5, <1>6
<1>8. ASSUME NEW d \in {1, -1}, NEW n \in S
      PROVE  rows[Pos(L, d, n[1], n[2])] = SegmentRow(start, memory, L, touched, d, n[1], n[2])
  <2> DEFINE k == Pos(L, d, n[1], n[2])
  <2>1. k \in 1..2 * C /\ DirectionAt(k) = d /\ order[RankAt(C, k)] = n
    BY <1>7
  <2> HIDE DEF k
  <2> QED BY <1>3, <2>1 DEF k
<1>9. ASSUME NEW k \in 1..2 * C PROVE \E d \in {1, -1}, n \in S : k = Pos(L, d, n[1], n[2])
  <2> DEFINE d == DirectionAt(k)
             n == order[RankAt(C, k)]
             m == Pos(L, d, n[1], n[2])
  <2>1. d \in {1, -1} /\ n \in S
    BY <1>3
  <2>2. m \in 1..2 * C /\ DirectionAt(m) = DirectionAt(k) /\ order[RankAt(C, m)] = order[RankAt(C, k)]
    BY <1>7, <2>1
  <2>3. RankAt(C, m) = RankAt(C, k)
    BY <1>2, <1>3, <2>2
  <2>4. m = k
    BY <1>4, <2>2, <2>3
  <2> QED BY <2>1, <2>4
<1> QED BY <1>7, <1>8, <1>9 DEF C, S

\* The interactions are those of the parents and of the touched leaves.
LEMMA EventsAre ==
    ASSUME NEW rows, NEW L, SegmentTrace(rows, L)
    PROVE  \A e : e \in AllEvents(rows) <=>
              \/ \E d \in {1, -1}, n \in RowNodes(L) : \E x \in RowMessages(L, d, n[1], n[2]) :
                   e = <<Pos(L, d, n[1], n[2]), x>>
              \/ \E d \in {1, -1}, l \in touched : e = <<0, <<l, Message(d, 0, LeafIndex(l)), d>>>>
<1> DEFINE S == RowNodes(L)
           N == 2 * Cardinality(S)
           ofRows == RowEvents(rows)
<1>1. Len(rows) = N
  <2>1. Climbs(S, InOrder(S)) /\ rows = [k \in 1..N |-> rows[k]]
    BY DEF SegmentTrace, IsTrace
  <2>2. N \in Nat
    <3>1. Cardinality(S) \in Nat
      BY <2>1 DEF Climbs
    <3> QED BY <3>1
  <2> HIDE DEF N
  <2> QED BY <2>1, <2>2, FunctionLength
<1>2. /\ \A d \in {1, -1}, n \in S :
           /\ Pos(L, d, n[1], n[2]) \in 1..N
           /\ rows[Pos(L, d, n[1], n[2])] = SegmentRow(start, memory, L, touched, d, n[1], n[2])
      /\ \A k \in 1..N : \E d \in {1, -1}, n \in S : k = Pos(L, d, n[1], n[2])
  BY Positions
<1>3. \A d \in {1, -1}, n \in S :
         Interactions(rows[Pos(L, d, n[1], n[2])]) = RowMessages(L, d, n[1], n[2])
  <2>1. \A n \in S : n[1] \in 1..Height /\ n[2] \in Level(n[1])
    BY RowNodesAre DEF SegmentTrace
  <2>2. \A d \in {1, -1}, n \in S :
          Interactions(SegmentRow(start, memory, L, touched, d, n[1], n[2])) = RowMessages(L, d, n[1], n[2])
    BY <2>1, RowInteractions
  <2> QED BY <1>2, <2>2
<1>4. \A e : e \in ofRows <=> \E k \in 1..N : \E x \in Interactions(rows[k]) : e = <<k, x>>
  BY <1>1 DEF RowEvents
<1> HIDE DEF S, N, ofRows
<1>5. \A e : e \in ofRows <=>
         \E d \in {1, -1}, n \in S : \E x \in RowMessages(L, d, n[1], n[2]) : e = <<Pos(L, d, n[1], n[2]), x>>
  <2>1. ASSUME NEW e \in ofRows
        PROVE  \E d \in {1, -1}, n \in S : \E x \in RowMessages(L, d, n[1], n[2]) :
                 e = <<Pos(L, d, n[1], n[2]), x>>
    <3>1. PICK k \in 1..N : \E x \in Interactions(rows[k]) : e = <<k, x>>
      BY <1>4
    <3>2. PICK d \in {1, -1}, n \in S : k = Pos(L, d, n[1], n[2])
      BY <1>2
    <3> QED BY <1>3, <3>1, <3>2
  <2>2. ASSUME NEW d \in {1, -1}, NEW n \in S, NEW x \in RowMessages(L, d, n[1], n[2])
        PROVE  <<Pos(L, d, n[1], n[2]), x>> \in ofRows
    BY <1>2, <1>3, <1>4
  <2> QED BY <2>1, <2>2
<1>6. LeafInteractions = {<<l, Message(1, 0, LeafIndex(l)), 1>> : l \in touched}
                         \cup {<<l, Message(-1, 0, LeafIndex(l)), -1>> : l \in touched}
  BY LeafMessages DEF SegmentTrace
<1>7. \A e : e \in LeafEvents <=>
         \E d \in {1, -1}, l \in touched : e = <<0, <<l, Message(d, 0, LeafIndex(l)), d>>>>
  <2>1. \A x : x \in LeafInteractions <=> \E d \in {1, -1}, l \in touched : x = <<l, Message(d, 0, LeafIndex(l)), d>>
    BY <1>6
  <2> QED BY <2>1 DEF LeafEvents
<1> QED BY <1>5, <1>7 DEF AllEvents, S, ofRows

\* The node has a parent with rows, and is told in direction d.
IsKey(L, d, g, j) ==
    /\ g \in 0..Height - 1 /\ j \in Level(g) /\ <<g + 1, j \div 2>> \in RowNodes(L)
    /\ d \in {1, -1}
    /\ d = 1 \/ ChangedAt(L, touched, g, j)

\* What the node itself says, and what a row of its parent says of it.
Own(L, d, g, j) ==
    IF g = 0 THEN <<0, <<LabelAt(j), Message(d, g, j), d>>>>
    ELSE <<Pos(L, d, g, j), <<1, Message(d, g, j), d>>>>

FromParent(L, d, g, j) ==
    <<Pos(L, d, g + 1, j \div 2), <<2 + (j % 2), Message(Carried(L, d, g, j), g, j), -d>>>>

Sent(L, d, g, j) ==
    IF d = 1 /\ ChangedAt(L, touched, g, j) THEN Own(L, 1, g, j) ELSE FromParent(L, -1, g, j)

Received(L, d, g, j) == IF d = 1 THEN FromParent(L, 1, g, j) ELSE Own(L, -1, g, j)

\* Event e is about message m with count c.
Says(rows, e, m, c) == e \in AllEvents(rows) /\ e[2][2] = m /\ e[2][3] = c

LEMMA OwnSays ==
    ASSUME NEW rows, NEW L, SegmentTrace(rows, L), NEW d \in {1, -1},
           NEW g \in 0..Height - 1, NEW j \in Level(g), ChangedAt(L, touched, g, j)
    PROVE  Says(rows, Own(L, d, g, j), Message(d, g, j), d)
<1>1. CASE g = 0
  <2>1. PICK l \in touched : LeafIndex(l) = j
    BY <1>1 DEF ChangedAt
  <2>2. LabelAt(j) = l
    BY <2>1, LabelAtLeafIndex DEF SegmentTrace
  <2>3. Own(L, d, g, j) = <<0, <<l, Message(d, 0, LeafIndex(l)), d>>>>
    BY <1>1, <2>1, <2>2 DEF Own
  <2>4. Own(L, d, g, j) \in AllEvents(rows)
    BY <2>3, EventsAre
  <2>5. Own(L, d, g, j)[2][2] = Message(d, g, j) /\ Own(L, d, g, j)[2][3] = d
    BY <1>1, <2>1, <2>3
  <2> QED BY <2>4, <2>5 DEF Says
<1>2. CASE g # 0
  <2> DEFINE n == <<g, j>>
  <2>1. g \in 1..Height /\ g # Height /\ j \in DOMAIN L[g]
    BY <1>2, Heights DEF ChangedAt
  <2>2. n \in RowNodes(L) /\ n[1] = g /\ n[2] = j
    BY <2>1, RowNodesAre DEF SegmentTrace
  <2>3. <<1, Message(d, g, j), d>> \in RowMessages(L, d, n[1], n[2])
    BY <2>1, <2>2 DEF RowMessages
  <2>4. Own(L, d, g, j) = <<Pos(L, d, n[1], n[2]), <<1, Message(d, g, j), d>>>>
    BY <1>2 DEF Own
  <2> HIDE DEF n
  <2>5. Own(L, d, g, j) \in AllEvents(rows)
    BY <2>2, <2>3, <2>4, EventsAre
  <2>6. Own(L, d, g, j)[2][2] = Message(d, g, j) /\ Own(L, d, g, j)[2][3] = d
    BY <2>4
  <2> QED BY <2>5, <2>6 DEF Says
<1> QED BY <1>1, <1>2

\* A child is the left or the right one of its parent.
LEMMA ParentOf ==
    ASSUME NEW g \in 0..Height - 1, NEW j \in Level(g)
    PROVE  /\ j \div 2 \in Nat /\ j % 2 \in {0, 1} /\ (g + 1) - 1 = g
           /\ j = 2 * (j \div 2) + (j % 2)
<1>1. j \in Nat
  <2>1. g \in 0..Height
    BY Heights
  <2> QED BY <2>1, LevelFacts
<1> QED BY <1>1

LEMMA FromParentSays ==
    ASSUME NEW rows, NEW L, SegmentTrace(rows, L), NEW d \in {1, -1},
           NEW g \in 0..Height - 1, NEW j \in Level(g), <<g + 1, j \div 2>> \in RowNodes(L)
    PROVE  Says(rows, FromParent(L, d, g, j), Message(Carried(L, d, g, j), g, j), -d)
<1> DEFINE i == j \div 2
           h == g + 1
           n == <<h, i>>
           x == <<2 + (j % 2), Message(Carried(L, d, g, j), g, j), -d>>
<1>1. i \in Nat /\ j % 2 \in {0, 1} /\ h - 1 = g /\ j = 2 * i + (j % 2)
  BY ParentOf
<1>2. n \in RowNodes(L) /\ n[1] = h /\ n[2] = i
  OBVIOUS
<1>3. FromParent(L, d, g, j) = <<Pos(L, d, n[1], n[2]), x>>
  BY DEF FromParent
<1> HIDE DEF i, h, n
<1>4. x \in RowMessages(L, d, n[1], n[2])
  <2>1. CASE j % 2 = 0
    <3>1. j = 2 * i /\ 2 + (j % 2) = 2
      BY <1>1, <2>1
    <3> QED BY <1>1, <1>2, <3>1 DEF RowMessages
  <2>2. CASE j % 2 = 1
    <3>1. j = 2 * i + 1 /\ 2 + (j % 2) = 3
      BY <1>1, <2>2
    <3> QED BY <1>1, <1>2, <3>1 DEF RowMessages
  <2> QED BY <1>1, <2>1, <2>2
<1>5. FromParent(L, d, g, j) \in AllEvents(rows)
  <2> HIDE DEF x
  <2> QED BY <1>2, <1>3, <1>4, EventsAre
<1>6. FromParent(L, d, g, j)[2][2] = Message(Carried(L, d, g, j), g, j) /\ FromParent(L, d, g, j)[2][3] = -d
  BY <1>3
<1> QED BY <1>5, <1>6 DEF Says

\* Every message told of a node is sent and received.
LEMMA KeySays ==
    ASSUME NEW rows, NEW L, SegmentTrace(rows, L), NEW d, NEW g, NEW j, IsKey(L, d, g, j)
    PROVE  /\ Says(rows, Sent(L, d, g, j), Message(d, g, j), 1)
           /\ Says(rows, Received(L, d, g, j), Message(d, g, j), -1)
<1>1. /\ g \in 0..Height - 1 /\ j \in Level(g) /\ <<g + 1, j \div 2>> \in RowNodes(L)
      /\ d \in {1, -1} /\ (d = 1 \/ ChangedAt(L, touched, g, j))
  BY DEF IsKey
<1>2. /\ \A x \in Int : x = -1 => -x = 1
      /\ -1 # 1 /\ 1 \in {1, -1} /\ -1 \in {1, -1} /\ -1 \in Int
  OBVIOUS
<1>3. /\ Says(rows, FromParent(L, 1, g, j), Message(Carried(L, 1, g, j), g, j), -1)
      /\ Says(rows, FromParent(L, -1, g, j), Message(Carried(L, -1, g, j), g, j), 1)
  BY <1>1, <1>2, FromParentSays
<1>4. ChangedAt(L, touched, g, j) => /\ Says(rows, Own(L, 1, g, j), Message(1, g, j), 1)
                                     /\ Says(rows, Own(L, -1, g, j), Message(-1, g, j), -1)
  BY <1>1, <1>2, OwnSays
<1>5. Carried(L, 1, g, j) = 1 /\ (ChangedAt(L, touched, g, j) => Carried(L, -1, g, j) = -1)
      /\ (~ChangedAt(L, touched, g, j) => Carried(L, -1, g, j) = 1)
  BY DEF Carried
<1>6. Says(rows, Received(L, d, g, j), Message(d, g, j), -1)
  BY <1>1, <1>2, <1>3, <1>4, <1>5 DEF Received
<1>7. Says(rows, Sent(L, d, g, j), Message(d, g, j), 1)
  <2>1. CASE ChangedAt(L, touched, g, j) /\ d = 1
    BY <1>4, <2>1 DEF Sent
  <2>2. CASE ChangedAt(L, touched, g, j) /\ d = -1
    BY <1>2, <1>3, <1>5, <2>2 DEF Sent
  <2>3. CASE ~ChangedAt(L, touched, g, j)
    <3>1. d = 1
      BY <1>1, <2>3
    <3> QED BY <1>3, <1>5, <2>3, <3>1 DEF Sent
  <2> QED BY <1>1, <2>1, <2>2, <2>3
<1> QED BY <1>6, <1>7

\* A changed node below the root has a parent with rows.
LEMMA ChangedHasParent ==
    ASSUME NEW rows, NEW L, SegmentTrace(rows, L),
           NEW g \in 0..Height - 1, NEW j \in Level(g), ChangedAt(L, touched, g, j)
    PROVE  <<g + 1, j \div 2>> \in RowNodes(L)
<1>1. j \in DOMAIN L[g]
  <2>1. CASE g = 0
    <3>1. PICK l \in touched : LeafIndex(l) = j
      BY <2>1 DEF ChangedAt
    <3> QED BY <2>1, <3>1 DEF SegmentTrace
  <2>2. CASE g # 0
    BY <2>2 DEF ChangedAt
  <2> QED BY <2>1, <2>2
<1>2. g + 1 \in 1..Height /\ (g + 1) - 1 = g
  BY Heights
<1>3. j \div 2 \in DOMAIN L[g + 1]
  BY <1>1, <1>2 DEF SegmentTrace, Layered, Parents
<1> QED BY <1>2, <1>3, RowNodesAre DEF SegmentTrace

\* The keys, as triples.
Keys(L) == {k \in {1, -1} \X (0..Height - 1) \X Nat : IsKey(L, k[1], k[2], k[3])}

LEMMA KeyIs ==
    ASSUME NEW L, NEW d, NEW g, NEW j, IsKey(L, d, g, j)
    PROVE  \E k \in Keys(L) : k[1] = d /\ k[2] = g /\ k[3] = j
<1>1. g \in 0..Height - 1 /\ j \in Level(g) /\ d \in {1, -1}
  BY DEF IsKey
<1>2. j \in Nat
  <2>1. g \in 0..Height
    BY <1>1, Heights
  <2> QED BY <1>1, <2>1, LevelFacts
<1> DEFINE k == <<d, g, j>>
<1>3. k[1] = d /\ k[2] = g /\ k[3] = j /\ k \in {1, -1} \X (0..Height - 1) \X Nat
  BY <1>1, <1>2
<1> HIDE DEF k
<1>4. k \in Keys(L)
  BY <1>3 DEF Keys
<1> QED BY <1>3, <1>4

SentBy(L, e) == \E k \in Keys(L) : e = Sent(L, k[1], k[2], k[3])
ReceivedBy(L, e) == \E k \in Keys(L) : e = Received(L, k[1], k[2], k[3])

\* A row's own message: of a changed node.
LEMMA OwnEvent ==
    ASSUME NEW rows, NEW L, SegmentTrace(rows, L), NEW d \in {1, -1},
           NEW g \in 0..Height - 1, NEW j \in Level(g), ChangedAt(L, touched, g, j)
    PROVE  /\ d = 1 => SentBy(L, Own(L, d, g, j))
           /\ d = -1 => ReceivedBy(L, Own(L, d, g, j))
<1>1. IsKey(L, d, g, j)
  BY ChangedHasParent DEF IsKey
<1>2. PICK k \in Keys(L) : k[1] = d /\ k[2] = g /\ k[3] = j
  BY <1>1, KeyIs
<1>3. -1 # 1
  OBVIOUS
<1>4. d = 1 => Own(L, d, g, j) = Sent(L, k[1], k[2], k[3])
  BY <1>2 DEF Sent
<1>5. d = -1 => Own(L, d, g, j) = Received(L, k[1], k[2], k[3])
  BY <1>2, <1>3 DEF Received
<1> QED BY <1>4, <1>5 DEF SentBy, ReceivedBy

\* A message of a parent's row.
LEMMA FromParentEvent ==
    ASSUME NEW L, NEW d \in {1, -1},
           NEW g \in 0..Height - 1, NEW j \in Level(g), <<g + 1, j \div 2>> \in RowNodes(L)
    PROVE  /\ d = -1 => SentBy(L, FromParent(L, d, g, j))
           /\ d = 1 => ReceivedBy(L, FromParent(L, d, g, j))
<1>1. -1 # 1 /\ 1 \in {1, -1} /\ -1 \in {1, -1}
  OBVIOUS
<1>2. IsKey(L, 1, g, j)
  BY <1>1 DEF IsKey
<1>3. PICK k \in Keys(L) : k[1] = 1 /\ k[2] = g /\ k[3] = j
  BY <1>2, KeyIs
<1>4. d = 1 => FromParent(L, d, g, j) = Received(L, k[1], k[2], k[3])
  BY <1>3 DEF Received
<1>5. d = -1 => SentBy(L, FromParent(L, d, g, j))
  <2>1. CASE ChangedAt(L, touched, g, j)
    <3>1. IsKey(L, -1, g, j)
      BY <1>1, <2>1 DEF IsKey
    <3>2. PICK m \in Keys(L) : m[1] = -1 /\ m[2] = g /\ m[3] = j
      BY <3>1, KeyIs
    <3>3. d = -1 => FromParent(L, d, g, j) = Sent(L, m[1], m[2], m[3])
      BY <1>1, <3>2 DEF Sent
    <3> QED BY <3>3 DEF SentBy
  <2>2. CASE ~ChangedAt(L, touched, g, j)
    <3>1. d = -1 => FromParent(L, d, g, j) = Sent(L, k[1], k[2], k[3])
      BY <1>3, <2>2 DEF Sent
    <3> QED BY <3>1 DEF SentBy
  <2> QED BY <2>1, <2>2
<1> QED BY <1>3, <1>4, <1>5 DEF ReceivedBy

\* Every event that counts sends or receives a message of a key.
LEMMA EventsOfKeys ==
    ASSUME NEW rows, NEW L, SegmentTrace(rows, L), NEW e \in AllEvents(rows)
    PROVE  /\ e[2][3] = 1 => SentBy(L, e)
           /\ e[2][3] = -1 => ReceivedBy(L, e)
<1>0. -1 # 1 /\ 0 # 1 /\ 0 # -1 /\ \A x \in {1, -1} : (-x = 1 => x = -1) /\ (-x = -1 => x = 1)
  OBVIOUS
<1>1. ASSUME NEW d \in {1, -1}, NEW l \in touched, e = <<0, <<l, Message(d, 0, LeafIndex(l)), d>>>>
      PROVE  (e[2][3] = 1 => SentBy(L, e)) /\ (e[2][3] = -1 => ReceivedBy(L, e))
  <2> DEFINE j == LeafIndex(l)
  <2>1. 0 \in 0..Height - 1 /\ j \in Level(0) /\ l \in Labels
    BY MerkleAssumption, LabelAtLeaf DEF SegmentTrace, Height
  <2>2. ChangedAt(L, touched, 0, j)
    BY DEF ChangedAt
  <2>3. LabelAt(j) = l
    BY <2>1, LabelAtLeafIndex
  <2> HIDE DEF j
  <2>4. e = Own(L, d, 0, j)
    BY <1>1, <2>3 DEF Own, j
  <2>5. e[2][3] = d
    BY <1>1
  <2>6. (d = 1 => SentBy(L, Own(L, d, 0, j))) /\ (d = -1 => ReceivedBy(L, Own(L, d, 0, j)))
    BY <2>1, <2>2, OwnEvent
  <2> QED BY <2>4, <2>5, <2>6
<1>2. ASSUME NEW d \in {1, -1}, NEW n \in RowNodes(L), NEW x \in RowMessages(L, d, n[1], n[2]),
             e = <<Pos(L, d, n[1], n[2]), x>>
      PROVE  (e[2][3] = 1 => SentBy(L, e)) /\ (e[2][3] = -1 => ReceivedBy(L, e))
  <2> DEFINE h == n[1]
             i == n[2]
             g == h - 1
  <2>1. h \in 1..Height /\ i \in DOMAIN L[h] /\ i \in Level(h) /\ n = <<h, i>> /\ i \in Nat /\ h \in Nat
    BY RowNodesAre DEF SegmentTrace, Nodes
  <2>2. e[2] = x
    BY <1>2
  <2> HIDE DEF h, i, g
  <2>3. /\ g \in 0..Height - 1 /\ g + 1 = h /\ g = h - 1
        /\ 2 * i \in Level(g) /\ 2 * i + 1 \in Level(g)
    <3>1. g \in 0..Height - 1 /\ g + 1 = h /\ h \in 0..Height /\ h > 0 /\ g = h - 1
      BY <2>1, Heights DEF g
    <3> QED BY <2>1, <3>1, NodeOfStep
  <2>4. CASE x = <<1, Message(d, h, i), IF h = Height THEN 0 ELSE d>>
    <3>1. e[2][3] = IF h = Height THEN 0 ELSE d
      BY <2>2, <2>4
    <3>2. CASE h = Height
      BY <1>0, <3>1, <3>2
    <3>3. CASE h # Height
      <4>1. h \in 0..Height - 1 /\ h # 0
        BY <2>1, <3>3, Heights
      <4>2. ChangedAt(L, touched, h, i)
        BY <2>1, <4>1 DEF ChangedAt
      <4>3. e = Own(L, d, h, i)
        BY <1>2, <2>4, <3>3, <4>1 DEF Own, h, i
      <4>4. (d = 1 => SentBy(L, Own(L, d, h, i))) /\ (d = -1 => ReceivedBy(L, Own(L, d, h, i)))
        BY <2>1, <4>1, <4>2, OwnEvent
      <4> QED BY <3>1, <3>3, <4>3, <4>4
    <3> QED BY <3>2, <3>3
  <2>5. ASSUME NEW b \in {0, 1}, x = <<2 + b, Message(Carried(L, d, g, 2 * i + b), g, 2 * i + b), -d>>
        PROVE  (e[2][3] = 1 => SentBy(L, e)) /\ (e[2][3] = -1 => ReceivedBy(L, e))
    <3> DEFINE j == 2 * i + b
    <3>1. j \in Level(g) /\ j \div 2 = i /\ j % 2 = b
      BY <2>1, <2>3
    <3> HIDE DEF j
    <3>2. <<g + 1, j \div 2>> \in RowNodes(L)
      BY <2>1, <2>3, <3>1
    <3>3. e = FromParent(L, d, g, j)
      BY <1>2, <2>3, <2>5, <3>1 DEF FromParent, j, h, i
    <3>4. e[2][3] = -d
      BY <2>2, <2>5
    <3>5. (d = -1 => SentBy(L, FromParent(L, d, g, j))) /\ (d = 1 => ReceivedBy(L, FromParent(L, d, g, j)))
      BY <2>3, <3>1, <3>2, FromParentEvent
    <3> QED BY <1>0, <3>3, <3>4, <3>5
  <2>6. CASE x = <<2, Message(Carried(L, d, g, 2 * i), g, 2 * i), -d>>
    <3>1. 2 * i + 0 = 2 * i /\ 2 + 0 = 2 /\ 0 \in {0, 1}
      BY <2>1
    <3> QED BY <2>5, <2>6, <3>1
  <2>7. CASE x = <<3, Message(Carried(L, d, g, 2 * i + 1), g, 2 * i + 1), -d>>
    <3>1. 2 + 1 = 3 /\ 1 \in {0, 1}
      OBVIOUS
    <3> QED BY <2>5, <2>7, <3>1
  <2>8. \/ x = <<1, Message(d, h, i), IF h = Height THEN 0 ELSE d>>
        \/ x = <<2, Message(Carried(L, d, g, 2 * i), g, 2 * i), -d>>
        \/ x = <<3, Message(Carried(L, d, g, 2 * i + 1), g, 2 * i + 1), -d>>
    BY <1>2 DEF RowMessages, g, h, i
  <2> QED BY <2>4, <2>6, <2>7, <2>8
<1> QED BY <1>1, <1>2, EventsAre

\* A message tells its key.
LEMMA MessagesDiffer ==
    ASSUME NEW L, NEW k \in Keys(L), NEW m \in Keys(L),
           Message(k[1], k[2], k[3]) = Message(m[1], m[2], m[3])
    PROVE  k = m
<1>1. /\ k \in {1, -1} \X (0..Height - 1) \X Nat /\ k[3] \in Level(k[2])
      /\ m \in {1, -1} \X (0..Height - 1) \X Nat /\ m[3] \in Level(m[2])
  BY DEF Keys, IsKey
<1>2. /\ k = <<k[1], k[2], k[3]>> /\ m = <<m[1], m[2], m[3]>>
      /\ k[2] \in 0..Height
  BY <1>1, Heights
<1>3. /\ k[1] = m[1] /\ k[2] = m[2]
      /\ AsLabel(k[2], k[3]) = AsLabel(m[2], m[3])
      /\ AddressLabel(k[2], k[3]) = AddressLabel(m[2], m[3])
  BY DEF Message
<1>4. k[3] = m[3]
  BY <1>1, <1>2, <1>3, LabelsDiffer
<1> QED BY <1>2, <1>3, <1>4

\* Each message has one sender and one receiver, or neither.
LEMMA MessageBalanced ==
    ASSUME NEW rows, NEW L, SegmentTrace(rows, L), NEW m
    PROVE  Cardinality(EventsOf(AllEvents(rows), m, 1)) = Cardinality(EventsOf(AllEvents(rows), m, -1))
<1> DEFINE A == EventsOf(AllEvents(rows), m, 1)
           B == EventsOf(AllEvents(rows), m, -1)
           MessageOf(k) == Message(k[1], k[2], k[3])
           SentOf(k) == Sent(L, k[1], k[2], k[3])
           ReceivedOf(k) == Received(L, k[1], k[2], k[3])
<1>1. \A k \in Keys(L) : /\ SentOf(k) \in AllEvents(rows)
                         /\ SentOf(k)[2][2] = MessageOf(k) /\ SentOf(k)[2][3] = 1
                         /\ ReceivedOf(k) \in AllEvents(rows)
                         /\ ReceivedOf(k)[2][2] = MessageOf(k) /\ ReceivedOf(k)[2][3] = -1
  <2>1. \A k \in Keys(L) : IsKey(L, k[1], k[2], k[3])
    BY DEF Keys
  <2> QED BY <2>1, KeySays DEF Says
<1>2. \A e \in AllEvents(rows) : /\ e[2][3] = 1 => \E k \in Keys(L) : e = SentOf(k)
                                 /\ e[2][3] = -1 => \E k \in Keys(L) : e = ReceivedOf(k)
  BY EventsOfKeys DEF SentBy, ReceivedBy
<1>3. \A k, n \in Keys(L) : MessageOf(k) = MessageOf(n) => k = n
  BY MessagesDiffer
<1> HIDE DEF MessageOf, SentOf, ReceivedOf
<1>4. CASE \E k \in Keys(L) : MessageOf(k) = m
  <2>1. PICK k \in Keys(L) : MessageOf(k) = m
    BY <1>4
  <2>2. A = {SentOf(k)}
    <3>1. SentOf(k) \in A
      BY <1>1, <2>1 DEF EventsOf
    <3>2. ASSUME NEW e \in A PROVE e = SentOf(k)
      <4>1. PICK n \in Keys(L) : e = SentOf(n)
        BY <1>2 DEF EventsOf
      <4>2. MessageOf(n) = m
        BY <1>1, <4>1 DEF EventsOf
      <4> QED BY <1>3, <2>1, <4>1, <4>2
    <3> HIDE DEF A
    <3> QED BY <3>1, <3>2
  <2>3. B = {ReceivedOf(k)}
    <3>1. ReceivedOf(k) \in B
      BY <1>1, <2>1 DEF EventsOf
    <3>2. ASSUME NEW e \in B PROVE e = ReceivedOf(k)
      <4>1. PICK n \in Keys(L) : e = ReceivedOf(n)
        BY <1>2 DEF EventsOf
      <4>2. MessageOf(n) = m
        BY <1>1, <4>1 DEF EventsOf
      <4> QED BY <1>3, <2>1, <4>1, <4>2
    <3> HIDE DEF B
    <3> QED BY <3>1, <3>2
  <2>4. Cardinality(A) = 1 /\ Cardinality(B) = 1
    <3> HIDE DEF A, B
    <3> QED BY <2>2, <2>3, FS_Singleton
  <2> QED BY <2>4
<1>5. CASE ~\E k \in Keys(L) : MessageOf(k) = m
  <2>1. A = {}
    BY <1>1, <1>2, <1>5 DEF EventsOf
  <2>2. B = {}
    BY <1>1, <1>2, <1>5 DEF EventsOf
  <2>3. Cardinality(A) = Cardinality(B)
    <3> HIDE DEF A, B
    <3> QED BY <2>1, <2>2
  <2> QED BY <2>3
<1> QED BY <1>4, <1>5

LEMMA TraceBalanced ==
    ASSUME NEW rows, NEW L, SegmentTrace(rows, L)
    PROVE  BusBalanced(rows)
  BY MessageBalanced DEF BusBalanced

-----------------------------------------------------------------------------
(* The finalized segment.                                                  *)

LEMMA FinalIsTrace ==
    ASSUME FinalInv, final # None
    PROVE  SegmentTrace(final.rows, UpdateLayers(FromMemory(start), memory, touched))
<1> DEFINE nodes == FromMemory(start)
           leaves == UpdateLeaves(nodes, memory, touched)
           L == UpdateLayers(nodes, memory, touched)
<1>1. /\ touched \in SUBSET Labels /\ final = FinalizeTree(nodes, memory, touched)
      /\ \A l \in Labels \ touched : memory[l] = start[l]
  BY DEF FinalInv, MerkleInv
<1>2. Represents(nodes, start)
  BY FromMemoryRepresents
<1> HIDE DEF nodes
<1>3. IsTrace(final.rows, start, memory, L, touched)
  BY <1>1, <1>2, FinalizeIsTrace
<1>4. Layered(L) /\ (touched # {} => DOMAIN L[0] = {LeafIndex(l) : l \in touched})
  BY <1>1, UpdateIsLayered
<1>5. ASSUME NEW g \in 0..Height, NEW j \in Level(g), ~ChangedAt(L, touched, g, j)
      PROVE  NodeOf(memory, g, j) = NodeOf(start, g, j)
  <2>1. CASE g = 0
    <3>1. LabelAt(j) \in Labels /\ LeafIndex(LabelAt(j)) = j
      BY <2>1, LabelAtLeaf
    <3>2. LabelAt(j) \notin touched
      BY <1>5, <2>1, <3>1 DEF ChangedAt
    <3>3. memory[LabelAt(j)] = start[LabelAt(j)]
      BY <1>1, <3>1, <3>2
    <3>4. \A mem : NodeOf(mem, g, j) = Hash(mem[LabelAt(j)])
      BY <2>1, NodeOfStep
    <3> QED BY <3>3, <3>4
  <2>2. CASE g # 0
    <3>1. j \in Level(g) \ DOMAIN L[g]
      BY <1>5, <2>2 DEF ChangedAt
    <3>2. Covers(leaves, start, memory)
      BY <1>1, <1>2, UpdateCovers
    <3>3. \A i \in Level(g) \ DOMAIN Layers(nodes, leaves)[g] : NodeOf(memory, g, i) = NodeOf(start, g, i)
      <4> HIDE DEF leaves
      <4> QED BY <1>2, <3>2, LayerOfUpdate
    <3> QED BY <3>1, <3>3 DEF UpdateLayers
  <2> QED BY <2>1, <2>2
<1> HIDE DEF L
<1>6. SegmentTrace(final.rows, L)
  BY <1>1, <1>3, <1>4, <1>5 DEF SegmentTrace
<1> QED BY <1>6 DEF L, nodes

LEMMA FinalInvRows == FinalInv => RowsAccepted
<1> SUFFICES ASSUME FinalInv, final # None
             PROVE  /\ Eval(Padded(final.rows), final.init_root, final.final_root)
                    /\ BusBalanced(final.rows)
  BY DEF RowsAccepted
<1> DEFINE L == UpdateLayers(FromMemory(start), memory, touched)
<1>1. SegmentTrace(final.rows, L)
  BY FinalIsTrace
<1>2. final.init_root = ReferenceRoot(start) /\ final.final_root = ReferenceRoot(memory)
  BY DEF FinalInv, MerkleInv
<1>3. \A mem : NodeOf(mem, Height, 1) = ReferenceRoot(mem)
  <2>1. Height - Height = 0
    BY Heights
  <2>2. 1 - 2^(Height - Height) = 0
    BY <2>1, TwoToZero
  <2> QED BY <2>2 DEF NodeOf, ReferenceRoot
<1> HIDE DEF L
<1>4. Eval(Padded(final.rows), NodeOf(start, Height, 1), NodeOf(memory, Height, 1))
  BY <1>1, TraceAccepted DEF SegmentTrace
<1>5. BusBalanced(final.rows)
  BY <1>1, TraceBalanced
<1> QED BY <1>2, <1>3, <1>4, <1>5

\* The Merkle chip's trace of every segment, padded, satisfies every constraint
\* of the Merkle AIR between the two roots the segment publishes, and on the
\* Merkle bus each message has one sender and one receiver or none, the boundary
\* chip's leaves included: for trees of any height, any touched leaves, and also
\* when nothing was touched and leaf 0 stands in (MerkleTree::finalize,
\* MemoryMerkleChip::generate_proving_ctx, MemoryMerkleAir::eval).
THEOREM MerkleRowsAccepted == MerkleSpec => []RowsAccepted
<1>1. FinalInv => RowsAccepted
  BY FinalInvRows
<1> QED BY <1>1, FinalInvInductive, PTL DEF MerkleSpec
=============================================================================
