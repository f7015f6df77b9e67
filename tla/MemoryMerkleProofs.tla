------------------------- MODULE MemoryMerkleProofs -------------------------
(***************************************************************************)
(* The sparse Merkle tree, updated at the touched leaves only, has the root *)
(* of the whole memory: for trees of any height, any contents, any touched  *)
(* leaves and any number of segments.  The public values open at that root. *)
(***************************************************************************)
EXTENDS MemoryMerkle, FiniteSetTheorems, WellFoundedInduction, TLAPS

\* The least-number principle, for a set of numbers.
LEMMA LeastNumber ==
    ASSUME NEW T \in SUBSET Nat, T # {}
    PROVE  \E x \in T : \A y \in T : x <= y
<1>1. IsWellFoundedOn(OpToRel(<, Nat), Nat)
  BY NatLessThanWellFounded
<1>2. PICK x \in T : \A y \in T : ~(<<y, x>> \in OpToRel(<, Nat))
  BY <1>1, WFMin
<1>3. ASSUME NEW y \in T, y < x PROVE FALSE
  BY <1>2, <1>3 DEF OpToRel
<1> QED BY <1>3

-----------------------------------------------------------------------------
(* Powers of two, by counting the subsets of an interval.                  *)

LEMMA TwoTo ==
    ASSUME NEW n \in Nat
    PROVE  2^n \in Nat /\ 2^(n + 1) = 2 * 2^n
<1> DEFINE A == SUBSET (1..n)
           B == {X \cup {n + 1} : X \in A}
<1>1. /\ IsFiniteSet(1..n) /\ Cardinality(1..n) = n
      /\ IsFiniteSet(1..n + 1) /\ Cardinality(1..n + 1) = n + 1
  BY FS_Interval
<1>2. IsFiniteSet(A) /\ Cardinality(A) = 2^n /\ 2^n \in Nat
  BY <1>1, FS_SUBSET, FS_CardinalityType
<1>3. Cardinality(SUBSET (1..n + 1)) = 2^(n + 1)
  BY <1>1, FS_SUBSET
<1>4. SUBSET (1..n + 1) = A \cup B
  <2>1. ASSUME NEW X \in SUBSET (1..n + 1) PROVE X \in A \cup B
    <3>1. CASE n + 1 \in X
      <4>1. X \ {n + 1} \in A
        OBVIOUS
      <4>2. X = (X \ {n + 1}) \cup {n + 1}
        BY <3>1
      <4> QED BY <4>1, <4>2
    <3>2. CASE n + 1 \notin X
      BY <3>2
    <3> QED BY <3>1, <3>2
  <2>2. ASSUME NEW X \in A \cup B PROVE X \in SUBSET (1..n + 1)
    OBVIOUS
  <2> QED BY <2>1, <2>2
<1>5. A \cap B = {}
  OBVIOUS
<1>6. IsFiniteSet(B) /\ Cardinality(B) = Cardinality(A)
  <2> DEFINE f == [X \in A |-> X \cup {n + 1}]
  <2>1. ASSUME NEW X \in A, NEW Y \in A, X \cup {n + 1} = Y \cup {n + 1} PROVE X = Y
    BY <2>1
  <2>f. f \in [A -> B]
    <3>1. \A X \in A : X \cup {n + 1} \in B
      OBVIOUS
    <3> HIDE DEF A, B
    <3> QED BY <3>1
  <2>2. \A X \in A, Y \in A : f[X] = f[Y] => X = Y
    <3> HIDE DEF A, B
    <3> QED BY <2>1
  <2>3. \A Z \in B : \E X \in A : f[X] = Z
    OBVIOUS
  <2> HIDE DEF f, A, B
  <2>4. ExistsBijection(A, B)
    BY <2>f, <2>2, <2>3 DEF ExistsBijection, Bijection, Injection, Surjection, IsInjective
  <2> QED BY <1>2, <2>4, FS_Bijection
<1>7. Cardinality(A \cup B) = Cardinality(A) + Cardinality(B) - Cardinality(A \cap B)
  <2> HIDE DEF A, B
  <2> QED BY <1>2, <1>6, FS_Union
<1>8. Cardinality(A \cap B) = 0
  BY <1>5, FS_EmptySet
<1> HIDE DEF A, B
<1>9. Cardinality(A \cup B) = 2 * 2^n
  BY <1>2, <1>6, <1>7, <1>8
<1> QED BY <1>2, <1>3, <1>4, <1>9

LEMMA TwoToZero == ASSUME NEW n, n = 0 PROVE 2^n = 1
<1>1. 2^0 = 1
  BY SMT
<1> QED BY <1>1, Zenon

LEMMA TwoToPositive == \A n \in Nat : 2^n > 0
<1> DEFINE Bad == {n \in Nat : ~(2^n > 0)}
<1> SUFFICES ASSUME Bad # {} PROVE FALSE
  OBVIOUS
<1>1. PICK n \in Bad : n \in Nat /\ \A y \in Bad : n <= y
  BY LeastNumber
<1>3. n # 0
  BY <1>1, TwoToZero
<1>4. n - 1 \in Nat /\ n - 1 \notin Bad /\ (n - 1) + 1 = n
  <2> HIDE DEF Bad
  <2> QED BY <1>1, <1>3
<1>5. 2^(n - 1) > 0
  BY <1>4
<1>6. 2^n = 2 * 2^(n - 1) /\ 2^(n - 1) \in Nat
  BY <1>4, TwoTo
<1> QED BY <1>1, <1>5, <1>6

LEMMA TwoToMonotone ==
    ASSUME NEW k \in Nat, NEW n \in Nat, k <= n
    PROVE  2^k <= 2^n
<1> DEFINE Bad == {m \in Nat : k <= m /\ ~(2^k <= 2^m)}
<1> SUFFICES ASSUME Bad # {} PROVE FALSE
  OBVIOUS
<1>1. PICK m \in Bad : m \in Nat /\ k <= m /\ ~(2^k <= 2^m) /\ \A y \in Bad : m <= y
  BY LeastNumber
<1>2. m # k
  BY <1>1, TwoTo
<1>3. m - 1 \in Nat /\ k <= m - 1 /\ (m - 1) + 1 = m
  BY <1>1, <1>2
<1>4. m - 1 \notin Bad
  <2> HIDE DEF Bad
  <2> QED BY <1>1, <1>3
<1>5. 2^k <= 2^(m - 1)
  BY <1>3, <1>4
<1>6. 2^m = 2 * 2^(m - 1) /\ 2^(m - 1) \in Nat /\ 2^k \in Nat
  BY <1>3, TwoTo
<1> QED BY <1>1, <1>5, <1>6

LEMMA TwoToSum ==
    ASSUME NEW a \in Nat, NEW b \in Nat
    PROVE  2^(a + b) = 2^a * 2^b
<1> DEFINE Bad == {m \in Nat : 2^(m + b) # 2^m * 2^b}
<1> SUFFICES ASSUME Bad # {} PROVE FALSE
  OBVIOUS
<1>1. PICK m \in Bad : m \in Nat /\ 2^(m + b) # 2^m * 2^b /\ \A y \in Bad : m <= y
  BY LeastNumber
<1>2. m # 0
  <2> SUFFICES ASSUME m = 0 PROVE FALSE
    OBVIOUS
  <2>1. 2^m = 1 /\ m + b = b /\ 2^b \in Nat
    BY TwoTo, TwoToZero
  <2> QED BY <1>1, <2>1
<1> DEFINE k == m - 1
<1>3. k \in Nat /\ k + 1 = m /\ (k + b) + 1 = m + b /\ k + b \in Nat
  BY <1>1, <1>2
<1>4. k \notin Bad
  <2> HIDE DEF Bad
  <2> QED BY <1>1, <1>3
<1>5. 2^(k + b) = 2^k * 2^b
  BY <1>3, <1>4
<1> HIDE DEF k
<1>6. /\ 2^(k + 1) = 2 * 2^k /\ 2^((k + b) + 1) = 2 * 2^(k + b)
      /\ 2^k \in Nat /\ 2^b \in Nat /\ 2^(k + b) \in Nat
  BY <1>3, TwoTo
<1>7. 2^m = 2 * 2^k /\ 2^(m + b) = 2 * 2^(k + b)
  BY <1>3, <1>6
<1>8. ASSUME NEW x \in Nat, NEW y \in Nat PROVE (2 * x) * y = 2 * (x * y)
  OBVIOUS
<1>9. (2 * 2^k) * 2^b = 2 * (2^k * 2^b)
  BY <1>6, <1>8
<1> QED BY <1>1, <1>5, <1>7, <1>9

\* Every number below A * P is a multiple of P and a rest.
LEMMA Division ==
    ASSUME NEW P \in Nat, P > 0, NEW A \in Nat, NEW j \in Nat, j < A * P
    PROVE  \E q \in 0..A - 1, r \in 0..P - 1 : j = q * P + r
<1> DEFINE Splits(B) == \A x \in Nat : x < B * P =>
                          \E q \in 0..B - 1, r \in 0..P - 1 : x = q * P + r
           Bad == {B \in Nat : ~Splits(B)}
<1>1. Bad = {}
  <2> SUFFICES ASSUME Bad # {} PROVE FALSE
    OBVIOUS
  <2>1. PICK B \in Bad : B \in Nat /\ ~Splits(B) /\ \A y \in Bad : B <= y
    BY LeastNumber
  <2>2. PICK x \in Nat : x < B * P /\ ~\E q \in 0..B - 1, r \in 0..P - 1 : x = q * P + r
    BY <2>1
  <2>3. B # 0
    <3>1. 0 * P = 0
      OBVIOUS
    <3> QED BY <2>2, <3>1
  <2> DEFINE C == B - 1
  <2>4. C \in Nat /\ C + 1 = B /\ C \in 0..B - 1 /\ \A q \in 0..C - 1 : q \in 0..B - 1
    BY <2>1, <2>3
  <2>5. Splits(C)
    <3>1. C \notin Bad
      <4> HIDE DEF Bad
      <4> QED BY <2>1, <2>4
    <3> QED BY <2>4, <3>1
  <2> HIDE DEF C
  <2>6. (C + 1) * P = C * P + P /\ C * P \in Nat
    BY <2>4
  <2>7. CASE x < C * P
    BY <2>2, <2>4, <2>5, <2>7
  <2>8. CASE ~(x < C * P)
    <3> DEFINE r == x - C * P
    <3>1. r \in 0..P - 1 /\ x = C * P + r
      BY <2>2, <2>4, <2>6, <2>8
    <3> HIDE DEF r
    <3> QED BY <2>2, <2>4, <3>1
  <2> QED BY <2>7, <2>8
<1>2. Splits(A)
  BY <1>1
<1> QED BY <1>2

-----------------------------------------------------------------------------
(* Node indices.                                                           *)

\* The indices of the nodes at height h.
Level(h) == 2^(Height - h)..2 * 2^(Height - h) - 1

LEMMA Heights == Height \in Nat /\ addr_space_height \in Nat /\ address_height \in Nat
  BY MerkleAssumption DEF Height

\* A level has twice the nodes of the one above.
LEMMA LevelFacts ==
    ASSUME NEW h \in 0..Height
    PROVE  /\ 2^(Height - h) \in Nat /\ 2^(Height - h) > 0
           /\ h > 0 => 2^(Height - (h - 1)) = 2 * 2^(Height - h)
           /\ \A i \in Level(h) : i \in Nat /\ ILog2(i) = Height - h
<1> DEFINE k == Height - h
<1>1. k \in Nat /\ k \in 0..Height /\ (h > 0 => Height - (h - 1) = k + 1)
  BY Heights
<1> HIDE DEF k
<1>2. 2^k \in Nat /\ 2^k > 0 /\ 2^(k + 1) = 2 * 2^k
  BY <1>1, TwoTo, TwoToPositive
<1>3. ASSUME NEW i \in 2^k..2 * 2^k - 1 PROVE i \in Nat /\ ILog2(i) = k
  <2>1. i \in Nat /\ 2^k <= i /\ i < 2^(k + 1)
    BY <1>2
  <2>2. ASSUME NEW j \in 0..Height, 2^j <= i, i < 2^(j + 1) PROVE j = k
    <3>1. j \in Nat /\ 2^j \in Nat /\ 2^(j + 1) \in Nat
      BY Heights, TwoTo
    <3>2. CASE j < k
      <4>1. 2^(j + 1) <= 2^k
        BY <1>1, <3>1, <3>2, TwoToMonotone
      <4> QED BY <1>2, <2>1, <2>2, <3>1, <4>1
    <3>3. CASE k < j
      <4>1. 2^(k + 1) <= 2^j
        BY <1>1, <3>1, <3>3, TwoToMonotone
      <4> QED BY <1>2, <2>1, <2>2, <3>1, <4>1
    <3> QED BY <1>1, <3>1, <3>2, <3>3
  <2>3. ILog2(i) = k
    BY <1>1, <2>1, <2>2 DEF ILog2
  <2> QED BY <2>1, <2>3
<1> QED BY <1>1, <1>2, <1>3 DEF Level, k

\* The leaf at every index of the lowest level.
LEMMA LabelAtLeaf ==
    /\ \A l \in Labels : LeafIndex(l) \in Level(0)
    /\ \A i \in Level(0) : LabelAt(i) \in Labels /\ LeafIndex(LabelAt(i)) = i
<1> DEFINE P == 2^address_height
           A == 2^addr_space_height
           N == 2^Height
<1>1. P \in Nat /\ P > 0 /\ A \in Nat /\ A > 0 /\ N = A * P /\ N \in Nat
  BY Heights, TwoTo, TwoToPositive, TwoToSum DEF Height
<1>2. Labels = (1..A) \X (0..P - 1)
  <2>1. AddressSpaces = 1..A
    <3>1. (A - 1) + 1 = A
      BY <1>1
    <3> QED BY <3>1 DEF AddressSpaces, ADDR_SPACE_OFFSET
  <2> QED BY <2>1 DEF Labels
<1>3. Level(0) = N..2 * N - 1
  <2>1. Height - 0 = Height
    BY Heights
  <2> QED BY <2>1 DEF Level
<1>4. \A l : LeafIndex(l) = N + ((l[1] - 1) * P + l[2])
  BY DEF LeafIndex, LabelToIndex, ADDR_SPACE_OFFSET
<1> HIDE DEF P, A, N
<1>5. ASSUME NEW l \in Labels PROVE LeafIndex(l) \in Level(0)
  <2> DEFINE q == l[1] - 1
  <2>1. q \in Nat /\ q <= A - 1 /\ l[2] \in 0..P - 1
    BY <1>1, <1>2
  <2> HIDE DEF q
  <2>2. q * P \in Nat /\ q * P <= (A - 1) * P
    <3>1. ASSUME NEW x \in Nat, NEW y \in Nat, NEW p \in Nat, x <= y PROVE x * p <= y * p
      <4>1. y = x + (y - x) /\ y - x \in Nat
        BY <3>1
      <4>2. ASSUME NEW d \in Nat PROVE (x + d) * p = x * p + d * p /\ d * p \in Nat /\ x * p \in Nat
        OBVIOUS
      <4> QED BY <4>1, <4>2
    <3>2. A - 1 \in Nat
      BY <1>1
    <3> QED BY <1>1, <2>1, <3>1, <3>2
  <2>3. (A - 1) * P = A * P - P
    BY <1>1
  <2>4. LeafIndex(l) = N + (q * P + l[2])
    BY <1>4 DEF q
  <2> QED BY <1>1, <1>3, <2>1, <2>2, <2>3, <2>4
<1>6. ASSUME NEW i \in Level(0) PROVE LabelAt(i) \in Labels /\ LeafIndex(LabelAt(i)) = i
  <2>1. i - N \in Nat /\ i - N < A * P /\ i \in Int
    BY <1>1, <1>3
  <2>2. PICK q \in 0..A - 1, r \in 0..P - 1 : i - N = q * P + r
    BY <1>1, <2>1, Division
  <2> DEFINE l == <<q + 1, r>>
  <2>3. l \in Labels /\ l[1] - 1 = q /\ l[2] = r
    BY <1>1, <1>2
  <2>4. q * P \in Int
    BY <1>1
  <2> HIDE DEF l
  <2>5. LeafIndex(l) = i
    BY <1>1, <1>4, <2>1, <2>2, <2>3, <2>4
  <2> QED BY <2>3, <2>5 DEF LabelAt
<1> QED BY <1>5, <1>6

-----------------------------------------------------------------------------
(* The three trees, level by level.                                        *)

LevelAbove(h, below) ==
    [k \in 0..2^(Height - h) - 1 |-> Compress(below[2 * k], below[2 * k + 1])]

AllLeaves(mem) == [k \in 0..2^Height - 1 |-> Hash(mem[LabelAt(2^Height + k)])]

\* The reference tree is well defined.
LEMMA ReferenceTreeDefined ==
    ASSUME NEW mem
    PROVE  ReferenceTree(mem) = [h \in 0..Height |-> IF h = 0 THEN AllLeaves(mem) ELSE LevelAbove(h, ReferenceTree(mem)[h - 1])]
<1> DEFINE Def(f, m) == f = [h \in 0..m |-> IF h = 0 THEN AllLeaves(mem) ELSE LevelAbove(h, f[h - 1])]
           Bad == {m \in Nat : ~\E f : Def(f, m)}
<1>1. Bad = {}
  <2> SUFFICES ASSUME Bad # {} PROVE FALSE
    OBVIOUS
  <2>1. PICK m \in Bad : m \in Nat /\ \A y \in Bad : m <= y
    BY LeastNumber
  <2>2. CASE m = 0
    <3> DEFINE f == [h \in 0..0 |-> AllLeaves(mem)]
    <3>1. Def(f, 0)
      OBVIOUS
    <3> QED BY <2>1, <2>2, <3>1
  <2>3. CASE m # 0
    <3>1. m - 1 \in Nat /\ m - 1 \notin Bad
      <4> HIDE DEF Bad
      <4> QED BY <2>1, <2>3
    <3>2. PICK f : Def(f, m - 1)
      BY <3>1
    <3> DEFINE g == [h \in 0..m |-> IF h = 0 THEN AllLeaves(mem) ELSE LevelAbove(h, f[h - 1])]
    <3>3. ASSUME NEW h \in 1..m PROVE f[h - 1] = g[h - 1]
      <4> DEFINE k == h - 1
      <4>1. k \in 0..m - 1 /\ k \in 0..m
        BY <2>1
      <4> HIDE DEF k
      <4>2. f[k] = IF k = 0 THEN AllLeaves(mem) ELSE LevelAbove(k, f[k - 1])
        BY <3>2, <4>1
      <4>3. g[k] = IF k = 0 THEN AllLeaves(mem) ELSE LevelAbove(k, f[k - 1])
        BY <4>1
      <4> QED BY <4>2, <4>3 DEF k
    <3>4. g = [h \in 0..m |-> IF h = 0 THEN AllLeaves(mem) ELSE LevelAbove(h, f[h - 1])]
      OBVIOUS
    <3> HIDE DEF g
    <3>5. ASSUME NEW h \in 0..m
          PROVE  (IF h = 0 THEN AllLeaves(mem) ELSE LevelAbove(h, f[h - 1]))
                   = (IF h = 0 THEN AllLeaves(mem) ELSE LevelAbove(h, g[h - 1]))
      <4>1. CASE h = 0
        BY <4>1
      <4>2. CASE h # 0
        <5>1. h \in 1..m
          BY <2>1, <4>2
        <5> QED BY <3>3, <4>2, <5>1
      <4> QED BY <4>1, <4>2
    <3>6. Def(g, m)
      BY <3>4, <3>5
    <3> QED BY <2>1, <3>6
  <2> QED BY <2>2, <2>3
<1>2. \E f : Def(f, Height)
  BY <1>1, Heights
<1> QED BY <1>2 DEF ReferenceTree, AllLeaves, LevelAbove

\* So are the nodes of an empty tree.
LEMMA ZeroNodesDefined ==
    ZeroNodes = [h \in 0..Height |-> IF h = 0 THEN Hash(Zero) ELSE Compress(ZeroNodes[h - 1], ZeroNodes[h - 1])]
<1> DEFINE Def(f, m) == f = [h \in 0..m |-> IF h = 0 THEN Hash(Zero) ELSE Compress(f[h - 1], f[h - 1])]
           Bad == {m \in Nat : ~\E f : Def(f, m)}
<1>1. Bad = {}
  <2> SUFFICES ASSUME Bad # {} PROVE FALSE
    OBVIOUS
  <2>1. PICK m \in Bad : m \in Nat /\ \A y \in Bad : m <= y
    BY LeastNumber
  <2>2. CASE m = 0
    <3> DEFINE f == [h \in 0..0 |-> Hash(Zero)]
    <3>1. Def(f, 0)
      OBVIOUS
    <3> QED BY <2>1, <2>2, <3>1
  <2>3. CASE m # 0
    <3>1. m - 1 \in Nat /\ m - 1 \notin Bad
      <4> HIDE DEF Bad
      <4> QED BY <2>1, <2>3
    <3>2. PICK f : Def(f, m - 1)
      BY <3>1
    <3> DEFINE g == [h \in 0..m |-> IF h = 0 THEN Hash(Zero) ELSE Compress(f[h - 1], f[h - 1])]
    <3>3. ASSUME NEW h \in 1..m PROVE f[h - 1] = g[h - 1]
      <4> DEFINE k == h - 1
      <4>1. k \in 0..m - 1 /\ k \in 0..m
        BY <2>1
      <4> HIDE DEF k
      <4>2. f[k] = IF k = 0 THEN Hash(Zero) ELSE Compress(f[k - 1], f[k - 1])
        BY <3>2, <4>1
      <4>3. g[k] = IF k = 0 THEN Hash(Zero) ELSE Compress(f[k - 1], f[k - 1])
        BY <4>1
      <4> QED BY <4>2, <4>3 DEF k
    <3>4. g = [h \in 0..m |-> IF h = 0 THEN Hash(Zero) ELSE Compress(f[h - 1], f[h - 1])]
      OBVIOUS
    <3> HIDE DEF g
    <3>5. ASSUME NEW h \in 0..m
          PROVE  (IF h = 0 THEN Hash(Zero) ELSE Compress(f[h - 1], f[h - 1]))
                   = (IF h = 0 THEN Hash(Zero) ELSE Compress(g[h - 1], g[h - 1]))
      <4>1. CASE h = 0
        BY <4>1
      <4>2. CASE h # 0
        <5>1. h \in 1..m
          BY <2>1, <4>2
        <5> QED BY <3>3, <4>2, <5>1
      <4> QED BY <4>1, <4>2
    <3>6. Def(g, m)
      BY <3>4, <3>5
    <3> QED BY <2>1, <3>6
  <2> QED BY <2>2, <2>3
<1>2. \E f : Def(f, Height)
  BY <1>1, Heights
<1> QED BY <1>2 DEF ZeroNodes

\* And the layers of an update.
LEMMA LayersDefined ==
    ASSUME NEW nodes, NEW leaves
    PROVE  Layers(nodes, leaves) = [h \in 0..Height |-> IF h = 0 THEN leaves ELSE LayerAbove(nodes, Layers(nodes, leaves)[h - 1])]
<1> DEFINE Def(f, m) == f = [h \in 0..m |-> IF h = 0 THEN leaves ELSE LayerAbove(nodes, f[h - 1])]
           Bad == {m \in Nat : ~\E f : Def(f, m)}
<1>1. Bad = {}
  <2> SUFFICES ASSUME Bad # {} PROVE FALSE
    OBVIOUS
  <2>1. PICK m \in Bad : m \in Nat /\ \A y \in Bad : m <= y
    BY LeastNumber
  <2>2. CASE m = 0
    <3> DEFINE f == [h \in 0..0 |-> leaves]
    <3>1. Def(f, 0)
      OBVIOUS
    <3> QED BY <2>1, <2>2, <3>1
  <2>3. CASE m # 0
    <3>1. m - 1 \in Nat /\ m - 1 \notin Bad
      <4> HIDE DEF Bad
      <4> QED BY <2>1, <2>3
    <3>2. PICK f : Def(f, m - 1)
      BY <3>1
    <3> DEFINE g == [h \in 0..m |-> IF h = 0 THEN leaves ELSE LayerAbove(nodes, f[h - 1])]
    <3>3. ASSUME NEW h \in 1..m PROVE f[h - 1] = g[h - 1]
      <4> DEFINE k == h - 1
      <4>1. k \in 0..m - 1 /\ k \in 0..m
        BY <2>1
      <4> HIDE DEF k
      <4>2. f[k] = IF k = 0 THEN leaves ELSE LayerAbove(nodes, f[k - 1])
        BY <3>2, <4>1
      <4>3. g[k] = IF k = 0 THEN leaves ELSE LayerAbove(nodes, f[k - 1])
        BY <4>1
      <4> QED BY <4>2, <4>3 DEF k
    <3>4. g = [h \in 0..m |-> IF h = 0 THEN leaves ELSE LayerAbove(nodes, f[h - 1])]
      OBVIOUS
    <3> HIDE DEF g
    <3>5. ASSUME NEW h \in 0..m
          PROVE  (IF h = 0 THEN leaves ELSE LayerAbove(nodes, f[h - 1]))
                   = (IF h = 0 THEN leaves ELSE LayerAbove(nodes, g[h - 1]))
      <4>1. CASE h = 0
        BY <4>1
      <4>2. CASE h # 0
        <5>1. h \in 1..m
          BY <2>1, <4>2
        <5> QED BY <3>3, <4>2, <5>1
      <4> QED BY <4>1, <4>2
    <3>6. Def(g, m)
      BY <3>4, <3>5
    <3> QED BY <2>1, <3>6
  <2> QED BY <2>2, <2>3
<1>2. \E f : Def(f, Height)
  BY <1>1, Heights
<1> QED BY <1>2 DEF Layers

\* The node of the reference tree that stands at index i, at height h.
NodeOf(mem, h, i) == ReferenceTree(mem)[h][i - 2^(Height - h)]

\* Each is a leaf or compresses the two below.
LEMMA NodeOfStep ==
    ASSUME NEW mem, NEW h \in 0..Height, NEW i \in Level(h)
    PROVE  /\ h = 0 => NodeOf(mem, h, i) = Hash(mem[LabelAt(i)])
           /\ h > 0 => /\ h - 1 \in 0..Height
                       /\ 2 * i \in Level(h - 1) /\ 2 * i + 1 \in Level(h - 1)
                       /\ NodeOf(mem, h, i) =
                            Compress(NodeOf(mem, h - 1, 2 * i), NodeOf(mem, h - 1, 2 * i + 1))
<1> DEFINE T == ReferenceTree(mem)
           p == 2^(Height - h)
           k == i - p
<1>1. p \in Nat /\ p > 0 /\ i \in p..2 * p - 1 /\ (h > 0 => 2^(Height - (h - 1)) = 2 * p)
  BY LevelFacts DEF Level
<1>2. T = [x \in 0..Height |-> IF x = 0 THEN AllLeaves(mem) ELSE LevelAbove(x, T[x - 1])]
  BY ReferenceTreeDefined
<1> HIDE DEF T
<1>3. T[h] = IF h = 0 THEN AllLeaves(mem) ELSE LevelAbove(h, T[h - 1])
  BY <1>2
<1>4. CASE h = 0
  <2>1. p = 2^Height
    <3>1. Height - h = Height
      BY <1>4, Heights
    <3> QED BY <3>1
  <2> HIDE DEF p
  <2>2. k \in 0..p - 1 /\ p + k = i
    BY <1>1
  <2>3. T[h][k] = Hash(mem[LabelAt(i)])
    BY <1>3, <1>4, <2>1, <2>2 DEF AllLeaves
  <2> QED BY <1>4, <2>3 DEF NodeOf, T, p
<1>5. CASE h # 0
  <2>1. h > 0 /\ h - 1 \in 0..Height /\ 2^(Height - (h - 1)) = 2 * p
    BY <1>1, <1>5, Heights
  <2>2. k \in 0..p - 1 /\ 2 * i - 2 * p = 2 * k /\ (2 * i + 1) - 2 * p = 2 * k + 1
        /\ 2 * i \in 2 * p..2 * (2 * p) - 1 /\ 2 * i + 1 \in 2 * p..2 * (2 * p) - 1
    <3> HIDE DEF p
    <3> QED BY <1>1
  <2>3. T[h][k] = Compress(T[h - 1][2 * k], T[h - 1][2 * k + 1])
    BY <1>3, <1>5, <2>2 DEF LevelAbove
  <2>4. 2 * i \in Level(h - 1) /\ 2 * i + 1 \in Level(h - 1)
    BY <2>1, <2>2 DEF Level
  <2>5. NodeOf(mem, h - 1, 2 * i) = T[h - 1][2 * k] /\ NodeOf(mem, h - 1, 2 * i + 1) = T[h - 1][2 * k + 1]
    BY <2>1, <2>2 DEF NodeOf, T
  <2>6. NodeOf(mem, h, i) = T[h][k]
    BY DEF NodeOf, T
  <2> QED BY <1>5, <2>1, <2>3, <2>4, <2>5, <2>6
<1> QED BY <1>4, <1>5

LEMMA InnerNode ==
    ASSUME NEW mem, NEW h \in 0..Height, h > 0, NEW i \in Level(h)
    PROVE  /\ 2 * i \in Level(h - 1) /\ 2 * i + 1 \in Level(h - 1)
           /\ NodeOf(mem, h, i) = Compress(NodeOf(mem, h - 1, 2 * i), NodeOf(mem, h - 1, 2 * i + 1))
  BY NodeOfStep

-----------------------------------------------------------------------------
(* An update of a tree that holds one memory gives a tree that holds the   *)
(* other.                                                                  *)

\* Every node the sparse tree answers with is the node of the whole tree.
Represents(nodes, mem) ==
    \A h \in 0..Height : \A i \in Level(h) : GetNode(nodes, i) = NodeOf(mem, h, i)

\* The leaves of an update cover the difference between two memories.
Covers(leaves, m0, m1) ==
    /\ DOMAIN leaves \subseteq Level(0)
    /\ \A i \in DOMAIN leaves : leaves[i] = Hash(m1[LabelAt(i)])
    /\ \A i \in Level(0) \ DOMAIN leaves : m1[LabelAt(i)] = m0[LabelAt(i)]

\* The parent of a node stands one level up.
LEMMA ParentLevel ==
    ASSUME NEW h \in 0..Height, h > 0, NEW j \in Level(h - 1)
    PROVE  j \div 2 \in Level(h) /\ j \in Nat
<1> DEFINE p == 2^(Height - h)
<1>1. p \in Nat /\ 2^(Height - (h - 1)) = 2 * p
  BY LevelFacts
<1>2. Level(h - 1) = 2 * p..2 * (2 * p) - 1 /\ Level(h) = p..2 * p - 1
  BY <1>1 DEF Level
<1> HIDE DEF p
<1> QED BY <1>1, <1>2

\* A layer lies within its level, and with the tree below it gives the nodes
\* of the new memory.
LEMMA LayerOfUpdate ==
    ASSUME NEW nodes, NEW leaves, NEW m0, NEW m1,
           Represents(nodes, m0), Covers(leaves, m0, m1)
    PROVE  \A h \in 0..Height :
              /\ DOMAIN Layers(nodes, leaves)[h] \subseteq Level(h)
              /\ \A i \in Level(h) : NewNode(nodes, Layers(nodes, leaves)[h], i) = NodeOf(m1, h, i)
              /\ \A i \in Level(h) \ DOMAIN Layers(nodes, leaves)[h] : NodeOf(m1, h, i) = NodeOf(m0, h, i)
<1> DEFINE L == Layers(nodes, leaves)
           Good(h) == /\ DOMAIN L[h] \subseteq Level(h)
                      /\ \A i \in Level(h) : NewNode(nodes, L[h], i) = NodeOf(m1, h, i)
                      /\ \A i \in Level(h) \ DOMAIN L[h] : NodeOf(m1, h, i) = NodeOf(m0, h, i)
           Bad == {h \in 0..Height : ~Good(h)}
<1> SUFFICES ASSUME Bad # {} PROVE FALSE
  OBVIOUS
<1>1. PICK h \in Bad : h \in 0..Height /\ ~Good(h) /\ \A y \in Bad : h <= y
  <2>1. Bad \in SUBSET Nat
    OBVIOUS
  <2>2. PICK h \in Bad : \A y \in Bad : h <= y
    <3> HIDE DEF Bad
    <3> QED BY <2>1, LeastNumber
  <2> QED BY <2>2
<1>2. L[h] = IF h = 0 THEN leaves ELSE LayerAbove(nodes, L[h - 1])
  <2>1. L = [x \in 0..Height |-> IF x = 0 THEN leaves ELSE LayerAbove(nodes, L[x - 1])]
    BY LayersDefined
  <2> HIDE DEF L
  <2> QED BY <1>1, <2>1
<1> HIDE DEF L
<1>3. CASE h = 0
  <2>1. L[h] = leaves /\ DOMAIN leaves \subseteq Level(h)
    BY <1>2, <1>3 DEF Covers
  <2>2. \A i \in Level(h) : /\ NodeOf(m1, h, i) = Hash(m1[LabelAt(i)])
                            /\ NodeOf(m0, h, i) = Hash(m0[LabelAt(i)])
                            /\ GetNode(nodes, i) = NodeOf(m0, h, i)
    BY <1>1, <1>3, NodeOfStep DEF Represents
  <2>3. \A i \in DOMAIN leaves : leaves[i] = Hash(m1[LabelAt(i)])
    BY DEF Covers
  <2>4. \A i \in Level(h) \ DOMAIN leaves : m1[LabelAt(i)] = m0[LabelAt(i)]
    BY <1>3 DEF Covers
  <2>5. \A i \in Level(h) : NewNode(nodes, leaves, i) = NodeOf(m1, h, i)
    BY <2>2, <2>3, <2>4 DEF NewNode
  <2> QED BY <1>1, <2>1, <2>2, <2>4, <2>5
<1>4. CASE h # 0
  <2>1. h > 0 /\ h - 1 \in 0..Height /\ h - 1 \notin Bad
    <3> HIDE DEF Bad
    <3> QED BY <1>1, <1>4, Heights
  <2>2. Good(h - 1)
    BY <2>1
  <2> DEFINE B == L[h - 1]
  <2>3. L[h] = [i \in Parents(DOMAIN B) |-> Compress(NewNode(nodes, B, 2 * i), NewNode(nodes, B, 2 * i + 1))]
    BY <1>2, <1>4 DEF LayerAbove
  <2>4. /\ DOMAIN B \subseteq Level(h - 1)
        /\ \A j \in Level(h - 1) : NewNode(nodes, B, j) = NodeOf(m1, h - 1, j)
        /\ \A j \in Level(h - 1) \ DOMAIN B : NodeOf(m1, h - 1, j) = NodeOf(m0, h - 1, j)
    BY <2>2
  <2> HIDE DEF B
  <2>5. DOMAIN L[h] = Parents(DOMAIN B)
    BY <2>3
  <2>6. Parents(DOMAIN B) \subseteq Level(h)
    BY <1>1, <2>1, <2>4, ParentLevel DEF Parents
  <2>7. ASSUME NEW i \in Level(h)
        PROVE  /\ i \in Nat /\ 2 * i \in Level(h - 1) /\ 2 * i + 1 \in Level(h - 1)
               /\ NodeOf(m1, h, i) = Compress(NodeOf(m1, h - 1, 2 * i), NodeOf(m1, h - 1, 2 * i + 1))
               /\ NodeOf(m0, h, i) = Compress(NodeOf(m0, h - 1, 2 * i), NodeOf(m0, h - 1, 2 * i + 1))
               /\ GetNode(nodes, i) = NodeOf(m0, h, i)
    <3>1. h \in 0..Height /\ h > 0 /\ i \in Nat
      BY <1>1, <2>1, LevelFacts
    <3>2. GetNode(nodes, i) = NodeOf(m0, h, i)
      BY <1>1 DEF Represents
    <3>3. ASSUME NEW m
          PROVE  /\ 2 * i \in Level(h - 1) /\ 2 * i + 1 \in Level(h - 1)
                 /\ NodeOf(m, h, i) = Compress(NodeOf(m, h - 1, 2 * i), NodeOf(m, h - 1, 2 * i + 1))
      BY <3>1, InnerNode
    <3> QED BY <3>1, <3>2, <3>3
  <2>8. ASSUME NEW i \in Level(h), i \notin Parents(DOMAIN B)
        PROVE  NodeOf(m1, h, i) = NodeOf(m0, h, i)
    <3>1. i = (2 * i) \div 2 /\ i = (2 * i + 1) \div 2
      BY <2>7
    <3>2. 2 * i \notin DOMAIN B /\ 2 * i + 1 \notin DOMAIN B
      BY <2>8, <3>1 DEF Parents
    <3> QED BY <2>4, <2>7, <3>2
  <2>9. ASSUME NEW i \in Level(h) PROVE NewNode(nodes, L[h], i) = NodeOf(m1, h, i)
    <3>1. CASE i \in Parents(DOMAIN B)
      <4>1. NewNode(nodes, L[h], i) = Compress(NewNode(nodes, B, 2 * i), NewNode(nodes, B, 2 * i + 1))
        BY <2>3, <2>5, <3>1 DEF NewNode
      <4> QED BY <2>4, <2>7, <4>1
    <3>2. CASE i \notin Parents(DOMAIN B)
      <4>1. NewNode(nodes, L[h], i) = GetNode(nodes, i)
        BY <2>5, <3>2 DEF NewNode
      <4> QED BY <2>7, <2>8, <3>2, <4>1
    <3> QED BY <3>1, <3>2
  <2> QED BY <1>1, <2>5, <2>6, <2>8, <2>9
<1> QED BY <1>3, <1>4

\* Storing the layers makes the tree that of the new memory.
LEMMA UpdateRepresents ==
    ASSUME NEW nodes, NEW leaves, NEW m0, NEW m1,
           Represents(nodes, m0), Covers(leaves, m0, m1)
    PROVE  Represents(Extend(nodes, Layers(nodes, leaves)), m1)
<1> DEFINE L == Layers(nodes, leaves)
           after == Extend(nodes, L)
<1>1. \A h \in 0..Height : /\ DOMAIN L[h] \subseteq Level(h)
                           /\ \A i \in Level(h) : NewNode(nodes, L[h], i) = NodeOf(m1, h, i)
  BY LayerOfUpdate
<1> HIDE DEF L
<1>2. ASSUME NEW h \in 0..Height, NEW i \in Level(h) PROVE GetNode(after, i) = NewNode(nodes, L[h], i)
  <2>1. Height - ILog2(i) = h
    BY Heights, LevelFacts
  <2>2. ASSUME NEW g \in 0..Height, i \in DOMAIN L[g] PROVE g = h
    <3>1. ILog2(i) = Height - g
      BY <1>1, <2>2, LevelFacts
    <3> QED BY <2>1, <3>1, Heights
  <2>3. i \in DOMAIN after <=> i \in DOMAIN nodes \/ i \in DOMAIN L[h]
    BY <2>2 DEF Extend
  <2>4. i \in DOMAIN after => after[i] = IF i \in DOMAIN L[h] THEN L[h][i] ELSE nodes[i]
    BY <2>1 DEF Extend
  <2> HIDE DEF after
  <2>5. CASE i \in DOMAIN after
    BY <2>3, <2>4, <2>5 DEF GetNode, NewNode
  <2>6. CASE i \notin DOMAIN after
    BY <2>3, <2>6 DEF GetNode, NewNode
  <2> QED BY <2>5, <2>6
<1>3. Represents(after, m1)
  <2> HIDE DEF after
  <2> QED BY <1>1, <1>2 DEF Represents
<1> QED BY <1>3 DEF L

-----------------------------------------------------------------------------
(* The trees of the model.                                                 *)

ZeroMemory == [l \in Labels |-> Zero]

\* A node of the whole tree over no data is the zero node of its height.
LEMMA ZeroMemoryNodes ==
    \A h \in 0..Height : \A i \in Level(h) : NodeOf(ZeroMemory, h, i) = ZeroNodes[h]
<1> DEFINE Good(h) == \A i \in Level(h) : NodeOf(ZeroMemory, h, i) = ZeroNodes[h]
           Bad == {h \in 0..Height : ~Good(h)}
<1> SUFFICES ASSUME Bad # {} PROVE FALSE
  OBVIOUS
<1>1. PICK h \in Bad : h \in 0..Height /\ ~Good(h) /\ \A y \in Bad : h <= y
  <2>1. Bad \in SUBSET Nat
    OBVIOUS
  <2>2. PICK h \in Bad : \A y \in Bad : h <= y
    <3> HIDE DEF Bad
    <3> QED BY <2>1, LeastNumber
  <2> QED BY <2>2
<1>2. ZeroNodes[h] = IF h = 0 THEN Hash(Zero) ELSE Compress(ZeroNodes[h - 1], ZeroNodes[h - 1])
  BY <1>1, ZeroNodesDefined
<1>3. CASE h = 0
  <2>1. ASSUME NEW i \in Level(h) PROVE NodeOf(ZeroMemory, h, i) = Hash(Zero)
    <3>1. LabelAt(i) \in Labels
      BY <1>3, LabelAtLeaf
    <3>2. ZeroMemory[LabelAt(i)] = Zero
      BY <3>1 DEF ZeroMemory
    <3> QED BY <1>1, <1>3, <3>2, NodeOfStep
  <2> QED BY <1>1, <1>2, <1>3, <2>1
<1>4. CASE h # 0
  <2>1. h > 0 /\ h - 1 \in 0..Height /\ h - 1 \notin Bad
    <3> HIDE DEF Bad
    <3> QED BY <1>1, <1>4, Heights
  <2>2. \A j \in Level(h - 1) : NodeOf(ZeroMemory, h - 1, j) = ZeroNodes[h - 1]
    BY <2>1
  <2>3. ASSUME NEW i \in Level(h) PROVE NodeOf(ZeroMemory, h, i) = ZeroNodes[h]
    <3>1. /\ 2 * i \in Level(h - 1) /\ 2 * i + 1 \in Level(h - 1)
          /\ NodeOf(ZeroMemory, h, i) = Compress(NodeOf(ZeroMemory, h - 1, 2 * i), NodeOf(ZeroMemory, h - 1, 2 * i + 1))
      BY <1>1, <2>1, InnerNode
    <3> QED BY <1>2, <1>4, <2>2, <3>1
  <2> QED BY <1>1, <2>3
<1> QED BY <1>3, <1>4

LEMMA EmptyRepresents == Represents(Empty, ZeroMemory)
<1> SUFFICES ASSUME NEW h \in 0..Height, NEW i \in Level(h)
             PROVE  GetNode(Empty, i) = NodeOf(ZeroMemory, h, i)
  BY DEF Represents
<1>1. Height - ILog2(i) = h
  BY Heights, LevelFacts
<1>2. i \notin DOMAIN Empty
  BY DEF Empty
<1> QED BY <1>1, <1>2, ZeroMemoryNodes DEF GetNode

\* Hashing the leaves of a set of labels covers a difference within the set.
LEMMA LeavesCover ==
    ASSUME NEW ls \in SUBSET Labels, NEW m0, NEW m1, \A l \in Labels \ ls : m1[l] = m0[l]
    PROVE  Covers(Leaves(m1, ls), m0, m1)
<1> DEFINE X == Leaves(m1, ls)
<1>1. DOMAIN X = {LeafIndex(l) : l \in ls}
  BY DEF Leaves
<1>2. \A i \in DOMAIN X : X[i] = Hash(m1[LabelAt(i)])
  BY DEF Leaves
<1> HIDE DEF X
<1>3. DOMAIN X \subseteq Level(0)
  BY <1>1, LabelAtLeaf
<1>4. ASSUME NEW i \in Level(0), i \notin DOMAIN X PROVE m1[LabelAt(i)] = m0[LabelAt(i)]
  <2>1. LabelAt(i) \in Labels /\ LeafIndex(LabelAt(i)) = i
    BY LabelAtLeaf
  <2>2. LabelAt(i) \notin ls
    BY <1>1, <1>4, <2>1
  <2> QED BY <2>1, <2>2
<1>5. Covers(X, m0, m1)
  BY <1>2, <1>3, <1>4 DEF Covers
<1> QED BY <1>5 DEF X

\* The host pages that from_memory leaves out hold no data.
LEMMA FromMemoryRepresents ==
    ASSUME NEW mem PROVE Represents(FromMemory(mem), mem)
<1>1. Partition(mem) \in SUBSET Labels
  BY DEF Partition
<1>2. ASSUME NEW l \in Labels, l \notin Partition(mem) PROVE mem[l] = ZeroMemory[l]
  <2> DEFINE q == l[2] \div 2^HOST_PAGE_BITS
  <2>1. l[2] \in Nat
    <3>1. 2^address_height \in Nat
      BY Heights, TwoTo
    <3> QED BY <3>1 DEF Labels
  <2>2. 2^HOST_PAGE_BITS \in Nat /\ 2^HOST_PAGE_BITS > 0
    BY MerkleAssumption, TwoTo, TwoToPositive
  <2>3. q \in Int
    <3>1. ASSUME NEW x \in Nat, NEW y \in Nat, y > 0 PROVE x \div y \in Int
      BY <3>1
    <3> QED BY <2>1, <2>2, <3>1
  <2>4. q <= q
    <3> HIDE DEF q
    <3> QED BY <2>3
  <2>5. mem[l] = Zero
    BY <1>2, <2>4 DEF Partition
  <2> QED BY <2>5 DEF ZeroMemory
<1>3. Covers(Leaves(mem, Partition(mem)), ZeroMemory, mem)
  BY <1>1, <1>2, LeavesCover
<1> QED BY <1>3, EmptyRepresents, UpdateRepresents DEF FromMemory

\* Node 1 is the root.
LEMMA RootOf ==
    ASSUME NEW nodes, NEW mem, Represents(nodes, mem)
    PROVE  GetNode(nodes, 1) = ReferenceRoot(mem)
<1>1. Height \in 0..Height /\ Height - Height = 0
  BY Heights
<1>2. 2^(Height - Height) = 1
  BY <1>1, TwoToZero
<1>3. 1 \in Level(Height)
  BY <1>2 DEF Level
<1>4. GetNode(nodes, 1) = NodeOf(mem, Height, 1)
  BY <1>1, <1>3 DEF Represents
<1>5. 1 - 2^(Height - Height) = 0
  BY <1>2
<1> QED BY <1>4, <1>5 DEF NodeOf, ReferenceRoot

-----------------------------------------------------------------------------
(* The public values: a subtree of their address space, opened at the root. *)

LEMMA DivisionFacts ==
    ASSUME NEW x \in Nat, NEW y \in Nat, y > 0
    PROVE  /\ x \div y \in Nat /\ (x \div y) * y <= x /\ x < (x \div y) * y + y
           /\ \A q \in Nat, r \in Nat : r < y /\ x = q * y + r => x \div y = q
<1>1. x \div y \in Nat /\ (x \div y) * y <= x /\ x < (x \div y) * y + y
  OBVIOUS
<1>2. ASSUME NEW q \in Nat, NEW r \in Nat, r < y PROVE (q * y + r) \div y = q
  BY <1>2
<1> QED BY <1>1, <1>2

\* One more bit shifted out.
LEMMA ShiftStep ==
    ASSUME NEW x \in Nat, NEW k \in Nat
    PROVE  x \div 2^(k + 1) = (x \div 2^k) \div 2
<1> DEFINE y == 2^k
           q == x \div y
           r == x - q * y
           h == q \div 2
<1>1. y \in Nat /\ y > 0 /\ 2^(k + 1) = 2 * y
  BY TwoTo, TwoToPositive
<1> HIDE DEF y
<1>2. q \in Nat /\ r \in Nat /\ r < y /\ x = q * y + r
  <2>1. q \in Nat /\ q * y <= x /\ x < q * y + y
    BY <1>1, DivisionFacts
  <2>2. q * y \in Nat
    BY <1>1, <2>1
  <2> HIDE DEF q
  <2> QED BY <1>1, <2>1, <2>2
<1> HIDE DEF q, r
<1>3. h \in Nat /\ (q = 2 * h \/ q = 2 * h + 1)
  BY <1>2
<1> HIDE DEF h
<1>4. (2 * h) * y = h * (2 * y) /\ (2 * h + 1) * y = h * (2 * y) + y
  BY <1>1, <1>3
<1>5. h * (2 * y) \in Nat /\ 2 * y \in Nat /\ 2 * y > 0
  BY <1>1, <1>3
<1>6. PICK s \in Nat : s < 2 * y /\ x = h * (2 * y) + s
  <2>1. CASE q = 2 * h
    BY <1>1, <1>2, <1>4, <1>5, <2>1
  <2>2. CASE q = 2 * h + 1
    <3>1. r + y \in Nat /\ r + y < 2 * y /\ x = h * (2 * y) + (r + y)
      BY <1>1, <1>2, <1>4, <1>5, <2>2
    <3> QED BY <3>1
  <2> QED BY <1>3, <2>1, <2>2
<1>7. x \div (2 * y) = h
  BY <1>3, <1>5, <1>6, DivisionFacts
<1> QED BY <1>1, <1>7 DEF h, q, y

LEMMA ShiftSum ==
    ASSUME NEW x \in Nat, NEW b \in Nat
    PROVE  \A k \in Nat : (x \div 2^b) \div 2^k = x \div 2^(b + k)
<1> DEFINE z == x \div 2^b
           Bad == {k \in Nat : z \div 2^k # x \div 2^(b + k)}
<1> SUFFICES ASSUME Bad # {} PROVE FALSE
  OBVIOUS
<1>1. PICK k \in Bad : k \in Nat /\ z \div 2^k # x \div 2^(b + k) /\ \A y \in Bad : k <= y
  BY LeastNumber
<1>2. z \in Nat
  BY TwoTo, TwoToPositive, DivisionFacts
<1> HIDE DEF z
<1>3. CASE k = 0
  <2>1. 2^k = 1 /\ b + k = b
    BY <1>3, TwoToZero
  <2>2. z \div 1 = z
    BY <1>2
  <2> QED BY <1>1, <2>1, <2>2 DEF z
<1>4. CASE k # 0
  <2> DEFINE j == k - 1
  <2>1. j \in Nat /\ j \notin Bad /\ k = j + 1 /\ b + j \in Nat /\ b + k = (b + j) + 1
    <3> HIDE DEF Bad
    <3> QED BY <1>1, <1>4
  <2>2. z \div 2^j = x \div 2^(b + j)
    BY <2>1
  <2> HIDE DEF j
  <2>3. z \div 2^(j + 1) = (z \div 2^j) \div 2
    BY <1>2, <2>1, ShiftStep
  <2>4. x \div 2^((b + j) + 1) = (x \div 2^(b + j)) \div 2
    BY <2>1, ShiftStep
  <2> QED BY <1>1, <2>1, <2>2, <2>3, <2>4
<1> QED BY <1>3, <1>4

\* The address space of the public values, counted from the first one.
PvAs == PUBLIC_VALUES_AS - ADDR_SPACE_OFFSET

\* The node over chunk number c of height h of that address space.
Position(h, c) == 2^(Height - h) + (PvAs * 2^(address_height - h) + c)

LEMMA PvAsRange == PvAs \in 0..2^addr_space_height - 1
<1>1. 2^addr_space_height \in Nat
  BY Heights, TwoTo
<1> QED BY <1>1, MerkleAssumption DEF PvAs, AddressSpaces, ADDR_SPACE_OFFSET

LEMMA PositionLevel ==
    ASSUME NEW h \in 0..address_height, NEW c \in 0..2^(address_height - h) - 1
    PROVE  h \in 0..Height /\ Position(h, c) \in Level(h)
<1> DEFINE e == address_height - h
           A == 2^addr_space_height
           Q == 2^e
<1>1. e \in Nat /\ Height - h = addr_space_height + e /\ h \in 0..Height
  BY Heights DEF Height
<1>2. A \in Nat /\ Q \in Nat /\ 2^(Height - h) = A * Q
  BY <1>1, Heights, TwoTo, TwoToSum
<1>3. PvAs \in Nat /\ PvAs <= A - 1 /\ A - 1 \in Nat
  BY <1>2, PvAsRange
<1> HIDE DEF A, e
<1>4. ASSUME NEW x \in Nat, NEW y \in Nat, NEW p \in Nat, x <= y PROVE x * p <= y * p
  <2>1. y = x + (y - x) /\ y - x \in Nat
    BY <1>4
  <2>2. ASSUME NEW d \in Nat PROVE (x + d) * p = x * p + d * p /\ d * p \in Nat /\ x * p \in Nat
    OBVIOUS
  <2> QED BY <2>1, <2>2
<1>5. PvAs * Q \in Nat /\ PvAs * Q <= (A - 1) * Q /\ (A - 1) * Q = A * Q - Q /\ A * Q \in Nat
  BY <1>2, <1>3, <1>4
<1>6. c \in 0..Q - 1
  BY DEF e
<1>7. A * Q + (PvAs * Q + c) \in A * Q..2 * (A * Q) - 1
  <2> HIDE DEF Q
  <2> QED BY <1>2, <1>5, <1>6
<1>8. Position(h, c) = A * Q + (PvAs * Q + c)
  BY <1>2 DEF Position, e
<1> HIDE DEF Q
<1> QED BY <1>1, <1>2, <1>7, <1>8 DEF Level

LEMMA PositionStep ==
    ASSUME NEW h \in 0..address_height, h > 0, NEW c \in 0..2^(address_height - h) - 1
    PROVE  /\ h - 1 \in 0..address_height
           /\ 2 * c \in 0..2^(address_height - (h - 1)) - 1
           /\ 2 * c + 1 \in 0..2^(address_height - (h - 1)) - 1
           /\ Position(h - 1, 2 * c) = 2 * Position(h, c)
           /\ Position(h - 1, 2 * c + 1) = 2 * Position(h, c) + 1
<1> DEFINE e == address_height - h
           Q == 2^e
           T == 2^(Height - h)
<1>1. e \in Nat /\ address_height - (h - 1) = e + 1 /\ h \in 0..Height /\ h - 1 \in 0..address_height
  BY Heights DEF Height
<1>2. Q \in Nat /\ 2^(address_height - (h - 1)) = 2 * Q
  BY <1>1, TwoTo
<1>3. T \in Nat /\ 2^(Height - (h - 1)) = 2 * T
  BY <1>1, LevelFacts
<1>4. c \in 0..Q - 1 /\ Position(h, c) = T + (PvAs * Q + c)
  BY DEF Position
<1>5. /\ Position(h - 1, 2 * c) = 2 * T + (PvAs * (2 * Q) + 2 * c)
      /\ Position(h - 1, 2 * c + 1) = 2 * T + (PvAs * (2 * Q) + (2 * c + 1))
  BY <1>2, <1>3 DEF Position
<1>6. PvAs \in Nat
  <2>1. 2^addr_space_height \in Nat
    BY Heights, TwoTo
  <2> QED BY <2>1, PvAsRange
<1> HIDE DEF e, Q, T
<1>7. PvAs * (2 * Q) = 2 * (PvAs * Q) /\ PvAs * Q \in Nat
  BY <1>2, <1>6
<1> QED BY <1>1, <1>2, <1>3, <1>4, <1>5, <1>7

LEMMA PvLeaf ==
    ASSUME NEW c \in 0..2^address_height - 1
    PROVE  LabelAt(Position(0, c)) = <<PUBLIC_VALUES_AS, c>> /\ <<PUBLIC_VALUES_AS, c>> \in Labels
<1> DEFINE P == 2^address_height
           N == 2^Height
           i == Position(0, c)
           l == LabelAt(i)
<1>1. P \in Nat /\ P > 0 /\ N \in Nat /\ 0 \in 0..address_height
  BY Heights, TwoTo, TwoToPositive
<1>2. Height - 0 = Height /\ address_height - 0 = address_height
  BY Heights
<1>3. i = N + (PvAs * P + c)
  BY <1>2 DEF Position
<1>4. i \in Level(0)
  BY <1>1, <1>2, PositionLevel
<1>5. l \in Labels /\ LeafIndex(l) = i
  BY <1>4, LabelAtLeaf
<1>6. l[1] - 1 \in Nat /\ l[2] \in 0..P - 1 /\ l = <<l[1], l[2]>> /\ l[1] \in Int
  <2>1. 2^addr_space_height \in Nat
    BY Heights, TwoTo
  <2> HIDE DEF l, i
  <2> QED BY <1>5, <2>1 DEF Labels, AddressSpaces, ADDR_SPACE_OFFSET
<1>7. N + ((l[1] - 1) * P + l[2]) = N + (PvAs * P + c)
  BY <1>3, <1>5 DEF LeafIndex, LabelToIndex, ADDR_SPACE_OFFSET
<1>8. PvAs \in Nat /\ PvAs = PUBLIC_VALUES_AS - 1 /\ PUBLIC_VALUES_AS \in Int
  <2>1. 2^addr_space_height \in Nat
    BY Heights, TwoTo
  <2> QED BY <2>1, PvAsRange, MerkleAssumption DEF PvAs, ADDR_SPACE_OFFSET, PUBLIC_VALUES_AS
<1>9. c \in 0..P - 1
  OBVIOUS
<1> DEFINE q == l[1] - 1
           r == l[2]
<1>10. q \in Nat /\ r \in 0..P - 1 /\ q * P + r = PvAs * P + c
  <2>1. ASSUME NEW x \in Nat, NEW y \in Nat, N + x = N + y PROVE x = y
    BY <1>1, <2>1
  <2>2. q * P + r \in Nat /\ PvAs * P + c \in Nat
    <3> HIDE DEF P, N, l, i
    <3>1. ASSUME NEW x \in Nat, NEW y \in 0..P - 1 PROVE x * P + y \in Nat
      <4>1. x * P \in Nat
        BY <1>1
      <4> QED BY <1>1, <4>1
    <3>2. q \in Nat /\ r \in 0..P - 1
      BY <1>6
    <3> HIDE DEF q, r
    <3> QED BY <1>8, <1>9, <3>1, <3>2
  <2> HIDE DEF P, N, l, i
  <2> QED BY <1>6, <1>7, <2>1, <2>2
<1> HIDE DEF P, N, l, i, q, r
<1>11. q = PvAs /\ r = c
  <2>1. (q * P + r) \div P = q /\ (PvAs * P + c) \div P = PvAs
    <3>1. ASSUME NEW x \in Nat, NEW y \in 0..P - 1 PROVE (x * P + y) \div P = x
      <4>1. x * P + y \in Nat /\ y \in Nat /\ y < P
        <5>1. x * P \in Nat
          BY <1>1
        <5> QED BY <1>1, <5>1
      <4> QED BY <1>1, <4>1, DivisionFacts
    <3> QED BY <1>8, <1>9, <1>10, <3>1
  <2>2. q = PvAs
    BY <1>10, <2>1
  <2>3. PvAs * P \in Nat
    BY <1>1, <1>8
  <2> QED BY <1>1, <1>9, <1>10, <2>2, <2>3
<1>12. l[1] = PUBLIC_VALUES_AS /\ l[2] = c
  BY <1>6, <1>8, <1>11 DEF q, r
<1>13. l = <<PUBLIC_VALUES_AS, c>>
  BY <1>6, <1>12
<1> QED BY <1>5, <1>13 DEF l, i

\* There are no cells behind the public values in their address space.
PvClean(mem) ==
    \A l \in Labels : l[1] = PUBLIC_VALUES_AS /\ ~(l[2] < 2^num_pv_bits) => mem[l] = Zero

LEMMA PvBits == num_pv_bits \in Nat /\ num_pv_bits <= address_height /\ num_pv_bits <= Height
  BY MerkleAssumption, Heights DEF Height

\* So the nodes over the rest of the address space are zero nodes.
LEMMA UnusedNodes ==
    ASSUME NEW mem, PvClean(mem)
    PROVE  \A h \in 0..address_height : \A c \in 0..2^(address_height - h) - 1 :
              c * 2^h >= 2^num_pv_bits => NodeOf(mem, h, Position(h, c)) = ZeroNodes[h]
<1> DEFINE Good(h) == \A c \in 0..2^(address_height - h) - 1 :
                        c * 2^h >= 2^num_pv_bits => NodeOf(mem, h, Position(h, c)) = ZeroNodes[h]
           Bad == {h \in 0..address_height : ~Good(h)}
<1> SUFFICES ASSUME Bad # {} PROVE FALSE
  OBVIOUS
<1>1. PICK h \in Bad : h \in 0..address_height /\ ~Good(h) /\ \A y \in Bad : h <= y
  <2>1. Bad \in SUBSET Nat
    OBVIOUS
  <2>2. PICK h \in Bad : \A y \in Bad : h <= y
    <3> HIDE DEF Bad
    <3> QED BY <2>1, LeastNumber
  <2> QED BY <2>2
<1>2. PICK c \in 0..2^(address_height - h) - 1 :
        c * 2^h >= 2^num_pv_bits /\ NodeOf(mem, h, Position(h, c)) # ZeroNodes[h]
  BY <1>1
<1>3. h \in 0..Height /\ Position(h, c) \in Level(h)
  BY <1>1, <1>2, PositionLevel
<1>4. ZeroNodes[h] = IF h = 0 THEN Hash(Zero) ELSE Compress(ZeroNodes[h - 1], ZeroNodes[h - 1])
  BY <1>3, ZeroNodesDefined
<1>5. 2^(address_height - h) \in Nat /\ 2^num_pv_bits \in Nat
  <2>1. address_height - h \in Nat
    BY <1>1, Heights
  <2> QED BY <2>1, PvBits, TwoTo
<1>6. c \in Nat
  BY <1>2, <1>5
<1>7. CASE h = 0
  <2>1. 2^h = 1 /\ address_height - h = address_height
    BY <1>7, TwoToZero, Heights
  <2>2. c >= 2^num_pv_bits /\ c \in 0..2^address_height - 1
    <3>1. c * 2^h = c
      BY <1>6, <2>1
    <3> QED BY <1>2, <2>1, <3>1
  <2>3. LabelAt(Position(h, c)) = <<PUBLIC_VALUES_AS, c>> /\ <<PUBLIC_VALUES_AS, c>> \in Labels
    BY <1>7, <2>2, PvLeaf
  <2>4. mem[<<PUBLIC_VALUES_AS, c>>] = Zero
    <3>1. ~(c < 2^num_pv_bits)
      BY <1>5, <1>6, <2>2
    <3> QED BY <2>3, <3>1 DEF PvClean
  <2>5. NodeOf(mem, h, Position(h, c)) = Hash(mem[LabelAt(Position(h, c))])
    BY <1>3, <1>7, NodeOfStep
  <2> QED BY <1>2, <1>4, <1>7, <2>3, <2>4, <2>5
<1>8. CASE h # 0
  <2> DEFINE g == h - 1
  <2>1. h > 0 /\ g \in 0..address_height /\ g \notin Bad
    <3> HIDE DEF Bad
    <3> QED BY <1>1, <1>8, Heights
  <2>2. Good(g)
    BY <2>1
  <2>3. /\ 2 * c \in 0..2^(address_height - g) - 1 /\ 2 * c + 1 \in 0..2^(address_height - g) - 1
        /\ Position(g, 2 * c) = 2 * Position(h, c) /\ Position(g, 2 * c + 1) = 2 * Position(h, c) + 1
    BY <1>1, <1>2, <2>1, PositionStep
  <2>4. (2 * c) * 2^g >= 2^num_pv_bits /\ (2 * c + 1) * 2^g >= 2^num_pv_bits
    <3> DEFINE y == 2^g
    <3>1. y \in Nat /\ 2^h = 2 * y
      <4>1. g \in Nat /\ h = g + 1
        BY <1>1, <2>1
      <4> HIDE DEF g
      <4> QED BY <4>1, TwoTo
    <3> HIDE DEF y
    <3>2. (2 * c) * y = c * (2 * y) /\ (2 * c + 1) * y = c * (2 * y) + y /\ c * (2 * y) \in Nat
      BY <1>6, <3>1
    <3>3. (2 * c) * y >= 2^num_pv_bits /\ (2 * c + 1) * y >= 2^num_pv_bits
      BY <1>2, <1>5, <3>1, <3>2
    <3> QED BY <3>3 DEF y
  <2>5. NodeOf(mem, g, Position(g, 2 * c)) = ZeroNodes[g] /\ NodeOf(mem, g, Position(g, 2 * c + 1)) = ZeroNodes[g]
    BY <2>2, <2>3, <2>4
  <2>6. NodeOf(mem, h, Position(h, c)) =
          Compress(NodeOf(mem, g, 2 * Position(h, c)), NodeOf(mem, g, 2 * Position(h, c) + 1))
    BY <1>3, <2>1, InnerNode
  <2> QED BY <1>2, <1>4, <1>8, <2>3, <2>5, <2>6
<1> QED BY <1>7, <1>8

PvLayerAbove(h, below) ==
    [k \in 0..2^(num_pv_bits - h) - 1 |-> Compress(below[2 * k], below[2 * k + 1])]

LEMMA PvLayersDefined ==
    ASSUME NEW leaves
    PROVE  PvLayers(leaves) = [h \in 0..num_pv_bits |-> IF h = 0 THEN leaves ELSE PvLayerAbove(h, PvLayers(leaves)[h - 1])]
<1> DEFINE Def(f, m) == f = [h \in 0..m |-> IF h = 0 THEN leaves ELSE PvLayerAbove(h, f[h - 1])]
           Bad == {m \in Nat : ~\E f : Def(f, m)}
<1>1. Bad = {}
  <2> SUFFICES ASSUME Bad # {} PROVE FALSE
    OBVIOUS
  <2>1. PICK m \in Bad : m \in Nat /\ \A y \in Bad : m <= y
    BY LeastNumber
  <2>2. CASE m = 0
    <3> DEFINE f == [h \in 0..0 |-> leaves]
    <3>1. Def(f, 0)
      OBVIOUS
    <3> QED BY <2>1, <2>2, <3>1
  <2>3. CASE m # 0
    <3>1. m - 1 \in Nat /\ m - 1 \notin Bad
      <4> HIDE DEF Bad
      <4> QED BY <2>1, <2>3
    <3>2. PICK f : Def(f, m - 1)
      BY <3>1
    <3> DEFINE g == [h \in 0..m |-> IF h = 0 THEN leaves ELSE PvLayerAbove(h, f[h - 1])]
    <3>3. ASSUME NEW h \in 1..m PROVE f[h - 1] = g[h - 1]
      <4> DEFINE k == h - 1
      <4>1. k \in 0..m - 1 /\ k \in 0..m
        BY <2>1
      <4> HIDE DEF k
      <4>2. f[k] = IF k = 0 THEN leaves ELSE PvLayerAbove(k, f[k - 1])
        BY <3>2, <4>1
      <4>3. g[k] = IF k = 0 THEN leaves ELSE PvLayerAbove(k, f[k - 1])
        BY <4>1
      <4> QED BY <4>2, <4>3 DEF k
    <3>4. g = [h \in 0..m |-> IF h = 0 THEN leaves ELSE PvLayerAbove(h, f[h - 1])]
      OBVIOUS
    <3> HIDE DEF g
    <3>5. ASSUME NEW h \in 0..m
          PROVE  (IF h = 0 THEN leaves ELSE PvLayerAbove(h, f[h - 1]))
                   = (IF h = 0 THEN leaves ELSE PvLayerAbove(h, g[h - 1]))
      <4>1. CASE h = 0
        BY <4>1
      <4>2. CASE h # 0
        <5>1. h \in 1..m
          BY <2>1, <4>2
        <5> QED BY <3>3, <4>2, <5>1
      <4> QED BY <4>1, <4>2
    <3>6. Def(g, m)
      BY <3>4, <3>5
    <3> QED BY <2>1, <3>6
  <2> QED BY <2>2, <2>3
<1>2. \E f : Def(f, num_pv_bits)
  BY <1>1, PvBits
<1> QED BY <1>2 DEF PvLayers, PvLayerAbove

\* The commitment to the public values is the node over them.
LEMMA PvLayerNodes ==
    ASSUME NEW mem
    PROVE  \A h \in 0..num_pv_bits : \A k \in 0..2^(num_pv_bits - h) - 1 :
              PvLayers(PvHash(extract_public_values(mem)))[h][k] = NodeOf(mem, h, Position(h, k))
<1> DEFINE R == PvLayers(PvHash(extract_public_values(mem)))
           Good(h) == \A k \in 0..2^(num_pv_bits - h) - 1 : R[h][k] = NodeOf(mem, h, Position(h, k))
           Bad == {h \in 0..num_pv_bits : ~Good(h)}
<1> SUFFICES ASSUME Bad # {} PROVE FALSE
  OBVIOUS
<1>1. PICK h \in Bad : h \in 0..num_pv_bits /\ ~Good(h) /\ \A y \in Bad : h <= y
  <2>1. Bad \in SUBSET Nat
    OBVIOUS
  <2>2. PICK h \in Bad : \A y \in Bad : h <= y
    <3> HIDE DEF Bad
    <3> QED BY <2>1, LeastNumber
  <2> QED BY <2>2
<1>2. PICK k \in 0..2^(num_pv_bits - h) - 1 : R[h][k] # NodeOf(mem, h, Position(h, k))
  BY <1>1
<1>3. R[h] = IF h = 0 THEN PvHash(extract_public_values(mem)) ELSE PvLayerAbove(h, R[h - 1])
  <2>1. R = [x \in 0..num_pv_bits |-> IF x = 0 THEN PvHash(extract_public_values(mem)) ELSE PvLayerAbove(x, R[x - 1])]
    BY PvLayersDefined
  <2> HIDE DEF R
  <2> QED BY <1>1, <2>1
<1> HIDE DEF R
<1>4. h \in 0..address_height /\ k \in 0..2^(address_height - h) - 1
  <2>1. num_pv_bits - h \in Nat /\ address_height - h \in Nat /\ num_pv_bits - h <= address_height - h
        /\ h \in 0..address_height
    BY <1>1, PvBits, Heights
  <2>2. 2^(num_pv_bits - h) \in Nat /\ 2^(address_height - h) \in Nat
        /\ 2^(num_pv_bits - h) <= 2^(address_height - h)
    BY <2>1, TwoTo, TwoToMonotone
  <2> QED BY <1>2, <2>1, <2>2
<1>5. h \in 0..Height /\ Position(h, k) \in Level(h)
  BY <1>4, PositionLevel
<1>6. CASE h = 0
  <2>1. num_pv_bits - h = num_pv_bits /\ address_height - h = address_height
    BY <1>6, PvBits, Heights
  <2>2. k \in 0..2^num_pv_bits - 1 /\ k \in 0..2^address_height - 1
    BY <1>2, <1>4, <2>1
  <2>3. R[h][k] = Hash(mem[<<PUBLIC_VALUES_AS, k>>])
    BY <1>3, <1>6, <2>2 DEF PvHash, extract_public_values
  <2>4. LabelAt(Position(h, k)) = <<PUBLIC_VALUES_AS, k>>
    BY <1>6, <2>2, PvLeaf
  <2>5. NodeOf(mem, h, Position(h, k)) = Hash(mem[LabelAt(Position(h, k))])
    BY <1>5, <1>6, NodeOfStep
  <2> QED BY <1>2, <2>3, <2>4, <2>5
<1>7. CASE h # 0
  <2> DEFINE g == h - 1
  <2>1. h > 0 /\ g \in 0..num_pv_bits /\ g \notin Bad
    <3> HIDE DEF Bad
    <3> QED BY <1>1, <1>7, PvBits
  <2>2. Good(g)
    BY <2>1
  <2>3. 2 * k \in 0..2^(num_pv_bits - g) - 1 /\ 2 * k + 1 \in 0..2^(num_pv_bits - g) - 1
    <3> DEFINE y == 2^(num_pv_bits - h)
    <3>1. y \in Nat /\ 2^(num_pv_bits - g) = 2 * y
      <4>1. num_pv_bits - h \in Nat /\ num_pv_bits - g = (num_pv_bits - h) + 1
        BY <1>1, PvBits
      <4> HIDE DEF g
      <4> QED BY <4>1, TwoTo
    <3>2. k \in 0..y - 1
      BY <1>2
    <3> HIDE DEF y, g
    <3> QED BY <3>1, <3>2
  <2>4. Position(g, 2 * k) = 2 * Position(h, k) /\ Position(g, 2 * k + 1) = 2 * Position(h, k) + 1
    BY <1>4, <2>1, PositionStep
  <2>5. NodeOf(mem, h, Position(h, k)) =
          Compress(NodeOf(mem, g, 2 * Position(h, k)), NodeOf(mem, g, 2 * Position(h, k) + 1))
    BY <1>5, <2>1, InnerNode
  <2>6. R[h][k] = Compress(R[g][2 * k], R[g][2 * k + 1])
    BY <1>2, <1>3, <1>7 DEF PvLayerAbove
  <2>7. R[g][2 * k] = NodeOf(mem, g, Position(g, 2 * k)) /\ R[g][2 * k + 1] = NodeOf(mem, g, Position(g, 2 * k + 1))
    BY <2>2, <2>3
  <2> QED BY <1>2, <2>4, <2>5, <2>6, <2>7
<1> QED BY <1>6, <1>7

PvPathStep(proof, k, below) ==
    IF (PvPrefix \div 2^(k - 1)) % 2 = 1 THEN Compress(proof[k], below) ELSE Compress(below, proof[k])

LEMMA PvPathDefined ==
    ASSUME NEW proof, NEW commit, Len(proof) \in Nat
    PROVE  PvPath(proof, commit) = [h \in 0..Len(proof) |-> IF h = 0 THEN commit ELSE PvPathStep(proof, h, PvPath(proof, commit)[h - 1])]
<1> DEFINE Def(f, m) == f = [h \in 0..m |-> IF h = 0 THEN commit ELSE PvPathStep(proof, h, f[h - 1])]
           Bad == {m \in Nat : ~\E f : Def(f, m)}
<1>1. Bad = {}
  <2> SUFFICES ASSUME Bad # {} PROVE FALSE
    OBVIOUS
  <2>1. PICK m \in Bad : m \in Nat /\ \A y \in Bad : m <= y
    BY LeastNumber
  <2>2. CASE m = 0
    <3> DEFINE f == [h \in 0..0 |-> commit]
    <3>1. Def(f, 0)
      OBVIOUS
    <3> QED BY <2>1, <2>2, <3>1
  <2>3. CASE m # 0
    <3>1. m - 1 \in Nat /\ m - 1 \notin Bad
      <4> HIDE DEF Bad
      <4> QED BY <2>1, <2>3
    <3>2. PICK f : Def(f, m - 1)
      BY <3>1
    <3> DEFINE g == [h \in 0..m |-> IF h = 0 THEN commit ELSE PvPathStep(proof, h, f[h - 1])]
    <3>3. ASSUME NEW h \in 1..m PROVE f[h - 1] = g[h - 1]
      <4> DEFINE k == h - 1
      <4>1. k \in 0..m - 1 /\ k \in 0..m
        BY <2>1
      <4> HIDE DEF k
      <4>2. f[k] = IF k = 0 THEN commit ELSE PvPathStep(proof, k, f[k - 1])
        BY <3>2, <4>1
      <4>3. g[k] = IF k = 0 THEN commit ELSE PvPathStep(proof, k, f[k - 1])
        BY <4>1
      <4> QED BY <4>2, <4>3 DEF k
    <3>4. g = [h \in 0..m |-> IF h = 0 THEN commit ELSE PvPathStep(proof, h, f[h - 1])]
      OBVIOUS
    <3> HIDE DEF g
    <3>5. ASSUME NEW h \in 0..m
          PROVE  (IF h = 0 THEN commit ELSE PvPathStep(proof, h, f[h - 1]))
                   = (IF h = 0 THEN commit ELSE PvPathStep(proof, h, g[h - 1]))
      <4>1. CASE h = 0
        BY <4>1
      <4>2. CASE h # 0
        <5>1. h \in 1..m
          BY <2>1, <4>2
        <5> QED BY <3>3, <4>2, <5>1
      <4> QED BY <4>1, <4>2
    <3>6. Def(g, m)
      BY <3>4, <3>5
    <3> QED BY <2>1, <3>6
  <2> QED BY <2>2, <2>3
<1>2. \E f : Def(f, Len(proof))
  BY <1>1, Heights
<1> QED BY <1>2 DEF PvPath, PvPathStep

\* The node at height h over the first public value.
PvFirst == PvAs * 2^address_height
Ancestor(h) == 2^(Height - h) + PvFirst \div 2^h

LEMMA PvFirstFacts == PvFirst \in Nat /\ PvFirst < 2^Height /\ PvAs \in Nat
<1> DEFINE A == 2^addr_space_height
           P == 2^address_height
<1>1. A \in Nat /\ P \in Nat /\ P > 0 /\ 2^Height = A * P
  BY Heights, TwoTo, TwoToPositive, TwoToSum DEF Height
<1>2. PvAs \in Nat /\ PvAs <= A - 1
  BY <1>1, PvAsRange
<1>3. PICK d \in Nat : A = (PvAs + 1) + d
  <2>1. A - (PvAs + 1) \in Nat /\ A = (PvAs + 1) + (A - (PvAs + 1))
    BY <1>1, <1>2
  <2> QED BY <2>1
<1> HIDE DEF A, P
<1>4. ((PvAs + 1) + d) * P = PvAs * P + (P + d * P) /\ d * P \in Nat /\ PvAs * P \in Nat
  BY <1>1, <1>2, <1>3
<1>5. PvAs * P < A * P
  BY <1>1, <1>3, <1>4
<1> QED BY <1>1, <1>2, <1>4, <1>5 DEF PvFirst, P

LEMMA AncestorLevel ==
    ASSUME NEW h \in 0..Height
    PROVE  Ancestor(h) \in Level(h) /\ Ancestor(h) \in Nat /\ PvFirst \div 2^h \in Nat
<1> DEFINE T == 2^(Height - h)
           y == 2^h
           q == PvFirst \div y
<1>1. h \in Nat /\ Height - h \in Nat /\ (Height - h) + h = Height
  BY Heights
<1>2. T \in Nat /\ y \in Nat /\ y > 0 /\ 2^Height = T * y
  BY <1>1, TwoTo, TwoToPositive, TwoToSum
<1>3. q \in Nat /\ q * y <= PvFirst /\ PvFirst < T * y
  BY <1>2, PvFirstFacts, DivisionFacts
<1> HIDE DEF T, y, q
<1>4. q < T
  <2> SUFFICES ASSUME ~(q < T) PROVE FALSE
    OBVIOUS
  <2>1. q - T \in Nat /\ q = T + (q - T)
    BY <1>2, <1>3
  <2>2. ASSUME NEW d \in Nat PROVE (T + d) * y = T * y + d * y /\ d * y \in Nat /\ T * y \in Nat
    BY <1>2
  <2>3. PICK d \in Nat : q = T + d
    BY <2>1
  <2>4. q * y = T * y + d * y /\ d * y \in Nat /\ T * y \in Nat
    BY <2>2, <2>3
  <2> QED BY <1>3, <2>4, PvFirstFacts
<1>5. T + q \in T..2 * T - 1 /\ T + q \in Nat
  BY <1>2, <1>3, <1>4
<1> QED BY <1>3, <1>5 DEF Level, Ancestor, T, y, q

\* Inside the address space it is the leftmost node.
LEMMA AncestorPosition ==
    ASSUME NEW h \in 0..address_height PROVE Ancestor(h) = Position(h, 0)
<1> DEFINE Q == 2^(address_height - h)
           y == 2^h
<1>1. h \in Nat /\ address_height - h \in Nat /\ (address_height - h) + h = address_height
  BY Heights
<1>2. Q \in Nat /\ y \in Nat /\ y > 0 /\ 2^address_height = Q * y
  BY <1>1, TwoTo, TwoToPositive, TwoToSum
<1> HIDE DEF Q, y
<1>3. PvFirst = (PvAs * Q) * y + 0 /\ PvAs * Q \in Nat
  <2>1. ASSUME NEW x \in Nat, NEW u \in Nat, NEW v \in Nat
        PROVE  x * (u * v) = (x * u) * v + 0 /\ x * u \in Nat
    <3>1. x * (u * v) = (x * u) * v
      OBVIOUS
    <3>2. x * u \in Nat /\ (x * u) * v \in Nat
      OBVIOUS
    <3> QED BY <3>1, <3>2
  <2> QED BY <1>2, <2>1, PvFirstFacts DEF PvFirst
<1>4. PvFirst \div y = PvAs * Q
  BY <1>2, <1>3, PvFirstFacts, DivisionFacts
<1>5. PvAs * Q = PvAs * Q + 0
  BY <1>3
<1> QED BY <1>4, <1>5 DEF Ancestor, Position, Q, y

\* Going up halves the index; the bit of the prefix says which child it is.
LEMMA AncestorStep ==
    ASSUME NEW h \in 0..Height, h < Height
    PROVE  /\ Ancestor(h) % 2 = (PvFirst \div 2^h) % 2
           /\ Ancestor(h) = 2 * Ancestor(h + 1) + (Ancestor(h) % 2)
           /\ Ancestor(h) % 2 \in {0, 1}
<1> DEFINE T == 2^(Height - (h + 1))
           q == PvFirst \div 2^h
<1>1. h \in Nat /\ h + 1 \in 0..Height /\ (h + 1) - 1 = h
  BY Heights
<1>2. T \in Nat /\ 2^(Height - h) = 2 * T
  <2>1. Height - (h + 1) \in Nat /\ Height - h = (Height - (h + 1)) + 1
    BY <1>1, Heights
  <2> QED BY <2>1, TwoTo
<1>3. q \in Nat
  BY AncestorLevel
<1>4. PvFirst \div 2^(h + 1) = q \div 2
  BY <1>1, PvFirstFacts, ShiftStep
<1>5. Ancestor(h) = 2 * T + q /\ Ancestor(h + 1) = T + q \div 2
  BY <1>2, <1>4 DEF Ancestor
<1> HIDE DEF T, q
<1>6. (2 * T + q) % 2 = q % 2 /\ 2 * T + q = 2 * (T + q \div 2) + ((2 * T + q) % 2) /\ q % 2 \in {0, 1}
  BY <1>2, <1>3
<1> QED BY <1>5, <1>6 DEF q

Sibling(j) == IF j % 2 = 1 THEN j - 1 ELSE j + 1

\* The sibling the proof takes from the top tree.
LEMMA PvSiblingOf ==
    ASSUME NEW k \in 1..addr_space_height
    PROVE  /\ Height - k \in 0..Height /\ Height - k < Height
           /\ PvSibling(k) = Sibling(Ancestor(Height - k))
<1> DEFINE h == Height - k
           e == addr_space_height - k
           q == PvAs \div 2^e
<1>1. h \in 0..Height /\ h < Height /\ Height - h = k /\ e \in Nat /\ h = address_height + e
  BY Heights DEF Height
<1>2. PvFirst \div 2^h = q
  <2>1. (PvFirst \div 2^address_height) \div 2^e = PvFirst \div 2^(address_height + e)
    BY <1>1, Heights, PvFirstFacts, ShiftSum
  <2>2. PvFirst \div 2^address_height = PvAs
    <3>1. 2^address_height \in Nat /\ 2^address_height > 0
      BY Heights, TwoTo, TwoToPositive
    <3>2. PvFirst = PvAs * 2^address_height + 0
      BY PvFirstFacts DEF PvFirst
    <3> QED BY <3>1, <3>2, PvFirstFacts, DivisionFacts
  <2> QED BY <1>1, <2>1, <2>2
<1>3. PvNode(k) = Ancestor(h) /\ PvBit(k) = Ancestor(h) % 2
  <2>1. Ancestor(h) % 2 = (PvFirst \div 2^h) % 2
    BY <1>1, AncestorStep
  <2>2. PvNode(k) = 2^k + q /\ PvBit(k) = q % 2
    BY DEF PvNode, PvBit, PvAs
  <2>3. Ancestor(h) = 2^k + q
    BY <1>1, <1>2 DEF Ancestor
  <2> QED BY <1>2, <2>1, <2>2, <2>3
<1> QED BY <1>1, <1>3 DEF PvSibling, Sibling

\* The proof: zero nodes inside the address space, then the top tree.
LEMMA PvProofElements ==
    ASSUME NEW top
    PROVE  /\ Len(PvProof(top)) = Height - num_pv_bits
           /\ \A k \in 1..address_height - num_pv_bits : PvProof(top)[k] = ZeroNodes[num_pv_bits + k - 1]
           /\ \A k \in 1..addr_space_height :
                PvProof(top)[(Height - num_pv_bits) - k + 1] = top[PvSibling(k)]
<1> DEFINE m == address_height - num_pv_bits
           n == addr_space_height
           z == [k \in 1..m |-> ZeroNodes[num_pv_bits + k - 1]]
           u == [k \in 1..n |-> top[PvSibling(k)]]
           r == Reverse(u)
           D == {z[k] : k \in 1..m} \cup {u[k] : k \in 1..n}
<1>1. m \in Nat /\ n \in Nat /\ m + n = Height - num_pv_bits
  BY PvBits, Heights DEF Height
<1>2. \A k \in 1..m : z[k] = ZeroNodes[num_pv_bits + k - 1]
  OBVIOUS
<1>3. \A k \in 1..n : u[k] = top[PvSibling(k)]
  OBVIOUS
<1>4. z \in Seq(D) /\ Len(z) = m
  <2>1. z = [k \in 1..m |-> z[k]]
    OBVIOUS
  <2>2. \A k \in 1..m : z[k] \in D
    OBVIOUS
  <2> HIDE DEF z, D, m
  <2> QED BY <1>1, <2>1, <2>2
<1>5. u \in Seq(D) /\ Len(u) = n
  <2>1. u = [k \in 1..n |-> u[k]]
    OBVIOUS
  <2>2. \A k \in 1..n : u[k] \in D
    OBVIOUS
  <2> HIDE DEF u, D, n
  <2> QED BY <1>1, <2>1, <2>2
<1> HIDE DEF z, u, D
<1>6. r \in Seq(D) /\ Len(r) = n /\ \A k \in 1..n : r[n - k + 1] = u[k]
  <2>1. r = [i \in 1..n |-> u[(n - i) + 1]]
    BY <1>5 DEF Reverse
  <2>2. \A i \in 1..n : (n - i) + 1 \in 1..n
    BY <1>1
  <2>3. \A i \in 1..n : u[i] \in D
    BY <1>5
  <2> HIDE DEF r, n
  <2>4. \A i \in 1..n : u[(n - i) + 1] \in D
    BY <2>2, <2>3
  <2>5. r \in Seq(D) /\ Len(r) = n
    BY <1>1, <2>1, <2>4
  <2>6. ASSUME NEW k \in 1..n PROVE r[n - k + 1] = u[k]
    <3> DEFINE i == n - k + 1
    <3>1. i \in 1..n /\ (n - i) + 1 = k
      BY <1>1
    <3> HIDE DEF i
    <3>2. r[i] = u[k]
      BY <2>1, <3>1
    <3> QED BY <3>2 DEF i
  <2> QED BY <2>5, <2>6
<1>7. PvProof(top) = z \o r
  BY DEF PvProof, z, r, u
<1> HIDE DEF r, m, n
<1>8. Len(z \o r) = m + n /\ (\A k \in 1..m : (z \o r)[k] = z[k])
      /\ \A k \in 1..n : (z \o r)[(m + n) - k + 1] = r[n - k + 1]
  <2>1. ASSUME NEW S, NEW v \in Seq(S), NEW w \in Seq(S), NEW a \in Nat, NEW b \in Nat,
               Len(v) = a, Len(w) = b
        PROVE  Len(v \o w) = a + b /\ (\A k \in 1..a : (v \o w)[k] = v[k])
               /\ \A k \in 1..b : (v \o w)[(a + b) - k + 1] = w[b - k + 1]
    <3>1. Len(v \o w) = a + b /\ (\A k \in 1..a : (v \o w)[k] = v[k])
      BY <2>1
    <3>2. ASSUME NEW k \in 1..b PROVE (v \o w)[(a + b) - k + 1] = w[b - k + 1]
      BY <2>1
    <3> QED BY <3>1, <3>2
  <2> QED BY <1>1, <1>4, <1>6, <2>1
<1>9. \A k \in 1..n : PvProof(top)[(Height - num_pv_bits) - k + 1] = top[PvSibling(k)]
  BY <1>1, <1>3, <1>6, <1>7, <1>8
<1>10. Len(PvProof(top)) = Height - num_pv_bits
  BY <1>1, <1>7, <1>8
<1>11. \A k \in 1..m : PvProof(top)[k] = ZeroNodes[num_pv_bits + k - 1]
  BY <1>2, <1>7, <1>8
<1> QED BY <1>9, <1>10, <1>11 DEF m, n

\* Each of its hashes is the sibling on the path.
LEMMA PvProofNodes ==
    ASSUME NEW nodes, NEW mem, Represents(nodes, mem), PvClean(mem),
           NEW h \in num_pv_bits..Height - 1
    PROVE  PvProof(TopTree(nodes))[h - num_pv_bits + 1] = NodeOf(mem, h, Sibling(Ancestor(h)))
<1> DEFINE top == TopTree(nodes)
           proof == PvProof(top)
<1>1. h \in Nat /\ h \in 0..Height /\ h < Height
  BY PvBits, Heights
<1>2. CASE h < address_height
  <2>1. h \in 0..address_height /\ h + 1 \in 0..address_height /\ h + 1 > 0 /\ (h + 1) - 1 = h
    BY <1>1, <1>2, Heights
  <2>2. 2^(address_height - h) \in Nat /\ 2^(address_height - h) >= 2 /\ 0 \in 0..2^(address_height - (h + 1)) - 1
    <3> DEFINE e == address_height - (h + 1)
    <3>1. e \in Nat /\ address_height - h = e + 1
      BY <1>1, <1>2, Heights
    <3> HIDE DEF e
    <3>2. 2^e \in Nat /\ 2^e > 0 /\ 2^(e + 1) = 2 * 2^e
      BY <3>1, TwoTo, TwoToPositive
    <3> QED BY <3>1, <3>2 DEF e
  <2>3. Ancestor(h) = Position(h, 0) /\ Position(h, 2 * 0) = 2 * Position(h + 1, 0)
    BY <2>1, <2>2, AncestorPosition, PositionStep
  <2>4. Position(h + 1, 0) \in Nat /\ Position(h, 2 * 0 + 1) = 2 * Position(h + 1, 0) + 1
    <3>1. Position(h + 1, 0) = Ancestor(h + 1) /\ h + 1 \in 0..Height
      BY <1>1, <2>1, AncestorPosition, Heights
    <3> QED BY <2>1, <2>2, <3>1, AncestorLevel, PositionStep
  <2>5. Sibling(Ancestor(h)) = Position(h, 1)
    <3> DEFINE x == Position(h + 1, 0)
    <3>1. Ancestor(h) = 2 * x /\ Position(h, 1) = 2 * x + 1 /\ x \in Nat
      BY <2>3, <2>4
    <3> HIDE DEF x
    <3>2. (2 * x) % 2 = 0
      BY <3>1
    <3> QED BY <3>1, <3>2 DEF Sibling
  <2>6. NodeOf(mem, h, Position(h, 1)) = ZeroNodes[h]
    <3>1. 1 \in 0..2^(address_height - h) - 1
      BY <2>2
    <3>2. 1 * 2^h >= 2^num_pv_bits
      <4>1. 2^h \in Nat /\ 2^num_pv_bits \in Nat /\ 2^num_pv_bits <= 2^h
        BY <1>1, PvBits, TwoTo, TwoToMonotone
      <4> QED BY <4>1
    <3> QED BY <2>1, <3>1, <3>2, UnusedNodes
  <2>7. proof[h - num_pv_bits + 1] = ZeroNodes[h]
    <3> DEFINE k == h - num_pv_bits + 1
    <3>1. k \in 1..address_height - num_pv_bits /\ num_pv_bits + k - 1 = h
      BY <1>1, <1>2, PvBits, Heights
    <3> HIDE DEF k
    <3>2. proof[k] = ZeroNodes[num_pv_bits + k - 1]
      BY <3>1, PvProofElements
    <3> QED BY <3>1, <3>2 DEF k
  <2> QED BY <2>5, <2>6, <2>7
<1>3. CASE ~(h < address_height)
  <2> DEFINE k == Height - h
             j == Ancestor(h)
             s == Sibling(j)
  <2>1. k \in 1..addr_space_height /\ Height - k = h /\ (Height - num_pv_bits) - k + 1 = h - num_pv_bits + 1
    BY <1>1, <1>3, PvBits, Heights DEF Height
  <2>2. PvSibling(k) = s
    <3> HIDE DEF k
    <3>1. PvSibling(k) = Sibling(Ancestor(Height - k))
      BY <2>1, PvSiblingOf
    <3> QED BY <2>1, <3>1
  <2>3. proof[h - num_pv_bits + 1] = top[s]
    <3> HIDE DEF k, s, proof
    <3>1. proof[(Height - num_pv_bits) - k + 1] = top[PvSibling(k)]
      BY <2>1, PvProofElements DEF proof
    <3> QED BY <2>1, <2>2, <3>1
  <2>4. s \in Level(h) /\ s \in 1..2^(addr_space_height + 1) - 1
    <3> DEFINE T == 2^(Height - (h + 1))
               A == 2^addr_space_height
    <3>1. h + 1 \in 0..Height
      BY <1>1, Heights
    <3>2. T \in Nat /\ T > 0 /\ 2^(Height - h) = 2 * T
      <4>1. Height - (h + 1) \in Nat /\ Height - h = (Height - (h + 1)) + 1
        BY <1>1, Heights
      <4> QED BY <4>1, TwoTo, TwoToPositive
    <3>3. Level(h) = 2 * T..2 * (2 * T) - 1 /\ Level(h + 1) = T..2 * T - 1
      BY <3>2 DEF Level
    <3>4. 2 * T <= A /\ A \in Nat /\ 2^(addr_space_height + 1) = 2 * A
      <4>1. k \in Nat /\ k <= addr_space_height
        BY <2>1, Heights
      <4>2. 2^k <= A
        <5> HIDE DEF k
        <5> QED BY <4>1, Heights, TwoToMonotone
      <4> QED BY <3>2, <4>2, Heights, TwoTo
    <3> DEFINE x == Ancestor(h + 1)
    <3>5. x \in T..2 * T - 1
      BY <3>1, <3>3, AncestorLevel
    <3>6. s = 2 * x \/ s = 2 * x + 1
      <4>1. (j % 2) \in {0, 1} /\ j = 2 * x + (j % 2)
        BY <1>1, AncestorStep
      <4>2. x \in Nat
        BY <3>1, AncestorLevel
      <4> HIDE DEF x, j
      <4>3. CASE j % 2 = 1
        <5>1. j = 2 * x + 1
          BY <4>1, <4>3
        <5> QED BY <4>2, <4>3, <5>1 DEF Sibling
      <4>4. CASE j % 2 = 0
        <5>1. j = 2 * x
          BY <4>1, <4>2, <4>4
        <5> QED BY <4>2, <4>4, <5>1 DEF Sibling
      <4> QED BY <4>1, <4>3, <4>4
    <3> HIDE DEF T, A, x, s
    <3>7. s \in 2 * T..2 * (2 * T) - 1 /\ s \in 1..2 * A - 1
      BY <3>2, <3>4, <3>5, <3>6
    <3> QED BY <3>3, <3>4, <3>7
  <2>5. top[s] = GetNode(nodes, s)
    BY <2>4 DEF TopTree
  <2>6. GetNode(nodes, s) = NodeOf(mem, h, s)
    BY <1>1, <2>4 DEF Represents
  <2> QED BY <2>3, <2>5, <2>6
<1> QED BY <1>2, <1>3

LEMMA PvComputeFields ==
    ASSUME NEW top, NEW mem
    PROVE  /\ PvCompute(top, mem).proof = PvProof(top)
           /\ PvCompute(top, mem).public_values = extract_public_values(mem)
           /\ PvCompute(top, mem).public_values_commit = MerkleRoot(PvHash(extract_public_values(mem)))
  BY DEF PvCompute

\* Compressing along the path climbs the tree to its root.
LEMMA PvOpens ==
    ASSUME NEW nodes, NEW mem, Represents(nodes, mem), PvClean(mem)
    PROVE  PvVerify(PvCompute(TopTree(nodes), mem), ReferenceRoot(mem))
<1> DEFINE proof == PvProof(TopTree(nodes))
           commit == MerkleRoot(PvHash(extract_public_values(mem)))
           path == PvPath(proof, commit)
           n == Height - num_pv_bits
           Good(k) == path[k] = NodeOf(mem, num_pv_bits + k, Ancestor(num_pv_bits + k))
           Bad == {k \in 0..n : ~Good(k)}
<1>1. Len(proof) = n /\ n \in Nat
  BY PvProofElements, PvBits, Heights
<1>2. path = [k \in 0..n |-> IF k = 0 THEN commit ELSE PvPathStep(proof, k, path[k - 1])]
  <2>1. path = [k \in 0..Len(proof) |-> IF k = 0 THEN commit ELSE PvPathStep(proof, k, path[k - 1])]
    <3> HIDE DEF proof, commit
    <3> QED BY <1>1, PvPathDefined
  <2> QED BY <1>1, <2>1
<1>3. \A g \in num_pv_bits..Height - 1 : proof[g - num_pv_bits + 1] = NodeOf(mem, g, Sibling(Ancestor(g)))
  BY PvProofNodes
<1> HIDE DEF proof, path
<1>4. commit = NodeOf(mem, num_pv_bits, Ancestor(num_pv_bits))
  <2>1. num_pv_bits \in 0..num_pv_bits /\ num_pv_bits - num_pv_bits = 0 /\ num_pv_bits \in 0..address_height
    BY PvBits
  <2>2. 2^(num_pv_bits - num_pv_bits) = 1
    BY <2>1, TwoToZero
  <2>3. 0 \in 0..2^(num_pv_bits - num_pv_bits) - 1
    BY <2>2
  <2>4. commit = NodeOf(mem, num_pv_bits, Position(num_pv_bits, 0))
    BY <2>1, <2>3, PvLayerNodes DEF MerkleRoot
  <2> QED BY <2>1, <2>4, AncestorPosition
<1> HIDE DEF commit
<1>5. Bad = {}
  <2> SUFFICES ASSUME Bad # {} PROVE FALSE
    OBVIOUS
  <2>1. PICK k \in Bad : k \in 0..n /\ ~Good(k) /\ \A y \in Bad : k <= y
    <3>1. Bad \in SUBSET Nat
      OBVIOUS
    <3>2. PICK k \in Bad : \A y \in Bad : k <= y
      <4> HIDE DEF Bad
      <4> QED BY <3>1, LeastNumber
    <3> QED BY <3>2
  <2>2. path[k] = IF k = 0 THEN commit ELSE PvPathStep(proof, k, path[k - 1])
    <3> HIDE DEF n
    <3> QED BY <1>2, <2>1
  <2>3. CASE k = 0
    <3>1. num_pv_bits + k = num_pv_bits
      BY <2>3, PvBits
    <3> QED BY <1>4, <2>1, <2>2, <2>3, <3>1
  <2>4. CASE k # 0
    <3> DEFINE g == num_pv_bits + (k - 1)
               j == Ancestor(g)
               i == Ancestor(g + 1)
    <3>1. k - 1 \in 0..n /\ k - 1 \notin Bad
      <4> HIDE DEF Bad
      <4> QED BY <1>1, <2>1, <2>4
    <3>2. path[k - 1] = NodeOf(mem, g, j)
      BY <3>1
    <3>3. /\ g \in num_pv_bits..Height - 1 /\ g - num_pv_bits + 1 = k /\ g + 1 = num_pv_bits + k
          /\ g \in 0..Height /\ g < Height /\ g + 1 \in 0..Height /\ g + 1 > 0 /\ (g + 1) - 1 = g
          /\ k - 1 \in Nat
      BY <2>1, <2>4, PvBits, Heights
    <3>4. proof[k] = NodeOf(mem, g, Sibling(j))
      <4> HIDE DEF g
      <4> QED BY <1>3, <3>3
    <3>5. (PvPrefix \div 2^(k - 1)) % 2 = j % 2
      <4>1. LabelToIndex(<<PUBLIC_VALUES_AS, 0>>) = PvFirst
        BY PvFirstFacts DEF LabelToIndex, PvFirst, PvAs
      <4>2. PvPrefix = PvFirst \div 2^num_pv_bits
        BY <4>1 DEF PvPrefix
      <4>3. PvPrefix \div 2^(k - 1) = PvFirst \div 2^g
        BY <3>3, <4>2, PvFirstFacts, PvBits, ShiftSum
      <4>4. j % 2 = (PvFirst \div 2^g) % 2
        <5> HIDE DEF g
        <5> QED BY <3>3, AncestorStep
      <4> QED BY <4>3, <4>4
    <3>6. (j % 2) \in {0, 1} /\ j = 2 * i + (j % 2) /\ i \in Level(g + 1) /\ i \in Nat
      <4> HIDE DEF g
      <4> QED BY <3>3, AncestorStep, AncestorLevel
    <3>7. NodeOf(mem, g + 1, i) = Compress(NodeOf(mem, g, 2 * i), NodeOf(mem, g, 2 * i + 1))
      <4> HIDE DEF g, i
      <4>1. NodeOf(mem, g + 1, i) =
              Compress(NodeOf(mem, (g + 1) - 1, 2 * i), NodeOf(mem, (g + 1) - 1, 2 * i + 1))
        BY <3>3, <3>6, InnerNode
      <4> QED BY <3>3, <4>1
    <3>8. path[k] = PvPathStep(proof, k, path[k - 1])
      BY <2>2, <2>4
    <3> HIDE DEF g, j, i
    <3>9. CASE j % 2 = 1
      <4>1. j = 2 * i + 1 /\ Sibling(j) = 2 * i
        <5>1. j = 2 * i + 1
          BY <3>6, <3>9
        <5> QED BY <3>6, <3>9, <5>1 DEF Sibling
      <4>2. path[k] = Compress(proof[k], path[k - 1])
        BY <3>5, <3>8, <3>9 DEF PvPathStep
      <4>3. path[k] = NodeOf(mem, g + 1, i)
        BY <3>2, <3>4, <3>7, <4>1, <4>2
      <4> QED BY <2>1, <3>3, <4>3 DEF i
    <3>10. CASE j % 2 = 0
      <4>1. j = 2 * i /\ Sibling(j) = 2 * i + 1
        <5>1. j = 2 * i
          BY <3>6, <3>10
        <5> QED BY <3>6, <3>10, <5>1 DEF Sibling
      <4>2. path[k] = Compress(path[k - 1], proof[k])
        BY <3>5, <3>8, <3>10 DEF PvPathStep
      <4>3. path[k] = NodeOf(mem, g + 1, i)
        BY <3>2, <3>4, <3>7, <4>1, <4>2
      <4> QED BY <2>1, <3>3, <4>3 DEF i
    <3> QED BY <3>6, <3>9, <3>10
  <2> QED BY <2>3, <2>4
<1>6. path[n] = NodeOf(mem, Height, Ancestor(Height))
  <2>1. n \in 0..n /\ num_pv_bits + n = Height
    BY <1>1, PvBits, Heights
  <2>2. Good(n)
    BY <1>5, <2>1
  <2> QED BY <2>1, <2>2
<1>7. NodeOf(mem, Height, Ancestor(Height)) = ReferenceRoot(mem)
  <2>1. Height \in 0..Height /\ Height - Height = 0
    BY Heights
  <2>2. 2^(Height - Height) = 1
    BY <2>1, TwoToZero
  <2>3. Ancestor(Height) \in 1..1
    BY <2>1, <2>2, AncestorLevel DEF Level
  <2>4. Ancestor(Height) - 2^(Height - Height) = 0
    BY <2>2, <2>3
  <2> QED BY <2>4 DEF NodeOf, ReferenceRoot
<1>8. PvPath(proof, commit)[Len(proof)] = ReferenceRoot(mem) /\ Len(proof) = Height - num_pv_bits
  BY <1>1, <1>6, <1>7 DEF path
<1>9. /\ PvCompute(TopTree(nodes), mem).proof = proof
      /\ PvCompute(TopTree(nodes), mem).public_values = extract_public_values(mem)
      /\ PvCompute(TopTree(nodes), mem).public_values_commit = commit
  BY PvComputeFields DEF proof, commit
<1>10. DOMAIN extract_public_values(mem) = 0..2^num_pv_bits - 1
  BY DEF extract_public_values
<1>11. MerkleRoot(PvHash(extract_public_values(mem))) = commit
  BY DEF commit
<1> QED BY <1>8, <1>9, <1>10, <1>11 DEF PvVerify

\* MemoryMerkleChip::finalize publishes the roots of both memories, also when
\* nothing was touched and leaf 0 stands in, and a top tree that opens the public
\* values.
LEMMA FinalizeRoots ==
    ASSUME NEW nodes, NEW m0, NEW m1, NEW ls \in SUBSET Labels,
           Represents(nodes, m0), \A l \in Labels \ ls : m1[l] = m0[l]
    PROVE  /\ FinalizeTree(nodes, m1, ls).init_root = ReferenceRoot(m0)
           /\ FinalizeTree(nodes, m1, ls).final_root = ReferenceRoot(m1)
           /\ PvClean(m1) => PvVerify(PvCompute(FinalizeTree(nodes, m1, ls).top_tree, m1), ReferenceRoot(m1))
<1> DEFINE artificial == [i \in {2^Height} |-> GetNode(nodes, i)]
           leaves == IF ls # {} THEN Leaves(m1, ls) ELSE artificial
<1>1. Covers(artificial, m0, m1) \/ ls # {}
  <2> SUFFICES ASSUME ls = {} PROVE Covers(artificial, m0, m1)
    OBVIOUS
  <2>1. 2^Height \in Level(0)
    <3>1. Height - 0 = Height /\ 2^Height \in Nat /\ 2^Height > 0
      BY Heights, TwoTo, TwoToPositive
    <3> QED BY <3>1 DEF Level
  <2>2. \A i \in Level(0) : m1[LabelAt(i)] = m0[LabelAt(i)]
    BY LabelAtLeaf
  <2>3. \A i \in Level(0) : GetNode(nodes, i) = Hash(m0[LabelAt(i)])
    <3>1. 0 \in 0..Height
      BY Heights
    <3> QED BY <3>1, NodeOfStep DEF Represents
  <2> QED BY <2>1, <2>2, <2>3 DEF Covers
<1>2. Covers(leaves, m0, m1)
  BY <1>1, LeavesCover
<1> HIDE DEF leaves
<1> DEFINE after == Extend(nodes, Layers(nodes, leaves))
<1>8. Represents(after, m1)
  BY <1>2, UpdateRepresents
<1>3. GetNode(after, 1) = ReferenceRoot(m1) /\ GetNode(nodes, 1) = ReferenceRoot(m0)
  BY <1>8, RootOf
<1>4. FinalizeTree(nodes, m1, ls).init_root = GetNode(nodes, 1)
  BY DEF FinalizeTree
<1>5. FinalizeTree(nodes, m1, ls).final_root = GetNode(after, 1)
  BY DEF FinalizeTree, leaves
<1>6. FinalizeTree(nodes, m1, ls).top_tree = TopTree(after)
  BY DEF FinalizeTree, leaves
<1>7. PvClean(m1) => PvVerify(PvCompute(TopTree(after), m1), ReferenceRoot(m1))
  BY <1>8, PvOpens
<1> QED BY <1>3, <1>4, <1>5, <1>6, <1>7

-----------------------------------------------------------------------------
(* The segments.                                                           *)

\* Inductive: outside the touched leaves memory is what the segment started
\* from, and the chained root is that of the memory it started from.
MerkleInv ==
    /\ touched \in SUBSET Labels
    /\ start \in [Labels -> ChunkValues] /\ memory \in [Labels -> ChunkValues]
    /\ \A l \in Labels \ touched : memory[l] = start[l]
    /\ PvClean(memory)
    /\ chain = ReferenceRoot(start)
    /\ final # None => /\ final.init_root = ReferenceRoot(start)
                       /\ final.final_root = ReferenceRoot(memory)
                       /\ PvVerify(PvCompute(final.top_tree, memory),
                                   ReferenceRoot(memory))

LEMMA MerkleInitInv == MerkleInit => MerkleInv
<1> SUFFICES ASSUME MerkleInit PROVE MerkleInv
  OBVIOUS
<1>1. start \in [Labels -> ChunkValues] /\ memory = start /\ touched = {} /\ final = None
  BY MerkleAssumption DEF MerkleInit
<1>2. chain = ReferenceRoot(start)
  BY FromMemoryRepresents, RootOf DEF MerkleInit
<1>3. PvClean(memory)
  BY MerkleAssumption DEF MerkleInit, PvClean
<1> QED BY <1>1, <1>2, <1>3 DEF MerkleInv

LEMMA TouchInv ==
    ASSUME MerkleInv, NEW l \in Touchable, NEW v \in ChunkValues, Touch(l, v) PROVE MerkleInv'
<1>1. l \in Labels
  BY MerkleAssumption
<1>2. /\ touched' = touched \cup {l} /\ memory' = [memory EXCEPT ![l] = v]
      /\ start' = start /\ chain' = chain /\ final' = None
  BY DEF Touch
<1>3. /\ touched \in SUBSET Labels /\ start \in [Labels -> ChunkValues]
      /\ memory \in [Labels -> ChunkValues]
      /\ \A k \in Labels \ touched : memory[k] = start[k]
      /\ chain = ReferenceRoot(start) /\ PvClean(memory)
  BY DEF MerkleInv
<1>4. touched' \in SUBSET Labels /\ memory' \in [Labels -> ChunkValues]
  BY <1>1, <1>2, <1>3
<1>5. \A k \in Labels \ touched' : memory'[k] = start'[k]
  BY <1>1, <1>2, <1>3
<1>6. chain' = ReferenceRoot(start)
  BY <1>2, <1>3
<1>7. PvClean(memory')
  <2> SUFFICES ASSUME NEW k \in Labels, k[1] = PUBLIC_VALUES_AS, ~(k[2] < 2^num_pv_bits)
               PROVE  memory'[k] = Zero
    BY DEF PvClean
  <2>1. k # l
    BY MerkleAssumption
  <2> QED BY <1>2, <1>3, <2>1 DEF PvClean
<1> QED BY <1>2, <1>3, <1>4, <1>5, <1>6, <1>7 DEF MerkleInv

LEMMA MerkleFinalizeInv == ASSUME MerkleInv, MerkleFinalize PROVE MerkleInv'
<1>1. /\ touched' = touched /\ memory' = memory /\ start' = start /\ chain' = chain
      /\ final' = FinalizeTree(FromMemory(start), memory, touched)
  BY DEF MerkleFinalize
<1>2. /\ touched \in SUBSET Labels /\ PvClean(memory)
      /\ \A l \in Labels \ touched : memory[l] = start[l]
  BY DEF MerkleInv
<1>3. Represents(FromMemory(start), start)
  BY FromMemoryRepresents
<1>4. /\ FinalizeTree(FromMemory(start), memory, touched).init_root = ReferenceRoot(start)
      /\ FinalizeTree(FromMemory(start), memory, touched).final_root = ReferenceRoot(memory)
      /\ PvVerify(PvCompute(FinalizeTree(FromMemory(start), memory, touched).top_tree, memory), ReferenceRoot(memory))
  BY <1>2, <1>3, FinalizeRoots
<1> QED BY <1>1, <1>4 DEF MerkleInv

LEMMA NextSegmentInv == ASSUME MerkleInv, NextSegment PROVE MerkleInv'
<1>1. /\ start' = memory /\ memory' = memory /\ touched' = {} /\ final' = None
      /\ chain' = final.final_root /\ final # None
  BY DEF NextSegment
<1>2. /\ memory \in [Labels -> ChunkValues] /\ final.final_root = ReferenceRoot(memory)
      /\ PvClean(memory)
  BY <1>1 DEF MerkleInv
<1> QED BY <1>1, <1>2 DEF MerkleInv

LEMMA MerkleNextInv == MerkleInv /\ [MerkleNext]_merkleVars => MerkleInv'
<1> SUFFICES ASSUME MerkleInv, [MerkleNext]_merkleVars PROVE MerkleInv'
  OBVIOUS
<1>1. CASE \E l \in Touchable, v \in ChunkValues : Touch(l, v)
  BY <1>1, TouchInv
<1>2. CASE MerkleFinalize
  BY <1>2, MerkleFinalizeInv
<1>3. CASE NextSegment
  BY <1>3, NextSegmentInv
<1>4. CASE UNCHANGED merkleVars
  BY <1>4 DEF MerkleInv, merkleVars
<1> QED BY <1>1, <1>2, <1>3, <1>4 DEF MerkleNext, MerkleDone

\* Every segment publishes the root of the memory it started from, which is the
\* root the segment before it ended with, and the root of the memory it leaves:
\* the incremental update of the sparse tree (MerkleTree::from_memory, finalize)
\* computes the commitment of the whole memory.
THEOREM MerkleRootsCommit == MerkleSpec => []RootsCommit
<1>1. MerkleInv => RootsCommit
  BY DEF MerkleInv, RootsCommit, RootCommitsMemory, RootsChain
<1> QED BY <1>1, MerkleInitInv, MerkleNextInv, PTL DEF MerkleSpec

\* The proof computed from the final top tree opens the public values at the final
\* root, for any dimensions of memory and any number of public values
\* (compute_merkle_proof_to_user_public_values_root, UserPublicValuesProof::verify).
THEOREM PublicValuesOpen == MerkleSpec => []PublicValuesVerify
<1>1. MerkleInv => PublicValuesVerify
  BY DEF MerkleInv, PublicValuesVerify
<1> QED BY <1>1, MerkleInitInv, MerkleNextInv, PTL DEF MerkleSpec
=============================================================================
