------------------------- MODULE RecordArenasProofs -------------------------
(***************************************************************************)
(* Record arenas keep what is written to them: for all record layouts,     *)
(* estimates, buffer addresses and sequences of records.                   *)
(*                                                                         *)
(* Everything that depends on sizes and alignments is in RecordFacts; the  *)
(* rest is about disjoint ranges of bytes.                                 *)
(***************************************************************************)
EXTENDS RecordArenas, FiniteSetTheorems, WellFoundedInduction, TLAPS

\* The least-number principle, for a set of numbers.
LEMMA LeastNumber ==
    ASSUME NEW T \in SUBSET Nat, T # {}
    PROVE  \E x \in T : \A y \in T : x <= y
<1>1. IsWellFoundedOn(OpToRel(<, Nat), Nat)
  BY NatLessThanWellFounded
<1>2. PICK x \in T : \A y \in T : ~(<<y, x>> \in OpToRel(<, Nat))
  BY <1>1, WFMin
<1>3. ASSUME NEW y \in T, y < x PROVE FALSE
  BY <1>2, <1>3 DEF OpToRel
<1> QED BY <1>3

-----------------------------------------------------------------------------
(* Powers of two, by counting the subsets of an interval.                  *)

LEMMA TwoTo ==
    ASSUME NEW n \in Nat
    PROVE  2^n \in Nat /\ 2^(n + 1) = 2 * 2^n
<1> DEFINE A == SUBSET (1..n)
           B == {X \cup {n + 1} : X \in A}
<1>1. /\ IsFiniteSet(1..n) /\ Cardinality(1..n) = n
      /\ IsFiniteSet(1..n + 1) /\ Cardinality(1..n + 1) = n + 1
  BY FS_Interval
<1>2. IsFiniteSet(A) /\ Cardinality(A) = 2^n /\ 2^n \in Nat
  BY <1>1, FS_SUBSET, FS_CardinalityType
<1>3. Cardinality(SUBSET (1..n + 1)) = 2^(n + 1)
  BY <1>1, FS_SUBSET
<1>4. SUBSET (1..n + 1) = A \cup B
  <2>1. ASSUME NEW X \in SUBSET (1..n + 1) PROVE X \in A \cup B
    <3>1. CASE n + 1 \in X
      <4>1. X \ {n + 1} \in A
        OBVIOUS
      <4>2. X = (X \ {n + 1}) \cup {n + 1}
        BY <3>1
      <4> QED BY <4>1, <4>2
    <3>2. CASE n + 1 \notin X
      BY <3>2
    <3> QED BY <3>1, <3>2
  <2>2. ASSUME NEW X \in A \cup B PROVE X \in SUBSET (1..n + 1)
    OBVIOUS
  <2> QED BY <2>1, <2>2
<1>5. A \cap B = {}
  OBVIOUS
<1>6. IsFiniteSet(B) /\ Cardinality(B) = Cardinality(A)
  <2> DEFINE f == [X \in A |-> X \cup {n + 1}]
  <2>1. ASSUME NEW X \in A, NEW Y \in A, X \cup {n + 1} = Y \cup {n + 1} PROVE X = Y
    BY <2>1
  <2>f. f \in [A -> B]
    <3>1. \A X \in A : X \cup {n + 1} \in B
      OBVIOUS
    <3> HIDE DEF A, B
    <3> QED BY <3>1
  <2>2. \A X \in A, Y \in A : f[X] = f[Y] => X = Y
    <3> HIDE DEF A, B
    <3> QED BY <2>1
  <2>3. \A Z \in B : \E X \in A : f[X] = Z
    OBVIOUS
  <2> HIDE DEF f, A, B
  <2>4. ExistsBijection(A, B)
    BY <2>f, <2>2, <2>3 DEF ExistsBijection, Bijection, Injection, Surjection, IsInjective
  <2> QED BY <1>2, <2>4, FS_Bijection
<1>7. Cardinality(A \cup B) = Cardinality(A) + Cardinality(B) - Cardinality(A \cap B)
  <2> HIDE DEF A, B
  <2> QED BY <1>2, <1>6, FS_Union
<1>8. Cardinality(A \cap B) = 0
  BY <1>5, FS_EmptySet
<1> HIDE DEF A, B
<1>9. Cardinality(A \cup B) = 2 * 2^n
  BY <1>2, <1>6, <1>7, <1>8
<1> QED BY <1>2, <1>3, <1>4, <1>9

LEMMA TwoToZero == ASSUME NEW n, n = 0 PROVE 2^n = 1
<1>1. 2^0 = 1
  BY SMT
<1> QED BY <1>1, Zenon

LEMMA TwoToPositive == \A n \in Nat : 2^n > 0
<1> DEFINE Bad == {n \in Nat : ~(2^n > 0)}
<1> SUFFICES ASSUME Bad # {} PROVE FALSE
  OBVIOUS
<1>1. PICK n \in Bad : n \in Nat /\ \A y \in Bad : n <= y
  BY LeastNumber
<1>3. n # 0
  BY <1>1, TwoToZero
<1>4. n - 1 \in Nat /\ n - 1 \notin Bad /\ (n - 1) + 1 = n
  <2> HIDE DEF Bad
  <2> QED BY <1>1, <1>3
<1>5. 2^(n - 1) > 0
  BY <1>4
<1>6. 2^n = 2 * 2^(n - 1) /\ 2^(n - 1) \in Nat
  BY <1>4, TwoTo
<1> QED BY <1>1, <1>5, <1>6

LEMMA TwoToMonotone ==
    ASSUME NEW k \in Nat, NEW n \in Nat, k <= n
    PROVE  2^k <= 2^n
<1> DEFINE Bad == {m \in Nat : k <= m /\ ~(2^k <= 2^m)}
<1> SUFFICES ASSUME Bad # {} PROVE FALSE
  OBVIOUS
<1>1. PICK m \in Bad : m \in Nat /\ k <= m /\ ~(2^k <= 2^m) /\ \A y \in Bad : m <= y
  BY LeastNumber
<1>2. m # k
  BY <1>1, TwoTo
<1>3. m - 1 \in Nat /\ k <= m - 1 /\ (m - 1) + 1 = m
  BY <1>1, <1>2
<1>4. m - 1 \notin Bad
  <2> HIDE DEF Bad
  <2> QED BY <1>1, <1>3
<1>5. 2^k <= 2^(m - 1)
  BY <1>3, <1>4
<1>6. 2^m = 2 * 2^(m - 1) /\ 2^(m - 1) \in Nat /\ 2^k \in Nat
  BY <1>3, TwoTo
<1> QED BY <1>1, <1>5, <1>6

-----------------------------------------------------------------------------
(* Divisibility and rounding.                                              *)

LEMMA DivisionFacts ==
    ASSUME NEW x \in Nat, NEW y \in Nat, y > 0
    PROVE  /\ x \div y \in Nat /\ (x \div y) * y <= x /\ x < (x \div y) * y + y
           /\ x = (x \div y) * y + (x % y) /\ x % y \in 0..y - 1
  OBVIOUS

LEMMA DividesWitness ==
    ASSUME NEW k \in Nat \ {0}, NEW n \in Nat
    PROVE  Divides(k, n) <=> \E q \in Nat : n = q * k
<1>1. ASSUME Divides(k, n) PROVE \E q \in Nat : n = q * k
  <2>1. n \div k \in Nat /\ n = (n \div k) * k + (n % k)
    BY DivisionFacts
  <2>2. (n \div k) * k \in Nat
    BY <2>1
  <2>3. n = (n \div k) * k
    BY <1>1, <2>1, <2>2 DEF Divides
  <2> QED BY <2>1, <2>3
<1>2. ASSUME NEW q \in Nat, n = q * k PROVE Divides(k, n)
  <2>1. (q * k) % k = 0
    OBVIOUS
  <2> QED BY <1>2, <2>1 DEF Divides
<1> QED BY <1>1, <1>2

LEMMA DividesSum ==
    ASSUME NEW k \in Nat \ {0}, NEW a \in Nat, NEW b \in Nat, Divides(k, a)
    PROVE  Divides(k, a + b) <=> Divides(k, b)
<1>1. PICK p \in Nat : a = p * k
  BY DividesWitness
<1>2. ASSUME Divides(k, b) PROVE Divides(k, a + b)
  <2>1. PICK q \in Nat : b = q * k
    BY <1>2, DividesWitness
  <2>2. (p + q) * k = p * k + q * k
    OBVIOUS
  <2>3. p + q \in Nat /\ a + b \in Nat
    OBVIOUS
  <2> QED BY <1>1, <2>1, <2>2, <2>3, DividesWitness
<1>3. ASSUME Divides(k, a + b) PROVE Divides(k, b)
  <2>1. PICK q \in Nat : a + b = q * k
    BY <1>3, DividesWitness
  <2>2. q >= p
    <3> SUFFICES ASSUME q < p PROVE FALSE
      OBVIOUS
    <3>1. p = q + (p - q) /\ p - q \in Nat /\ p - q > 0
      OBVIOUS
    <3>2. ASSUME NEW d \in Nat, d > 0 PROVE (q + d) * k > q * k
      <4>1. (q + d) * k = q * k + d * k
        OBVIOUS
      <4>2. d * k > 0 /\ q * k \in Nat /\ d * k \in Nat
        BY <3>2
      <4> QED BY <4>1, <4>2
    <3> QED BY <1>1, <2>1, <3>1, <3>2
  <2>3. q - p \in Nat /\ (q - p) * k = q * k - p * k /\ q * k \in Nat /\ p * k \in Nat
    BY <2>2
  <2> QED BY <1>1, <2>1, <2>3, DividesWitness
<1> QED BY <1>2, <1>3

LEMMA DividesTrans ==
    ASSUME NEW j \in Nat \ {0}, NEW k \in Nat \ {0}, NEW n \in Nat, Divides(j, k), Divides(k, n)
    PROVE  Divides(j, n)
<1>1. PICK p \in Nat : k = p * j
  BY DividesWitness
<1>2. PICK q \in Nat : n = q * k
  BY DividesWitness
<1>3. q * (p * j) = (q * p) * j /\ q * p \in Nat
  OBVIOUS
<1> QED BY <1>1, <1>2, <1>3, DividesWitness

LEMMA DividesProduct ==
    ASSUME NEW k \in Nat \ {0}, NEW a \in Nat, NEW b \in Nat, Divides(k, b)
    PROVE  Divides(k, a * b)
<1>1. PICK p \in Nat : b = p * k
  BY DividesWitness
<1>2. a * (p * k) = (a * p) * k /\ a * p \in Nat /\ a * b \in Nat
  OBVIOUS
<1> QED BY <1>1, <1>2, DividesWitness

\* The next multiple is the least one that is not smaller.
LEMMA NextMultiple ==
    ASSUME NEW n \in Nat, NEW k \in Nat \ {0}
    PROVE  /\ NextMultipleOf(n, k) \in Nat /\ n <= NextMultipleOf(n, k)
           /\ Divides(k, NextMultipleOf(n, k))
           /\ \A m \in Nat : n <= m /\ Divides(k, m) => NextMultipleOf(n, k) <= m
<1> DEFINE q == (n + k - 1) \div k
<1>1. n + k - 1 \in Nat /\ k > 0
  OBVIOUS
<1>2. q \in Nat /\ q * k <= n + k - 1 /\ n + k - 1 < q * k + k
  BY <1>1, DivisionFacts
<1> HIDE DEF q
<1>3. q * k \in Nat /\ NextMultipleOf(n, k) = q * k
  BY <1>2 DEF NextMultipleOf, q
<1>4. ASSUME NEW m \in Nat, n <= m, Divides(k, m) PROVE q * k <= m
  <2>1. PICK p \in Nat : m = p * k
    BY <1>4, DividesWitness
  <2>2. CASE q <= p
    <3>1. p = q + (p - q) /\ p - q \in Nat
      BY <1>2, <2>2
    <3>2. ASSUME NEW d \in Nat PROVE (q + d) * k = q * k + d * k /\ d * k \in Nat
      BY <1>2
    <3> QED BY <1>3, <2>1, <3>1, <3>2
  <2>3. CASE p < q
    <3>1. q = (p + 1) + (q - (p + 1)) /\ q - (p + 1) \in Nat
      BY <1>2, <2>3
    <3>2. ASSUME NEW d \in Nat PROVE ((p + 1) + d) * k = p * k + k + d * k /\ d * k \in Nat /\ p * k \in Nat
      OBVIOUS
    <3>3. q * k >= p * k + k
      BY <3>1, <3>2
    <3> QED BY <1>2, <1>3, <1>4, <2>1, <3>3
  <2> QED BY <1>2, <2>2, <2>3
<1>5. Divides(k, q * k)
  BY <1>2, <1>3, DividesWitness
<1> QED BY <1>1, <1>2, <1>3, <1>4, <1>5

LEMMA PowerExceeds == \A n \in Nat : n < 2^n
<1> DEFINE Bad == {n \in Nat : ~(n < 2^n)}
<1> SUFFICES ASSUME Bad # {} PROVE FALSE
  OBVIOUS
<1>1. PICK n \in Bad : n \in Nat /\ ~(n < 2^n) /\ \A y \in Bad : n <= y
  BY LeastNumber
<1>2. n # 0
  BY <1>1, TwoToZero
<1>3. n - 1 \in Nat /\ n - 1 \notin Bad /\ (n - 1) + 1 = n
  <2> HIDE DEF Bad
  <2> QED BY <1>1, <1>2
<1>4. n - 1 < 2^(n - 1)
  BY <1>3
<1>5. 2^n = 2 * 2^(n - 1) /\ 2^(n - 1) \in Nat
  BY <1>3, TwoTo
<1> QED BY <1>1, <1>2, <1>4, <1>5

\* The height a trace is padded to is a power of two, and the least one.
LEMMA PaddedHeight ==
    ASSUME NEW n \in Nat
    PROVE  LET p == NextPowerOfTwoOrZero(n) IN
           /\ p \in Nat /\ n <= p
           /\ n = 0 => p = 0
           /\ n # 0 => \E i \in 0..n : p = 2^i /\ 2^i < 2 * n
<1>1. CASE n = 0
  BY <1>1 DEF NextPowerOfTwoOrZero
<1>2. CASE n # 0
  <2> DEFINE T == {i \in Nat : n <= 2^i}
  <2>1. n \in T
    BY TwoTo, PowerExceeds
  <2>2. PICK i \in T : i \in Nat /\ n <= 2^i /\ \A y \in T : i <= y
    BY <2>1, LeastNumber
  <2>3. i \in 0..n
    <3> HIDE DEF T
    <3> QED BY <2>1, <2>2
  <2>4. 2^i < 2 * n
    <3>1. CASE i = 0
      BY <1>2, <3>1, TwoToZero
    <3>2. CASE i # 0
      <4>1. i - 1 \in Nat /\ i - 1 \notin T /\ (i - 1) + 1 = i
        <5> HIDE DEF T
        <5> QED BY <2>2, <3>2
      <4>2. ~(n <= 2^(i - 1)) /\ 2^(i - 1) \in Nat /\ 2^i = 2 * 2^(i - 1)
        BY <4>1, TwoTo
      <4> QED BY <4>2
    <3> QED BY <3>1, <3>2
  <2> DEFINE P == {2^j : j \in 0..n}
             p == CHOOSE m \in P : m >= n /\ m < 2 * n
  <2>5. 2^i \in P /\ 2^i >= n /\ 2^i \in Nat
    BY <2>2, <2>3, TwoTo
  <2>6. p \in P /\ p >= n /\ p < 2 * n
    <3> HIDE DEF P
    <3> QED BY <2>4, <2>5
  <2>7. p = NextPowerOfTwoOrZero(n)
    BY <1>2 DEF NextPowerOfTwoOrZero
  <2> HIDE DEF p
  <2>8. PICK j \in 0..n : p = 2^j
    BY <2>6
  <2>9. p \in Nat
    BY <2>8, TwoTo
  <2> QED BY <1>2, <2>6, <2>7, <2>8, <2>9
<1> QED BY <1>1, <1>2

\* Rows that fit a padded height fit it when padded themselves.
LEMMA PaddedFits ==
    ASSUME NEW n \in Nat, NEW h \in Nat, n <= NextPowerOfTwoOrZero(h)
    PROVE  NextPowerOfTwoOrZero(n) <= NextPowerOfTwoOrZero(h)
<1>1. CASE n = 0
  BY <1>1, PaddedHeight
<1>2. CASE n # 0
  <2>1. h # 0
    BY <1>2, PaddedHeight
  <2>2. PICK i \in 0..n : NextPowerOfTwoOrZero(n) = 2^i /\ 2^i < 2 * n
    BY <1>2, PaddedHeight
  <2>3. PICK j \in 0..h : NextPowerOfTwoOrZero(h) = 2^j
    BY <2>1, PaddedHeight
  <2>4. i \in Nat /\ j \in Nat /\ 2^i \in Nat /\ 2^j \in Nat /\ 2^(j + 1) = 2 * 2^j
    BY TwoTo
  <2>5. CASE i <= j
    BY <2>2, <2>3, <2>4, <2>5, TwoToMonotone
  <2>6. CASE j < i
    <3>1. 2^(j + 1) <= 2^i
      BY <2>4, <2>6, TwoToMonotone
    <3> QED BY <2>2, <2>3, <2>4, <3>1
  <2> QED BY <2>4, <2>5, <2>6
<1> QED BY <1>1, <1>2

-----------------------------------------------------------------------------
(* What the sizes and alignments of a record amount to.                    *)

CoreBytes(l, rows) == IF l.multi_row THEN rows * l.core_size ELSE l.core_size
SplitOfMatrix(l) == IF l.multi_row THEN l.adapter_size ELSE l.adapter_width * FIELD_BYTES
SplitOfDense(l) == IF l.multi_row THEN l.adapter_size ELSE AlignedSizes(l)[1]

LEMMA LayoutTyped ==
    ASSUME NEW l \in Layouts
    PROVE  /\ l.multi_row \in BOOLEAN
           /\ l.adapter_size \in Nat \ {0} /\ l.adapter_alignment \in Nat \ {0}
           /\ l.core_size \in Nat /\ l.core_alignment \in Nat \ {0}
           /\ l.adapter_width \in Nat /\ l.width \in Nat \ {0}
           /\ FIELD_BYTES \in Nat \ {0} /\ MAX_ALIGNMENT \in Nat \ {0} /\ MaxRows \in Nat
<1>1. l \in LayoutType
  BY LayoutAssumption
<1> QED BY <1>1, LayoutAssumption DEF LayoutType

\* The parts of a record of several rows.
LEMMA MultiRowFacts ==
    ASSUME NEW l \in Layouts, l.multi_row, NEW rows \in 1..MaxRows
    PROVE  LET whole == AlignedRecordSize(l, rows)
               core  == rows * l.core_size
               space == rows * l.width * FIELD_BYTES
           IN  /\ whole \in Nat /\ core \in Nat /\ space \in Nat
               /\ l.adapter_size + core <= whole /\ whole <= space
               /\ Divides(l.adapter_alignment, whole)
               /\ Divides(l.core_alignment, whole)
               /\ Divides(l.core_alignment, l.adapter_size)
<1> DEFINE a == l.adapter_alignment
           c == l.core_alignment
           core == rows * l.core_size
           space == rows * l.width * FIELD_BYTES
           size == l.adapter_size + core
<1>1. /\ a \in Nat \ {0} /\ c \in Nat \ {0} /\ core \in Nat /\ l.adapter_size \in Nat /\ size \in Nat
      /\ rows \in Nat /\ rows * l.width \in Nat /\ FIELD_BYTES \in Nat
  BY LayoutTyped
<1>2. space \in Nat
  <2>1. ASSUME NEW x \in Nat, NEW y \in Nat PROVE x * y \in Nat
    OBVIOUS
  <2> QED BY <1>1, <2>1
<1>3. /\ size <= space /\ Divides(a, FIELD_BYTES) /\ Divides(c, a) /\ Divides(a, l.adapter_size)
  BY LayoutAssumption
<1>4. Divides(a, space)
  BY <1>1, <1>3, DividesProduct
<1>5. AlignedRecordSize(l, rows) = NextMultipleOf(size, a)
  BY DEF AlignedRecordSize, RecordSize
<1> HIDE DEF size, space, core, a, c
<1>6. /\ NextMultipleOf(size, a) \in Nat /\ size <= NextMultipleOf(size, a)
      /\ Divides(a, NextMultipleOf(size, a)) /\ NextMultipleOf(size, a) <= space
  BY <1>1, <1>2, <1>3, <1>4, NextMultiple
<1>7. Divides(c, NextMultipleOf(size, a)) /\ Divides(c, l.adapter_size)
  BY <1>1, <1>3, <1>6, DividesTrans
<1>8. size = l.adapter_size + core
  BY DEF size
<1> QED BY <1>1, <1>2, <1>5, <1>6, <1>7, <1>8 DEF core, space, a, c

\* The parts of a record of one row.
LEMMA AdapterCoreFacts ==
    ASSUME NEW l \in Layouts, ~l.multi_row
    PROVE  LET first  == AlignedSizes(l)[1]
               second == AlignedSizes(l)[2]
               split  == l.adapter_width * FIELD_BYTES
               space  == l.width * FIELD_BYTES
           IN  /\ first \in Nat /\ second \in Nat /\ split \in Nat /\ space \in Nat
               /\ l.adapter_size <= first /\ first <= split
               /\ l.core_size <= second /\ split + second <= space
               /\ Divides(l.adapter_alignment, first + second)
               /\ Divides(l.core_alignment, first + second)
               /\ Divides(l.core_alignment, first)
<1> DEFINE a == l.adapter_alignment
           c == l.core_alignment
           size == l.adapter_size
           core == l.core_size
           split == l.adapter_width * FIELD_BYTES
           rest == (l.width - l.adapter_width) * FIELD_BYTES
           space == l.width * FIELD_BYTES
           first == NextMultipleOf(size, c)
           whole == NextMultipleOf(first + core, a)
<1>1. /\ a \in Nat \ {0} /\ c \in Nat \ {0} /\ core \in Nat /\ size \in Nat /\ FIELD_BYTES \in Nat
      /\ l.adapter_width \in Nat /\ l.width \in Nat
  BY LayoutTyped
<1>2. /\ Divides(a, size) /\ Divides(a, FIELD_BYTES) /\ Divides(c, FIELD_BYTES) /\ Divides(c, core)
      /\ l.adapter_width < l.width /\ size <= split /\ core <= rest
      /\ Divides(c, a) \/ Divides(a, c)
  BY LayoutAssumption
<1>3. /\ split \in Nat /\ rest \in Nat /\ space = split + rest /\ l.width - l.adapter_width \in Nat
  <2>1. ASSUME NEW x \in Nat, NEW y \in Nat, NEW f \in Nat, x < y
        PROVE  x * f \in Nat /\ (y - x) * f \in Nat /\ y * f = x * f + (y - x) * f
    <3>1. y - x \in Nat /\ y = x + (y - x)
      BY <2>1
    <3>2. ASSUME NEW d \in Nat PROVE (x + d) * f = x * f + d * f /\ d * f \in Nat
      OBVIOUS
    <3> QED BY <3>1, <3>2
  <2> QED BY <1>1, <1>2, <2>1
<1>4. Divides(a, split) /\ Divides(c, split) /\ Divides(a, rest) /\ Divides(c, rest)
  BY <1>1, <1>2, <1>3, DividesProduct
<1>5. AlignedSizes(l) = <<first, whole - first>>
  BY DEF AlignedSizes
<1> HIDE DEF a, c, size, core, split, rest, space
<1>6. first \in Nat /\ size <= first /\ Divides(c, first) /\ first <= split
  BY <1>1, <1>2, <1>3, <1>4, NextMultiple
<1> HIDE DEF first
<1>7. Divides(a, first)
  <2>1. CASE Divides(a, c)
    BY <1>1, <1>6, <2>1, DividesTrans
  <2>2. CASE Divides(c, a)
    <3>1. Divides(c, size)
      BY <1>1, <1>2, <2>2, DividesTrans
    <3>2. first <= size
      BY <1>1, <3>1, NextMultiple DEF first
    <3>3. first = size
      BY <1>1, <1>6, <3>2
    <3> QED BY <1>2, <3>3
  <2> QED BY <1>2, <2>1, <2>2
<1>8. first + core \in Nat /\ first + core <= first + rest /\ first + rest \in Nat
  BY <1>1, <1>2, <1>3, <1>6
<1>9. Divides(a, first + rest)
  BY <1>1, <1>3, <1>4, <1>6, <1>7, DividesSum
<1>10. /\ whole \in Nat /\ first + core <= whole /\ Divides(a, whole) /\ whole <= first + rest
  BY <1>1, <1>8, <1>9, NextMultiple
<1>11. Divides(c, whole)
  <2>1. CASE Divides(c, a)
    BY <1>1, <1>10, <2>1, DividesTrans
  <2>2. CASE Divides(a, c)
    <3>1. Divides(c, first + core)
      BY <1>1, <1>2, <1>6, DividesSum
    <3>2. Divides(a, first + core)
      BY <1>1, <1>8, <2>2, <3>1, DividesTrans
    <3>3. whole <= first + core
      BY <1>1, <1>8, <3>2, NextMultiple
    <3>4. whole = first + core
      BY <1>8, <1>10, <3>3
    <3> QED BY <3>1, <3>4
  <2> QED BY <1>2, <2>1, <2>2
<1> HIDE DEF whole
<1>12. /\ whole - first \in Nat /\ core <= whole - first /\ split + (whole - first) <= space
       /\ first + (whole - first) = whole
  BY <1>1, <1>3, <1>6, <1>10
<1>13. AlignedSizes(l)[1] = first /\ AlignedSizes(l)[2] = whole - first /\ space \in Nat
  BY <1>3, <1>5
<1> QED BY <1>3, <1>6, <1>10, <1>11, <1>12, <1>13 DEF a, c, size, core, split, space

\* Either kind of record: what the arenas need to know.
LEMMA RecordFacts ==
    ASSUME NEW l \in Layouts, NEW rows \in RowNumbers(l)
    PROVE  /\ AlignedRecordSize(l, rows) \in Nat /\ CoreBytes(l, rows) \in Nat
           /\ SplitOfDense(l) \in Nat /\ SplitOfMatrix(l) \in Nat
           /\ l.width * FIELD_BYTES \in Nat \ {0} /\ rows * (l.width * FIELD_BYTES) \in Nat
           /\ rows \in Nat \ {0}
           /\ RecordSize(l, rows) - l.adapter_size = CoreBytes(l, rows)
           /\ l.adapter_size <= SplitOfDense(l)
           /\ SplitOfDense(l) + CoreBytes(l, rows) <= AlignedRecordSize(l, rows)
           /\ AlignedRecordSize(l, rows) <= rows * (l.width * FIELD_BYTES)
           /\ l.adapter_size <= SplitOfMatrix(l)
           /\ SplitOfMatrix(l) + CoreBytes(l, rows) <= rows * (l.width * FIELD_BYTES)
           /\ Divides(l.adapter_alignment, AlignedRecordSize(l, rows))
           /\ Divides(l.core_alignment, AlignedRecordSize(l, rows))
           /\ Divides(l.core_alignment, SplitOfDense(l))
<1> DEFINE w == l.width * FIELD_BYTES
<1>1. /\ l.width \in Nat \ {0} /\ FIELD_BYTES \in Nat \ {0} /\ l.adapter_size \in Nat
      /\ l.core_size \in Nat
  BY LayoutTyped
<1>2. w \in Nat \ {0}
  BY <1>1
<1>3. CASE l.multi_row
  <2>1. rows \in 1..MaxRows /\ rows \in Nat \ {0}
    BY <1>3, LayoutTyped DEF RowNumbers
  <2>2. rows * l.width * FIELD_BYTES = rows * w
    BY <1>1, <2>1
  <2>3. rows * w \in Nat
    BY <1>2, <2>1
  <2>4. CoreBytes(l, rows) = rows * l.core_size /\ SplitOfDense(l) = l.adapter_size
        /\ SplitOfMatrix(l) = l.adapter_size
    BY <1>3 DEF CoreBytes, SplitOfDense, SplitOfMatrix
  <2>5. rows * l.core_size \in Nat
    BY <1>1, <2>1
  <2>6. RecordSize(l, rows) - l.adapter_size = CoreBytes(l, rows)
    BY <1>1, <2>4, <2>5 DEF RecordSize
  <2>7. /\ AlignedRecordSize(l, rows) \in Nat
        /\ l.adapter_size + rows * l.core_size <= AlignedRecordSize(l, rows)
        /\ AlignedRecordSize(l, rows) <= rows * w
        /\ Divides(l.adapter_alignment, AlignedRecordSize(l, rows))
        /\ Divides(l.core_alignment, AlignedRecordSize(l, rows))
        /\ Divides(l.core_alignment, l.adapter_size)
    BY <1>3, <2>1, <2>2, MultiRowFacts
  <2> HIDE DEF w
  <2>8. l.adapter_size + rows * l.core_size <= rows * w
    BY <1>1, <2>3, <2>5, <2>7
  <2> QED BY <1>1, <1>2, <2>1, <2>3, <2>4, <2>5, <2>6, <2>7, <2>8 DEF w
<1>4. CASE ~l.multi_row
  <2>1. rows = 1
    BY <1>4 DEF RowNumbers
  <2>2. rows * w = w
    BY <1>2, <2>1
  <2>3. CoreBytes(l, rows) = l.core_size /\ SplitOfDense(l) = AlignedSizes(l)[1]
        /\ SplitOfMatrix(l) = l.adapter_width * FIELD_BYTES
        /\ AlignedRecordSize(l, rows) = AlignedSizes(l)[1] + AlignedSizes(l)[2]
    BY <1>4 DEF CoreBytes, SplitOfDense, SplitOfMatrix, AlignedRecordSize
  <2>4. RecordSize(l, rows) - l.adapter_size = l.core_size
    BY <1>1, <2>1 DEF RecordSize
  <2> DEFINE first == AlignedSizes(l)[1]
             second == AlignedSizes(l)[2]
             split == l.adapter_width * FIELD_BYTES
  <2>5. /\ first \in Nat /\ second \in Nat /\ split \in Nat
        /\ l.adapter_size <= first /\ first <= split
        /\ l.core_size <= second /\ split + second <= w
        /\ Divides(l.adapter_alignment, first + second)
        /\ Divides(l.core_alignment, first + second)
        /\ Divides(l.core_alignment, first)
    BY <1>4, AdapterCoreFacts
  <2> HIDE DEF first, second, split, w
  <2>6. /\ first + l.core_size <= first + second /\ first + second <= w /\ first + second \in Nat
        /\ l.adapter_size <= split /\ split + l.core_size <= w
    BY <1>1, <1>2, <2>5
  <2> QED BY <1>1, <1>2, <2>1, <2>2, <2>3, <2>4, <2>5, <2>6 DEF first, second, split, w
<1> QED BY <1>3, <1>4, LayoutTyped

-----------------------------------------------------------------------------
(* Rows of a sequence of records.                                          *)

RecordsType == [rows : Nat, at : Nat]

LEMMA RowsUpToDefined ==
    ASSUME NEW s \in Seq(RecordsType)
    PROVE  RowsUpTo(s) = [k \in 0..Len(s) |-> IF k = 0 THEN 0 ELSE RowsUpTo(s)[k - 1] + s[k].rows]
<1> DEFINE Def(f, m) == f = [k \in 0..m |-> IF k = 0 THEN 0 ELSE f[k - 1] + s[k].rows]
           Bad == {m \in Nat : ~\E f : Def(f, m)}
<1>1. Bad = {}
  <2> SUFFICES ASSUME Bad # {} PROVE FALSE
    OBVIOUS
  <2>1. PICK m \in Bad : m \in Nat /\ \A y \in Bad : m <= y
    BY LeastNumber
  <2>2. CASE m = 0
    <3> DEFINE f == [k \in 0..0 |-> 0]
    <3>1. Def(f, 0)
      OBVIOUS
    <3> QED BY <2>1, <2>2, <3>1
  <2>3. CASE m # 0
    <3>1. m - 1 \in Nat /\ m - 1 \notin Bad
      <4> HIDE DEF Bad
      <4> QED BY <2>1, <2>3
    <3>2. PICK f : Def(f, m - 1)
      BY <3>1
    <3> DEFINE g == [k \in 0..m |-> IF k = 0 THEN 0 ELSE f[k - 1] + s[k].rows]
    <3>3. ASSUME NEW k \in 1..m PROVE f[k - 1] = g[k - 1]
      <4> DEFINE j == k - 1
      <4>1. j \in 0..m - 1 /\ j \in 0..m
        BY <3>1
      <4>2. f[j] = IF j = 0 THEN 0 ELSE f[j - 1] + s[j].rows
        BY <3>2, <4>1
      <4>3. g[j] = IF j = 0 THEN 0 ELSE f[j - 1] + s[j].rows
        BY <4>1
      <4> QED BY <4>2, <4>3
    <3>4. Def(g, m)
      <4>1. \A k \in 0..m : g[k] = IF k = 0 THEN 0 ELSE g[k - 1] + s[k].rows
        <5> SUFFICES ASSUME NEW k \in 0..m
                     PROVE  g[k] = IF k = 0 THEN 0 ELSE g[k - 1] + s[k].rows
          OBVIOUS
        <5>1. CASE k = 0
          BY <5>1
        <5>2. CASE k # 0
          <6>1. k \in 1..m
            BY <5>2
          <6>2. f[k - 1] = g[k - 1]
            BY <3>3, <6>1
          <6>3. g[k] = f[k - 1] + s[k].rows
            BY <5>2
          <6> QED BY <5>2, <6>2, <6>3
        <5> QED BY <5>1, <5>2
      <4> QED BY <4>1
    <3> QED BY <2>1, <3>4
  <2> QED BY <2>2, <2>3
<1>2. \E f : Def(f, Len(s))
  BY <1>1
<1> QED BY <1>2 DEF RowsUpTo

LEMMA RowsUpToStep ==
    ASSUME NEW s \in Seq(RecordsType)
    PROVE  /\ RowsUpTo(s)[0] = 0
           /\ \A k \in 0..Len(s) : RowsUpTo(s)[k] \in Nat
           /\ \A k \in 1..Len(s) : RowsUpTo(s)[k] = RowsUpTo(s)[k - 1] + s[k].rows /\ s[k].rows \in Nat
<1> DEFINE R == RowsUpTo(s)
<1>1. \A k \in 0..Len(s) : R[k] = IF k = 0 THEN 0 ELSE R[k - 1] + s[k].rows
  <2>1. R = [k \in 0..Len(s) |-> IF k = 0 THEN 0 ELSE R[k - 1] + s[k].rows]
    BY RowsUpToDefined
  <2> HIDE DEF R
  <2> QED BY <2>1
<1> HIDE DEF R
<1>2. Len(s) \in Nat /\ \A k \in 1..Len(s) : s[k].rows \in Nat
  <2>1. Len(s) \in Nat /\ \A k \in 1..Len(s) : s[k] \in RecordsType
    OBVIOUS
  <2> QED BY <2>1 DEF RecordsType
<1>3. R[0] = 0
  BY <1>1, <1>2
<1>4. \A k \in 1..Len(s) : R[k] = R[k - 1] + s[k].rows
  <2> SUFFICES ASSUME NEW k \in 1..Len(s) PROVE R[k] = R[k - 1] + s[k].rows
    OBVIOUS
  <2>1. k \in 0..Len(s) /\ k # 0
    BY <1>2
  <2> QED BY <1>1, <2>1
<1> DEFINE Bad == {k \in Nat : k <= Len(s) /\ R[k] \notin Nat}
<1>5. Bad = {}
  <2> SUFFICES ASSUME Bad # {} PROVE FALSE
    OBVIOUS
  <2>1. PICK k \in Bad : k \in Nat /\ k <= Len(s) /\ R[k] \notin Nat /\ \A y \in Bad : k <= y
    BY LeastNumber
  <2>2. k # 0
    BY <1>3, <2>1
  <2>3. k - 1 \in Nat /\ k - 1 \notin Bad /\ k \in 1..Len(s) /\ k - 1 <= Len(s)
    <3> HIDE DEF Bad
    <3> QED BY <1>2, <2>1, <2>2
  <2>4. R[k - 1] \in Nat
    BY <2>3
  <2> QED BY <1>2, <1>4, <2>1, <2>3, <2>4
<1>6. \A k \in 0..Len(s) : R[k] \in Nat
  <2> SUFFICES ASSUME NEW k \in 0..Len(s) PROVE R[k] \in Nat
    OBVIOUS
  <2> QED BY <1>2, <1>5
<1> QED BY <1>2, <1>3, <1>4, <1>6 DEF R

LEMMA RowsUpToMonotone ==
    ASSUME NEW s \in Seq(RecordsType), NEW j \in 0..Len(s), NEW n \in 0..Len(s), j <= n
    PROVE  RowsUpTo(s)[j] <= RowsUpTo(s)[n]
<1> DEFINE R == RowsUpTo(s)
           Bad == {k \in Nat : j <= k /\ k <= Len(s) /\ ~(R[j] <= R[k])}
<1>1. /\ \A k \in 0..Len(s) : R[k] \in Nat
      /\ \A k \in 1..Len(s) : R[k] = R[k - 1] + s[k].rows /\ s[k].rows \in Nat
  BY RowsUpToStep
<1> HIDE DEF R
<1>2. Bad = {}
  <2> SUFFICES ASSUME Bad # {} PROVE FALSE
    OBVIOUS
  <2>1. PICK k \in Bad : k \in Nat /\ j <= k /\ k <= Len(s) /\ ~(R[j] <= R[k]) /\ \A y \in Bad : k <= y
    BY LeastNumber
  <2>2. k # j
    BY <1>1, <2>1
  <2>3. k - 1 \in Nat /\ k - 1 \notin Bad /\ k \in 1..Len(s) /\ k - 1 \in 0..Len(s) /\ j <= k - 1
    <3> HIDE DEF Bad
    <3> QED BY <2>1, <2>2
  <2>4. R[j] <= R[k - 1]
    BY <2>3
  <2>5. R[j] \in Nat /\ R[k - 1] \in Nat /\ s[k].rows \in Nat /\ R[k] = R[k - 1] + s[k].rows
    BY <1>1, <2>3
  <2> HIDE DEF Bad
  <2> QED BY <2>1, <2>4, <2>5
<1>3. R[j] <= R[n]
  <2>1. n \in Nat /\ n \notin Bad /\ j <= n /\ n <= Len(s)
    <3> HIDE DEF Bad
    <3> QED BY <1>2
  <2> QED BY <2>1
<1> QED BY <1>3 DEF R

LEMMA RowsUpToAppend ==
    ASSUME NEW s \in Seq(RecordsType), NEW r \in RecordsType
    PROVE  /\ \A k \in 0..Len(s) : RowsUpTo(Append(s, r))[k] = RowsUpTo(s)[k]
           /\ RowsUpTo(Append(s, r))[Len(s) + 1] = RowsUpTo(s)[Len(s)] + r.rows
<1> DEFINE t == Append(s, r)
           R == RowsUpTo(s)
           Q == RowsUpTo(t)
<1>1. /\ t \in Seq(RecordsType) /\ Len(t) = Len(s) + 1 /\ Len(s) \in Nat
      /\ \A k \in 1..Len(s) : t[k] = s[k]
      /\ t[Len(s) + 1] = r
  OBVIOUS
<1> HIDE DEF t
<1>2. R[0] = 0 /\ \A k \in 1..Len(s) : R[k] = R[k - 1] + s[k].rows
  BY RowsUpToStep
<1>3. Q[0] = 0 /\ \A k \in 1..Len(t) : Q[k] = Q[k - 1] + t[k].rows
  BY <1>1, RowsUpToStep
<1> HIDE DEF R, Q
<1> DEFINE Bad == {k \in Nat : k <= Len(s) /\ Q[k] # R[k]}
<1>4. Bad = {}
  <2> SUFFICES ASSUME Bad # {} PROVE FALSE
    OBVIOUS
  <2>1. PICK k \in Bad : k \in Nat /\ k <= Len(s) /\ Q[k] # R[k] /\ \A y \in Bad : k <= y
    BY LeastNumber
  <2>2. k # 0
    BY <1>2, <1>3, <2>1
  <2>3. k - 1 \in Nat /\ k - 1 \notin Bad /\ k \in 1..Len(s) /\ k - 1 <= Len(s) /\ k \in 1..Len(t)
    <3> HIDE DEF Bad
    <3> QED BY <1>1, <2>1, <2>2
  <2>4. Q[k - 1] = R[k - 1]
    BY <2>3
  <2> QED BY <1>1, <1>2, <1>3, <2>1, <2>3, <2>4
<1>5. \A k \in 0..Len(s) : Q[k] = R[k]
  BY <1>1, <1>4
<1>6. Q[Len(s) + 1] = R[Len(s)] + r.rows
  <2>1. Len(s) + 1 \in 1..Len(t) /\ (Len(s) + 1) - 1 = Len(s) /\ Len(s) \in 0..Len(s)
    BY <1>1
  <2> QED BY <1>1, <1>3, <1>5, <2>1
<1> QED BY <1>5, <1>6 DEF Q, R, t

-----------------------------------------------------------------------------
(* Bytes.                                                                  *)

LEMMA Products ==
    ASSUME NEW w \in Nat, NEW x \in Nat, NEW y \in Nat
    PROVE  /\ x * w \in Nat /\ (x + y) * w = x * w + y * w
           /\ x <= y => x * w <= y * w
<1>1. \A d \in Nat : d * w \in Nat /\ (x + d) * w = x * w + d * w
  OBVIOUS
<1>2. ASSUME x <= y PROVE x * w <= y * w
  <2>1. y - x \in Nat /\ y = x + (y - x)
    BY <1>2
  <2>2. x * w \in Nat /\ (y - x) * w \in Nat /\ y * w = x * w + (y - x) * w
    BY <1>1, <2>1
  <2> QED BY <2>2
<1> QED BY <1>1, <1>2

\* The two parts of record n, of the given sizes, in a buffer.
PartsAt(buf, at, split, n, first, second) ==
    /\ \A i \in 0..first - 1 : buf[at + i] = <<n, "adapter", i>>
    /\ \A i \in 0..second - 1 : buf[at + split + i] = <<n, "core", i>>

\* new is buf, of N bytes, with the record between at and end.
Placed(new, buf, N, at, end, split, n, first, second) ==
    /\ DOMAIN new = 0..N - 1
    /\ PartsAt(new, at, split, n, first, second)
    /\ \A i \in 0..N - 1 : i < at \/ end <= i => new[i] = buf[i]

LEMMA PartsWritten ==
    ASSUME NEW N \in Nat, NEW buf, DOMAIN buf = 0..N - 1, NEW n,
           NEW at \in Nat, NEW split \in Nat, NEW first \in Nat, NEW second \in Nat, NEW end \in Nat,
           first <= split, at + split + second <= end, end <= N,
           NEW new, new = WritePart(WritePart(buf, at, n, "adapter", first), at + split, n, "core", second)
    PROVE  Placed(new, buf, N, at, end, split, n, first, second)
<1> DEFINE mid == WritePart(buf, at, n, "adapter", first)
<1>1. mid = [i \in 0..N - 1 |-> IF i - at \in 0..first - 1 THEN <<n, "adapter", i - at>> ELSE buf[i]]
  BY DEF WritePart
<1>2. DOMAIN mid = 0..N - 1
  BY <1>1
<1>3. new = [i \in 0..N - 1 |-> IF i - (at + split) \in 0..second - 1
                                THEN <<n, "core", i - (at + split)>> ELSE mid[i]]
  BY <1>2 DEF WritePart
<1> HIDE DEF mid
<1>4. ASSUME NEW i \in 0..first - 1 PROVE new[at + i] = <<n, "adapter", i>>
  <2>1. at + i \in 0..N - 1 /\ (at + i) - at = i /\ ~((at + i) - (at + split) \in 0..second - 1)
    BY <1>4
  <2>2. new[at + i] = mid[at + i]
    BY <1>3, <2>1
  <2>3. mid[at + i] = <<n, "adapter", i>>
    BY <1>1, <2>1
  <2> QED BY <2>2, <2>3
<1>5. ASSUME NEW i \in 0..second - 1 PROVE new[at + split + i] = <<n, "core", i>>
  <2>1. at + split + i \in 0..N - 1 /\ (at + split + i) - (at + split) = i
    BY <1>5
  <2> QED BY <1>3, <2>1
<1>6. ASSUME NEW i \in 0..N - 1, i < at \/ end <= i PROVE new[i] = buf[i]
  <2>1. ~(i - (at + split) \in 0..second - 1) /\ ~(i - at \in 0..first - 1)
    BY <1>6
  <2> QED BY <1>1, <1>3, <2>1
<1> QED BY <1>3, <1>4, <1>5, <1>6 DEF PartsAt, Placed

\* Parts stay where nothing is written over them.
LEMMA PartsKept ==
    ASSUME NEW buf, NEW new, NEW n,
           NEW at \in Nat, NEW split \in Nat, NEW first \in Nat, NEW second \in Nat, NEW end \in Nat,
           first <= split, at + split + second <= end,
           \A i \in Nat : at <= i /\ i < end => new[i] = buf[i],
           PartsAt(buf, at, split, n, first, second)
    PROVE  PartsAt(new, at, split, n, first, second)
<1>1. ASSUME NEW i \in 0..first - 1 PROVE new[at + i] = <<n, "adapter", i>>
  <2>1. at + i \in Nat /\ at <= at + i /\ at + i < end
    BY <1>1
  <2> QED BY <2>1 DEF PartsAt
<1>2. ASSUME NEW i \in 0..second - 1 PROVE new[at + split + i] = <<n, "core", i>>
  <2>1. at + split + i \in Nat /\ at <= at + split + i /\ at + split + i < end
    BY <1>2
  <2> QED BY <2>1 DEF PartsAt
<1> QED BY <1>1, <1>2 DEF PartsAt

-----------------------------------------------------------------------------
(* The matrix, for a given layout and sequence of records.                 *)

RecordsOf(l) == [rows : RowNumbers(l), at : Nat]
BytesOfRow(l) == l.width * FIELD_BYTES

HoldsOf(buf, at, split, n, l, s) == PartsAt(buf, at, split, n, l.adapter_size, CoreBytes(l, s[n].rows))

MatrixHoldsOf(buf, h, n, l, s) ==
    /\ DOMAIN buf = 0..NextPowerOfTwoOrZero(h) * BytesOfRow(l) - 1
    /\ RowsUpTo(s)[n] <= NextPowerOfTwoOrZero(h)
    /\ \A k \in 1..n : HoldsOf(buf, RowsUpTo(s)[k - 1] * BytesOfRow(l), SplitOfMatrix(l), k, l, s)
    /\ \A i \in DOMAIN buf : i >= RowsUpTo(s)[n] * BytesOfRow(l) => buf[i] = ZeroByte

LEMMA RecordsTyped ==
    ASSUME NEW l \in Layouts, NEW s \in Seq(RecordsOf(l))
    PROVE  /\ s \in Seq(RecordsType) /\ Len(s) \in Nat
           /\ \A k \in 1..Len(s) : s[k] \in RecordsOf(l) /\ s[k].rows \in RowNumbers(l) /\ s[k].at \in Nat
           /\ \A k \in 0..Len(s) : RowsUpTo(s)[k] \in Nat
           /\ \A k \in 1..Len(s) : RowsUpTo(s)[k] = RowsUpTo(s)[k - 1] + s[k].rows
           /\ RowsUpTo(s)[0] = 0
<1>1. RowNumbers(l) \subseteq Nat
  BY LayoutTyped DEF RowNumbers
<1>2. RecordsOf(l) \subseteq RecordsType
  BY <1>1 DEF RecordsOf, RecordsType
<1>3. /\ Len(s) \in Nat /\ s \in [1..Len(s) -> RecordsOf(l)]
  OBVIOUS
<1>4. \A k \in 1..Len(s) : s[k] \in RecordsOf(l)
  BY <1>3
<1>5. \A k \in 1..Len(s) : s[k].rows \in RowNumbers(l) /\ s[k].at \in Nat
  BY <1>4 DEF RecordsOf
<1>6. s \in Seq(RecordsType)
  BY <1>2, <1>3, <1>4
<1> QED BY <1>3, <1>4, <1>5, <1>6, RowsUpToStep

\* The sizes of record k, and where its rows lie.
LEMMA RecordPlace ==
    ASSUME NEW l \in Layouts, NEW s \in Seq(RecordsOf(l)), NEW k \in 1..Len(s)
    PROVE  LET w == BytesOfRow(l)
               at == RowsUpTo(s)[k - 1] * w
               end == RowsUpTo(s)[k] * w
               core == CoreBytes(l, s[k].rows)
           IN  /\ w \in Nat \ {0} /\ at \in Nat /\ end \in Nat /\ core \in Nat
               /\ SplitOfMatrix(l) \in Nat /\ l.adapter_size \in Nat /\ l.adapter_size <= SplitOfMatrix(l)
               /\ at + SplitOfMatrix(l) + core <= end
               /\ end = at + s[k].rows * w
               /\ RowsUpTo(s)[k - 1] \in Nat /\ RowsUpTo(s)[k] \in Nat
               /\ s[k].rows \in Nat \ {0} /\ RowsUpTo(s)[k] = RowsUpTo(s)[k - 1] + s[k].rows
<1> DEFINE w == BytesOfRow(l)
           R == RowsUpTo(s)
           rows == s[k].rows
<1>1. /\ k - 1 \in 0..Len(s) /\ k \in 0..Len(s) /\ rows \in RowNumbers(l)
      /\ R[k - 1] \in Nat /\ R[k] \in Nat /\ R[k] = R[k - 1] + rows
  BY RecordsTyped
<1>2. /\ w \in Nat \ {0} /\ rows \in Nat \ {0} /\ CoreBytes(l, rows) \in Nat
      /\ SplitOfMatrix(l) \in Nat /\ l.adapter_size <= SplitOfMatrix(l)
      /\ SplitOfMatrix(l) + CoreBytes(l, rows) <= rows * w
  BY <1>1, RecordFacts DEF BytesOfRow
<1>3. l.adapter_size \in Nat
  BY LayoutTyped
<1> HIDE DEF w, R, rows
<1>4. /\ R[k - 1] * w \in Nat /\ rows * w \in Nat /\ R[k] * w = R[k - 1] * w + rows * w
  BY <1>1, <1>2, Products
<1> DEFINE at == R[k - 1] * w
           end == R[k] * w
           size == rows * w
           core == CoreBytes(l, rows)
<1>5. at \in Nat /\ size \in Nat /\ end = at + size /\ core \in Nat /\ SplitOfMatrix(l) + core <= size
  BY <1>2, <1>4
<1> HIDE DEF at, end, size, core
<1>6. end \in Nat /\ at + SplitOfMatrix(l) + core <= end
  BY <1>2, <1>5
<1> QED BY <1>1, <1>2, <1>3, <1>5, <1>6 DEF at, end, size, core, w, R, rows

\* A matrix with one more record in the rows behind the others.
LEMMA MatrixExtend ==
    ASSUME NEW l \in Layouts, NEW s \in Seq(RecordsOf(l)), NEW n \in 1..Len(s), NEW h \in Nat,
           NEW buf, MatrixHoldsOf(buf, h, n - 1, l, s),
           NEW new, DOMAIN new = DOMAIN buf,
           RowsUpTo(s)[n] <= NextPowerOfTwoOrZero(h),
           HoldsOf(new, RowsUpTo(s)[n - 1] * BytesOfRow(l), SplitOfMatrix(l), n, l, s),
           \A i \in DOMAIN buf : i < RowsUpTo(s)[n - 1] * BytesOfRow(l)
                                   \/ RowsUpTo(s)[n] * BytesOfRow(l) <= i => new[i] = buf[i]
    PROVE  MatrixHoldsOf(new, h, n, l, s)
<1> DEFINE w == BytesOfRow(l)
           R == RowsUpTo(s)
           P == NextPowerOfTwoOrZero(h)
<1>1. /\ n - 1 \in 0..Len(s) /\ n \in 0..Len(s)
      /\ w \in Nat \ {0} /\ R[n - 1] \in Nat /\ R[n] \in Nat
      /\ R[n - 1] * w \in Nat /\ R[n] * w \in Nat /\ R[n - 1] <= R[n]
  <2>1. /\ w \in Nat \ {0} /\ R[n - 1] \in Nat /\ R[n] \in Nat
        /\ R[n - 1] * w \in Nat /\ R[n] * w \in Nat
        /\ s[n].rows \in Nat \ {0} /\ R[n] = R[n - 1] + s[n].rows
    BY RecordPlace
  <2> HIDE DEF R, w
  <2> QED BY <2>1
<1>2. P \in Nat /\ P * w \in Nat /\ R[n - 1] * w <= P * w /\ R[n - 1] * w <= R[n] * w /\ R[n] * w <= P * w
  <2>1. P \in Nat
    BY PaddedHeight
  <2>2. R[n - 1] <= P
    BY DEF MatrixHoldsOf
  <2> HIDE DEF P, R, w
  <2> QED BY <1>1, <2>1, <2>2, Products DEF P, R
<1>3. DOMAIN buf = 0..P * w - 1
  BY DEF MatrixHoldsOf
<1>4. ASSUME NEW k \in 1..n
      PROVE  HoldsOf(new, R[k - 1] * w, SplitOfMatrix(l), k, l, s)
  <2>1. CASE k = n
    BY <2>1
  <2>2. CASE k # n
    <3>1. k \in 1..n - 1 /\ k \in 1..Len(s) /\ k \in 0..Len(s) /\ k <= n - 1
      BY <2>2
    <3> DEFINE at == R[k - 1] * w
               end == R[k] * w
               core == CoreBytes(l, s[k].rows)
    <3>2. /\ at \in Nat /\ end \in Nat /\ core \in Nat /\ SplitOfMatrix(l) \in Nat
          /\ l.adapter_size \in Nat /\ l.adapter_size <= SplitOfMatrix(l)
          /\ at + SplitOfMatrix(l) + core <= end /\ R[k] \in Nat
      BY <3>1, RecordPlace
    <3>3. R[k] <= R[n - 1]
      BY <1>1, <3>1, RecordsTyped, RowsUpToMonotone
    <3>4. end <= R[n - 1] * w
      <4> HIDE DEF R, w
      <4> QED BY <1>1, <3>2, <3>3, Products
    <3>5. PartsAt(buf, at, SplitOfMatrix(l), k, l.adapter_size, core)
      BY <3>1 DEF MatrixHoldsOf, HoldsOf
    <3>6. \A i \in DOMAIN buf : i < R[n - 1] * w => new[i] = buf[i]
      OBVIOUS
    <3> HIDE DEF at, end, core, R, w
    <3>7. ASSUME NEW i \in Nat, at <= i, i < end PROVE new[i] = buf[i]
      <4>1. i \in 0..P * w - 1 /\ i < R[n - 1] * w
        <5> DEFINE x == R[n - 1] * w
                   y == P * w
        <5>1. x \in Nat /\ y \in Nat /\ x <= y /\ end <= x
          BY <1>1, <1>2, <3>4
        <5> HIDE DEF x, y
        <5>2. i \in 0..y - 1 /\ i < x
          BY <3>2, <3>7, <5>1
        <5> QED BY <5>2 DEF x, y
      <4> QED BY <1>3, <3>6, <4>1
    <3>8. PartsAt(new, at, SplitOfMatrix(l), k, l.adapter_size, core)
      BY <3>2, <3>5, <3>7, PartsKept
    <3> QED BY <3>8 DEF HoldsOf, at, core
  <2> QED BY <2>1, <2>2
<1>5. ASSUME NEW i \in DOMAIN new, i >= R[n] * w PROVE new[i] = ZeroByte
  <2>1. new[i] = buf[i]
    BY <1>5
  <2>2. i >= R[n - 1] * w
    <3>1. i \in Nat
      BY <1>3
    <3> HIDE DEF R, w
    <3> QED BY <1>1, <1>2, <1>5, <3>1
  <2>3. buf[i] = ZeroByte
    BY <2>2 DEF MatrixHoldsOf
  <2> QED BY <2>1, <2>3
<1> QED BY <1>4, <1>5, <1>3 DEF MatrixHoldsOf

\* What a matrix holds does not depend on records still to come.
LEMMA MatrixAppend ==
    ASSUME NEW l \in Layouts, NEW s \in Seq(RecordsOf(l)), NEW r \in RecordsOf(l),
           NEW n \in 0..Len(s), NEW h, NEW buf, MatrixHoldsOf(buf, h, n, l, s)
    PROVE  MatrixHoldsOf(buf, h, n, l, Append(s, r))
<1> DEFINE t == Append(s, r)
<1>1. s \in Seq(RecordsType) /\ Len(s) \in Nat
  BY RecordsTyped
<1>2. r \in RecordsType
  <2>1. RowNumbers(l) \subseteq Nat
    BY LayoutTyped DEF RowNumbers
  <2> QED BY <2>1 DEF RecordsOf, RecordsType
<1>3. \A k \in 0..Len(s) : RowsUpTo(t)[k] = RowsUpTo(s)[k]
  BY <1>1, <1>2, RowsUpToAppend
<1>4. \A k \in 1..Len(s) : t[k] = s[k]
  BY <1>1
<1> HIDE DEF t
<1>5. RowsUpTo(t)[n] = RowsUpTo(s)[n]
  BY <1>3
<1>6. ASSUME NEW k \in 1..n
      PROVE  HoldsOf(buf, RowsUpTo(t)[k - 1] * BytesOfRow(l), SplitOfMatrix(l), k, l, t)
  <2>1. k - 1 \in 0..Len(s) /\ k \in 1..Len(s)
    BY <1>1
  <2>2. RowsUpTo(t)[k - 1] = RowsUpTo(s)[k - 1] /\ t[k] = s[k]
    BY <1>3, <1>4, <2>1
  <2>3. HoldsOf(buf, RowsUpTo(s)[k - 1] * BytesOfRow(l), SplitOfMatrix(l), k, l, s)
    BY DEF MatrixHoldsOf
  <2> QED BY <2>2, <2>3 DEF HoldsOf
<1>7. MatrixHoldsOf(buf, h, n, l, t)
  BY <1>5, <1>6 DEF MatrixHoldsOf
<1> QED BY <1>7 DEF t

-----------------------------------------------------------------------------
(* From the dense arena to a matrix.                                       *)

\* One copy carries a whole record over.
LEMMA CopyOne ==
    ASSUME NEW N \in Nat, NEW buf, DOMAIN buf = 0..N - 1, NEW n, NEW from \in Nat,
           NEW at \in Nat, NEW split \in Nat, NEW first \in Nat, NEW second \in Nat,
           NEW whole \in Nat, NEW end \in Nat,
           first <= split, split + second <= whole, at + whole <= end, end <= N,
           PartsAt(records_buffer, from, split, n, first, second),
           NEW new, new = Copy(buf, at, from, whole)
    PROVE  Placed(new, buf, N, at, end, split, n, first, second)
<1>1. new = [i \in 0..N - 1 |-> IF i - at \in 0..whole - 1 THEN records_buffer[from + i - at] ELSE buf[i]]
  BY DEF Copy
<1>2. ASSUME NEW i \in 0..first - 1 PROVE new[at + i] = <<n, "adapter", i>>
  <2>1. at + i \in 0..N - 1 /\ (at + i) - at \in 0..whole - 1 /\ from + (at + i) - at = from + i
    BY <1>2
  <2>2. new[at + i] = records_buffer[from + i]
    BY <1>1, <2>1
  <2> QED BY <2>2 DEF PartsAt
<1>3. ASSUME NEW i \in 0..second - 1 PROVE new[at + split + i] = <<n, "core", i>>
  <2>1. /\ at + split + i \in 0..N - 1 /\ (at + split + i) - at \in 0..whole - 1
        /\ from + (at + split + i) - at = from + split + i
    BY <1>3
  <2>2. new[at + split + i] = records_buffer[from + split + i]
    BY <1>1, <2>1
  <2> QED BY <2>2 DEF PartsAt
<1>4. ASSUME NEW i \in 0..N - 1, i < at \/ end <= i PROVE new[i] = buf[i]
  <2>1. ~(i - at \in 0..whole - 1)
    BY <1>4
  <2> QED BY <1>1, <2>1
<1> QED BY <1>1, <1>2, <1>3, <1>4 DEF PartsAt, Placed

\* Two copies carry the parts of a record over, to where the matrix splits it.
LEMMA CopyTwo ==
    ASSUME NEW N \in Nat, NEW buf, DOMAIN buf = 0..N - 1, NEW n, NEW from \in Nat,
           NEW at \in Nat, NEW split \in Nat, NEW first \in Nat, NEW second \in Nat,
           NEW size1 \in Nat, NEW size2 \in Nat, NEW end \in Nat,
           first <= size1, size1 <= split, second <= size2, at + split + size2 <= end, end <= N,
           PartsAt(records_buffer, from, size1, n, first, second),
           NEW new, new = Copy(Copy(buf, at, from, size1), at + split, from + size1, size2)
    PROVE  Placed(new, buf, N, at, end, split, n, first, second)
<1> DEFINE mid == Copy(buf, at, from, size1)
<1>1. mid = [i \in 0..N - 1 |-> IF i - at \in 0..size1 - 1 THEN records_buffer[from + i - at] ELSE buf[i]]
  BY DEF Copy
<1>2. DOMAIN mid = 0..N - 1
  BY <1>1
<1>3. new = [i \in 0..N - 1 |-> IF i - (at + split) \in 0..size2 - 1
                                THEN records_buffer[from + size1 + i - (at + split)] ELSE mid[i]]
  BY <1>2 DEF Copy
<1> HIDE DEF mid
<1>4. ASSUME NEW i \in 0..first - 1 PROVE new[at + i] = <<n, "adapter", i>>
  <2>1. /\ at + i \in 0..N - 1 /\ ~((at + i) - (at + split) \in 0..size2 - 1)
        /\ (at + i) - at \in 0..size1 - 1 /\ from + (at + i) - at = from + i
    BY <1>4
  <2>2. new[at + i] = mid[at + i]
    BY <1>3, <2>1
  <2>3. mid[at + i] = records_buffer[from + i]
    BY <1>1, <2>1
  <2> QED BY <2>2, <2>3 DEF PartsAt
<1>5. ASSUME NEW i \in 0..second - 1 PROVE new[at + split + i] = <<n, "core", i>>
  <2>1. /\ at + split + i \in 0..N - 1 /\ (at + split + i) - (at + split) \in 0..size2 - 1
        /\ from + size1 + (at + split + i) - (at + split) = from + size1 + i
    BY <1>5
  <2>2. new[at + split + i] = records_buffer[from + size1 + i]
    BY <1>3, <2>1
  <2> QED BY <2>2 DEF PartsAt
<1>6. ASSUME NEW i \in 0..N - 1, i < at \/ end <= i PROVE new[i] = buf[i]
  <2>1. ~(i - at \in 0..size1 - 1) /\ ~(i - (at + split) \in 0..size2 - 1)
    BY <1>6
  <2> QED BY <1>1, <1>3, <2>1
<1> QED BY <1>3, <1>4, <1>5, <1>6 DEF PartsAt, Placed

LEMMA TransfersDefined ==
    ASSUME Len(allocated) \in Nat
    PROVE  Transfers = [k \in 0..Len(allocated) |->
                          IF k = 0 THEN TransferStart ELSE TransferTurn(Transfers[k - 1])]
<1> DEFINE Def(f, m) == f = [k \in 0..m |-> IF k = 0 THEN TransferStart ELSE TransferTurn(f[k - 1])]
           Bad == {m \in Nat : ~\E f : Def(f, m)}
<1>1. Bad = {}
  <2> SUFFICES ASSUME Bad # {} PROVE FALSE
    OBVIOUS
  <2>1. PICK m \in Bad : m \in Nat /\ \A y \in Bad : m <= y
    BY LeastNumber
  <2>2. CASE m = 0
    <3> DEFINE f == [k \in 0..0 |-> TransferStart]
    <3>1. Def(f, 0)
      OBVIOUS
    <3> QED BY <2>1, <2>2, <3>1
  <2>3. CASE m # 0
    <3>1. m - 1 \in Nat /\ m - 1 \notin Bad
      <4> HIDE DEF Bad
      <4> QED BY <2>1, <2>3
    <3>2. PICK f : Def(f, m - 1)
      BY <3>1
    <3> DEFINE g == [k \in 0..m |-> IF k = 0 THEN TransferStart ELSE TransferTurn(f[k - 1])]
    <3>3. ASSUME NEW k \in 1..m PROVE f[k - 1] = g[k - 1]
      <4> DEFINE j == k - 1
      <4>1. j \in 0..m - 1 /\ j \in 0..m
        BY <3>1
      <4>2. f[j] = IF j = 0 THEN TransferStart ELSE TransferTurn(f[j - 1])
        BY <3>2, <4>1
      <4>3. g[j] = IF j = 0 THEN TransferStart ELSE TransferTurn(f[j - 1])
        BY <4>1
      <4> QED BY <4>2, <4>3
    <3>4. Def(g, m)
      <4>1. \A k \in 0..m : g[k] = IF k = 0 THEN TransferStart ELSE TransferTurn(g[k - 1])
        <5> SUFFICES ASSUME NEW k \in 0..m
                     PROVE  g[k] = IF k = 0 THEN TransferStart ELSE TransferTurn(g[k - 1])
          OBVIOUS
        <5>1. CASE k = 0
          BY <5>1
        <5>2. CASE k # 0
          <6>1. k \in 1..m
            BY <5>2
          <6>2. f[k - 1] = g[k - 1]
            BY <3>3, <6>1
          <6>3. g[k] = TransferTurn(f[k - 1])
            BY <5>2
          <6> QED BY <5>2, <6>2, <6>3
        <5> QED BY <5>1, <5>2
      <4> QED BY <4>1
    <3> QED BY <2>1, <3>4
  <2> QED BY <2>2, <2>3
<1>2. \E f : Def(f, Len(allocated))
  BY <1>1
<1> QED BY <1>2 DEF Transfers

-----------------------------------------------------------------------------
(* The state, in terms of the layout and the records allocated.            *)

LEMMA StateHolds ==
    ASSUME ArenaType, NEW buf, NEW at, NEW split, NEW n \in 1..Len(allocated)
    PROVE  RecordHeld(buf, at, split, n) <=> HoldsOf(buf, at, split, n, layout, allocated)
<1>1. allocated \in Seq(RecordsOf(layout)) /\ layout \in Layouts
  BY DEF ArenaType, RecordsOf
<1>2. RecordSize(layout, allocated[n].rows) - layout.adapter_size = CoreBytes(layout, allocated[n].rows)
  BY <1>1, RecordsTyped, RecordFacts
<1> QED BY <1>2 DEF RecordHeld, HoldsOf, PartsAt

LEMMA StateMatrix ==
    ASSUME ArenaType, NEW buf, NEW h \in Nat, NEW n \in 0..Len(allocated)
    PROVE  MatrixHolds(buf, h, n) <=> MatrixHoldsOf(buf, h, n, layout, allocated)
<1>1. allocated \in Seq(RecordsOf(layout)) /\ layout \in Layouts
  BY DEF ArenaType, RecordsOf
<1>2. Len(allocated) \in Nat
  BY <1>1, RecordsTyped
<1>3. \A k \in 1..n : k \in 1..Len(allocated)
  BY <1>2
<1>4. NextPowerOfTwoOrZero(h) * layout.width * FIELD_BYTES = NextPowerOfTwoOrZero(h) * BytesOfRow(layout)
  <2>1. ASSUME NEW x \in Nat, NEW y \in Nat, NEW z \in Nat PROVE x * y * z = x * (y * z)
    OBVIOUS
  <2>2. NextPowerOfTwoOrZero(h) \in Nat /\ layout.width \in Nat /\ FIELD_BYTES \in Nat
    BY <1>1, LayoutTyped, PaddedHeight
  <2> QED BY <2>1, <2>2 DEF BytesOfRow
<1>5. RowBytes = BytesOfRow(layout) /\ MatrixSplit = SplitOfMatrix(layout)
  BY DEF RowBytes, BytesOfRow, MatrixSplit, SplitOfMatrix
<1>6. \A k \in 1..n : RecordHeld(buf, RowsBefore(k - 1) * RowBytes, MatrixSplit, k)
        <=> HoldsOf(buf, RowsUpTo(allocated)[k - 1] * BytesOfRow(layout), SplitOfMatrix(layout), k, layout, allocated)
  BY <1>3, <1>5, StateHolds DEF RowsBefore
<1> QED BY <1>4, <1>5, <1>6 DEF MatrixHolds, MatrixHoldsOf, RowsBefore

\* Records in the dense arena lie behind one another.
LEMMA EndsIncrease ==
    ASSUME ArenaType, DenseHolds, NEW k \in 1..Len(allocated)
    PROVE  /\ EndOf(k - 1) \in Nat /\ EndOf(k) \in Nat /\ allocated[k].at = EndOf(k - 1)
           /\ EndOf(k) = EndOf(k - 1) + AlignedRecordSize(layout, allocated[k].rows)
           /\ EndOf(k - 1) < position
<1>1. allocated \in Seq(RecordsOf(layout)) /\ layout \in Layouts /\ base \in 0..MAX_ALIGNMENT - 1
  BY DEF ArenaType, RecordsOf
<1>2. /\ Len(allocated) \in Nat
      /\ \A j \in 1..Len(allocated) : allocated[j].rows \in RowNumbers(layout) /\ allocated[j].at \in Nat
  BY <1>1, RecordsTyped
<1> DEFINE size(j) == AlignedRecordSize(layout, allocated[j].rows)
<1>3. ASSUME NEW j \in 1..Len(allocated)
      PROVE  size(j) \in Nat /\ size(j) > 0 /\ EndOf(j) = EndOf(j - 1) + size(j) /\ EndOf(j) \in Nat
             /\ EndOf(j - 1) \in Nat
  <2>1. /\ size(j) \in Nat /\ layout.adapter_size \in Nat \ {0}
        /\ SplitOfDense(layout) \in Nat /\ CoreBytes(layout, allocated[j].rows) \in Nat
        /\ layout.adapter_size <= SplitOfDense(layout)
        /\ SplitOfDense(layout) + CoreBytes(layout, allocated[j].rows) <= size(j)
    BY <1>1, <1>2, RecordFacts, LayoutTyped
  <2>2. allocated[j].at = EndOf(j - 1) /\ allocated[j].at \in Nat
    BY <1>2 DEF DenseHolds
  <2>3. EndOf(j) = allocated[j].at + size(j)
    BY DEF EndOf
  <2> HIDE DEF size
  <2>4. size(j) > 0
    BY <2>1
  <2> QED BY <2>1, <2>2, <2>3, <2>4
<1> DEFINE Bad == {j \in Nat : k <= j /\ j <= Len(allocated) /\ ~(EndOf(k - 1) < EndOf(j))}
<1>4. Bad = {}
  <2> SUFFICES ASSUME Bad # {} PROVE FALSE
    OBVIOUS
  <2>1. PICK j \in Bad : j \in Nat /\ k <= j /\ j <= Len(allocated) /\ ~(EndOf(k - 1) < EndOf(j))
                         /\ \A y \in Bad : j <= y
    BY LeastNumber
  <2>2. j \in 1..Len(allocated) /\ EndOf(k - 1) \in Nat
    BY <1>2, <1>3, <2>1
  <2>3. size(j) \in Nat /\ size(j) > 0 /\ EndOf(j) = EndOf(j - 1) + size(j) /\ EndOf(j - 1) \in Nat
    BY <1>3, <2>2
  <2> HIDE DEF size
  <2>4. j # k
    BY <2>1, <2>2, <2>3
  <2>5. j - 1 \in Nat /\ k <= j - 1 /\ j - 1 <= Len(allocated) /\ j - 1 \notin Bad
    <3> HIDE DEF Bad
    <3> QED BY <1>2, <2>1, <2>4
  <2>6. EndOf(k - 1) < EndOf(j - 1)
    BY <2>5
  <2> QED BY <2>1, <2>2, <2>3, <2>6
<1>5. EndOf(k - 1) < EndOf(Len(allocated))
  <2>1. Len(allocated) \in Nat /\ k <= Len(allocated) /\ Len(allocated) \notin Bad
    <3> HIDE DEF Bad
    <3> QED BY <1>2, <1>4
  <2> QED BY <2>1
<1>6. position = EndOf(Len(allocated)) /\ allocated[k].at = EndOf(k - 1)
  BY DEF DenseHolds
<1> QED BY <1>3, <1>5, <1>6

\* After k turns of transfer_to_matrix_arena the first k records are in place.
Transferred(t, k) ==
    /\ t.ok = TRUE
    /\ t.offset = EndOf(k)
    /\ t.trace_offset = RowsUpTo(allocated)[k] * layout.width
    /\ MatrixHoldsOf(t.buffer, RowsUpTo(allocated)[Len(allocated)], k, layout, allocated)

LEMMA TransferStartHolds ==
    ASSUME ArenaType, DenseHolds, trace_offset = RowsBefore(Len(allocated)) * layout.width
    PROVE  Transferred(TransferStart, 0)
<1> DEFINE n == Len(allocated)
           R == RowsUpTo(allocated)
           w == BytesOfRow(layout)
           P == NextPowerOfTwoOrZero(R[n])
<1>1. allocated \in Seq(RecordsOf(layout)) /\ layout \in Layouts
  BY DEF ArenaType, RecordsOf
<1>2. /\ n \in Nat /\ R[n] \in Nat /\ R[0] = 0 /\ layout.width \in Nat \ {0} /\ FIELD_BYTES \in Nat
  BY <1>1, RecordsTyped, LayoutTyped
<1>3. trace_offset \div layout.width = R[n]
  <2>1. ASSUME NEW x \in Nat, NEW y \in Nat \ {0} PROVE (x * y) \div y = x
    OBVIOUS
  <2> QED BY <1>2, <2>1 DEF RowsBefore
<1>4. P \in Nat /\ w \in Nat /\ P * layout.width * FIELD_BYTES = P * w /\ P * w \in Nat
  <2>1. ASSUME NEW x \in Nat, NEW y \in Nat, NEW z \in Nat
        PROVE x * y * z = x * (y * z) /\ y * z \in Nat /\ x * (y * z) \in Nat
    <3>1. \A a \in Nat, b \in Nat : a * b \in Nat
      OBVIOUS
    <3>2. x * y * z = x * (y * z)
      OBVIOUS
    <3> QED BY <3>1, <3>2
  <2>2. P \in Nat
    BY <1>2, PaddedHeight
  <2> QED BY <1>2, <2>1, <2>2 DEF BytesOfRow
<1> DEFINE b == TransferStart.buffer
<1>5. b = [i \in 0..P * w - 1 |-> ZeroByte]
  BY <1>3, <1>4 DEF TransferStart, MatrixWithCapacity, Zeros
<1>6. TransferStart.ok = TRUE /\ TransferStart.offset = EndOf(0) /\ TransferStart.trace_offset = 0
  BY DEF TransferStart, EndOf
<1>7. R[0] * layout.width = 0
  BY <1>2
<1> HIDE DEF b
<1>8. MatrixHoldsOf(b, R[n], 0, layout, allocated)
  <2>1. \A i \in DOMAIN b : b[i] = ZeroByte
    BY <1>5
  <2>2. R[0] <= P
    BY <1>2, <1>4
  <2>3. DOMAIN b = 0..P * w - 1
    BY <1>5
  <2> QED BY <2>1, <2>2, <2>3 DEF MatrixHoldsOf
<1> QED BY <1>6, <1>7, <1>8 DEF Transferred, b

LEMMA TransferTurnHolds ==
    ASSUME ArenaType, DenseHolds, NEW k \in 1..Len(allocated), NEW t, Transferred(t, k - 1)
    PROVE  Transferred(TransferTurn(t), k)
<1> DEFINE n == Len(allocated)
           R == RowsUpTo(allocated)
           w == BytesOfRow(layout)
           P == NextPowerOfTwoOrZero(R[n])
           rows == allocated[k].rows
           from == allocated[k].at
           at == R[k - 1] * w
           end == R[k] * w
           first == layout.adapter_size
           second == CoreBytes(layout, rows)
           whole == AlignedRecordSize(layout, rows)
           size == AlignedSizes(layout)
<1>1. allocated \in Seq(RecordsOf(layout)) /\ layout \in Layouts
  BY DEF ArenaType, RecordsOf
<1>2. /\ n \in Nat /\ R[n] \in Nat /\ rows \in RowNumbers(layout) /\ from \in Nat
      /\ R[k] \in Nat /\ R[k - 1] \in Nat /\ k \in 0..n /\ n \in 0..n
      /\ R[k] = R[k - 1] + rows /\ allocated \in Seq(RecordsType)
  BY <1>1, RecordsTyped
<1>3. /\ from = EndOf(k - 1) /\ EndOf(k) = EndOf(k - 1) + whole /\ EndOf(k - 1) < position
  BY EndsIncrease
<1>4. PartsAt(records_buffer, from, SplitOfDense(layout), k, first, second)
  <2>1. RecordHeld(records_buffer, from, DenseSplit, k)
    BY DEF DenseHolds
  <2>2. DenseSplit = SplitOfDense(layout)
    BY DEF DenseSplit, SplitOfDense
  <2> QED BY <2>1, <2>2, StateHolds DEF HoldsOf
<1>5. /\ w \in Nat \ {0} /\ at \in Nat /\ end \in Nat /\ second \in Nat
      /\ SplitOfMatrix(layout) \in Nat /\ first \in Nat /\ first <= SplitOfMatrix(layout)
      /\ end = at + rows * w /\ rows \in Nat \ {0}
  <2>1. \A l \in Layouts : \A s \in Seq(RecordsOf(l)) : \A j \in 1..Len(s) :
             LET v == BytesOfRow(l)
                 low == RowsUpTo(s)[j - 1] * v
                 high == RowsUpTo(s)[j] * v
             IN  /\ v \in Nat \ {0} /\ low \in Nat /\ high \in Nat /\ CoreBytes(l, s[j].rows) \in Nat
                 /\ SplitOfMatrix(l) \in Nat /\ l.adapter_size \in Nat
                 /\ l.adapter_size <= SplitOfMatrix(l)
                 /\ high = low + s[j].rows * v /\ s[j].rows \in Nat \ {0}
    BY RecordPlace
  <2> QED BY <1>1, <2>1, Zenon
<1>6. /\ whole \in Nat /\ SplitOfDense(layout) \in Nat /\ rows * w \in Nat
      /\ first <= SplitOfDense(layout) /\ SplitOfDense(layout) + second <= whole /\ whole <= rows * w
  BY <1>1, <1>2, RecordFacts DEF BytesOfRow
<1>7. /\ layout.width \in Nat /\ FIELD_BYTES \in Nat /\ first > 0
  BY <1>1, LayoutTyped
<1>8. records_buffer[t.offset] = <<k, "adapter", 0>>
  <2>1. 0 \in 0..first - 1 /\ from + 0 = from
    <3>1. first \in Nat /\ first > 0 /\ from \in Nat
      BY <1>2, <1>5, <1>7
    <3> HIDE DEF first, from
    <3> QED BY <3>1
  <2>2. records_buffer[from + 0] = <<k, "adapter", 0>>
    BY <1>4, <2>1 DEF PartsAt
  <2> QED BY <1>3, <2>1, <2>2 DEF Transferred
<1>9. P \in Nat /\ R[k] <= P /\ P * w \in Nat /\ end <= P * w
  <2>1. P \in Nat /\ R[n] <= P
    BY <1>2, PaddedHeight
  <2>2. R[k] <= R[n]
    BY <1>2, RowsUpToMonotone
  <2> HIDE DEF P, R, w
  <2>3. R[k] <= P
    BY <1>2, <2>1, <2>2
  <2> QED BY <1>2, <1>5, <2>1, <2>3, Products
<1>10. t.trace_offset * FIELD_BYTES = at
  <2>1. ASSUME NEW x \in Nat, NEW y \in Nat, NEW z \in Nat PROVE (x * y) * z = x * (y * z)
    OBVIOUS
  <2> QED BY <1>2, <1>7, <2>1 DEF Transferred, BytesOfRow
<1> DEFINE new == TransferTurn(t).buffer
           rowsRead == IF layout.multi_row THEN ExtractLayout(k) ELSE 1
<1>11. rowsRead = rows
  BY <1>2 DEF ExtractLayout, RowNumbers
<1>12. /\ TransferTurn(t).ok = TRUE
       /\ TransferTurn(t).offset = t.offset + whole
       /\ TransferTurn(t).trace_offset = t.trace_offset + rows * layout.width
       /\ new = IF layout.multi_row THEN Copy(t.buffer, at, t.offset, whole)
                ELSE Copy(Copy(t.buffer, at, t.offset, size[1]), at + layout.adapter_width * FIELD_BYTES,
                          t.offset + size[1], size[2])
  <2>1. TransferTurn(t) = TransferOne(t)
    BY <1>3 DEF Transferred, TransferTurn
  <2>2. TransferOne(t) =
             [offset |-> t.offset + whole,
              trace_offset |-> t.trace_offset + rows * layout.width,
              buffer |-> IF layout.multi_row THEN Copy(t.buffer, at, t.offset, whole)
                         ELSE Copy(Copy(t.buffer, at, t.offset, size[1]),
                                   at + layout.adapter_width * FIELD_BYTES,
                                   t.offset + size[1], size[2]),
              ok |-> TRUE]
    <3>0. records_buffer[t.offset][1] = k /\ records_buffer[t.offset][2] = "adapter"
          /\ records_buffer[t.offset][3] = 0
      BY <1>8
    <3> HIDE DEF whole, size, at, rows
    <3>1. rowsRead = rows /\ AlignedRecordSize(layout, rows) = whole /\ AlignedSizes(layout) = size
      BY <1>11 DEF whole, size
    <3>2. t.trace_offset * FIELD_BYTES = at
      BY <1>10
    <3> QED BY <3>0, <3>1, <3>2 DEF TransferOne
  <2> HIDE DEF whole, size, at, rows
  <2> QED BY <2>1, <2>2
<1>13. t.offset = from /\ MatrixHoldsOf(t.buffer, R[n], k - 1, layout, allocated)
       /\ DOMAIN t.buffer = 0..P * w - 1
  BY <1>3 DEF Transferred, MatrixHoldsOf
<1>14. /\ DOMAIN new = 0..P * w - 1
       /\ PartsAt(new, at, SplitOfMatrix(layout), k, first, second)
       /\ \A i \in 0..P * w - 1 : i < at \/ end <= i => new[i] = t.buffer[i]
  <2>1. CASE layout.multi_row
    <3>1. SplitOfMatrix(layout) = SplitOfDense(layout)
      BY <2>1 DEF SplitOfMatrix, SplitOfDense
    <3>2. new = Copy(t.buffer, at, from, whole)
      BY <1>12, <1>13, <2>1
    <3> DEFINE N == P * w
               space == rows * w
    <3>3. N \in Nat /\ end <= N /\ space \in Nat /\ whole <= space /\ end = at + space
      BY <1>5, <1>6, <1>9
    <3>4. DOMAIN t.buffer = 0..N - 1
      BY <1>13
    <3> HIDE DEF new, at, end, first, second, whole, from, N, space
    <3>5. at + whole <= end
      BY <1>5, <1>6, <3>3
    <3>6. at \in Nat /\ end \in Nat /\ first \in Nat /\ second \in Nat /\ whole \in Nat /\ from \in Nat
          /\ SplitOfDense(layout) \in Nat /\ first <= SplitOfDense(layout)
          /\ SplitOfDense(layout) + second <= whole
      BY <1>2, <1>5, <1>6
    <3>7. Placed(new, t.buffer, N, at, end, SplitOfDense(layout), k, first, second)
      BY <1>4, <3>2, <3>3, <3>4, <3>5, <3>6, CopyOne
    <3> QED BY <3>1, <3>7 DEF N, Placed
  <2>2. CASE ~layout.multi_row
    <3> DEFINE size1 == size[1]
               size2 == size[2]
               split == SplitOfMatrix(layout)
               N == P * w
    <3>1. split = layout.adapter_width * FIELD_BYTES /\ SplitOfDense(layout) = size1 /\ rows = 1
          /\ second = layout.core_size
      BY <1>2, <2>2 DEF SplitOfMatrix, SplitOfDense, RowNumbers, CoreBytes
    <3>2. /\ size1 \in Nat /\ size2 \in Nat /\ first <= size1 /\ size1 <= split
          /\ layout.core_size <= size2 /\ split + size2 <= layout.width * FIELD_BYTES
      BY <1>1, <2>2, <3>1, AdapterCoreFacts
    <3>3. new = Copy(Copy(t.buffer, at, from, size1), at + split, from + size1, size2)
      BY <1>12, <1>13, <2>2, <3>1
    <3>4. N \in Nat /\ end <= N /\ DOMAIN t.buffer = 0..N - 1
      BY <1>9, <1>13
    <3>5. rows * w = w /\ split + size2 <= w
      BY <1>5, <3>1, <3>2 DEF BytesOfRow
    <3>6. PartsAt(records_buffer, from, size1, k, first, second)
      BY <1>4, <3>1
    <3>7. second <= size2
      BY <3>1, <3>2
    <3> HIDE DEF new, at, end, first, second, whole, from, N, size1, size2, split, w
    <3>8. at + split + size2 <= end /\ split \in Nat
      <4>1. end = at + w /\ split + size2 <= w /\ at \in Nat /\ w \in Nat /\ size2 \in Nat /\ end \in Nat
        BY <1>5, <3>2, <3>5
      <4>2. split \in Nat
        BY <1>5 DEF split
      <4> QED BY <4>1, <4>2
    <3>9. /\ at \in Nat /\ end \in Nat /\ first \in Nat /\ second \in Nat /\ from \in Nat
          /\ size1 \in Nat /\ size2 \in Nat /\ first <= size1 /\ size1 <= split
      BY <1>2, <1>5, <3>2
    <3>10. Placed(new, t.buffer, N, at, end, split, k, first, second)
      BY <3>3, <3>4, <3>6, <3>7, <3>8, <3>9, CopyTwo
    <3> QED BY <3>10 DEF N, split, Placed
  <2> QED BY <2>1, <2>2
<1>15. MatrixHoldsOf(new, R[n], k, layout, allocated)
  <2>1. HoldsOf(new, R[k - 1] * BytesOfRow(layout), SplitOfMatrix(layout), k, layout, allocated)
    BY <1>14 DEF HoldsOf
  <2>2. /\ DOMAIN new = DOMAIN t.buffer /\ R[n] \in Nat /\ R[k] <= NextPowerOfTwoOrZero(R[n])
        /\ MatrixHoldsOf(t.buffer, R[n], k - 1, layout, allocated)
        /\ \A i \in DOMAIN t.buffer : i < R[k - 1] * BytesOfRow(layout)
                                          \/ R[k] * BytesOfRow(layout) <= i => new[i] = t.buffer[i]
    BY <1>2, <1>9, <1>13, <1>14
  <2> DEFINE hh == R[n]
             old == t.buffer
  <2> HIDE DEF new, hh, old
  <2>3. /\ DOMAIN new = DOMAIN old /\ hh \in Nat /\ RowsUpTo(allocated)[k] <= NextPowerOfTwoOrZero(hh)
        /\ MatrixHoldsOf(old, hh, k - 1, layout, allocated)
        /\ \A i \in DOMAIN old : i < RowsUpTo(allocated)[k - 1] * BytesOfRow(layout)
                                     \/ RowsUpTo(allocated)[k] * BytesOfRow(layout) <= i => new[i] = old[i]
    BY <2>2 DEF hh, old
  <2>4. MatrixHoldsOf(new, hh, k, layout, allocated)
    BY <1>1, <2>1, <2>3, MatrixExtend
  <2> QED BY <2>4 DEF hh
<1>16. TransferTurn(t).trace_offset = R[k] * layout.width
  <2>1. t.trace_offset = R[k - 1] * layout.width
    BY DEF Transferred
  <2>2. (R[k - 1] + rows) * layout.width = R[k - 1] * layout.width + rows * layout.width
    <3>1. R[k - 1] \in Nat /\ rows \in Nat /\ layout.width \in Nat
      BY <1>2, <1>5, <1>7
    <3> HIDE DEF R, rows
    <3> QED BY <3>1, Products
  <2> QED BY <1>2, <1>12, <2>1, <2>2
<1>17. TransferTurn(t).offset = EndOf(k)
  BY <1>3, <1>12 DEF Transferred
<1> QED BY <1>12, <1>15, <1>16, <1>17 DEF Transferred

\* The matrix made of the dense arena holds all records.
LEMMA TransferKeeps ==
    ASSUME ArenaType, DenseHolds, trace_offset = RowsBefore(Len(allocated)) * layout.width
    PROVE  Transferred(Transfer, Len(allocated))
<1> DEFINE n == Len(allocated)
           Bad == {k \in Nat : k <= n /\ ~Transferred(Transfers[k], k)}
<1>1. n \in Nat
  BY DEF ArenaType
<1>2. \A k \in 0..n : Transfers[k] = IF k = 0 THEN TransferStart ELSE TransferTurn(Transfers[k - 1])
  <2> DEFINE T == Transfers
  <2>1. T = [k \in 0..n |-> IF k = 0 THEN TransferStart ELSE TransferTurn(T[k - 1])]
    BY <1>1, TransfersDefined
  <2> HIDE DEF T
  <2>2. \A k \in 0..n : T[k] = IF k = 0 THEN TransferStart ELSE TransferTurn(T[k - 1])
    BY <2>1
  <2> QED BY <2>2 DEF T
<1>3. Bad = {}
  <2> SUFFICES ASSUME Bad # {} PROVE FALSE
    OBVIOUS
  <2>1. PICK k \in Bad : k \in Nat /\ k <= n /\ ~Transferred(Transfers[k], k) /\ \A y \in Bad : k <= y
    BY LeastNumber
  <2>2. k # 0
    <3>1. 0 \in 0..n
      BY <1>1
    <3>2. Transfers[0] = TransferStart
      BY <1>2, <3>1
    <3> QED BY <2>1, <3>2, TransferStartHolds
  <2>3. k - 1 \in Nat /\ k - 1 \notin Bad /\ k \in 1..n /\ k - 1 <= n /\ k \in 0..n
    <3> HIDE DEF Bad
    <3> QED BY <1>1, <2>1, <2>2
  <2>4. Transferred(Transfers[k - 1], k - 1)
    BY <2>3
  <2>5. Transfers[k] = TransferTurn(Transfers[k - 1])
    BY <1>2, <2>2, <2>3
  <2> QED BY <2>1, <2>3, <2>4, <2>5, TransferTurnHolds
<1>4. Transferred(Transfers[n], n)
  <2>1. n \notin Bad
    BY <1>3
  <2> QED BY <1>1, <2>1
<1> QED BY <1>4 DEF Transfer

-----------------------------------------------------------------------------
(* From a buffer to the rows of a trace.                                   *)

\* Byte x of a record whose rows start with row f, in rows of w bytes.
InItsRow(x, w, rows, f) ==
    /\ x \div w \in Nat /\ x \div w < rows /\ x % w \in 0..w - 1
    /\ (f + x \div w) * w + (x % w) = f * w + x

LEMMA RowOfByte ==
    ASSUME NEW w \in Nat \ {0}, NEW rows \in Nat, NEW f \in Nat, NEW x \in Nat, x < rows * w
    PROVE  InItsRow(x, w, rows, f)
<1> DEFINE d == x \div w
           m == x % w
<1>1. d \in Nat /\ x = d * w + m /\ m \in 0..w - 1
  BY DivisionFacts
<1> HIDE DEF d, m
<1>2. d < rows
  <2> SUFFICES ASSUME rows <= d PROVE FALSE
    BY <1>1
  <2>1. rows * w <= d * w /\ rows * w \in Nat /\ d * w \in Nat
    BY <1>1, Products
  <2> QED BY <1>1, <2>1
<1>3. (f + d) * w = f * w + d * w /\ f * w \in Nat /\ d * w \in Nat
  BY <1>1, Products
<1>4. (f + d) * w + m = f * w + x
  BY <1>1, <1>3
<1> QED BY <1>1, <1>2, <1>4 DEF d, m, InItsRow

\* into_matrix makes a row of each RowBytes of the buffer.
LEMMA IntoMatrixRows ==
    ASSUME ArenaType, NEW U \in Nat, NEW h \in Nat, U <= NextPowerOfTwoOrZero(h),
           NEW buf, DOMAIN buf = 0..NextPowerOfTwoOrZero(h) * BytesOfRow(layout) - 1
    PROVE  LET t == IntoMatrix(buf, U * layout.width)
               Q == NextPowerOfTwoOrZero(U)
           IN  /\ Q \in Nat /\ DOMAIN t = 0..Q - 1
               /\ \A r \in 0..Q - 1 : DOMAIN t[r] = 0..BytesOfRow(layout) - 1
               /\ \A r \in 0..Q - 1 : \A i \in 0..BytesOfRow(layout) - 1 :
                      /\ t[r][i] = buf[r * BytesOfRow(layout) + i]
                      /\ r * BytesOfRow(layout) \in Nat
                      /\ r * BytesOfRow(layout) + i \in DOMAIN buf
<1> DEFINE w == BytesOfRow(layout)
           Q == NextPowerOfTwoOrZero(U)
           P == NextPowerOfTwoOrZero(h)
           t == IntoMatrix(buf, U * layout.width)
<1>1. layout.width \in Nat \ {0} /\ FIELD_BYTES \in Nat \ {0}
  BY LayoutTyped, LayoutAssumption DEF ArenaType
<1>2. w \in Nat \ {0} /\ RowBytes = w
  <2>1. \A x \in Nat \ {0}, y \in Nat \ {0} : x * y \in Nat \ {0}
    OBVIOUS
  <2> QED BY <1>1, <2>1 DEF BytesOfRow, RowBytes
<1>3. (U * layout.width) \div layout.width = U
  <2>1. ASSUME NEW x \in Nat, NEW y \in Nat \ {0} PROVE (x * y) \div y = x
    OBVIOUS
  <2> QED BY <1>1, <2>1
<1>4. Q \in Nat /\ P \in Nat /\ Q <= P
  BY PaddedHeight, PaddedFits
<1>5. t = [r \in 0..Q - 1 |-> [i \in 0..w - 1 |-> buf[r * w + i]]]
  BY <1>2, <1>3 DEF IntoMatrix
<1> HIDE DEF t, w, Q, P
<1>6. ASSUME NEW r \in 0..Q - 1, NEW i \in 0..w - 1
      PROVE  r * w \in Nat /\ r * w + i \in 0..P * w - 1
  <2>1. r \in Nat /\ r + 1 \in Nat /\ r + 1 <= P /\ w \in Nat /\ i \in Nat /\ i < w
    BY <1>2, <1>4
  <2>2. r * w \in Nat /\ (r + 1) * w = r * w + 1 * w /\ (r + 1) * w <= P * w /\ P * w \in Nat
    BY <1>4, <2>1, Products
  <2>3. 1 * w = w
    BY <2>1
  <2> DEFINE a == r * w
             b == P * w
  <2>4. a \in Nat /\ b \in Nat /\ a + w <= b
    BY <2>2, <2>3
  <2> HIDE DEF a, b
  <2>5. a + i \in 0..b - 1
    BY <2>1, <2>4
  <2> QED BY <2>4, <2>5 DEF a, b
<1>7. \A r \in 0..Q - 1 : \A i \in 0..w - 1 :
          t[r][i] = buf[r * w + i] /\ r * w \in Nat /\ r * w + i \in DOMAIN buf
  <2>1. \A r \in 0..Q - 1 : \A i \in 0..w - 1 : t[r][i] = buf[r * w + i]
    BY <1>5
  <2> QED BY <1>6, <2>1 DEF P, w
<1>8. DOMAIN t = 0..Q - 1 /\ \A r \in 0..Q - 1 : DOMAIN t[r] = 0..w - 1
  BY <1>5
<1> QED BY <1>4, <1>7, <1>8 DEF t, w, Q

\* A trace made of a matrix that holds all records has each in its rows, and
\* zeroes behind the last.
TraceKeeps(t) ==
    /\ \A n \in 1..Len(allocated) : RecordIn(t, n)
    /\ DOMAIN t # {} => IsPowerOfTwo(Cardinality(DOMAIN t))
    /\ \A r \in DOMAIN t :
           r >= RowsBefore(Len(allocated)) => \A i \in DOMAIN t[r] : t[r][i] = ZeroByte

LEMMA MatrixToTrace ==
    ASSUME ArenaType, NEW h \in Nat, NEW buf,
           MatrixHoldsOf(buf, h, Len(allocated), layout, allocated)
    PROVE  TraceKeeps(IntoMatrix(buf, RowsUpTo(allocated)[Len(allocated)] * layout.width))
<1> DEFINE R == RowsUpTo(allocated)
           U == R[Len(allocated)]
           w == BytesOfRow(layout)
           Q == NextPowerOfTwoOrZero(U)
           t == IntoMatrix(buf, U * layout.width)
<1>1. allocated \in Seq(RecordsOf(layout)) /\ layout \in Layouts
  BY DEF ArenaType, RecordsOf
<1>2. Len(allocated) \in Nat /\ U \in Nat /\ allocated \in Seq(RecordsType)
  BY <1>1, RecordsTyped
<1>3. U <= NextPowerOfTwoOrZero(h) /\ DOMAIN buf = 0..NextPowerOfTwoOrZero(h) * w - 1
  BY DEF MatrixHoldsOf
<1>4. /\ Q \in Nat /\ DOMAIN t = 0..Q - 1
      /\ \A r \in 0..Q - 1 : DOMAIN t[r] = 0..w - 1
      /\ \A r \in 0..Q - 1 : \A i \in 0..w - 1 :
             t[r][i] = buf[r * w + i] /\ r * w \in Nat /\ r * w + i \in DOMAIN buf
  <2> HIDE DEF R
  <2>1. U \in Nat /\ U <= NextPowerOfTwoOrZero(h)
    BY <1>2, <1>3
  <2>2. DOMAIN buf = 0..NextPowerOfTwoOrZero(h) * BytesOfRow(layout) - 1
    BY <1>3
  <2> HIDE DEF U
  <2>3. LET tr == IntoMatrix(buf, U * layout.width)
            q == NextPowerOfTwoOrZero(U)
        IN  /\ q \in Nat /\ DOMAIN tr = 0..q - 1
            /\ \A r \in 0..q - 1 : DOMAIN tr[r] = 0..BytesOfRow(layout) - 1
            /\ \A r \in 0..q - 1 : \A i \in 0..BytesOfRow(layout) - 1 :
                      /\ tr[r][i] = buf[r * BytesOfRow(layout) + i]
                      /\ r * BytesOfRow(layout) \in Nat
                      /\ r * BytesOfRow(layout) + i \in DOMAIN buf
    BY <2>1, <2>2, IntoMatrixRows, Zenon
  <2> QED BY <2>3, Zenon
<1>5. U <= Q
  <2>1. \A x \in Nat : x <= NextPowerOfTwoOrZero(x)
    BY PaddedHeight
  <2> QED BY <1>2, <2>1
<1>6. RowBytes = w /\ MatrixSplit = SplitOfMatrix(layout)
  BY DEF RowBytes, BytesOfRow, MatrixSplit, SplitOfMatrix
<1>7. ASSUME NEW n \in 1..Len(allocated) PROVE RecordIn(t, n)
  <2> DEFINE first == R[n - 1]
             rows == allocated[n].rows
             at == first * w
             split == SplitOfMatrix(layout)
             core == CoreBytes(layout, rows)
             size == layout.adapter_size
             space == rows * w
  <2>1. \A l \in Layouts : \A s \in Seq(RecordsOf(l)) : \A j \in 1..Len(s) :
             LET v == BytesOfRow(l)
                 low == RowsUpTo(s)[j - 1] * v
                 high == RowsUpTo(s)[j] * v
             IN  /\ v \in Nat \ {0} /\ low \in Nat /\ high \in Nat /\ CoreBytes(l, s[j].rows) \in Nat
                 /\ SplitOfMatrix(l) \in Nat /\ l.adapter_size \in Nat
                 /\ l.adapter_size <= SplitOfMatrix(l)
                 /\ low + SplitOfMatrix(l) + CoreBytes(l, s[j].rows) <= high
                 /\ high = low + s[j].rows * v /\ s[j].rows \in Nat \ {0}
                 /\ RowsUpTo(s)[j - 1] \in Nat /\ RowsUpTo(s)[j] \in Nat
                 /\ RowsUpTo(s)[j] = RowsUpTo(s)[j - 1] + s[j].rows
    BY RecordPlace
  <2>2. /\ w \in Nat \ {0} /\ at \in Nat /\ core \in Nat /\ split \in Nat /\ size \in Nat /\ size <= split
        /\ at + split + core <= at + space /\ rows \in Nat \ {0} /\ first \in Nat
        /\ R[n] \in Nat /\ R[n] = first + rows
    BY <1>1, <2>1
  <2>3. space \in Nat
    <3> HIDE DEF rows, w
    <3> QED BY <2>2
  <2>4. R[n] <= U
    <3>1. n \in 0..Len(allocated) /\ Len(allocated) \in 0..Len(allocated) /\ n <= Len(allocated)
      BY <1>2
    <3> QED BY <1>2, <3>1, RowsUpToMonotone
  <2>5. first + rows <= Q
    <3> DEFINE r == R[n]
    <3>1. r \in Nat /\ r = first + rows /\ r <= U
      BY <2>2, <2>4
    <3> HIDE DEF r, first, rows, U, Q
    <3> QED BY <1>2, <1>4, <1>5, <3>1
  <2>6. PartsAt(buf, at, split, n, size, core)
    BY DEF MatrixHoldsOf, HoldsOf
  <2>7. ASSUME NEW x \in Nat, x < space
        PROVE  t[first + x \div w][x % w] = buf[at + x]
    <3>1. /\ x \div w \in Nat /\ x \div w < rows /\ x % w \in 0..w - 1
          /\ (first + x \div w) * w + (x % w) = first * w + x
      <4>1. first \in Nat /\ rows \in Nat /\ w \in Nat \ {0} /\ x < rows * w
        BY <2>2, <2>7
      <4> HIDE DEF first, rows, w
      <4>2. InItsRow(x, w, rows, first)
        BY <4>1, RowOfByte
      <4> QED BY <4>2 DEF InItsRow
    <3>2. first + x \div w \in 0..Q - 1
      <4> DEFINE d == x \div w
      <4>2. Q \in Nat /\ first \in Nat /\ rows \in Nat /\ first + rows <= Q /\ d \in Nat /\ d < rows
        BY <1>4, <2>2, <2>5, <3>1
      <4> HIDE DEF first, rows, Q, d
      <4>1. first + d \in 0..Q - 1
        BY <4>2
      <4> QED BY <4>1 DEF d
    <3>3. t[first + x \div w][x % w] = buf[(first + x \div w) * w + (x % w)]
      BY <1>4, <3>1, <3>2
    <3> QED BY <3>1, <3>3
  <2>8. first + rows - 1 \in DOMAIN t
    <3>1. Q \in Nat /\ first \in Nat /\ rows \in Nat \ {0} /\ first + rows <= Q
      BY <1>4, <2>2, <2>5
    <3>2. DOMAIN t = 0..Q - 1
      BY <1>4
    <3> HIDE DEF first, rows, Q, t
    <3> QED BY <3>1, <3>2
  <2>9. ASSUME NEW i \in 0..size - 1 PROVE t[first + i \div w][i % w] = <<n, "adapter", i>>
    <3>1. i \in Nat /\ i < space
      <4> HIDE DEF at, split, core, size, space
      <4> QED BY <2>2, <2>3, <2>9
    <3> QED BY <2>6, <2>7, <3>1 DEF PartsAt
  <2>10. ASSUME NEW i \in 0..core - 1
         PROVE  t[first + (split + i) \div w][(split + i) % w] = <<n, "core", i>>
    <3>1. split + i \in Nat /\ split + i < space /\ at + (split + i) = at + split + i
      <4> HIDE DEF at, split, core, size, space
      <4> QED BY <2>2, <2>3, <2>10
    <3>2. buf[at + split + i] = <<n, "core", i>>
      BY <2>6 DEF PartsAt
    <3> HIDE DEF at, split, core, first, t
    <3> QED BY <2>7, <3>1, <3>2
  <2>11. RecordSize(layout, rows) - layout.adapter_size = core
    BY <1>1, RecordsTyped, RecordFacts
  <2> HIDE DEF t
  <2> QED BY <1>6, <2>8, <2>9, <2>10, <2>11 DEF RecordIn, RowsBefore
<1>8. DOMAIN t # {} => IsPowerOfTwo(Cardinality(DOMAIN t))
  <2> SUFFICES ASSUME DOMAIN t # {} PROVE IsPowerOfTwo(Cardinality(DOMAIN t))
    OBVIOUS
  <2>1. U # 0
    <3> SUFFICES ASSUME U = 0 PROVE FALSE
      OBVIOUS
    <3>1. Q = 0
      BY DEF NextPowerOfTwoOrZero
    <3>2. 0..0 - 1 = {}
      OBVIOUS
    <3> QED BY <1>4, <3>1, <3>2
  <2> HIDE DEF t, U
  <2>2. PICK i \in 0..U : Q = 2^i
    BY <1>2, <2>1, PaddedHeight
  <2> HIDE DEF Q
  <2>3. Q # 0 /\ i \in 0..Q
    BY <1>2, <1>4, <1>5, <2>1, <2>2
  <2>4. Cardinality(0..Q - 1) = Q
    <3>1. 0 \in Int /\ Q - 1 \in Int /\ ~(0 > Q - 1) /\ (Q - 1) - 0 + 1 = Q
      BY <1>4, <2>3
    <3> QED BY <3>1, FS_Interval
  <2> QED BY <1>4, <2>2, <2>3, <2>4 DEF IsPowerOfTwo
<1>9. ASSUME NEW r \in DOMAIN t, r >= RowsBefore(Len(allocated)), NEW i \in DOMAIN t[r]
      PROVE  t[r][i] = ZeroByte
  <2>1. r \in 0..Q - 1 /\ i \in 0..w - 1
    BY <1>4
  <2>2. t[r][i] = buf[r * w + i] /\ r * w + i \in DOMAIN buf /\ r * w \in Nat
    BY <1>4, <2>1
  <2>3. r * w + i >= U * w
    <3>1. r >= U
      BY <1>9 DEF RowsBefore
    <3>0. w \in Nat \ {0}
      BY <1>1, RecordFacts, LayoutAssumption DEF BytesOfRow, LayoutType
    <3> HIDE DEF U, w, Q
    <3>2. r \in Nat /\ i \in Nat /\ w \in Nat
      BY <1>4, <2>1, <3>0
    <3>3. U * w <= r * w /\ U * w \in Nat
      BY <1>2, <3>1, <3>2, Products
    <3> DEFINE a == U * w
               b == r * w
    <3>4. a \in Nat /\ b \in Nat /\ a <= b
      BY <2>2, <3>3
    <3> HIDE DEF a, b
    <3>5. b + i >= a
      BY <3>2, <3>4
    <3> QED BY <3>5 DEF a, b
  <2>4. buf[r * w + i] = ZeroByte
    BY <2>2, <2>3 DEF MatrixHoldsOf
  <2> QED BY <2>2, <2>4
<1> HIDE DEF t
<1>10. TraceKeeps(t)
  BY <1>7, <1>8, <1>9 DEF TraceKeeps
<1> QED BY <1>10 DEF t

-----------------------------------------------------------------------------
(* The inductive invariant.                                                *)

\* Records start where every alignment of the instance is met.
LEMMA FirstPosition ==
    ASSUME base \in 0..MAX_ALIGNMENT - 1
    PROVE  AlignOffset \in Nat /\ AlignOffset < MAX_ALIGNMENT /\ Divides(MAX_ALIGNMENT, base + AlignOffset)
<1> DEFINE m == MAX_ALIGNMENT
<1>1. m \in Nat \ {0} /\ base \in Nat /\ base < m
  BY LayoutAssumption
<1> HIDE DEF m
<1>2. AlignOffset = (m - base) % m
  BY DEF AlignOffset, m
<1>3. CASE base = 0
  <2>1. (m - base) % m = 0
    BY <1>1, <1>3
  <2>2. (base + 0) % m = 0
    BY <1>1, <1>3
  <2> QED BY <1>1, <1>2, <2>1, <2>2 DEF Divides, m
<1>4. CASE base # 0
  <2>1. (m - base) % m = m - base
    BY <1>1, <1>4
  <2>2. base + (m - base) = m /\ m % m = 0 /\ m - base \in Nat /\ m - base < m
    BY <1>1, <1>4
  <2> QED BY <1>2, <2>1, <2>2 DEF Divides, m
<1> QED BY <1>3, <1>4

LEMMA LayoutAligned ==
    ASSUME ArenaType
    PROVE  /\ layout.adapter_alignment \in Nat \ {0} /\ layout.core_alignment \in Nat \ {0}
           /\ Divides(layout.adapter_alignment, base + AlignOffset)
           /\ Divides(layout.core_alignment, base + AlignOffset)
<1>1. layout \in Layouts /\ base \in 0..MAX_ALIGNMENT - 1
  BY DEF ArenaType
<1>2. /\ layout.adapter_alignment \in Nat \ {0} /\ layout.core_alignment \in Nat \ {0}
      /\ MAX_ALIGNMENT \in Nat \ {0} /\ base \in Nat
      /\ Divides(layout.adapter_alignment, MAX_ALIGNMENT) /\ Divides(layout.core_alignment, MAX_ALIGNMENT)
  BY <1>1, LayoutAssumption DEF LayoutType
<1>3. base + AlignOffset \in Nat /\ Divides(MAX_ALIGNMENT, base + AlignOffset)
  BY <1>1, <1>2, FirstPosition
<1> HIDE DEF AlignOffset
<1> QED BY <1>2, <1>3, DividesTrans

LEMMA PositionTyped ==
    ASSUME ArenaType, DenseHolds
    PROVE  position \in Nat
<1>1. Len(allocated) \in Nat /\ base \in 0..MAX_ALIGNMENT - 1
  BY DEF ArenaType
<1>2. position = EndOf(Len(allocated))
  BY DEF DenseHolds
<1>3. CASE Len(allocated) = 0
  BY <1>1, <1>2, <1>3, FirstPosition DEF EndOf
<1>4. CASE Len(allocated) # 0
  <2>1. Len(allocated) \in 1..Len(allocated)
    BY <1>1, <1>4
  <2> QED BY <1>2, <2>1, EndsIncrease
<1> QED BY <1>3, <1>4

LEMMA InitHolds == ArenaInit => ArenaInv
<1> SUFFICES ASSUME ArenaInit PROVE ArenaInv
  OBVIOUS
<1>1. ArenaType
  BY DEF ArenaInit, ArenaType
<1>2. /\ allocated = <<>> /\ Len(allocated) = 0 /\ position = AlignOffset /\ trace_offset = 0
      /\ status = "executing" /\ layout \in Layouts /\ height \in Nat /\ base \in 0..MAX_ALIGNMENT - 1
  BY LayoutAssumption DEF ArenaInit
<1>3. allocated \in Seq(RecordsOf(layout)) /\ RowsUpTo(allocated)[0] = 0
  <2>1. allocated \in Seq(RecordsOf(layout))
    BY <1>2
  <2> QED BY <1>2, <2>1, RecordsTyped
<1>4. /\ layout.width \in Nat \ {0} /\ FIELD_BYTES \in Nat \ {0} /\ MAX_ALIGNMENT \in Nat \ {0}
  BY <1>2, LayoutTyped, LayoutAssumption
<1>5. RowBytes \in Nat /\ RowsBefore(0) * layout.width = 0 /\ RowsBefore(0) * RowBytes = 0
  <2>1. \A x \in Nat : 0 * x = 0
    OBVIOUS
  <2>2. \A x \in Nat, y \in Nat : x * y \in Nat
    OBVIOUS
  <2> QED BY <1>3, <1>4, <2>1, <2>2 DEF RowBytes, RowsBefore
<1>6. MatrixHolds(trace_buffer, height, 0)
  <2>1. trace_buffer = [i \in 0..NextPowerOfTwoOrZero(height) * layout.width * FIELD_BYTES - 1 |-> ZeroByte]
    BY DEF ArenaInit, MatrixWithCapacity, Zeros
  <2>2. 0 <= NextPowerOfTwoOrZero(height)
    <3>1. \A h \in Nat : NextPowerOfTwoOrZero(h) \in Nat
      BY PaddedHeight
    <3> QED BY <1>2, <3>1
  <2>3. RowsBefore(0) = 0
    BY <1>3 DEF RowsBefore
  <2> QED BY <2>1, <2>2, <2>3 DEF MatrixHolds
<1>7. DenseHolds
  <2> DEFINE N == height * layout.width * FIELD_BYTES
  <2>2. N \in Nat
    <3>1. \A x \in Nat, y \in Nat, z \in Nat : x * y * z \in Nat
      <4>1. \A x \in Nat, y \in Nat : x * y \in Nat
        OBVIOUS
      <4> QED BY <4>1
    <3> QED BY <1>2, <1>4, <3>1
  <2>1. records_buffer = [i \in 0..N + MAX_ALIGNMENT - 1 |-> ZeroByte]
    <3>1. records_buffer = Zeros(N + MAX_ALIGNMENT)
      BY DEF ArenaInit, DenseWithCapacity
    <3> HIDE DEF N
    <3>2. N + MAX_ALIGNMENT - 1 = (N + MAX_ALIGNMENT) - 1
      BY <1>4, <2>2
    <3> QED BY <3>1, <3>2 DEF Zeros
  <2>3. AlignOffset \in Nat /\ AlignOffset < MAX_ALIGNMENT
    BY <1>2, FirstPosition
  <2>4. EndOf(0) = AlignOffset
    BY DEF EndOf
  <2>5. /\ Divides(layout.adapter_alignment, base + AlignOffset)
        /\ Divides(layout.core_alignment, base + AlignOffset)
    BY <1>1, LayoutAligned
  <2> HIDE DEF N
  <2>6. AlignOffset <= N + MAX_ALIGNMENT /\ AlignOffset <= AlignOffset + 0
    BY <1>4, <2>2, <2>3
  <2>7. DOMAIN records_buffer = 0..N + MAX_ALIGNMENT - 1
    BY <2>1
  <2>8. AlignOffset <= AlignOffset + RowsBefore(0) * RowBytes
    BY <1>5, <2>6
  <2>9. position <= AlignOffset + RowsBefore(Len(allocated)) * RowBytes /\ position = EndOf(Len(allocated))
    BY <1>2, <2>4, <2>8
  <2>10. \A k \in 1..Len(allocated) : FALSE
    BY <1>2
  <2> QED BY <1>2, <2>5, <2>6, <2>7, <2>9, <2>10 DEF DenseHolds, N
<1>8. RecordsStored
  BY <1>2, <1>5, <1>6, <1>7 DEF RecordsStored
<1>9. ArenasKeepRecords
  <2>1. \A k \in 1..Len(allocated) : FALSE
    BY <1>2
  <2> QED BY <1>2, <2>1
        DEF ArenasKeepRecords, EstimateSuffices, RecordsAligned, RecordsReachTheirRows, PaddingIsClean
<1> QED BY <1>1, <1>8, <1>9 DEF ArenaInv

\* The record that alloc is asked for, and when there is room for it.
NewRecord(rows) == [rows |-> rows, at |-> position]

LEMMA AllocFacts ==
    ASSUME ArenaInv, status = "executing", NEW rows \in 1..MaxRows, rows = RowsOf(rows)
    PROVE  LET s == Append(allocated, NewRecord(rows))
               n == Len(allocated)
               U == RowsUpTo(allocated)[n]
               size == AlignedRecordSize(layout, rows)
               N == height * layout.width * FIELD_BYTES
           IN  /\ layout \in Layouts /\ rows \in RowNumbers(layout) /\ rows \in Nat \ {0}
               /\ height \in Nat /\ position \in Nat /\ U \in Nat /\ N \in Nat /\ n \in Nat
               /\ NewRecord(rows) \in RecordsOf(layout) /\ allocated \in Seq(RecordsOf(layout))
               /\ s \in Seq(RecordsOf(layout)) /\ Len(s) = n + 1 /\ s[n + 1] = NewRecord(rows)
               /\ \A k \in 1..n : s[k] = allocated[k]
               /\ \A k \in 0..n : RowsUpTo(s)[k] = RowsUpTo(allocated)[k]
               /\ RowsUpTo(s)[n + 1] = U + rows
               /\ MatrixHasRoom(rows) => U + rows <= NextPowerOfTwoOrZero(height)
               /\ DenseHasRoom(rows) => position + size <= N + MAX_ALIGNMENT
               /\ U + rows <= height => MatrixHasRoom(rows) /\ DenseHasRoom(rows)
               /\ position + size <= AlignOffset + (U + rows) * RowBytes
<1> DEFINE s == Append(allocated, NewRecord(rows))
           n == Len(allocated)
           U == RowsUpTo(allocated)[n]
           size == AlignedRecordSize(layout, rows)
           N == height * layout.width * FIELD_BYTES
           w == BytesOfRow(layout)
           P == NextPowerOfTwoOrZero(height)
<1>1. ArenaType /\ DenseHolds /\ MatrixHolds(trace_buffer, height, n) /\ trace_offset = U * layout.width
  BY DEF ArenaInv, RecordsStored, RowsBefore
<1>2. /\ layout \in Layouts /\ height \in Nat /\ n \in Nat /\ U \in Nat /\ base \in 0..MAX_ALIGNMENT - 1
      /\ allocated \in Seq(RecordsOf(layout)) /\ allocated \in Seq(RecordsType)
  <2>1. allocated \in Seq(RecordsOf(layout)) /\ layout \in Layouts /\ base \in 0..MAX_ALIGNMENT - 1
        /\ height \in Nat
    BY <1>1, LayoutAssumption DEF ArenaType, RecordsOf
  <2> QED BY <2>1, RecordsTyped
<1>3. rows \in RowNumbers(layout)
  BY DEF RowsOf, RowNumbers
<1>4. position \in Nat
  BY <1>1, PositionTyped
<1>5. NewRecord(rows) \in RecordsOf(layout) /\ NewRecord(rows).rows = rows
  BY <1>3, <1>4 DEF NewRecord, RecordsOf
<1>6. NewRecord(rows) \in RecordsType
  <2>1. rows \in Nat
    BY <1>2, <1>3, RecordFacts
  <2> QED BY <1>4, <2>1 DEF NewRecord, RecordsType
<1>7. s \in Seq(RecordsOf(layout)) /\ Len(s) = n + 1 /\ s[n + 1] = NewRecord(rows)
      /\ \A k \in 1..n : s[k] = allocated[k]
  BY <1>2, <1>5
<1>8. /\ \A k \in 0..n : RowsUpTo(s)[k] = RowsUpTo(allocated)[k]
      /\ RowsUpTo(s)[n + 1] = U + rows
  BY <1>2, <1>5, <1>6, RowsUpToAppend
<1>9. /\ rows \in Nat \ {0} /\ size \in Nat /\ size <= rows * w /\ w \in Nat \ {0} /\ rows * w \in Nat
  BY <1>2, <1>3, RecordFacts DEF BytesOfRow
<1>10. /\ layout.width \in Nat \ {0} /\ FIELD_BYTES \in Nat \ {0} /\ MAX_ALIGNMENT \in Nat \ {0}
  BY <1>2, LayoutTyped, LayoutAssumption
<1>11. P \in Nat /\ height <= P
  BY <1>2, PaddedHeight
<1>12. ASSUME NEW x \in Nat
       PROVE  x * layout.width * FIELD_BYTES = x * w /\ x * w \in Nat
  <2>1. \A a \in Nat, b \in Nat, c \in Nat : a * b * c = a * (b * c)
    OBVIOUS
  <2>2. \A a \in Nat, b \in Nat : a * b \in Nat
    OBVIOUS
  <2>3. layout.width \in Nat /\ FIELD_BYTES \in Nat /\ w = layout.width * FIELD_BYTES
    BY <1>10 DEF BytesOfRow
  <2> HIDE DEF w
  <2> QED BY <2>1, <2>2, <2>3
<1>13. RowBytes = w
  BY DEF RowBytes, BytesOfRow
<1>14. MatrixHasRoom(rows) <=> (U + rows) * w <= P * w
  <2>1. DOMAIN trace_buffer = 0..P * w - 1
    BY <1>1, <1>11, <1>12 DEF MatrixHolds
  <2>2. P * w \in Nat
    BY <1>11, <1>12
  <2>3. ASSUME NEW x \in Nat PROVE Cardinality(0..x - 1) = x
    <3>1. 0 \in Int /\ x - 1 \in Int /\ (IF 0 > x - 1 THEN 0 ELSE (x - 1) - 0 + 1) = x
      OBVIOUS
    <3> QED BY <3>1, FS_Interval
  <2>4. (trace_offset + rows * layout.width) * FIELD_BYTES = (U + rows) * w
    <3>1. (U + rows) * layout.width = U * layout.width + rows * layout.width /\ U + rows \in Nat
      <4> HIDE DEF U
      <4> QED BY <1>2, <1>9, <1>10, Products
    <3>2. (U + rows) * layout.width * FIELD_BYTES = (U + rows) * w
      BY <1>12, <3>1
    <3> QED BY <1>1, <3>1, <3>2
  <2> HIDE DEF P, w, U
  <2> QED BY <2>1, <2>2, <2>3, <2>4 DEF MatrixHasRoom
<1>15. N \in Nat /\ N = height * w
  BY <1>2, <1>12
<1>16. DenseHasRoom(rows) <=> position + size <= N + MAX_ALIGNMENT
  <2>1. DOMAIN records_buffer = 0..N + MAX_ALIGNMENT - 1
    BY <1>1 DEF DenseHolds
  <2> HIDE DEF N, size
  <2>2. Cardinality(0..N + MAX_ALIGNMENT - 1) = N + MAX_ALIGNMENT
    <3>1. 0 \in Int /\ N + MAX_ALIGNMENT - 1 \in Int /\ ~(0 > N + MAX_ALIGNMENT - 1)
          /\ (N + MAX_ALIGNMENT - 1) - 0 + 1 = N + MAX_ALIGNMENT
      BY <1>10, <1>15
    <3> QED BY <3>1, FS_Interval
  <2> QED BY <2>1, <2>2 DEF DenseHasRoom, size
<1>17. position <= AlignOffset + U * w
  BY <1>1, <1>13 DEF DenseHolds, RowsBefore
<1>18. AlignOffset \in Nat /\ AlignOffset < MAX_ALIGNMENT
  BY <1>2, FirstPosition
<1> HIDE DEF s, n, U, size, N, w, P, AlignOffset
<1>19. /\ U * w \in Nat /\ (U + rows) * w = U * w + rows * w
       /\ U + rows <= height => (U + rows) * w <= height * w
       /\ U + rows <= P => (U + rows) * w <= P * w
       /\ P < U + rows => (P + 1) * w <= (U + rows) * w
       /\ (P + 1) * w = P * w + 1 * w /\ P * w \in Nat
  <2>1. U + rows \in Nat /\ P + 1 \in Nat /\ 1 \in Nat /\ w \in Nat /\ rows \in Nat
        /\ (P < U + rows => P + 1 <= U + rows)
    BY <1>2, <1>9, <1>11
  <2> QED BY <1>2, <1>11, <2>1, Products
<1> DEFINE a == U * w
           b == (U + rows) * w
           c == rows * w
           d == P * w
           e == height * w
           f == (P + 1) * w
<1>20. /\ a \in Nat /\ c \in Nat /\ d \in Nat /\ b = a + c /\ f = d + w /\ e = N
       /\ (U + rows <= height => b <= e) /\ (U + rows <= P => b <= d) /\ (P < U + rows => f <= b)
       /\ size <= c /\ position <= AlignOffset + a
       /\ (MatrixHasRoom(rows) <=> b <= d)
  <2>1. 1 * w = w
    BY <1>9
  <2> QED BY <1>9, <1>14, <1>15, <1>17, <1>19, <2>1
<1> HIDE DEF a, b, c, d, e, f
<1>21. MatrixHasRoom(rows) => U + rows <= P
  BY <1>2, <1>9, <1>11, <1>20
<1>22. U + rows <= height => MatrixHasRoom(rows) /\ DenseHasRoom(rows)
  <2> SUFFICES ASSUME U + rows <= height PROVE MatrixHasRoom(rows) /\ DenseHasRoom(rows)
    OBVIOUS
  <2>1. U + rows <= P
    BY <1>2, <1>9, <1>11
  <2>2. position + size <= N + MAX_ALIGNMENT
    BY <1>4, <1>9, <1>10, <1>15, <1>18, <1>20
  <2> QED BY <1>16, <1>20, <2>1, <2>2
<1>23. position + size <= AlignOffset + b
  BY <1>4, <1>9, <1>18, <1>20
<1>24. position + size <= AlignOffset + (U + rows) * RowBytes
  BY <1>13, <1>23 DEF b
<1> QED BY <1>2, <1>3, <1>4, <1>5, <1>7, <1>8, <1>9, <1>15, <1>16, <1>21, <1>22, <1>24
        DEF s, n, U, size, N, P

\* The record alloc is asked for is aligned where it is to lie.
LEMMA NewRecordAligned ==
    ASSUME ArenaInv, status = "executing", NEW rows \in 1..MaxRows, rows = RowsOf(rows),
           NEW n \in 1..Len(allocated) + 1
    PROVE  LET s == Append(allocated, NewRecord(rows)) IN
           /\ (base + s[n].at) % layout.adapter_alignment = 0
           /\ (base + s[n].at + DenseSplit) % layout.core_alignment = 0
<1> DEFINE s == Append(allocated, NewRecord(rows))
<1>1. /\ Len(allocated) \in Nat /\ s[Len(allocated) + 1] = NewRecord(rows)
      /\ \A k \in 1..Len(allocated) : s[k] = allocated[k]
      /\ position \in Nat /\ layout \in Layouts /\ rows \in RowNumbers(layout)
  BY AllocFacts
<1> HIDE DEF s
<1>2. CASE n = Len(allocated) + 1
  <2>1. s[n].at = position
    BY <1>1, <1>2 DEF NewRecord
  <2>2. /\ Divides(layout.adapter_alignment, base + position)
        /\ Divides(layout.core_alignment, base + position) /\ base \in Nat
    BY DEF ArenaInv, ArenaType, RecordsStored, DenseHolds
  <2>3. DenseSplit \in Nat /\ Divides(layout.core_alignment, DenseSplit)
    <3>1. DenseSplit = SplitOfDense(layout)
      BY DEF DenseSplit, SplitOfDense
    <3> QED BY <1>1, <3>1, RecordFacts
  <2>4. layout.core_alignment \in Nat \ {0}
    BY LayoutAligned DEF ArenaInv
  <2>5. Divides(layout.core_alignment, (base + position) + DenseSplit)
    <3>1. base + position \in Nat
      BY <1>1, <2>2
    <3> QED BY <2>2, <2>3, <2>4, <3>1, DividesSum
  <2> QED BY <2>1, <2>2, <2>5 DEF Divides, s
<1>3. CASE n # Len(allocated) + 1
  <2>1. n \in 1..Len(allocated)
    BY <1>1, <1>3
  <2> QED BY <1>1, <2>1 DEF ArenaInv, ArenasKeepRecords, RecordsAligned, s
<1> QED BY <1>2, <1>3

LEMMA AllocPanicsHolds ==
    ASSUME ArenaInv, NEW rows \in 1..MaxRows, AllocPanics(rows)
    PROVE  ArenaInv'
<1> DEFINE s == Append(allocated, NewRecord(rows))
           n == Len(allocated)
<1>1. /\ status = "executing" /\ rows = RowsOf(rows) /\ (~MatrixHasRoom(rows) \/ ~DenseHasRoom(rows))
      /\ allocated' = s /\ status' = "panicked"
      /\ layout' = layout /\ height' = height /\ base' = base
  BY DEF AllocPanics, NewRecord
<1>2. /\ s \in Seq(RecordsOf(layout)) /\ Len(s) = n + 1 /\ height \in Nat /\ n \in Nat
      /\ RowsUpTo(allocated)[n] \in Nat /\ rows \in Nat
      /\ RowsUpTo(s)[n + 1] = RowsUpTo(allocated)[n] + rows
      /\ RowsUpTo(allocated)[n] + rows <= height => MatrixHasRoom(rows) /\ DenseHasRoom(rows)
  BY <1>1, AllocFacts
<1>3. ArenaType'
  BY <1>1, <1>2 DEF ArenaInv, ArenaType, RecordsOf
<1>4. RecordsStored'
  BY <1>1 DEF RecordsStored
<1>5. EstimateSuffices'
  <2>1. RowsUpTo(s)[n + 1] > height
    <3> DEFINE U == RowsUpTo(allocated)[n]
               V == RowsUpTo(s)[n + 1]
    <3> HIDE DEF U, V
    <3>1. U \in Nat /\ rows \in Nat /\ V = U + rows /\ ~(U + rows <= height) /\ height \in Nat
      BY <1>1, <1>2 DEF U, V
    <3>2. V > height
      BY <3>1
    <3> QED BY <3>2 DEF V
  <2>2. Len(allocated') = n + 1
    BY <1>1, <1>2
  <2>3. RowsBefore(Len(allocated))' = RowsUpTo(s)[n + 1]
    BY <1>1, <2>2 DEF RowsBefore
  <2> QED BY <1>1, <2>1, <2>3 DEF EstimateSuffices
<1>6. RecordsAligned'
  <2>1. \A k \in 1..n + 1 :
            /\ (base + s[k].at) % layout.adapter_alignment = 0
            /\ (base + s[k].at + DenseSplit) % layout.core_alignment = 0
    BY <1>1, NewRecordAligned
  <2>2. DenseSplit' = DenseSplit
    BY <1>1 DEF DenseSplit
  <2> QED BY <1>1, <1>2, <2>1, <2>2 DEF RecordsAligned
<1>7. RecordsReachTheirRows' /\ PaddingIsClean'
  BY <1>1 DEF RecordsReachTheirRows, PaddingIsClean
<1> QED BY <1>3, <1>4, <1>5, <1>6, <1>7 DEF ArenaInv, ArenasKeepRecords

LEMMA GenerateHolds ==
    ASSUME ArenaInv, GenerateProvingCtx
    PROVE  ArenaInv'
<1>1. /\ status = "executing" /\ status' = "done" /\ layout' = layout /\ height' = height
      /\ base' = base /\ allocated' = allocated
      /\ trace' = <<IntoMatrix(trace_buffer, trace_offset),
                    IntoMatrix(Transfer.buffer, Transfer.trace_offset)>>
  BY DEF GenerateProvingCtx
<1>2. ArenaType /\ DenseHolds /\ MatrixHolds(trace_buffer, height, Len(allocated))
      /\ trace_offset = RowsBefore(Len(allocated)) * layout.width
  BY <1>1 DEF ArenaInv, RecordsStored
<1>3. height \in Nat /\ Len(allocated) \in Nat /\ RowsUpTo(allocated)[Len(allocated)] \in Nat
  <2>1. allocated \in Seq(RecordsOf(layout)) /\ layout \in Layouts /\ height \in Nat
    BY <1>2, LayoutAssumption DEF ArenaType, RecordsOf
  <2> QED BY <2>1, RecordsTyped
<1>4. TraceKeeps(IntoMatrix(trace_buffer, trace_offset))
  <2>1. MatrixHoldsOf(trace_buffer, height, Len(allocated), layout, allocated)
    BY <1>2, <1>3, StateMatrix
  <2>2. trace_offset = RowsUpTo(allocated)[Len(allocated)] * layout.width
    BY <1>2 DEF RowsBefore
  <2> QED BY <1>2, <1>3, <2>1, <2>2, MatrixToTrace
<1>5. TraceKeeps(IntoMatrix(Transfer.buffer, Transfer.trace_offset))
  <2>1. Transferred(Transfer, Len(allocated))
    BY <1>2, TransferKeeps
  <2>2. /\ Transfer.trace_offset = RowsUpTo(allocated)[Len(allocated)] * layout.width
        /\ MatrixHoldsOf(Transfer.buffer, RowsUpTo(allocated)[Len(allocated)], Len(allocated), layout, allocated)
    BY <2>1 DEF Transferred
  <2> QED BY <1>2, <1>3, <2>2, MatrixToTrace
<1>6. TraceKeeps(trace'[1]) /\ TraceKeeps(trace'[2])
  BY <1>1, <1>4, <1>5
<1>7. ArenaType'
  BY <1>1, <1>2 DEF ArenaType
<1>8. RecordsStored' /\ EstimateSuffices'
  BY <1>1 DEF RecordsStored, EstimateSuffices
<1>9. RecordsAligned'
  <2>1. DenseSplit' = DenseSplit
    BY <1>1 DEF DenseSplit
  <2> QED BY <1>1, <2>1 DEF ArenaInv, ArenasKeepRecords, RecordsAligned
<1>10. RecordsReachTheirRows'
  <2>1. ASSUME NEW t, NEW k, RecordIn(t, k) PROVE RecordIn(t, k)'
    BY <1>1, <2>1 DEF RecordIn, RowsBefore, RowBytes, MatrixSplit
  <2>2. \A t \in {trace'[1], trace'[2]} : \A k \in 1..Len(allocated) : RecordIn(t, k)
    BY <1>6 DEF TraceKeeps
  <2>3. \A t \in {trace'[1], trace'[2]} : \A k \in 1..Len(allocated) : RecordIn(t, k)'
    BY <2>1, <2>2
  <2> QED BY <1>1, <2>3 DEF RecordsReachTheirRows
<1>11. PaddingIsClean'
  <2>1. RowsBefore(Len(allocated))' = RowsBefore(Len(allocated))
    BY <1>1 DEF RowsBefore
  <2> QED BY <1>6, <2>1 DEF PaddingIsClean, TraceKeeps
<1> QED BY <1>7, <1>8, <1>9, <1>10, <1>11 DEF ArenaInv, ArenasKeepRecords

\* alloc puts the record into the matrix behind those it holds.
LEMMA MatrixAlloc ==
    ASSUME ArenaInv, NEW rows \in 1..MaxRows, Alloc(rows)
    PROVE  /\ (trace_offset = RowsBefore(Len(allocated)) * layout.width)'
           /\ MatrixHolds(trace_buffer, height, Len(allocated))'
<1> DEFINE s == Append(allocated, NewRecord(rows))
           n == Len(allocated)
           U == RowsUpTo(allocated)[n]
           w == BytesOfRow(layout)
           P == NextPowerOfTwoOrZero(height)
           split == SplitOfMatrix(layout)
           first == layout.adapter_size
           second == CoreBytes(layout, rows)
           at == U * w
           end == (U + rows) * w
           N == P * w
           old == trace_buffer
           new == trace_buffer'
<1>1. /\ status = "executing" /\ rows = RowsOf(rows) /\ MatrixHasRoom(rows)
      /\ allocated' = s /\ layout' = layout /\ height' = height
      /\ trace_offset' = trace_offset + rows * layout.width
      /\ new = WriteRecord(old, trace_offset * FIELD_BYTES, MatrixSplit, n + 1, rows)
  BY DEF Alloc, NewRecord
<1>2. /\ layout \in Layouts /\ rows \in RowNumbers(layout) /\ rows \in Nat \ {0}
      /\ height \in Nat /\ U \in Nat /\ n \in Nat
      /\ NewRecord(rows) \in RecordsOf(layout) /\ allocated \in Seq(RecordsOf(layout))
      /\ s \in Seq(RecordsOf(layout)) /\ Len(s) = n + 1 /\ s[n + 1] = NewRecord(rows)
      /\ \A k \in 0..n : RowsUpTo(s)[k] = RowsUpTo(allocated)[k]
      /\ RowsUpTo(s)[n + 1] = U + rows
      /\ U + rows <= P
  BY <1>1, AllocFacts
<1>3. /\ ArenaType /\ MatrixHoldsOf(old, height, n, layout, allocated)
      /\ trace_offset = U * layout.width
  <2>1. ArenaType /\ MatrixHolds(old, height, n) /\ trace_offset = U * layout.width
    BY <1>1 DEF ArenaInv, RecordsStored, RowsBefore
  <2>2. n \in 0..n
    BY <1>2
  <2> QED BY <1>2, <2>1, <2>2, StateMatrix
<1>4. /\ w \in Nat \ {0} /\ split \in Nat /\ first \in Nat /\ second \in Nat /\ first <= split
      /\ split + second <= rows * w /\ rows * w \in Nat
      /\ layout.width \in Nat \ {0} /\ FIELD_BYTES \in Nat \ {0}
  BY <1>2, RecordFacts, LayoutTyped, LayoutAssumption DEF BytesOfRow
<1>5. trace_offset * FIELD_BYTES = at
  <2>1. ASSUME NEW x \in Nat, NEW y \in Nat, NEW z \in Nat PROVE (x * y) * z = x * (y * z)
    OBVIOUS
  <2>2. U \in Nat /\ layout.width \in Nat /\ FIELD_BYTES \in Nat
    BY <1>2, <1>4
  <2> HIDE DEF U
  <2> QED BY <1>3, <2>1, <2>2 DEF BytesOfRow
<1>6. P \in Nat
  BY <1>2, PaddedHeight
<1>7. at \in Nat /\ end = at + rows * w /\ end \in Nat /\ end <= N /\ N \in Nat
  <2> HIDE DEF U, w, P
  <2>1. U + rows \in Nat /\ w \in Nat /\ rows \in Nat
    BY <1>2, <1>4
  <2> QED BY <1>2, <1>6, <2>1, Products
<1>8. DOMAIN old = 0..N - 1
  BY <1>3 DEF MatrixHoldsOf
<1>9. new = WritePart(WritePart(old, at, n + 1, "adapter", first), at + split, n + 1, "core", second)
  <2>1. MatrixSplit = split /\ second = IF layout.multi_row THEN rows * layout.core_size ELSE layout.core_size
    BY DEF MatrixSplit, SplitOfMatrix, CoreBytes
  <2> HIDE DEF split, second, at
  <2> QED BY <1>1, <1>5, <2>1 DEF WriteRecord
<1>10. Placed(new, old, N, at, end, split, n + 1, first, second)
  <2> DEFINE c == rows * w
             new1 == new
  <2>1. end = at + c /\ split + second <= c /\ c \in Nat
    BY <1>4, <1>7
  <2> HIDE DEF at, end, split, first, second, N, c
  <2>2. at + split + second <= end
    BY <1>4, <1>7, <2>1
  <2> QED BY <1>4, <1>7, <1>8, <1>9, <2>2, PartsWritten
<1>11. MatrixHoldsOf(old, height, n, layout, s)
  <2>1. n \in 0..n
    BY <1>2
  <2> QED BY <1>2, <1>3, <2>1, MatrixAppend
<1>12. MatrixHoldsOf(new, height, n + 1, layout, s)
  <2>1. (n + 1) - 1 = n /\ n + 1 \in 1..Len(s) /\ n \in 0..n
    BY <1>2
  <2>2. RowsUpTo(s)[n] = U /\ RowsUpTo(s)[n + 1] = U + rows /\ s[n + 1].rows = rows
    BY <1>2, <2>1 DEF NewRecord
  <2>3. HoldsOf(new, RowsUpTo(s)[n] * BytesOfRow(layout), SplitOfMatrix(layout), n + 1, layout, s)
    BY <1>10, <2>2 DEF HoldsOf, Placed
  <2>4. \A i \in DOMAIN old : i < RowsUpTo(s)[n] * BytesOfRow(layout)
                                \/ RowsUpTo(s)[n + 1] * BytesOfRow(layout) <= i => new[i] = old[i]
    BY <1>8, <1>10, <2>2 DEF Placed
  <2>5. DOMAIN new = DOMAIN old /\ RowsUpTo(s)[n + 1] <= NextPowerOfTwoOrZero(height)
    BY <1>2, <1>8, <1>10, <2>2 DEF Placed
  <2> DEFINE m == n + 1
  <2>6. m \in 1..Len(s) /\ m - 1 = n
    BY <2>1
  <2> HIDE DEF s, n, m
  <2>7. /\ MatrixHoldsOf(old, height, m - 1, layout, s)
        /\ RowsUpTo(s)[m] <= NextPowerOfTwoOrZero(height)
        /\ HoldsOf(new, RowsUpTo(s)[m - 1] * BytesOfRow(layout), SplitOfMatrix(layout), m, layout, s)
        /\ \A i \in DOMAIN old : i < RowsUpTo(s)[m - 1] * BytesOfRow(layout)
                                \/ RowsUpTo(s)[m] * BytesOfRow(layout) <= i => new[i] = old[i]
    BY <1>11, <2>3, <2>4, <2>5, <2>6 DEF m
  <2>8. MatrixHoldsOf(new, height, m, layout, s)
    BY <1>2, <2>5, <2>6, <2>7, MatrixExtend
  <2> QED BY <2>8 DEF m
<1>13. trace_offset' = RowsUpTo(s)[n + 1] * layout.width
  <2>1. (U + rows) * layout.width = U * layout.width + rows * layout.width
    <3>1. U \in Nat /\ rows \in Nat /\ layout.width \in Nat
      BY <1>2, <1>4
    <3> HIDE DEF U
    <3> QED BY <3>1, Products
  <2> QED BY <1>1, <1>2, <1>3, <2>1
<1>14. ASSUME NEW k \in 1..n + 1
       PROVE  RecordHeld(trace_buffer, RowsBefore(k - 1) * RowBytes, MatrixSplit, k)'
  <2>1. HoldsOf(new, RowsUpTo(s)[k - 1] * w, split, k, layout, s)
    BY <1>12 DEF MatrixHoldsOf
  <2>2. RecordSize(layout, s[k].rows) - layout.adapter_size = CoreBytes(layout, s[k].rows)
    <3>1. k \in 1..Len(s)
      BY <1>2
    <3>2. s[k].rows \in RowNumbers(layout)
      BY <1>2, <3>1, RecordsTyped
    <3> QED BY <1>2, <3>2, RecordFacts
  <2> HIDE DEF s
  <2>3. /\ MatrixSplit' = split /\ RowBytes' = w /\ RowsBefore(k - 1)' = RowsUpTo(s)[k - 1]
    BY <1>1 DEF MatrixSplit, SplitOfMatrix, RowBytes, BytesOfRow, RowsBefore
  <2> HIDE DEF split, w
  <2> QED BY <1>1, <2>1, <2>2, <2>3 DEF RecordHeld, HoldsOf, PartsAt
<1>15. MatrixHolds(trace_buffer, height, Len(allocated))'
  <2>1. P * layout.width * FIELD_BYTES = N
    <3>1. ASSUME NEW x \in Nat, NEW y \in Nat, NEW z \in Nat PROVE x * y * z = x * (y * z)
      OBVIOUS
    <3> QED BY <1>4, <1>6, <3>1 DEF BytesOfRow
  <2>2. DOMAIN new = 0..N - 1
    BY <1>10 DEF Placed
  <2>3. RowBytes' = w /\ RowsBefore(Len(allocated))' = RowsUpTo(s)[n + 1] /\ Len(allocated') = n + 1
    BY <1>1, <1>2 DEF RowBytes, BytesOfRow, RowsBefore
  <2>4. /\ RowsUpTo(s)[n + 1] <= NextPowerOfTwoOrZero(height)
        /\ \A i \in DOMAIN new : i >= RowsUpTo(s)[n + 1] * w => new[i] = ZeroByte
    BY <1>12 DEF MatrixHoldsOf
  <2> HIDE DEF s, w, N
  <2> QED BY <1>1, <1>14, <2>1, <2>2, <2>3, <2>4 DEF MatrixHolds
<1>16. RowsBefore(Len(allocated))' = RowsUpTo(s)[n + 1]
  BY <1>1, <1>2 DEF RowsBefore
<1> QED BY <1>1, <1>13, <1>15, <1>16

\* alloc puts the record into the dense arena behind those it holds.
LEMMA DenseAlloc ==
    ASSUME ArenaInv, NEW rows \in 1..MaxRows, Alloc(rows)
    PROVE  DenseHolds'
<1> DEFINE s == Append(allocated, NewRecord(rows))
           n == Len(allocated)
           U == RowsUpTo(allocated)[n]
           size == AlignedRecordSize(layout, rows)
           B == height * layout.width * FIELD_BYTES
           N == B + MAX_ALIGNMENT
           split == SplitOfDense(layout)
           first == layout.adapter_size
           second == CoreBytes(layout, rows)
           at == position
           end == position + size
           old == records_buffer
           new == records_buffer'
<1>1. /\ status = "executing" /\ rows = RowsOf(rows) /\ DenseHasRoom(rows)
      /\ allocated' = s /\ layout' = layout /\ height' = height /\ base' = base
      /\ position' = end
      /\ new = WriteRecord(old, position, DenseSplit, n + 1, rows)
  BY DEF Alloc, NewRecord
<1>2. /\ layout \in Layouts /\ rows \in RowNumbers(layout) /\ rows \in Nat \ {0}
      /\ height \in Nat /\ U \in Nat /\ n \in Nat /\ B \in Nat /\ position \in Nat
      /\ allocated \in Seq(RecordsOf(layout))
      /\ s \in Seq(RecordsOf(layout)) /\ Len(s) = n + 1 /\ s[n + 1] = NewRecord(rows)
      /\ \A k \in 1..n : s[k] = allocated[k]
      /\ RowsUpTo(s)[n + 1] = U + rows
      /\ position + size <= B + MAX_ALIGNMENT
      /\ position + size <= AlignOffset + (U + rows) * RowBytes
  BY <1>1, AllocFacts
<1>3. ArenaType /\ DenseHolds
  BY <1>1 DEF ArenaInv, RecordsStored
<1>4. /\ split \in Nat /\ first \in Nat /\ second \in Nat /\ size \in Nat /\ first <= split
      /\ split + second <= size /\ MAX_ALIGNMENT \in Nat \ {0}
      /\ Divides(layout.adapter_alignment, size) /\ Divides(layout.core_alignment, size)
  BY <1>2, RecordFacts, LayoutTyped, LayoutAssumption
<1>5. end \in Nat /\ end <= N /\ N \in Nat /\ at + split + second <= end
  <2> HIDE DEF size, split, second, B
  <2> QED BY <1>2, <1>4
<1>6. DOMAIN old = 0..N - 1
  <2>1. DOMAIN old = 0..B + MAX_ALIGNMENT - 1
    BY <1>3 DEF DenseHolds
  <2> HIDE DEF B
  <2>2. B + MAX_ALIGNMENT - 1 = N - 1
    BY <1>2, <1>4
  <2> QED BY <2>1, <2>2
<1>7. Placed(new, old, N, at, end, split, n + 1, first, second)
  <2>1. DenseSplit = split /\ second = IF layout.multi_row THEN rows * layout.core_size ELSE layout.core_size
    BY DEF DenseSplit, SplitOfDense, CoreBytes
  <2> HIDE DEF at, end, split, first, second, N
  <2>2. new = WritePart(WritePart(old, at, n + 1, "adapter", first), at + split, n + 1, "core", second)
    BY <1>1, <2>1 DEF WriteRecord, at, first
  <2>3. at \in Nat
    BY <1>2 DEF at
  <2> QED BY <1>4, <1>5, <1>6, <2>2, <2>3, PartsWritten
<1>8. \A k \in 0..n : EndOf(k)' = EndOf(k)
  <2>1. AlignOffset' = AlignOffset
    BY <1>1 DEF AlignOffset
  <2>2. \A k \in 1..n : allocated'[k] = allocated[k]
    BY <1>1, <1>2
  <2>3. \A k \in 0..n : k # 0 => k \in 1..n
    BY <1>2
  <2> QED BY <1>1, <2>1, <2>2, <2>3 DEF EndOf
<1>9. EndOf(Len(allocated))' = end
  <2>1. n + 1 # 0 /\ Len(allocated') = n + 1
    BY <1>1, <1>2
  <2>2. s[n + 1].at = position /\ s[n + 1].rows = rows
    BY <1>2 DEF NewRecord
  <2> HIDE DEF s
  <2> QED BY <1>1, <2>1, <2>2 DEF EndOf
<1>10. position = EndOf(n)
  BY <1>3 DEF DenseHolds
<1>11. ASSUME NEW k \in 1..n + 1
       PROVE  /\ s[k].at = EndOf(k - 1)'
              /\ PartsAt(new, s[k].at, split, k, first, CoreBytes(layout, s[k].rows))
  <2>1. CASE k = n + 1
    <3>1. s[k].at = position /\ s[k].rows = rows
      BY <1>2, <2>1 DEF NewRecord
    <3>2. k - 1 = n /\ n \in 0..n
      BY <1>2, <2>1
    <3> HIDE DEF s
    <3>3. s[k].at = EndOf(k - 1)'
      BY <1>8, <1>10, <3>1, <3>2
    <3>4. PartsAt(new, s[k].at, split, k, first, CoreBytes(layout, s[k].rows))
      BY <1>7, <2>1, <3>1 DEF Placed
    <3> QED BY <3>3, <3>4
  <2>2. CASE k # n + 1
    <3>1. k \in 1..n /\ k - 1 \in 0..n
      BY <1>2, <2>2
    <3>2. s[k] = allocated[k]
      BY <1>2, <3>1
    <3>3. /\ allocated[k].at = EndOf(k - 1) /\ RecordHeld(old, allocated[k].at, DenseSplit, k)
      BY <1>3, <3>1 DEF DenseHolds
    <3>4. PartsAt(old, allocated[k].at, split, k, first, CoreBytes(layout, allocated[k].rows))
      <4>1. DenseSplit = split
        BY DEF DenseSplit, SplitOfDense
      <4> QED BY <1>3, <3>1, <3>3, <4>1, StateHolds DEF HoldsOf
    <3> DEFINE a == allocated[k].at
               c == CoreBytes(layout, allocated[k].rows)
               z == AlignedRecordSize(layout, allocated[k].rows)
    <3>5. /\ a \in Nat /\ c \in Nat /\ z \in Nat /\ split + c <= z
      BY <1>2, <3>1, RecordsTyped, RecordFacts
    <3>6. a + z <= position
      <4>1. /\ EndOf(k) = EndOf(k - 1) + z /\ EndOf(k - 1) = a /\ EndOf(k) \in Nat
        BY <1>3, <3>1, EndsIncrease
      <4>2. CASE k = n
        BY <1>10, <4>1, <4>2
      <4>3. CASE k # n
        <5>1. k + 1 \in 1..n /\ (k + 1) - 1 = k
          BY <1>2, <3>1, <4>3
        <5>2. EndOf((k + 1) - 1) < position
          BY <1>3, <5>1, EndsIncrease
        <5>3. EndOf(k) < position
          BY <5>1, <5>2
        <5> HIDE DEF a, z
        <5> QED BY <1>2, <3>5, <4>1, <5>3
      <4> QED BY <4>2, <4>3
    <3> DEFINE e == a + z
    <3>7. \A i \in Nat : a <= i /\ i < e => new[i] = old[i]
      <4> SUFFICES ASSUME NEW i \in Nat, a <= i, i < e PROVE new[i] = old[i]
        OBVIOUS
      <4>1. i \in 0..N - 1 /\ i < at
        <5>1. e \in Nat /\ e <= at /\ at <= end
          <6> HIDE DEF a, z, size
          <6> QED BY <1>2, <1>4, <3>5, <3>6
        <5> HIDE DEF e, N, at, end
        <5>2. at \in Nat
          BY <1>2 DEF at
        <5> QED BY <1>5, <5>1, <5>2
      <4> QED BY <1>7, <4>1 DEF Placed
    <3>8. e \in Nat /\ a + split + c <= e
      <4> HIDE DEF a, z, c, split
      <4> QED BY <1>4, <3>5
    <3>9. PartsAt(old, a, split, k, first, c)
      BY <3>4
    <3> HIDE DEF a, c, e, split, first, s
    <3>10. PartsAt(new, a, split, k, first, c)
      BY <1>4, <3>5, <3>7, <3>8, <3>9, PartsKept
    <3> QED BY <1>8, <3>1, <3>2, <3>3, <3>10 DEF a, c
  <2> QED BY <2>1, <2>2
<1>12. ASSUME NEW k \in 1..n + 1
       PROVE  (allocated[k].at = EndOf(k - 1) /\ RecordHeld(records_buffer, allocated[k].at, DenseSplit, k))'
  <2>1. RecordSize(layout, s[k].rows) - layout.adapter_size = CoreBytes(layout, s[k].rows)
    <3>1. k \in 1..Len(s)
      BY <1>2
    <3>2. s[k].rows \in RowNumbers(layout)
      BY <1>2, <3>1, RecordsTyped
    <3> QED BY <1>2, <3>2, RecordFacts
  <2>2. DenseSplit' = split
    BY <1>1 DEF DenseSplit, SplitOfDense
  <2> HIDE DEF s, split
  <2> QED BY <1>1, <1>11, <2>1, <2>2 DEF RecordHeld, PartsAt
<1>13. /\ Divides(layout.adapter_alignment, base + end) /\ Divides(layout.core_alignment, base + end)
  <2>1. base \in Nat /\ Divides(layout.adapter_alignment, base + position)
        /\ Divides(layout.core_alignment, base + position)
    BY <1>3 DEF ArenaType, DenseHolds
  <2>2. layout.adapter_alignment \in Nat \ {0} /\ layout.core_alignment \in Nat \ {0}
    BY <1>3, LayoutAligned
  <2> HIDE DEF size
  <2>3. base + position \in Nat /\ (base + position) + size = base + end
    BY <1>2, <1>4, <2>1
  <2>4. /\ Divides(layout.adapter_alignment, (base + position) + size)
        /\ Divides(layout.core_alignment, (base + position) + size)
    BY <1>4, <2>1, <2>2, <2>3, DividesSum
  <2> QED BY <2>3, <2>4
<1>14. DOMAIN new = 0..B + MAX_ALIGNMENT - 1
  <2>1. DOMAIN new = DOMAIN old
    BY <1>6, <1>7 DEF Placed
  <2> QED BY <1>3, <2>1 DEF DenseHolds
<1>15. /\ AlignOffset' = AlignOffset /\ RowBytes' = RowBytes
       /\ Len(allocated') = n + 1 /\ RowsBefore(Len(allocated))' = U + rows
  BY <1>1, <1>2 DEF AlignOffset, RowBytes, RowsBefore
<1> HIDE DEF s, end, size, U
<1>16. position' <= AlignOffset + (U + rows) * RowBytes /\ position' <= B + MAX_ALIGNMENT
  BY <1>1, <1>2 DEF end, size
<1>17. position' = EndOf(Len(allocated))'
  BY <1>1, <1>9
<1> QED BY <1>1, <1>12, <1>13, <1>14, <1>15, <1>16, <1>17 DEF DenseHolds

LEMMA AllocHolds ==
    ASSUME ArenaInv, NEW rows \in 1..MaxRows, Alloc(rows)
    PROVE  ArenaInv'
<1> DEFINE s == Append(allocated, NewRecord(rows))
           n == Len(allocated)
<1>1. /\ status = "executing" /\ rows = RowsOf(rows) /\ status' = "executing"
      /\ allocated' = s /\ layout' = layout /\ height' = height /\ base' = base
  BY DEF Alloc, NewRecord
<1>2. s \in Seq(RecordsOf(layout)) /\ Len(s) = n + 1
  BY <1>1, AllocFacts
<1>3. ArenaType'
  BY <1>1, <1>2 DEF ArenaInv, ArenaType, RecordsOf
<1>4. RecordsStored'
  BY MatrixAlloc, DenseAlloc DEF RecordsStored
<1>5. RecordsAligned'
  <2>1. \A k \in 1..n + 1 :
            /\ (base + s[k].at) % layout.adapter_alignment = 0
            /\ (base + s[k].at + DenseSplit) % layout.core_alignment = 0
    BY <1>1, NewRecordAligned
  <2>2. DenseSplit' = DenseSplit
    BY <1>1 DEF DenseSplit
  <2> QED BY <1>1, <1>2, <2>1, <2>2 DEF RecordsAligned
<1>6. EstimateSuffices' /\ RecordsReachTheirRows' /\ PaddingIsClean'
  BY <1>1 DEF EstimateSuffices, RecordsReachTheirRows, PaddingIsClean
<1> QED BY <1>3, <1>4, <1>5, <1>6 DEF ArenaInv, ArenasKeepRecords

\* For every record layout that LayoutAssumption admits, every estimated height,
\* buffer address and sequence of records: an arena takes every record of an
\* execution within the estimate, each is aligned where it lies, and trace
\* generation finds it whole in its own rows through either arena, with zero rows
\* behind the last (with_capacity, alloc, transfer_to_matrix_arena, into_matrix).
THEOREM RecordArenasKeepRecords == ArenaSpec => []ArenasKeepRecords
<1>1. ArenaInit => ArenaInv
  BY InitHolds
<1>2. ArenaInv /\ [ArenaNext]_arenaVars => ArenaInv'
  <2> SUFFICES ASSUME ArenaInv, [ArenaNext]_arenaVars PROVE ArenaInv'
    OBVIOUS
  <2>1. ASSUME NEW rows \in 1..MaxRows, Alloc(rows) PROVE ArenaInv'
    BY <2>1, AllocHolds
  <2>2. ASSUME NEW rows \in 1..MaxRows, AllocPanics(rows) PROVE ArenaInv'
    BY <2>2, AllocPanicsHolds
  <2>3. CASE GenerateProvingCtx
    BY <2>3, GenerateHolds
  <2>4. CASE UNCHANGED arenaVars
    <3>1. ArenaType'
      BY <2>4 DEF ArenaInv, ArenaType, arenaVars
    <3>2. RecordsStored'
      BY <2>4 DEF ArenaInv, arenaVars, RecordsStored, MatrixHolds, DenseHolds, RecordHeld, EndOf, AlignOffset,
                  MatrixSplit, DenseSplit, RowBytes, RowsBefore
    <3>3. ArenasKeepRecords'
      <4>1. /\ layout' = layout /\ height' = height /\ base' = base /\ allocated' = allocated
            /\ trace' = trace /\ status' = status
        BY <2>4 DEF arenaVars
      <4>2. DenseSplit' = DenseSplit /\ RowsBefore(Len(allocated))' = RowsBefore(Len(allocated))
        BY <4>1 DEF DenseSplit, RowsBefore
      <4>3. EstimateSuffices' /\ RecordsAligned'
        BY <4>1, <4>2 DEF ArenaInv, ArenasKeepRecords, EstimateSuffices, RecordsAligned
      <4>4. ASSUME NEW t, NEW k, RecordIn(t, k) PROVE RecordIn(t, k)'
        BY <4>1, <4>4 DEF RecordIn, RowsBefore, RowBytes, MatrixSplit
      <4>5. RecordsReachTheirRows'
        BY <4>1, <4>4 DEF ArenaInv, ArenasKeepRecords, RecordsReachTheirRows
      <4>6. PaddingIsClean'
        BY <4>1, <4>2 DEF ArenaInv, ArenasKeepRecords, PaddingIsClean
      <4> QED BY <4>3, <4>5, <4>6 DEF ArenasKeepRecords
    <3> QED BY <3>1, <3>2, <3>3 DEF ArenaInv
  <2> QED BY <2>1, <2>2, <2>3, <2>4 DEF ArenaNext, ArenaDone
<1>3. ArenaInv => ArenasKeepRecords
  BY DEF ArenaInv
<1> QED BY <1>1, <1>2, <1>3, PTL DEF ArenaSpec
=============================================================================
