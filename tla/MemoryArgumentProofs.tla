------------------------ MODULE MemoryArgumentProofs ------------------------
(***************************************************************************)
(* Soundness of the memory argument, for all chunks, contents and numbers  *)
(* of accesses.                                                            *)
(*                                                                         *)
(* A block at a time is sent at most once: by the access row of that time, *)
(* or at time zero by the initial boundary row.  Since the bus balances,   *)
(* no two rows receive the same (block, time).  So let t be the least      *)
(* time at which a row of block b receives something other than the last   *)
(* access s before it.  It receives an earlier one; but the access that    *)
(* follows that earlier one comes before t and received it already.        *)
(***************************************************************************)
EXTENDS MemoryArgument, FiniteSetTheorems, WellFoundedInduction, TLAPS

\* The least-number principle, for a set of numbers.
LEMMA LeastElement ==
    ASSUME NEW T \in SUBSET Nat, T # {}
    PROVE  \E x \in T : \A y \in T : x <= y
<1>1. IsWellFoundedOn(OpToRel(<, Nat), Nat)
  BY NatLessThanWellFounded
<1>2. PICK x \in T : \A y \in T : ~(<<y, x>> \in OpToRel(<, Nat))
  BY <1>1, WFMin
<1>3. ASSUME NEW y \in T, y < x PROVE FALSE
  BY <1>2, <1>3 DEF OpToRel
<1> QED BY <1>3

\* Latest finds the greatest of a bounded set of times.
LEMMA LatestElement ==
    ASSUME NEW S \in SUBSET Nat, S # {}, NEW n \in Nat, \A s \in S : s <= n
    PROVE  Latest(S) \in S /\ \A x \in S : x <= Latest(S)
<1> DEFINE T == {k \in Nat : \A s \in S : s <= k}
<1>1. T \in SUBSET Nat /\ T # {}
  OBVIOUS
<1>2. PICK k \in T : \A y \in T : k <= y
  BY <1>1, LeastElement
<1>3. k \in S
  <2> SUFFICES ASSUME k \notin S PROVE FALSE
    OBVIOUS
  <2>1. \A s \in S : s < k
    OBVIOUS
  <2>2. PICK s \in S : TRUE
    OBVIOUS
  <2>3. k > 0
    BY <2>1, <2>2
  <2>4. k - 1 \in T
    BY <2>1, <2>3
  <2> QED BY <1>2, <2>4
<1> QED BY <1>3 DEF Latest

-----------------------------------------------------------------------------
(* The bus.                                                                *)

\* The times of a segment and the sets the bus counts are finite.
LEMMA TimesFinite ==
    ASSUME RowsConstrained, NEW S \in SUBSET Times
    PROVE  IsFiniteSet(S) /\ Cardinality(S) \in Nat
<1>1. Len(rows) \in Nat
  BY DEF RowsConstrained
<1>2. IsFiniteSet(Times)
  BY <1>1, FS_Interval DEF Times
<1> QED BY <1>2, FS_Subset, FS_CardinalityType

\* The rows are access rows of blocks, at times up to the bound.
LEMMA RowTypes ==
    ASSUME RowsConstrained, NEW t \in Times
    PROVE  rows[t] \in AccessRow /\ rows[t].addr \in AnyBlock /\ t \in Nat /\ t < MaxAccesses + 1
<1>1. Len(rows) \in Nat /\ Len(rows) <= MaxAccesses /\ MaxAccesses \in Nat
  BY AccessesAssumption DEF RowsConstrained
<1>2. rows[t] \in AccessRow
  BY <1>1 DEF RowsConstrained, Times
<1> QED BY <1>1, <1>2 DEF AccessRow, Times

\* A message with one receiver has one sender: the row of its time, or the
\* initial boundary row.
LEMMA ReceivedWasSent ==
    ASSUME RowsConstrained, boundary.accepted, NEW m \in RowMessage, Received(m, boundary) > 0
    PROVE  \/ /\ m.timestamp \in Times
              /\ rows[m.timestamp].addr = m.addr /\ rows[m.timestamp].data = m.data
           \/ /\ m.timestamp = 0 /\ m.addr \in BlocksOfLeaves(boundary.touched)
              /\ boundary.init[m.addr].data = m.data
<1> DEFINE S == {t \in Times : rows[t].addr = m.addr /\ rows[t].data = m.data /\ t = m.timestamp}
<1>1. Sent(m, boundary) > 0
  BY DEF RowsConstrained, Balanced
<1>2. CASE S # {}
  BY <1>2
<1>3. CASE S = {}
  <2>1. Cardinality(S) = 0
    BY <1>3, FS_EmptySet
  <2>2. BoundaryRow(m, boundary, boundary.init)
    BY <1>1, <2>1 DEF Sent
  <2>3. m.addr \in BlocksOfLeaves(boundary.touched)
        /\ boundary.init[m.addr] = [data |-> m.data, timestamp |-> m.timestamp]
    BY <2>2 DEF BoundaryRow
  <2>4. boundary.init[m.addr].timestamp = 0
    BY <2>3 DEF RowsConstrained, InitialTime
  <2> QED BY <2>3, <2>4
<1> QED BY <1>2, <1>3

\* A message is sent, and so received, at most once.
LEMMA ReceivedOnce ==
    ASSUME RowsConstrained, boundary.accepted, NEW m \in RowMessage
    PROVE  Received(m, boundary) <= 1
<1> DEFINE S == {t \in Times : rows[t].addr = m.addr /\ rows[t].data = m.data /\ t = m.timestamp}
<1>1. Sent(m, boundary) = Received(m, boundary)
  BY DEF RowsConstrained, Balanced
<1>2. S \in SUBSET Times /\ S \subseteq {m.timestamp}
  OBVIOUS
<1>3. Cardinality(S) \in Nat
  BY <1>2, TimesFinite
<1>4. Cardinality(S) <= 1
  <2>1. IsFiniteSet({m.timestamp}) /\ Cardinality({m.timestamp}) = 1
    BY FS_Singleton
  <2> HIDE DEF S
  <2> QED BY <1>2, <2>1, FS_Subset
<1>5. CASE ~BoundaryRow(m, boundary, boundary.init)
  BY <1>1, <1>3, <1>4, <1>5 DEF Sent
<1>6. CASE BoundaryRow(m, boundary, boundary.init)
  <2>1. m.timestamp = 0
    BY <1>6 DEF BoundaryRow, RowsConstrained, InitialTime
  <2>2. S = {}
    BY <2>1 DEF Times
  <2>3. Cardinality(S) = 0
    BY <2>2, FS_EmptySet
  <2> QED BY <1>1, <1>6, <2>3 DEF Sent
<1> QED BY <1>5, <1>6

-----------------------------------------------------------------------------
(* What the rows of one block receive.  The final boundary row of a block  *)
(* receives as an access after all others would.                           *)

End == MaxAccesses + 1
Receivers(b) ==
    {t \in Times : rows[t].addr = b}
    \cup (IF b \in BlocksOfLeaves(boundary.touched) THEN {End} ELSE {})
Past(b, t) ==
    IF t = End THEN boundary.final[b]
    ELSE [data |-> rows[t].prev_data, timestamp |-> rows[t].prev_timestamp]
PastMessage(b, t) ==
    [addr |-> b, data |-> Past(b, t).data, timestamp |-> Past(b, t).timestamp]

\* Types of the above.
LEMMA ReceiverTypes ==
    ASSUME RowsConstrained, boundary.accepted, NEW b \in AnyBlock, NEW t \in Receivers(b)
    PROVE  /\ t \in Nat /\ End \in Nat
           /\ t # End => t \in Times /\ rows[t].addr = b /\ t < End
           /\ t = End => b \in BlocksOfLeaves(boundary.touched)
           /\ Past(b, t) \in BlockState
           /\ PastMessage(b, t) \in RowMessage
           /\ Past(b, t).timestamp \in Nat /\ Past(b, t).timestamp < t
<1>1. Len(rows) \in Nat /\ MaxAccesses \in Nat /\ Len(rows) <= MaxAccesses
  BY AccessesAssumption DEF RowsConstrained
<1>2. /\ t \in Nat /\ End \in Nat
      /\ t # End => t \in Times /\ rows[t].addr = b
      /\ \A s \in Times : s < End
      /\ t = End => b \in BlocksOfLeaves(boundary.touched)
  BY <1>1 DEF Receivers, End, Times
<1>3. CASE t = End
  <2>1. Past(b, t) = boundary.final[b]
    BY <1>3 DEF Past
  <2>2. Past(b, t) \in BlockState
    BY <1>2, <1>3, <2>1 DEF RowsConstrained
  <2> QED BY <1>1, <1>2, <1>3, <2>2 DEF BlockState, PastMessage, RowMessage, End
<1>4. CASE t # End
  <2>1. rows[t] \in AccessRow /\ rows[t].prev_timestamp < t
    BY <1>2, <1>4 DEF RowsConstrained, TimestampLt, Times
  <2>2. Past(b, t) = [data |-> rows[t].prev_data, timestamp |-> rows[t].prev_timestamp]
    BY <1>4 DEF Past
  <2>3. rows[t].prev_data \in Contents /\ rows[t].prev_timestamp \in 0..MaxAccesses
    BY <2>1 DEF AccessRow
  <2> QED BY <1>1, <1>2, <1>4, <2>1, <2>2, <2>3 DEF BlockState, PastMessage, RowMessage
<1> QED BY <1>3, <1>4

\* A receiver counts on the bus.
LEMMA ReceiverCounts ==
    ASSUME RowsConstrained, boundary.accepted, NEW b \in AnyBlock, NEW t \in Receivers(b)
    PROVE  Received(PastMessage(b, t), boundary) > 0
<1> DEFINE m == PastMessage(b, t)
           R == {s \in Times : /\ rows[s].addr = m.addr
                               /\ rows[s].prev_data = m.data
                               /\ rows[s].prev_timestamp = m.timestamp}
<1>1. Cardinality(R) \in Nat /\ IsFiniteSet(R)
  BY TimesFinite
<1>2. CASE t = End
  <2>1. BoundaryRow(m, boundary, boundary.final)
    BY <1>2, ReceiverTypes DEF BoundaryRow, PastMessage, Past, BlockState
  <2> QED BY <1>1, <2>1 DEF Received
<1>3. CASE t # End
  <2>1. t \in R
    BY <1>3, ReceiverTypes DEF PastMessage, Past
  <2>2. Cardinality(R) # 0
    BY <1>1, <2>1, FS_EmptySet
  <2> QED BY <1>1, <2>2 DEF Received
<1> QED BY <1>2, <1>3

\* Two receivers of one message would count twice.
LEMMA ReceiversDiffer ==
    ASSUME RowsConstrained, boundary.accepted, NEW b \in AnyBlock,
           NEW t \in Receivers(b), NEW u \in Receivers(b), u < t
    PROVE  PastMessage(b, t) # PastMessage(b, u)
<1> SUFFICES ASSUME PastMessage(b, t) = PastMessage(b, u) PROVE FALSE
  OBVIOUS
<1> DEFINE m == PastMessage(b, t)
           R == {s \in Times : /\ rows[s].addr = m.addr
                               /\ rows[s].prev_data = m.data
                               /\ rows[s].prev_timestamp = m.timestamp}
<1>1. Cardinality(R) \in Nat /\ IsFiniteSet(R)
  BY TimesFinite
<1>2. Received(m, boundary) <= 1
  BY ReceiverTypes, ReceivedOnce
<1>3. u # End /\ u \in Nat /\ t \in Nat
  BY ReceiverTypes
<1>4. u \in R
  BY <1>3, ReceiverTypes DEF PastMessage, Past
<1>5. CASE t = End
  <2>1. BoundaryRow(m, boundary, boundary.final)
    BY <1>5, ReceiverTypes DEF BoundaryRow, PastMessage, Past, BlockState
  <2>2. Cardinality(R) # 0
    BY <1>1, <1>4, FS_EmptySet
  <2> QED BY <1>1, <1>2, <2>1, <2>2 DEF Received
<1>6. CASE t # End
  <2>1. t \in R
    BY <1>6, ReceiverTypes DEF PastMessage, Past
  <2>2. Cardinality({u, t}) = 2
    <3>1. IsFiniteSet({u}) /\ Cardinality({u}) = 1
      BY FS_Singleton
    <3>2. t \notin {u}
      BY <1>3
    <3>3. Cardinality({u} \cup {t}) = Cardinality({u}) + 1
      BY <3>1, <3>2, FS_AddElement
    <3> QED BY <3>1, <3>3
  <2>3. {u, t} \in SUBSET R
    BY <1>4, <2>1
  <2>4. Cardinality(R) >= 2
    BY <1>1, <2>2, <2>3, FS_Subset
  <2> QED BY <1>1, <1>2, <2>4 DEF Received
<1> QED BY <1>5, <1>6

\* A receiver gets what an earlier access of the block, or the initial row, sent.
LEMMA PastWasSent ==
    ASSUME RowsConstrained, boundary.accepted, NEW b \in AnyBlock, NEW t \in Receivers(b)
    PROVE  LET s == Past(b, t).timestamp IN
           \/ s \in Before(b, t) /\ Past(b, t).data = rows[s].data
           \/ /\ s = 0 /\ b \in BlocksOfLeaves(boundary.touched)
              /\ Past(b, t).data = boundary.init[b].data
<1> DEFINE m == PastMessage(b, t)
<1>1. m \in RowMessage /\ Received(m, boundary) > 0
  BY ReceiverTypes, ReceiverCounts
<1>2. m.addr = b /\ m.data = Past(b, t).data /\ m.timestamp = Past(b, t).timestamp
  BY DEF PastMessage
<1>3. Past(b, t).timestamp < t
  BY ReceiverTypes
<1> HIDE DEF m
<1>4. \/ /\ m.timestamp \in Times
         /\ rows[m.timestamp].addr = m.addr /\ rows[m.timestamp].data = m.data
      \/ /\ m.timestamp = 0 /\ m.addr \in BlocksOfLeaves(boundary.touched)
         /\ boundary.init[m.addr].data = m.data
  BY <1>1, ReceivedWasSent
<1> QED BY <1>2, <1>3, <1>4 DEF Before

\* So two receivers of a block get it at different times.
LEMMA PastTimesDiffer ==
    ASSUME RowsConstrained, boundary.accepted, NEW b \in AnyBlock,
           NEW t \in Receivers(b), NEW u \in Receivers(b), u < t
    PROVE  Past(b, t).timestamp # Past(b, u).timestamp
<1> SUFFICES ASSUME Past(b, t).timestamp = Past(b, u).timestamp PROVE FALSE
  OBVIOUS
<1>1. 0 \notin Times
  BY DEF Times
<1>2. Past(b, t).data = Past(b, u).data
  BY <1>1, PastWasSent DEF Before
<1>3. PastMessage(b, t) = PastMessage(b, u)
  BY <1>2 DEF PastMessage
<1> QED BY <1>3, ReceiversDiffer

\* The time a receiver of b gets is that of the last access before it.
Precedes(b, t) ==
    Past(b, t).timestamp = IF Before(b, t) = {} THEN 0 ELSE Latest(Before(b, t))

\* Accesses before t are numbers below t, and the latest is one of them.
LEMMA BeforeTimes ==
    ASSUME RowsConstrained, NEW b, NEW t \in Nat
    PROVE  /\ Before(b, t) \in SUBSET Nat
           /\ \A s \in Before(b, t) : s \in Times /\ 0 < s /\ s < t /\ rows[s].addr = b
           /\ Before(b, t) # {} =>
                /\ Latest(Before(b, t)) \in Before(b, t)
                /\ \A s \in Before(b, t) : s <= Latest(Before(b, t))
<1>1. Len(rows) \in Nat
  BY DEF RowsConstrained
<1>2. /\ Before(b, t) \in SUBSET Nat
      /\ \A s \in Before(b, t) : s \in Times /\ 0 < s /\ s < t /\ s <= t /\ rows[s].addr = b
  BY <1>1 DEF Before, Times
<1>3. Before(b, t) # {} =>
                /\ Latest(Before(b, t)) \in Before(b, t)
                /\ \A s \in Before(b, t) : s <= Latest(Before(b, t))
  BY <1>2, LatestElement
<1> QED BY <1>2, <1>3

\* The heart of the argument: take the least receiver that skips an access.
\* The access after the one it receives has received that one before.
LEMMA ReceiversPrecede ==
    ASSUME RowsConstrained, boundary.accepted, NEW b \in AnyBlock
    PROVE  \A t \in Receivers(b) : Precedes(b, t)
<1> DEFINE Bad == {t \in Receivers(b) : ~Precedes(b, t)}
<1> SUFFICES ASSUME Bad # {} PROVE FALSE
  OBVIOUS
<1>1. Bad \in SUBSET Nat
  BY ReceiverTypes
<1>2. PICK t \in Bad : \A x \in Bad : t <= x
  BY <1>1, LeastElement
<1>3. t \in Receivers(b) /\ t \in Nat /\ ~Precedes(b, t)
  BY <1>1, <1>2
<1> DEFINE s == Past(b, t).timestamp
<1>4. s \in Nat /\ s < t /\ (s \in Before(b, t) \/ s = 0)
  BY <1>3, ReceiverTypes, PastWasSent
<1> DEFINE later == {x \in Before(b, t) : s < x}
<1>5. later \in SUBSET Nat /\ later # {}
  <2>1. Before(b, t) # {}
    BY <1>3, <1>4 DEF Precedes
  <2>2. s # Latest(Before(b, t))
    BY <1>3, <2>1 DEF Precedes
  <2> DEFINE l == Latest(Before(b, t))
  <2> HIDE DEF l
  <2>3. l \in Before(b, t) /\ l \in Nat /\ 0 < l /\ \A x \in Before(b, t) : x <= l
    BY <1>3, <2>1, BeforeTimes DEF l
  <2>4. s < l
    BY <1>4, <2>2, <2>3 DEF l
  <2> QED BY <1>3, <2>3, <2>4, BeforeTimes
<1>6. PICK n \in later : \A x \in later : n <= x
  BY <1>5, LeastElement
<1> HIDE DEF s
<1>7. n \in Nat /\ n \in Times /\ rows[n].addr = b /\ s < n /\ n < t /\ n \in Receivers(b)
  BY <1>3, <1>6, BeforeTimes DEF Receivers
<1>8. Precedes(b, n)
  BY <1>1, <1>2, <1>3, <1>7
<1>9. \A x \in Before(b, n) : x \in Nat /\ x <= s
  <2> SUFFICES ASSUME NEW x \in Before(b, n), x > s PROVE FALSE
    BY <1>4, <1>7, BeforeTimes
  <2>1. x \in Times /\ rows[x].addr = b /\ x \in Nat /\ x < n
    BY <1>7, BeforeTimes
  <2>2. x \in Before(b, t)
    BY <1>3, <1>7, <2>1 DEF Before
  <2>3. x \in later
    BY <2>2
  <2> QED BY <1>6, <1>7, <2>1, <2>3
<1>10. Past(b, n).timestamp = s
  <2>1. CASE Before(b, n) = {}
    <3>1. s \notin Before(b, t)
      BY <1>7, <2>1 DEF Before
    <3> QED BY <1>4, <1>8, <2>1, <3>1 DEF Precedes
  <2>2. CASE Before(b, n) # {}
    <3> DEFINE l == Latest(Before(b, n))
    <3>1. l \in Before(b, n) /\ l <= s /\ 0 < l /\ l \in Nat /\ \A x \in Before(b, n) : x <= l
      BY <1>7, <1>9, <2>2, BeforeTimes
    <3> HIDE DEF l
    <3>2. s # 0
      BY <1>4, <3>1
    <3>3. s \in Before(b, n)
      BY <1>4, <1>7, <3>2 DEF Before
    <3>4. l = s
      BY <1>4, <3>1, <3>3
    <3> QED BY <1>8, <2>2, <3>4 DEF Precedes, l
  <2> QED BY <2>1, <2>2
<1> QED BY <1>3, <1>7, <1>10, PastTimesDiffer DEF s

\* A block that is accessed belongs to a chunk with boundary rows: its first
\* access receives time zero.
LEMMA AccessedIsTouched ==
    ASSUME RowsConstrained, boundary.accepted, NEW t \in Times
    PROVE  rows[t].addr \in BlocksOfLeaves(boundary.touched)
<1> DEFINE b == rows[t].addr
           A == {s \in Times : rows[s].addr = b}
<1>1. b \in AnyBlock
  BY RowTypes
<1>2. A \in SUBSET Nat /\ A # {}
  BY DEF Times
<1>3. PICK f \in A : \A x \in A : f <= x
  BY <1>2, LeastElement
<1>4. f \in Receivers(b) /\ f \in Nat
  BY <1>2, <1>3 DEF Receivers
<1>5. Before(b, f) = {}
  BY <1>2, <1>3 DEF Before
<1>6. Past(b, f).timestamp \notin Before(b, f)
  BY <1>5
<1> HIDE DEF b
<1> QED BY <1>1, <1>4, <1>6, PastWasSent DEF b

\* A receiver gets what memory holds.
LEMMA ReceivesMemory ==
    ASSUME RowsConstrained, boundary.accepted, NEW b \in AnyBlock, NEW t \in Receivers(b)
    PROVE  Past(b, t).data = Holds(b, t)
<1> DEFINE s == Past(b, t).timestamp
<1>1. \/ s \in Before(b, t) /\ Past(b, t).data = rows[s].data
      \/ /\ s = 0 /\ Past(b, t).data = boundary.init[b].data
  BY PastWasSent
<1>2. s = IF Before(b, t) = {} THEN 0 ELSE Latest(Before(b, t))
  BY ReceiversPrecede DEF Precedes
<1>3. t \in Nat
  BY ReceiverTypes
<1> HIDE DEF s
<1>4. CASE Before(b, t) = {}
  BY <1>1, <1>2, <1>4 DEF Holds
<1>5. CASE Before(b, t) # {}
  <2>1. s \in Before(b, t) /\ 0 < s
    BY <1>2, <1>3, <1>5, BeforeTimes
  <2> QED BY <1>1, <1>2, <1>5, <2>1 DEF Holds
<1> QED BY <1>4, <1>5

\* Constrained rows with balanced boundary rows are the rows of a memory.
LEMMA ConstrainedRowsAreMemory == RowsConstrained => AcceptedRowsAreMemory
<1> SUFFICES ASSUME RowsConstrained, boundary.accepted
             PROVE  /\ \A t \in Times :
                          /\ rows[t].addr \in BlocksOfLeaves(boundary.touched)
                          /\ rows[t].prev_data = Holds(rows[t].addr, t)
                    /\ \A b \in BlocksOfLeaves(boundary.touched) :
                          boundary.final[b].data = Holds(b, MaxAccesses + 1)
  BY DEF AcceptedRowsAreMemory
<1>1. ASSUME NEW t \in Times
      PROVE  rows[t].prev_data = Holds(rows[t].addr, t)
  <2> DEFINE b == rows[t].addr
  <2>1. b \in AnyBlock /\ t # End
    BY RowTypes DEF End
  <2>2. t \in Receivers(b)
    BY DEF Receivers
  <2>3. Past(b, t).data = rows[t].prev_data
    BY <2>1 DEF Past
  <2> HIDE DEF b
  <2>4. Past(b, t).data = Holds(b, t)
    BY <2>1, <2>2, ReceivesMemory
  <2> QED BY <2>3, <2>4 DEF b
<1>2. ASSUME NEW b \in BlocksOfLeaves(boundary.touched)
      PROVE  boundary.final[b].data = Holds(b, MaxAccesses + 1)
  <2>1. b \in AnyBlock
    BY DEF RowsConstrained, AnyBlock, BlocksOfLeaves
  <2>2. End \in Receivers(b)
    BY DEF Receivers
  <2>3. Past(b, End).data = Holds(b, End)
    BY <2>1, <2>2, ReceivesMemory
  <2> QED BY <2>3 DEF Past, End
<1> QED BY <1>1, <1>2, AccessedIsTouched

-----------------------------------------------------------------------------
(* The specification.                                                      *)

\* A row is added only as the constraints allow.
LEMMA AddRowConstrained ==
    ASSUME RowsConstrained, NEW r \in AccessRow, AddRow(r)
    PROVE  RowsConstrained'
<1>1. /\ rows \in Seq(AccessRow) /\ Len(rows) < MaxAccesses /\ MaxAccesses \in Nat
      /\ rows' = Append(rows, r) /\ TimestampLt(r, Len(rows) + 1)
      /\ boundary' = boundary /\ ~boundary.accepted
  BY AccessesAssumption DEF AddRow, RowsConstrained
<1>2. /\ rows' \in Seq(AccessRow) /\ Len(rows') = Len(rows) + 1
      /\ rows'[Len(rows) + 1] = r
      /\ \A t \in 1..Len(rows) : rows'[t] = rows[t]
  BY <1>1
<1>3. ASSUME NEW t \in Times' PROVE TimestampLt(rows'[t], t)
  <2>1. Len(rows) \in Nat /\ t \in 1..Len(rows) + 1
    BY <1>1, <1>2 DEF Times
  <2>2. CASE t = Len(rows) + 1
    BY <1>1, <1>2, <2>2
  <2>3. CASE t # Len(rows) + 1
    BY <1>2, <2>1, <2>3 DEF RowsConstrained, Times
  <2> QED BY <2>2, <2>3
<1>4. Len(rows') <= MaxAccesses /\ ~boundary'.accepted
  BY <1>1, <1>2
<1> QED BY <1>2, <1>3, <1>4 DEF RowsConstrained, TimestampLt

\* The accepting step checks the boundary rows.
LEMMA VerifyConstrained ==
    ASSUME RowsConstrained, NEW touched \in SUBSET LeafChunks,
           NEW init \in [BlocksOfLeaves(touched) -> BlockState],
           NEW final \in [BlocksOfLeaves(touched) -> BlockState],
           VerifyBoundary(touched, init, final)
    PROVE  RowsConstrained'
<1>1. /\ rows' = rows
      /\ boundary' = [touched |-> touched, init |-> init, final |-> final, accepted |-> TRUE]
      /\ \A b \in BlocksOfLeaves(touched) : InitialTime(init[b].timestamp)
      /\ Balanced([touched |-> touched, init |-> init, final |-> final, accepted |-> TRUE])
  BY DEF VerifyBoundary
<1> DEFINE B == [touched |-> touched, init |-> init, final |-> final, accepted |-> TRUE]
<1>2. Balanced(boundary)'
  <2>1. boundary' = B /\ rows' = rows /\ Times' = Times /\ Balanced(B)
    BY <1>1 DEF Times
  <2> HIDE DEF B
  <2>2. ASSUME NEW m \in RowMessage
        PROVE  Sent(m, boundary)' = Sent(m, B) /\ Received(m, boundary)' = Received(m, B)
    BY <2>1 DEF Sent, Received, BoundaryRow
  <2> QED BY <2>1, <2>2 DEF Balanced
<1>3. /\ boundary'.touched \in SUBSET LeafChunks
      /\ boundary'.init \in [BlocksOfLeaves(boundary'.touched) -> BlockState]
      /\ boundary'.final \in [BlocksOfLeaves(boundary'.touched) -> BlockState]
      /\ \A b \in BlocksOfLeaves(boundary'.touched) : InitialTime(boundary'.init[b].timestamp)
  BY <1>1
<1>4. rows' \in Seq(AccessRow) /\ Len(rows') <= MaxAccesses /\ \A t \in Times' : TimestampLt(rows'[t], t)
  BY <1>1 DEF RowsConstrained, Times
<1> QED BY <1>2, <1>3, <1>4 DEF RowsConstrained, InitialTime, TimestampLt

\* In every accepted segment, however the rows were made up, each access sees
\* the last write before it and the final rows hold the final memory.
THEOREM MemoryArgumentSound == ArgumentSpec => []AcceptedRowsAreMemory
<1>1. ArgumentInit => RowsConstrained
  BY AccessesAssumption DEF ArgumentInit, RowsConstrained, NoBoundary, Times
<1>2. RowsConstrained /\ [ArgumentNext]_argumentVars => RowsConstrained'
  <2> SUFFICES ASSUME RowsConstrained, [ArgumentNext]_argumentVars PROVE RowsConstrained'
    OBVIOUS
  <2>1. CASE \E r \in AccessRow : ReadRow(r) \/ WriteRow(r)
    BY <2>1, AddRowConstrained DEF ReadRow, WriteRow
  <2>2. CASE \E touched \in SUBSET LeafChunks :
               \E init, final \in [BlocksOfLeaves(touched) -> BlockState] :
                  VerifyBoundary(touched, init, final)
    BY <2>2, VerifyConstrained
  <2>3. CASE UNCHANGED argumentVars
    BY <2>3 DEF argumentVars, RowsConstrained, Times, TimestampLt, InitialTime,
                Balanced, Sent, Received, BoundaryRow
  <2> QED BY <2>1, <2>2, <2>3 DEF ArgumentNext, ArgumentDone
<1>3. RowsConstrained => AcceptedRowsAreMemory
  BY ConstrainedRowsAreMemory
<1> QED BY <1>1, <1>2, <1>3, PTL DEF ArgumentSpec
=============================================================================
