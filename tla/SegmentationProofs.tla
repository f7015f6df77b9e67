------------------------- MODULE SegmentationProofs -------------------------
(***************************************************************************)
(* TLAPS proofs about Segmentation, for every set of chips, pages and      *)
(* instructions, every check window and all limits.                        *)
(***************************************************************************)
EXTENDS Segmentation, FiniteSetTheorems, TLAPS

-----------------------------------------------------------------------------
(* Facts about the operators the context is built from.                    *)

\* A page adds a natural number of rows to each memory chip.
LEMMA PageRowsNat == \A c \in MemChips : PageRows(c) \in Nat
  BY PagesAssumption DEF MemChips, PageRows, NodesPerPage

\* Multiplication is monotone.
LEMMA TimesMonotone ==
  ASSUME NEW k \in Nat, NEW a \in Nat, NEW b \in Nat, a <= b
  PROVE  k * a <= k * b
  <1>1. k * (b - a) \in Nat
    OBVIOUS
  <1>2. k * b = k * a + k * (b - a)
    OBVIOUS
  <1> QED
    BY <1>1, <1>2

\* Naturals are closed under multiplication.
LEMMA TimesNat ==
  ASSUME NEW k \in Nat, NEW a \in Nat
  PROVE  k * a \in Nat
  OBVIOUS

\* lazy_update_boundary_heights touches the memory chips only.
LEMMA ApplyHeights ==
  ASSUME NEW h \in HeightsType, NEW n \in Nat
  PROVE  /\ ApplyHeightUpdates(h, n) \in HeightsType
         /\ \A c \in MemChips : ApplyHeightUpdates(h, n)[c] = h[c] + PageRows(c) * n
         /\ \A c \in Chips \ MemChips : ApplyHeightUpdates(h, n)[c] = h[c]
  <1>1. \A c \in MemChips : PageRows(c) * n \in Nat
    BY PageRowsNat, TimesNat
  <1> QED
    BY <1>1 DEF ApplyHeightUpdates, HeightsType, Chips, MeteredChips

\* The three kinds of chips are disjoint.
LEMMA ChipKinds ==
  /\ \A c \in RowChips : c \in Chips /\ c \notin MemChips /\ c \notin ConstChips
  /\ \A c \in MemChips : c \in Chips /\ c \notin RowChips /\ c \notin ConstChips
  /\ \A c \in ConstChips : c \in Chips /\ c \notin MemChips /\ c \notin RowChips
  BY ChipsAssumption DEF Chips, MeteredChips

\* Sets of pages are finite.
LEMMA PageSets ==
  ASSUME NEW A \in SUBSET Pages
  PROVE  IsFiniteSet(A) /\ Cardinality(A) \in Nat
  BY PagesAssumption, FS_Subset, FS_CardinalityType

\* A subset of a set of pages has no more pages.
LEMMA PageSetsMonotone ==
  ASSUME NEW A \in SUBSET Pages, NEW B \in SUBSET A
  PROVE  Cardinality(B) <= Cardinality(A)
  BY PageSets, FS_Subset

\* Inserting pages in the bit set counts those that are new.
LEMMA PageSetsInsert ==
  ASSUME NEW A \in SUBSET Pages, NEW B \in SUBSET Pages
  PROVE  Cardinality(A \cup B) = Cardinality(A) + Cardinality(B \ A)
  <1>1. IsFiniteSet(A) /\ IsFiniteSet(B \ A)
    BY PageSets
  <1>2. A \cap (B \ A) = {} /\ A \cup B = A \cup (B \ A)
    OBVIOUS
  <1>3. Cardinality(A \cup (B \ A)) = Cardinality(A) + Cardinality(B \ A) - Cardinality(A \cap (B \ A))
    BY <1>1, FS_Union
  <1>4. Cardinality({}) = 0
    BY FS_EmptySet
  <1>5. Cardinality(A) \in Nat /\ Cardinality(B \ A) \in Nat
    BY PageSets
  <1>6. Cardinality(A \cap (B \ A)) = 0
    BY <1>2, <1>4, Zenon
  <1>7. Cardinality(A \cup B) = Cardinality(A \cup (B \ A))
    BY <1>2, Zenon
  <1> QED
    BY <1>3, <1>5, <1>6, <1>7

\* Extending the history does not change what it says of earlier instructions.
LEMMA PagesInAppend ==
  ASSUME NEW t \in Seq(SUBSET Pages), NEW x \in SUBSET Pages,
         NEW a \in Nat, NEW b \in Nat, b <= Len(t)
  PROVE  /\ PagesIn(Append(t, x), a, b) = PagesIn(t, a, b)
         /\ PagesIn(t, a, b) \in SUBSET Pages
  <1>1. \A n \in (a + 1)..b : n \in 1..Len(t) /\ Append(t, x)[n] = t[n]
    OBVIOUS
  <1>2. \A n \in (a + 1)..b : t[n] \in SUBSET Pages
    BY <1>1
  <1> QED
    BY <1>1, <1>2 DEF PagesIn

\* One more instruction adds its pages.
LEMMA PagesInExtend ==
  ASSUME NEW t \in Seq(SUBSET Pages), NEW x \in SUBSET Pages,
         NEW a \in Nat, a <= Len(t)
  PROVE  PagesIn(Append(t, x), a, Len(t) + 1) = PagesIn(t, a, Len(t)) \cup x
  <1>1. \A n \in (a + 1)..Len(t) : Append(t, x)[n] = t[n]
    OBVIOUS
  <1>2. Append(t, x)[Len(t) + 1] = x
    OBVIOUS
  <1>3. (a + 1)..(Len(t) + 1) = ((a + 1)..Len(t)) \cup {Len(t) + 1}
    OBVIOUS
  <1> QED
    BY <1>1, <1>2, <1>3 DEF PagesIn

\* No instructions touch no pages.
LEMMA PagesInEmpty ==
  ASSUME NEW t, NEW a \in Nat
  PROVE  PagesIn(t, a, a) = {}
  BY DEF PagesIn

\* Rows of a prefix of the history are counted by a natural number.
LEMMA RowsUptoType ==
  ASSUME NEW r \in Seq([RowChips -> Nat]), NEW n \in Nat, n <= Len(r), NEW c \in RowChips
  PROVE  RowsUpto(r, n, c) \in Nat
  <1>1. n # 0 => n \in 1..Len(r) /\ r[n] \in [RowChips -> Nat]
    OBVIOUS
  <1> QED
    BY <1>1 DEF RowsUpto

\* Extending the history keeps the rows of every earlier prefix.
LEMMA RowsUptoAppend ==
  ASSUME NEW r \in Seq([RowChips -> Nat]), NEW x \in [RowChips -> Nat],
         NEW n \in Nat, n <= Len(r), NEW c \in RowChips
  PROVE  /\ RowsUpto(Append(r, x), n, c) = RowsUpto(r, n, c)
         /\ RowsUpto(Append(r, x), Len(r) + 1, c) = x[c]
  <1>1. Len(r) \in Nat /\ Append(r, x)[Len(r) + 1] = x
    OBVIOUS
  <1>2. n # 0 => n \in 1..Len(r) /\ r[n] \in [RowChips -> Nat] /\ Append(r, x)[n] = r[n]
    OBVIOUS
  <1> QED
    BY <1>1, <1>2 DEF RowsUpto

\* The segment being metered starts where the last one ends.
LEMMA StartType ==
  ASSUME TypeOK
  PROVE  InstretStart \in Nat
  <1>1. segments \in Seq(SegmentType)
    BY DEF TypeOK
  <1>2. segments # <<>> => segments[Len(segments)] \in SegmentType
    BY <1>1
  <1> QED
    BY <1>2 DEF InstretStart, SegmentEnd, SegmentType

\* A segment that lies in the past stays covered as the history grows.
LEMMA CoverKept ==
  ASSUME NEW t \in Seq(SUBSET Pages), NEW x \in SUBSET Pages,
         NEW r \in Seq([RowChips -> Nat]), NEW y \in [RowChips -> Nat],
         Len(r) = Len(t),
         NEW s \in SegmentType, SegmentEnd(s) <= Len(t), CoversSegment(r, t, s)
  PROVE  CoversSegment(Append(r, y), Append(t, x), s)
  <1> DEFINE start == s.instret_start
             end == SegmentEnd(s)
  <1>1. start \in Nat /\ end \in Nat /\ start <= end /\ end <= Len(t)
    BY DEF SegmentType, SegmentEnd
  <1>2. PagesIn(Append(t, x), start, end) = PagesIn(t, start, end)
    BY <1>1, PagesInAppend
  <1>3. \A c \in RowChips : /\ RowsUpto(Append(r, y), start, c) = RowsUpto(r, start, c)
                            /\ RowsUpto(Append(r, y), end, c) = RowsUpto(r, end, c)
    <2>1. start <= Len(r) /\ end <= Len(r)
      BY <1>1
    <2> QED
      BY <1>1, <2>1, RowsUptoAppend
  <1> HIDE DEF start, end
  <1> QED
    BY <1>2, <1>3 DEF CoversSegment, start, end

-----------------------------------------------------------------------------
(* The initial state.                                                      *)

\* MeteredCtx::new establishes the invariant: the register pages are counted
\* before the first instruction.
LEMMA InitIInv == Init => IInv
  <1> SUFFICES ASSUME Init
               PROVE  IInv
    OBVIOUS
  <1> DEFINE h0 == [c \in Chips |-> IF c \in ConstChips THEN ConstHeight[c] ELSE 0]
  <1>1. h0 \in HeightsType
    BY ChipsAssumption DEF HeightsType
  <1>2. Cardinality(RegPages) \in Nat
    BY PageSets, PagesAssumption
  <1>3. trace_heights = ApplyHeightUpdates(h0, Cardinality(RegPages))
    BY DEF Init
  <1> HIDE DEF h0
  <1>4. /\ trace_heights \in HeightsType
        /\ \A c \in MemChips : trace_heights[c] = h0[c] + PageRows(c) * Cardinality(RegPages)
        /\ \A c \in Chips \ MemChips : trace_heights[c] = h0[c]
    BY <1>1, <1>2, <1>3, ApplyHeights
  <1>5. /\ \A c \in MemChips : h0[c] = 0
        /\ \A c \in RowChips : h0[c] = 0
        /\ \A c \in ConstChips : h0[c] = ConstHeight[c]
    BY ChipKinds DEF h0
  <1>6. TypeOK
    BY <1>2, <1>4, PagesAssumption, BoundsAssumption DEF Init, TypeOK, HeightsType
  <1>7. InstretStart = 0 /\ Len(touched) = 0 /\ Len(rows_upto) = 0 /\ Len(segments) = 0
    BY DEF Init, InstretStart
  <1>8. Countdown /\ SegmentsTile
    BY <1>7, BoundsAssumption DEF Init, Countdown, SegmentsTile
  <1>9. HeightsCoverExecution /\ OversizedIsOneWindow /\ CheckpointPlace /\ NoUnderflow
    BY <1>7 DEF Init, HeightsCoverExecution, OversizedIsOneWindow, CheckpointPlace, NoUnderflow
  <1>10. RowsCounted
    BY <1>4, <1>5, <1>7, ChipKinds DEF Init, RowsCounted, RowsUpto
  <1>11. PagesCounted
    <2>1. PagesIn(touched, 0, 0) = {}
      BY PagesInEmpty
    <2>2. \A c \in MemChips : trace_heights[c] = PageRows(c) * (Cardinality(RegPages) - 0)
      BY <1>2, <1>4, <1>5, PageRowsNat, TimesNat
    <2> QED
      BY <1>2, <1>7, <2>1, <2>2 DEF Init, PagesCounted
  <1>12. ConstantsKept
    BY <1>4, <1>5, <1>7, ChipKinds DEF Init, ConstantsKept
  <1> QED
    BY <1>6, <1>8, <1>9, <1>10, <1>11, <1>12 DEF IInv

-----------------------------------------------------------------------------
(* The actions.                                                            *)

\* Executing an instruction keeps the counts in step with the history.
LEMMA ExecuteIInv ==
  ASSUME IInv, NEW i \in Insns, Execute(i)
  PROVE  IInv'
  <1> DEFINE pages == Range(i.ops)
             rows == [c \in RowChips |-> RowsUpto(rows_upto, Len(rows_upto), c) + i.rows[c]]
  <1>1. /\ i.rows \in [RowChips -> Nat]
        /\ i.ops \in Seq(Pages)
        /\ pages \in SUBSET Pages
        /\ Len(i.ops) \in Nat
    BY InsnsAssumption DEF Range
  <1>2. /\ TypeOK
        /\ Len(rows_upto) = Len(touched)
        /\ Len(touched) \in Nat
        /\ status = "running"
        /\ status' = "running"
    BY DEF IInv, Countdown, TypeOK, Execute
  <1>a. rows_upto \in Seq([RowChips -> Nat]) /\ touched \in Seq(SUBSET Pages)
    BY <1>2 DEF TypeOK
  <1>3. rows \in [RowChips -> Nat]
    <2>1. \A c \in RowChips : RowsUpto(rows_upto, Len(rows_upto), c) \in Nat
      BY <1>a, <1>2, RowsUptoType
    <2> QED
      BY <1>1, <2>1
  <1>4. /\ touched' = Append(touched, pages)
        /\ rows_upto' = Append(rows_upto, rows)
        /\ Len(touched') = Len(touched) + 1
        /\ Len(rows_upto') = Len(rows_upto) + 1
    BY <1>1, <1>2, <1>3 DEF Execute, TypeOK
  <1>5. /\ InstretStart' = InstretStart
        /\ InstretStart \in Nat
        /\ InstretStart <= checkpoint_instret
        /\ checkpoint_instret = instret
        /\ instret <= Len(touched)
        /\ checkpoint_instret \in Nat
        /\ InstretStart <= Len(touched)
        /\ checkpoint_instret <= Len(touched)
    BY <1>2, StartType DEF IInv, Countdown, Open, Execute, InstretStart, TypeOK
  <1>6. /\ Cardinality(page_indices) \in Nat
        /\ Cardinality(pages \ page_indices) \in Nat
        /\ Cardinality(page_indices \cup pages) =
             Cardinality(page_indices) + Cardinality(pages \ page_indices)
    BY <1>1, <1>2, PageSets, PageSetsInsert DEF TypeOK
  <1> HIDE DEF pages, rows
  <1>7. TypeOK'
    <2>1. /\ page_indices' \in SUBSET Pages
          /\ since_checkpoint' \in SUBSET Pages
          /\ addr_space_access_count' \in Nat
      <3>1. /\ page_indices \in SUBSET Pages
            /\ since_checkpoint \in SUBSET Pages
            /\ addr_space_access_count \in Nat
        BY <1>2 DEF TypeOK
      <3>2. /\ page_indices' = page_indices \cup pages
            /\ since_checkpoint' = since_checkpoint \cup pages
            /\ addr_space_access_count' =
                 addr_space_access_count + Cardinality(pages \ page_indices)
        BY DEF Execute, pages
      <3> QED
        BY <1>1, <1>6, <3>1, <3>2
    <2>2. trace_heights' \in HeightsType
      <3>1. trace_heights \in [Chips -> Nat] /\ i.rows \in [RowChips -> Nat]
        BY <1>1, <1>2 DEF TypeOK, HeightsType
      <3>2. trace_heights' =
              [c \in Chips |-> IF c \in RowChips THEN trace_heights[c] + i.rows[c]
                                                 ELSE trace_heights[c]]
        BY DEF Execute
      <3> QED
        BY <3>1, <3>2 DEF HeightsType
    <2>3. touched' \in Seq(SUBSET Pages) /\ rows_upto' \in Seq([RowChips -> Nat])
      BY <1>1, <1>2, <1>3, <1>4 DEF TypeOK
    <2>4. /\ instrets_until_check' \in 0..SEGMENT_CHECK_INSNS
          /\ since_checkpoint_len' \in Nat
      BY <1>1, <1>2, BoundsAssumption DEF TypeOK, Execute
    <2>5. UNCHANGED <<segments, instret, checkpoint_instret,
                      checkpoint_trace_heights, suspend_on_segment, status>>
      BY DEF Execute
    <2>6. roomy' \in BOOLEAN
      BY DEF Execute
    <2> QED
      BY <1>2, <2>1, <2>2, <2>3, <2>4, <2>5, <2>6 DEF TypeOK
  <1>8. Countdown'
    <2>1. \A k \in 1..Len(segments) : SegmentEnd(segments[k]) <= Len(touched) + 1
      <3>1. \A k \in 1..Len(segments) : segments[k] \in SegmentType
        BY <1>2 DEF TypeOK
      <3>2. \A k \in 1..Len(segments) : SegmentEnd(segments[k]) \in Nat
        BY <3>1 DEF SegmentType, SegmentEnd
      <3> QED
        BY <1>2, <3>2 DEF IInv, Countdown
    <2>2. /\ segments' = segments
          /\ instret' = instret
          /\ instrets_until_check' = instrets_until_check - 1
          /\ checkpoint_instret' = checkpoint_instret
      BY DEF Execute
    <2>3. /\ instrets_until_check \in Nat
          /\ instret \in Nat
          /\ SEGMENT_CHECK_INSNS \in Nat
          /\ Len(touched) = instret + SEGMENT_CHECK_INSNS - instrets_until_check
      BY <1>2, BoundsAssumption DEF TypeOK, IInv, Countdown
    <2>4. \A k \in 1..Len(segments') : SegmentEnd(segments'[k]) <= Len(touched')
      BY <1>4, <2>1, <2>2
    <2>5. /\ Len(rows_upto') = Len(touched')
          /\ Len(touched') = instret' + SEGMENT_CHECK_INSNS - instrets_until_check'
          /\ instret' <= Len(touched')
          /\ checkpoint_instret' = instret'
          /\ InstretStart' <= checkpoint_instret'
      BY <1>2, <1>4, <1>5, <2>2, <2>3
    <2> QED
      BY <1>2, <2>4, <2>5 DEF Countdown, Open, SegmentEnd
  <1>9. SegmentsTile'
    BY <1>2, <1>4, <1>5 DEF IInv, SegmentsTile, Execute, SegmentEnd
  <1>10. HeightsCoverExecution'
    <2>1. ASSUME NEW k \in 1..Len(segments)
          PROVE  CoversSegment(rows_upto', touched', segments[k])
      <3>1. /\ segments[k] \in SegmentType
            /\ SegmentEnd(segments[k]) <= Len(touched)
            /\ CoversSegment(rows_upto, touched, segments[k])
        BY <1>2 DEF IInv, TypeOK, Countdown, HeightsCoverExecution
      <3> QED
        BY <1>a, <1>1, <1>2, <1>3, <1>4, <3>1, CoverKept
    <2>2. segments' = segments
      BY DEF Execute
    <2> QED
      BY <2>1, <2>2 DEF HeightsCoverExecution
  <1>11. RowsCounted'
    <2> SUFFICES ASSUME NEW c \in RowChips
                 PROVE  /\ trace_heights'[c] = RowsUpto(rows_upto', Len(touched'), c)
                                               - RowsUpto(rows_upto', InstretStart', c)
                        /\ checkpoint_instret' > InstretStart' =>
                             /\ checkpoint_trace_heights'[c] =
                                  RowsUpto(rows_upto', checkpoint_instret', c)
                                  - RowsUpto(rows_upto', InstretStart', c)
                             /\ checkpoint_trace_heights'[c] <= trace_heights'[c]
      BY DEF RowsCounted
    <2>a. InstretStart <= Len(rows_upto) /\ checkpoint_instret <= Len(rows_upto)
      BY <1>2, <1>5
    <2>1. /\ RowsUpto(rows_upto', InstretStart, c) = RowsUpto(rows_upto, InstretStart, c)
          /\ RowsUpto(rows_upto', checkpoint_instret, c) = RowsUpto(rows_upto, checkpoint_instret, c)
          /\ RowsUpto(rows_upto', Len(touched'), c) = rows[c]
      <3>1. Len(touched') = Len(rows_upto) + 1 /\ Len(rows_upto) \in Nat
        BY <1>2, <1>4
      <3>2. \A n \in Nat : n <= Len(rows_upto) =>
              /\ RowsUpto(Append(rows_upto, rows), n, c) = RowsUpto(rows_upto, n, c)
              /\ RowsUpto(Append(rows_upto, rows), Len(rows_upto) + 1, c) = rows[c]
        BY <1>a, <1>3, RowsUptoAppend
      <3> QED
        BY <1>4, <1>5, <2>a, <3>1, <3>2
    <2>b. /\ RowsUpto(rows_upto, InstretStart, c) \in Nat
          /\ RowsUpto(rows_upto, Len(touched), c) \in Nat
      BY <1>a, <1>2, <1>5, <2>a, RowsUptoType
    <2>2. rows[c] = RowsUpto(rows_upto, Len(touched), c) + i.rows[c] /\ i.rows[c] \in Nat
      BY <1>1, <1>2 DEF rows
    <2>3. trace_heights'[c] = trace_heights[c] + i.rows[c]
      BY ChipKinds DEF Execute
    <2>4. trace_heights[c] \in Nat /\ checkpoint_trace_heights[c] \in Nat
      BY <1>2, ChipKinds DEF TypeOK, HeightsType
    <2>5. checkpoint_instret' = checkpoint_instret /\ checkpoint_trace_heights' = checkpoint_trace_heights
      BY DEF Execute
    <2>6. /\ trace_heights[c] = RowsUpto(rows_upto, Len(touched), c) - RowsUpto(rows_upto, InstretStart, c)
          /\ checkpoint_instret > InstretStart =>
               /\ checkpoint_trace_heights[c] =
                    RowsUpto(rows_upto, checkpoint_instret, c) - RowsUpto(rows_upto, InstretStart, c)
               /\ checkpoint_trace_heights[c] <= trace_heights[c]
      BY <1>2 DEF IInv, RowsCounted, Open
    <2> QED
      BY <1>5, <2>1, <2>b, <2>2, <2>3, <2>4, <2>5, <2>6
  <1>12. PagesCounted'
    <2>1. /\ PagesIn(touched', InstretStart, Len(touched')) = PagesIn(touched, InstretStart, Len(touched)) \cup pages
          /\ PagesIn(touched', checkpoint_instret, Len(touched')) = PagesIn(touched, checkpoint_instret, Len(touched)) \cup pages
      BY <1>a, <1>1, <1>4, <1>5, PagesInExtend
    <2>2. PagesIn(touched', InstretStart, checkpoint_instret) = PagesIn(touched, InstretStart, checkpoint_instret)
      BY <1>a, <1>1, <1>4, <1>5, PagesInAppend
    <2>3. /\ page_indices' = page_indices \cup pages
          /\ since_checkpoint' = since_checkpoint \cup pages
          /\ addr_space_access_count' = addr_space_access_count + Cardinality(pages \ page_indices)
          /\ checkpoint_instret' = checkpoint_instret
          /\ checkpoint_trace_heights' = checkpoint_trace_heights
      BY DEF Execute, pages
    <2>4. \A c \in MemChips : trace_heights'[c] = trace_heights[c]
      BY ChipKinds DEF Execute
    <2>5. Cardinality(page_indices') - addr_space_access_count' = Cardinality(page_indices) - addr_space_access_count
      BY <1>2, <1>6, <2>3 DEF TypeOK
    <2>6. addr_space_access_count' <= Cardinality(page_indices')
      BY <1>2, <1>6, <2>3 DEF TypeOK, IInv, PagesCounted, Open
    <2>7. /\ RegPages \cup PagesIn(touched', InstretStart', Len(touched')) \subseteq page_indices'
          /\ PagesIn(touched', checkpoint_instret', Len(touched')) \subseteq since_checkpoint'
      BY <1>2, <1>5, <2>1, <2>3 DEF IInv, PagesCounted, Open
    <2>8. \A c \in MemChips :
             /\ trace_heights'[c] =
                  PageRows(c) * (Cardinality(page_indices') - addr_space_access_count')
             /\ checkpoint_instret' > InstretStart' =>
                  /\ checkpoint_trace_heights'[c] >=
                       PageRows(c) * Cardinality(
                           RegPages \cup PagesIn(touched', InstretStart', checkpoint_instret'))
                  /\ checkpoint_trace_heights'[c] <= trace_heights'[c]
      BY <1>2, <1>5, <2>2, <2>3, <2>4, <2>5 DEF IInv, PagesCounted, Open
    <2> QED
      BY <2>6, <2>7, <2>8 DEF PagesCounted
  <1>13. ConstantsKept'
    BY <1>2, <1>5, ChipKinds DEF IInv, ConstantsKept, Open, Execute
  <1>14. CheckpointPlace'
    <2>1. checkpoint_instret' = checkpoint_instret /\ checkpoint_trace_heights' = checkpoint_trace_heights
      BY DEF Execute
    <2> QED
      BY <1>2, <1>5, <2>1 DEF IInv, CheckpointPlace, Open
  <1>15. OversizedIsOneWindow' /\ NoUnderflow'
    <2>1. segments' = segments
      BY DEF Execute
    <2> QED
      BY <1>2, <2>1 DEF IInv, OversizedIsOneWindow, NoUnderflow, IsFinal
  <1> QED
    BY <1>7, <1>8, <1>9, <1>10, <1>11, <1>12, <1>13, <1>14, <1>15 DEF IInv

\* The actions that change neither the counts nor the history.
LEMMA StatusIInv ==
  ASSUME IInv, UNCHANGED <<ctx, suspend_on_segment, history>>, roomy' \in BOOLEAN,
         Open, status # "failed",
         \/ status' = "capacity"
         \/ status' = "running" /\ status = "suspended"
  PROVE  IInv'
  <1>1. UNCHANGED <<trace_heights, page_indices, addr_space_access_count,
                    since_checkpoint, since_checkpoint_len, segments, instret,
                    instrets_until_check, checkpoint_instret,
                    checkpoint_trace_heights, suspend_on_segment, rows_upto, touched>>
    BY DEF ctx, history
  <1>2. TypeOK'
    BY <1>1 DEF IInv, TypeOK
  <1>3. InstretStart' = InstretStart
    BY <1>1 DEF InstretStart, SegmentEnd
  <1>4. Countdown'
    BY <1>1, <1>3 DEF IInv, Countdown, Open, SegmentEnd
  <1>5. SegmentsTile'
    BY <1>1, <1>3 DEF IInv, SegmentsTile, SegmentEnd
  <1>6. HeightsCoverExecution'
    BY <1>1 DEF IInv, HeightsCoverExecution, CoversSegment, SegmentEnd
  <1>7. RowsCounted' /\ PagesCounted' /\ ConstantsKept'
    BY <1>1, <1>3 DEF IInv, RowsCounted, PagesCounted, ConstantsKept, Open
  <1>8. CheckpointPlace' /\ OversizedIsOneWindow' /\ NoUnderflow'
    BY <1>1, <1>3 DEF IInv, CheckpointPlace, OversizedIsOneWindow, NoUnderflow, IsFinal, Open
  <1> QED
    BY <1>2, <1>4, <1>5, <1>6, <1>7, <1>8 DEF IInv

\* A failed instruction is counted down but adds nothing.
LEMMA FailIInv ==
  ASSUME IInv, Fail
  PROVE  IInv'
  <1>1. /\ UNCHANGED <<trace_heights, page_indices, addr_space_access_count,
                       since_checkpoint, since_checkpoint_len, segments, instret,
                       checkpoint_instret, checkpoint_trace_heights,
                       suspend_on_segment, rows_upto, touched, roomy>>
        /\ instrets_until_check' = instrets_until_check - 1
        /\ instrets_until_check > 0
        /\ status = "running"
        /\ status' = "failed"
    BY DEF Fail, history
  <1>2. TypeOK'
    <2>1. instrets_until_check' \in 0..SEGMENT_CHECK_INSNS
      BY <1>1, BoundsAssumption DEF IInv, TypeOK
    <2> QED
      BY <1>1, <2>1 DEF IInv, TypeOK
  <1>3. InstretStart' = InstretStart
    BY <1>1 DEF InstretStart, SegmentEnd
  <1>4. Countdown'
    BY <1>1, <1>3 DEF IInv, Countdown, Open, SegmentEnd
  <1>5. SegmentsTile'
    BY <1>1, <1>3 DEF IInv, SegmentsTile, SegmentEnd
  <1>6. HeightsCoverExecution'
    BY <1>1 DEF IInv, HeightsCoverExecution, CoversSegment, SegmentEnd
  <1>7. RowsCounted' /\ PagesCounted' /\ ConstantsKept'
    BY <1>1, <1>3 DEF IInv, RowsCounted, PagesCounted, ConstantsKept, Open
  <1>8. CheckpointPlace' /\ OversizedIsOneWindow' /\ NoUnderflow'
    BY <1>1, <1>3 DEF IInv, CheckpointPlace, OversizedIsOneWindow, NoUnderflow, IsFinal, Open
  <1> QED
    BY <1>2, <1>4, <1>5, <1>6, <1>7, <1>8 DEF IInv

\* The invariant depends on the variables only.
LEMMA StutterIInv ==
  ASSUME IInv, UNCHANGED vars
  PROVE  IInv'
  <1>1. UNCHANGED <<trace_heights, page_indices, addr_space_access_count,
                    since_checkpoint, since_checkpoint_len, segments, instret,
                    instrets_until_check, checkpoint_instret,
                    checkpoint_trace_heights, suspend_on_segment, status, rows_upto, touched, roomy>>
    BY DEF vars, ctx, history
  <1>2. TypeOK'
    BY <1>1 DEF IInv, TypeOK
  <1>3. InstretStart' = InstretStart
    BY <1>1 DEF InstretStart, SegmentEnd
  <1>4. Countdown'
    BY <1>1, <1>3 DEF IInv, Countdown, Open, SegmentEnd
  <1>5. SegmentsTile'
    BY <1>1, <1>3 DEF IInv, SegmentsTile, SegmentEnd
  <1>6. HeightsCoverExecution'
    BY <1>1 DEF IInv, HeightsCoverExecution, CoversSegment, SegmentEnd
  <1>7. RowsCounted' /\ PagesCounted' /\ ConstantsKept'
    BY <1>1, <1>3 DEF IInv, RowsCounted, PagesCounted, ConstantsKept, Open
  <1>8. CheckpointPlace' /\ OversizedIsOneWindow' /\ NoUnderflow'
    BY <1>1, <1>3 DEF IInv, CheckpointPlace, OversizedIsOneWindow, NoUnderflow, IsFinal, Open
  <1> QED
    BY <1>2, <1>4, <1>5, <1>6, <1>7, <1>8 DEF IInv

-----------------------------------------------------------------------------
(* Cutting a segment.                                                      *)

\* The heights after lazy_update_boundary_heights.
LEMMA Updated ==
  ASSUME IInv, Open
  PROVE  /\ UpdatedHeights \in HeightsType
         /\ \A c \in RowChips : UpdatedHeights[c] = trace_heights[c]
         /\ \A c \in MemChips : /\ UpdatedHeights[c] = PageRows(c) * Cardinality(page_indices)
                                /\ UpdatedHeights[c] >= trace_heights[c]
         /\ \A c \in ConstChips : UpdatedHeights[c] = ConstHeight[c]
  <1>1. trace_heights \in HeightsType /\ addr_space_access_count \in Nat /\ page_indices \in SUBSET Pages
    BY DEF IInv, TypeOK
  <1>2. /\ UpdatedHeights \in HeightsType
        /\ \A c \in MemChips : UpdatedHeights[c] = trace_heights[c] + PageRows(c) * addr_space_access_count
        /\ \A c \in Chips \ MemChips : UpdatedHeights[c] = trace_heights[c]
    BY <1>1, ApplyHeights DEF UpdatedHeights
  <1>3. \A c \in RowChips : UpdatedHeights[c] = trace_heights[c]
    BY <1>2, ChipKinds
  <1>4. \A c \in ConstChips : UpdatedHeights[c] = ConstHeight[c]
    BY <1>2, ChipKinds DEF IInv, ConstantsKept
  <1>5. ASSUME NEW c \in MemChips
        PROVE  /\ UpdatedHeights[c] = PageRows(c) * Cardinality(page_indices)
               /\ UpdatedHeights[c] >= trace_heights[c]
    <2> DEFINE n == Cardinality(page_indices)
               a == addr_space_access_count
               p == PageRows(c)
    <2>1. n \in Nat /\ a \in Nat /\ p \in Nat /\ a <= n
      BY <1>1, PageSets, PageRowsNat DEF IInv, PagesCounted
    <2>2. trace_heights[c] = p * (n - a) /\ UpdatedHeights[c] = trace_heights[c] + p * a
      BY <1>2 DEF IInv, PagesCounted
    <2> HIDE DEF n, a, p
    <2>3. p * (n - a) + p * a = p * n /\ p * a \in Nat /\ p * (n - a) \in Nat
      <3>1. p * a \in Nat
        BY <2>1, TimesNat
      <3>2. n - a \in Nat
        BY <2>1
      <3>3. p * (n - a) \in Nat
        BY <2>1, <3>2, TimesNat
      <3>4. p * (n - a) + p * a = p * n
        BY <2>1
      <3> QED
        BY <3>1, <3>3, <3>4
    <2> QED
      BY <2>2, <2>3 DEF n, p
  <1> QED
    BY <1>2, <1>3, <1>4, <1>5

\* The whole open segment, up to the last executed instruction, is covered by
\* the updated heights.
LEMMA OpenCovered ==
  ASSUME IInv, Open
  PROVE  CoversSegment(rows_upto, touched, Segment(InstretStart, Len(touched), UpdatedHeights))
  <1> DEFINE s == Segment(InstretStart, Len(touched), UpdatedHeights)
             P == RegPages \cup PagesIn(touched, InstretStart, Len(touched))
  <1>1. InstretStart \in Nat /\ Len(touched) \in Nat
    BY StartType DEF IInv, TypeOK
  <1>2. /\ s.instret_start = InstretStart
        /\ SegmentEnd(s) = Len(touched)
        /\ s.trace_heights = UpdatedHeights
    BY <1>1 DEF Segment, SegmentEnd
  <1>3. page_indices \in SUBSET Pages /\ P \in SUBSET page_indices
    BY DEF IInv, TypeOK, PagesCounted
  <1>4. /\ Cardinality(P) \in Nat
        /\ Cardinality(page_indices) \in Nat
        /\ Cardinality(P) <= Cardinality(page_indices)
    BY <1>3, PageSets, PageSetsMonotone
  <1> HIDE DEF P
  <1>5. \A c \in MemChips : UpdatedHeights[c] >= PageRows(c) * Cardinality(P)
    <2>1. ASSUME NEW c \in MemChips PROVE UpdatedHeights[c] >= PageRows(c) * Cardinality(P)
      <3>1. PageRows(c) * Cardinality(P) <= PageRows(c) * Cardinality(page_indices)
        BY <1>4, PageRowsNat, TimesMonotone
      <3>2. UpdatedHeights[c] = PageRows(c) * Cardinality(page_indices)
        BY Updated
      <3> QED
        BY <1>4, <3>1, <3>2, PageRowsNat, TimesNat
    <2> QED
      BY <2>1
  <1>6. \A c \in RowChips : UpdatedHeights[c] = RowsUpto(rows_upto, Len(touched), c)
                                               - RowsUpto(rows_upto, InstretStart, c)
    BY Updated DEF IInv, RowsCounted
  <1>7. \A c \in ConstChips : UpdatedHeights[c] = ConstHeight[c]
    BY Updated
  <1> HIDE DEF s
  <1>8. CoversSegment(rows_upto, touched, s)
    BY <1>2, <1>5, <1>6, <1>7 DEF CoversSegment, P
  <1> QED
    BY <1>8 DEF s

\* So is the part of it before a checkpoint, by the checkpoint's heights.
LEMMA CheckpointCovered ==
  ASSUME IInv, Open, checkpoint_instret > InstretStart
  PROVE  CoversSegment(rows_upto, touched, Segment(InstretStart, checkpoint_instret, checkpoint_trace_heights))
  <1> DEFINE s == Segment(InstretStart, checkpoint_instret, checkpoint_trace_heights)
  <1>1. InstretStart \in Nat /\ checkpoint_instret \in Nat
    BY StartType DEF IInv, TypeOK
  <1>2. /\ s.instret_start = InstretStart
        /\ SegmentEnd(s) = checkpoint_instret
        /\ s.trace_heights = checkpoint_trace_heights
    BY <1>1 DEF Segment, SegmentEnd
  <1> HIDE DEF s
  <1>3. CoversSegment(rows_upto, touched, s)
    BY <1>2 DEF CoversSegment, IInv, RowsCounted, PagesCounted, ConstantsKept
  <1> QED
    BY <1>3 DEF s

\* Appending a segment that starts where the last one ends keeps the tiling.
LEMMA AppendSegment ==
  ASSUME TypeOK, SegmentsTile, NEW s \in SegmentType,
         s.instret_start = InstretStart, s.num_insns > 0,
         segments' = Append(segments, s)
  PROVE  /\ segments' \in Seq(SegmentType)
         /\ Len(segments') = Len(segments) + 1
         /\ InstretStart' = SegmentEnd(s)
         /\ \A k \in 1..Len(segments') :
              /\ segments'[k].num_insns > 0
              /\ segments'[k].instret_start =
                   IF k = 1 THEN 0 ELSE SegmentEnd(segments'[k - 1])
         /\ \A k \in 1..Len(segments') :
              \/ k \in 1..Len(segments) /\ segments'[k] = segments[k]
              \/ k = Len(segments) + 1 /\ segments'[k] = s
  <1>1. segments \in Seq(SegmentType) /\ Len(segments) \in Nat
    BY DEF TypeOK
  <1>2. segments' \in Seq(SegmentType) /\ Len(segments') = Len(segments) + 1
    BY <1>1
  <1>3. \A k \in 1..Len(segments') :
              \/ k \in 1..Len(segments) /\ segments'[k] = segments[k]
              \/ k = Len(segments) + 1 /\ segments'[k] = s
    <2>1. \A k \in 1..Len(segments) : Append(segments, s)[k] = segments[k]
      BY <1>1
    <2>2. Append(segments, s)[Len(segments) + 1] = s
      BY <1>1
    <2>3. \A k \in 1..(Len(segments) + 1) : k \in 1..Len(segments) \/ k = Len(segments) + 1
      BY <1>1
    <2>4. ASSUME NEW k \in 1..Len(segments')
          PROVE  \/ k \in 1..Len(segments) /\ segments'[k] = segments[k]
                 \/ k = Len(segments) + 1 /\ segments'[k] = s
      <3>1. segments'[k] = Append(segments, s)[k]
        OBVIOUS
      <3>2. CASE k \in 1..Len(segments)
        BY <2>1, <3>1, <3>2, Zenon
      <3>3. CASE k = Len(segments) + 1
        BY <2>2, <3>1, <3>3, Zenon
      <3> QED
        BY <1>2, <2>3, <3>2, <3>3
    <2> QED
      BY <2>4
  <1>4. segments' # <<>> /\ segments'[Len(segments')] = s
    BY <1>1, <1>2
  <1>5. InstretStart' = SegmentEnd(s)
    BY <1>4 DEF InstretStart, SegmentEnd
  <1>6. ASSUME NEW k \in 1..Len(segments')
        PROVE  /\ segments'[k].num_insns > 0
               /\ segments'[k].instret_start =
                    IF k = 1 THEN 0 ELSE SegmentEnd(segments'[k - 1])
    <2>1. CASE k \in 1..Len(segments) /\ segments'[k] = segments[k]
      <3>1. k # 1 => k - 1 \in 1..Len(segments) /\ segments'[k - 1] = segments[k - 1]
        BY <1>1, <1>2, <2>1
      <3> QED
        BY <2>1, <3>1 DEF SegmentsTile
    <2>2. CASE k = Len(segments) + 1 /\ segments'[k] = s
      <3>1. CASE Len(segments) = 0
        BY <1>1, <2>2, <3>1 DEF InstretStart
      <3>2. CASE Len(segments) # 0
        <4>1. segments'[k - 1] = segments[Len(segments)] /\ segments # <<>> /\ k # 1
          BY <1>1, <1>2, <2>2, <3>2
        <4> QED
          BY <2>2, <4>1 DEF InstretStart
      <3> QED
        BY <3>1, <3>2
    <2> QED
      BY <1>3, <2>1, <2>2
  <1> QED
    BY <1>2, <1>3, <1>5, <1>6

\* The final segment ends with TERMINATE and is covered.
LEMMA TerminateIInv ==
  ASSUME IInv, Terminate
  PROVE  IInv'
  <1> DEFINE n == Len(touched)
             s == Segment(InstretStart, n + 1, UpdatedHeights)
             s0 == Segment(InstretStart, n, UpdatedHeights)
             rows == [c \in RowChips |-> RowsUpto(rows_upto, Len(rows_upto), c)]
  <1>1. /\ TypeOK /\ Open
        /\ Len(rows_upto) = n
        /\ n \in Nat
        /\ n = instret + SEGMENT_CHECK_INSNS - instrets_until_check
        /\ rows_upto \in Seq([RowChips -> Nat])
        /\ touched \in Seq(SUBSET Pages)
        /\ instret \in Nat /\ instrets_until_check \in Nat
        /\ SEGMENT_CHECK_INSNS \in Nat
    BY BoundsAssumption DEF IInv, Countdown, TypeOK, Terminate, Open
  <1>2. /\ InstretStart \in Nat
        /\ InstretStart <= n
    BY <1>1, StartType DEF IInv, SegmentsTile
  <1>3. rows \in [RowChips -> Nat]
    <2>1. \A c \in RowChips : RowsUpto(rows_upto, Len(rows_upto), c) \in Nat
      <3>1. Len(rows_upto) \in Nat /\ Len(rows_upto) <= Len(rows_upto)
        BY <1>1
      <3> QED
        BY <1>1, <3>1, RowsUptoType
    <2> QED
      BY <2>1
  <1>4. /\ touched' = Append(touched, {})
        /\ rows_upto' = Append(rows_upto, rows)
        /\ instret' = n + 1
        /\ segments' = Append(segments, s)
        /\ trace_heights' = UpdatedHeights
        /\ addr_space_access_count' = 0
        /\ instrets_until_check' = SEGMENT_CHECK_INSNS
        /\ status' = "terminated"
    BY <1>1 DEF Terminate
  <1>5. Len(touched') = n + 1 /\ Len(rows_upto') = n + 1
    <2>1. Len(Append(touched, {})) = Len(touched) + 1 /\ Len(Append(rows_upto, rows)) = Len(rows_upto) + 1
      BY <1>1, <1>3
    <2> QED
      BY <1>1, <1>4, <2>1
  <1>6. UpdatedHeights \in HeightsType
    BY <1>1, Updated
  <1>7. /\ s \in SegmentType
        /\ s.instret_start = InstretStart
        /\ s.num_insns > 0
        /\ SegmentEnd(s) = n + 1
        /\ s.trace_heights = UpdatedHeights
    BY <1>1, <1>2, <1>6 DEF Segment, SegmentType, SegmentEnd
  <1> HIDE DEF n, s, rows
  <1>8. /\ segments' \in Seq(SegmentType)
        /\ Len(segments') = Len(segments) + 1
        /\ InstretStart' = n + 1
        /\ \A k \in 1..Len(segments') :
             /\ segments'[k].num_insns > 0
             /\ segments'[k].instret_start =
                  IF k = 1 THEN 0 ELSE SegmentEnd(segments'[k - 1])
        /\ \A k \in 1..Len(segments') :
             \/ k \in 1..Len(segments) /\ segments'[k] = segments[k]
             \/ k = Len(segments) + 1 /\ segments'[k] = s
    <2>1. SegmentsTile
      BY DEF IInv
    <2> QED
      BY <1>1, <1>4, <1>7, <2>1, AppendSegment
  <1>9. TypeOK'
    <2>1. touched' \in Seq(SUBSET Pages) /\ rows_upto' \in Seq([RowChips -> Nat])
      BY <1>1, <1>3, <1>4
    <2>2. instret' \in Nat /\ instrets_until_check' \in 0..SEGMENT_CHECK_INSNS
      BY <1>1, <1>4
    <2>3. UNCHANGED <<page_indices, since_checkpoint, since_checkpoint_len,
                      checkpoint_instret, checkpoint_trace_heights, suspend_on_segment,
                      roomy>>
      BY DEF Terminate
    <2> QED
      BY <1>1, <1>4, <1>6, <1>8, <2>1, <2>2, <2>3 DEF TypeOK
  <1>10. Countdown'
    <2>1. ASSUME NEW k \in 1..Len(segments')
          PROVE  SegmentEnd(segments'[k]) <= Len(touched')
      <3>1. CASE k \in 1..Len(segments) /\ segments'[k] = segments[k]
        <4>1. SegmentEnd(segments[k]) <= n /\ segments[k] \in SegmentType
          BY <1>1, <3>1 DEF IInv, Countdown, TypeOK, n
        <4>2. SegmentEnd(segments[k]) \in Nat
          BY <4>1 DEF SegmentType, SegmentEnd
        <4> QED
          BY <1>1, <1>5, <3>1, <4>1, <4>2
      <3>2. CASE segments'[k] = s
        BY <1>1, <1>5, <1>7, <3>2
      <3> QED
        BY <1>8, <3>1, <3>2
    <2> QED
      BY <1>1, <1>4, <1>5, <2>1 DEF Countdown, Open, SegmentEnd
  <1>11. SegmentsTile'
    BY <1>1, <1>5, <1>8 DEF SegmentsTile, SegmentEnd
  <1>12. HeightsCoverExecution'
    <2>1. CoversSegment(rows_upto', touched', s)
      <3>1. /\ PagesIn(touched', InstretStart, n + 1) = PagesIn(touched, InstretStart, n)
            /\ \A c \in RowChips :
                 /\ RowsUpto(rows_upto', n + 1, c) = RowsUpto(rows_upto, n, c)
                 /\ RowsUpto(rows_upto', InstretStart, c) = RowsUpto(rows_upto, InstretStart, c)
        <4>1. PagesIn(Append(touched, {}), InstretStart, Len(touched) + 1)
                = PagesIn(touched, InstretStart, Len(touched)) \cup {}
          <5>1. {} \in SUBSET Pages /\ InstretStart <= Len(touched)
            BY <1>2 DEF n
          <5> QED
            BY <1>1, <1>2, <5>1, PagesInExtend
        <4>2. \A c \in RowChips : \A m \in Nat : m <= Len(rows_upto) =>
                /\ RowsUpto(Append(rows_upto, rows), m, c) = RowsUpto(rows_upto, m, c)
                /\ RowsUpto(Append(rows_upto, rows), Len(rows_upto) + 1, c) = rows[c]
          BY <1>1, <1>3, RowsUptoAppend
        <4>3. \A c \in RowChips : rows[c] = RowsUpto(rows_upto, n, c)
          BY <1>1 DEF rows
        <4> QED
          BY <1>1, <1>2, <1>4, <4>1, <4>2, <4>3 DEF n
      <3>2. CoversSegment(rows_upto, touched, s0)
        BY <1>1, OpenCovered DEF n
      <3>3. /\ s0.instret_start = InstretStart
            /\ SegmentEnd(s0) = n
            /\ s0.trace_heights = UpdatedHeights
        BY <1>1, <1>2 DEF Segment, SegmentEnd, n
      <3> HIDE DEF s0
      <3> DEFINE st == InstretStart
                 uh == UpdatedHeights
      <3>4. /\ \A c \in RowChips : uh[c] = RowsUpto(rows_upto, n, c) - RowsUpto(rows_upto, st, c)
            /\ \A c \in MemChips : uh[c] >= PageRows(c) * Cardinality(RegPages \cup PagesIn(touched, st, n))
            /\ \A c \in ConstChips : uh[c] = ConstHeight[c]
        BY <3>2, <3>3 DEF CoversSegment
      <3> HIDE DEF st, uh
      <3>5. s.instret_start = st /\ SegmentEnd(s) = n + 1 /\ s.trace_heights = uh
        BY <1>7 DEF st, uh
      <3>6. /\ PagesIn(touched', st, n + 1) = PagesIn(touched, st, n)
            /\ \A c \in RowChips :
                 /\ RowsUpto(rows_upto', n + 1, c) = RowsUpto(rows_upto, n, c)
                 /\ RowsUpto(rows_upto', st, c) = RowsUpto(rows_upto, st, c)
        BY <3>1 DEF st
      <3> QED
        BY <3>4, <3>5, <3>6 DEF CoversSegment
    <2>2. ASSUME NEW k \in 1..Len(segments)
          PROVE  CoversSegment(rows_upto', touched', segments[k])
      <3>1. /\ segments[k] \in SegmentType
            /\ SegmentEnd(segments[k]) <= Len(touched)
            /\ CoversSegment(rows_upto, touched, segments[k])
        BY <1>1 DEF IInv, TypeOK, Countdown, HeightsCoverExecution
      <3>2. {} \in SUBSET Pages /\ Len(rows_upto) = Len(touched)
        BY <1>1 DEF n
      <3> QED
        BY <1>1, <1>3, <1>4, <3>1, <3>2, CoverKept
    <2> QED
      BY <1>8, <2>1, <2>2 DEF HeightsCoverExecution
  <1>13. RowsCounted' /\ PagesCounted' /\ ConstantsKept' /\ CheckpointPlace' /\ NoUnderflow'
    BY <1>4 DEF RowsCounted, PagesCounted, ConstantsKept, CheckpointPlace, NoUnderflow, Open
  <1>14. OversizedIsOneWindow'
    <2>1. ASSUME NEW k \in 1..Len(segments'), k # Len(segments'),
                 ExceedsLimits(segments'[k].trace_heights)
          PROVE  segments'[k].num_insns = SEGMENT_CHECK_INSNS
      <3>1. k \in 1..Len(segments) /\ segments'[k] = segments[k]
        BY <1>8, <2>1
      <3>2. ~IsFinal(k)
        BY <1>1 DEF IsFinal, Open
      <3> QED
        BY <2>1, <3>1, <3>2 DEF IInv, OversizedIsOneWindow
    <2> QED
      BY <1>4, <2>1 DEF OversizedIsOneWindow, IsFinal
  <1> QED
    BY <1>9, <1>10, <1>11, <1>12, <1>13, <1>14 DEF IInv

\* What every check starts from: the countdown is at zero.
LEMMA DueFacts ==
  ASSUME IInv, Due
  PROVE  /\ TypeOK /\ Open
         /\ InstretStart \in Nat
         /\ Len(touched) \in Nat
         /\ Len(rows_upto) = Len(touched)
         /\ CheckedInstret = Len(touched)
         /\ checkpoint_instret = instret
         /\ checkpoint_instret \in Nat
         /\ InstretStart <= checkpoint_instret
         /\ Len(touched) = checkpoint_instret + SEGMENT_CHECK_INSNS
         /\ SEGMENT_CHECK_INSNS \in Nat
         /\ SEGMENT_CHECK_INSNS > 0
         /\ rows_upto \in Seq([RowChips -> Nat])
         /\ touched \in Seq(SUBSET Pages)
  BY StartType, BoundsAssumption DEF IInv, TypeOK, Countdown, Due, Open, CheckedInstret

\* A check that does not cut moves the checkpoint.
LEMMA CheckWithoutSegmentIInv ==
  ASSUME IInv, CheckWithoutSegment
  PROVE  IInv'
  <1> DEFINE n == Len(touched)
  <1>1. Due /\ status = "running" /\ status' = "running"
    BY DEF CheckWithoutSegment, Due
  <1>2. /\ TypeOK /\ Open
        /\ InstretStart \in Nat /\ n \in Nat
        /\ Len(rows_upto) = n
        /\ CheckedInstret = n
        /\ n = checkpoint_instret + SEGMENT_CHECK_INSNS
        /\ SEGMENT_CHECK_INSNS \in Nat /\ SEGMENT_CHECK_INSNS > 0
        /\ checkpoint_instret \in Nat
        /\ InstretStart < n
    BY <1>1, DueFacts
  <1>3. /\ UNCHANGED <<page_indices, segments, suspend_on_segment, rows_upto, touched, roomy>>
        /\ instret' = n
        /\ instrets_until_check' = SEGMENT_CHECK_INSNS
        /\ trace_heights' = UpdatedHeights
        /\ addr_space_access_count' = 0
        /\ checkpoint_instret' = n
        /\ checkpoint_trace_heights' = UpdatedHeights
        /\ since_checkpoint' = {}
        /\ since_checkpoint_len' = 0
    BY <1>2 DEF CheckWithoutSegment, UpdateCheckpoint, history
  <1>4. InstretStart' = InstretStart
    BY <1>3 DEF InstretStart, SegmentEnd
  <1> HIDE DEF n
  <1>5. UpdatedHeights \in HeightsType
    BY <1>2, Updated
  <1>6. TypeOK'
    <2>1. instrets_until_check' \in 0..SEGMENT_CHECK_INSNS
      BY <1>2, <1>3
    <2> QED
      BY <1>1, <1>2, <1>3, <1>5, <2>1 DEF TypeOK
  <1>7. Countdown'
    BY <1>1, <1>2, <1>3, <1>4 DEF IInv, Countdown, Open, SegmentEnd, n
  <1>8. SegmentsTile'
    BY <1>1, <1>2, <1>3, <1>4 DEF IInv, SegmentsTile, SegmentEnd, n
  <1>9. HeightsCoverExecution'
    BY <1>3 DEF IInv, HeightsCoverExecution
  <1>10. RowsCounted'
    <2>1. \A c \in RowChips : UpdatedHeights[c] = RowsUpto(rows_upto, n, c) - RowsUpto(rows_upto, InstretStart, c)
      BY <1>2, Updated DEF IInv, RowsCounted, n
    <2>2. \A c \in RowChips : UpdatedHeights[c] \in Nat
      BY <1>5, ChipKinds DEF HeightsType
    <2> QED
      BY <1>3, <1>4, <2>1, <2>2 DEF RowsCounted, n
  <1>11. PagesCounted'
    <2>1. Cardinality(page_indices) \in Nat
      BY <1>2, PageSets DEF TypeOK
    <2>2. PagesIn(touched, n, n) = {}
      BY <1>2, PagesInEmpty
    <2>3. RegPages \cup PagesIn(touched, InstretStart, n) \subseteq page_indices
      BY <1>2 DEF IInv, PagesCounted, n
    <2>4. ASSUME NEW c \in MemChips
          PROVE  /\ UpdatedHeights[c] = PageRows(c) * (Cardinality(page_indices) - 0)
                 /\ UpdatedHeights[c] >= PageRows(c) * Cardinality(RegPages \cup PagesIn(touched, InstretStart, n))
                 /\ UpdatedHeights[c] <= UpdatedHeights[c]
      <3>1. UpdatedHeights[c] = PageRows(c) * Cardinality(page_indices)
        BY <1>2, Updated
      <3>2. CoversSegment(rows_upto, touched, Segment(InstretStart, n, UpdatedHeights))
        BY <1>2, OpenCovered DEF n
      <3>3. /\ Segment(InstretStart, n, UpdatedHeights).instret_start = InstretStart
            /\ SegmentEnd(Segment(InstretStart, n, UpdatedHeights)) = n
            /\ Segment(InstretStart, n, UpdatedHeights).trace_heights = UpdatedHeights
        BY <1>2 DEF Segment, SegmentEnd
      <3>4. UpdatedHeights[c] >= PageRows(c) * Cardinality(RegPages \cup PagesIn(touched, InstretStart, n))
        BY <3>2, <3>3 DEF CoversSegment
      <3>5. UpdatedHeights[c] \in Nat
        BY <1>5, ChipKinds DEF HeightsType
      <3>6. Cardinality(page_indices) - 0 = Cardinality(page_indices)
        BY <2>1
      <3> QED
        BY <3>1, <3>4, <3>5, <3>6
    <2>5. addr_space_access_count' <= Cardinality(page_indices')
      BY <1>3, <2>1
    <2>6. /\ RegPages \cup PagesIn(touched', InstretStart', Len(touched')) \subseteq page_indices'
          /\ PagesIn(touched', checkpoint_instret', Len(touched')) \subseteq since_checkpoint'
      BY <1>3, <1>4, <2>2, <2>3 DEF n
    <2>7. \A c \in MemChips :
             /\ trace_heights'[c] =
                  PageRows(c) * (Cardinality(page_indices') - addr_space_access_count')
             /\ checkpoint_instret' > InstretStart' =>
                  /\ checkpoint_trace_heights'[c] >=
                       PageRows(c) * Cardinality(
                           RegPages \cup PagesIn(touched', InstretStart', checkpoint_instret'))
                  /\ checkpoint_trace_heights'[c] <= trace_heights'[c]
      BY <1>3, <1>4, <2>4, Zenon
    <2> QED
      BY <2>5, <2>6, <2>7 DEF PagesCounted
  <1>12. ConstantsKept'
    <2>1. \A c \in ConstChips : UpdatedHeights[c] = ConstHeight[c]
      BY <1>2, Updated
    <2> QED
      BY <1>3, <2>1 DEF ConstantsKept
  <1>13. CheckpointPlace'
    <2>1. ~ExceedsLimits(UpdatedHeights)
      BY <1>2 DEF CheckWithoutSegment, SegmentationTrigger
    <2> QED
      BY <1>1, <1>3, <2>1 DEF CheckpointPlace
  <1>14. OversizedIsOneWindow' /\ NoUnderflow'
    BY <1>1, <1>3 DEF IInv, OversizedIsOneWindow, NoUnderflow, IsFinal
  <1> QED
    BY <1>6, <1>7, <1>8, <1>9, <1>10, <1>11, <1>12, <1>13, <1>14 DEF IInv

\* The segment that check_and_segment cuts.
LEMMA NewSegmentFacts ==
  ASSUME IInv, Due
  PROVE  /\ NewSegment \in SegmentType
         /\ NewSegment.instret_start = InstretStart
         /\ NewSegment.num_insns > 0
         /\ SegmentEnd(NewSegment) \in Nat
         /\ CoversSegment(rows_upto, touched, NewSegment)
         /\ \A c \in MeteredChips : NewSegment.trace_heights[c] <= UpdatedHeights[c]
         /\ \/ /\ checkpoint_instret > InstretStart
               /\ SegmentEnd(NewSegment) = checkpoint_instret
               /\ NewSegment.trace_heights = checkpoint_trace_heights
               /\ NewSegment.num_insns = checkpoint_instret - InstretStart
            \/ /\ checkpoint_instret = InstretStart
               /\ SegmentEnd(NewSegment) = Len(touched)
               /\ NewSegment.trace_heights = UpdatedHeights
               /\ NewSegment.num_insns = SEGMENT_CHECK_INSNS
  <1>1. /\ TypeOK /\ Open
        /\ InstretStart \in Nat /\ Len(touched) \in Nat
        /\ CheckedInstret = Len(touched)
        /\ checkpoint_instret \in Nat
        /\ InstretStart <= checkpoint_instret
        /\ Len(touched) = checkpoint_instret + SEGMENT_CHECK_INSNS
        /\ SEGMENT_CHECK_INSNS \in Nat /\ SEGMENT_CHECK_INSNS > 0
    BY DueFacts
  <1>2. UpdatedHeights \in HeightsType /\ checkpoint_trace_heights \in HeightsType
    BY <1>1, Updated DEF TypeOK
  <1>3. \A c \in MeteredChips : UpdatedHeights[c] \in Nat /\ checkpoint_trace_heights[c] \in Nat
                                /\ trace_heights[c] \in Nat
    BY <1>1, <1>2 DEF HeightsType, Chips, TypeOK
  <1>4. CASE checkpoint_instret > InstretStart
    <2>1. NewSegment = Segment(InstretStart, checkpoint_instret, checkpoint_trace_heights)
      BY <1>4 DEF NewSegment
    <2>2. CoversSegment(rows_upto, touched, NewSegment)
      BY <1>1, <1>4, <2>1, CheckpointCovered
    <2>3. /\ NewSegment.instret_start = InstretStart
          /\ NewSegment.num_insns = checkpoint_instret - InstretStart
          /\ NewSegment.trace_heights = checkpoint_trace_heights
      BY <2>1 DEF Segment
    <2>4. NewSegment \in SegmentType
      BY <1>1, <1>2, <1>4, <2>1 DEF Segment, SegmentType
    <2>5. \A c \in MeteredChips : checkpoint_trace_heights[c] <= UpdatedHeights[c]
      <3>1. \A c \in RowChips : checkpoint_trace_heights[c] <= UpdatedHeights[c]
        BY <1>1, <1>4, Updated DEF IInv, RowsCounted
      <3>2. \A c \in MemChips : checkpoint_trace_heights[c] <= trace_heights[c] /\ trace_heights[c] <= UpdatedHeights[c]
        BY <1>1, <1>4, <1>3, Updated DEF IInv, PagesCounted, MeteredChips
      <3> QED
        BY <1>3, <3>1, <3>2 DEF MeteredChips
    <2> QED
      BY <1>1, <1>4, <2>2, <2>3, <2>4, <2>5 DEF SegmentEnd
  <1>5. CASE ~(checkpoint_instret > InstretStart)
    <2>1. NewSegment = Segment(InstretStart, Len(touched), UpdatedHeights)
      BY <1>1, <1>5 DEF NewSegment
    <2>2. CoversSegment(rows_upto, touched, NewSegment)
      BY <1>1, <2>1, OpenCovered
    <2>3. /\ NewSegment.instret_start = InstretStart
          /\ NewSegment.num_insns = Len(touched) - InstretStart
          /\ NewSegment.trace_heights = UpdatedHeights
      BY <2>1 DEF Segment
    <2>4. checkpoint_instret = InstretStart
      BY <1>1, <1>5
    <2>5. NewSegment \in SegmentType
      BY <1>1, <1>2, <2>1, <2>4 DEF Segment, SegmentType
    <2>6. \A c \in MeteredChips : UpdatedHeights[c] <= UpdatedHeights[c]
      BY <1>3
    <2> QED
      BY <1>1, <2>2, <2>3, <2>4, <2>5, <2>6 DEF SegmentEnd
  <1> QED
    BY <1>4, <1>5

\* Carrying the counts over: the heights of the segment that is opened.
LEMMA Carried ==
  ASSUME IInv, Due
  PROVE  /\ CarriedHeights \in HeightsType
         /\ \A c \in RowChips : CarriedHeights[c] = UpdatedHeights[c] - NewSegment.trace_heights[c]
         /\ \A c \in MemChips : CarriedHeights[c] = PageRows(c) * Cardinality(since_checkpoint \cup RegPages)
         /\ \A c \in ConstChips : CarriedHeights[c] = ConstHeight[c]
  <1> DEFINE h == [c \in Chips |->
                     IF c \in MemChips THEN 0
                     ELSE IF c \in RowChips
                          THEN UpdatedHeights[c] - NewSegment.trace_heights[c]
                          ELSE UpdatedHeights[c]]
             N == Cardinality(since_checkpoint \cup RegPages)
  <1>1. Open /\ since_checkpoint \in SUBSET Pages
    BY DEF IInv, TypeOK, Due, Open
  <1>2. N \in Nat
    BY <1>1, PageSets, PagesAssumption
  <1>3. CarriedHeights = ApplyHeightUpdates(h, N)
    BY DEF CarriedHeights
  <1>4. \A c \in Chips : UpdatedHeights[c] \in Nat
    BY <1>1, Updated DEF HeightsType
  <1>5. \A c \in RowChips : /\ NewSegment.trace_heights[c] \in Nat
                            /\ NewSegment.trace_heights[c] <= UpdatedHeights[c]
    BY NewSegmentFacts, ChipKinds DEF SegmentType, HeightsType, MeteredChips
  <1>6. h \in HeightsType
    BY <1>4, <1>5 DEF HeightsType
  <1>7. /\ \A c \in MemChips : h[c] = 0
        /\ \A c \in RowChips : h[c] = UpdatedHeights[c] - NewSegment.trace_heights[c]
        /\ \A c \in ConstChips : h[c] = UpdatedHeights[c]
    BY ChipKinds
  <1> HIDE DEF h, N
  <1>8. /\ CarriedHeights \in HeightsType
        /\ \A c \in MemChips : CarriedHeights[c] = h[c] + PageRows(c) * N
        /\ \A c \in Chips \ MemChips : CarriedHeights[c] = h[c]
    BY <1>2, <1>3, <1>6, ApplyHeights
  <1>9. \A c \in MemChips : CarriedHeights[c] = PageRows(c) * N
    <2>1. \A c \in MemChips : PageRows(c) * N \in Nat
      BY <1>2, PageRowsNat, TimesNat
    <2> QED
      BY <1>7, <1>8, <2>1
  <1>10. \A c \in RowChips : CarriedHeights[c] = UpdatedHeights[c] - NewSegment.trace_heights[c]
    BY <1>7, <1>8, ChipKinds
  <1>11. \A c \in ConstChips : CarriedHeights[c] = ConstHeight[c]
    BY <1>1, <1>7, <1>8, ChipKinds, Updated
  <1> QED
    BY <1>8, <1>9, <1>10, <1>11 DEF N

\* Cutting a segment at the checkpoint and opening the next one.
LEMMA CheckAndSegmentIInv ==
  ASSUME IInv, CheckAndSegment
  PROVE  IInv'
  <1> DEFINE n == Len(touched)
             b == SegmentEnd(NewSegment)
             s == NewSegment
             P == since_checkpoint \cup RegPages
  <1>1. Due /\ status = "running" /\ status' \in {"running", "suspended"}
    BY DEF CheckAndSegment, Due
  <1>2. /\ TypeOK /\ Open
        /\ InstretStart \in Nat /\ n \in Nat
        /\ Len(rows_upto) = n
        /\ CheckedInstret = n
        /\ n = checkpoint_instret + SEGMENT_CHECK_INSNS
        /\ SEGMENT_CHECK_INSNS \in Nat /\ SEGMENT_CHECK_INSNS > 0
        /\ checkpoint_instret \in Nat
        /\ InstretStart <= checkpoint_instret
        /\ InstretStart < n
        /\ rows_upto \in Seq([RowChips -> Nat])
        /\ touched \in Seq(SUBSET Pages)
    BY <1>1, DueFacts
  <1>3. /\ s \in SegmentType
        /\ s.instret_start = InstretStart
        /\ s.num_insns > 0
        /\ b \in Nat
        /\ CoversSegment(rows_upto, touched, s)
        /\ \/ /\ checkpoint_instret > InstretStart
              /\ b = checkpoint_instret
              /\ s.trace_heights = checkpoint_trace_heights
              /\ s.num_insns = checkpoint_instret - InstretStart
           \/ /\ checkpoint_instret = InstretStart
              /\ b = n
              /\ s.trace_heights = UpdatedHeights
              /\ s.num_insns = SEGMENT_CHECK_INSNS
    BY <1>1, NewSegmentFacts
  <1>4. /\ UNCHANGED <<suspend_on_segment, rows_upto, touched, roomy>>
        /\ instret' = n
        /\ instrets_until_check' = SEGMENT_CHECK_INSNS
        /\ segments' = Append(segments, s)
        /\ trace_heights' = CarriedHeights
        /\ page_indices' = P
        /\ addr_space_access_count' = 0
        /\ checkpoint_instret' = n
        /\ checkpoint_trace_heights' = CarriedHeights
        /\ since_checkpoint' = {}
        /\ since_checkpoint_len' = 0
    BY <1>2 DEF CheckAndSegment, UpdateCheckpoint, history
  <1>5. P \in SUBSET Pages /\ Cardinality(P) \in Nat
    <2>1. P \in SUBSET Pages
      BY <1>2, PagesAssumption DEF TypeOK
    <2> QED
      BY <2>1, PageSets
  <1>6. /\ CarriedHeights \in HeightsType
        /\ \A c \in RowChips : CarriedHeights[c] = UpdatedHeights[c] - s.trace_heights[c]
        /\ \A c \in MemChips : CarriedHeights[c] = PageRows(c) * Cardinality(P)
        /\ \A c \in ConstChips : CarriedHeights[c] = ConstHeight[c]
    BY <1>1, Carried
  <1> HIDE DEF n, b, s, P
  <1>7. /\ segments' \in Seq(SegmentType)
        /\ Len(segments') = Len(segments) + 1
        /\ InstretStart' = b
        /\ \A k \in 1..Len(segments') :
             /\ segments'[k].num_insns > 0
             /\ segments'[k].instret_start =
                  IF k = 1 THEN 0 ELSE SegmentEnd(segments'[k - 1])
        /\ \A k \in 1..Len(segments') :
             \/ k \in 1..Len(segments) /\ segments'[k] = segments[k]
             \/ k = Len(segments) + 1 /\ segments'[k] = s
    <2>1. SegmentsTile
      BY DEF IInv
    <2>2. SegmentEnd(s) = b
      BY DEF s, b
    <2> QED
      BY <1>2, <1>3, <1>4, <2>1, <2>2, AppendSegment
  <1>8. b <= n /\ b <= Len(rows_upto) /\ (b = n \/ b + SEGMENT_CHECK_INSNS = n)
    BY <1>2, <1>3
  <1>9. TypeOK'
    <2>1. instrets_until_check' \in 0..SEGMENT_CHECK_INSNS
      BY <1>2, <1>4
    <2> QED
      BY <1>1, <1>2, <1>4, <1>5, <1>6, <1>7, <2>1 DEF TypeOK
  <1>10. Countdown'
    <2>1. ASSUME NEW k \in 1..Len(segments')
          PROVE  SegmentEnd(segments'[k]) <= Len(touched')
      <3>1. CASE k \in 1..Len(segments) /\ segments'[k] = segments[k]
        <4>1. SegmentEnd(segments[k]) <= Len(touched)
          BY <3>1 DEF IInv, Countdown
        <4> QED
          BY <1>4, <3>1, <4>1
      <3>2. CASE segments'[k] = s
        <4>1. SegmentEnd(s) <= Len(touched)
          BY <1>8 DEF s, b, n
        <4> QED
          BY <1>4, <3>2, <4>1
      <3> QED
        BY <1>7, <3>1, <3>2
    <2>2. Len(touched') = n /\ Len(rows_upto') = n
      BY <1>2, <1>4 DEF n
    <2> QED
      BY <1>1, <1>2, <1>4, <1>7, <1>8, <2>1, <2>2 DEF Countdown, Open, SegmentEnd
  <1>11. SegmentsTile'
    <2>1. Len(touched') = n
      BY <1>4 DEF n
    <2> QED
      BY <1>1, <1>7, <1>8, <2>1 DEF SegmentsTile, SegmentEnd
  <1>12. HeightsCoverExecution'
    <2>1. ASSUME NEW k \in 1..Len(segments')
          PROVE  CoversSegment(rows_upto', touched', segments'[k])
      <3>1. CASE k \in 1..Len(segments) /\ segments'[k] = segments[k]
        BY <1>4, <3>1 DEF IInv, HeightsCoverExecution
      <3>2. CASE segments'[k] = s
        BY <1>3, <1>4, <3>2
      <3> QED
        BY <1>7, <3>1, <3>2
    <2> QED
      BY <2>1 DEF HeightsCoverExecution
  <1>13. RowsCounted'
    <2>1. ASSUME NEW c \in RowChips
          PROVE  /\ CarriedHeights[c] \in Nat
                 /\ CarriedHeights[c] = RowsUpto(rows_upto, n, c) - RowsUpto(rows_upto, b, c)
      <3>1. UpdatedHeights[c] = RowsUpto(rows_upto, n, c) - RowsUpto(rows_upto, InstretStart, c)
        BY <1>2, Updated DEF IInv, RowsCounted, n
      <3>2. s.trace_heights[c] = RowsUpto(rows_upto, b, c) - RowsUpto(rows_upto, InstretStart, c)
        BY <1>3 DEF CoversSegment, b, s
      <3>3. /\ RowsUpto(rows_upto, n, c) \in Nat
            /\ RowsUpto(rows_upto, b, c) \in Nat
            /\ RowsUpto(rows_upto, InstretStart, c) \in Nat
        <4>1. n <= Len(rows_upto) /\ InstretStart <= Len(rows_upto)
          BY <1>2
        <4> QED
          BY <1>2, <1>3, <1>8, <4>1, RowsUptoType
      <3>4. CarriedHeights[c] \in Nat
        BY <1>6, ChipKinds DEF HeightsType
      <3> QED
        BY <1>6, <3>1, <3>2, <3>3, <3>4
    <2>2. \A c \in RowChips :
            /\ trace_heights'[c] = RowsUpto(rows_upto', Len(touched'), c)
                                   - RowsUpto(rows_upto', InstretStart', c)
            /\ checkpoint_instret' > InstretStart' =>
                 /\ checkpoint_trace_heights'[c] =
                      RowsUpto(rows_upto', checkpoint_instret', c)
                      - RowsUpto(rows_upto', InstretStart', c)
                 /\ checkpoint_trace_heights'[c] <= trace_heights'[c]
      <3>1. Len(touched') = n
        BY <1>4 DEF n
      <3> QED
        BY <1>4, <1>7, <2>1, <3>1
    <2> QED
      BY <2>2 DEF RowsCounted
  <1>14. PagesCounted'
    <2>1. PagesIn(touched, n, n) = {}
      BY <1>2, PagesInEmpty
    <2>2. PagesIn(touched, b, n) \subseteq since_checkpoint
      <3>1. CASE b = checkpoint_instret
        BY <1>2, <3>1 DEF IInv, PagesCounted, n
      <3>2. CASE b = n
        BY <2>1, <3>2
      <3> QED
        BY <1>3, <3>1, <3>2
    <2>3. RegPages \cup PagesIn(touched, b, n) \in SUBSET P
      BY <2>2 DEF P
    <2>4. Cardinality(P) - 0 = Cardinality(P)
      BY <1>5
    <2>5. /\ Cardinality(RegPages \cup PagesIn(touched, b, n)) <= Cardinality(P)
          /\ Cardinality(RegPages \cup PagesIn(touched, b, n)) \in Nat
      <3>1. RegPages \cup PagesIn(touched, b, n) \in SUBSET Pages
        BY <1>5, <2>3
      <3> QED
        BY <1>5, <2>3, <3>1, PageSets, PageSetsMonotone
    <2>6. ASSUME NEW c \in MemChips
          PROVE  /\ CarriedHeights[c] = PageRows(c) * (Cardinality(P) - 0)
                 /\ CarriedHeights[c] >= PageRows(c) * Cardinality(RegPages \cup PagesIn(touched, b, n))
                 /\ CarriedHeights[c] <= CarriedHeights[c]
      <3>1. CarriedHeights[c] = PageRows(c) * Cardinality(P)
        BY <1>6
      <3>2. PageRows(c) * Cardinality(RegPages \cup PagesIn(touched, b, n)) <= PageRows(c) * Cardinality(P)
        BY <1>5, <2>5, PageRowsNat, TimesMonotone
      <3>3. /\ CarriedHeights[c] \in Nat
            /\ PageRows(c) * Cardinality(RegPages \cup PagesIn(touched, b, n)) \in Nat
        BY <1>6, <2>5, ChipKinds, PageRowsNat, TimesNat DEF HeightsType
      <3> QED
        BY <2>4, <3>1, <3>2, <3>3
    <2>7. Len(touched') = n
      BY <1>4 DEF n
    <2>8. addr_space_access_count' <= Cardinality(page_indices')
      BY <1>4, <1>5
    <2>9. /\ RegPages \cup PagesIn(touched', InstretStart', Len(touched')) \subseteq page_indices'
          /\ PagesIn(touched', checkpoint_instret', Len(touched')) \subseteq since_checkpoint'
      BY <1>4, <1>7, <2>1, <2>3, <2>7
    <2>10. \A c \in MemChips :
             /\ trace_heights'[c] =
                  PageRows(c) * (Cardinality(page_indices') - addr_space_access_count')
             /\ checkpoint_instret' > InstretStart' =>
                  /\ checkpoint_trace_heights'[c] >=
                       PageRows(c) * Cardinality(
                           RegPages \cup PagesIn(touched', InstretStart', checkpoint_instret'))
                  /\ checkpoint_trace_heights'[c] <= trace_heights'[c]
      BY <1>4, <1>7, <2>6, Zenon
    <2> QED
      BY <2>8, <2>9, <2>10 DEF PagesCounted
  <1>15. ConstantsKept'
    BY <1>4, <1>6 DEF ConstantsKept
  <1>16. CheckpointPlace'
    <2>1. checkpoint_instret' = n /\ InstretStart' = b
      BY <1>4, <1>7
    <2>2. b = n \/ (b + SEGMENT_CHECK_INSNS = n)
      BY <1>8
    <2> QED
      BY <1>2, <1>3, <2>1, <2>2 DEF CheckpointPlace
  <1>17. OversizedIsOneWindow'
    <2>1. ASSUME NEW k \in 1..Len(segments'), ExceedsLimits(segments'[k].trace_heights)
          PROVE  segments'[k].num_insns = SEGMENT_CHECK_INSNS
      <3>1. CASE k \in 1..Len(segments) /\ segments'[k] = segments[k]
        <4>1. ~IsFinal(k)
          BY <1>1 DEF IsFinal
        <4> QED
          BY <2>1, <3>1, <4>1 DEF IInv, OversizedIsOneWindow
      <3>2. CASE segments'[k] = s
        <4>1. CASE /\ checkpoint_instret > InstretStart
                   /\ s.trace_heights = checkpoint_trace_heights
                   /\ s.num_insns = checkpoint_instret - InstretStart
          <5>1. checkpoint_instret = InstretStart + SEGMENT_CHECK_INSNS
            BY <1>2, <2>1, <3>2, <4>1 DEF IInv, CheckpointPlace
          <5> QED
            BY <1>2, <3>2, <4>1, <5>1
        <4>2. CASE s.num_insns = SEGMENT_CHECK_INSNS
          BY <3>2, <4>2
        <4> QED
          BY <1>3, <4>1, <4>2
      <3> QED
        BY <1>7, <3>1, <3>2
    <2> QED
      BY <2>1 DEF OversizedIsOneWindow
  <1>18. NoUnderflow'
    BY <1>1 DEF NoUnderflow
  <1> QED
    BY <1>9, <1>10, <1>11, <1>12, <1>13, <1>14, <1>15, <1>16, <1>17, <1>18 DEF IInv

\* The subtraction in reset_trace_heights cannot underflow.
LEMMA ResetNeverUnderflows ==
  ASSUME IInv, Due
  PROVE  ~ResetUnderflows
  <1>1. Open
    BY DEF Due, Open
  <1>2. \A c \in MeteredChips : NewSegment.trace_heights[c] <= UpdatedHeights[c]
    BY NewSegmentFacts
  <1>3. \A c \in MeteredChips : NewSegment.trace_heights[c] \in Nat /\ UpdatedHeights[c] \in Nat
    BY <1>1, NewSegmentFacts, Updated DEF SegmentType, HeightsType, Chips
  <1> QED
    BY <1>2, <1>3 DEF ResetUnderflows

\* A check that panics does so for lack of capacity.
LEMMA CheckPanicsIInv ==
  ASSUME IInv, CheckPanics
  PROVE  IInv'
  <1>1. Due /\ Open /\ status # "failed"
    BY DEF CheckPanics, Due, Open
  <1>2. ~ResetUnderflows
    BY <1>1, ResetNeverUnderflows
  <1>3. /\ status' = "capacity" /\ UNCHANGED <<ctx, suspend_on_segment, history>>
        /\ roomy' \in BOOLEAN
    BY <1>2 DEF CheckPanics, IInv, TypeOK
  <1> QED
    BY <1>1, <1>3, StatusIInv

-----------------------------------------------------------------------------
(* The theorems.                                                           *)

\* Every step of metered execution preserves the inductive invariant.
LEMMA NextIInv ==
  ASSUME IInv, [Next]_vars
  PROVE  IInv'
  <1>1. ASSUME NEW i \in Insns, Execute(i)
        PROVE  IInv'
    BY <1>1, ExecuteIInv
  <1>2. ASSUME NEW i \in Insns, ExecutePanics(i)
        PROVE  IInv'
    <2>1. /\ UNCHANGED <<ctx, suspend_on_segment, history>>
          /\ Open /\ status # "failed" /\ status' = "capacity" /\ roomy' \in BOOLEAN
      BY <1>2 DEF ExecutePanics, Open
    <2> QED
      BY <2>1, StatusIInv
  <1>3. CASE Fail
    BY <1>3, FailIInv
  <1>4. CASE Terminate
    BY <1>4, TerminateIInv
  <1>5. CASE CheckWithoutSegment
    BY <1>5, CheckWithoutSegmentIInv
  <1>6. CASE CheckAndSegment
    BY <1>6, CheckAndSegmentIInv
  <1>7. CASE CheckPanics
    BY <1>7, CheckPanicsIInv
  <1>8. CASE Resume
    <2>1. /\ UNCHANGED <<ctx, suspend_on_segment, history>>
          /\ Open /\ status = "suspended" /\ status' = "running" /\ roomy' \in BOOLEAN
      BY <1>8 DEF Resume, Open, IInv, TypeOK
    <2> QED
      BY <2>1, StatusIInv
  <1>9. CASE UNCHANGED vars
    BY <1>9, StutterIInv
  <1> QED
    BY <1>1, <1>2, <1>3, <1>4, <1>5, <1>6, <1>7, <1>8, <1>9 DEF Next, Done

\* The inductive invariant holds in every reachable state of the metered
\* context (MeteredCtx::new, check_and_segment, on_terminate).
THEOREM SegmentationInvariant == Spec => []IInv
  BY InitIInv, NextIInv, PTL DEF Spec

\* The metered context keeps its types.
THEOREM SegmentationTypeOK == Spec => []TypeOK
  <1>1. IInv => TypeOK
    BY DEF IInv
  <1> QED
    BY <1>1, SegmentationInvariant, PTL

\* The segments that metered execution returns partition the executed
\* instructions, although each is cut at an earlier checkpoint.
THEOREM SegmentationTiles == Spec => []SegmentsTile
  <1>1. IInv => SegmentsTile
    BY DEF IInv
  <1> QED
    BY <1>1, SegmentationInvariant, PTL

\* The heights recorded with a segment cover the rows and pages of its own
\* instructions, so preflight's arenas are large enough.
THEOREM SegmentationCovers == Spec => []HeightsCoverExecution
  <1>1. IInv => HeightsCoverExecution
    BY DEF IInv
  <1> QED
    BY <1>1, SegmentationInvariant, PTL

\* A cut segment that is over the limits holds a single check window.
THEOREM SegmentationOversized == Spec => []OversizedIsOneWindow
  <1>1. IInv => OversizedIsOneWindow
    BY DEF IInv
  <1> QED
    BY <1>1, SegmentationInvariant, PTL

\* The checked_sub of reset_trace_heights never underflows.
THEOREM SegmentationNoUnderflow == Spec => []NoUnderflow
  <1>1. IInv => NoUnderflow
    BY DEF IInv
  <1> QED
    BY <1>1, SegmentationInvariant, PTL

\* A suspended execution stands at the boundary of the segment just cut or
\* one check window after it.
THEOREM SegmentationSuspends == Spec => []SuspendsNearBoundary
  <1>1. ASSUME IInv
        PROVE  SuspendsNearBoundary
    <2> SUFFICES ASSUME status = "suspended"
                 PROVE  Len(touched) - InstretStart \in {0, SEGMENT_CHECK_INSNS}
      BY DEF SuspendsNearBoundary
    <2>1. /\ InstretStart \in Nat /\ SEGMENT_CHECK_INSNS \in Nat /\ instret \in Nat
          /\ Len(touched) = instret + SEGMENT_CHECK_INSNS - SEGMENT_CHECK_INSNS
          /\ checkpoint_instret = instret
      BY <1>1, StartType, BoundsAssumption DEF IInv, TypeOK, Countdown, Open
    <2>2. checkpoint_instret \in {InstretStart, InstretStart + SEGMENT_CHECK_INSNS}
      BY <1>1 DEF IInv, CheckpointPlace
    <2> QED
      BY <2>1, <2>2
  <1>2. IInv => SuspendsNearBoundary
    BY <1>1
  <1> QED
    BY <1>2, SegmentationInvariant, PTL

\* The buffer bound needs only monotone arithmetic: k instructions fit when
\* each leaves room for R register entries.
LEMMA BufferBound ==
  ASSUME NEW R \in Nat, NEW d \in Nat, NEW k \in Nat, NEW j \in Nat, j <= k, k >= 2,
         NEW len \in Nat, len <= R + j * d
  PROVE  len <= k * (d + R) - R
  <1>1. d * j <= d * k /\ R * 2 <= R * k
    BY TimesMonotone
  <1>2. j * d = d * j /\ k * (d + R) = d * k + R * k /\ R * 2 = R + R
    OBVIOUS
  <1>3. d * j \in Nat /\ d * k \in Nat /\ R * k \in Nat
    BY TimesNat
  <1> QED
    BY <1>1, <1>2, <1>3

\* Under CapacitySlack no access and no initialize_segment overflows the
\* since-checkpoint buffer.
THEOREM SegmentationCapacity == Spec => []NoCapacityPanic
  <1> DEFINE R == Cardinality(RegPages)
             M == MAX_MEM_PAGE_OPS_PER_INSN
             K == SEGMENT_CHECK_INSNS
             Used == K - instrets_until_check
             J == NoCapacityPanic /\ BufferHasRoom
  <1>1. R \in Nat /\ K \in Nat /\ M \in Nat
    BY PageSets, PagesAssumption, BoundsAssumption
  <1>2. Init => J
    BY <1>1 DEF Init, NoCapacityPanic, BufferHasRoom
  <1>3. ASSUME IInv, J, [Next]_vars
        PROVE  J'
    <2> SUFFICES ASSUME CapacitySlack'
                 PROVE  J'
      BY DEF NoCapacityPanic, BufferHasRoom
    <2>a. roomy' => roomy
      <3>1. ASSUME NEW i \in Insns, Execute(i) \/ ExecutePanics(i)
            PROVE  roomy' => roomy
        BY <3>1 DEF Execute, ExecutePanics
      <3> QED
        BY <1>3, <3>1 DEF Next, Done, Fail, Terminate, CheckWithoutSegment,
                          CheckAndSegment, CheckPanics, Resume, vars
    <2>b. CapacitySlack
      BY <2>a DEF CapacitySlack
    <2>1. M - R \in Nat /\ K >= 2
      BY <1>1, <2>b DEF CapacitySlack
    <2>c. ASSUME NEW i \in Insns, Execute(i) \/ ExecutePanics(i)
          PROVE  Len(i.ops) + R <= M
      BY <2>c DEF Execute, ExecutePanics, CapacitySlack, LeavesRoom
    <2>2. /\ since_checkpoint_len \in Nat
          /\ instrets_until_check \in Nat
          /\ Used \in Nat
          /\ Used <= K
      BY <1>1, <1>3 DEF IInv, TypeOK
    <2>3. /\ status # "capacity"
          /\ status \in {"running", "suspended"} => since_checkpoint_len <= R + Used * (M - R)
      BY <1>3, <2>b DEF NoCapacityPanic, BufferHasRoom
    <2>4. Capacity = K * ((M - R) + R)
      BY <1>1 DEF Capacity
    <2>5. ASSUME NEW i \in Insns, Len(i.ops) + R <= M, status = "running",
                 instrets_until_check > 0
          PROVE  /\ since_checkpoint_len + Len(i.ops) <= Capacity
                 /\ since_checkpoint_len + Len(i.ops) <= R + (Used + 1) * (M - R)
                 /\ Len(i.ops) \in Nat
      <3> DEFINE d == M - R
      <3>1. Len(i.ops) \in Nat /\ Len(i.ops) <= d
        BY <1>1, <2>5, InsnsAssumption
      <3>2. since_checkpoint_len <= R + Used * d
        BY <2>3, <2>5
      <3>3. Used + 1 \in Nat /\ Used + 1 <= K
        BY <1>1, <2>2, <2>5
      <3>4. d \in Nat /\ Used \in Nat
        BY <2>1, <2>2
      <3> HIDE DEF d, R, K, Used
      <3>5. (Used + 1) * d = Used * d + d /\ Used * d \in Nat
        BY <3>4, TimesNat
      <3>6. since_checkpoint_len + Len(i.ops) <= R + (Used + 1) * d
        BY <1>1, <2>2, <3>1, <3>2, <3>4, <3>5
      <3>7. since_checkpoint_len + Len(i.ops) \in Nat
        BY <2>2, <3>1
      <3>8. since_checkpoint_len + Len(i.ops) <= K * (d + R) - R
        BY <1>1, <2>1, <3>3, <3>4, <3>6, <3>7, BufferBound
      <3>9. K * (d + R) \in Nat
        BY <1>1, <3>4, TimesNat
      <3>10. Capacity = K * (d + R)
        BY <2>4 DEF d
      <3>11. since_checkpoint_len + Len(i.ops) <= Capacity
        BY <1>1, <3>7, <3>8, <3>9, <3>10
      <3> QED
        BY <3>1, <3>6, <3>11 DEF d
    <2>6. ASSUME Due PROVE ~RegistersOverflow
      <3> DEFINE d == M - R
      <3>1. since_checkpoint_len <= R + K * d
        BY <1>1, <2>2, <2>3, <2>6 DEF Due
      <3>2. d \in Nat
        BY <2>1
      <3>3. Capacity = K * (d + R)
        BY <2>4
      <3> HIDE DEF d, K, R
      <3>4. since_checkpoint_len <= K * (d + R) - R
        BY <1>1, <2>1, <2>2, <3>1, <3>2, BufferBound
      <3>5. K * (d + R) \in Nat
        BY <1>1, <3>2, TimesNat
      <3>6. since_checkpoint_len + R <= Capacity /\ Capacity \in Nat
        BY <1>1, <2>2, <3>3, <3>4, <3>5
      <3> QED
        BY <1>1, <2>2, <3>6 DEF RegistersOverflow, R
    <2>7. ASSUME NEW i \in Insns, Execute(i)
          PROVE  J'
      <3>1. /\ status = "running" /\ instrets_until_check > 0 /\ status' = "running"
            /\ since_checkpoint_len' = since_checkpoint_len + Len(i.ops)
            /\ K - instrets_until_check' = Used + 1
        BY <1>1, <2>2, <2>7 DEF Execute
      <3>a. Len(i.ops) + R <= M
        BY <2>7, <2>c
      <3>2. since_checkpoint_len' <= R + (K - instrets_until_check') * (M - R)
        BY <2>5, <3>1, <3>a
      <3> QED
        BY <3>1, <3>2 DEF NoCapacityPanic, BufferHasRoom
    <2>8. ASSUME NEW i \in Insns, ExecutePanics(i)
          PROVE  J'
      <3>1. status = "running" /\ instrets_until_check > 0
            /\ since_checkpoint_len + Len(i.ops) > Capacity
            /\ Len(i.ops) + R <= M
        BY <2>8, <2>c DEF ExecutePanics
      <3>2. since_checkpoint_len + Len(i.ops) <= Capacity
        BY <2>5, <3>1
      <3>3. Capacity \in Nat /\ since_checkpoint_len + Len(i.ops) \in Nat
        BY <1>1, <2>2, <2>5, <3>1, TimesNat DEF Capacity
      <3> QED
        BY <3>1, <3>2, <3>3
    <2>9. CASE Fail \/ Terminate
      BY <2>9 DEF Fail, Terminate, NoCapacityPanic, BufferHasRoom
    <2>10. ASSUME status' \in {"running", "suspended"},
                  since_checkpoint_len' = 0, instrets_until_check' = K
           PROVE  J'
      <3>1. (K - K) * (M - R) = 0
        BY <1>1, <2>1
      <3> QED
        BY <1>1, <2>10, <3>1 DEF NoCapacityPanic, BufferHasRoom
    <2>11. CASE CheckWithoutSegment
      BY <2>10, <2>11 DEF CheckWithoutSegment, UpdateCheckpoint, Due
    <2>12. CASE CheckAndSegment
      BY <2>10, <2>12 DEF CheckAndSegment, UpdateCheckpoint
    <2>13. CASE CheckPanics
      <3>1. Due /\ ~ResetUnderflows
        BY <1>3, <2>13, ResetNeverUnderflows DEF CheckPanics
      <3> QED
        BY <2>6, <2>13, <3>1 DEF CheckPanics
    <2>14. CASE Resume
      BY <2>3, <2>14 DEF Resume, ctx, NoCapacityPanic, BufferHasRoom
    <2>15. CASE UNCHANGED vars
      <3>1. UNCHANGED <<status, since_checkpoint_len, instrets_until_check>>
        BY <2>15 DEF vars, ctx
      <3> QED
        BY <2>3, <3>1 DEF NoCapacityPanic, BufferHasRoom
    <2> QED
      BY <1>3, <2>7, <2>8, <2>9, <2>11, <2>12, <2>13, <2>14, <2>15 DEF Next, Done
  <1>4. J => NoCapacityPanic
    OBVIOUS
  <1> HIDE DEF J
  <1> QED
    BY <1>2, <1>3, <1>4, SegmentationInvariant, PTL DEF Spec

\* Metered execution panics neither in reset_trace_heights nor at the
\* since-checkpoint buffer.
THEOREM SegmentationNoPanic == Spec => []NoPanic
  <1>1. NoUnderflow /\ NoCapacityPanic => NoPanic
    BY DEF NoPanic
  <1> QED
    BY <1>1, SegmentationNoUnderflow, SegmentationCapacity, PTL
=============================================================================
