---------------------------- MODULE Segmentation ----------------------------
(***************************************************************************)
(* Metered execution: how one program run is cut into segments.            *)
(*                                                                         *)
(* The metered context counts, for every chip, the trace rows the current  *)
(* segment needs.  Every SEGMENT_CHECK_INSNS instructions it compares the  *)
(* counts with the limits; when one is exceeded it cuts the segment at the *)
(* PREVIOUS check (the checkpoint) and carries over the counts of the      *)
(* instructions executed since.  Rows of the memory chips are counted per  *)
(* page, once per segment, which is why the pages touched since the        *)
(* checkpoint are remembered and replayed into the new segment.            *)
(*                                                                         *)
(* Preflight execution later allocates each segment's record arenas from   *)
(* the heights recorded here, so a height must never be below the rows the *)
(* segment's own instructions produce.                                     *)
(***************************************************************************)
EXTENDS Integers, Sequences, FiniteSetsExt

CONSTANTS
    RowChips,              \* chips whose height the executors report
    ConstHeight,           \* height of each chip of constant trace height
    Pages,                 \* pages of the guest memory's Merkle leaves
    RegPages,              \* the pages that hold the register file
    LEAVES_PER_PAGE,       \* 1 << PAGE_BITS
    NODES_ABOVE_PAGE,      \* merkle_height - PAGE_BITS
    SEGMENT_CHECK_INSNS,
    MAX_MEM_PAGE_OPS_PER_INSN,
    Insns,                 \* what an instruction can cost: [rows, ops]
    Width, Interactions,   \* per chip, from the AIRs of the proving key
    MaxTraceHeight, MaxMemory, MaxInteractions,
    MaxInsns               \* bound: instructions of an execution

MemChips == {"Boundary", "Merkle", "Poseidon2"}
ConstChips == DOMAIN ConstHeight
MeteredChips == RowChips \cup MemChips
Chips == MeteredChips \cup ConstChips

InsnType == [rows : [RowChips -> Nat], ops : Seq(Pages)]

ASSUME ChipsAssumption ==
    /\ IsFiniteSet(RowChips)
    /\ RowChips \cap MemChips = {}
    /\ MeteredChips \cap ConstChips = {}
    /\ ConstHeight \in [ConstChips -> Nat]

ASSUME PagesAssumption ==
    /\ IsFiniteSet(Pages)
    /\ RegPages \in SUBSET Pages
    /\ LEAVES_PER_PAGE \in Nat \ {0}
    /\ NODES_ABOVE_PAGE \in Nat

ASSUME BoundsAssumption ==
    /\ SEGMENT_CHECK_INSNS \in Nat \ {0}
    /\ MAX_MEM_PAGE_OPS_PER_INSN \in Nat
    /\ MaxInsns \in Nat

ASSUME InsnsAssumption ==
    \A i \in Insns : i.rows \in [RowChips -> Nat] /\ i.ops \in Seq(Pages)

VARIABLES
    trace_heights,             \* rows counted for the current segment
    page_indices,              \* pages already counted in the current segment
    addr_space_access_count,   \* pages counted but not yet turned into rows
    since_checkpoint,          \* the pages in the since-checkpoint buffer
    since_checkpoint_len,      \* and the number of its entries
    segments,
    instret,                   \* instructions retired at the last check
    instrets_until_check,
    checkpoint_instret,
    checkpoint_trace_heights,
    suspend_on_segment,
    status,                    \* "running", "suspended", "terminated", "failed",
                               \* or the panic: "capacity", "underflow"
    rows_upto,                 \* history: rows of the first n instructions
    touched,                   \* history: pages of the n-th instruction
    roomy                      \* history: every instruction so far left room
                               \* for the register pages in the buffer

ctx == <<trace_heights, page_indices, addr_space_access_count,
         since_checkpoint, since_checkpoint_len, segments, instret,
         instrets_until_check, checkpoint_instret, checkpoint_trace_heights>>
history == <<rows_upto, touched>>
vars == <<ctx, suspend_on_segment, status, history, roomy>>

-----------------------------------------------------------------------------
(* Heights and limits.                                                     *)

\* Rows one page adds to a memory chip: every leaf and every inner node of
\* the page, and the path above it, in the initial and in the final tree.
NodesPerPage == (LEAVES_PER_PAGE - 1) + NODES_ABOVE_PAGE

PageRows(c) ==
    CASE c = "Boundary"  -> 2 * LEAVES_PER_PAGE
      [] c = "Merkle"    -> 2 * NodesPerPage
      [] c = "Poseidon2" -> 2 * LEAVES_PER_PAGE + 2 * NodesPerPage

ApplyHeightUpdates(heights, pages) ==
    [c \in Chips |-> IF c \in MemChips THEN heights[c] + PageRows(c) * pages
                                       ELSE heights[c]]

PowersOfTwo == {2^k : k \in 0..30}

NextPowerOfTwoOrZero(h) ==
    IF h = 0 THEN 0 ELSE Min({p \in PowersOfTwo : p >= h})

AddOneOrZero(h) == IF h = 0 THEN 0 ELSE h + 1

\* The memory estimate is the proving backend's; it grows with the padded
\* trace cells, which is all the context controls.
TotalMemory(heights) ==
    MapThenSumSet(LAMBDA c : NextPowerOfTwoOrZero(heights[c]) * Width[c], Chips)

TotalInteractions(heights) ==
    MapThenSumSet(LAMBDA c : AddOneOrZero(heights[c]) * Interactions[c], Chips)

ExceedsLimits(heights) ==
    \/ \E c \in MeteredChips : NextPowerOfTwoOrZero(heights[c]) > MaxTraceHeight
    \/ TotalMemory(heights) > MaxMemory
    \/ TotalInteractions(heights) > MaxInteractions

SegmentEnd(s) == s.instret_start + s.num_insns

\* Where the segment being metered starts.
InstretStart ==
    IF segments = <<>> THEN 0 ELSE SegmentEnd(segments[Len(segments)])

\* Mutant of SegmentationTrigger: the heights before the lazy update are judged.
TriggerOnStaleHeights(n, heights) == n # InstretStart /\ ExceedsLimits(trace_heights)

SegmentationTrigger(n, heights) == n # InstretStart /\ ExceedsLimits(heights)

Segment(start, end, heights) ==
    [instret_start |-> start, num_insns |-> end - start, trace_heights |-> heights]

Capacity == SEGMENT_CHECK_INSNS * MAX_MEM_PAGE_OPS_PER_INSN

-----------------------------------------------------------------------------
(* The context.                                                            *)

Init ==
    /\ trace_heights =
         ApplyHeightUpdates(
             [c \in Chips |-> IF c \in ConstChips THEN ConstHeight[c] ELSE 0],
             Cardinality(RegPages))
    /\ page_indices = RegPages
    /\ addr_space_access_count = 0
    /\ since_checkpoint = RegPages
    /\ since_checkpoint_len = Cardinality(RegPages)
    /\ segments = <<>>
    /\ instret = 0
    /\ instrets_until_check = SEGMENT_CHECK_INSNS
    /\ checkpoint_instret = 0
    /\ checkpoint_trace_heights = [c \in Chips |-> 0]
    /\ suspend_on_segment \in BOOLEAN
    /\ status = "running"
    /\ rows_upto = <<>>
    /\ touched = <<>>
    /\ roomy = TRUE

\* Rows chip c gets from the first n instructions of the history r.
RowsUpto(r, n, c) == IF n = 0 THEN 0 ELSE r[n][c]

\* Instruction i touches few enough pages for the register pages to be added
\* within MAX_MEM_PAGE_OPS_PER_INSN.
LeavesRoom(i) ==
    Len(i.ops) + Cardinality(RegPages) <= MAX_MEM_PAGE_OPS_PER_INSN

\* One loop iteration that executes instruction i: should_suspend counts it,
\* then its handler reports rows and memory operations.
Execute(i) ==
    /\ status = "running"
    /\ instrets_until_check > 0
    /\ Len(touched) < MaxInsns
    /\ since_checkpoint_len + Len(i.ops) <= Capacity
    /\ LET pages == Range(i.ops) IN
       /\ page_indices' = page_indices \cup pages
       /\ addr_space_access_count' =
            addr_space_access_count + Cardinality(pages \ page_indices)
       /\ since_checkpoint' = since_checkpoint \cup pages
       /\ touched' = Append(touched, pages)
    /\ since_checkpoint_len' = since_checkpoint_len + Len(i.ops)
    /\ trace_heights' =
         [c \in Chips |-> IF c \in RowChips THEN trace_heights[c] + i.rows[c]
                                            ELSE trace_heights[c]]
    /\ rows_upto' =
         Append(rows_upto,
                [c \in RowChips |-> RowsUpto(rows_upto, Len(rows_upto), c) + i.rows[c]])
    /\ instrets_until_check' = instrets_until_check - 1
    /\ roomy' = (roomy /\ LeavesRoom(i))
    /\ UNCHANGED <<segments, instret, checkpoint_instret,
                   checkpoint_trace_heights, suspend_on_segment, status>>

\* The buffer of pages since the checkpoint is full: the handler panics.
ExecutePanics(i) ==
    /\ status = "running"
    /\ instrets_until_check > 0
    /\ Len(touched) < MaxInsns
    /\ since_checkpoint_len + Len(i.ops) > Capacity
    /\ status' = "capacity"
    /\ roomy' = (roomy /\ LeavesRoom(i))
    /\ UNCHANGED <<ctx, suspend_on_segment, history>>

\* The handler sets an execution error; the loop stops and no segment is cut.
Fail ==
    /\ status = "running"
    /\ instrets_until_check > 0
    /\ instrets_until_check' = instrets_until_check - 1
    /\ status' = "failed"
    /\ UNCHANGED <<trace_heights, page_indices, addr_space_access_count,
                   since_checkpoint, since_checkpoint_len, segments, instret,
                   checkpoint_instret, checkpoint_trace_heights,
                   suspend_on_segment, history, roomy>>

\* lazy_update_boundary_heights.
UpdatedHeights == ApplyHeightUpdates(trace_heights, addr_space_access_count)

\* TERMINATE is an instruction like another (it costs no rows), then
\* on_terminate closes the last segment.
Terminate ==
    /\ status = "running"
    /\ instrets_until_check > 0
    /\ trace_heights' = UpdatedHeights
    /\ instret' = instret + SEGMENT_CHECK_INSNS - (instrets_until_check - 1)
    /\ segments' = Append(segments, Segment(InstretStart, instret', UpdatedHeights))
    /\ addr_space_access_count' = 0
    /\ instrets_until_check' = SEGMENT_CHECK_INSNS
    /\ status' = "terminated"
    /\ rows_upto' =
         Append(rows_upto, [c \in RowChips |-> RowsUpto(rows_upto, Len(rows_upto), c)])
    /\ touched' = Append(touched, {})
    /\ UNCHANGED <<page_indices, since_checkpoint, since_checkpoint_len,
                   checkpoint_instret, checkpoint_trace_heights,
                   suspend_on_segment, roomy>>

\* should_suspend finds the check due.  The four cases of check_and_segment.
Due ==
    /\ status = "running"
    /\ instrets_until_check = 0

CheckedInstret == instret + SEGMENT_CHECK_INSNS

\* Mutants of UpdateCheckpoint: the instruction count before the check is kept;
\* the heights before the new segment was initialized are kept.
CheckpointLags(n, heights) ==
    /\ checkpoint_instret' = instret
    /\ checkpoint_trace_heights' = heights
    /\ since_checkpoint' = {}
    /\ since_checkpoint_len' = 0

CheckpointBeforeReset(n, heights) ==
    /\ checkpoint_instret' = n
    /\ checkpoint_trace_heights' = UpdatedHeights
    /\ since_checkpoint' = {}
    /\ since_checkpoint_len' = 0

UpdateCheckpoint(n, heights) ==
    /\ checkpoint_instret' = n
    /\ checkpoint_trace_heights' = heights
    /\ since_checkpoint' = {}
    /\ since_checkpoint_len' = 0

CheckWithoutSegment ==
    /\ Due
    /\ ~SegmentationTrigger(CheckedInstret, UpdatedHeights)
    /\ instret' = CheckedInstret
    /\ instrets_until_check' = SEGMENT_CHECK_INSNS
    /\ trace_heights' = UpdatedHeights
    /\ addr_space_access_count' = 0
    /\ UpdateCheckpoint(CheckedInstret, UpdatedHeights)
    /\ UNCHANGED <<page_indices, segments, suspend_on_segment, status, history,
                   roomy>>

\* Mutant of NewSegment: the checkpoint is used even when no window has passed
\* since the segment began.
SegmentAtAnyCheckpoint ==
    Segment(InstretStart, checkpoint_instret, checkpoint_trace_heights)

\* create_segment_from_checkpoint: the checkpoint if it lies inside the
\* segment, the current state otherwise.
NewSegment ==
    IF checkpoint_instret > InstretStart
    THEN Segment(InstretStart, checkpoint_instret, checkpoint_trace_heights)
    ELSE Segment(InstretStart, CheckedInstret, UpdatedHeights)

ResetUnderflows ==
    \E c \in MeteredChips : UpdatedHeights[c] < NewSegment.trace_heights[c]

RegistersOverflow ==
    since_checkpoint_len + Cardinality(RegPages) > Capacity

\* Mutants of CarriedHeights: the pages since the checkpoint are not replayed;
\* the subtraction is the wrong way round.
CarriedWithoutReplay ==
    ApplyHeightUpdates(
        [c \in Chips |->
           IF c \in MemChips THEN 0
           ELSE IF c \in RowChips
                THEN UpdatedHeights[c] - NewSegment.trace_heights[c]
                ELSE UpdatedHeights[c]],
        Cardinality(RegPages))

CarriedSwapped ==
    ApplyHeightUpdates(
        [c \in Chips |->
           IF c \in MemChips THEN 0
           ELSE IF c \in RowChips
                THEN NewSegment.trace_heights[c] - UpdatedHeights[c]
                ELSE UpdatedHeights[c]],
        Cardinality(since_checkpoint \cup RegPages))

\* Heights of the new segment: what the executors reported since the cut,
\* and the pages since the checkpoint and of the registers, from zero.
CarriedHeights ==
    ApplyHeightUpdates(
        [c \in Chips |->
           IF c \in MemChips THEN 0
           ELSE IF c \in RowChips
                THEN UpdatedHeights[c] - NewSegment.trace_heights[c]
                ELSE UpdatedHeights[c]],
        Cardinality(since_checkpoint \cup RegPages))

CheckAndSegment ==
    /\ Due
    /\ SegmentationTrigger(CheckedInstret, UpdatedHeights)
    /\ ~ResetUnderflows
    /\ ~RegistersOverflow
    /\ instret' = CheckedInstret
    /\ instrets_until_check' = SEGMENT_CHECK_INSNS
    /\ segments' = Append(segments, NewSegment)
    /\ trace_heights' = CarriedHeights
    /\ page_indices' = since_checkpoint \cup RegPages
    /\ addr_space_access_count' = 0
    /\ UpdateCheckpoint(CheckedInstret, CarriedHeights)
    /\ status' = IF suspend_on_segment THEN "suspended" ELSE "running"
    /\ UNCHANGED <<suspend_on_segment, history, roomy>>

CheckPanics ==
    /\ Due
    /\ SegmentationTrigger(CheckedInstret, UpdatedHeights)
    /\ ResetUnderflows \/ RegistersOverflow
    /\ status' = IF ResetUnderflows THEN "underflow" ELSE "capacity"
    /\ UNCHANGED <<ctx, suspend_on_segment, history, roomy>>

\* execute_metered_until_suspend is called again on the suspended state.
Resume ==
    /\ status = "suspended"
    /\ status' = "running"
    /\ UNCHANGED <<ctx, suspend_on_segment, history, roomy>>

Stopped == status \in {"terminated", "failed", "capacity", "underflow"}
Done == Stopped /\ UNCHANGED vars

Next ==
    \/ \E i \in Insns : Execute(i) \/ ExecutePanics(i)
    \/ Fail
    \/ Terminate
    \/ CheckWithoutSegment
    \/ CheckAndSegment
    \/ CheckPanics
    \/ Resume
    \/ Done

Spec == Init /\ [][Next]_vars

-----------------------------------------------------------------------------
(* Properties.                                                             *)

HeightsType == [Chips -> Nat]
SegmentType == [instret_start : Nat, num_insns : Nat, trace_heights : HeightsType]

\* Type invariant of the metered context (MeteredCtx, MemoryCtx,
\* SegmentationCtx) and of the three history variables.
TypeOK ==
    /\ trace_heights \in HeightsType
    /\ page_indices \in SUBSET Pages
    /\ addr_space_access_count \in Nat
    /\ since_checkpoint \in SUBSET Pages
    /\ since_checkpoint_len \in Nat
    /\ segments \in Seq(SegmentType)
    /\ instret \in Nat
    /\ instrets_until_check \in 0..SEGMENT_CHECK_INSNS
    /\ checkpoint_instret \in Nat
    /\ checkpoint_trace_heights \in HeightsType
    /\ suspend_on_segment \in BOOLEAN
    /\ status \in {"running", "suspended", "terminated", "failed",
                   "capacity", "underflow"}
    /\ rows_upto \in Seq([RowChips -> Nat])
    /\ touched \in Seq(SUBSET Pages)
    /\ roomy \in BOOLEAN

IsFinal(k) == k = Len(segments) /\ status = "terminated"

\* Pages the instructions start + 1 .. end of the history t touch.
PagesIn(t, start, end) == UNION {t[n] : n \in (start + 1)..end}

\* The segments returned by metered execution tile the execution: each starts
\* where the one before ends, none is empty, none reaches past the executed
\* instructions, and after TERMINATE together they hold every instruction
\* once.  (check_and_segment cuts in the past, at the checkpoint, and
\* create_final_segment recomputes instret from the countdown.)
SegmentsTile ==
    /\ \A k \in 1..Len(segments) :
         /\ segments[k].num_insns > 0
         /\ segments[k].instret_start =
              IF k = 1 THEN 0 ELSE SegmentEnd(segments[k - 1])
    /\ InstretStart <= Len(touched)
    /\ status = "terminated" => InstretStart = Len(touched)

\* A segment's recorded heights cover what its own instructions produce:
\* exactly their rows for the executors' chips, at least every page they or
\* the register file touch for the memory chips, and the fixed height of the
\* constant chips.  Preflight sizes its arenas from these heights.
CoversSegment(r, t, s) ==
    LET start == s.instret_start
        end == SegmentEnd(s)
        pages == Cardinality(RegPages \cup PagesIn(t, start, end))
    IN /\ \A c \in RowChips :
            s.trace_heights[c] = RowsUpto(r, end, c) - RowsUpto(r, start, c)
       /\ \A c \in MemChips : s.trace_heights[c] >= PageRows(c) * pages
       /\ \A c \in ConstChips : s.trace_heights[c] = ConstHeight[c]

HeightsCoverExecution ==
    \A k \in 1..Len(segments) : CoversSegment(rows_upto, touched, segments[k])

\* Only a single check window can be over the limits: a segment cut by
\* check_and_segment whose heights exceed a limit holds exactly
\* SEGMENT_CHECK_INSNS instructions.  (The final segment is not checked.)
OversizedIsOneWindow ==
    \A k \in 1..Len(segments) :
        ~IsFinal(k) /\ ExceedsLimits(segments[k].trace_heights)
            => segments[k].num_insns = SEGMENT_CHECK_INSNS

\* When execution suspends, the VM state is at the boundary of the segment
\* just cut or one check window after it, never further.
SuspendsNearBoundary ==
    status = "suspended" =>
        Len(touched) - InstretStart \in {0, SEGMENT_CHECK_INSNS}

\* reset_trace_heights never subtracts more than was counted: the unwrap of
\* its checked_sub cannot panic.
NoUnderflow == status # "underflow"

\* As long as every instruction, the one that would panic included, leaves
\* room for the register pages and there are two instructions between checks,
\* the since-checkpoint buffer never overflows: neither an access nor
\* initialize_segment panics.
CapacitySlack ==
    /\ SEGMENT_CHECK_INSNS >= 2
    /\ Cardinality(RegPages) <= MAX_MEM_PAGE_OPS_PER_INSN
    /\ roomy

NoCapacityPanic == CapacitySlack => status # "capacity"

\* Metered execution never panics by itself: neither the subtraction of
\* reset_trace_heights nor the since-checkpoint buffer.
NoPanic == NoUnderflow /\ NoCapacityPanic

\* "Checkpoint of trace heights at last known state where all thresholds
\* satisfied": a checkpoint that a segment can be cut at is within the limits.
CheckpointWithinLimits ==
    checkpoint_instret > InstretStart => ~ExceedsLimits(checkpoint_trace_heights)
-----------------------------------------------------------------------------
(* The inductive invariant behind the properties above.                    *)

\* While the segment's rows are still being counted.
Open == status # "terminated"

\* The countdown, the retired instructions and the history agree.
Countdown ==
    /\ Len(rows_upto) = Len(touched)
    /\ status # "failed" =>
         Len(touched) = instret + SEGMENT_CHECK_INSNS - instrets_until_check
    /\ instret <= Len(touched)
    /\ Open => checkpoint_instret = instret
    /\ Open => InstretStart <= checkpoint_instret
    /\ status = "suspended" => instrets_until_check = SEGMENT_CHECK_INSNS
    /\ \A k \in 1..Len(segments) : SegmentEnd(segments[k]) <= Len(touched)

\* Rows counted for the open segment, and at its checkpoint.
RowsCounted ==
    Open => \A c \in RowChips :
        /\ trace_heights[c] = RowsUpto(rows_upto, Len(touched), c) - RowsUpto(rows_upto, InstretStart, c)
        /\ checkpoint_instret > InstretStart =>
             /\ checkpoint_trace_heights[c] =
                  RowsUpto(rows_upto, checkpoint_instret, c) - RowsUpto(rows_upto, InstretStart, c)
             /\ checkpoint_trace_heights[c] <= trace_heights[c]

\* A memory chip's height is PageRows for each page already turned into rows.
PagesCounted ==
    Open =>
        /\ addr_space_access_count <= Cardinality(page_indices)
        /\ RegPages \cup PagesIn(touched, InstretStart, Len(touched)) \subseteq page_indices
        /\ PagesIn(touched, checkpoint_instret, Len(touched)) \subseteq since_checkpoint
        /\ \A c \in MemChips :
             /\ trace_heights[c] =
                  PageRows(c) * (Cardinality(page_indices) - addr_space_access_count)
             /\ checkpoint_instret > InstretStart =>
                  /\ checkpoint_trace_heights[c] >=
                       PageRows(c) * Cardinality(
                           RegPages \cup PagesIn(touched, InstretStart, checkpoint_instret))
                  /\ checkpoint_trace_heights[c] <= trace_heights[c]

ConstantsKept ==
    Open => \A c \in ConstChips :
        /\ trace_heights[c] = ConstHeight[c]
        /\ checkpoint_instret > InstretStart =>
             checkpoint_trace_heights[c] = ConstHeight[c]

\* A checkpoint over the limits is one window into its segment, and a segment
\* just cut starts at most one window back.
CheckpointPlace ==
    /\ Open /\ checkpoint_instret > InstretStart
            /\ ExceedsLimits(checkpoint_trace_heights)
         => checkpoint_instret = InstretStart + SEGMENT_CHECK_INSNS
    /\ status = "suspended" =>
         checkpoint_instret \in {InstretStart, InstretStart + SEGMENT_CHECK_INSNS}

IInv ==
    /\ TypeOK
    /\ Countdown
    /\ SegmentsTile
    /\ HeightsCoverExecution
    /\ RowsCounted
    /\ PagesCounted
    /\ ConstantsKept
    /\ CheckpointPlace
    /\ OversizedIsOneWindow
    /\ NoUnderflow

\* Under CapacitySlack every instruction since the check has left room for
\* the register pages in the since-checkpoint buffer.
BufferHasRoom ==
    CapacitySlack /\ status \in {"running", "suspended"} =>
        since_checkpoint_len <=
            Cardinality(RegPages) +
            (SEGMENT_CHECK_INSNS - instrets_until_check) *
                (MAX_MEM_PAGE_OPS_PER_INSN - Cardinality(RegPages))

-----------------------------------------------------------------------------
(* The instances: one chip with rows, the three memory chips and one       *)
(* constant chip; one register page and two pages of guest memory.         *)

MCConstHeight == [c \in {"program"} |-> 3]
MCWidth == [c \in Chips |-> 1]
MCInteractions == [c \in Chips |-> IF c = "alu" THEN 2 ELSE 1]

Insn(rows, ops) == [rows |-> [c \in {"alu"} |-> rows], ops |-> ops]

\* A plain instruction, loads and stores of one or two pages, one so large
\* that a single check window exceeds the height limit, and one that uses the
\* whole page budget of an instruction and can fill the buffer.
MCInsns == {Insn(1, <<>>), Insn(1, <<"p1">>), Insn(2, <<"p2", "p1">>),
            Insn(9, <<"p2">>), Insn(3, <<"p1", "p2", "p1">>)}
=============================================================================
