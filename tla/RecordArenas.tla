----------------------------- MODULE RecordArenas -----------------------------
(***************************************************************************)
(* The buffers into which preflight execution writes the records of one    *)
(* chip, and the trace that is made of them.                               *)
(*                                                                         *)
(* A MatrixRecordArena is the trace itself: a record lies in the row(s) it *)
(* will become, the adapter part at the start, the core part after the     *)
(* adapter's columns.  A DenseRecordArena packs records byte by byte, each *)
(* aligned; a RecordSeeker finds them again and, where the trace is made   *)
(* on the CPU, copies them into a MatrixRecordArena.  Both are created     *)
(* with the height that metered execution estimated.  The two run here in  *)
(* lockstep on the same records, so that what becomes of them can be       *)
(* compared.                                                               *)
(*                                                                         *)
(* A byte of a record is <<record, part, index>>, any other is ZeroByte.   *)
(***************************************************************************)
EXTENDS Integers, Sequences, FiniteSets

CONSTANTS
    Layouts,          \* the record types of the instance, see LayoutAssumption
    FIELD_BYTES,      \* size_of::<F>()
    MAX_ALIGNMENT,
    MaxHeight,        \* bound: estimated heights
    MaxRows           \* bound: rows of a multi-row record

\* A layout: part sizes and alignments in bytes, widths in field elements.
\* A multi-row record has no core part: its size grows with its rows, and its
\* alignment is that of its header.  Alignments are powers of two, so that of
\* two the smaller divides the larger, and a size is a multiple of its alignment.
LayoutType ==
    [multi_row : BOOLEAN,
     adapter_size : Nat \ {0}, adapter_alignment : Nat \ {0},
     core_size : Nat, core_alignment : Nat \ {0},
     adapter_width : Nat, width : Nat \ {0}]

Divides(k, n) == n % k = 0

ASSUME LayoutAssumption ==
    /\ Layouts \subseteq LayoutType
    /\ FIELD_BYTES \in Nat \ {0} /\ MAX_ALIGNMENT \in Nat \ {0}
    /\ MaxHeight \in Nat /\ MaxRows \in Nat
    /\ \A l \in Layouts :
        /\ Divides(l.adapter_alignment, l.adapter_size)
        /\ Divides(l.adapter_alignment, MAX_ALIGNMENT)
        /\ Divides(l.core_alignment, MAX_ALIGNMENT)
        /\ Divides(l.adapter_alignment, FIELD_BYTES)
        /\ Divides(l.core_alignment, FIELD_BYTES)
        /\ Divides(l.core_alignment, l.core_size)
        /\ l.adapter_width < l.width
        /\ IF l.multi_row
           THEN /\ Divides(l.core_alignment, l.adapter_alignment)
                /\ \A r \in 1..MaxRows :
                       l.adapter_size + r * l.core_size <= r * l.width * FIELD_BYTES
           ELSE /\ \/ Divides(l.core_alignment, l.adapter_alignment)
                   \/ Divides(l.adapter_alignment, l.core_alignment)
                /\ l.adapter_size <= l.adapter_width * FIELD_BYTES
                /\ l.core_size <= (l.width - l.adapter_width) * FIELD_BYTES

VARIABLES
    layout, height,      \* of this chip: record type, estimated height
    base,                \* address of the dense buffer modulo MAX_ALIGNMENT
    trace_buffer,        \* MatrixRecordArena: bytes
    trace_offset,        \* in field elements
    records_buffer,      \* DenseRecordArena: bytes
    position,
    allocated,           \* history: [rows, at] of each record
    trace,               \* what each arena became: <<matrix, transferred>>
    status               \* "executing", "panicked", "done"

arenaVars == <<layout, height, base, trace_buffer, trace_offset, records_buffer,
               position, allocated, trace, status>>

-----------------------------------------------------------------------------
(* Arithmetic of layouts.                                                  *)

NextMultipleOf(n, k) == ((n + k - 1) \div k) * k

\* next_power_of_two_or_zero
NextPowerOfTwoOrZero(n) ==
    IF n = 0 THEN 0 ELSE CHOOSE m \in {2^i : i \in 0..n} : m >= n /\ m < 2 * n

IsPowerOfTwo(n) == \E i \in 0..n : n = 2^i

\* Bytes of a record of the given rows, without padding.
RecordSize(l, rows) == l.adapter_size + rows * l.core_size

\* get_aligned_sizes, and the same computation in alloc.
AlignedSizes(l) ==
    LET a == NextMultipleOf(l.adapter_size, l.core_alignment)
    IN  <<a, NextMultipleOf(a + l.core_size, l.adapter_alignment) - a>>

\* Bytes a record occupies in the dense arena.
AlignedRecordSize(l, rows) ==
    IF l.multi_row
    THEN NextMultipleOf(RecordSize(l, rows), l.adapter_alignment)
    ELSE AlignedSizes(l)[1] + AlignedSizes(l)[2]

-----------------------------------------------------------------------------
(* Creation, from the estimated height.                                    *)

ZeroByte == <<0, "zero", 0>>
Zeros(n) == [i \in 0..n - 1 |-> ZeroByte]

RowBytes == layout.width * FIELD_BYTES

\* MatrixRecordArena::with_capacity
MatrixWithCapacity(h, w) == Zeros(NextPowerOfTwoOrZero(h) * w * FIELD_BYTES)

\* Mutant of DenseWithCapacity: no room for the first record's alignment.
DenseWithCapacityExact(h, w) == Zeros(h * w * FIELD_BYTES)

\* DenseRecordArena::with_capacity
DenseWithCapacity(h, w) == Zeros(h * w * FIELD_BYTES + MAX_ALIGNMENT)

\* The first position at which the address is a multiple of MAX_ALIGNMENT.
AlignOffset == (MAX_ALIGNMENT - base) % MAX_ALIGNMENT

ArenaInit ==
    /\ layout \in Layouts
    /\ height \in 0..MaxHeight
    /\ base \in 0..MAX_ALIGNMENT - 1
    /\ trace_buffer = MatrixWithCapacity(height, layout.width)
    /\ trace_offset = 0
    /\ records_buffer = DenseWithCapacity(height, layout.width)
    /\ position = AlignOffset
    /\ allocated = <<>>
    /\ trace = <<>>
    /\ status = "executing"

-----------------------------------------------------------------------------
(* Preflight execution: alloc, then the executor fills in the record.      *)

\* buf with the bytes of the given part of record n written from at.
WritePart(buf, at, n, part, size) ==
    [i \in DOMAIN buf |-> IF i - at \in 0..size - 1 THEN <<n, part, i - at>> ELSE buf[i]]

\* The record as written through the references custom_borrow returns: its
\* core part (or the variable part of a multi-row record) starts at split.
WriteRecord(buf, at, split, n, rows) ==
    WritePart(WritePart(buf, at, n, "adapter", layout.adapter_size),
              at + split, n, "core",
              IF layout.multi_row THEN rows * layout.core_size ELSE layout.core_size)

MatrixSplit == IF layout.multi_row THEN layout.adapter_size
               ELSE layout.adapter_width * FIELD_BYTES
DenseSplit == IF layout.multi_row THEN layout.adapter_size ELSE AlignedSizes(layout)[1]

\* alloc_buffer slices the trace buffer, which panics out of bounds.
MatrixHasRoom(rows) ==
    (trace_offset + rows * layout.width) * FIELD_BYTES <= Cardinality(DOMAIN trace_buffer)

\* alloc_bytes checks in debug builds only.
DenseHasRoom(rows) ==
    position + AlignedRecordSize(layout, rows) <= Cardinality(DOMAIN records_buffer)

RowsOf(r) == IF layout.multi_row THEN r ELSE 1

Alloc(rows) ==
    LET n == Len(allocated) + 1
    IN  /\ status = "executing"
        /\ rows = RowsOf(rows)
        /\ MatrixHasRoom(rows)
        /\ DenseHasRoom(rows)
        /\ trace_buffer' = WriteRecord(trace_buffer, trace_offset * FIELD_BYTES,
                                       MatrixSplit, n, rows)
        /\ trace_offset' = trace_offset + rows * layout.width
        /\ records_buffer' = WriteRecord(records_buffer, position, DenseSplit, n, rows)
        /\ position' = position + AlignedRecordSize(layout, rows)
        /\ allocated' = Append(allocated, [rows |-> rows, at |-> position])
        /\ UNCHANGED <<layout, height, base, trace, status>>

AllocPanics(rows) ==
    /\ status = "executing"
    /\ rows = RowsOf(rows)
    /\ ~MatrixHasRoom(rows) \/ ~DenseHasRoom(rows)
    /\ allocated' = Append(allocated, [rows |-> rows, at |-> position])
    /\ status' = "panicked"
    /\ UNCHANGED <<layout, height, base, trace_buffer, trace_offset, records_buffer,
                   position, trace>>

-----------------------------------------------------------------------------
(* Trace generation.                                                       *)

\* into_matrix: the rows in use and zero rows up to a power of two.  The repository
\* never calls force_matrix_dimensions, so allow_truncate is always true.
IntoMatrix(buf, offset) ==
    LET used == offset \div layout.width
    IN  [r \in 0..NextPowerOfTwoOrZero(used) - 1 |->
            [i \in 0..RowBytes - 1 |-> buf[r * RowBytes + i]]]

\* extract_layout: a record says itself how many rows it has.
ExtractLayout(n) == allocated[n].rows

\* Copy len bytes of the dense buffer into the trace (copy_nonoverlapping).
Copy(dst, at, from, len) ==
    [i \in DOMAIN dst |-> IF i - at \in 0..len - 1 THEN records_buffer[from + i - at]
                          ELSE dst[i]]

\* One record of transfer_to_matrix_arena: s holds the position in the dense
\* buffer, the trace and its offset.  The record at a position that no record
\* starts at cannot be read.
TransferOne(s) ==
    LET byte  == records_buffer[s.offset]
        rows  == IF layout.multi_row THEN ExtractLayout(byte[1]) ELSE 1
        at    == s.trace_offset * FIELD_BYTES
        size  == AlignedSizes(layout)
        whole == AlignedRecordSize(layout, rows)
    IN  IF byte[2] # "adapter" \/ byte[3] # 0 THEN [s EXCEPT !.ok = FALSE]
        ELSE [offset |-> s.offset + whole,
              trace_offset |-> s.trace_offset + rows * layout.width,
              buffer |-> IF layout.multi_row THEN Copy(s.buffer, at, s.offset, whole)
                         ELSE Copy(Copy(s.buffer, at, s.offset, size[1]),
                                   at + layout.adapter_width * FIELD_BYTES,
                                   s.offset + size[1], size[2]),
              ok |-> TRUE]

\* transfer_to_matrix_arena into an arena of the rows in use: the state after
\* each turn of the loop, which has one per record.
TransferStart ==
    [offset |-> AlignOffset, trace_offset |-> 0, ok |-> TRUE,
     buffer |-> MatrixWithCapacity(trace_offset \div layout.width, layout.width)]

TransferTurn(s) == IF s.ok /\ s.offset < position THEN TransferOne(s) ELSE s

Transfers ==
    LET after[k \in 0..Len(allocated)] ==
          IF k = 0 THEN TransferStart ELSE TransferTurn(after[k - 1])
    IN  after

Transfer == Transfers[Len(allocated)]

\* generate_proving_ctx of VmChipWrapper, and of the hybrid chips.
GenerateProvingCtx ==
    /\ status = "executing"
    /\ trace' = <<IntoMatrix(trace_buffer, trace_offset),
                  IntoMatrix(Transfer.buffer, Transfer.trace_offset)>>
    /\ status' = "done"
    /\ UNCHANGED <<layout, height, base, trace_buffer, trace_offset, records_buffer,
                   position, allocated>>

ArenaDone == status \in {"panicked", "done"} /\ UNCHANGED arenaVars

ArenaNext == (\E rows \in 1..MaxRows : Alloc(rows) \/ AllocPanics(rows)) \/ GenerateProvingCtx \/ ArenaDone

ArenaSpec == ArenaInit /\ [][ArenaNext]_arenaVars

-----------------------------------------------------------------------------
(* Properties.                                                             *)

\* Rows of the first n records.
RowsUpTo(records) ==
    LET sum[k \in 0..Len(records)] == IF k = 0 THEN 0 ELSE sum[k - 1] + records[k].rows
    IN  sum

RowsBefore(n) == RowsUpTo(allocated)[n]

\* While a segment stays within the height that metered execution estimated
\* for the chip, no record runs out of its buffer, dense or matrix
\* (the slice of alloc_buffer, the debug assertion of alloc_bytes).
EstimateSuffices ==
    status = "panicked" => RowsBefore(Len(allocated)) > height

\* The bytes through which a record of the dense arena is read lie at an address
\* that is a multiple of its alignment (the casts of custom_borrow).
RecordsAligned ==
    \A n \in 1..Len(allocated) :
        /\ (base + allocated[n].at) % layout.adapter_alignment = 0
        /\ (base + allocated[n].at + DenseSplit) % layout.core_alignment = 0

\* The bytes of record n, in the rows of trace t it belongs to.
RecordIn(t, n) ==
    LET first == RowsBefore(n - 1)
        byte(i) == t[first + i \div RowBytes][i % RowBytes]
    IN  /\ first + allocated[n].rows - 1 \in DOMAIN t
        /\ \A i \in 0..layout.adapter_size - 1 : byte(i) = <<n, "adapter", i>>
        /\ \A i \in 0..(RecordSize(layout, allocated[n].rows) - layout.adapter_size) - 1 :
               byte(MatrixSplit + i) = <<n, "core", i>>

\* Whichever arena execution wrote into, trace generation finds every record,
\* whole, in the rows that belong to it, and in the order of execution.
RecordsReachTheirRows ==
    status = "done" =>
        \A t \in {trace[1], trace[2]} : \A n \in 1..Len(allocated) : RecordIn(t, n)

\* Traces have power-of-two heights and nothing of a record in a padding row.
PaddingIsClean ==
    status = "done" =>
        \A t \in {trace[1], trace[2]} :
            /\ DOMAIN t # {} => IsPowerOfTwo(Cardinality(DOMAIN t))
            /\ \A r \in DOMAIN t :
                   r >= RowsBefore(Len(allocated)) => \A i \in DOMAIN t[r] : t[r][i] = ZeroByte

\* An arena sized by an estimate takes every record of an execution within the
\* estimate, each lies where its type may lie, and trace generation finds it whole
\* in its own rows through either arena, with clean rows behind the last
\* (with_capacity, alloc, RecordSeeker, into_matrix).
ArenasKeepRecords ==
    /\ EstimateSuffices
    /\ RecordsAligned
    /\ RecordsReachTheirRows
    /\ PaddingIsClean

-----------------------------------------------------------------------------
(* The inductive invariant behind ArenasKeepRecords.                       *)

\* The numbers of rows a record can have.
RowNumbers(l) == IF l.multi_row THEN 1..MaxRows ELSE {1}

ArenaType ==
    /\ layout \in Layouts /\ height \in 0..MaxHeight /\ base \in 0..MAX_ALIGNMENT - 1
    /\ allocated \in Seq([rows : RowNumbers(layout), at : Nat])
    /\ status \in {"executing", "panicked", "done"}

\* Record n lies at the given byte of a buffer, its core part at split.
RecordHeld(buf, at, split, n) ==
    /\ \A i \in 0..layout.adapter_size - 1 : buf[at + i] = <<n, "adapter", i>>
    /\ \A i \in 0..(RecordSize(layout, allocated[n].rows) - layout.adapter_size) - 1 :
           buf[at + split + i] = <<n, "core", i>>

\* A matrix arena of height h holds the first n records, each in its rows.
MatrixHolds(buf, h, n) ==
    /\ DOMAIN buf = 0..NextPowerOfTwoOrZero(h) * layout.width * FIELD_BYTES - 1
    /\ RowsBefore(n) <= NextPowerOfTwoOrZero(h)
    /\ \A k \in 1..n : RecordHeld(buf, RowsBefore(k - 1) * RowBytes, MatrixSplit, k)
    /\ \A i \in DOMAIN buf : i >= RowsBefore(n) * RowBytes => buf[i] = ZeroByte

\* Where record n ends in the dense arena.
EndOf(n) ==
    IF n = 0 THEN AlignOffset
    ELSE allocated[n].at + AlignedRecordSize(layout, allocated[n].rows)

\* The dense arena holds all records, one behind the other, in no more bytes
\* than their rows have.
DenseHolds ==
    /\ DOMAIN records_buffer = 0..height * layout.width * FIELD_BYTES + MAX_ALIGNMENT - 1
    /\ \A k \in 1..Len(allocated) :
           allocated[k].at = EndOf(k - 1) /\ RecordHeld(records_buffer, allocated[k].at, DenseSplit, k)
    /\ position = EndOf(Len(allocated))
    /\ position <= height * layout.width * FIELD_BYTES + MAX_ALIGNMENT
    /\ position <= AlignOffset + RowsBefore(Len(allocated)) * RowBytes
    /\ Divides(layout.adapter_alignment, base + position)
    /\ Divides(layout.core_alignment, base + position)

RecordsStored ==
    status = "executing" =>
        /\ trace_offset = RowsBefore(Len(allocated)) * layout.width
        /\ MatrixHolds(trace_buffer, height, Len(allocated))
        /\ DenseHolds

ArenaInv == ArenaType /\ RecordsStored /\ ArenasKeepRecords
=============================================================================
