---------------------------- MODULE OfflineMemory ----------------------------
(***************************************************************************)
(* Memory during preflight execution of one segment, and what trace        *)
(* generation puts on the memory bus.                                      *)
(*                                                                         *)
(* TracingMemory keeps, next to the data, the time of the last access of   *)
(* every block (4 cells; 0: never).  Each access becomes a row that        *)
(* receives the block as it was last seen and sends it as it is now.  At   *)
(* the end the boundary chip sends the initial and receives the final      *)
(* value of every touched chunk (8 cells: the blocks one Merkle leaf       *)
(* holds, the blocks of it that were not accessed included).  The proof    *)
(* verifies only if every message was sent as often as received.           *)
(***************************************************************************)
EXTENDS Integers, FiniteSets

CONSTANTS
    Chunks,             \* (address space, chunk label)
    BLOCKS_PER_CHUNK,
    Values,             \* contents of a block
    MaxTime             \* bound: 2^timestamp_max_bits - 1

Blocks == Chunks \X (0..BLOCKS_PER_CHUNK - 1)
ChunkOf(b) == b[1]
BlocksOf(c) == {c} \X (0..BLOCKS_PER_CHUNK - 1)

INITIAL_TIMESTAMP == 0

ASSUME MemoryAssumption ==
    /\ BLOCKS_PER_CHUNK \in Nat \ {0}
    /\ MaxTime \in Nat

VARIABLES
    image,       \* memory at the start of the segment
    data,
    meta,        \* time of the last access of each block
    timestamp,   \* time of the next access
    bus,         \* for each message: times sent minus times received
    record,      \* the last access: what its row says
    finalized

vars == <<image, data, meta, timestamp, bus, record, finalized>>

Message == [addr : Blocks, data : Values, timestamp : 0..MaxTime]
Msg(b, v, t) == [addr |-> b, data |-> v, timestamp |-> t]

\* 1 if message m is about block b holding v at time t, else 0.
Is(m, b, v, t) == IF m = Msg(b, v, t) THEN 1 ELSE 0

Record == [addr : Blocks, prev_data : Values, data : Values,
           prev_timestamp : 0..MaxTime, timestamp : 0..MaxTime]
NoRecord == [addr |-> {}]

-----------------------------------------------------------------------------
(* TracingMemory.                                                          *)

Init ==
    /\ image \in [Blocks -> Values]
    /\ data = image
    /\ meta = [b \in Blocks |-> INITIAL_TIMESTAMP]
    /\ timestamp = INITIAL_TIMESTAMP + 1
    /\ bus = [m \in Message |-> 0]
    /\ record = NoRecord
    /\ finalized = FALSE

PrevAccessTime(b) == meta[b]

\* The row of an access of block b that leaves v there.
Access(b, v) ==
    [addr |-> b, prev_data |-> data[b], data |-> v,
     prev_timestamp |-> PrevAccessTime(b), timestamp |-> timestamp]

\* What a row does to the bus (eval_bulk_access).
Apply(r) ==
    [m \in Message |->
       bus[m] - Is(m, r.addr, r.prev_data, r.prev_timestamp)
              + Is(m, r.addr, r.data, r.timestamp)]

Perform(b, v) ==
    /\ ~finalized
    /\ timestamp <= MaxTime
    /\ record' = Access(b, v)
    /\ bus' = Apply(Access(b, v))
    /\ meta' = [meta EXCEPT ![b] = timestamp]
    /\ data' = [data EXCEPT ![b] = v]
    /\ timestamp' = timestamp + 1
    /\ UNCHANGED <<image, finalized>>

Read(b) == Perform(b, data[b])

Write(b, v) == Perform(b, v)

\* An adapter skips the time of an access it does not make.
IncrementTimestamp ==
    /\ ~finalized
    /\ timestamp <= MaxTime
    /\ timestamp' = timestamp + 1
    /\ UNCHANGED <<image, data, meta, bus, record, finalized>>

-----------------------------------------------------------------------------
(* The boundary chip.                                                      *)

TouchedBlocks == {b \in Blocks : meta[b] > INITIAL_TIMESTAMP}

TouchedChunks == {ChunkOf(b) : b \in TouchedBlocks}

\* An untouched block of a touched chunk keeps its initial value and time 0.
FinalValue(b) == IF b \in TouchedBlocks THEN data[b] ELSE image[b]

\* Mutant of FinalTime: one time for the whole chunk, its last access.
FinalTimeOfChunk(b) ==
    CHOOSE t \in {meta[x] : x \in BlocksOf(ChunkOf(b))} :
        \A x \in BlocksOf(ChunkOf(b)) : meta[x] <= t

FinalTime(b) == IF b \in TouchedBlocks THEN meta[b] ELSE INITIAL_TIMESTAMP

\* The initial row of a touched chunk sends, its final row receives, one
\* message for each block of the chunk.
BoundaryRows(m) ==
    LET b == m.addr IN
    IF ChunkOf(b) \in TouchedChunks
    THEN Is(m, b, image[b], INITIAL_TIMESTAMP) - Is(m, b, FinalValue(b), FinalTime(b))
    ELSE 0

Finalize ==
    /\ ~finalized
    /\ finalized' = TRUE
    /\ bus' = [m \in Message |-> bus[m] + BoundaryRows(m)]
    /\ UNCHANGED <<image, data, meta, timestamp, record>>

Done == finalized /\ UNCHANGED vars

Next ==
    \/ \E b \in Blocks : Read(b) \/ \E v \in Values : Write(b, v)
    \/ IncrementTimestamp
    \/ Finalize
    \/ Done

Spec == Init /\ [][Next]_vars

-----------------------------------------------------------------------------
(* Properties.                                                             *)

\* Type invariant of TracingMemory and the bus.
TypeOK ==
    /\ image \in [Blocks -> Values]
    /\ data \in [Blocks -> Values]
    /\ meta \in [Blocks -> 0..MaxTime]
    /\ timestamp \in 1..MaxTime + 1
    /\ bus \in [Message -> Int]
    /\ record \in Record \cup {NoRecord}
    /\ finalized \in BOOLEAN

\* The memory argument closes: once the boundary chip has emitted its rows,
\* every message on the memory bus was sent exactly as often as received,
\* whatever blocks of a chunk were accessed, in whatever order.
BusBalances == finalized => \A m \in Message : bus[m] = 0

\* Every row satisfies the offline checker's constraint that the previous
\* access is strictly earlier (generate_timestamp_lt asserts it too).
TimestampsIncrease ==
    record # NoRecord => record.prev_timestamp < record.timestamp

\* Before the end, the only messages not yet balanced are the current value
\* of each accessed block and the receipt of its initial value.
Outstanding(m) ==
    IF m.addr \in TouchedBlocks
    THEN Is(m, m.addr, data[m.addr], meta[m.addr])
         - Is(m, m.addr, image[m.addr], INITIAL_TIMESTAMP)
    ELSE 0

BusOutstanding == ~finalized => \A m \in Message : bus[m] = Outstanding(m)

\* An untouched block still holds its initial value.
UntouchedKept == \A b \in Blocks \ TouchedBlocks : data[b] = image[b]

LastAccessPast == \A b \in Blocks : meta[b] < timestamp

IInv ==
    /\ TypeOK
    /\ LastAccessPast
    /\ UntouchedKept
    /\ TimestampsIncrease
    /\ BusOutstanding
    /\ BusBalances
=============================================================================
