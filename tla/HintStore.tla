------------------------------- MODULE HintStore -------------------------------
(***************************************************************************)
(* HINT_STOREW and HINT_BUFFER: the words at the front of the hint stream  *)
(* go to memory.  A buffer takes one row per word, so the chip has no core *)
(* and adapter of its own: the rows of an instruction are tied together by *)
(* transition constraints.  A few instructions are executed, and a trace   *)
(* is made of their records by either filler, or by a prover that chooses  *)
(* which rows continue a buffer and where it ends.                         *)
(***************************************************************************)
EXTENDS FieldLimbs

CONSTANTS
    RegPtrs, RegValues,            \* registers and what they may hold
    MaxStream,                     \* bound on the words of the hint stream
    POINTER_MAX_BITS,
    MAX_HINT_BUFFER_WORDS_BITS,
    FirstTs,
    MaxInstructions,               \* bound on the instructions executed
    MaxShape                       \* bound on the rows of an arbitrary trace

VARIABLES
    mem, stream, ts,               \* the machine: memory, hint stream, timestamp
    initial,                       \* the memory before the first instruction
    records,                       \* one per instruction executed
    failure,                       \* the error that stopped preflight execution
    metered,                       \* what metered execution made of the last instruction
    trace, requests, phase

vars == <<mem, stream, ts, initial, records, failure, metered, trace, requests, phase>>

MAX_HINT_BUFFER_WORDS == 2^MAX_HINT_BUFFER_WORDS_BITS - 1
REM_WORD_NUM_ZERO_LIMBS == NUM_LIMBS \div 2
UINT32_MAX == 2^NUM_BITS - 1

HintStoreAssumption ==
    /\ MAX_HINT_BUFFER_WORDS_BITS \in LIMB_BITS..(NUM_LIMBS - REM_WORD_NUM_ZERO_LIMBS) * LIMB_BITS - 1
    /\ MAX_HINT_BUFFER_WORDS_BITS < POINTER_MAX_BITS

Reg(p) == <<RV32_REGISTER_AS, p>>
Blocks == {p \in 0..2^POINTER_MAX_BITS - 1 : p % NUM_LIMBS = 0}
Block(p) == <<RV32_MEMORY_AS, p>>

InitialMemory(values) ==
    [x \in {Reg(p) : p \in RegPtrs} \cup {Block(p) : p \in Blocks} |->
        [data |-> IF x[1] = RV32_REGISTER_AS THEN Decompose(values[x[2]]) ELSE ZeroWord, ts |-> 0]]

\* What a phantom instruction or the host has put there: elements of F.
HintStream(words) == [k \in 1..NUM_LIMBS * words |-> (17 * k) % P]

Instructions == [op : {"HINT_STOREW", "HINT_BUFFER"}, a : RegPtrs, b : RegPtrs]

-----------------------------------------------------------------------------
(* Execution.                                                              *)

\* The bytes of the next n words; an element of F is cut to a byte.
HintWord(s, k) == [j \in Index |-> s[NUM_LIMBS * k + j + 1] % 2^LIMB_BITS]

NumWords(m, i) == IF i.op = "HINT_STOREW" THEN 1 ELSE Compose(m[Reg(i.a)].data)
MemPtr(m, i) == Compose(m[Reg(i.b)].data)

ErrorOf(m, s, i) ==
    CASE NumWords(m, i) = 0 -> "HintBufferZeroWords"
      [] NumWords(m, i) > MAX_HINT_BUFFER_WORDS -> "HintBufferTooLarge"
      [] Len(s) < NUM_LIMBS * NumWords(m, i) -> "HintOutOfBounds"
      [] OTHER -> "none"

\* Three timestamps a word: the reads of the first are left out by the others.
Ops(m, s, i) ==
    LET n == NumWords(m, i)
        Words(k) == Write(Block(MemPtr(m, i) + NUM_LIMBS * k), HintWord(s, k))
    IN  [t \in 1..3 * n |->
            CASE t = 1 -> Read(Reg(i.b))
              [] t = 2 /\ i.op = "HINT_BUFFER" -> Read(Reg(i.a))
              [] t % 3 = 0 -> Words(t \div 3 - 1)
              [] OTHER -> Skip]

\* The memory model stops an access out of bounds in every mode.
InBounds(m, i) == MemPtr(m, i) % NUM_LIMBS = 0
                    /\ MemPtr(m, i) + NUM_LIMBS * NumWords(m, i) <= 2^POINTER_MAX_BITS

RecordOf(m, s, t, i) ==
    [num_words |-> NumWords(m, i), timestamp |-> t, mem_ptr_ptr |-> i.b, mem_ptr |-> MemPtr(m, i),
     num_words_ptr |-> IF i.op = "HINT_STOREW" THEN UINT32_MAX ELSE i.a,
     accesses |-> Accesses(m, t, Ops(m, s, i)),
     var |-> [k \in 1..NumWords(m, i) |-> HintWord(s, k - 1)]]

MeteredError(m, s, i) ==
    CASE NumWords(m, i) = 0 -> "HintBufferZeroWords"
      [] NumWords(m, i) > MAX_HINT_BUFFER_WORDS -> "HintBufferTooLarge"
      [] Len(s) < NUM_LIMBS * NumWords(m, i) -> "HintOutOfBounds"
      [] OTHER -> "none"

\* execute_e12_impl: the height change is the number of words.
MeteredRows(m, i) == NumWords(m, i)
Metered(m, s, i) ==
    IF MeteredError(m, s, i) # "none" THEN [error |-> MeteredError(m, s, i), rows |-> 0, writes |-> <<>>, left |-> s]
    ELSE [error |-> "none", rows |-> MeteredRows(m, i),
          writes |-> [k \in 1..NumWords(m, i) |-> <<MemPtr(m, i) + NUM_LIMBS * (k - 1), HintWord(s, k - 1)>>],
          left |-> SubSeq(s, NUM_LIMBS * NumWords(m, i) + 1, Len(s))]

Start ==
    /\ \E values \in [RegPtrs -> RegValues] : mem = InitialMemory(values)
    /\ initial = mem
    /\ stream \in {HintStream(n) : n \in 0..MaxStream}
    /\ ts = FirstTs /\ records = <<>> /\ failure = "none" /\ trace = <<>> /\ requests = <<>>
    /\ metered = [error |-> "none", rows |-> 0, writes |-> <<>>, left |-> stream]
    /\ phase = "executing"

\* Rv32HintStoreExecutor::execute; an error leaves the timestamps of the reads.
ExecuteInstruction(i) ==
    /\ phase = "executing" /\ failure = "none" /\ Len(records) < MaxInstructions
    /\ LET n == NumWords(mem, i)
       IN  /\ metered' = Metered(mem, stream, i)
           /\ failure' = ErrorOf(mem, stream, i)
           /\ IF failure' # "none" THEN UNCHANGED <<mem, stream, ts, records>>
              ELSE /\ InBounds(mem, i)
                   /\ mem' = After(mem, ts, Ops(mem, stream, i))[3 * n]
                   /\ stream' = SubSeq(stream, NUM_LIMBS * n + 1, Len(stream))
                   /\ ts' = ts + 3 * n
                   /\ records' = Append(records, RecordOf(mem, stream, ts, i))
    /\ UNCHANGED <<initial, trace, requests, phase>>

-----------------------------------------------------------------------------
(* Trace generation: a record's rows hold the record until they are filled *)
(* from the last to the first.                                             *)

ZeroRow ==
    [is_single |-> 0, is_buffer |-> 0, is_buffer_start |-> 0, rem_words_limbs |-> ZeroWord, timestamp |-> 0,
     mem_ptr_ptr |-> 0, mem_ptr_limbs |-> ZeroWord, num_words_ptr |-> 0, data |-> ZeroWord,
     mem_ptr_aux |-> NoAux, num_words_aux |-> NoAux, write_aux |-> NoAux]

\* Row idx of a record, with what the cursors of the loop have come to.
RowOf(r, idx, timestamp, memPtr) ==
    LET single == r.num_words_ptr = UINT32_MAX
        start == idx = 0 /\ ~ single
    IN  [is_single |-> FromBool(single), is_buffer |-> FromBool(~ single), is_buffer_start |-> FromBool(start),
         rem_words_limbs |-> Decompose(r.num_words - idx), timestamp |-> timestamp,
         mem_ptr_ptr |-> r.mem_ptr_ptr, mem_ptr_limbs |-> Decompose(memPtr),
         num_words_ptr |-> IF start THEN r.num_words_ptr ELSE 0, data |-> r.var[idx + 1],
         mem_ptr_aux |-> IF idx = 0 THEN AuxOf(r.accesses[1]) ELSE NoAux,
         num_words_aux |-> IF start THEN AuxOf(r.accesses[2]) ELSE NoAux,
         write_aux |-> AuxOf(r.accesses[3 * idx + 3])]

\* The cursors start behind the last word and are stepped back before each row.
FillRecord(r) ==
    [k \in 1..r.num_words |->
        RowOf(r, k - 1, r.timestamp + 3 * r.num_words - 3 * (r.num_words - k + 1),
              r.mem_ptr + NUM_LIMBS * r.num_words - NUM_LIMBS * (r.num_words - k + 1))]

CudaFillRecord(r) ==
    [k \in 1..r.num_words |->
        RowOf(r, k - 1, r.timestamp + 3 * (k - 1), (r.mem_ptr + NUM_LIMBS * (k - 1)) % 2^NUM_BITS)]

MslShift == 2^(NUM_BITS - POINTER_MAX_BITS)
RemWordsMslShift == 2^((NUM_LIMBS - REM_WORD_NUM_ZERO_LIMBS) * LIMB_BITS - MAX_HINT_BUFFER_WORDS_BITS)

RequestsOf(r) ==
    <<RequestRange((r.mem_ptr \div 2^((NUM_LIMBS - 1) * LIMB_BITS)) * MslShift,
                   ((r.num_words \div 2^(LIMB_BITS * (NUM_LIMBS - 1 - REM_WORD_NUM_ZERO_LIMBS))) % 2^LIMB_BITS)
                       * RemWordsMslShift)>>
    \o [k \in 1..r.num_words * (NUM_LIMBS \div 2) |->
            LET word == r.var[1 + (k - 1) \div (NUM_LIMBS \div 2)]
                pair == (k - 1) % (NUM_LIMBS \div 2)
            IN  RequestRange(word[2 * pair], word[2 * pair + 1])]

\* The rows of all records one after the other.
Concat(rs, Rows(_)) ==
    LET rows[k \in 0..Len(rs)] == IF k = 0 THEN <<>> ELSE rows[k - 1] \o Rows(rs[k])
    IN  rows[Len(rs)]
NextPowerOfTwo(n) == CHOOSE h \in {2^k : k \in 0..n} : h >= n /\ \A k \in 0..n : 2^k >= n => 2^k >= h
Padded(rows) == rows \o [k \in 1..NextPowerOfTwo(Len(rows)) - Len(rows) |-> ZeroRow]

\* No trace is made for no rows.
FillTrace ==
    /\ phase = "executing" /\ failure = "none" /\ records # <<>>
    /\ trace' = Padded(Concat(records, FillRecord))
    /\ requests' = Concat(records, RequestsOf)
    /\ phase' = "filled"
    /\ UNCHANGED <<mem, stream, ts, initial, records, failure, metered>>

\* One thread a row: the offsets give each its record and its place in it.
CudaOffsets == Concat([k \in 1..Len(records) |-> [record |-> k, words |-> records[k].num_words]],
                      LAMBDA r : [j \in 1..r.words |-> <<r.record, j>>])
CudaFillTrace ==
    /\ phase = "executing" /\ failure = "none" /\ records # <<>>
    /\ trace' = Padded([k \in 1..Len(CudaOffsets) |->
                           CudaFillRecord(records[CudaOffsets[k][1]])[CudaOffsets[k][2]]])
    /\ requests' = Concat(records, RequestsOf)
    /\ phase' = "filled"
    /\ UNCHANGED <<mem, stream, ts, initial, records, failure, metered>>

-----------------------------------------------------------------------------
(* The AIR.                                                                *)

IsValid(r) == r.is_single + r.is_buffer
IsStart(r) == r.is_single + r.is_buffer_start
IsEnd(next) == 1 - next.is_buffer + next.is_buffer_start
When(c, e) == IsZero(c) \/ e

EvalRow(r) ==
    /\ IsBool(r.is_single) /\ IsBool(r.is_buffer) /\ IsBool(r.is_buffer_start) /\ IsBool(IsValid(r))
    /\ When(r.is_buffer_start, Eq(r.is_buffer, 1))
    /\ \A j \in 1..REM_WORD_NUM_ZERO_LIMBS : IsZero(r.rem_words_limbs[NUM_LIMBS - j])

EvalEnd(local, next) ==
    /\ When(local.is_single, Eq(IsEnd(next), 1))
    /\ When(IsValid(local), When(IsEnd(next), Eq(Compose(local.rem_words_limbs), 1)))

EvalContinue(local, next) ==
    When(1 - IsEnd(next),
         /\ Eq(Compose(local.rem_words_limbs) - Compose(next.rem_words_limbs), 1)
         /\ Eq(Compose(next.mem_ptr_limbs) - Compose(local.mem_ptr_limbs), NUM_LIMBS)
         /\ Eq(local.timestamp + 3, next.timestamp))

\* The last row is followed by the first, where only when_transition holds off.
Following(rows, k) == rows[IF k = Len(rows) THEN 1 ELSE k + 1]

EvalTrace(rows) ==
    /\ Eq(IsEnd(rows[1]), 1)
    /\ \A k \in 1..Len(rows) :
        /\ EvalRow(rows[k])
        /\ k < Len(rows) => When(1 - IsValid(rows[k]), IsZero(IsValid(rows[k + 1])))
        /\ EvalEnd(rows[k], Following(rows, k))
        /\ EvalContinue(rows[k], Following(rows, k))

Messages(r) ==
    <<BusRead(IsStart(r), Reg(r.mem_ptr_ptr), r.mem_ptr_limbs, r.timestamp, r.mem_ptr_aux),
      BusRead(r.is_buffer_start, Reg(r.num_words_ptr), r.rem_words_limbs, r.timestamp + 1, r.num_words_aux),
      BusWrite(IsValid(r), Block(Compose(r.mem_ptr_limbs) % P), r.data, r.timestamp + 2, r.write_aux)>>

Sends(r) ==
    <<Send(IsStart(r), RangeKey(r.mem_ptr_limbs[NUM_LIMBS - 1] * MslShift,
                                r.rem_words_limbs[NUM_LIMBS - 1 - REM_WORD_NUM_ZERO_LIMBS] * RemWordsMslShift))>>
    \o [k \in 1..NUM_LIMBS \div 2 |-> Send(IsValid(r), RangeKey(r.data[2 * k - 2], r.data[2 * k - 1]))]

\* What the first row of an instruction tells the execution bus.
Executed(r) ==
    [op |-> IF r.is_single = 1 THEN "HINT_STOREW" ELSE "HINT_BUFFER", a |-> r.is_buffer * r.num_words_ptr,
     b |-> r.mem_ptr_ptr, timestamp |-> r.timestamp,
     to_timestamp |-> (r.timestamp + 3 * Compose(r.rem_words_limbs)) % P]

SendsOn(rows) == SelectSeq(Concat(rows, Sends), LAMBDA s : s.count # 0)
LookupsHit(rows) ==
    LET sends == SendsOn(rows)
    IN  \A k \in 1..Len(sends) : InTable(sends[k].key, 0, <<0, 0>>)
InOrder(rows) ==
    LET msgs == SelectSeq(Concat(rows, Messages), LAMBDA x : x.count # 0)
    IN  \A k \in 1..Len(msgs) : msgs[k].acc.prev_ts < msgs[k].acc.ts % P
ExecutedBy(rows) ==
    LET starts == SelectSeq(rows, LAMBDA r : IsStart(r) # 0)
    IN  [k \in 1..Len(starts) |-> Executed(starts[k])]

Claims(rows) == Claimed(Concat(rows, Messages))
PerformedBy == Performed(Concat(records, LAMBDA r : r.accesses))
Places(accs) == [k \in 1..Len(accs) |-> <<accs[k].op, accs[k].addr, accs[k].ts>>]

Accepts(rows) ==
    /\ EvalTrace(rows)
    /\ LookupsHit(rows)
    /\ InOrder(rows)
    /\ BusAccepts(initial, Concat(rows, Messages))

\* The instructions that the program and the execution bus ask for.
Recorded == [k \in 1..Len(records) |->
    LET r == records[k]
    IN  [op |-> IF r.num_words_ptr = UINT32_MAX THEN "HINT_STOREW" ELSE "HINT_BUFFER",
         a |-> IF r.num_words_ptr = UINT32_MAX THEN 0 ELSE r.num_words_ptr, b |-> r.mem_ptr_ptr,
         timestamp |-> r.timestamp, to_timestamp |-> r.timestamp + 3 * r.num_words]]

\* A trace of the prover's: first rows of the instructions in turn, rows that
\* continue what is above them, and padding; the values are then forced, and
\* the columns that say what was in memory are taken from what is there.
Continuation(before, r, n) ==
    LET ptr == (Compose(r.mem_ptr_limbs) + n * NUM_LIMBS) % P
        at == IF Block(ptr) \in DOMAIN before THEN before[Block(ptr)] ELSE [data |-> ZeroWord, ts |-> 0]
    IN  [r EXCEPT !.is_buffer_start = 0, !.num_words_ptr = 0, !.is_single = 0, !.is_buffer = 1,
                  !.rem_words_limbs = [ZeroWord EXCEPT ![0] = (Compose(r.rem_words_limbs) - n) % P],
                  !.mem_ptr_limbs = [ZeroWord EXCEPT ![0] = ptr],
                  !.timestamp = (r.timestamp + 3 * n) % P,
                  !.mem_ptr_aux = NoAux, !.num_words_aux = NoAux,
                  !.write_aux = [prev_ts |-> at.ts, prev |-> at.data]]

\* The rows of a shape, the k-th a continuation of the last that is none.
RowsOfShape(before, heads, shape) ==
    LET Starts(k) == Cardinality({j \in 1..k : shape[j] = "start"})
        HeadOf(k) == LET js == {j \in 1..k : shape[j] # "continue"}
                   IN  IF js = {} THEN 0 ELSE CHOOSE j \in js : \A i \in js : i <= j
        Row(j) == IF j = 0 \/ shape[j] = "pad" THEN ZeroRow ELSE heads[Starts(j)]
    IN  [k \in 1..Len(shape) |->
            IF HeadOf(k) = k THEN Row(k) ELSE Continuation(before, Row(HeadOf(k)), k - HeadOf(k))]

\* A buffer that goes on for n rows.
LongShape(n) == [k \in 1..n |-> IF k = 1 THEN "start" ELSE "continue"]
Shapes ==
    {s \in UNION {[1..n -> {"start", "continue", "pad"}] : n \in 1..MaxShape} :
        Cardinality({k \in DOMAIN s : s[k] = "start"}) = Len(records)}
    \cup (IF Len(records) = 1 THEN {LongShape(n) : n \in 1..P + MAX_HINT_BUFFER_WORDS} ELSE {})

ForgeTrace ==
    /\ phase = "executing" /\ failure = "none" /\ records # <<>>
    /\ LET heads == [k \in 1..Len(records) |-> FillRecord(records[k])[1]]
           forged == {RowsOfShape(initial, heads, shape) : shape \in Shapes}
       IN  trace' \in {rows \in forged : Accepts(rows) /\ ExecutedBy(rows) = Recorded}
    /\ phase' = "forged"
    /\ UNCHANGED <<mem, stream, ts, initial, records, failure, metered, requests>>

Next ==
    \/ \E i \in Instructions : ExecuteInstruction(i)
    \/ FillTrace
    \/ CudaFillTrace
    \/ ForgeTrace

Spec == Start /\ [][Next]_vars

-----------------------------------------------------------------------------
\* Either filler's trace, the records taken apart again by the number of
\* words in their headers, satisfies the constraints of every row and of the
\* transitions between instructions, asks for exactly the lookups counted,
\* claims exactly the accesses that execution performed and moves the
\* execution bus as execution moved (Rv32HintStoreFiller::fill_trace).
HonestTraceAccepted ==
    phase = "filled" =>
        /\ Accepts(trace)
        /\ Claims(trace) = PerformedBy
        /\ ExecutedBy(trace) = Recorded
        /\ LET sends == SendsOn(trace)
           IN  \A key \in {requests[k] : k \in 1..Len(requests)} \cup {sends[k].key : k \in 1..Len(sends)} :
                  Cardinality({k \in 1..Len(requests) : requests[k] = key})
                      = Cardinality({k \in 1..Len(sends) : sends[k].key = key})

\* However the prover lays out the rows, for the same instructions only the
\* words that execution wrote can be written, at the same addresses and
\* times: no row continues what is not a buffer, none is left out, and a
\* buffer that goes on until its counter has wrapped around leaves memory
\* (Rv32HintStoreAir::eval, and the note there on additional rows).
AcceptedTraceWritesBuffer ==
    phase = "forged" => Places(Claims(trace)) = Places(PerformedBy)

\* Metered execution fails exactly when preflight execution does, with the
\* same error, takes the same words off the stream, and counts one row for
\* each row of the record (execute_e12_impl against execute).
ModesAgree ==
    /\ metered.error = failure
    /\ metered.left = stream
    /\ records # <<>> /\ failure = "none" =>
        LET r == records[Len(records)]
        IN  /\ metered.rows = Len(r.var)
            /\ metered.writes = [k \in 1..Len(r.var) |-> <<r.mem_ptr + NUM_LIMBS * (k - 1), r.var[k]>>]
=============================================================================
