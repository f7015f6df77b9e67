--------------------------- MODULE DeferralExtension ---------------------------
(* The deferral extension, from CALL and OUTPUT instructions to the traces that  *)
(* prove them.  The guest names an input by its commitment; CALL runs the        *)
(* deferred function outside the guest and writes the commitment and length of   *)
(* the output, hashing both into the accumulators of the circuit; OUTPUT writes  *)
(* the output itself.  A program is executed twice, metered and then segment by  *)
(* segment with tracing, after which the chips are filled, on a CPU or a GPU.    *)
(*                                                                               *)
(* Scaled: a digest has two cells, a block of memory one.  A value of two cells  *)
(* is one TLA+ value; its halves are what is read and written.  Poseidon2 is a   *)
(* free constructor: equal digests have equal preimages.                         *)
(*                                                                               *)
(* The module also checks, each in a part of its own, what forged traces of the  *)
(* extension's AIRs can claim, the system's Poseidon2 and connector chips, the   *)
(* configuration of the VM (VmConfiguration) and the way from an ELF file to a   *)
(* program (Transpiler).                                                         *)
EXTENDS Integers, Sequences, FiniteSets, SequencesExt, FiniteSetsExt, TLC

CONSTANTS MaxInsns,    \* instructions of a program
          MaxPerSegment,
          MaxSegments

VARIABLES part,      \* which part of the module a behaviour is about
          phase, backend,
          streams,     \* the deferral states a program starts with
          guest,       \* memory and deferral states of the running execution
          metered,     \* segments and trace heights found by metered execution
          segment,     \* the segment being proved, and the next instruction in it
          tracing,     \* the tracing memory of the segment
          records,     \* the records of the preflight executors
          rows,        \* the filled traces of the CALL and OUTPUT chips
          threads,     \* lookups that each thread of trace generation still counts
          lookup,      \* what the shared chips have counted
          tables,      \* traces of the shared chips
          forged,      \* a trace that some prover puts together
          limbs,       \* a value and the limbs that claim to represent it
          config, executors, airs, chips, proving, outcome,
          word, emitted, file, loader, loaded

proverVars == <<phase, backend, streams, guest, metered, segment, tracing, records, rows, threads, lookup, tables>>

DIGEST_SIZE == 2
DIGEST_MEMORY_OPS == 2
COMMIT_MEMORY_OPS == 2
OUTPUT_TOTAL_MEMORY_OPS == 4
RV32_REGISTER_AS == 1
RV32_MEMORY_AS == 2
DEFERRAL_AS == 4
Circuits == {0, 1}

Cells(x, y) == <<"cells", x, y>>
Zero == Cells(0, 0)
InputCommit(name) == <<"input", name, 0>>
CircuitCommit(c) == <<"circuit", c, 0>>
\* Bytes that are not the canonical ones of a digest but stand for its elements.
Alias(d) == <<"alias", d, 0>>
byte_commit_to_f(bytes) == IF bytes[1] = "alias" THEN bytes[2] ELSE bytes
Canonical(bytes) == bytes[1] # "alias"
Halves(d) == <<<<d, 1>>, <<d, 2>>>>
Joined(a, b) == IF a[1] = b[1] THEN a[1] ELSE Cells(-1, -1)

\* DeferralPoseidon2Chip::perm: the first half of the permutation or the second.
perm(lhs, rhs, isCompress) == <<"perm", lhs, rhs, isCompress>>

-----------------------------------------------------------------------------
(* Deferred functions and the state of a circuit's deferrals. *)
DeferralFns == [c \in Circuits |->
    IF c = 0 THEN [A |-> <<Cells(5, 6)>>, B |-> <<>>]
             ELSE [A |-> <<Cells(1, 4), Cells(9, 9)>>]]  \* a section may look like the sponge's start

hash_output_raw(c, raw) ==
    LET n == Len(raw)
        start == perm(Cells(c, n * DIGEST_SIZE), Zero, n = 0)
    IN IF n = 0 THEN start
       ELSE perm(Last(raw), FoldLeft(LAMBDA capacity, chunk : perm(chunk, capacity, FALSE), start, Front(raw)), TRUE)

\* Mutant of generate_deferral_results: the hash forgets which circuit it is for.
generate_deferral_results_unindexed(c, names) ==
    {[input |-> InputCommit(x), output_commit |-> hash_output_raw(0, DeferralFns[c][x]),
      output_raw |-> DeferralFns[c][x]] : x \in names}
generate_deferral_results(c, names) ==
    {[input |-> InputCommit(x), output_commit |-> hash_output_raw(c, DeferralFns[c][x]),
      output_raw |-> DeferralFns[c][x]] : x \in names}
DeferralState(results) ==
    [input |-> [i \in {r.input : r \in results} |->
                  <<"output", (CHOOSE r \in results : r.input = i).output_commit>>],
     output |-> [o \in {r.output_commit : r \in results} |->
                  (CHOOSE r \in results : r.output_commit = o).output_raw]]
store_input(state, name) == [state EXCEPT !.input = (InputCommit(name) :> <<"raw", name>>) @@ @]
store_output(state, input, commit, raw) ==
    [state EXCEPT !.input[input] = <<"output", commit>>, !.output = (commit :> raw) @@ @]
\* Inputs are stored raw, except those answered beforehand.
Streams(answered) ==
    [c \in Circuits |->
        LET names == DOMAIN DeferralFns[c]
        IN FoldLeft(store_input, DeferralState(generate_deferral_results(c, answered[c])),
                    SetToSeq(names \ answered[c]))]

\* DeferralFn::execute, when the input is known.
execute(state, c, input) ==
    LET value == state.input[input]
    IN IF value[1] = "raw"
       THEN LET raw == DeferralFns[c][value[2]]
                commit == hash_output_raw(c, raw)
            IN [commit |-> commit, len |-> Len(raw) * DIGEST_SIZE, state |-> store_output(state, input, commit, raw)]
       ELSE [commit |-> value[2], len |-> Len(state.output[value[2]]) * DIGEST_SIZE, state |-> state]

-----------------------------------------------------------------------------
(* Memory.  Registers 1 to 4 point to two inputs, a key and an output buffer. *)
InputAccPtr(c) == 2 * c * DIGEST_SIZE
OutputAccPtr(c) == InputAccPtr(c) + DIGEST_SIZE
Region(as, ptr, values) ==
    [a \in {<<as, ptr + i - 1>> : i \in 1..2 * Len(values)} |->
        LET i == a[2] - ptr IN <<values[(i \div 2) + 1], (i % 2) + 1>>]
\* modify_initial_memory puts the circuits' commitments into the input accumulators.
InitialAccumulators == Region(DEFERRAL_AS, 0, <<CircuitCommit(0), Zero, CircuitCommit(1), Zero>>)
InitialMemory ==
    [a \in {<<RV32_REGISTER_AS, r>> : r \in 1..4} |-> <<Cells(<<0, 2, 4, 8>>[a[2]], 0), 1>>]
    @@ Region(RV32_MEMORY_AS, 0, <<InputCommit("A"), InputCommit("B"), Zero, Zero, Zero, Zero>>)
    @@ InitialAccumulators

Register(mem, r) == mem[<<RV32_REGISTER_AS, r>>][1][2]
Pair(mem, as, ptr) == Joined(mem[<<as, ptr>>], mem[<<as, ptr + 1>>])
\* Key of an output: its commitment, then eight bytes of length.
combine_output(commit, len) == <<commit, Cells(len, 0)>>

Insn(op, a, b, c, e) == [op |-> op, a |-> a, b |-> b, c |-> c, e |-> e]
Instructions ==
    {Insn("CALL", 3, r, c, 2) : r \in {1, 2}, c \in Circuits} \cup {Insn("CALL", 1, 1, 0, 2)}
    \cup {Insn("OUTPUT", 4, 3, c, 2) : c \in Circuits} \cup {Insn("OUTPUT", 3, 3, 1, 2)}
    \cup {Insn("CALL", 3, 1, 2, 2), Insn("CALL", 3, 1, 0, 3), Insn("OUTPUT", 4, 3, 0, 3), Insn("OUTPUT", 4, 3, 2, 2)}
pre_compute_call_ok(i) == i.e = RV32_MEMORY_AS /\ i.c \in Circuits
pre_compute_output_ok(i) == i.e = RV32_MEMORY_AS

(* Metered execution: the state changes of the pure one, and the heights. *)
POSEIDON2_AIR_REL_IDX == 1
CALL_AIR_REL_IDX == 2
OUTPUT_AIR_REL_IDX == 3
\* Position of an AIR of the extension when all AIRs are listed, last added first.
AirIdx(rel) == OUTPUT_AIR_REL_IDX - rel
on_height_change(heights, idx, n) == [heights EXCEPT ![idx] = @ + n]

CallRunnable(g, i) ==
    Pair(g.mem, RV32_MEMORY_AS, Register(g.mem, i.b)) \in DOMAIN g.defs[i.c].input
execute_e12_call(g, i) ==
    LET output == Register(g.mem, i.a)
        input == Pair(g.mem, RV32_MEMORY_AS, Register(g.mem, i.b))
        res == execute(g.defs[i.c], i.c, input)
        inAcc == perm(Pair(g.mem, DEFERRAL_AS, InputAccPtr(i.c)), byte_commit_to_f(input), TRUE)
        outAcc == perm(Pair(g.mem, DEFERRAL_AS, OutputAccPtr(i.c)), byte_commit_to_f(res.commit), TRUE)
    IN [mem |-> Region(DEFERRAL_AS, OutputAccPtr(i.c), <<outAcc>>)
                @@ Region(DEFERRAL_AS, InputAccPtr(i.c), <<inAcc>>)
                @@ Region(RV32_MEMORY_AS, output, combine_output(res.commit, res.len)) @@ g.mem,
        defs |-> [g.defs EXCEPT ![i.c] = res.state]]
execute_e2_call(h, chipIdx) ==
    on_height_change(on_height_change(h, chipIdx, 1), chipIdx + (CALL_AIR_REL_IDX - POSEIDON2_AIR_REL_IDX), 2)

OutputKey(mem, i) ==
    LET ptr == Register(mem, i.b)
    IN [commit |-> Pair(mem, RV32_MEMORY_AS, ptr), len |-> Pair(mem, RV32_MEMORY_AS, ptr + COMMIT_MEMORY_OPS)[2]]
OutputRunnable(g, i) == i.c \in Circuits /\ OutputKey(g.mem, i).commit \in DOMAIN g.defs[i.c].output
execute_e12_output(g, i) ==
    [g EXCEPT !.mem = Region(RV32_MEMORY_AS, Register(g.mem, i.a), g.defs[i.c].output[OutputKey(g.mem, i).commit]) @@ @]
OutputRows(mem, i) == (OutputKey(mem, i).len \div DIGEST_SIZE) + 1
execute_e2_output(h, chipIdx, height) ==
    on_height_change(on_height_change(h, chipIdx, height),
                     chipIdx + (OUTPUT_AIR_REL_IDX - POSEIDON2_AIR_REL_IDX), height)

-----------------------------------------------------------------------------
(* Preflight execution: every access is stamped and logged. *)
Tracing(mem) == [mem |-> mem, ts |-> 1, stamps |-> [a \in DOMAIN mem |-> 0], log |-> <<>>, spans |-> {}]
Op(as, ptr, write, data) == [as |-> as, ptr |-> ptr, write |-> write, data |-> data]
Reads(as, ptr, n) == [i \in 1..n |-> Op(as, ptr + i - 1, FALSE, <<>>)]
Writes(as, ptr, values) == [i \in 1..2 * Len(values) |-> Op(as, ptr + i - 1, TRUE, <<values[(i + 1) \div 2], 2 - (i % 2)>>)]
tracing_access(t, o) ==
    LET a == <<o.as, o.ptr>>
        data == IF o.write THEN o.data ELSE t.mem[a]
    IN [t EXCEPT !.mem[a] = data, !.ts = @ + 1, !.stamps[a] = t.ts,
                 !.log = Append(@, [as |-> o.as, ptr |-> o.ptr, t |-> t.ts, data |-> data,
                                    prev_t |-> t.stamps[a], prev_data |-> t.mem[a]])]
TraceAll(t, ops) == FoldLeft(tracing_access, t, ops)
\* What an executor keeps of its accesses: previous timestamps and data.
Aux(before, after) ==
    [k \in 1..Len(after.log) - Len(before.log) |->
        [prev_t |-> after.log[Len(before.log) + k].prev_t, prev_data |-> after.log[Len(before.log) + k].prev_data]]

CallReads(t, i) ==
    <<Op(RV32_REGISTER_AS, i.a, FALSE, <<>>), Op(RV32_REGISTER_AS, i.b, FALSE, <<>>)>>
    \o Reads(RV32_MEMORY_AS, Register(t.mem, i.b), COMMIT_MEMORY_OPS)
    \o Reads(DEFERRAL_AS, InputAccPtr(i.c), DIGEST_MEMORY_OPS)
    \o Reads(DEFERRAL_AS, OutputAccPtr(i.c), DIGEST_MEMORY_OPS)
CallWrites(rd, c, w) ==
    Writes(RV32_MEMORY_AS, rd, combine_output(w.output_commit, w.output_len))
    \o Writes(DEFERRAL_AS, InputAccPtr(c), <<w.new_input_acc>>)
    \o Writes(DEFERRAL_AS, OutputAccPtr(c), <<w.new_output_acc>>)
PreflightCall(t, state, i) ==
    LET read == TraceAll(t, CallReads(t, i))
        reads == [input_commit |-> Pair(t.mem, RV32_MEMORY_AS, Register(t.mem, i.b)),
                  old_input_acc |-> Pair(t.mem, DEFERRAL_AS, InputAccPtr(i.c)),
                  old_output_acc |-> Pair(t.mem, DEFERRAL_AS, OutputAccPtr(i.c))]
        res == execute(state, i.c, reads.input_commit)
        writes == [output_commit |-> res.commit, output_len |-> res.len,
                   new_input_acc |-> perm(reads.old_input_acc, byte_commit_to_f(reads.input_commit), TRUE),
                   new_output_acc |-> perm(reads.old_output_acc, byte_commit_to_f(res.commit), TRUE)]
        done == TraceAll(read, CallWrites(Register(t.mem, i.a), i.c, writes))
    IN [tracing |-> done, state |-> res.state,
        record |-> [deferral_idx |-> i.c, reads |-> reads, writes |-> writes, from_timestamp |-> t.ts,
                    rd_ptr |-> i.a, rs_ptr |-> i.b, rd_val |-> Register(t.mem, i.a), rs_val |-> Register(t.mem, i.b),
                    aux |-> Aux(t, done)]]
\* The key is looked at once without a trace, to size the record, and then read.
PreflightOutput(t, state, i) ==
    LET key == OutputKey(t.mem, i)
        read == TraceAll(t, <<Op(RV32_REGISTER_AS, i.a, FALSE, <<>>), Op(RV32_REGISTER_AS, i.b, FALSE, <<>>)>>
                            \o Reads(RV32_MEMORY_AS, Register(t.mem, i.b), OUTPUT_TOTAL_MEMORY_OPS))
        raw == state.output[key.commit]
        done == TraceAll(read, Writes(RV32_MEMORY_AS, Register(t.mem, i.a), raw))
    IN [tracing |-> done,
        record |-> [from_timestamp |-> t.ts, rd_ptr |-> i.a, rs_ptr |-> i.b, deferral_idx |-> i.c,
                    num_rows |-> OutputRows(t.mem, i), rd_val |-> Register(t.mem, i.a), rs_val |-> Register(t.mem, i.b),
                    aux |-> Aux(t, read), write_bytes |-> raw, write_aux |-> Aux(read, done)]]

-----------------------------------------------------------------------------
(* Trace generation.  MemoryAuxColsFactory::fill keeps the distance of two       *)
(* timestamps; a lookup is what a thread counts in a chip that others share.     *)
fill(aux, t) == [prev_t |-> aux.prev_t, prev_data |-> aux.prev_data, lt |-> t - aux.prev_t - 1]
NoAux == [prev_t |-> 0, prev_data |-> <<>>, lt |-> 0]
add_count(idx) == [op |-> "count", idx |-> idx]
perm_and_record(lhs, rhs, isCompress) == [op |-> "perm", lhs |-> lhs, rhs |-> rhs, isCompress |-> isCompress]

\* The canonicity columns of a commitment, the ones of its limbs taken together: how
\* many markers are set and the difference they point at, which stands for the value
\* it was computed from.  CanonicityEval has the limbs one by one.
CanonicitySubrow(bytes) == [marker |-> 1, diff_val |-> bytes]
clear_aux == [marker |-> 0, diff_val |-> Zero]
\* What a record laid over the row leaves in columns that the filler does not write.
RecordBytes == [marker |-> 2, diff_val |-> Cells(-1, -1)]

\* The adapter of CALL counts timestamps down from the end, on a GPU up from the start.
CallAuxCpu(r) ==
    LET delta == 2 + COMMIT_MEMORY_OPS + OUTPUT_TOTAL_MEMORY_OPS + 4 * DIGEST_MEMORY_OPS
        n == Len(r.aux)
    IN [k \in 1..n |-> fill(r.aux[k], r.from_timestamp + delta - (n + 1 - k))]
CallAuxGpu(r) == [k \in 1..Len(r.aux) |-> fill(r.aux[k], r.from_timestamp + k - 1)]
CallRow(r, aux) ==
    [is_valid |-> 1, deferral_idx |-> r.deferral_idx, reads |-> r.reads, writes |-> r.writes,
     from_timestamp |-> r.from_timestamp, rd_ptr |-> r.rd_ptr, rs_ptr |-> r.rs_ptr,
     rd_val |-> r.rd_val, rs_val |-> r.rs_val, aux |-> aux,
     input_commit_lt_aux |-> CanonicitySubrow(r.reads.input_commit),
     output_commit_lt_aux |-> CanonicitySubrow(r.writes.output_commit)]
CallPadding ==
    [is_valid |-> 0, deferral_idx |-> 0, from_timestamp |-> 0, rd_ptr |-> 0, rs_ptr |-> 0, rd_val |-> 0, rs_val |-> 0,
     reads |-> [input_commit |-> Zero, old_input_acc |-> Zero, old_output_acc |-> Zero],
     writes |-> [output_commit |-> Zero, output_len |-> 0, new_input_acc |-> Zero, new_output_acc |-> Zero],
     aux |-> <<>>, input_commit_lt_aux |-> clear_aux, output_commit_lt_aux |-> clear_aux]
CallLookups(r) ==
    <<add_count(r.deferral_idx),
      perm_and_record(r.reads.old_input_acc, byte_commit_to_f(r.reads.input_commit), TRUE),
      perm_and_record(r.reads.old_output_acc, byte_commit_to_f(r.writes.output_commit), TRUE)>>
\* Range checks: addresses and length below the pointer bound, bytes, canonical digests.
CallRanges(r) ==
    <<<<"limb", r.rd_val, r.rs_val>>, <<"bytes", r.writes.output_commit>>, <<"byteslen", r.writes.output_len>>,
      <<"limb", r.writes.output_len, 0>>, <<"canonical", CanonicitySubrow(r.reads.input_commit).diff_val>>,
      <<"canonical", CanonicitySubrow(r.writes.output_commit).diff_val>>>>

\* Inputs of the sponge and its states, a row each: DeferralOutputFiller::fill_trace
\* and, on the host of a GPU, per_row.
SpongeInput(r, k) == IF k = 1 THEN Cells(r.deferral_idx, (r.num_rows - 1) * DIGEST_SIZE) ELSE r.write_bytes[k - 1]
Sponge(r) ==
    LET res[k \in 1..r.num_rows] == perm(SpongeInput(r, k), IF k = 1 THEN Zero ELSE res[k - 1], k = r.num_rows)
    IN [k \in 1..r.num_rows |-> res[k]]
\* Mutant of OutputLtAux: later rows keep what the record left in the columns.
OutputLtAuxKept(r, k, res) == IF k = 1 THEN CanonicitySubrow(res[r.num_rows]) ELSE RecordBytes
\* The canonicity columns are filled on the first row of a section, once its digest
\* is known, and cleared on the others.
OutputLtAux(r, k, res) == IF k = 1 THEN CanonicitySubrow(res[r.num_rows]) ELSE clear_aux
OutputRow(r, k, res) ==
    [is_valid |-> 1, is_first |-> IF k = 1 THEN 1 ELSE 0, is_last |-> IF k = r.num_rows THEN 1 ELSE 0,
     section_idx |-> k - 1, from_timestamp |-> r.from_timestamp, rd_ptr |-> r.rd_ptr, rs_ptr |-> r.rs_ptr,
     deferral_idx |-> r.deferral_idx, rd_val |-> r.rd_val, rs_val |-> r.rs_val,
     aux |-> [j \in 1..2 + OUTPUT_TOTAL_MEMORY_OPS |->
                IF k = 1 THEN fill(r.aux[j], r.from_timestamp + j - 1) ELSE NoAux],
     output_commit |-> res[r.num_rows], output_commit_lt_aux |-> OutputLtAux(r, k, res),
     output_len |-> (r.num_rows - 1) * DIGEST_SIZE,
     sponge_inputs |-> SpongeInput(r, k),
     write_aux |-> [j \in 1..DIGEST_MEMORY_OPS |->
                      IF k = 1 THEN NoAux
                      ELSE LET idx == (k - 2) * DIGEST_MEMORY_OPS + j - 1
                           IN fill(r.write_aux[idx + 1], r.from_timestamp + 2 + OUTPUT_TOTAL_MEMORY_OPS + idx)],
     poseidon2_res |-> res[k]]
OutputPadding ==
    [is_valid |-> 0, is_first |-> 0, is_last |-> 0, section_idx |-> 0, from_timestamp |-> 0, rd_ptr |-> 0,
     rs_ptr |-> 0, deferral_idx |-> 0, rd_val |-> 0, rs_val |-> 0,
     aux |-> [j \in 1..2 + OUTPUT_TOTAL_MEMORY_OPS |-> NoAux], output_commit |-> Zero,
     output_commit_lt_aux |-> clear_aux, output_len |-> 0,
     sponge_inputs |-> Zero, write_aux |-> [j \in 1..DIGEST_MEMORY_OPS |-> NoAux], poseidon2_res |-> Zero]
OutputLookups(r, k, res) ==
    (IF k = 1 THEN <<add_count(r.deferral_idx)>> ELSE <<>>)
    \o <<perm_and_record(SpongeInput(r, k), IF k = 1 THEN Zero ELSE res[k - 1], k = r.num_rows)>>
OutputRanges(r, k, res) ==
    IF k = 1 THEN <<<<"limb", r.rd_val, r.rs_val>>, <<"limb", (r.num_rows - 1) * DIGEST_SIZE, 0>>,
                    <<"canonical", OutputLtAux(r, k, res).diff_val>>>>
    ELSE <<<<"bytes", r.write_bytes[k - 1]>>>>

\* A thread counts a lookup: in a histogram, in the map of permutations, or in a
\* slot of the GPU's buffer that it reserves for itself.
EmptyLookup == [count |-> [c \in Circuits |-> 0], map |-> <<>>, nonempty |-> FALSE, buffer |-> <<>>, ranges |-> <<>>]
Counted(map, l) ==
    LET key == <<l.lhs, l.rhs>>
        old == IF key \in DOMAIN map THEN map[key] ELSE [compress |-> 0, capacity |-> 0]
    IN (key :> IF l.isCompress THEN [old EXCEPT !.compress = @ + 1] ELSE [old EXCEPT !.capacity = @ + 1]) @@ map
RecordPerm(s, l) == [s EXCEPT !.map = Counted(@, l), !.nonempty = TRUE]
RecordInBuffer(s, l) == [s EXCEPT !.buffer = Append(@, [lhs |-> l.lhs, rhs |-> l.rhs, isCompress |-> l.isCompress])]
CountLookup(s, l) ==
    CASE l.op = "count" -> [s EXCEPT !.count[l.idx] = @ + 1]
      [] l.op = "perm" /\ backend = "cpu" -> RecordPerm(s, l)
      [] OTHER -> RecordInBuffer(s, l)

NextPowerOfTwoOrZero(n) == Min({m \in {0, 1, 2, 4, 8, 16} : m >= n})
Padded(seq, row) == seq \o [k \in 1..NextPowerOfTwoOrZero(Len(seq)) - Len(seq) |-> row]
\* A row for each input, padding rows with the multiplicity zero.
PermTable(map) == [rows |-> map, height |-> NextPowerOfTwoOrZero(Cardinality(DOMAIN map))]
EmptyTable == [rows |-> <<>>, height |-> 0]
\* Deduplication on the GPU: sort by the input, then add up equal ones.
Deduplicated(buffer) == FoldLeft(Counted, <<>>, buffer)
\* Mutant of CountTable: the counts stay for the next segment.
CountTableKept(s) ==
    [rows |-> [k \in 1..NextPowerOfTwoOrZero(Cardinality(Circuits)) |-> [row_idx |-> k - 1, mult |-> s.count[k - 1]]],
     lookup |-> s]
CountTable(s) ==
    [rows |-> [k \in 1..NextPowerOfTwoOrZero(Cardinality(Circuits)) |->
                 [row_idx |-> k - 1, mult |-> IF k - 1 \in Circuits THEN s.count[k - 1] ELSE 0]],
     lookup |-> [s EXCEPT !.count = [c \in Circuits |-> 0]]]

-----------------------------------------------------------------------------
(* The AIRs.  An AIR sends lookups to the shared chips and accesses to memory;   *)
(* the aux columns must be right for the timestamps that the AIR derives.        *)
Access(o, t, aux) ==
    [as |-> o.as, ptr |-> o.ptr, t |-> t, data |-> o.data, prev_t |-> aux.prev_t,
     prev_data |-> IF o.write THEN aux.prev_data ELSE o.data]
Accesses(ops, t, aux) == {Access(ops[k], t + k - 1, aux[k]) : k \in DOMAIN ops}
AuxHolds(t, aux) == \A k \in DOMAIN aux : aux[k].lt >= 0 /\ aux[k].lt = t + k - 1 - aux[k].prev_t - 1
Known(as, ptr, d) == [i \in 1..2 |-> Op(as, ptr + i - 1, FALSE, <<d, i>>)]

\* CanonicitySubAir for a commitment: what its constraints say of a row whether it is
\* enabled or not, and with the range check of the difference when it is.
CanonicityHolds(aux, bytes, count) ==
    /\ aux.marker \in {0, 1}
    /\ aux.marker # 0 => count = 1 /\ aux.diff_val = bytes
    /\ count # 0 => aux.marker = 1 /\ Canonical(aux.diff_val)

CallCoreEval(row) ==
    /\ row.is_valid \in {0, 1}
    /\ CanonicityHolds(row.input_commit_lt_aux, row.reads.input_commit, row.is_valid)
    /\ CanonicityHolds(row.output_commit_lt_aux, row.writes.output_commit, row.is_valid)
CallPermSends(row) ==
    IF row.is_valid = 0 THEN <<>> ELSE
    <<<<row.reads.old_input_acc, byte_commit_to_f(row.reads.input_commit), row.writes.new_input_acc, TRUE>>,
      <<row.reads.old_output_acc, byte_commit_to_f(row.writes.output_commit), row.writes.new_output_acc, TRUE>>>>
CallRangeSends(row) ==
    IF row.is_valid = 0 THEN <<>> ELSE
    <<<<"canonical", row.input_commit_lt_aux.diff_val>>, <<"canonical", row.output_commit_lt_aux.diff_val>>,
      <<"bytes", row.writes.output_commit>>, <<"byteslen", row.writes.output_len>>,
      <<"limb", row.rd_val, row.rs_val>>, <<"limb", row.writes.output_len, 0>>>>
CallOps(row) ==
    <<Op(RV32_REGISTER_AS, row.rd_ptr, FALSE, <<Cells(row.rd_val, 0), 1>>),
      Op(RV32_REGISTER_AS, row.rs_ptr, FALSE, <<Cells(row.rs_val, 0), 1>>)>>
    \o Known(RV32_MEMORY_AS, row.rs_val, row.reads.input_commit)
    \o Known(DEFERRAL_AS, InputAccPtr(row.deferral_idx), row.reads.old_input_acc)
    \o Known(DEFERRAL_AS, OutputAccPtr(row.deferral_idx), row.reads.old_output_acc)
    \o CallWrites(row.rd_val, row.deferral_idx, row.writes)
CallSpan(row) == <<row.from_timestamp, row.from_timestamp + Len(CallOps(row))>>

IsTransition(next) == next.is_valid - next.is_first
OutputFlags(local, next, firstRow, lastRow) ==
    /\ local.is_valid \in {0, 1} /\ local.is_first \in {0, 1}
    /\ ~lastRow => local.is_valid - next.is_valid \in {0, 1}
    /\ firstRow /\ local.is_valid # 0 => local.is_first = 1
    /\ local.is_last = local.is_valid - IsTransition(next)
    /\ local.is_valid # 1 => local.is_first = 0 /\ local.section_idx = 0
    /\ local.is_first # 0 => local.section_idx = 0
    /\ IsTransition(next) # 0 => next.section_idx - local.section_idx = 1
OutputSameSection(local, next) ==
    next.section_idx # 0 =>
        \A f \in {"from_timestamp", "rd_ptr", "rs_ptr", "deferral_idx", "rd_val", "rs_val", "output_len"} :
            local[f] = next[f]
OutputSameCommit(local, next) == next.section_idx # 0 => local.output_commit = next.output_commit
OutputStart(local) ==
    /\ CanonicityHolds(local.output_commit_lt_aux, local.output_commit, local.is_first)
    /\ local.is_first # 0 => local.sponge_inputs = Cells(local.deferral_idx, local.output_len)
\* Mutant of OutputEnd: the length is not compared with the number of sections.
OutputEndAnyLength(local) == local.is_last # 0 => byte_commit_to_f(local.output_commit) = local.poseidon2_res
OutputEnd(local) ==
    local.is_last # 0 => /\ local.output_len = local.section_idx * DIGEST_SIZE
                         /\ byte_commit_to_f(local.output_commit) = local.poseidon2_res
OutputEval(local, next, firstRow, lastRow) ==
    /\ OutputFlags(local, next, firstRow, lastRow)
    /\ OutputSameSection(local, next) /\ OutputSameCommit(local, next)
    /\ OutputStart(local) /\ OutputEnd(local)
OutputPermSends(local, next) ==
    IF next.is_valid = 0 THEN <<>>
    ELSE <<<<next.sponge_inputs, IF IsTransition(next) # 0 THEN local.poseidon2_res ELSE Zero,
             next.poseidon2_res, next.is_last = 1>>>>
OutputRangeSends(local) ==
    CASE local.is_first = 1 -> <<<<"canonical", local.output_commit_lt_aux.diff_val>>, <<"limb", local.rd_val, local.rs_val>>,
                                 <<"limb", local.output_len, 0>>>>
      [] local.is_valid - local.is_first = 1 -> <<<<"bytes", local.sponge_inputs>>>>
      [] OTHER -> <<>>
OutputReadOps(local) ==
    <<Op(RV32_REGISTER_AS, local.rd_ptr, FALSE, <<Cells(local.rd_val, 0), 1>>),
      Op(RV32_REGISTER_AS, local.rs_ptr, FALSE, <<Cells(local.rs_val, 0), 1>>)>>
    \o Known(RV32_MEMORY_AS, local.rs_val, local.output_commit)
    \o Known(RV32_MEMORY_AS, local.rs_val + COMMIT_MEMORY_OPS, Cells(local.output_len, 0))
OutputWriteOps(local) ==
    Writes(RV32_MEMORY_AS, local.rd_val + (local.section_idx - 1) * DIGEST_SIZE, <<local.sponge_inputs>>)
OutputWriteTime(local) ==
    local.from_timestamp + 2 + OUTPUT_TOTAL_MEMORY_OPS + (local.section_idx - 1) * DIGEST_MEMORY_OPS
OutputAuxHolds(local) ==
    /\ local.is_first = 1 => AuxHolds(local.from_timestamp, local.aux)
    /\ local.is_valid - local.is_first = 1 => AuxHolds(OutputWriteTime(local), local.write_aux)
OutputAccesses(local) ==
    CASE local.is_first = 1 -> Accesses(OutputReadOps(local), local.from_timestamp, local.aux)
      [] local.is_valid - local.is_first = 1 -> Accesses(OutputWriteOps(local), OutputWriteTime(local), local.write_aux)
      [] OTHER -> {}
OutputSpan(local) ==
    <<local.from_timestamp,
      local.from_timestamp + local.section_idx * DIGEST_MEMORY_OPS + OUTPUT_TOTAL_MEMORY_OPS + 2>>

\* The Poseidon2 AIR offers both halves of each row's permutation.
PermReceives(table) ==
    LET offered == {<<key[1], key[2], perm(key[1], key[2], b), b>> : key \in DOMAIN table.rows, b \in BOOLEAN}
        mult(o) == IF o[4] THEN table.rows[<<o[1], o[2]>>].compress ELSE table.rows[<<o[1], o[2]>>].capacity
    IN [o \in {x \in offered : mult(x) > 0} |-> mult(o)]
BagOf(seq) == [x \in Range(seq) |-> Cardinality({k \in DOMAIN seq : seq[k] = x})]

\* The AIR of the circuits' counts: the valid rows are the configured circuits.
CountTransition(local, next, n) ==
    /\ n > 0 => local.is_valid - next.is_valid \in {0, 1}
    /\ next.row_idx - local.row_idx = 1
    /\ next.row_idx # n => local.is_valid = next.is_valid
CountRowEval(local, n, firstRow, lastRow) ==
    /\ IF n > 0 THEN local.is_valid \in {0, 1} /\ (firstRow => local.is_valid = 1) ELSE local.is_valid = 0
    /\ firstRow => local.row_idx = 0
    /\ local.is_valid = 0 => local.mult = 0
    /\ lastRow /\ local.is_valid # 0 => local.row_idx + 1 = n

-----------------------------------------------------------------------------
(* Executing and proving a program. *)
NoRecords == [call |-> <<>>, output |-> <<>>]
NoTables == [perm |-> EmptyTable, count |-> <<>>]
ZeroHeights == [a \in 0..OUTPUT_AIR_REL_IDX |-> 0]
Start(answered) == [mem |-> InitialMemory, defs |-> Streams(answered)]
Answered == {[c \in Circuits |-> {}], [c \in Circuits |-> {"A"}]}

DeferralInit ==
    /\ phase = "metered" /\ backend \in {"cpu", "gpu"} /\ streams \in Answered
    /\ guest = Start(streams)
    /\ metered = [segs |-> <<<<>>>>, heights |-> <<ZeroHeights>>, guest |-> <<>>]
    /\ segment = [idx |-> 1, pc |-> 1, filled |-> 0]
    /\ tracing = <<>> /\ records = NoRecords /\ rows = NoRecords
    /\ threads = <<>> /\ lookup = EmptyLookup /\ tables = NoTables

Current == metered.segs[Len(metered.segs)]
NumInsns == FoldLeft(LAMBDA n, s : n + Len(s), 0, metered.segs)
Refuse == phase' = "refused" /\ UNCHANGED <<guest, metered>>
Executed(i, g, h) ==
    /\ guest' = g
    /\ metered' = [metered EXCEPT !.segs[Len(metered.segs)] = Append(@, i), !.heights[Len(metered.segs)] = h]
    /\ UNCHANGED phase
MeteredCall(i) ==
    IF ~pre_compute_call_ok(i) \/ ~CallRunnable(guest, i) THEN Refuse
    ELSE Executed(i, execute_e12_call(guest, i),
                  execute_e2_call(metered.heights[Len(metered.segs)], AirIdx(CALL_AIR_REL_IDX)))
MeteredOutput(i) ==
    IF ~pre_compute_output_ok(i) \/ ~OutputRunnable(guest, i) THEN Refuse
    ELSE Executed(i, execute_e12_output(guest, i),
                  execute_e2_output(metered.heights[Len(metered.segs)], AirIdx(OUTPUT_AIR_REL_IDX),
                                    OutputRows(guest.mem, i)))
MeteredStep ==
    /\ phase = "metered" /\ NumInsns < MaxInsns /\ Len(Current) < MaxPerSegment
    /\ \E i \in Instructions : IF i.op = "CALL" THEN MeteredCall(i) ELSE MeteredOutput(i)
    /\ UNCHANGED <<backend, streams, segment, tracing, records, rows, threads, lookup, tables>>
\* Where a segment ends is up to the limits on the heights, see Segmentation.
MeteredCut ==
    /\ phase = "metered" /\ Current # <<>> /\ Len(metered.segs) < MaxSegments /\ NumInsns < MaxInsns
    /\ metered' = [metered EXCEPT !.segs = Append(@, <<>>), !.heights = Append(@, ZeroHeights)]
    /\ UNCHANGED <<phase, backend, streams, guest, segment, tracing, records, rows, threads, lookup, tables>>
\* Proving starts from the same inputs again.
MeteredEnd ==
    /\ phase = "metered" /\ Current # <<>>
    /\ metered' = [metered EXCEPT !.guest = guest]
    /\ guest' = Start(streams) /\ tracing' = Tracing(InitialMemory) /\ phase' = "preflight"
    /\ UNCHANGED <<backend, streams, segment, records, rows, threads, lookup, tables>>

Segment == metered.segs[segment.idx]
Traced(i, t, g, r) ==
    /\ tracing' = [t EXCEPT !.spans = @ \cup {<<tracing.ts, t.ts>>}] /\ guest' = g /\ records' = r
    /\ segment' = [segment EXCEPT !.pc = @ + 1] /\ UNCHANGED phase
PreflightStep ==
    /\ phase = "preflight" /\ segment.pc <= Len(Segment)
    /\ LET i == Segment[segment.pc]
           g == [guest EXCEPT !.mem = tracing.mem]
       IN IF (i.op = "CALL" /\ ~CallRunnable(g, i)) \/ (i.op = "OUTPUT" /\ ~OutputRunnable(g, i))
          THEN phase' = "diverged" /\ UNCHANGED <<guest, segment, tracing, records>>
          ELSE IF i.op = "CALL"
          THEN LET x == PreflightCall(tracing, guest.defs[i.c], i)
               IN Traced(i, x.tracing, [mem |-> x.tracing.mem, defs |-> [guest.defs EXCEPT ![i.c] = x.state]],
                         [records EXCEPT !.call = Append(@, x.record)])
          ELSE LET x == PreflightOutput(tracing, guest.defs[i.c], i)
               IN Traced(i, x.tracing, [guest EXCEPT !.mem = x.tracing.mem],
                         [records EXCEPT !.output = Append(@, x.record)])
    /\ UNCHANGED <<backend, streams, metered, rows, threads, lookup, tables>>
PreflightEnd ==
    /\ phase = "preflight" /\ segment.pc > Len(Segment) /\ phase' = "outputs"
    /\ UNCHANGED <<backend, streams, guest, metered, segment, tracing, records, rows, threads, lookup, tables>>

\* The OUTPUT chip comes first: chips are asked last added first.  On a CPU it fills
\* one section after the other, on a GPU all rows at once.
FilledRows(r) == LET res == Sponge(r) IN [k \in 1..r.num_rows |-> OutputRow(r, k, res)]
RowLookups(r) == LET res == Sponge(r) IN [k \in 1..r.num_rows |-> OutputLookups(r, k, res)]
RowRanges(r) == LET res == Sponge(r) IN FlattenSeq([k \in 1..r.num_rows |-> OutputRanges(r, k, res)])
FillOutputSection ==
    /\ phase = "outputs" /\ backend = "cpu" /\ segment.filled < Len(records.output)
    /\ LET r == records.output[segment.filled + 1]
       IN /\ rows' = [rows EXCEPT !.output = @ \o FilledRows(r)]
          /\ lookup' = [FoldLeft(CountLookup, lookup, FlattenSeq(RowLookups(r))) EXCEPT !.ranges = @ \o RowRanges(r)]
    /\ segment' = [segment EXCEPT !.filled = @ + 1]
    /\ UNCHANGED <<phase, backend, streams, guest, metered, tracing, records, threads, tables>>
LaunchOutputs ==
    /\ phase = "outputs" /\ backend = "gpu" /\ segment.filled < Len(records.output)
    /\ rows' = [rows EXCEPT !.output = FlattenSeq([k \in DOMAIN records.output |-> FilledRows(records.output[k])])]
    /\ threads' = FlattenSeq([k \in DOMAIN records.output |-> RowLookups(records.output[k])])
    /\ lookup' = [lookup EXCEPT !.ranges = FlattenSeq([k \in DOMAIN records.output |-> RowRanges(records.output[k])])]
    /\ segment' = [segment EXCEPT !.filled = Len(records.output)]
    /\ UNCHANGED <<phase, backend, streams, guest, metered, tracing, records, tables>>
AllCounted == \A t \in DOMAIN threads : threads[t] = <<>>
\* Rows of the CALL chip are filled in parallel.
LaunchCalls ==
    /\ phase = "outputs" /\ segment.filled = Len(records.output) /\ AllCounted
    /\ phase' = "calls"
    /\ rows' = [rows EXCEPT !.call = Padded([k \in DOMAIN records.call |->
                  LET r == records.call[k] IN CallRow(r, IF backend = "cpu" THEN CallAuxCpu(r) ELSE CallAuxGpu(r))],
                  CallPadding),
                !.output = Padded(@, OutputPadding)]
    /\ threads' = [k \in DOMAIN records.call |-> CallLookups(records.call[k])]
    /\ lookup' = [lookup EXCEPT !.ranges = @ \o FlattenSeq([k \in DOMAIN records.call |-> CallRanges(records.call[k])])]
    /\ UNCHANGED <<backend, streams, guest, metered, segment, tracing, records, tables>>
ThreadStep ==
    /\ phase \in {"outputs", "calls"}
    /\ \E t \in DOMAIN threads :
         /\ threads[t] # <<>>
         /\ lookup' = CountLookup(lookup, Head(threads[t]))
         /\ threads' = [threads EXCEPT ![t] = Tail(@)]
    /\ UNCHANGED <<phase, backend, streams, guest, metered, segment, tracing, records, rows, tables>>
GeneratePermTable ==
    /\ phase = "calls" /\ AllCounted /\ phase' = "count"
    /\ tables' = [tables EXCEPT !.perm =
                    IF backend = "cpu" THEN IF lookup.nonempty THEN PermTable(lookup.map) ELSE EmptyTable
                    ELSE PermTable(Deduplicated(lookup.buffer))]
    /\ lookup' = [lookup EXCEPT !.map = <<>>, !.nonempty = FALSE, !.buffer = <<>>]
    /\ UNCHANGED <<backend, streams, guest, metered, segment, tracing, records, rows, threads>>
GenerateCountTable ==
    /\ phase = "count" /\ phase' = "traced"
    /\ LET c == CountTable(lookup) IN tables' = [tables EXCEPT !.count = c.rows] /\ lookup' = c.lookup
    /\ UNCHANGED <<backend, streams, guest, metered, segment, tracing, records, rows, threads>>
\* The next segment finds the chips as this one leaves them.
NextSegment ==
    /\ phase = "traced"
    /\ IF segment.idx = Len(metered.segs) THEN phase' = "done" /\ UNCHANGED <<segment, tracing, records, rows, lookup>>
       ELSE /\ phase' = "preflight" /\ segment' = [idx |-> segment.idx + 1, pc |-> 1, filled |-> 0]
            /\ tracing' = Tracing(guest.mem) /\ records' = NoRecords /\ rows' = NoRecords
            /\ lookup' = [lookup EXCEPT !.ranges = <<>>]
    /\ threads' = <<>>
    /\ UNCHANGED <<backend, streams, guest, metered, tables>>
DeferralNext ==
    \/ MeteredStep \/ MeteredCut \/ MeteredEnd \/ PreflightStep \/ PreflightEnd \/ FillOutputSection
    \/ LaunchOutputs \/ LaunchCalls \/ ThreadStep \/ GeneratePermTable \/ GenerateCountTable \/ NextSegment

-----------------------------------------------------------------------------
(* The system's Poseidon2 chip, which threads hash into at the same time. *)
Hash(x) == [lhs |-> Cells(x, x), rhs |-> Zero, isCompress |-> TRUE]
Requests == {<<<<Hash(1), Hash(2)>>, <<Hash(1)>>>>, <<<<Hash(2)>>, <<Hash(2), Hash(2)>>>>, <<<<>>, <<>>>>}
HashInit ==
    /\ phase = "hash" /\ segment = 1 /\ records \in Requests /\ threads = [t \in 1..2 |-> [todo |-> records[t], flag |-> FALSE]]
    /\ lookup = EmptyLookup /\ tables = NoTables
\* compress_and_record: the entry's count, then the flag.
CompressAndRecord(t) ==
    /\ ~threads[t].flag /\ threads[t].todo # <<>>
    /\ lookup' = [lookup EXCEPT !.map = Counted(@, Head(threads[t].todo))]
    /\ threads' = [threads EXCEPT ![t] = [todo |-> Tail(@.todo), flag |-> TRUE]]
SetNonempty(t) ==
    /\ threads[t].flag /\ lookup' = [lookup EXCEPT !.nonempty = TRUE]
    /\ threads' = [threads EXCEPT ![t].flag = FALSE]
\* Mutant of SystemTable: the records are not cleared.
SystemTableKept(s) == [table |-> IF s.nonempty THEN PermTable(s.map) ELSE EmptyTable, lookup |-> [s EXCEPT !.nonempty = FALSE]]
SystemTable(s) ==
    IF s.nonempty THEN [table |-> PermTable(s.map), lookup |-> EmptyLookup] ELSE [table |-> EmptyTable, lookup |-> s]
HashStep == phase = "hash" /\ (\E t \in 1..2 : CompressAndRecord(t) \/ SetNonempty(t)) /\ UNCHANGED <<phase, segment, records, tables>>
HashTrace ==
    /\ phase = "hash" /\ \A t \in 1..2 : threads[t].todo = <<>> /\ ~threads[t].flag
    /\ LET s == SystemTable(lookup) IN tables' = [tables EXCEPT !.perm = s.table] /\ lookup' = s.lookup
    /\ phase' = "hashed" /\ UNCHANGED <<segment, records, threads>>
HashAgain ==
    /\ phase = "hashed" /\ segment < MaxSegments /\ phase' = "hash" /\ segment' = segment + 1 /\ records' \in Requests
    /\ threads' = [t \in 1..2 |-> [todo |-> records'[t], flag |-> FALSE]] /\ UNCHANGED <<lookup, tables>>
HashNext == (HashStep \/ HashTrace \/ HashAgain) /\ UNCHANGED <<backend, streams, guest, metered, tracing, rows>>

-----------------------------------------------------------------------------
(* Forged traces, grown row by row as far as the constraints let them. *)
Heights == {1, 2, 4}
GenuineCommits == {hash_output_raw(0, <<>>), hash_output_raw(0, <<Cells(5, 6)>>), hash_output_raw(1, <<Cells(1, 4), Cells(9, 9)>>)}
\* A sponge whose start announces two sections and that takes one.
ShortSponge == perm(Cells(5, 6), perm(Cells(0, 4), Zero, FALSE), TRUE)
ForgedCommits == GenuineCommits \cup {ShortSponge, Alias(hash_output_raw(0, <<Cells(5, 6)>>))}
ForgedSponges == {Cells(0, 0), Cells(0, 2), Cells(0, 4), Cells(1, 4), Cells(5, 6), Cells(9, 9)}
ForgedRow(v, f, l, s, idx, len, commit, lt_aux, sponge, res) ==
    [OutputPadding EXCEPT !.is_valid = v, !.is_first = f, !.is_last = l, !.section_idx = s, !.deferral_idx = idx,
        !.output_len = len, !.output_commit = commit, !.output_commit_lt_aux = lt_aux, !.sponge_inputs = sponge, !.poseidon2_res = res]
\* Rows that may follow a row with this sponge state, their permutations genuine.
ForgedRows(res) ==
    {OutputPadding} \cup
    {ForgedRow(1, f, l, s, x[1], x[2], commit, IF m = 1 THEN CanonicitySubrow(commit) ELSE clear_aux, sponge, perm(sponge, IF f = 1 THEN Zero ELSE res, l = 1)) :
        m \in {0, 1}, f \in {0, 1}, l \in {0, 1}, s \in 0..2, x \in {<<0, 0>>, <<0, 2>>, <<0, 4>>, <<1, 4>>},
        commit \in ForgedCommits, sponge \in ForgedSponges}
Genuine(sends) == \A k \in DOMAIN sends : sends[k][3] = perm(sends[k][1], sends[k][2], sends[k][4])
ForgeFirst ==
    /\ forged.rows = <<>>
    /\ \E row \in {r \in ForgedRows(Zero) : r.is_valid = 1 => r.is_first = 1 /\ OutputStart(r)} :
         forged' = [forged EXCEPT !.rows = <<row>>]
ForgeRow ==
    /\ Len(forged.rows) \in 1..Max(Heights) - 1 /\ ~forged.closed
    /\ LET local == Last(forged.rows)
       IN \E next \in {r \in ForgedRows(local.poseidon2_res) :
                          /\ OutputEval(local, r, Len(forged.rows) = 1, FALSE) /\ Genuine(OutputPermSends(local, r))
                          /\ OutputStart(r)} :
            forged' = [forged EXCEPT !.rows = Append(@, next)]
\* The last row is followed by the first.
ForgeClose ==
    /\ Len(forged.rows) \in Heights /\ ~forged.closed
    /\ OutputEval(Last(forged.rows), forged.rows[1], Len(forged.rows) = 1, TRUE)
    /\ Genuine(OutputPermSends(Last(forged.rows), forged.rows[1]))
    /\ forged' = [forged EXCEPT !.closed = TRUE]
ForgeCountRow ==
    /\ Len(forged.rows) < Max(Heights) /\ ~forged.closed
    /\ \E next \in [is_valid : {0, 1}, row_idx : 0..4, mult : {0, 1}] :
         /\ CountRowEval(next, forged.n, forged.rows = <<>>, FALSE)
         /\ forged.rows # <<>> => CountTransition(Last(forged.rows), next, forged.n)
         /\ forged' = [forged EXCEPT !.rows = Append(@, next)]
ForgeCountClose ==
    /\ Len(forged.rows) \in Heights /\ ~forged.closed
    /\ CountRowEval(Last(forged.rows), forged.n, Len(forged.rows) = 1, TRUE)
    /\ forged' = [forged EXCEPT !.closed = TRUE]

-----------------------------------------------------------------------------
(* Limbs of values, in small fields: digests' elements in bytes, timestamps.     *)
ByteField == 17
ByteBase == 4
OrderBe == <<1, 0, 1>>
ByteValue(x) == (x[1] * ByteBase + x[2]) * ByteBase + x[3]
Bool(e) == (e * (e - 1)) % ByteField = 0
\* Mutant of MarkerEval: a marker may be set on a row that is not enabled.
MarkerEvalAnyCount(count, marker, diff, y_x) == Bool(marker) /\ (marker # 0 => diff = y_x)
MarkerEval(count, marker, diff, y_x) == Bool(marker) /\ (marker # 0 => count = 1 /\ diff = y_x)
\* CanonicitySubAir::eval.  With count zero the markers are still constrained.
CanonicityEval(count, x, marker, diff) ==
    LET prefix == <<marker[1], marker[1] + marker[2], marker[1] + marker[2] + marker[3]>>
    IN /\ \A k \in 1..3 : /\ MarkerEval(count, marker[k], diff, (OrderBe[k] - x[k]) % ByteField)
                          /\ count # 0 => ((1 - prefix[k]) * (OrderBe[k] - x[k])) % ByteField = 0
       /\ Bool(prefix[3])
       /\ count # 0 => prefix[3] % ByteField = 1
generate_subrow(x) ==
    LET k == Min({j \in 1..3 : x[j] # OrderBe[j]})
    IN [marker |-> [j \in 1..3 |-> IF j = k THEN 1 ELSE 0], diff |-> OrderBe[k] - x[k]]
\* The difference is sent to the range check when count is one.
CanonicityAccepted(count, x, marker, diff) ==
    CanonicityEval(count, x, marker, diff) /\ (count = 1 => (diff - 1) % ByteField < ByteBase)

TimeField == 67
\* Mutant of timestamp_limb_bits: the low limb always has as many bits as the range checker.
timestamp_limb_bits_full(range, max) == <<range, IF max <= range THEN 0 ELSE max - range>>
timestamp_limb_bits(range, max) == IF max <= range THEN <<max, 0>> ELSE <<range, max - range>>
\* VmConnectorAir: the high limb is what the low one leaves, divided in the field.
ConnectorEval(ts, low, range, max) ==
    LET bits == timestamp_limb_bits(range, max)
        inverse == CHOOSE i \in 1..TimeField - 1 : (i * 2^range) % TimeField = 1
    IN low < 2^bits[1] /\ ((ts - low) * inverse) % TimeField < 2^bits[2]
ConnectorRequests(ts, range, max) ==
    LET bits == timestamp_limb_bits(range, max) IN (ts % 2^range) < 2^bits[1] /\ ts \div 2^range < 2^bits[2]

-----------------------------------------------------------------------------
(* The instances of the other parts. *)
Base == [fields |-> <<>>, cpu |-> <<>>, gpu |-> <<>>, moduli |-> <<32, 48>>, fp2 |-> <<48, 32>>,
         curves |-> <<32, 48>>, rv32mSizes |-> <<256, 2048>>, bigintSizes |-> <<256, 8192>>, degree |-> 3]
Other == [Base EXCEPT !.moduli = <<31, 32, 33>>, !.fp2 = <<32>>, !.curves = <<48>>, !.rv32mSizes = <<512, 2048>>, !.degree = 7]
TooLargeModulus == [Base EXCEPT !.moduli = <<49>>]
ManyModuli == [Base EXCEPT !.moduli = [k \in 1..33 |-> 32]]
Configuration0 == INSTANCE VmConfiguration WITH Configs <- {}
VmConfigs ==
    {Configuration0!SdkConfig(exts, Base) : exts \in SUBSET Range(Configuration0!SdkVmConfigInner)}
    \cup {Configuration0!FixedConfig(f, c) : f \in Configuration0!Fixed, c \in {Base, Other, TooLargeModulus, ManyModuli}}
Configuration == INSTANCE VmConfiguration WITH Configs <- VmConfigs

Owned == [e \in Range(Configuration0!SdkVmConfigInner) |-> UNION Range(Configuration0!Execution(e, Base).list)]
OwnedPhantoms == [e \in Range(Configuration0!SdkVmConfigInner) |-> Configuration0!Execution(e, Base).phantoms]
WordsOf(ops, f7s, rds, rs2s) == [op : ops, f3 : 0..7, f7 : f7s, rd : rds, rs1 : {0, 1}, rs2 : rs2s]
Words ==
    WordsOf({11, 43}, 0..20 \cup {31, 32, 63, 64, 127}, {0, 1}, 0..3)
    \cup WordsOf({3, 15, 19, 23, 35, 51, 55, 99, 103, 111, 115}, {0, 1, 32, 64, 127}, {0, 1, 10}, {0, 3})
Loads(vaddrs, sizes, offset) ==
    [vaddr : vaddrs, size : sizes, exec : BOOLEAN, offset : {offset}]
AsSegment(l) == [vaddr |-> l.vaddr, filesz |-> l.size[1], memsz |-> l.size[2], exec |-> l.exec, offset |-> l.offset]
Firsts ==
    {AsSegment(l) : l \in Loads({0, 4, 6, 8, 12}, {<<0, 4>>, <<3, 4>>, <<4, 4>>, <<4, 8>>, <<8, 8>>, <<8, 7>>, <<16, 4>>, <<4, 16>>}, 8)
                          \cup Loads({4}, {<<4, 4>>}, 40)}
Seconds == {AsSegment(l) : l \in Loads({0, 4, 8}, {<<3, 4>>, <<4, 4>>, <<4, 8>>, <<8, 8>>}, 0)}
Thirds == {AsSegment(l) : l \in Loads({0, 4, 8}, {<<3, 4>>, <<4, 8>>}, 20)}
Files == {<<s>> : s \in Firsts} \cup (Firsts \X Seconds) \cup (Seconds \X Thirds \X Seconds)
Toolchain == INSTANCE Transpiler WITH
    Circuits <- [modular |-> 2, fp2 |-> 2, ecc |-> 2], Entries <- {4, 6}, FileLen <- 40, MaxMem <- 16, MAX_ALLOWED_PC <- 8

configurationVars == <<config, executors, airs, chips, proving, outcome>>
transpilerVars == <<word, emitted>>
elfVars == <<file, loader, loaded>>
proofVars == <<backend, streams, guest, metered, tracing, rows>>
chipVars == <<phase, segment, records, threads, lookup, tables>>
ProofIdle == backend = "" /\ streams = <<>> /\ guest = <<>> /\ metered = <<>> /\ tracing = <<>> /\ rows = <<>>
ChipIdle == phase = "" /\ segment = 0 /\ records = <<>> /\ threads = <<>> /\ lookup = <<>> /\ tables = <<>>
ForgedIdle == forged = [rows |-> <<>>, closed |-> FALSE, n |-> 0]
ConfigurationIdle == config = <<>> /\ executors = <<>> /\ airs = <<>> /\ chips = <<>> /\ proving = <<>> /\ outcome = ""
TranspilerIdle == word = <<>> /\ emitted = <<>>
ElfIdle == file = <<>> /\ loader = <<>> /\ loaded = ""

Init ==
    \/ /\ part = "deferral" /\ DeferralInit
       /\ ForgedIdle /\ limbs = <<>> /\ ConfigurationIdle /\ TranspilerIdle /\ ElfIdle
    \/ /\ part = "hash" /\ HashInit
       /\ ProofIdle /\ ForgedIdle /\ limbs = <<>> /\ ConfigurationIdle /\ TranspilerIdle /\ ElfIdle
    \/ /\ part = "forgeOutput" /\ ForgedIdle
       /\ ProofIdle /\ ChipIdle /\ limbs = <<>> /\ ConfigurationIdle /\ TranspilerIdle /\ ElfIdle
    \/ /\ part = "forgeCount" /\ forged \in [rows : {<<>>}, closed : {FALSE}, n : 0..4]
       /\ ProofIdle /\ ChipIdle /\ limbs = <<>> /\ ConfigurationIdle /\ TranspilerIdle /\ ElfIdle
    \/ /\ part = "canonicity" /\ limbs \in [1..3 -> 0..ByteBase - 1]
       /\ ProofIdle /\ ChipIdle /\ ForgedIdle /\ ConfigurationIdle /\ TranspilerIdle /\ ElfIdle
    \/ /\ part = "connector" /\ limbs \in {l \in [range : 1..6, max : 1..6, ts : 0..TimeField - 1] : 2 * l.range >= l.max}
       /\ ProofIdle /\ ChipIdle /\ ForgedIdle /\ ConfigurationIdle /\ TranspilerIdle /\ ElfIdle
    \/ /\ part = "configuration" /\ Configuration!Start
       /\ ProofIdle /\ ChipIdle /\ ForgedIdle /\ limbs = <<>> /\ TranspilerIdle /\ ElfIdle
    \/ /\ part = "transpiler" /\ Toolchain!TranspilerStart
       /\ ProofIdle /\ ChipIdle /\ ForgedIdle /\ limbs = <<>> /\ ConfigurationIdle /\ ElfIdle
    \/ /\ part = "elf" /\ Toolchain!ElfStart
       /\ ProofIdle /\ ChipIdle /\ ForgedIdle /\ limbs = <<>> /\ ConfigurationIdle /\ TranspilerIdle

Next ==
    /\ UNCHANGED <<part, limbs>>
    /\ \/ part = "deferral" /\ DeferralNext /\ UNCHANGED <<forged, configurationVars, transpilerVars, elfVars>>
       \/ part = "hash" /\ HashNext /\ UNCHANGED <<forged, configurationVars, transpilerVars, elfVars>>
       \/ /\ part = "forgeOutput" /\ (ForgeFirst \/ ForgeRow \/ ForgeClose)
          /\ UNCHANGED <<proofVars, chipVars, configurationVars, transpilerVars, elfVars>>
       \/ /\ part = "forgeCount" /\ (ForgeCountRow \/ ForgeCountClose)
          /\ UNCHANGED <<proofVars, chipVars, configurationVars, transpilerVars, elfVars>>
       \/ part = "configuration" /\ Configuration!VmNext /\ UNCHANGED <<proofVars, chipVars, forged, transpilerVars, elfVars>>
       \/ part = "transpiler" /\ Toolchain!Transpile /\ UNCHANGED <<proofVars, chipVars, forged, configurationVars, elfVars>>
       \/ part = "elf" /\ Toolchain!ElfNext /\ UNCHANGED <<proofVars, chipVars, forged, configurationVars, transpilerVars>>

vars == <<part, limbs, forged, proofVars, chipVars, configurationVars, transpilerVars, elfVars>>
Spec == Init /\ [][Next]_vars
\* The loader on its own.
ElfSpec == part = "elf" /\ Init /\ [][Next]_vars

-----------------------------------------------------------------------------
Program == FlattenSeq(metered.segs)
\* An accumulator of a circuit when each CALL of it adds the digest of its input.
Accumulated(c, start, Digest(_)) ==
    FoldLeft(LAMBDA acc, i : IF i.op = "CALL" /\ i.c = c THEN perm(acc, Digest(<<"A", "B">>[i.b]), TRUE) ELSE acc,
             start, Program)
\* The heights that metered execution counts are those of the traces of the CALL
\* and OUTPUT chips, and cover the distinct permutations of the Poseidon2 trace and
\* the records of its GPU buffer (on_height_change in execute_e2_impl).
DeferralEstimateCovers ==
    phase \in {"calls", "count", "traced"} =>
        LET h == metered.heights[segment.idx]
        IN /\ Len(rows.call) = NextPowerOfTwoOrZero(h[AirIdx(CALL_AIR_REL_IDX)])
           /\ Len(rows.output) = NextPowerOfTwoOrZero(h[AirIdx(OUTPUT_AIR_REL_IDX)])
           /\ Cardinality(DOMAIN lookup.map) <= h[AirIdx(POSEIDON2_AIR_REL_IDX)]
           /\ Len(lookup.buffer) <= h[AirIdx(POSEIDON2_AIR_REL_IDX)]
           /\ Cardinality(DOMAIN tables.perm.rows) <= h[AirIdx(POSEIDON2_AIR_REL_IDX)] \/ phase = "calls"

\* Executing a program with tracing never fails where metered execution went
\* through, and leaves the same memory and deferral states, whether inputs were
\* answered beforehand or are run on the way; the accumulators of a circuit then
\* hash exactly the inputs of its CALLs and the outputs of its function on them,
\* in the order of the program (DeferralFn::execute, generate_deferral_results).
\* And the heights metered on the way cover the traces.
DeferredCallsAgree ==
    part = "deferral" =>
        /\ phase # "diverged"
        /\ DeferralEstimateCovers
        /\ phase = "done" =>
             /\ guest = metered.guest
             /\ \A c \in Circuits :
                  /\ Pair(guest.mem, DEFERRAL_AS, InputAccPtr(c)) = Accumulated(c, CircuitCommit(c), InputCommit)
                  /\ Pair(guest.mem, DEFERRAL_AS, OutputAccPtr(c))
                       = Accumulated(c, Zero, LAMBDA x : hash_output_raw(c, DeferralFns[c][x]))

OutputPairs == [k \in DOMAIN rows.output |-> <<rows.output[k], rows.output[(k % Len(rows.output)) + 1]>>]
\* However the threads that fill rows interleave, on a CPU or a GPU, and in every
\* segment of a proof: the traces of a segment satisfy the constraints of the CALL
\* and OUTPUT AIRs, padding and last row included; their memory accesses and
\* timestamps are exactly those of the execution; and the lookups they send to the
\* Poseidon2, count and range tables are exactly what these tables receive.
HonestTraceAccepted ==
    part = "deferral" /\ phase = "traced" =>
        LET calls == {r \in Range(rows.call) : r.is_valid = 1}
            outputs == Range(rows.output)
            perms == FlattenSeq([k \in DOMAIN rows.call |-> CallPermSends(rows.call[k])])
                     \o FlattenSeq([k \in DOMAIN OutputPairs |-> OutputPermSends(OutputPairs[k][1], OutputPairs[k][2])])
            ranges == FlattenSeq([k \in DOMAIN rows.call |-> CallRangeSends(rows.call[k])])
                      \o FlattenSeq([k \in DOMAIN rows.output |-> OutputRangeSends(rows.output[k])])
            sent(c) == Cardinality({k \in DOMAIN rows.call : rows.call[k].is_valid = 1 /\ rows.call[k].deferral_idx = c})
                       + Cardinality({k \in DOMAIN rows.output : rows.output[k].is_first = 1 /\ rows.output[k].deferral_idx = c})
        IN /\ \A r \in Range(rows.call) : CallCoreEval(r)
           /\ \A r \in calls : AuxHolds(r.from_timestamp, r.aux)
           /\ \A k \in DOMAIN OutputPairs : OutputEval(OutputPairs[k][1], OutputPairs[k][2], k = 1, k = Len(OutputPairs))
           /\ \A r \in outputs : OutputAuxHolds(r)
           /\ UNION {Accesses(CallOps(r), r.from_timestamp, r.aux) : r \in calls} \cup UNION {OutputAccesses(r) : r \in outputs}
                = Range(tracing.log)
           /\ {CallSpan(r) : r \in calls} \cup {OutputSpan(r) : r \in {o \in outputs : o.is_last = 1}} = tracing.spans
           /\ BagOf(perms) = PermReceives(tables.perm)
           /\ BagOf(ranges) = BagOf(lookup.ranges)
           /\ \A k \in DOMAIN tables.count : tables.count[k].mult = sent(tables.count[k].row_idx)

\* Threads that hash with the system's Poseidon2 chip at the same time, a count and
\* a flag each, in one segment after the other: its trace receives exactly the
\* hashes of its own segment (compress_and_record, generate_proving_ctx).
SystemHashesBalance ==
    part = "hash" /\ phase = "hashed" =>
        PermReceives(tables.perm)
            = BagOf([k \in DOMAIN FlattenSeq(records) |->
                       LET r == FlattenSeq(records)[k] IN <<r.lhs, r.rhs, perm(r.lhs, r.rhs, TRUE), TRUE>>])

\* Whatever rows a prover puts together, up to the height of four: when the OUTPUT
\* AIR accepts them and their permutations are genuine, every instruction in them
\* writes, section by section, the output that the commitment it read is the hash of,
\* under the index of its circuit and with the length it read (DeferralOutputAir::eval).
AcceptedOutputGenuine ==
    forged.closed =>
        \A k \in DOMAIN forged.rows :
            LET last == forged.rows[k]
                n == last.section_idx
                raw == [j \in 1..n |-> forged.rows[k - n + j].sponge_inputs]
            IN last.is_last = 1 =>
                 /\ k > n /\ forged.rows[k - n].is_first = 1
                 /\ \A j \in 1..n : forged.rows[k - n + j].section_idx = j /\ forged.rows[k - n + j].is_first = 0
                 /\ last.output_commit = hash_output_raw(last.deferral_idx, raw)
                 /\ last.output_len = DIGEST_SIZE * Len(raw)

\* Whatever rows a prover puts together: an accepted count table has one valid row
\* for each configured circuit and no other, so that no CALL or OUTPUT can name a
\* circuit that is not configured (DeferralCircuitCountAir::eval).
CountKeysAreCircuits ==
    forged.closed =>
        LET valid == {k \in DOMAIN forged.rows : forged.rows[k].is_valid = 1}
        IN /\ {forged.rows[k].row_idx : k \in valid} = 0..forged.n - 1
           /\ Cardinality(valid) = forged.n
           /\ \A k \in DOMAIN forged.rows \ valid : forged.rows[k].mult = 0

\* No trace that a prover makes up passes the OUTPUT or the count AIR with anything
\* but genuine outputs of configured circuits.
AcceptedTracesGenuine ==
    /\ part = "forgeOutput" => AcceptedOutputGenuine
    /\ part = "forgeCount" => CountKeysAreCircuits

Markers == [1..3 -> 0..ByteField - 1]
NoMarker == [j \in 1..3 |-> 0]
\* Limbs are accepted on an enabled row, for some markers and difference, exactly when
\* the value they spell is below the order of the field, and then so are the markers
\* and difference that trace generation finds; on any other row markers are accepted
\* exactly when they are cleared, whatever the limbs (CanonicitySubAir,
\* CanonicityTraceGen).
CanonicityExact ==
    LET canonical == ByteValue(limbs) < ByteField
    IN /\ canonical <=> \E marker \in Markers, diff \in 0..ByteField - 1 : CanonicityAccepted(1, limbs, marker, diff)
       /\ canonical => LET g == generate_subrow(limbs) IN CanonicityAccepted(1, limbs, g.marker, g.diff)
       /\ \A marker \in Markers, diff \in {0, 1} :
            CanonicityAccepted(0, limbs, marker, diff) <=> marker = NoMarker

\* A timestamp is accepted, for some low limb, exactly when it is below
\* 2^timestamp_max_bits, also where the division by 2^range_max_bits wraps around in
\* the field; and the range checks that the chip requests are in their tables for
\* exactly these timestamps (VmConnectorAir, VmConnectorChip).
ConnectorBoundsTimestamp ==
    LET accepted == \E low \in 0..TimeField - 1 : ConnectorEval(limbs.ts, low, limbs.range, limbs.max)
    IN /\ accepted <=> limbs.ts < 2^limbs.max
       /\ ConnectorRequests(limbs.ts, limbs.range, limbs.max) <=> limbs.ts < 2^limbs.max

\* Values in limbs are accepted exactly when they are in range, also at the order of
\* the field: the bytes of a commitment and the final timestamp of a segment.
LimbsExact ==
    /\ part = "canonicity" => CanonicityExact
    /\ part = "connector" => ConnectorBoundsTimestamp

\* Every configuration of the SDK, and each fixed one, builds its AIRs, chips and
\* executors without a mismatch, for both back ends; the records of an executor reach the
\* chip that was made for its AIR, a chip counts its lookups in the chip behind the
\* bus its AIR sends them to, and metered execution charges an opcode to the AIR of
\* its chip (VmConfiguration).
InventoriesAgree ==
    part = "configuration" =>
        /\ Configuration!ConstructionSucceeds
        /\ Configuration!RecordsReachTheirChip
        /\ Configuration!LookupsMatchBuses
        /\ Configuration!MeteredOffsets

\* A chip that others count in generates its trace after all of them, and the traces
\* handed to the prover carry the index of their AIR (generate_proving_ctx).
TracesInOrder ==
    part = "configuration" =>
        Configuration!PeripheryAfterProducers /\ Configuration!TracesKeyedByAir

\* No word of a program is claimed by two extensions; what is emitted for it has an
\* executor, never writes x0 and keeps the word's immediate; and the instructions of
\* an accepted ELF file are at the addresses its segments give them, less the words of
\* earlier executable segments that the file does not hold (Transpiler).
ProgramsTranspile ==
    /\ part = "transpiler" =>
         /\ Toolchain!OneExtensionClaims
         /\ Toolchain!EmittedIsExecutable
         /\ Toolchain!X0NeverWritten
         /\ Toolchain!ImmediatesSurvive
    /\ part = "elf" => Toolchain!ElfPlacesInstructions

\* elf.rs tracks the end of the last executable segment to reject files whose
\* executable segments are not contiguous: an accepted file's instructions are each at
\* the address its segment gives it (Transpiler).
ElfSegmentsContiguous == part = "elf" => Toolchain!NonContiguousRejected
=============================================================================
