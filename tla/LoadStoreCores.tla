--------------------------- MODULE LoadStoreCores ---------------------------
(* The cores of the loads and stores.  See CoreChip for the machine.           *)
EXTENDS FieldLimbs

CONSTANTS Misaligned

VARIABLES input, result, row, requests, phase

-----------------------------------------------------------------------------
(* LOADW, LOADHU, LOADBU, STOREW, STOREH, STOREB: one aligned word is read and*)
(* one is written, whatever the width of the access.  read is the memory word*)
(* of a load or the register of a store, prev is what the written word held, *)
(* shift is the pointer modulo NUM_LIMBS.                                    *)

Opcodes == <<"LOADW", "LOADBU", "LOADHU", "STOREW", "STOREH", "STOREB">>
Loads == {"LOADW", "LOADBU", "LOADHU"}

\* Bytes (limbs) of an access.
Width(opcode) ==
    CASE opcode \in {"LOADW", "STOREW"} -> NUM_LIMBS
      [] opcode \in {"LOADHU", "STOREH"} -> NUM_LIMBS \div 2
      [] OTHER -> 1
Aligned(opcode, shift) == shift % Width(opcode) = 0

LoadStoreAccesses == {a \in OpcodeSet(Opcodes) \X Index : Misaligned \/ Aligned(a[1], a[2])}
Instruction(opcode, shift, read, prev) ==
    [opcode |-> opcode, is_load |-> FromBool(opcode \in Loads),
     load_shift |-> IF opcode \in Loads THEN shift ELSE 0,
     store_shift |-> IF opcode \in Loads THEN 0 ELSE shift,
     read |-> read, prev |-> prev]
Shift(i) == i.load_shift + i.store_shift
LoadStoreInputs == {Instruction(a[1], a[2], read, prev) : a \in LoadStoreAccesses, read \in Operand, prev \in Operand}

-----------------------------------------------------------------------------
(* Execution.                                                              *)

\* No word: unreachable! of run_write_data, ExecutionError::Fail of the
\* interpreters.
Trap == <<>>

RunWriteData(opcode, read, prev, shift) ==
    IF ~ Aligned(opcode, shift) THEN Trap
    ELSE [i \in Index |->
            CASE opcode \in {"LOADW", "STOREW"} -> read[i]
              [] opcode \in {"LOADBU", "LOADHU"} ->
                    IF i < Width(opcode) THEN read[i + shift] ELSE 0
              [] opcode \in {"STOREB", "STOREH"} ->
                    IF i \in shift..shift + Width(opcode) - 1 THEN read[i - shift] ELSE prev[i]]

LoadStoreExecute(i) == RunWriteData(i.opcode, i.read, i.prev, Shift(i))

\* LoadStoreOp::compute_write_data: stores of part of a word start from host_read.
\* A word access does not look at the shift.
ComputeWriteData(opcode, read, host, shift) ==
    IF opcode \in {"LOADHU", "STOREH"} /\ shift \notin {0, 2} THEN Trap
    ELSE CASE opcode \in {"LOADW", "STOREW"} -> read
           [] opcode = "LOADHU" -> [ZeroWord EXCEPT ![0] = read[shift], ![1] = read[shift + 1]]
           [] opcode = "LOADBU" -> [ZeroWord EXCEPT ![0] = read[shift]]
           [] opcode = "STOREH" -> [host EXCEPT ![shift] = read[0], ![shift + 1] = read[1]]
           [] opcode = "STOREB" -> [host EXCEPT ![shift] = read[0]]

\* execute_e12_impl; the pointer is rounded down before memory is read.
LoadStoreInterpret(i) == ComputeWriteData(i.opcode, i.read, i.prev, Shift(i))

-----------------------------------------------------------------------------
(* Trace generation.                                                       *)

FlagsOf(f0, f1, f2, f3) == [k \in 0..3 |-> CASE k = 0 -> f0 [] k = 1 -> f1 [] k = 2 -> f2 [] OTHER -> f3]

FlagsFor(opcode, shift) ==
    CASE opcode = "LOADW" -> FlagsOf(2, 0, 0, 0)
      [] opcode = "LOADHU" -> IF shift = 0 THEN FlagsOf(0, 2, 0, 0) ELSE FlagsOf(0, 0, 2, 0)
      [] opcode = "LOADBU" -> CASE shift = 0 -> FlagsOf(0, 0, 0, 2) [] shift = 1 -> FlagsOf(1, 0, 0, 0)
                                [] shift = 2 -> FlagsOf(0, 1, 0, 0) [] OTHER -> FlagsOf(0, 0, 1, 0)
      [] opcode = "STOREW" -> FlagsOf(0, 0, 0, 1)
      [] opcode = "STOREH" -> IF shift = 0 THEN FlagsOf(1, 1, 0, 0) ELSE FlagsOf(1, 0, 1, 0)
      [] opcode = "STOREB" -> CASE shift = 0 -> FlagsOf(1, 0, 0, 1) [] shift = 1 -> FlagsOf(0, 1, 1, 0)
                                [] shift = 2 -> FlagsOf(0, 1, 0, 1) [] OTHER -> FlagsOf(0, 0, 1, 1)

LoadStoreRowOf(flags, valid, load, read, prev, write) ==
    [flags |-> flags, is_valid |-> valid, is_load |-> load,
     read_data |-> read, prev_data |-> prev, write_data |-> write]

LoadStoreFillTraceRow(i) ==
    LoadStoreRowOf(FlagsFor(i.opcode, Shift(i)), 1, FromBool(i.opcode \in Loads), i.read, i.prev,
          RunWriteData(i.opcode, i.read, i.prev, Shift(i)))
LoadStoreRequests(i) == <<>>

\* The switch of the kernel.
CudaWriteData(opcode, read, prev, shift) ==
    CASE opcode \in {"LOADW", "STOREW"} -> read
      [] opcode = "LOADHU" -> [i \in Index |-> IF i < NUM_LIMBS \div 2 THEN read[i + shift] ELSE 0]
      [] opcode = "LOADBU" -> [ZeroWord EXCEPT ![0] = read[shift]]
      [] opcode = "STOREH" -> [i \in Index |-> IF i >= shift /\ i < NUM_LIMBS \div 2 + shift
                                               THEN read[i - shift] ELSE prev[i]]
      [] opcode = "STOREB" -> [prev EXCEPT ![shift] = read[0]]
LoadStoreCudaFillTraceRow(i) ==
    LoadStoreRowOf(FlagsFor(i.opcode, Shift(i)), 1, FromBool(i.opcode \in Loads), i.read, i.prev,
          CudaWriteData(i.opcode, i.read, i.prev, Shift(i)))
LoadStoreCudaRequests(i) == <<>>

LoadStoreZeroRow == LoadStoreRowOf(FlagsOf(0, 0, 0, 0), 0, 0, ZeroWord, ZeroWord, ZeroWord)

-----------------------------------------------------------------------------
(* The AIR.                                                                *)

InstructionOpcodes ==
    <<"LoadW0", "LoadHu0", "LoadHu2", "LoadBu0", "LoadBu1", "LoadBu2", "LoadBu3",
      "StoreW0", "StoreH0", "StoreH2", "StoreB0", "StoreB1", "StoreB2", "StoreB3">>

FlagTotal(f) == Sum(f, 4)

\* One opcode and shift per combination of the flags: one flag is 2, one is 1,
\* or two are 1.
OpcodeFlags(f) ==
    LET two(k) == f[k] * (f[k] - 1) * Inv(2)
        one(k) == - f[k] * (FlagTotal(f) - 2)
    IN  [o \in {InstructionOpcodes[k] : k \in 1..14} |->
            (CASE o = "LoadW0" -> two(0) [] o = "LoadHu0" -> two(1)
               [] o = "LoadHu2" -> two(2) [] o = "LoadBu0" -> two(3)
               [] o = "LoadBu1" -> one(0) [] o = "LoadBu2" -> one(1)
               [] o = "LoadBu3" -> one(2) [] o = "StoreW0" -> one(3)
               [] o = "StoreH0" -> f[0] * f[1] [] o = "StoreH2" -> f[0] * f[2]
               [] o = "StoreB0" -> f[0] * f[3] [] o = "StoreB1" -> f[1] * f[2]
               [] o = "StoreB2" -> f[1] * f[3] [] o = "StoreB3" -> f[2] * f[3]) % P]

\* opcode_when
When(of, set) ==
    Sum([k \in 0..13 |-> IF InstructionOpcodes[k + 1] \in set THEN of[InstructionOpcodes[k + 1]] ELSE 0], 14)

LoadOpcodes == {"LoadW0", "LoadHu0", "LoadHu2", "LoadBu0", "LoadBu1", "LoadBu2", "LoadBu3"}

\* expected_load_val + expected_store_val of each cell, for four cells.
ExpectedVal(of, read, prev) ==
    LET load == [i \in Index |->
            CASE i = 0 -> When(of, {"LoadW0", "LoadHu0", "LoadBu0"}) * read[0] + of["LoadBu1"] * read[1]
                            + When(of, {"LoadHu2", "LoadBu2"}) * read[2] + of["LoadBu3"] * read[3]
              [] i > 0 /\ i < NUM_LIMBS \div 2 ->
                    When(of, {"LoadW0", "LoadHu0"}) * read[i] + of["LoadHu2"] * read[i + 2]
              [] OTHER -> of["LoadW0"] * read[i]]
        store == [i \in Index |->
            CASE i = 0 -> When(of, {"StoreW0", "StoreH0", "StoreB0"}) * read[0]
                            + When(of, {"StoreH2", "StoreB1", "StoreB2", "StoreB3"}) * prev[0]
              [] i = 1 -> of["StoreB1"] * read[0] + When(of, {"StoreW0", "StoreH0"}) * read[1]
                            + When(of, {"StoreH2", "StoreB0", "StoreB2", "StoreB3"}) * prev[1]
              [] i = 2 -> When(of, {"StoreH2", "StoreB2"}) * read[0] + of["StoreW0"] * read[2]
                            + When(of, {"StoreH0", "StoreB0", "StoreB1", "StoreB3"}) * prev[2]
              [] OTHER -> of["StoreB3"] * read[0] + of["StoreH2"] * read[1] + of["StoreW0"] * read[3]
                            + When(of, {"StoreH0", "StoreB0", "StoreB1", "StoreB2"}) * prev[3]]
    IN  [i \in Index |-> (load[i] + store[i]) % P]

\* flag, and their sum, are 0, 1 or 2.
Ternary(e) == IsZero(e * (e - 1) * (e - 2))

EvalFlagColumns(r) ==
    /\ IsBool(r.is_valid)
    /\ \A k \in 0..3 : Ternary(r.flags[k])
    /\ Ternary(FlagTotal(r.flags))
    /\ IsZero((FlagTotal(r.flags) - 1) * (FlagTotal(r.flags) - 2) * r.is_valid)

EvalWriteData(r) ==
    LET expected == ExpectedVal(OpcodeFlags(r.flags), r.read_data, r.prev_data)
    IN  \A i \in Index : Eq(r.write_data[i], expected[i])

LoadStoreEval(r) ==
    /\ EvalFlagColumns(r)
    /\ Eq(r.is_load, When(OpcodeFlags(r.flags), LoadOpcodes))
    /\ r.is_load # 0 => r.is_valid = 1
    /\ EvalWriteData(r)

LoadStoreSends(r) == <<>>
LoadStoreLookupHit(key) == FALSE
Agree(x, y) == x = y

\* expected_opcode, load_shift_amount and store_shift_amount.
Expected(of) ==
    LET n == (When(of, {"LoadBu0", "LoadBu1", "LoadBu2", "LoadBu3"}) + 2 * When(of, {"LoadHu0", "LoadHu2"})
              + 3 * of["StoreW0"] + 4 * When(of, {"StoreH0", "StoreH2"})
              + 5 * When(of, {"StoreB0", "StoreB1", "StoreB2", "StoreB3"})) % P
    IN  [opcode |-> IF n < Len(Opcodes) THEN Opcodes[n + 1] ELSE "none",
         load_shift |-> (of["LoadBu1"] + 2 * When(of, {"LoadHu2", "LoadBu2"}) + 3 * of["LoadBu3"]) % P,
         store_shift |-> (of["StoreB1"] + 2 * When(of, {"StoreH2", "StoreB2"}) + 3 * of["StoreB3"]) % P]

LoadStoreContext(r) ==
    LET e == Expected(OpcodeFlags(r.flags))
    IN  [is_valid |-> r.is_valid,
         input |-> [opcode |-> e.opcode, is_load |-> r.is_load, load_shift |-> e.load_shift,
                    store_shift |-> e.store_shift, read |-> r.read_data, prev |-> r.prev_data],
         result |-> r.write_data]

\* Flags that stand for a given instruction; the other columns follow from the
\* equality constraints, or differ from them in one cell.
FlagTable == [f \in [0..3 -> {x \in F : Ternary(x)}] |->
                 LET e == Expected(OpcodeFlags(f)) IN <<e.opcode, e.load_shift, e.store_shift>>]
LoadStoreForgedRows(i) ==
    LET fs == {f \in DOMAIN FlagTable : FlagTable[f] = <<i.opcode, i.load_shift, i.store_shift>>}
    IN  UNION {LET w == ExpectedVal(OpcodeFlags(f), i.read, i.prev)
               IN  {LoadStoreRowOf(f, 1, i.is_load, i.read, i.prev, [w EXCEPT ![k] = (@ + d) % P]) :
                       k \in Index, d \in {0, 1}} : f \in fs}

LoadStoreCore == INSTANCE CoreChip WITH
    Inputs <- LoadStoreInputs, Execute <- LoadStoreExecute, Interpret <-
    LoadStoreInterpret, FillTraceRow <- LoadStoreFillTraceRow, Requests <-
    LoadStoreRequests, CudaFillTraceRow <- LoadStoreCudaFillTraceRow, CudaRequests <-
    LoadStoreCudaRequests, ForgedRows <- LoadStoreForgedRows, Eval <- LoadStoreEval,
    Sends <- LoadStoreSends, LookupHit <- LoadStoreLookupHit, Context <-
    LoadStoreContext, ZeroRow <- LoadStoreZeroRow

-----------------------------------------------------------------------------
(* LOADB, LOADH: a byte or half word of the aligned word read is written with*)
(* its sign extended; prev is what the register held.                        *)

SignExtendAccesses == ({"LOADB"} \X Index) \cup ({"LOADH"} \X {s \in Index : s % 2 = 0})
MaxWord == [i \in Index |-> 2^LIMB_BITS - 1]
SignExtendInputs == {[opcode |-> a[1], load_shift |-> a[2], read |-> read, prev |-> prev] :
              a \in SignExtendAccesses, read \in Operand, prev \in {ZeroWord, MaxWord}}

HALF == NUM_LIMBS \div 2
MsbOf(limb) == limb \div 2^(LIMB_BITS - 1)

-----------------------------------------------------------------------------
(* Execution.                                                              *)

RunWriteDataSignExtend(opcode, read, shift) ==
    LET last == IF opcode = "LOADH" THEN HALF - 1 ELSE 0
        ext == MsbOf(read[last + shift]) * (2^LIMB_BITS - 1)
    IN  [i \in Index |-> IF i <= last THEN read[i + shift] ELSE ext]

SignExtendExecute(i) == RunWriteDataSignExtend(i.opcode, i.read, i.load_shift)

\* x as a signed number of the given bits, as i8 as i32 and i16 as i32.
SignedOf(x, bits) == IF x >= 2^(bits - 1) THEN x - 2^bits ELSE x

\* execute_e12_impl
SignExtendInterpret(i) ==
    LET half == i.read[i.load_shift] + 2^LIMB_BITS * i.read[(i.load_shift + 1) % NUM_LIMBS]
    IN  IF i.opcode = "LOADB" THEN Decompose(Wrap(SignedOf(i.read[i.load_shift], LIMB_BITS)))
        ELSE Decompose(Wrap(SignedOf(half, 2 * LIMB_BITS)))

-----------------------------------------------------------------------------
(* Trace generation.                                                       *)

RotateLeft(word, n) == [i \in Index |-> word[(i + n) % NUM_LIMBS]]
MostSigLimb(i) == i.read[IF i.opcode = "LOADB" THEN i.load_shift ELSE HALF - 1 + i.load_shift]

SignExtendRowOf(b0, b1, h, shift, msb, shifted, prev) ==
    [loadb_flag0 |-> b0, loadb_flag1 |-> b1, loadh_flag |-> h, shift_most_sig_bit |-> shift,
     data_most_sig_bit |-> msb, shifted_read_data |-> shifted, prev_data |-> prev]

SignExtendFillTraceRow(i) ==
    LET shift == i.load_shift
    IN  SignExtendRowOf(FromBool(i.opcode = "LOADB" /\ shift % 2 = 0), FromBool(i.opcode = "LOADB" /\ shift % 2 = 1),
              FromBool(i.opcode = "LOADH"), Bit(shift, 1), MsbOf(MostSigLimb(i)),
              RotateLeft(i.read, 2 * Bit(shift, 1)), i.prev)

SignExtendRequests(i) ==
    <<AddCount(MostSigLimb(i) - MsbOf(MostSigLimb(i)) * 2^(LIMB_BITS - 1), LIMB_BITS - 1)>>

SignExtendCudaFillTraceRow(i) ==
    LET shift == i.load_shift
        shifted == IF Bit(shift, 1) = 1
                   THEN [k \in Index |-> IF k < NUM_LIMBS - 2 THEN i.read[k + 2]
                                         ELSE i.read[k - (NUM_LIMBS - 2)]]
                   ELSE i.read
    IN  SignExtendRowOf(FromBool(i.opcode = "LOADB" /\ shift % 2 = 0), FromBool(i.opcode = "LOADB" /\ shift % 2 = 1),
              FromBool(i.opcode # "LOADB"), Bit(shift, 1), MsbOf(MostSigLimb(i)), shifted, i.prev)
SignExtendCudaRequests(i) ==
    <<AddCount(MostSigLimb(i) - MsbOf(MostSigLimb(i)) * 2^(LIMB_BITS - 1), LIMB_BITS - 1)>>

SignExtendZeroRow == SignExtendRowOf(0, 0, 0, 0, 0, ZeroWord, ZeroWord)

-----------------------------------------------------------------------------
(* The AIR.                                                                *)

IsValid(r) == r.loadb_flag0 + r.loadb_flag1 + r.loadh_flag

SignExtendEval(r) ==
    /\ \A e \in {r.loadb_flag0, r.loadb_flag1, r.loadh_flag, IsValid(r),
                 r.data_most_sig_bit, r.shift_most_sig_bit} : IsBool(e)

LimbMask(r) == r.data_most_sig_bit * (2^LIMB_BITS - 1)

WriteData(r) ==
    LET s == r.shifted_read_data
    IN  [i \in Index |->
            (CASE i = 0 -> (r.loadh_flag + r.loadb_flag0) * s[0] + r.loadb_flag1 * s[1]
               [] i > 0 /\ i < HALF -> s[i] * r.loadh_flag + (r.loadb_flag0 + r.loadb_flag1) * LimbMask(r)
               [] OTHER -> LimbMask(r)) % P]

SignExtendSends(r) ==
    LET s == r.shifted_read_data
        limb == s[0] * r.loadb_flag0 + s[1] * r.loadb_flag1 + s[HALF - 1] * r.loadh_flag
    IN  <<Send(IsValid(r), VarRangeKey(limb - r.data_most_sig_bit * 2^(LIMB_BITS - 1), LIMB_BITS - 1))>>

SignExtendLookupHit(key) == InTable(key, LIMB_BITS, <<0, 0>>)

\* read_data is the shifted data turned back.
ReadData(r) ==
    [i \in Index |->
        (r.shift_most_sig_bit * r.shifted_read_data[(i + NUM_LIMBS - 2) % NUM_LIMBS]
            + (1 - r.shift_most_sig_bit) * r.shifted_read_data[i]) % P]

SignExtendContext(r) ==
    [is_valid |-> IsValid(r),
     input |-> [opcode |-> IF r.loadh_flag = 1 THEN "LOADH" ELSE "LOADB",
                load_shift |-> r.shift_most_sig_bit * 2 + r.loadb_flag1,
                read |-> ReadData(r), prev |-> r.prev_data],
     result |-> WriteData(r)]

\* The memory bus fixes read_data and with it the shifted data.
SignExtendForgedRows(i) ==
    {SignExtendRowOf(b0, b1, h, s, m, RotateLeft(i.read, 2 * s), i.prev) :
        b0 \in Bools, b1 \in Bools, h \in Bools, s \in Bools, m \in Bools}

SignExtendCore == INSTANCE CoreChip WITH
    Inputs <- SignExtendInputs, Execute <- SignExtendExecute, Interpret <-
    SignExtendInterpret, FillTraceRow <- SignExtendFillTraceRow, Requests <-
    SignExtendRequests, CudaFillTraceRow <- SignExtendCudaFillTraceRow, CudaRequests <-
    SignExtendCudaRequests, ForgedRows <- SignExtendForgedRows, Eval <- SignExtendEval,
    Sends <- SignExtendSends, LookupHit <- SignExtendLookupHit, Context <-
    SignExtendContext, ZeroRow <- SignExtendZeroRow
=============================================================================
