---------------------------- MODULE LoadStoreAdapter ----------------------------
(* The adapter of the loads and stores: from a register and a signed immediate  *)
(* to an aligned block of memory and a shift, for the circuit with the pointer   *)
(* in two half-words.  The core's result is an input here (modules LoadStore and *)
(* LoadSignExtend compute it).  See CoreChip for the machine.                     *)
EXTENDS FieldLimbs

CONSTANTS
    RegPtrs,            \* registers; the first operand register may be any of them
    Rs1Samples,         \* values of rs1
    Imms,               \* half-word immediates
    POINTER_MAX_BITS,
    FirstTs

VARIABLES input, result, row, requests, phase

HALF_BITS == 2 * LIMB_BITS
DEFERRAL_AS == 4
PUBLIC_VALUES_AS == 3

Reg(p) == <<RV32_REGISTER_AS, p>>

Blocks == {p \in 0..2^POINTER_MAX_BITS - 1 : p % 4 = 0}

\* Register b holds rs1, the others and the blocks have values of their own.
Memory(b, rs1) ==
    [x \in {Reg(p) : p \in RegPtrs} \cup ({RV32_MEMORY_AS, PUBLIC_VALUES_AS} \X Blocks) |->
        [data |-> IF x = Reg(b) THEN Decompose(rs1) ELSE Decompose((3 * x[1] + 7 * x[2]) % 2^NUM_BITS),
         ts |-> (x[1] + x[2]) % FirstTs]]

\* As the transpiler makes them: only loads can be disabled, and then a = 0.
Insts ==
    {i \in [is_load : BOOLEAN, a : RegPtrs, b : RegPtrs, c : Imms, d : {RV32_REGISTER_AS},
            e : {RV32_MEMORY_AS, PUBLIC_VALUES_AS}, f : {0, 1}, g : {0, 1}] :
        /\ i.is_load => i.e = RV32_MEMORY_AS
        /\ i.f = 0 => i.is_load /\ i.a = 0}

-----------------------------------------------------------------------------
(* Execution.                                                              *)

\* imm_extended and the wrapping addition
Pointer(rs1, imm, sign) == (rs1 + imm + sign * (2^NUM_BITS - 2^HALF_BITS)) % 2^NUM_BITS

PtrVal(i) == Pointer(i.rs1, i.inst.c, i.inst.g)
ShiftAmount(i) == PtrVal(i) % 4
AlignedPtr(i) == PtrVal(i) - ShiftAmount(i)

\* The assertion of the executor: execution goes on only below the limit.
PointerInRange(i) == AlignedPtr(i) < 2^POINTER_MAX_BITS

Inputs ==
    {i \in [inst : Insts, rs1 : Rs1Samples, ts : {FirstTs}, data : {[k \in Index |-> k % 2]}] :
        PointerInRange(i)}

\* Mutant of Ops: a load that is not written takes no time.
OpsUntimed(i) ==
    <<Read(Reg(i.inst.b)),
      Read(IF i.inst.is_load THEN <<RV32_MEMORY_AS, AlignedPtr(i)>> ELSE Reg(i.inst.a))>>
    \o (IF i.inst.f = 0 THEN <<>>
        ELSE <<Write(IF i.inst.is_load THEN Reg(i.inst.a) ELSE <<i.inst.e, AlignedPtr(i)>>, i.data)>>)

Ops(i) ==
    <<Read(Reg(i.inst.b)),
      Read(IF i.inst.is_load THEN <<RV32_MEMORY_AS, AlignedPtr(i)>> ELSE Reg(i.inst.a)),
      IF i.inst.f = 0 THEN Skip
      ELSE Write(IF i.inst.is_load THEN Reg(i.inst.a) ELSE <<i.inst.e, AlignedPtr(i)>>, i.data)>>

\* What the core gets besides the data read: what the write will replace.
PrevData(i) ==
    LET mem == Memory(i.inst.b, i.rs1)
    IN  mem[IF i.inst.is_load THEN Reg(i.inst.a) ELSE <<i.inst.e, AlignedPtr(i)>>].data

AccessesOf(i) == Accesses(Memory(i.inst.b, i.rs1), i.ts, Ops(i))

Execute(i) ==
    [shift |-> ShiftAmount(i), read |-> DataRead(AccessesOf(i))[2], prev |-> PrevData(i),
     accesses |-> Performed(AccessesOf(i)), to_ts |-> i.ts + Len(Ops(i)), rows |-> 1]

-----------------------------------------------------------------------------
(* Pure and metered execution of the two chips, which share the handlers'   *)
(* shape; the limit is only a debug assertion there.                        *)

DecodeLoadStore(i) ==
    /\ i.d = RV32_REGISTER_AS /\ i.e # RV32_IMM_AS /\ i.e # DEFERRAL_AS
    /\ ~ i.is_load => i.f # 0
DecodeLoadSignExtend(i) ==
    i.d = RV32_REGISTER_AS /\ i.e # RV32_IMM_AS

\* Mutant of HandlerOps: the immediate is not sign-extended.
HandlerOpsUnsigned(i) ==
    LET ptr == Pointer(i.rs1, i.inst.c, 0)
        aligned == ptr - (ptr % 4)
    IN  <<Read(Reg(i.inst.b)),
          Read(IF i.inst.is_load THEN <<i.inst.e, aligned>> ELSE Reg(i.inst.a))>>
        \o (IF i.inst.f = 0 THEN <<>>
            ELSE IF i.inst.is_load THEN <<Write(Reg(i.inst.a), i.data)>>
            ELSE <<Write(<<i.inst.e, aligned>>, i.data)>>)

HandlerOps(i) ==
    LET ptr == Pointer(i.rs1, i.inst.c, i.inst.g)
        aligned == ptr - (ptr % 4)
    IN  <<Read(Reg(i.inst.b)),
          Read(IF i.inst.is_load THEN <<i.inst.e, aligned>> ELSE Reg(i.inst.a))>>
        \o (IF i.inst.f = 0 THEN <<>>
            ELSE IF i.inst.is_load THEN <<Write(Reg(i.inst.a), i.data)>>
            ELSE <<Write(<<i.inst.e, aligned>>, i.data)>>)

\* Only stores look at what they replace (HOST_READ), and they do it at the
\* same block.
Interpret(i) ==
    IF ~ DecodeLoadStore(i.inst) \/ (i.inst.is_load /\ ~ DecodeLoadSignExtend(i.inst))
    THEN [accesses |-> <<>>, shift |-> 0, rows |-> 0]
    ELSE [accesses |-> Accesses(Memory(i.inst.b, i.rs1), i.ts, HandlerOps(i)),
          shift |-> Pointer(i.rs1, i.inst.c, i.inst.g) % 4, rows |-> 1]

Agree(x, y) == x.rows = y.rows /\ x.shift = y.shift /\ Untimed(x.accesses) = Untimed(y.accesses)

-----------------------------------------------------------------------------
(* Trace generation.                                                       *)

\* The record marks a write that did not happen by a pointer of all ones.
UINT32_MAX == 2^NUM_BITS - 1
RecordPtr(i) == IF i.inst.f = 0 THEN UINT32_MAX ELSE i.inst.a

PtrLimbs(i) == <<PtrVal(i) % 2^HALF_BITS, PtrVal(i) \div 2^HALF_BITS>>

RowOf(i, needsWrite, ptr, limbs, shift, isLoad, auxs, accs) ==
    [from_ts |-> i.ts, rs1_ptr |-> i.inst.b, rs1_data |-> Decompose(i.rs1), rd_rs2_ptr |-> ptr, imm |-> i.inst.c,
     imm_sign |-> i.inst.g, mem_ptr_limbs |-> limbs, mem_as |-> i.inst.e, needs_write |-> needsWrite, aux |-> auxs,
     bus |-> Memory(i.inst.b, i.rs1),
     core |-> [is_valid |-> 1, is_load |-> isLoad, load_shift |-> IF isLoad = 1 THEN shift ELSE 0,
               store_shift |-> IF isLoad = 1 THEN 0 ELSE shift,
               read |-> accs[2].data, prev |-> PrevData(i), write |-> i.data]]

FillTraceRow(i) ==
    LET x == AccessesOf(i)
        needsWrite == RecordPtr(i) # UINT32_MAX
    IN  RowOf(i, FromBool(needsWrite), IF needsWrite THEN RecordPtr(i) ELSE 0, PtrLimbs(i), ShiftAmount(i),
              FromBool(i.inst.is_load),
              <<AuxOf(x[1]), AuxOf(x[2]), IF needsWrite THEN AuxOf(x[3]) ELSE NoAux>>, x)

Requests(i) ==
    LET r == FillTraceRow(i)
    IN  <<LtKey(r.aux[1].prev_ts, i.ts), LtKey(r.aux[2].prev_ts, i.ts + 1)>>
        \o (IF r.needs_write = 1 THEN <<LtKey(r.aux[3].prev_ts, i.ts + 2)>> ELSE <<>>)
        \o <<AddCount(PtrLimbs(i)[1] \div 4, HALF_BITS - 2), AddCount(PtrLimbs(i)[2], POINTER_MAX_BITS - HALF_BITS)>>

\* The kernel reads the half-words of the pointer in place.
CudaFillTraceRow(i) == [FillTraceRow(i) EXCEPT !.mem_ptr_limbs =
    <<Decompose(PtrVal(i))[0] + Decompose(PtrVal(i))[1] * 2^LIMB_BITS,
      Decompose(PtrVal(i))[2] + Decompose(PtrVal(i))[3] * 2^LIMB_BITS>>]
CudaRequests(i) == Requests(i)

ZeroRow ==
    [from_ts |-> 0, rs1_ptr |-> 0, rs1_data |-> ZeroWord, rd_rs2_ptr |-> 0, imm |-> 0, imm_sign |-> 0,
     mem_ptr_limbs |-> <<0, 0>>, mem_as |-> 0, needs_write |-> 0, aux |-> <<NoAux, NoAux, NoAux>>,
     bus |-> Memory(0, 0),
     core |-> [is_valid |-> 0, is_load |-> 0, load_shift |-> 0, store_shift |-> 0, read |-> ZeroWord,
               prev |-> ZeroWord, write |-> ZeroWord]]

-----------------------------------------------------------------------------
(* The AIR.                                                                *)

When(c, e) == IsZero(c) \/ e

EvalWriteFlag(r) ==
    /\ IsBool(r.needs_write)
    /\ When(r.needs_write, Eq(r.core.is_valid, 1))
    /\ When(r.core.is_valid - r.needs_write, Eq(r.core.is_load, 1) /\ IsZero(r.rd_rs2_ptr))

\* The two carries of rs1 + imm as an addition of half-words.
CarryLow(r) == ((r.rs1_data[0] + r.rs1_data[1] * 2^LIMB_BITS + r.imm - r.mem_ptr_limbs[1]) * Inv(2^HALF_BITS)) % P
CarryHigh(r) ==
    ((r.rs1_data[2] + r.rs1_data[3] * 2^LIMB_BITS + r.imm_sign * (2^HALF_BITS - 1) + CarryLow(r)
        - r.mem_ptr_limbs[2]) * Inv(2^HALF_BITS)) % P

\* Mutant of EvalPointer: the carry out of the upper half-word is free.
EvalPointerHigh(r) ==
    When(r.core.is_valid, IsBool(CarryLow(r)) /\ IsBool(r.imm_sign))

EvalPointer(r) ==
    When(r.core.is_valid, IsBool(CarryLow(r)) /\ IsBool(r.imm_sign) /\ IsBool(CarryHigh(r)))

Ternary(e) == e % P \in {0, 1, 2}
IsStore(r) == r.core.is_valid - r.core.is_load
EvalMemAs(r) ==
    /\ Ternary(r.mem_as - 2 * IsStore(r))
    /\ When(1 - r.core.is_valid, IsZero(r.mem_as))

MemPtr(r) == r.mem_ptr_limbs[1] + r.mem_ptr_limbs[2] * 2^HALF_BITS
Select(c, x, y) == (c * x + (1 - c) * y) % P

Messages(r) ==
    LET load == r.core.is_load
    IN  <<BusRead(r.core.is_valid, Reg(r.rs1_ptr), r.rs1_data, r.from_ts, r.aux[1]),
          BusRead(r.core.is_valid,
                  <<Select(load, r.mem_as, RV32_REGISTER_AS),
                    (Select(load, MemPtr(r), r.rd_rs2_ptr) - r.core.load_shift) % P>>,
                  r.core.read, r.from_ts + 1, r.aux[2]),
          BusWrite(r.needs_write,
                   <<Select(load, RV32_REGISTER_AS, r.mem_as),
                     (Select(load, r.rd_rs2_ptr, MemPtr(r)) - r.core.store_shift) % P>>,
                   r.core.write, r.from_ts + 2, [prev_ts |-> r.aux[3].prev_ts, prev |-> r.core.prev])>>

Eval(r) ==
    /\ EvalWriteFlag(r) /\ EvalPointer(r) /\ EvalMemAs(r)
    /\ BusAccepts(r.bus, Messages(r))

Sends(r) ==
    SendsLt(Messages(r))
    \o <<Send(r.core.is_valid,
              VarRangeKey((r.mem_ptr_limbs[1] - r.core.load_shift - r.core.store_shift) * Inv(4), HALF_BITS - 2)),
         Send(r.core.is_valid, VarRangeKey(r.mem_ptr_limbs[2], POINTER_MAX_BITS - HALF_BITS))>>
LookupHit(key) == BusHit(key, HALF_BITS, <<0, 0>>)

\* The operands on the program bus; the opcode says whether it is a load.
Context(r) ==
    [is_valid |-> r.core.is_valid,
     input |-> [inst |-> [is_load |-> r.core.is_load = 1, a |-> r.rd_rs2_ptr, b |-> r.rs1_ptr, c |-> r.imm,
                          d |-> RV32_REGISTER_AS, e |-> r.mem_as, f |-> r.needs_write, g |-> r.imm_sign],
                rs1 |-> Compose(r.rs1_data), ts |-> r.from_ts, data |-> r.core.write],
     result |-> [shift |-> r.core.load_shift + r.core.store_shift, read |-> r.core.read, prev |-> r.core.prev,
                 accesses |-> Claimed(Messages(r)), to_ts |-> r.from_ts + Len(Messages(r)), rows |-> 1]]

\* The half-words of the pointer, the shift and, with them, the blocks on the
\* bus are the prover's; the low half-word has a boolean carry.
ForgedRows(i) ==
    LET honest == FillTraceRow(i)
        mem == Memory(i.inst.b, i.rs1)
        low == (i.rs1 % 2^HALF_BITS) + i.inst.c
        BlockAt(as, ptr) == IF <<as, ptr>> \in DOMAIN mem THEN mem[<<as, ptr>>] ELSE [data |-> ZeroWord, ts |-> 0]
        Forged(l0, l1, shift) ==
            LET block == BlockAt(i.inst.e, (l0 + l1 * 2^HALF_BITS - shift) % P)
                moved == [honest EXCEPT !.mem_ptr_limbs = <<l0, l1>>,
                              !.core.load_shift = IF i.inst.is_load THEN shift ELSE 0,
                              !.core.store_shift = IF i.inst.is_load THEN 0 ELSE shift]
            IN  IF i.inst.is_load
                THEN [moved EXCEPT !.core.read = block.data, !.aux[2].prev_ts = block.ts]
                ELSE [moved EXCEPT !.core.prev = block.data, !.aux[3].prev_ts = block.ts]
    IN  {Forged(x[1], x[2], x[3]) : x \in {low % P, (low - 2^HALF_BITS) % P} \X F \X (0..3)}

INSTANCE CoreChip
=============================================================================
