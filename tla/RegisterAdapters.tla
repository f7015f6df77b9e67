---------------------------- MODULE RegisterAdapters ----------------------------
(* The adapters of the chips that only use registers: what an instruction       *)
(* reads and writes, at which timestamps, and what its row tells the program,   *)
(* execution and memory buses.  The core's result is an input here; the chips'  *)
(* modules show how it is computed.  See CoreChip for the machine.              *)
EXTENDS FieldLimbs

CONSTANTS
    Ptrs,         \* register pointers
    FreeImms,     \* 24-bit immediates of arithmetic instructions (3 limbs)
    PcImms,       \* immediates that only the core looks at
    WordSamples,  \* results of the core
    FirstTs       \* the timestamp before the instruction

VARIABLES input, result, row, requests, phase

AluChips == {"base_alu", "less_than", "shift"}
MultChips == {"mul", "mulh", "divrem"}
BranchChips == {"branch_eq", "branch_lt"}

\* Instructions as the transpiler makes them: a disabled write has a = 0.
Inst(a, b, c, e, f, g) == [a |-> a, b |-> b, c |-> c, d |-> RV32_REGISTER_AS, e |-> e, f |-> f, g |-> g]
AluInsts == {Inst(a, b, c, 1, 0, 0) : a \in Ptrs, b \in Ptrs, c \in Ptrs}
                \cup {Inst(a, b, c, 0, 0, 0) : a \in Ptrs, b \in Ptrs, c \in FreeImms}
MultInsts == {Inst(a, b, c, 0, 0, 0) : a \in Ptrs, b \in Ptrs, c \in Ptrs}
BranchInsts == {Inst(a, b, c, 1, 0, 0) : a \in Ptrs, b \in Ptrs, c \in PcImms}
JalrInsts == {i \in {Inst(a, b, c, 0, f, g) :
                        a \in Ptrs, b \in Ptrs, c \in PcImms, f \in {0, 1}, g \in {0, 1}} :
                 i.f = 0 => i.a = 0}
CondRdWriteInsts == {i \in {Inst(a, 0, c, 0, f, 0) : a \in Ptrs, c \in PcImms, f \in {0, 1}} :
                        i.f = 0 => i.a = 0}
RdWriteInsts == {Inst(a, 0, c, 0, 0, 0) : a \in Ptrs, c \in PcImms}

\* Register p was last accessed at timestamp p \div 4 and holds a word of its own.
Reg(p) == <<RV32_REGISTER_AS, p>>
Registers == [r \in {Reg(p) : p \in Ptrs} |-> [data |-> Decompose((5 * r[2] + 27) % 2^NUM_BITS), ts |-> r[2] \div 4]]

Inputs ==
    {[chip |-> x[1], inst |-> x[2], pc |-> pc, ts |-> FirstTs, mem |-> Registers, data |-> w] :
        x \in (AluChips \X AluInsts) \cup (MultChips \X MultInsts) \cup (BranchChips \X BranchInsts)
                \cup ({"jalr"} \X JalrInsts) \cup ({"jal_lui"} \X CondRdWriteInsts)
                \cup ({"auipc"} \X RdWriteInsts),
        pc \in {0, 4}, w \in {Decompose(n) : n \in WordSamples}}

-----------------------------------------------------------------------------
(* Execution.                                                              *)

\* imm_to_bytes: the highest limb repeats the one below.
ImmToBytes(imm) == [k \in Index |-> Decompose(imm)[IF k = NUM_LIMBS - 1 THEN k - 1 ELSE k]]

AluOps(i) == <<Read(Reg(i.inst.b)), IF i.inst.e = RV32_REGISTER_AS THEN Read(Reg(i.inst.c)) ELSE Skip,
               Write(Reg(i.inst.a), i.data)>>
MultOps(i) == <<Read(Reg(i.inst.b)), Read(Reg(i.inst.c)), Write(Reg(i.inst.a), i.data)>>
BranchOps(i) == <<Read(Reg(i.inst.a)), Read(Reg(i.inst.b))>>

JalrOps(i) == <<Read(Reg(i.inst.b)), IF i.inst.f = 1 THEN Write(Reg(i.inst.a), i.data) ELSE Skip>>
CondRdWriteOps(i) == <<IF i.inst.f = 1 THEN Write(Reg(i.inst.a), i.data) ELSE Skip>>
RdWriteOps(i) == <<Write(Reg(i.inst.a), i.data)>>

Ops(i) ==
    CASE i.chip \in AluChips -> AluOps(i)
      [] i.chip \in MultChips -> MultOps(i)
      [] i.chip \in BranchChips -> BranchOps(i)
      [] i.chip = "jalr" -> JalrOps(i)
      [] i.chip = "jal_lui" -> CondRdWriteOps(i)
      [] i.chip = "auipc" -> RdWriteOps(i)

\* What the core gets, what the bus sees, and the timestamp after it: one
\* record is allocated.
ReadData(i) ==
    DataRead(Accesses(i.mem, i.ts, Ops(i)))
        \o (IF i.chip \in AluChips /\ i.inst.e = RV32_IMM_AS THEN <<ImmToBytes(i.inst.c)>> ELSE <<>>)
Execute(i) ==
    [reads |-> ReadData(i),
     accesses |-> Performed(Accesses(i.mem, i.ts, Ops(i))),
     to_ts |-> i.ts + Len(Ops(i)), rows |-> 1]

-----------------------------------------------------------------------------
(* Pure and metered execution: pre_compute_impl accepts the operands, the   *)
(* handler of the opcode reads and writes, the metered one adds a row.      *)

DecodeBaseAlu(i) == i.d = RV32_REGISTER_AS /\ i.e \in {RV32_IMM_AS, RV32_REGISTER_AS}
DecodeLessThan(i) == i.d = RV32_REGISTER_AS /\ i.e \in {RV32_IMM_AS, RV32_REGISTER_AS}
DecodeShift(i) == i.d = RV32_REGISTER_AS /\ i.e \in {RV32_IMM_AS, RV32_REGISTER_AS}
DecodeMul(i) == i.d = RV32_REGISTER_AS
DecodeMulH(i) == TRUE
DecodeDivRem(i) == i.d = RV32_REGISTER_AS
DecodeBranchEqual(i) == i.d = RV32_REGISTER_AS
DecodeBranchLessThan(i) == i.d = RV32_REGISTER_AS
DecodeJalr(i) == i.d = RV32_REGISTER_AS
DecodeJalLui(i) == TRUE
DecodeAuipc(i) == i.d = RV32_REGISTER_AS

PreCompute(chip, i) ==
    CASE chip = "base_alu" -> DecodeBaseAlu(i)
      [] chip = "less_than" -> DecodeLessThan(i)
      [] chip = "shift" -> DecodeShift(i)
      [] chip = "mul" -> DecodeMul(i)
      [] chip = "mulh" -> DecodeMulH(i)
      [] chip = "divrem" -> DecodeDivRem(i)
      [] chip = "branch_eq" -> DecodeBranchEqual(i)
      [] chip = "branch_lt" -> DecodeBranchLessThan(i)
      [] chip = "jalr" -> DecodeJalr(i)
      [] chip = "jal_lui" -> DecodeJalLui(i)
      [] chip = "auipc" -> DecodeAuipc(i)

\* vm_read and vm_write of the handlers, in their order.
HandlerOps(i) ==
    LET enabled == i.inst.f # 0
    IN  CASE i.chip \in AluChips ->
                <<Read(Reg(i.inst.b))>> \o (IF i.inst.e = RV32_IMM_AS THEN <<>> ELSE <<Read(Reg(i.inst.c))>>)
                    \o <<Write(Reg(i.inst.a), i.data)>>
          [] i.chip \in MultChips -> <<Read(Reg(i.inst.b)), Read(Reg(i.inst.c)), Write(Reg(i.inst.a), i.data)>>
          [] i.chip \in BranchChips -> <<Read(Reg(i.inst.a)), Read(Reg(i.inst.b))>>
          [] i.chip = "jalr" ->
                <<Read(Reg(i.inst.b))>> \o (IF enabled THEN <<Write(Reg(i.inst.a), i.data)>> ELSE <<>>)
          [] i.chip = "jal_lui" -> IF enabled THEN <<Write(Reg(i.inst.a), i.data)>> ELSE <<>>
          [] i.chip = "auipc" -> <<Write(Reg(i.inst.a), i.data)>>

\* c of the pre-computed data, as bytes.
Rs2(i) == ImmToBytes(i.inst.c)

Interpret(i) ==
    IF ~ PreCompute(i.chip, i.inst) THEN [reads |-> <<>>, accesses |-> <<>>, rows |-> 0]
    ELSE LET accs == Accesses(i.mem, i.ts, HandlerOps(i))
         IN  [reads |-> DataRead(accs)
                            \o (IF i.chip \in AluChips /\ i.inst.e = RV32_IMM_AS THEN <<Rs2(i)>> ELSE <<>>),
              accesses |-> accs, rows |-> 1]

Agree(x, y) == x.reads = y.reads /\ x.rows = y.rows /\ Untimed(x.accesses) = Untimed(y.accesses)

-----------------------------------------------------------------------------
(* Trace generation.  aux[1..3] belong to rs1, rs2 and rd; core stands for  *)
(* the columns of the core and mem for the memory bus.                      *)

RowOf(i, rd, rs1, rs2, rs2As, needsWrite, aux1, aux2, aux3) ==
    [chip |-> i.chip, from_pc |-> i.pc, from_ts |-> i.ts, rd_ptr |-> rd, rs1_ptr |-> rs1, rs2 |-> rs2,
     rs2_as |-> rs2As, needs_write |-> needsWrite, aux |-> <<aux1, aux2, aux3>>, mem |-> i.mem,
     core |-> [is_valid |-> 1, reads |-> ReadData(i), write |-> i.data, imm |-> i.inst.c, sign |-> i.inst.g]]

FillAlu(i, x) == RowOf(i, i.inst.a, i.inst.b, i.inst.c, i.inst.e, 0, AuxOf(x[1]), AuxOf(x[2]), AuxOf(x[3]))
FillMult(i, x) == RowOf(i, i.inst.a, i.inst.b, i.inst.c, 0, 0, AuxOf(x[1]), AuxOf(x[2]), AuxOf(x[3]))
FillBranch(i, x) == RowOf(i, 0, i.inst.a, i.inst.b, 0, 0, AuxOf(x[1]), AuxOf(x[2]), NoAux)
FillJalr(i, x) == RowOf(i, IF x[2] # NoAccess THEN i.inst.a ELSE 0, i.inst.b, 0, 0, FromBool(x[2] # NoAccess),
                        AuxOf(x[1]), NoAux, IF x[2] # NoAccess THEN AuxOf(x[2]) ELSE StaleAux)
FillCondRdWrite(i, x) == RowOf(i, IF x[1] # NoAccess THEN i.inst.a ELSE 0, 0, 0, 0, FromBool(x[1] # NoAccess),
                               NoAux, NoAux, AuxOf(x[1]))
FillRdWrite(i, x) == RowOf(i, i.inst.a, 0, 0, 0, 0, NoAux, NoAux, AuxOf(x[1]))

FillTraceRow(i) ==
    LET x == Accesses(i.mem, i.ts, Ops(i)) \o <<NoAccess>>
    IN  CASE i.chip \in AluChips -> FillAlu(i, x)
          [] i.chip \in MultChips -> FillMult(i, x)
          [] i.chip \in BranchChips -> FillBranch(i, x)
          [] i.chip = "jalr" -> FillJalr(i, x)
          [] i.chip = "jal_lui" -> FillCondRdWrite(i, x)
          [] i.chip = "auipc" -> FillRdWrite(i, x)

\* Timestamps the fillers pass to mem_helper.fill, by slot.
FilledTs(chip, ts) ==
    CASE chip \in AluChips \cup MultChips \cup BranchChips -> <<ts, ts + 1, ts + 2>>
      [] chip = "jalr" -> <<ts, ts, ts + 1>>
      [] OTHER -> <<ts, ts, ts>>
\* The slots that are filled.
FilledSlots(r) ==
    CASE r.chip \in AluChips -> IF r.rs2_as # 0 THEN <<1, 2, 3>> ELSE <<1, 3>>
      [] r.chip \in MultChips -> <<1, 2, 3>>
      [] r.chip \in BranchChips -> <<1, 2>>
      [] r.chip = "jalr" -> IF r.needs_write = 1 THEN <<1, 3>> ELSE <<1>>
      [] r.chip = "jal_lui" -> IF r.needs_write = 1 THEN <<3>> ELSE <<>>
      [] r.chip = "auipc" -> <<3>>
ImmRequest(i) ==
    IF i.chip \in AluChips /\ i.inst.e = RV32_IMM_AS
    THEN <<RequestRange(i.inst.c % 2^LIMB_BITS, (i.inst.c \div 2^LIMB_BITS) % 2^LIMB_BITS)>>
    ELSE <<>>
Requests(i) ==
    LET r == FillTraceRow(i)  slots == FilledSlots(r)
    IN  [k \in 1..Len(slots) |-> LtKey(r.aux[slots[k]].prev_ts, FilledTs(i.chip, i.ts)[slots[k]])]
            \o ImmRequest(i)

\* The kernels take the timestamps from the record and zero what they skip.
CudaFillTraceRow(i) ==
    LET r == FillTraceRow(i)
    IN  [r EXCEPT !.aux[3] = IF i.chip = "jalr" /\ r.needs_write = 0 THEN NoAux ELSE @]
CudaRequests(i) == Requests(i)

ZeroRow == [chip |-> "jalr", from_pc |-> 0, from_ts |-> 0, rd_ptr |-> 0, rs1_ptr |-> 0, rs2 |-> 0, rs2_as |-> 0,
            needs_write |-> 0, aux |-> <<NoAux, NoAux, NoAux>>, mem |-> Registers,
            core |-> [is_valid |-> 0, reads |-> <<ZeroWord>>, write |-> ZeroWord, imm |-> 0, sign |-> 0]]

-----------------------------------------------------------------------------
(* The AIRs.                                                               *)

EvalImm(limbs, rs2) ==
    LET sign == limbs[2]
    IN  /\ Eq(rs2, limbs[0] + limbs[1] * 2^LIMB_BITS + sign * 2^(2 * LIMB_BITS))
        /\ Eq(sign, limbs[3])
        /\ IsZero(sign * (2^LIMB_BITS - 1 - sign))

EvalAlu(r) ==
    /\ IsBool(r.rs2_as)
    /\ r.rs2_as = 0 => EvalImm(r.core.reads[2], r.rs2)
    /\ r.rs2_as # 0 => r.core.is_valid = 1
EvalCondWrite(r) ==
    /\ IsBool(r.needs_write)
    /\ r.core.is_valid = 0 => r.needs_write = 0

ReadReg(r, slot, count, ptr, data, ts) == BusRead(count, Reg(ptr), data, ts, r.aux[slot])
WriteReg(r, count, ptr, ts) == BusWrite(count, Reg(ptr), r.core.write, ts, r.aux[3])

MessagesAlu(r) ==
    <<ReadReg(r, 1, r.core.is_valid, r.rs1_ptr, r.core.reads[1], r.from_ts),
      ReadReg(r, 2, r.rs2_as, r.rs2, r.core.reads[2], r.from_ts + 1),
      WriteReg(r, r.core.is_valid, r.rd_ptr, r.from_ts + 2)>>
MessagesMult(r) ==
    <<ReadReg(r, 1, r.core.is_valid, r.rs1_ptr, r.core.reads[1], r.from_ts),
      ReadReg(r, 2, r.core.is_valid, r.rs2, r.core.reads[2], r.from_ts + 1),
      WriteReg(r, r.core.is_valid, r.rd_ptr, r.from_ts + 2)>>
MessagesBranch(r) ==
    <<ReadReg(r, 1, r.core.is_valid, r.rs1_ptr, r.core.reads[1], r.from_ts),
      ReadReg(r, 2, r.core.is_valid, r.rs2, r.core.reads[2], r.from_ts + 1)>>
MessagesJalr(r) ==
    <<ReadReg(r, 1, r.core.is_valid, r.rs1_ptr, r.core.reads[1], r.from_ts),
      WriteReg(r, r.needs_write, r.rd_ptr, r.from_ts + 1)>>
MessagesRdWrite(r, count) == <<WriteReg(r, count, r.rd_ptr, r.from_ts)>>

Messages(r) ==
    CASE r.chip \in AluChips -> MessagesAlu(r)
      [] r.chip \in MultChips -> MessagesMult(r)
      [] r.chip \in BranchChips -> MessagesBranch(r)
      [] r.chip = "jalr" -> MessagesJalr(r)
      [] r.chip = "jal_lui" -> MessagesRdWrite(r, r.needs_write)
      [] r.chip = "auipc" -> MessagesRdWrite(r, r.core.is_valid)

Eval(r) ==
    /\ r.chip \in AluChips => EvalAlu(r)
    /\ r.chip \in {"jalr", "jal_lui"} => EvalCondWrite(r)
    /\ BusAccepts(r.mem, Messages(r))

Sends(r) ==
    SendsLt(Messages(r))
            \o IF r.chip \in AluChips
               THEN <<Send(r.core.is_valid - r.rs2_as, RangeKey(r.core.reads[2][0], r.core.reads[2][1]))>>
               ELSE <<>>
LookupHit(key) == BusHit(key, 0, <<0, 0>>)

\* The operands of the program bus.
Operands(r) ==
    CASE r.chip \in AluChips -> Inst(r.rd_ptr, r.rs1_ptr, r.rs2, r.rs2_as, 0, 0)
      [] r.chip \in MultChips -> Inst(r.rd_ptr, r.rs1_ptr, r.rs2, 0, 0, 0)
      [] r.chip \in BranchChips -> Inst(r.rs1_ptr, r.rs2, r.core.imm, 1, 0, 0)
      [] r.chip = "jalr" -> Inst(r.rd_ptr, r.rs1_ptr, r.core.imm, 0, r.needs_write, r.core.sign)
      [] r.chip = "jal_lui" -> Inst(r.rd_ptr, 0, r.core.imm, 0, r.needs_write, 0)
      [] r.chip = "auipc" -> Inst(r.rd_ptr, 0, r.core.imm, 0, 0, 0)

Context(r) ==
    [is_valid |-> r.core.is_valid,
     input |-> [chip |-> r.chip, inst |-> Operands(r), pc |-> r.from_pc, ts |-> r.from_ts,
                mem |-> r.mem, data |-> r.core.write],
     result |-> [reads |-> r.core.reads,
                 accesses |-> Claimed(Messages(r)),
                 to_ts |-> r.from_ts + Len(Messages(r)), rows |-> 1]]

\* Columns that no bus determines: the limbs of an immediate (the lowest from
\* the equation with rs2), and the flags.
ForgedRows(i) ==
    LET honest == FillTraceRow(i)
        limbs == IF i.chip \in AluChips /\ i.inst.e = RV32_IMM_AS
                 THEN {[k \in Index |->
                           CASE k = 0 -> (i.inst.c - x[1] * 2^LIMB_BITS - x[2] * 2^(2 * LIMB_BITS)) % P
                             [] k = 1 -> x[1] [] k = 2 -> x[2] [] OTHER -> (x[2] + x[3]) % P] :
                          x \in F \X F \X {0, 1}}
                 ELSE {}
    IN  {[honest EXCEPT !.core.reads[2] = l] : l \in limbs}
            \cup {[honest EXCEPT !.rs2_as = x, !.needs_write = y] : x \in 0..2, y \in 0..2}

INSTANCE CoreChip
=============================================================================
