------------------------------ MODULE JumpCores ------------------------------
(* The cores of the instructions that use the program counter as a value: AUIPC,*)
(* JAL and LUI, JALR.  See CoreChip for the machine.                           *)
EXTENDS FieldLimbs

CONSTANTS PC_BITS, StartPcs, Imms, LUI_SHIFT, RV_J_TYPE_IMM_BITS, JalImms

VARIABLES input, result, row, requests, phase

-----------------------------------------------------------------------------
(* AUIPC: rd = pc + (imm << LIMB_BITS).Words have four limbs.                *)

AuipcAssumption ==
    /\ NUM_LIMBS = 4
    /\ PC_BITS \in LIMB_BITS * 3..NUM_BITS
    /\ 2^PC_BITS < P
    /\ StartPcs \subseteq Pcs(PC_BITS)
    /\ Imms \subseteq 0..2^(3 * LIMB_BITS) - 1

AuipcInputs == [opcode : {"AUIPC"}, imm : Imms, pc : StartPcs]

MslShift == NUM_LIMBS * LIMB_BITS - PC_BITS

-----------------------------------------------------------------------------
(* Execution.  All modes use run_auipc.                                    *)

RunAuipc(pc, imm) == Decompose(Wrap(pc + imm * 2^LIMB_BITS))

AuipcExecute(i) == RunAuipc(i.pc, i.imm)
AuipcInterpret(i) == RunAuipc(i.pc, i.imm)

Agree(x, y) == x = y

-----------------------------------------------------------------------------
(* Trace generation.                                                       *)

\* Row for a result rd: the middle limbs of pc and the lower ones of imm.
RowOf(i, rd) ==
    [is_valid |-> 1, imm_limbs |-> [k \in 0..2 |-> Decompose(i.imm)[k]],
     pc_limbs |-> [k \in 1..2 |-> Decompose(i.pc)[k]], rd |-> rd, pc |-> i.pc]

AuipcFillTraceRow(i) == RowOf(i, RunAuipc(i.pc, i.imm))

AuipcRequests(i) ==
    LET imm == Decompose(i.imm)  pc == Decompose(i.pc)  rd == RunAuipc(i.pc, i.imm)
    IN  <<RequestRange(imm[0], imm[1]), RequestRange(imm[2], pc[1]),
          RequestRange(pc[2], pc[3] * 2^MslShift),
          RequestRange(rd[0], rd[1]), RequestRange(rd[2], rd[3])>>

\* run_auipc of the kernel, on u32
CudaRunAuipc(i) == Decompose((i.pc + i.imm * 2^LIMB_BITS) % 2^NUM_BITS)

AuipcCudaFillTraceRow(i) == RowOf(i, CudaRunAuipc(i))

AuipcCudaRequests(i) ==
    LET imm == Decompose(i.imm)  pc == Decompose(i.pc)  rd == CudaRunAuipc(i)
    IN  <<RequestRange(imm[0], imm[1]), RequestRange(imm[2], pc[1]),
          RequestRange(pc[2], pc[3] * 2^MslShift)>>
        \o [k \in 1..NUM_LIMBS \div 2 |-> RequestRange(rd[2 * k - 2], rd[2 * k - 1])]

AuipcZeroRow == [is_valid |-> 0, imm_limbs |-> [k \in 0..2 |-> 0], pc_limbs |-> [k \in 1..2 |-> 0],
            rd |-> ZeroWord, pc |-> 0]

-----------------------------------------------------------------------------
(* The AIR.                                                                *)

\* The limbs of pc: the lowest is that of rd, the highest what the others leave
PcLimbs(r) ==
    LET intermed == r.rd[0] + r.pc_limbs[1] * 2^LIMB_BITS + r.pc_limbs[2] * 2^(2 * LIMB_BITS)
        pc_msl == ((r.pc - intermed) * Inv(2^(LIMB_BITS * (NUM_LIMBS - 1)))) % P
    IN  [k \in Index |-> CASE k = 0 -> r.rd[0] [] k = 3 -> pc_msl [] OTHER -> r.pc_limbs[k]]

Carry(r) ==
    LET carry[i \in Index] ==
            IF i = 0 THEN 0
            ELSE (Inv(2^LIMB_BITS) * (PcLimbs(r)[i] + r.imm_limbs[i - 1] - r.rd[i] + carry[i - 1])) % P
    IN  carry

AuipcEval(r) ==
    /\ IsBool(r.is_valid)
    /\ r.is_valid # 0 => LET carry == Carry(r) IN \A i \in 1..NUM_LIMBS - 1 : IsBool(carry[i])

AuipcSends(r) ==
    LET pc == PcLimbs(r)
    IN  <<Send(r.is_valid, RangeKey(r.rd[0], r.rd[1])), Send(r.is_valid, RangeKey(r.rd[2], r.rd[3])),
          Send(r.is_valid, RangeKey(r.imm_limbs[0], r.imm_limbs[1])),
          Send(r.is_valid, RangeKey(r.imm_limbs[2], pc[1])),
          Send(r.is_valid, RangeKey(pc[2], pc[3] * 2^MslShift))>>

AuipcLookupHit(key) == InTable(key, 0, <<0, 0>>)

AuipcContext(r) ==
    [is_valid |-> r.is_valid,
     input |-> [opcode |-> "AUIPC", pc |-> r.pc,
                imm |-> (r.imm_limbs[0] + r.imm_limbs[1] * 2^LIMB_BITS
                         + r.imm_limbs[2] * 2^(2 * LIMB_BITS)) % P],
     result |-> r.rd]

\* Limbs outside of the table, and limbs that do not make up the immediate,
\* are refused.
AuipcForgedRows(i) ==
    {[is_valid |-> 1, imm_limbs |-> imm, pc_limbs |-> pc, rd |-> rd, pc |-> i.pc] :
        imm \in {x \in [0..2 -> Limb] :
                    Eq(x[0] + x[1] * 2^LIMB_BITS + x[2] * 2^(2 * LIMB_BITS), i.imm)},
        pc \in [1..2 -> Limb], rd \in Word}

AuipcCore == INSTANCE CoreChip WITH
    Inputs <- AuipcInputs, Execute <- AuipcExecute, Interpret <- AuipcInterpret,
    FillTraceRow <- AuipcFillTraceRow, Requests <- AuipcRequests, CudaFillTraceRow <-
    AuipcCudaFillTraceRow, CudaRequests <- AuipcCudaRequests, ForgedRows <-
    AuipcForgedRows, Eval <- AuipcEval, Sends <- AuipcSends, LookupHit <-
    AuipcLookupHit, Context <- AuipcContext, ZeroRow <- AuipcZeroRow

-----------------------------------------------------------------------------
(* JAL: rd = pc + 4, pc += imm.  LUI: rd = imm << LUI_SHIFT (12).Words have  *)
(* four limbs.                                                               *)

JalLuiAssumption ==
    /\ NUM_LIMBS = 4
    /\ PC_BITS \in LIMB_BITS * 3..NUM_BITS
    /\ LUI_SHIFT \in LIMB_BITS..NUM_BITS
    /\ 2^PC_BITS < P
    /\ JalImms \subseteq F

Opcodes == <<"JAL", "LUI">>

\* get_signed_imm
GetSignedImm(is_jal, imm) ==
    IF is_jal /\ imm >= 2^(RV_J_TYPE_IMM_BITS - 1) THEN -(P - imm) ELSE imm

\* run_jal_lui asserts that the target is not negative; a link beyond the last
\* program counter has no row (pc + 4 does not fit PC_BITS).
JalLuiInputs ==
    {i \in [opcode : {"JAL"}, imm : JalImms, pc : Pcs(PC_BITS)] :
        /\ i.pc + GetSignedImm(TRUE, i.imm) \in 0..2^PC_BITS - 1
        /\ i.pc + DEFAULT_PC_STEP < 2^PC_BITS}
    \cup [opcode : {"LUI"}, imm : 0..2^(NUM_BITS - LUI_SHIFT) - 1, pc : {0, 2^PC_BITS - 4}]

\* Bits of the last limb that no program counter has.
AdditionalBits == 2^LIMB_BITS - 2^(PC_BITS - LIMB_BITS * (NUM_LIMBS - 1))

-----------------------------------------------------------------------------
(* Execution: the result is the value of rd and the next pc.               *)

\* run_jal_lui
RunJalLui(is_jal, pc, imm) ==
    IF is_jal THEN [rd |-> Decompose(pc + DEFAULT_PC_STEP), pc |-> pc + imm]
    ELSE [rd |-> Decompose(Wrap(imm * 2^LUI_SHIFT)), pc |-> pc + DEFAULT_PC_STEP]

JalLuiExecute(i) == RunJalLui(i.opcode = "JAL", i.pc, GetSignedImm(i.opcode = "JAL", i.imm))

\* execute_e12_impl
JalLuiInterpret(i) ==
    LET signed_imm == GetSignedImm(i.opcode = "JAL", i.imm)
    IN  IF i.opcode = "JAL"
        THEN [rd |-> Decompose(i.pc + DEFAULT_PC_STEP), pc |-> i.pc + signed_imm]
        ELSE [rd |-> Decompose(Wrap(signed_imm * 2^LUI_SHIFT)), pc |-> i.pc + DEFAULT_PC_STEP]

-----------------------------------------------------------------------------
(* Trace generation, from the record of imm, rd_data and is_jal.           *)

JalLuiFillTraceRow(i) ==
    [imm |-> i.imm, rd |-> JalLuiExecute(i).rd, pc |-> i.pc,
     is_jal |-> FromBool(i.opcode = "JAL"), is_lui |-> FromBool(i.opcode # "JAL")]

JalLuiRequests(i) ==
    LET rd == JalLuiExecute(i).rd
    IN  <<RequestRange(rd[0], rd[1]), RequestRange(rd[2], rd[3])>>
        \o IF i.opcode = "JAL" THEN <<RequestXor(rd[3], AdditionalBits)>> ELSE <<>>

JalLuiCudaFillTraceRow(i) ==
    [imm |-> i.imm, rd |-> JalLuiExecute(i).rd, pc |-> i.pc,
     is_jal |-> FromBool(i.opcode = "JAL"), is_lui |-> FromBool(i.opcode # "JAL")]

JalLuiCudaRequests(i) ==
    LET rd == JalLuiExecute(i).rd
    IN  [k \in 1..NUM_LIMBS \div 2 |-> RequestRange(rd[2 * k - 2], rd[2 * k - 1])]
        \o IF i.opcode = "JAL" THEN <<RequestXor(rd[NUM_LIMBS - 1], AdditionalBits)>> ELSE <<>>

JalLuiZeroRow == [imm |-> 0, rd |-> ZeroWord, pc |-> 0, is_jal |-> 0, is_lui |-> 0]

-----------------------------------------------------------------------------
(* The AIR.                                                                *)

IsValid(r) == r.is_lui + r.is_jal

\* rd without its least significant limb, shifted down
Upper(r) == r.rd[1] + r.rd[2] * 2^LIMB_BITS + r.rd[3] * 2^(2 * LIMB_BITS)

JalLuiEval(r) ==
    /\ IsBool(r.is_lui) /\ IsBool(r.is_jal) /\ IsBool(IsValid(r))
    /\ r.is_lui # 0 => IsZero(r.rd[0]) /\ Eq(Upper(r), r.imm * 2^(LUI_SHIFT - LIMB_BITS))
    /\ r.is_jal # 0 => Eq(r.rd[0] + Upper(r) * 2^LIMB_BITS, r.pc + DEFAULT_PC_STEP)

JalLuiSends(r) ==
    <<Send(IsValid(r), RangeKey(r.rd[0], r.rd[1])), Send(IsValid(r), RangeKey(r.rd[2], r.rd[3])),
      Send(r.is_jal, XorKey(r.rd[3], AdditionalBits, r.rd[3] + AdditionalBits))>>

JalLuiLookupHit(key) == InTable(key, 0, <<0, 0>>)

JalLuiContext(r) ==
    [is_valid |-> IsValid(r),
     input |-> [opcode |-> IF r.is_lui = 1 THEN "LUI" ELSE "JAL", imm |-> r.imm, pc |-> r.pc],
     result |-> [rd |-> r.rd, pc |-> (r.pc + r.is_lui * DEFAULT_PC_STEP + r.is_jal * r.imm) % P]]

\* Limbs outside of the lookup table are refused.
JalLuiForgedRows(i) ==
    {[imm |-> i.imm, rd |-> rd, pc |-> i.pc, is_jal |-> j, is_lui |-> l] :
        rd \in Word, j \in Bools, l \in Bools}

JalLuiCore == INSTANCE CoreChip WITH
    Inputs <- JalLuiInputs, Execute <- JalLuiExecute, Interpret <- JalLuiInterpret,
    FillTraceRow <- JalLuiFillTraceRow, Requests <- JalLuiRequests, CudaFillTraceRow <-
    JalLuiCudaFillTraceRow, CudaRequests <- JalLuiCudaRequests, ForgedRows <-
    JalLuiForgedRows, Eval <- JalLuiEval, Sends <- JalLuiSends, LookupHit <-
    JalLuiLookupHit, Context <- JalLuiContext, ZeroRow <- JalLuiZeroRow

-----------------------------------------------------------------------------
(* JALR: rd = pc + 4, pc = (rs1 + sign-extended imm) without its lowest      *)
(* bit.Words have four limbs; the immediate is one half word and a sign.     *)

HALF_BITS == 2 * LIMB_BITS

JalrAssumption ==
    /\ NUM_LIMBS = 4
    /\ PC_BITS \in LIMB_BITS * 3..NUM_BITS
    /\ 2^PC_BITS < P
    /\ StartPcs \subseteq Pcs(PC_BITS)
    /\ Imms \subseteq 0..2^HALF_BITS - 1

-----------------------------------------------------------------------------
(* Execution: the result is the value of rd and the next pc.               *)

\* run_jalr; the sign extends the half word to a word
RunJalr(pc, rs1, imm, imm_sign) ==
    [to_pc |-> Wrap(rs1 + imm + imm_sign * (2^NUM_BITS - 2^HALF_BITS)),
     rd |-> Decompose(Wrap(pc + DEFAULT_PC_STEP))]

\* run_jalr asserts that the target fits PC_BITS; a link beyond the last
\* program counter has no row (pc + 4 does not fit PC_BITS).
JalrInputs ==
    {i \in [opcode : {"JALR"}, rs1 : Operand, imm : Imms, imm_sign : {0, 1}, pc : StartPcs] :
        /\ RunJalr(i.pc, Compose(i.rs1), i.imm, i.imm_sign).to_pc < 2^PC_BITS
        /\ i.pc + DEFAULT_PC_STEP < 2^PC_BITS}

JalrExecute(i) ==
    LET j == RunJalr(i.pc, Compose(i.rs1), i.imm, i.imm_sign)
    IN  [rd |-> j.rd, pc |-> j.to_pc - (j.to_pc % 2)]

\* execute_e12_impl with imm_extended computed ahead of time
JalrInterpret(i) ==
    LET imm_extended == i.imm + i.imm_sign * (2^NUM_BITS - 2^HALF_BITS)
        to_pc == Wrap(Compose(i.rs1) + imm_extended)
    IN  [rd |-> Decompose(i.pc + DEFAULT_PC_STEP), pc |-> to_pc - (to_pc % 2)]

-----------------------------------------------------------------------------
(* Trace generation.                                                       *)

ToPcLimbs(to_pc) == <<(to_pc % 2^HALF_BITS) \div 2, to_pc \div 2^HALF_BITS>>

JalrFillTraceRow(i) ==
    LET j == RunJalr(i.pc, Compose(i.rs1), i.imm, i.imm_sign)
    IN  [imm |-> i.imm, rs1 |-> i.rs1, rd |-> [k \in 1..3 |-> j.rd[k]], is_valid |-> 1,
         to_pc_least_sig_bit |-> j.to_pc % 2, to_pc_limbs |-> ToPcLimbs(j.to_pc),
         imm_sign |-> i.imm_sign, pc |-> i.pc]

JalrRequests(i) ==
    LET j == RunJalr(i.pc, Compose(i.rs1), i.imm, i.imm_sign)
    IN  <<AddCount(ToPcLimbs(j.to_pc)[1], HALF_BITS - 1),
          AddCount(ToPcLimbs(j.to_pc)[2], PC_BITS - HALF_BITS),
          RequestRange(j.rd[0], j.rd[1]),
          AddCount(j.rd[2], LIMB_BITS), AddCount(j.rd[3], PC_BITS - LIMB_BITS * 3)>>

\* The kernel's run_jalr and fill_trace_row.
CudaRunJalr(i) ==
    LET offset == i.imm + IF i.imm_sign = 1 THEN 2^NUM_BITS - 2^HALF_BITS ELSE 0
    IN  [to_pc |-> Wrap(Compose(i.rs1) + offset), rd |-> Decompose(Wrap(i.pc + DEFAULT_PC_STEP))]

JalrCudaFillTraceRow(i) ==
    LET j == CudaRunJalr(i)
    IN  [imm |-> i.imm, rs1 |-> i.rs1, rd |-> [k \in 1..3 |-> j.rd[k]], is_valid |-> 1,
         to_pc_least_sig_bit |-> FromBool(j.to_pc % 2 = 1), to_pc_limbs |-> ToPcLimbs(j.to_pc),
         imm_sign |-> i.imm_sign, pc |-> i.pc]

JalrCudaRequests(i) ==
    LET j == CudaRunJalr(i)
    IN  <<AddCount(ToPcLimbs(j.to_pc)[1], HALF_BITS - 1),
          AddCount(ToPcLimbs(j.to_pc)[2], PC_BITS - HALF_BITS),
          RequestRange(j.rd[0], j.rd[1]),
          AddCount(j.rd[2], LIMB_BITS), AddCount(j.rd[3], PC_BITS - LIMB_BITS * 3)>>

JalrZeroRow == [imm |-> 0, rs1 |-> ZeroWord, rd |-> [k \in 1..3 |-> 0], is_valid |-> 0,
            to_pc_least_sig_bit |-> 0, to_pc_limbs |-> <<0, 0>>, imm_sign |-> 0, pc |-> 0]

-----------------------------------------------------------------------------
(* The AIR.                                                                *)

\* rd; its lowest limb is what the upper ones leave of pc + 4
RdData(r) ==
    [k \in Index |->
        IF k > 0 THEN r.rd[k]
        ELSE (r.pc + DEFAULT_PC_STEP - Sum([j \in 0..2 |-> r.rd[j + 1] * 2^((j + 1) * LIMB_BITS)], 3)) % P]

\* Carries of rs1 + imm = to_pc over the two half words
CarryLow(r) ==
    ((r.rs1[0] + r.rs1[1] * 2^LIMB_BITS + r.imm - r.to_pc_limbs[1] * 2 - r.to_pc_least_sig_bit)
     * Inv(2^HALF_BITS)) % P
CarryHigh(r) ==
    ((r.rs1[2] + r.rs1[3] * 2^LIMB_BITS + r.imm_sign * (2^HALF_BITS - 1) + CarryLow(r)
      - r.to_pc_limbs[2]) * Inv(2^HALF_BITS)) % P

JalrEval(r) ==
    /\ IsBool(r.is_valid) /\ IsBool(r.imm_sign) /\ IsBool(r.to_pc_least_sig_bit)
    /\ r.is_valid # 0 => IsBool(CarryLow(r)) /\ IsBool(CarryHigh(r))

JalrSends(r) ==
    LET rd == RdData(r)
    IN  <<Send(r.is_valid, RangeKey(rd[0], rd[1])),
          Send(r.is_valid, VarRangeKey(rd[2], LIMB_BITS)),
          Send(r.is_valid, VarRangeKey(rd[3], PC_BITS - LIMB_BITS * 3)),
          Send(r.is_valid, VarRangeKey(r.to_pc_limbs[2], PC_BITS - HALF_BITS)),
          Send(r.is_valid, VarRangeKey(r.to_pc_limbs[1], HALF_BITS - 1))>>

\* The range checker goes up to 16 bits (Rv32JalrFiller::new).
JalrLookupHit(key) == InTable(key, HALF_BITS, <<0, 0>>)

JalrContext(r) ==
    [is_valid |-> r.is_valid,
     input |-> [opcode |-> "JALR", rs1 |-> r.rs1, imm |-> r.imm, imm_sign |-> r.imm_sign, pc |-> r.pc],
     result |-> [rd |-> RdData(r),
                 pc |-> (r.to_pc_limbs[1] * 2 + r.to_pc_limbs[2] * 2^HALF_BITS) % P]]

\* The target's low half is what a carry leaves of rs1 + imm; upper limbs of
\* rd beyond a limb are refused.
JalrForgedRows(i) ==
    {[imm |-> i.imm, rs1 |-> i.rs1, rd |-> rd, is_valid |-> 1, to_pc_least_sig_bit |-> bit,
      to_pc_limbs |-> <<low, high>>, imm_sign |-> i.imm_sign, pc |-> i.pc] :
        rd \in {x \in [1..3 -> Limb] :
                   LET r == [JalrZeroRow EXCEPT !.rd = x, !.pc = i.pc] IN RdData(r)[0] \in Limb},
        bit \in Bools, high \in 0..2^(PC_BITS - HALF_BITS) - 1,
        low \in {((i.rs1[0] + i.rs1[1] * 2^LIMB_BITS + i.imm - b - c * 2^HALF_BITS) * Inv(2)) % P :
                    b \in Bools, c \in Bools}}

JalrCore == INSTANCE CoreChip WITH
    Inputs <- JalrInputs, Execute <- JalrExecute, Interpret <- JalrInterpret,
    FillTraceRow <- JalrFillTraceRow, Requests <- JalrRequests, CudaFillTraceRow <-
    JalrCudaFillTraceRow, CudaRequests <- JalrCudaRequests, ForgedRows <-
    JalrForgedRows, Eval <- JalrEval, Sends <- JalrSends, LookupHit <- JalrLookupHit,
    Context <- JalrContext, ZeroRow <- JalrZeroRow
=============================================================================
