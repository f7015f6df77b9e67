----------------------------- MODULE BranchCores -----------------------------
(* The cores of the conditional branches.  See CoreChip for the machine.       *)
EXTENDS FieldLimbs

CONSTANTS PC_BITS, Imms

VARIABLES input, result, row, requests, phase

-----------------------------------------------------------------------------
(* BEQ, BNE: pc += imm if a = b, a # b.                                      *)

BranchEqualOpcodes == <<"BEQ", "BNE">>
BranchEqualInputs == [opcode : OpcodeSet(BranchEqualOpcodes), a : Operand, b : Operand, imm : Imms, pc : Pcs(PC_BITS)]

-----------------------------------------------------------------------------
(* Execution: the result is the next pc.                                   *)

FastRunEq(opcode, x, y) == IF opcode = "BEQ" THEN x = y ELSE x # y

BranchEqualExecute(i) ==
    IF FastRunEq(i.opcode, i.a, i.b) THEN PcInField(i.pc, i.imm) ELSE i.pc + DEFAULT_PC_STEP

\* pre_compute_impl and execute_e12_impl
BranchEqualInterpret(i) ==
    IF (i.a = i.b) # (i.opcode = "BNE") THEN PcSigned(i.pc, i.imm) ELSE i.pc + DEFAULT_PC_STEP

Agree(x, y) == SamePc(x, y, PC_BITS)

-----------------------------------------------------------------------------
(* Trace generation.                                                       *)

\* run_eq: the first limb that differs and the inverse of the difference.
RunEq(is_beq, x, y) ==
    LET differ == {i \in Index : x[i] # y[i]}
        idx == CHOOSE i \in differ : \A j \in differ : i <= j
    IN  IF differ = {} THEN [cmp_result |-> is_beq, diff_idx |-> 0, diff_inv |-> 0]
        ELSE [cmp_result |-> ~is_beq, diff_idx |-> idx, diff_inv |-> Inv(x[idx] - y[idx])]

BranchEqualFillTraceRow(i) ==
    LET run == RunEq(i.opcode = "BEQ", i.a, i.b)
    IN  [a |-> i.a, b |-> i.b, cmp_result |-> FromBool(run.cmp_result), imm |-> i.imm, pc |-> i.pc,
         flag |-> Flags(BranchEqualOpcodes, i.opcode),
         diff_inv_marker |-> [k \in Index |-> IF k = run.diff_idx THEN run.diff_inv ELSE 0]]

\* The kernel: diff_idx is NUM_LIMBS until it is found.
BranchEqualCudaFillTraceRow(i) ==
    LET differ == {k \in Index : i.a[k] # i.b[k]}
        diff_idx == IF differ = {} THEN 0 ELSE CHOOSE k \in differ : \A j \in differ : k <= j
        is_beq == i.opcode = "BEQ"
    IN  [a |-> i.a, b |-> i.b, cmp_result |-> FromBool(IF differ = {} THEN is_beq ELSE ~is_beq),
         imm |-> i.imm, pc |-> i.pc,
         flag |-> [o \in {"BEQ", "BNE"} |-> FromBool((o = "BEQ") = is_beq)],
         diff_inv_marker |-> [k \in Index |-> IF k = diff_idx /\ differ # {}
                                              THEN Inv(i.a[k] - i.b[k]) ELSE 0]]

BranchEqualRequests(i) == <<>>
BranchEqualCudaRequests(i) == <<>>

BranchEqualZeroRow == [a |-> ZeroWord, b |-> ZeroWord, cmp_result |-> 0, imm |-> 0, pc |-> 0,
            flag |-> NoFlags(BranchEqualOpcodes), diff_inv_marker |-> ZeroWord]

-----------------------------------------------------------------------------
(* The AIR.  pc is the adapter's from_pc.                                  *)

BranchEqualIsValid(r) == FlagSum(BranchEqualOpcodes, r.flag)

CmpEq(r) == r.cmp_result * r.flag["BEQ"] + (1 - r.cmp_result) * r.flag["BNE"]

EvalEqual(r) ==
    /\ \A i \in Index : IsZero(CmpEq(r) * (r.a[i] - r.b[i]))
    /\ BranchEqualIsValid(r) # 0 =>
           Eq(CmpEq(r) + Sum([i \in Index |-> (r.a[i] - r.b[i]) * r.diff_inv_marker[i]], NUM_LIMBS), 1)

BranchEqualEval(r) == EvalFlags(BranchEqualOpcodes, r.flag) /\ IsBool(r.cmp_result) /\ EvalEqual(r)

BranchEqualSends(r) == <<>>
BranchEqualLookupHit(key) == FALSE

BranchEqualContext(r) ==
    [is_valid |-> BranchEqualIsValid(r),
     input |-> [opcode |-> ExpectedOpcode(BranchEqualOpcodes, r.flag), a |-> r.a, b |-> r.b,
                imm |-> r.imm, pc |-> r.pc],
     result |-> (r.pc + r.cmp_result * r.imm + (1 - r.cmp_result) * DEFAULT_PC_STEP) % P]

BranchEqualForgedRows(i) ==
    {[a |-> i.a, b |-> i.b, cmp_result |-> cmp, imm |-> i.imm, pc |-> i.pc, flag |-> f,
      diff_inv_marker |-> marker] :
        cmp \in Bools, f \in FlagChoices(BranchEqualOpcodes, i.opcode), marker \in [Index -> F]}

BranchEqualCore == INSTANCE CoreChip WITH
    Inputs <- BranchEqualInputs, Execute <- BranchEqualExecute, Interpret <-
    BranchEqualInterpret, FillTraceRow <- BranchEqualFillTraceRow, Requests <-
    BranchEqualRequests, CudaFillTraceRow <- BranchEqualCudaFillTraceRow, CudaRequests
    <- BranchEqualCudaRequests, ForgedRows <- BranchEqualForgedRows, Eval <-
    BranchEqualEval, Sends <- BranchEqualSends, LookupHit <- BranchEqualLookupHit,
    Context <- BranchEqualContext, ZeroRow <- BranchEqualZeroRow

-----------------------------------------------------------------------------
(* BLT, BLTU, BGE, BGEU: pc += imm if a < b, a >= b.  See CoreChip.          *)

BranchLessThanOpcodes == <<"BLT", "BLTU", "BGE", "BGEU">>
BranchLessThanInputs == [opcode : OpcodeSet(BranchLessThanOpcodes), a : Operand, b : Operand, imm : Imms, pc : Pcs(PC_BITS)]

Msl == NUM_LIMBS - 1

IsSigned(opcode) == opcode \in {"BLT", "BGE"}
GeOp(opcode) == opcode \in {"BGE", "BGEU"}

-----------------------------------------------------------------------------
(* Execution: the result is the next pc.                                   *)

\* The most significant limb that differs, NUM_LIMBS if none does.
DiffIdx(x, y) ==
    LET differ == {i \in Index : x[i] # y[i]}
    IN  IF differ = {} THEN NUM_LIMBS ELSE CHOOSE i \in differ : \A j \in differ : j <= i

Sign(opcode, w) == IsSigned(opcode) /\ w[Msl] \div 2^(LIMB_BITS - 1) = 1

\* run_cmp
RunCmp(opcode, x, y) ==
    LET i == DiffIdx(x, y)
    IN  IF i = NUM_LIMBS THEN GeOp(opcode)
        ELSE (((x[i] < y[i]) # Sign(opcode, x)) # Sign(opcode, y)) # GeOp(opcode)

Target(i, taken, pc) == IF taken THEN pc ELSE i.pc + DEFAULT_PC_STEP

BranchLessThanExecute(i) == Target(i, RunCmp(i.opcode, i.a, i.b), PcInField(i.pc, i.imm))

\* BranchLessThanOp::compute on i32 or u32
Compute(opcode, rs1, rs2) ==
    LET x == IF IsSigned(opcode) THEN Signed(rs1) ELSE rs1
        y == IF IsSigned(opcode) THEN Signed(rs2) ELSE rs2
    IN  IF GeOp(opcode) THEN x >= y ELSE x < y

\* execute_e12_impl
BranchLessThanInterpret(i) == Target(i, Compute(i.opcode, Compose(i.a), Compose(i.b)), PcSigned(i.pc, i.imm))

-----------------------------------------------------------------------------
(* Trace generation.                                                       *)

MsbF(opcode, w) == (IF Sign(opcode, w) THEN w[Msl] - 2^LIMB_BITS ELSE w[Msl]) % P
MsbRange(opcode, w) ==
    IF Sign(opcode, w) THEN w[Msl] - 2^(LIMB_BITS - 1)
    ELSE w[Msl] + FromBool(IsSigned(opcode)) * 2^(LIMB_BITS - 1)

\* The columns, given whether a < b and the difference in the marked limb.
Row(i, cmp_lt, diff_val) ==
    [a |-> i.a, b |-> i.b, cmp_result |-> FromBool(cmp_lt # GeOp(i.opcode)), imm |-> i.imm,
     pc |-> i.pc, flag |-> Flags(BranchLessThanOpcodes, i.opcode),
     a_msb_f |-> MsbF(i.opcode, i.a), b_msb_f |-> MsbF(i.opcode, i.b), cmp_lt |-> FromBool(cmp_lt),
     diff_marker |-> [k \in Index |-> FromBool(k = DiffIdx(i.a, i.b))], diff_val |-> diff_val]

DiffVal(i, cmp_lt) ==
    LET k == DiffIdx(i.a, i.b)
        x == IF k = Msl THEN MsbF(i.opcode, i.a) ELSE i.a[k]
        y == IF k = Msl THEN MsbF(i.opcode, i.b) ELSE i.b[k]
    IN  IF k = NUM_LIMBS THEN 0 ELSE (IF cmp_lt THEN y - x ELSE x - y) % P

BranchLessThanFillTraceRow(i) ==
    LET cmp_lt == RunCmp(i.opcode, i.a, i.b) # GeOp(i.opcode)
    IN  Row(i, cmp_lt, DiffVal(i, cmp_lt))

\* The kernel decides by the signs first, when the top limbs differ.
CudaCmpLt(i) ==
    LET k == DiffIdx(i.a, i.b)
    IN  /\ k # NUM_LIMBS
        /\ IF IsSigned(i.opcode) /\ k = Msl /\ Sign(i.opcode, i.a) # Sign(i.opcode, i.b)
           THEN Sign(i.opcode, i.a)
           ELSE i.a[k] < i.b[k]

CudaDiffVal(i, cmp_lt) ==
    LET k == DiffIdx(i.a, i.b)
        sub(x, y) == IF x >= y THEN x - y ELSE x + P - y
    IN  CASE k = NUM_LIMBS -> 0
          [] k = Msl /\ IsSigned(i.opcode) ->
                IF cmp_lt THEN sub(MsbF(i.opcode, i.b), MsbF(i.opcode, i.a))
                ELSE sub(MsbF(i.opcode, i.a), MsbF(i.opcode, i.b))
          [] OTHER -> (IF cmp_lt THEN i.b[k] - i.a[k] ELSE i.a[k] - i.b[k]) % P

BranchLessThanCudaFillTraceRow(i) == Row(i, CudaCmpLt(i), CudaDiffVal(i, CudaCmpLt(i)))

Requested(i, diff_val) ==
    <<RequestRange(MsbRange(i.opcode, i.a), MsbRange(i.opcode, i.b))>>
    \o IF DiffIdx(i.a, i.b) = NUM_LIMBS THEN <<>> ELSE <<RequestRange(diff_val - 1, 0)>>

BranchLessThanRequests(i) == Requested(i, BranchLessThanFillTraceRow(i).diff_val)
BranchLessThanCudaRequests(i) == Requested(i, BranchLessThanCudaFillTraceRow(i).diff_val)

BranchLessThanZeroRow == [a |-> ZeroWord, b |-> ZeroWord, cmp_result |-> 0, imm |-> 0, pc |-> 0,
            flag |-> NoFlags(BranchLessThanOpcodes), a_msb_f |-> 0, b_msb_f |-> 0, cmp_lt |-> 0,
            diff_marker |-> ZeroWord, diff_val |-> 0]

-----------------------------------------------------------------------------
(* The AIR.                                                                *)

BranchLessThanIsValid(r) == FlagSum(BranchLessThanOpcodes, r.flag)
LtFlag(r) == r.flag["BLT"] + r.flag["BLTU"]
GeFlag(r) == r.flag["BGE"] + r.flag["BGEU"]
SignedFlag(r) == r.flag["BLT"] + r.flag["BGE"]

EvalMsb(limb, msb_f) == IsZero((limb - msb_f) * (2^LIMB_BITS - (limb - msb_f)))

PrefixSum(r, i) == Sum([k \in 0..NUM_LIMBS - 1 - i |-> r.diff_marker[i + k]], NUM_LIMBS - i)

Diff(r, i) ==
    (IF i = Msl THEN r.b_msb_f - r.a_msb_f ELSE r.b[i] - r.a[i]) * (2 * r.cmp_lt - 1)

EvalDiff(r) ==
    \A i \in Index :
        /\ IsBool(r.diff_marker[i])
        /\ IsZero((1 - PrefixSum(r, i)) * Diff(r, i))
        /\ r.diff_marker[i] # 0 => Eq(r.diff_val, Diff(r, i))

EvalCmpLt(r) == Eq(r.cmp_lt, r.cmp_result * LtFlag(r) + (1 - r.cmp_result) * GeFlag(r))

BranchLessThanEval(r) ==
    /\ EvalDiff(r)
    /\ EvalFlags(BranchLessThanOpcodes, r.flag)
    /\ IsBool(r.cmp_result)
    /\ EvalCmpLt(r)
    /\ EvalMsb(r.a[Msl], r.a_msb_f)
    /\ EvalMsb(r.b[Msl], r.b_msb_f)
    /\ IsBool(PrefixSum(r, 0))
    /\ PrefixSum(r, 0) % P # 1 => r.cmp_lt = 0

BranchLessThanSends(r) ==
    LET shift == 2^(LIMB_BITS - 1) * SignedFlag(r)
    IN  <<Send(BranchLessThanIsValid(r), RangeKey(r.a_msb_f + shift, r.b_msb_f + shift)),
          Send(PrefixSum(r, 0), RangeKey(r.diff_val - 1, 0))>>

BranchLessThanLookupHit(key) == InTable(key, 0, <<0, 0>>)

BranchLessThanContext(r) ==
    [is_valid |-> BranchLessThanIsValid(r),
     input |-> [opcode |-> ExpectedOpcode(BranchLessThanOpcodes, r.flag), a |-> r.a, b |-> r.b,
                imm |-> r.imm, pc |-> r.pc],
     result |-> (r.pc + r.cmp_result * r.imm + (1 - r.cmp_result) * DEFAULT_PC_STEP) % P]

BranchLessThanForgedRows(i) ==
    {r \in {[a |-> i.a, b |-> i.b, cmp_result |-> cmp, imm |-> i.imm, pc |-> i.pc, flag |-> f,
             a_msb_f |-> am, b_msb_f |-> bm, cmp_lt |-> lt, diff_marker |-> marker, diff_val |-> d] :
               cmp \in Bools, f \in FlagChoices(BranchLessThanOpcodes, i.opcode), lt \in Bools,
               am \in {e \in F : EvalMsb(i.a[Msl], e)}, bm \in {e \in F : EvalMsb(i.b[Msl], e)},
               marker \in [Index -> Bools], d \in F} : EvalCmpLt(r)}

BranchLessThanCore == INSTANCE CoreChip WITH
    Inputs <- BranchLessThanInputs, Execute <- BranchLessThanExecute, Interpret <-
    BranchLessThanInterpret, FillTraceRow <- BranchLessThanFillTraceRow, Requests <-
    BranchLessThanRequests, CudaFillTraceRow <- BranchLessThanCudaFillTraceRow,
    CudaRequests <- BranchLessThanCudaRequests, ForgedRows <- BranchLessThanForgedRows,
    Eval <- BranchLessThanEval, Sends <- BranchLessThanSends, LookupHit <-
    BranchLessThanLookupHit, Context <- BranchLessThanContext, ZeroRow <-
    BranchLessThanZeroRow
=============================================================================
