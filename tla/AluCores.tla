------------------------------ MODULE AluCores ------------------------------
(* The cores of the register instructions that share the ALU adapter: additions and*)
(* bitwise operations, comparisons, shifts.  See CoreChip for the machine.     *)
EXTENDS FieldLimbs

VARIABLES input, result, row, requests, phase

-----------------------------------------------------------------------------
(* ADD, SUB, XOR, OR, AND: rd = b op c.                                      *)

BaseAluOpcodes == <<"ADD", "SUB", "XOR", "OR", "AND">>
BaseAluInputs == [opcode : OpcodeSet(BaseAluOpcodes), b : Operand, c : Operand]

-----------------------------------------------------------------------------
(* Execution.                                                              *)

\* z and carries of run_add: carry[i] leaves limb i.
RunAdd(x, y) ==
    LET over[i \in Index] == x[i] + y[i] + IF i > 0 THEN over[i - 1] \div 2^LIMB_BITS ELSE 0
    IN  [i \in Index |-> over[i] % 2^LIMB_BITS]

\* Mutant of RunSubtract: a limb equal to what is subtracted borrows.
RunSubtractOffByOne(x, y) ==
    LET rhs[i \in Index] == y[i] + IF i > 0 /\ x[i - 1] <= rhs[i - 1] THEN 1 ELSE 0
    IN  [i \in Index |-> (x[i] - rhs[i]) % 2^LIMB_BITS]

RunSubtract(x, y) ==
    LET rhs[i \in Index] == y[i] + IF i > 0 /\ x[i - 1] < rhs[i - 1] THEN 1 ELSE 0
    IN  [i \in Index |-> IF x[i] >= rhs[i] THEN x[i] - rhs[i]
                         ELSE x[i] + 2^LIMB_BITS - rhs[i]]

RunBitwise(op(_, _), x, y) == [i \in Index |-> Bitwise(op, x[i], y[i], LIMB_BITS)]

RunAlu(opcode, x, y) ==
    CASE opcode = "ADD" -> RunAdd(x, y)
      [] opcode = "SUB" -> RunSubtract(x, y)
      [] opcode = "XOR" -> RunBitwise(XorBit, x, y)
      [] opcode = "OR" -> RunBitwise(OrBit, x, y)
      [] opcode = "AND" -> RunBitwise(AndBit, x, y)

BaseAluExecute(i) == RunAlu(i.opcode, i.b, i.c)

\* AluOp::compute on u32.
Compute(opcode, rs1, rs2) ==
    CASE opcode = "ADD" -> Wrap(rs1 + rs2)
      [] opcode = "SUB" -> Wrap(rs1 - rs2)
      [] opcode = "XOR" -> Bitwise(XorBit, rs1, rs2, NUM_BITS)
      [] opcode = "OR" -> Bitwise(OrBit, rs1, rs2, NUM_BITS)
      [] opcode = "AND" -> Bitwise(AndBit, rs1, rs2, NUM_BITS)

\* execute_e12_impl
BaseAluInterpret(i) == Decompose(Compute(i.opcode, Compose(i.b), Compose(i.c)))

-----------------------------------------------------------------------------
(* Trace generation.  flag[o] stands for the column opcode_<o>_flag.       *)

BaseAluFillTraceRow(i) ==
    [a |-> RunAlu(i.opcode, i.b, i.c), b |-> i.b, c |-> i.c, flag |-> Flags(BaseAluOpcodes, i.opcode)]

\* Mutant of BaseAluRequests: only additions look up their result.
RequestsAddOnly(i) ==
    [k \in 1..NUM_LIMBS |->
        IF i.opcode = "ADD"
        THEN LET a == RunAlu(i.opcode, i.b, i.c) IN RequestXor(a[k - 1], a[k - 1])
        ELSE RequestXor(i.b[k - 1], i.c[k - 1])]

BaseAluRequests(i) ==
    [k \in 1..NUM_LIMBS |->
        IF i.opcode \in {"ADD", "SUB"}
        THEN LET a == RunAlu(i.opcode, i.b, i.c) IN RequestXor(a[k - 1], a[k - 1])
        ELSE RequestXor(i.b[k - 1], i.c[k - 1])]

\* run_add and run_sub of the kernel, with 32-bit intermediate values.
CudaRun(opcode, x, y) ==
    LET res[i \in Index] == x[i] + y[i] + IF i > 0 THEN res[i - 1] \div 2^LIMB_BITS ELSE 0
        rhs[i \in Index] == y[i] + IF i > 0 THEN FromBool(x[i - 1] < rhs[i - 1]) ELSE 0
    IN  CASE opcode = "ADD" -> [i \in Index |-> res[i] % 2^LIMB_BITS]
          [] opcode = "SUB" -> [i \in Index |-> IF x[i] >= rhs[i] THEN x[i] - rhs[i]
                                                ELSE 2^LIMB_BITS + x[i] - rhs[i]]
          [] OTHER -> RunAlu(opcode, x, y)

BaseAluCudaFillTraceRow(i) ==
    [a |-> CudaRun(i.opcode, i.b, i.c), b |-> i.b, c |-> i.c, flag |-> Flags(BaseAluOpcodes, i.opcode)]

BaseAluCudaRequests(i) ==
    LET a == CudaRun(i.opcode, i.b, i.c)
    IN  [k \in 1..NUM_LIMBS |->
            IF i.opcode \in {"ADD", "SUB"} THEN RequestXor(a[k - 1], a[k - 1])
            ELSE RequestXor(i.b[k - 1], i.c[k - 1])]

BaseAluZeroRow == [a |-> ZeroWord, b |-> ZeroWord, c |-> ZeroWord, flag |-> NoFlags(BaseAluOpcodes)]

-----------------------------------------------------------------------------
(* The AIR.                                                                *)

BaseAluIsValid(r) == FlagSum(BaseAluOpcodes, r.flag)

\* carry[i] = (x[i] + y[i] - z[i] + carry[i-1]) / 2^LIMB_BITS, in F
Carry(x, y, z) ==
    LET carry[i \in Index] ==
            (Inv(2^LIMB_BITS) * (x[i] + y[i] - z[i] + IF i > 0 THEN carry[i - 1] ELSE 0)) % P
    IN  carry

\* Mutant of EvalCarries: the last carry may be anything.
EvalCarriesButLast(r) ==
    \A i \in Index \ {NUM_LIMBS - 1} :
        /\ r.flag["ADD"] # 0 => IsBool(Carry(r.b, r.c, r.a)[i])
        /\ r.flag["SUB"] # 0 => IsBool(Carry(r.a, r.c, r.b)[i])

EvalCarries(r) ==
    \A i \in Index :
        /\ r.flag["ADD"] # 0 => IsBool(Carry(r.b, r.c, r.a)[i])
        /\ r.flag["SUB"] # 0 => IsBool(Carry(r.a, r.c, r.b)[i])

BaseAluEval(r) == EvalFlags(BaseAluOpcodes, r.flag) /\ EvalCarries(r)

\* The range check of a for ADD and SUB, the operation itself otherwise.
BaseAluSends(r) ==
    LET bitwise == r.flag["XOR"] + r.flag["OR"] + r.flag["AND"]
    IN  [k \in 1..NUM_LIMBS |->
            LET a == r.a[k - 1]  b == r.b[k - 1]  c == r.c[k - 1]
            IN  Send(BaseAluIsValid(r),
                     XorKey((1 - bitwise) * a + bitwise * b,
                            (1 - bitwise) * a + bitwise * c,
                            r.flag["XOR"] * a + r.flag["OR"] * (2 * a - b - c)
                                + r.flag["AND"] * (b + c - 2 * a)))]

Agree(x, y) == x = y

BaseAluLookupHit(key) == InTable(key, 0, <<0, 0>>)

BaseAluContext(r) ==
    [is_valid |-> BaseAluIsValid(r),
     input |-> [opcode |-> ExpectedOpcode(BaseAluOpcodes, r.flag), b |-> r.b, c |-> r.c],
     result |-> r.a]

\* The memory bus fixes b and c.
BaseAluForgedRows(i) ==
    {[a |-> a, b |-> i.b, c |-> i.c, flag |-> f] :
        a \in [Index -> F], f \in FlagChoices(BaseAluOpcodes, i.opcode)}

BaseAluCore == INSTANCE CoreChip WITH
    Inputs <- BaseAluInputs, Execute <- BaseAluExecute, Interpret <- BaseAluInterpret,
    FillTraceRow <- BaseAluFillTraceRow, Requests <- BaseAluRequests, CudaFillTraceRow
    <- BaseAluCudaFillTraceRow, CudaRequests <- BaseAluCudaRequests, ForgedRows <-
    BaseAluForgedRows, Eval <- BaseAluEval, Sends <- BaseAluSends, LookupHit <-
    BaseAluLookupHit, Context <- BaseAluContext, ZeroRow <- BaseAluZeroRow

-----------------------------------------------------------------------------
(* SLT, SLTU: rd = (b < c).                                                  *)

LessThanOpcodes == <<"SLT", "SLTU">>
LessThanInputs == [opcode : OpcodeSet(LessThanOpcodes), b : Operand, c : Operand]

Msl == NUM_LIMBS - 1       \* index of the most significant limb

-----------------------------------------------------------------------------
(* Execution.                                                              *)

\* run_less_than: diff_idx is NUM_LIMBS when x = y.
RunLessThan(is_slt, x, y) ==
    LET sign(w) == w[Msl] \div 2^(LIMB_BITS - 1) = 1 /\ is_slt
        differ == {i \in Index : x[i] # y[i]}
        idx == CHOOSE i \in differ : \A j \in differ : j <= i
    IN  [cmp_result |-> differ # {} /\ ((x[idx] < y[idx]) # (sign(x) # sign(y))),
         diff_idx |-> IF differ = {} THEN NUM_LIMBS ELSE idx,
         x_sign |-> sign(x), y_sign |-> sign(y)]

\* The word whose low limb is the comparison.
Output(cmp_result) == [i \in Index |-> IF i = 0 THEN FromBool(cmp_result) ELSE 0]

LessThanExecute(i) == Output(RunLessThan(i.opcode = "SLT", i.b, i.c).cmp_result)

\* execute_e12_impl: compares as u32 or as i32.
LessThanInterpret(i) ==
    Output(IF i.opcode = "SLTU" THEN Compose(i.b) < Compose(i.c)
           ELSE Signed(Compose(i.b)) < Signed(Compose(i.c)))

-----------------------------------------------------------------------------
(* Trace generation.                                                       *)

\* The most significant limb as a field element and as what is range checked.
MsbF(w, sign) == (IF sign THEN w[Msl] - 2^LIMB_BITS ELSE w[Msl]) % P
MsbRange(w, sign, is_slt) ==
    IF sign THEN w[Msl] - 2^(LIMB_BITS - 1)
    ELSE w[Msl] + FromBool(is_slt) * 2^(LIMB_BITS - 1)

\* diff_val of the CPU filler; of the kernel when cuda (unsigned comparisons
\* take the difference of bytes there).
DiffVal(i, cuda) ==
    LET is_slt == i.opcode = "SLT"
        run == RunLessThan(is_slt, i.b, i.c)
        x == IF run.diff_idx = Msl /\ (cuda => is_slt) THEN MsbF(i.b, run.x_sign) ELSE i.b[run.diff_idx]
        y == IF run.diff_idx = Msl /\ (cuda => is_slt) THEN MsbF(i.c, run.y_sign) ELSE i.c[run.diff_idx]
    IN  IF run.diff_idx = NUM_LIMBS THEN 0
        ELSE (IF run.cmp_result THEN y - x ELSE x - y) % P

LessThanFill(i, cuda) ==
    LET run == RunLessThan(i.opcode = "SLT", i.b, i.c)
    IN  [b |-> i.b, c |-> i.c, cmp_result |-> FromBool(run.cmp_result),
         flag |-> Flags(LessThanOpcodes, i.opcode),
         b_msb_f |-> MsbF(i.b, run.x_sign), c_msb_f |-> MsbF(i.c, run.y_sign),
         diff_marker |-> [k \in Index |-> FromBool(k = run.diff_idx)],
         diff_val |-> DiffVal(i, cuda)]

LessThanFillTraceRow(i) == LessThanFill(i, FALSE)
LessThanCudaFillTraceRow(i) == LessThanFill(i, TRUE)

LessThanRequested(i, cuda) ==
    LET is_slt == i.opcode = "SLT"
        run == RunLessThan(is_slt, i.b, i.c)
    IN  <<RequestRange(MsbRange(i.b, run.x_sign, is_slt), MsbRange(i.c, run.y_sign, is_slt))>>
        \o IF run.diff_idx = NUM_LIMBS THEN <<>> ELSE <<RequestRange(DiffVal(i, cuda) - 1, 0)>>

LessThanRequests(i) == LessThanRequested(i, FALSE)
LessThanCudaRequests(i) == LessThanRequested(i, TRUE)

LessThanZeroRow == [b |-> ZeroWord, c |-> ZeroWord, cmp_result |-> 0, flag |-> NoFlags(LessThanOpcodes),
            b_msb_f |-> 0, c_msb_f |-> 0, diff_marker |-> ZeroWord, diff_val |-> 0]

-----------------------------------------------------------------------------
(* The AIR.                                                                *)

LessThanIsValid(r) == FlagSum(LessThanOpcodes, r.flag)

\* limb - msb_f is 0 or 2^LIMB_BITS
EvalMsb(limb, msb_f) == IsZero((limb - msb_f) * (2^LIMB_BITS - (limb - msb_f)))

\* Sum of the markers from i up.
PrefixSum(r, i) == Sum([k \in 0..NUM_LIMBS - 1 - i |-> r.diff_marker[i + k]], NUM_LIMBS - i)

\* c[i] - b[i], negated unless cmp_result
Diff(r, i) ==
    (IF i = Msl THEN r.c_msb_f - r.b_msb_f ELSE r.c[i] - r.b[i]) * (2 * r.cmp_result - 1)

EvalDiff(r) ==
    \A i \in Index :
        /\ IsBool(r.diff_marker[i])
        /\ IsZero((1 - PrefixSum(r, i)) * Diff(r, i))
        /\ r.diff_marker[i] # 0 => Eq(r.diff_val, Diff(r, i))

LessThanEval(r) ==
    /\ EvalFlags(LessThanOpcodes, r.flag)
    /\ IsBool(r.cmp_result)
    /\ EvalMsb(r.b[Msl], r.b_msb_f)
    /\ EvalMsb(r.c[Msl], r.c_msb_f)
    /\ EvalDiff(r)
    /\ IsBool(PrefixSum(r, 0))
    /\ PrefixSum(r, 0) % P # 1 => r.cmp_result = 0

LessThanSends(r) ==
    LET shift == 2^(LIMB_BITS - 1) * r.flag["SLT"]
    IN  <<Send(LessThanIsValid(r), RangeKey(r.b_msb_f + shift, r.c_msb_f + shift)),
          Send(PrefixSum(r, 0), RangeKey(r.diff_val - 1, 0))>>

LessThanLookupHit(key) == InTable(key, 0, <<0, 0>>)

LessThanContext(r) ==
    [is_valid |-> LessThanIsValid(r),
     input |-> [opcode |-> ExpectedOpcode(LessThanOpcodes, r.flag), b |-> r.b, c |-> r.c],
     result |-> [i \in Index |-> IF i = 0 THEN r.cmp_result ELSE 0]]

LessThanForgedRows(i) ==
    {[b |-> i.b, c |-> i.c, cmp_result |-> cmp, flag |-> f, b_msb_f |-> bm, c_msb_f |-> cm,
      diff_marker |-> marker, diff_val |-> d] :
        cmp \in Bools, f \in FlagChoices(LessThanOpcodes, i.opcode),
        bm \in {e \in F : EvalMsb(i.b[Msl], e)}, cm \in {e \in F : EvalMsb(i.c[Msl], e)},
        marker \in [Index -> Bools], d \in F}

LessThanCore == INSTANCE CoreChip WITH
    Inputs <- LessThanInputs, Execute <- LessThanExecute, Interpret <-
    LessThanInterpret, FillTraceRow <- LessThanFillTraceRow, Requests <-
    LessThanRequests, CudaFillTraceRow <- LessThanCudaFillTraceRow, CudaRequests <-
    LessThanCudaRequests, ForgedRows <- LessThanForgedRows, Eval <- LessThanEval, Sends
    <- LessThanSends, LookupHit <- LessThanLookupHit, Context <- LessThanContext,
    ZeroRow <- LessThanZeroRow

-----------------------------------------------------------------------------
(* SLL, SRL, SRA: rd = b shifted by the low bits of c.  See CoreChip.        *)

ShiftOpcodes == <<"SLL", "SRL", "SRA">>
ShiftInputs == [opcode : OpcodeSet(ShiftOpcodes), b : Operand, c : Operand]

\* The shift amount must be defined by the low limb (get_shift), limbs are
\* range checked in pairs (ShiftExecutor::new, ShiftFiller::new).
ShiftAssumption == NUM_BITS <= 2^LIMB_BITS /\ NUM_LIMBS % 2 = 0

ShiftMsl == NUM_LIMBS - 1

\* ilog2 of the number of bits of a word
LogNumBits == CHOOSE k \in 0..NUM_BITS : 2^k <= NUM_BITS /\ NUM_BITS < 2^(k + 1)

-----------------------------------------------------------------------------
(* Execution.                                                              *)

GetShift(y) == [limb |-> (y[0] % NUM_BITS) \div LIMB_BITS, bit |-> (y[0] % NUM_BITS) % LIMB_BITS]

\* high << bits | low >> (LIMB_BITS - bits), one limb of it.
Join(high, low, bits) ==
    (Bitwise(OrBit, high * 2^bits, low \div 2^(LIMB_BITS - bits), 2 * LIMB_BITS)) % 2^LIMB_BITS

RunShiftLeft(x, s) ==
    [i \in Index |-> IF i < s.limb THEN 0
                     ELSE Join(x[i - s.limb], IF i > s.limb THEN x[i - s.limb - 1] ELSE 0, s.bit)]

ShiftFill(x, logical) ==
    IF logical THEN 0 ELSE (2^LIMB_BITS - 1) * (x[ShiftMsl] \div 2^(LIMB_BITS - 1))

RunShiftRight(x, s, logical) ==
    [i \in Index |-> IF i + s.limb > ShiftMsl THEN ShiftFill(x, logical)
                     ELSE Bitwise(OrBit, x[i + s.limb] \div 2^s.bit,
                                  (IF i + s.limb < ShiftMsl THEN x[i + s.limb + 1] ELSE ShiftFill(x, logical))
                                      * 2^(LIMB_BITS - s.bit), 2 * LIMB_BITS) % 2^LIMB_BITS]

RunShift(opcode, x, y) ==
    IF opcode = "SLL" THEN RunShiftLeft(x, GetShift(y))
    ELSE RunShiftRight(x, GetShift(y), opcode = "SRL")

ShiftExecute(i) == RunShift(i.opcode, i.b, i.c)

\* ShiftOp::compute: rs2 & 0x1F, an arithmetic shift rounds down.
ShiftInterpret(i) ==
    LET n == Compose(i.b)  k == Compose(i.c) % NUM_BITS
    IN  Decompose(CASE i.opcode = "SLL" -> Wrap(n * 2^k)
                    [] i.opcode = "SRL" -> n \div 2^k
                    [] i.opcode = "SRA" -> Wrap(Signed(n) \div 2^k))

-----------------------------------------------------------------------------
(* Trace generation.  The kernel takes carries with a mask instead of %.   *)

\* The bits of b[k] that move to the neighbouring limb.
BitShiftCarry(i, bit) ==
    [k \in Index |-> IF bit = 0 THEN 0
                     ELSE IF i.opcode = "SLL" THEN i.b[k] \div 2^(LIMB_BITS - bit)
                     ELSE i.b[k] % 2^bit]

CudaBitShiftCarry(i, bit) ==
    [k \in Index |-> IF bit = 0 THEN 0
                     ELSE IF i.opcode = "SLL" THEN i.b[k] \div 2^(LIMB_BITS - bit)
                     ELSE Bitwise(AndBit, i.b[k], 2^bit - 1, LIMB_BITS)]

BSign(i) == IF i.opcode = "SRA" THEN i.b[ShiftMsl] \div 2^(LIMB_BITS - 1) ELSE 0

Row(i, carry) ==
    LET s == GetShift(i.c)
    IN  [a |-> RunShift(i.opcode, i.b, i.c), b |-> i.b, c |-> i.c,
         flag |-> Flags(ShiftOpcodes, i.opcode),
         bit_multiplier_left |-> IF i.opcode = "SLL" THEN 2^s.bit ELSE 0,
         bit_multiplier_right |-> IF i.opcode = "SLL" THEN 0 ELSE 2^s.bit,
         b_sign |-> BSign(i),
         bit_shift_marker |-> [k \in 0..LIMB_BITS - 1 |-> FromBool(k = s.bit)],
         limb_shift_marker |-> [k \in Index |-> FromBool(k = s.limb)],
         bit_shift_carry |-> carry]

ShiftFillTraceRow(i) == Row(i, BitShiftCarry(i, GetShift(i.c).bit))
ShiftCudaFillTraceRow(i) == Row(i, CudaBitShiftCarry(i, GetShift(i.c).bit))

ShiftRequested(i, carry) ==
    LET s == GetShift(i.c)  a == RunShift(i.opcode, i.b, i.c)
    IN  [k \in 1..NUM_LIMBS \div 2 |-> RequestRange(a[2 * k - 2], a[2 * k - 1])]
        \o <<AddCount((i.c[0] - s.bit - s.limb * LIMB_BITS) \div 2^LogNumBits, LIMB_BITS - LogNumBits)>>
        \o [k \in 1..NUM_LIMBS |-> AddCount(carry[k - 1], s.bit)]
        \o IF i.opcode = "SRA" THEN <<RequestXor(i.b[ShiftMsl], 2^(LIMB_BITS - 1))>> ELSE <<>>

ShiftRequests(i) == ShiftRequested(i, BitShiftCarry(i, GetShift(i.c).bit))
ShiftCudaRequests(i) == ShiftRequested(i, CudaBitShiftCarry(i, GetShift(i.c).bit))

ShiftZeroRow == [a |-> ZeroWord, b |-> ZeroWord, c |-> ZeroWord, flag |-> NoFlags(ShiftOpcodes),
            bit_multiplier_left |-> 0, bit_multiplier_right |-> 0, b_sign |-> 0,
            bit_shift_marker |-> [k \in 0..LIMB_BITS - 1 |-> 0],
            limb_shift_marker |-> ZeroWord, bit_shift_carry |-> ZeroWord]

-----------------------------------------------------------------------------
(* The AIR.                                                                *)

ShiftIsValid(r) == FlagSum(ShiftOpcodes, r.flag)
RightShift(r) == r.flag["SRL"] + r.flag["SRA"]

BitShift(r) == Sum([k \in 0..LIMB_BITS - 1 |-> k * r.bit_shift_marker[k]], LIMB_BITS)
LimbShift(r) == Sum([k \in Index |-> k * r.limb_shift_marker[k]], NUM_LIMBS)

\* Exactly one bit marker on a valid row, and the multiplier is its power.
EvalBitShift(r) ==
    /\ \A k \in 0..LIMB_BITS - 1 :
           /\ IsBool(r.bit_shift_marker[k])
           /\ r.bit_shift_marker[k] # 0 =>
                  /\ Eq(r.bit_multiplier_left, 2^k * r.flag["SLL"])
                  /\ Eq(r.bit_multiplier_right, 2^k * RightShift(r))
    /\ ShiftIsValid(r) # 0 => Eq(Sum(r.bit_shift_marker, LIMB_BITS), 1)

\* Limb j of the result when the limb shift is i.
EvalLeft(r, i, j) ==
    IF j < i THEN IsZero(r.a[j] * r.flag["SLL"])
    ELSE Eq(r.a[j] * r.flag["SLL"],
            (IF j = i THEN 0 ELSE r.bit_shift_carry[j - i - 1] * r.flag["SLL"])
            + r.b[j - i] * r.bit_multiplier_left
            - 2^LIMB_BITS * r.bit_shift_carry[j - i] * r.flag["SLL"])

EvalRight(r, i, j) ==
    IF j + i > ShiftMsl THEN Eq(r.a[j] * RightShift(r), r.b_sign * (2^LIMB_BITS - 1))
    ELSE Eq(r.a[j] * r.bit_multiplier_right,
            (IF j + i = ShiftMsl THEN r.b_sign * (r.bit_multiplier_right - 1)
             ELSE r.bit_shift_carry[j + i + 1] * RightShift(r)) * 2^LIMB_BITS
            + RightShift(r) * (r.b[j + i] - r.bit_shift_carry[j + i]))

EvalLimbShift(r) ==
    /\ \A i \in Index :
           /\ IsBool(r.limb_shift_marker[i])
           /\ r.limb_shift_marker[i] # 0 => \A j \in Index : EvalLeft(r, i, j) /\ EvalRight(r, i, j)
    /\ ShiftIsValid(r) # 0 => Eq(Sum(r.limb_shift_marker, NUM_LIMBS), 1)

EvalSign(r) == IsBool(r.b_sign) /\ (r.flag["SRA"] # 1 => r.b_sign = 0)

ShiftEval(r) == EvalLimbShift(r) /\ EvalBitShift(r) /\ EvalSign(r) /\ EvalFlags(ShiftOpcodes, r.flag)

\* The shift amount is c modulo the number of bits, b_sign is the sign of b.
SendsShift(r) ==
    LET mask == 2^(LIMB_BITS - 1)
    IN  <<Send(ShiftIsValid(r), VarRangeKey((r.c[0] - LimbShift(r) * LIMB_BITS - BitShift(r)) * Inv(NUM_BITS),
                                       LIMB_BITS - LogNumBits)),
          Send(r.flag["SRA"], XorKey(r.b[ShiftMsl], mask, r.b[ShiftMsl] + mask - 2 * r.b_sign * mask))>>

\* a is made of limbs, carries are smaller than the power they move by.
SendsLimbs(r) ==
    [k \in 1..NUM_LIMBS \div 2 |-> Send(ShiftIsValid(r), RangeKey(r.a[2 * k - 2], r.a[2 * k - 1]))]
    \o [k \in 1..NUM_LIMBS |-> Send(ShiftIsValid(r), VarRangeKey(r.bit_shift_carry[k - 1], BitShift(r)))]

ShiftSends(r) == SendsShift(r) \o SendsLimbs(r)

ShiftLookupHit(key) == InTable(key, LIMB_BITS, <<0, 0>>)

ShiftContext(r) ==
    [is_valid |-> ShiftIsValid(r),
     input |-> [opcode |-> ExpectedOpcode(ShiftOpcodes, r.flag), b |-> r.b, c |-> r.c],
     result |-> r.a]

\* What EvalBitShift lets a multiplier be when one marker is set.
Multipliers == {0} \cup {2^k : k \in 0..LIMB_BITS - 1}

\* The columns that say what shift it is, as far as they are consistent.
ShiftColumns(i) ==
    {r \in {[ShiftZeroRow EXCEPT !.b = i.b, !.c = i.c, !.flag = f, !.bit_multiplier_left = ml,
                            !.bit_multiplier_right = mr, !.b_sign = sign,
                            !.bit_shift_marker = bm, !.limb_shift_marker = lm] :
                f \in FlagChoices(ShiftOpcodes, i.opcode), ml \in Multipliers, mr \in Multipliers,
                sign \in Bools, bm \in [0..LIMB_BITS - 1 -> Bools],
                lm \in [Index -> Bools]} :
        /\ EvalBitShift(r) /\ EvalSign(r)
        /\ \A k \in 1..2 : SendsShift(r)[k].count = 0 \/ ShiftLookupHit(SendsShift(r)[k].key)}

ShiftForgedRows(i) ==
    {[r EXCEPT !.a = a, !.bit_shift_carry = carry] :
        r \in ShiftColumns(i), a \in Word, carry \in [Index -> F]}

ShiftCore == INSTANCE CoreChip WITH
    Inputs <- ShiftInputs, Execute <- ShiftExecute, Interpret <- ShiftInterpret,
    FillTraceRow <- ShiftFillTraceRow, Requests <- ShiftRequests, CudaFillTraceRow <-
    ShiftCudaFillTraceRow, CudaRequests <- ShiftCudaRequests, ForgedRows <-
    ShiftForgedRows, Eval <- ShiftEval, Sends <- ShiftSends, LookupHit <-
    ShiftLookupHit, Context <- ShiftContext, ZeroRow <- ShiftZeroRow
=============================================================================
