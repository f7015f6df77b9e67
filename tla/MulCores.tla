------------------------------ MODULE MulCores ------------------------------
(* The cores of the M extension: low and high words of products, division and  *)
(* remainder.  See CoreChip for the machine.                                   *)
EXTENDS FieldLimbs

CONSTANTS CARRY_SIZE

VARIABLES input, result, row, requests, phase

-----------------------------------------------------------------------------
(* MUL: rd = low word of b * c.                                              *)

\* The sizes of the range tuple checker, as MultiplicationFiller::new asserts
RangeTupleSizes == <<2^LIMB_BITS, CARRY_SIZE>>
MulSizesAssumption == CARRY_SIZE \in Nat /\ CARRY_SIZE >= 2^LIMB_BITS * NUM_LIMBS

MulOpcodes == <<"MUL">>
MulInputs == [opcode : OpcodeSet(MulOpcodes), b : Operand, c : Operand]

\* x[0] * y[i] + ... + x[i] * y[0]
Convolve(x, y, i) == Sum([k \in 0..i |-> x[k] * y[i - k]], i + 1)

-----------------------------------------------------------------------------
(* Execution.                                                              *)

\* run_mul: the limbs of the product and the carries out of them
RunMul(x, y) ==
    LET res[i \in Index] == Convolve(x, y, i) + IF i > 0 THEN res[i - 1] \div 2^LIMB_BITS ELSE 0
    IN  [a |-> [i \in Index |-> res[i] % 2^LIMB_BITS],
         carry |-> [i \in Index |-> res[i] \div 2^LIMB_BITS]]

MulExecute(i) == RunMul(i.b, i.c).a

\* execute_e12_impl: wrapping_mul
MulInterpret(i) == Decompose(Wrap(Compose(i.b) * Compose(i.c)))

Agree(x, y) == x = y

-----------------------------------------------------------------------------
(* Trace generation.                                                       *)

MulFillTraceRow(i) == [a |-> RunMul(i.b, i.c).a, b |-> i.b, c |-> i.c, is_valid |-> 1]

MulRequests(i) ==
    LET r == RunMul(i.b, i.c)
    IN  [k \in 1..NUM_LIMBS |-> TupleKey(r.a[k - 1], r.carry[k - 1])]

\* run_mul of the kernel
CudaRunMul(x, y) ==
    LET carry[i \in Index] ==
            (Convolve(x, y, i) + IF i > 0 THEN carry[i - 1] ELSE 0) \div 2^LIMB_BITS
    IN  [a |-> [i \in Index |->
                   (Convolve(x, y, i) + IF i > 0 THEN carry[i - 1] ELSE 0) % 2^LIMB_BITS],
         carry |-> carry]

MulCudaFillTraceRow(i) == [a |-> CudaRunMul(i.b, i.c).a, b |-> i.b, c |-> i.c, is_valid |-> 1]

MulCudaRequests(i) ==
    LET r == CudaRunMul(i.b, i.c)
    IN  [k \in 1..NUM_LIMBS |-> TupleKey(r.a[k - 1], r.carry[k - 1])]

MulZeroRow == [a |-> ZeroWord, b |-> ZeroWord, c |-> ZeroWord, is_valid |-> 0]

-----------------------------------------------------------------------------
(* The AIR.                                                                *)

MulEval(r) == IsBool(r.is_valid)

\* carry[i] = (sum of b[k] * c[i-k] + carry[i-1] - a[i]) / 2^LIMB_BITS, in F
MulCarry(r) ==
    LET carry[i \in Index] ==
            (Inv(2^LIMB_BITS)
             * (Convolve(r.b, r.c, i) + (IF i > 0 THEN carry[i - 1] ELSE 0) - r.a[i])) % P
    IN  carry

MulSends(r) == [k \in 1..NUM_LIMBS |-> Send(r.is_valid, TupleKey(r.a[k - 1], MulCarry(r)[k - 1]))]

LookupHit(key) == InTable(key, 0, RangeTupleSizes)

MulContext(r) ==
    [is_valid |-> r.is_valid,
     input |-> [opcode |-> "MUL", b |-> r.b, c |-> r.c],
     result |-> r.a]

\* The memory bus fixes b and c.
MulForgedRows(i) ==
    {[a |-> a, b |-> i.b, c |-> i.c, is_valid |-> v] : a \in [Index -> F], v \in Bools}

MulCore == INSTANCE CoreChip WITH
    Inputs <- MulInputs, Execute <- MulExecute, Interpret <- MulInterpret, FillTraceRow
    <- MulFillTraceRow, Requests <- MulRequests, CudaFillTraceRow <-
    MulCudaFillTraceRow, CudaRequests <- MulCudaRequests, ForgedRows <- MulForgedRows,
    Eval <- MulEval, Sends <- MulSends, Context <- MulContext, ZeroRow <- MulZeroRow

-----------------------------------------------------------------------------
(* MULH, MULHSU, MULHU: rd = high word of b * c, both signed, b signed, or none*)
(* signed.                                                                   *)

MulHSizesAssumption == CARRY_SIZE \in Nat /\ CARRY_SIZE >= 2^LIMB_BITS * 2 * NUM_LIMBS

MulHOpcodes == <<"MULH", "MULHSU", "MULHU">>
MulHInputs == [opcode : OpcodeSet(MulHOpcodes), b : Operand, c : Operand]

Msl == NUM_LIMBS - 1
ExtLimb == 2^LIMB_BITS - 1
SignMask == 2^(LIMB_BITS - 1)

\* x[0] * y[i] + ... + x[i] * y[0], for i in the low word
MulHConvolveLow(x, y, i) == Sum([k \in 0..i |-> x[k] * y[i - k]], i + 1)
\* the products that belong to limb NUM_LIMBS + i, extensions included
MulHConvolveHigh(x, y, x_ext, y_ext, i) ==
    Sum([k \in 0..NUM_LIMBS - 2 - i |-> x[i + 1 + k] * y[Msl - k]], Msl - i)
    + Sum([k \in 0..i |-> x[k] * y_ext + y[k] * x_ext], i + 1)

-----------------------------------------------------------------------------
(* Execution.                                                              *)

ExtensionOf(opcode, x, y) ==
    [x |-> (x[Msl] \div SignMask) * IF opcode = "MULHU" THEN 0 ELSE ExtLimb,
     y |-> (y[Msl] \div SignMask) * IF opcode = "MULH" THEN ExtLimb ELSE 0]

\* run_mulh: limbs of both words, carries out of each of them, extensions
RunMulH(opcode, x, y) ==
    LET ext == ExtensionOf(opcode, x, y)
        res[i \in 0..2 * NUM_LIMBS - 1] ==
            (IF i > 0 THEN res[i - 1] \div 2^LIMB_BITS ELSE 0)
            + IF i < NUM_LIMBS THEN MulHConvolveLow(x, y, i)
              ELSE MulHConvolveHigh(x, y, ext.x, ext.y, i - NUM_LIMBS)
    IN  [mulh |-> [i \in Index |-> res[NUM_LIMBS + i] % 2^LIMB_BITS],
         mul |-> [i \in Index |-> res[i] % 2^LIMB_BITS],
         carry |-> [i \in 0..2 * NUM_LIMBS - 1 |-> res[i] \div 2^LIMB_BITS],
         x_ext |-> ext.x, y_ext |-> ext.y]

MulHExecute(i) == RunMulH(i.opcode, i.b, i.c).mulh

\* MulHOperation::compute: a shift (to the floor) of the 2 * NUM_BITS-bit product
MulHCompute(opcode, rs1, rs2) ==
    LET x == IF opcode = "MULHU" THEN rs1 ELSE Signed(rs1)
        y == IF opcode = "MULH" THEN Signed(rs2) ELSE rs2
    IN  Wrap((x * y) \div 2^NUM_BITS)

\* execute_e12_impl
MulHInterpret(i) == Decompose(MulHCompute(i.opcode, Compose(i.b), Compose(i.c)))

-----------------------------------------------------------------------------
(* Trace generation; the kernel's run_mulh goes through the same steps.    *)

MulHRowOf(i, r) ==
    [a |-> r.mulh, b |-> i.b, c |-> i.c, a_mul |-> r.mul, b_ext |-> r.x_ext, c_ext |-> r.y_ext,
     flag |-> Flags(MulHOpcodes, i.opcode)]

MulHFillTraceRow(i) == MulHRowOf(i, RunMulH(i.opcode, i.b, i.c))

Mask(ext) == IF ext = 0 THEN 0 ELSE SignMask

MulHRequestsOf(i, r) ==
    [k \in 1..2 * NUM_LIMBS |->
        LET j == (k - 1) \div 2
        IN  IF k % 2 = 1 THEN TupleKey(r.mul[j], r.carry[j])
            ELSE TupleKey(r.mulh[j], r.carry[NUM_LIMBS + j])]
    \o IF i.opcode = "MULHU" THEN <<>>
       ELSE <<RequestRange((i.b[Msl] - Mask(r.x_ext)) * 2,
                           (i.c[Msl] - Mask(r.y_ext)) * IF i.opcode = "MULH" THEN 2 ELSE 1)>>

MulHRequests(i) == MulHRequestsOf(i, RunMulH(i.opcode, i.b, i.c))

\* run_mulh of the kernel, with running prefix sums of the limbs
CudaRunMulH(opcode, x, y) ==
    LET ext == ExtensionOf(opcode, x, y)
        xs == [i \in Index |-> Sum(x, i + 1)]
        ys == [i \in Index |-> Sum(y, i + 1)]
        res[i \in 0..2 * NUM_LIMBS - 1] ==
            (IF i > 0 THEN res[i - 1] \div 2^LIMB_BITS ELSE 0)
            + IF i < NUM_LIMBS THEN MulHConvolveLow(x, y, i)
              ELSE LET h == i - NUM_LIMBS
                   IN  xs[h] * ext.y + ys[h] * ext.x + MulHConvolveHigh(x, y, 0, 0, h)
    IN  [mulh |-> [i \in Index |-> res[NUM_LIMBS + i] % 2^LIMB_BITS],
         mul |-> [i \in Index |-> res[i] % 2^LIMB_BITS],
         carry |-> [i \in 0..2 * NUM_LIMBS - 1 |-> res[i] \div 2^LIMB_BITS],
         x_ext |-> ext.x, y_ext |-> ext.y]

MulHCudaFillTraceRow(i) == MulHRowOf(i, CudaRunMulH(i.opcode, i.b, i.c))
MulHCudaRequests(i) == MulHRequestsOf(i, CudaRunMulH(i.opcode, i.b, i.c))

MulHZeroRow == [a |-> ZeroWord, b |-> ZeroWord, c |-> ZeroWord, a_mul |-> ZeroWord,
            b_ext |-> 0, c_ext |-> 0, flag |-> NoFlags(MulHOpcodes)]

-----------------------------------------------------------------------------
(* The AIR.                                                                *)

MulHIsValid(r) == FlagSum(MulHOpcodes, r.flag)

BSign(r) == (r.b_ext * Inv(ExtLimb)) % P
CSign(r) == (r.c_ext * Inv(ExtLimb)) % P

MulHEvalSigns(r) ==
    /\ IsBool(BSign(r))
    /\ IsBool(CSign(r))
    /\ IsZero(r.flag["MULHU"] * BSign(r))
    /\ IsZero((r.flag["MULHU"] + r.flag["MULHSU"]) * CSign(r))

MulHEval(r) == EvalFlags(MulHOpcodes, r.flag) /\ MulHEvalSigns(r)

\* carry_mul, then carry, of b * c = a * 2^NUM_BITS + a_mul, in F
MulHCarry(r) ==
    LET carry[i \in 0..2 * NUM_LIMBS - 1] ==
            (Inv(2^LIMB_BITS)
             * ((IF i > 0 THEN carry[i - 1] ELSE 0)
                + IF i < NUM_LIMBS THEN MulHConvolveLow(r.b, r.c, i) - r.a_mul[i]
                  ELSE MulHConvolveHigh(r.b, r.c, r.b_ext, r.c_ext, i - NUM_LIMBS)
                       - r.a[i - NUM_LIMBS])) % P
    IN  carry

MulHSendsSigns(r) ==
    <<Send(r.flag["MULH"] + r.flag["MULHSU"],
           RangeKey(2 * (r.b[Msl] - BSign(r) * SignMask),
                    (r.flag["MULH"] + 1) * (r.c[Msl] - CSign(r) * SignMask)))>>

SendsLow(r) ==
    [k \in 1..NUM_LIMBS |-> Send(MulHIsValid(r), TupleKey(r.a_mul[k - 1], MulHCarry(r)[k - 1]))]

MulHSends(r) ==
    SendsLow(r)
    \o [k \in 1..NUM_LIMBS |->
           Send(MulHIsValid(r), TupleKey(r.a[k - 1], MulHCarry(r)[NUM_LIMBS + k - 1]))]
    \o MulHSendsSigns(r)

MulHContext(r) ==
    [is_valid |-> MulHIsValid(r),
     input |-> [opcode |-> ExpectedOpcode(MulHOpcodes, r.flag), b |-> r.b, c |-> r.c],
     result |-> r.a]

\* Rows whose limbs of the low word are in the table.
MulHForgedRows(i) ==
    LET r(a, m, be, ce, f) == [a |-> a, b |-> i.b, c |-> i.c, a_mul |-> m, b_ext |-> be,
                               c_ext |-> ce, flag |-> f]
        lows == {m \in Word :
                    LET sends == SendsLow(r(ZeroWord, m, 0, 0, Flags(MulHOpcodes, i.opcode)))
                    IN  \A k \in 1..NUM_LIMBS : LookupHit(sends[k].key)}
    IN  {r(a, m, be, ce, f) :
            a \in Word, m \in lows, be \in {e \in F : IsBool(e * Inv(ExtLimb))},
            ce \in {e \in F : IsBool(e * Inv(ExtLimb))}, f \in FlagChoices(MulHOpcodes, i.opcode)}

MulHCore == INSTANCE CoreChip WITH
    Inputs <- MulHInputs, Execute <- MulHExecute, Interpret <- MulHInterpret,
    FillTraceRow <- MulHFillTraceRow, Requests <- MulHRequests, CudaFillTraceRow <-
    MulHCudaFillTraceRow, CudaRequests <- MulHCudaRequests, ForgedRows <-
    MulHForgedRows, Eval <- MulHEval, Sends <- MulHSends, Context <- MulHContext,
    ZeroRow <- MulHZeroRow

-----------------------------------------------------------------------------
(* DIV, DIVU, REM, REMU: rd = quotient or remainder of b and c, rounded to   *)
(* zero.                                                                     *)

DivRemSizesAssumption == CARRY_SIZE \in Nat /\ CARRY_SIZE >= 2^LIMB_BITS * 2 * NUM_LIMBS

DivRemOpcodes == <<"DIV", "DIVU", "REM", "REMU">>
DivRemInputs == [opcode : OpcodeSet(DivRemOpcodes), b : Operand, c : Operand]

IsSigned(opcode) == opcode \in {"DIV", "REM"}
IsDiv(opcode) == opcode \in {"DIV", "DIVU"}

MaxLimb == 2^LIMB_BITS - 1
MaxWord == [i \in Index |-> MaxLimb]
MinSigned == [i \in Index |-> IF i = Msl THEN 2^(LIMB_BITS - 1) ELSE 0]

-----------------------------------------------------------------------------
(* Execution.                                                              *)

Negate(x) ==
    LET val[i \in Index] ==
            2^LIMB_BITS - 1 - x[i] + IF i = 0 THEN 1 ELSE val[i - 1] \div 2^LIMB_BITS
    IN  [i \in Index |-> val[i] % 2^LIMB_BITS]

NegateIf(cond, x) == IF cond THEN Negate(x) ELSE x
Sign(signed, x) == signed /\ x[Msl] \div 2^(LIMB_BITS - 1) = 1

SpecialCase(signed, x, y) ==
    CASE y = ZeroWord -> "ZeroDivisor"
      [] signed /\ x = MinSigned /\ y = MaxWord -> "SignedOverflow"
      [] OTHER -> "None"

\* run_divrem
RunDivRem(signed, x, y) ==
    LET x_sign == Sign(signed, x)
        y_sign == Sign(signed, y)
        x_abs == Compose(NegateIf(x_sign, x))
        y_abs == Compose(NegateIf(y_sign, y))
        case == SpecialCase(signed, x, y)
        q == NegateIf(x_sign # y_sign, Decompose(x_abs \div y_abs))
    IN  CASE case = "ZeroDivisor" ->
                [q |-> MaxWord, r |-> x, q_sign |-> signed, case |-> case]
          [] case = "SignedOverflow" ->
                [q |-> x, r |-> ZeroWord, q_sign |-> FALSE, case |-> case]
          [] OTHER ->
                [q |-> q, r |-> NegateIf(x_sign, Decompose(x_abs % y_abs)),
                 q_sign |-> Sign(signed, q), case |-> case]

DivRemExecute(i) ==
    LET d == RunDivRem(IsSigned(i.opcode), i.b, i.c)
    IN  IF IsDiv(i.opcode) THEN d.q ELSE d.r

\* Division of machine words rounds to zero.
Quot(x, y) ==
    LET abs(n) == IF n < 0 THEN -n ELSE n
    IN  (IF (x < 0) # (y < 0) THEN -1 ELSE 1) * (abs(x) \div abs(y))
Rem(x, y) == x - y * Quot(x, y)

\* DivRemOp::compute on i32 or u32
DivRemCompute(opcode, rs1, rs2) ==
    LET x == IF IsSigned(opcode) THEN Signed(rs1) ELSE rs1
        y == IF IsSigned(opcode) THEN Signed(rs2) ELSE rs2
        overflow == IsSigned(opcode) /\ x = -(2^(NUM_BITS - 1)) /\ y = -1
    IN  CASE y = 0 -> IF IsDiv(opcode) THEN 2^NUM_BITS - 1 ELSE rs1
          [] overflow -> IF IsDiv(opcode) THEN rs1 ELSE 0
          [] OTHER -> Wrap(IF IsDiv(opcode) THEN Quot(x, y) ELSE Rem(x, y))

\* execute_e12_impl
DivRemInterpret(i) == Decompose(DivRemCompute(i.opcode, Compose(i.b), Compose(i.c)))

-----------------------------------------------------------------------------
(* Trace generation.                                                       *)

TryInverse(x) == IF x % P = 0 THEN 0 ELSE Inv(x)
WordSum(x) == Sum(x, NUM_LIMBS)

\* The most significant limb in which x and y differ.
DiffIdx(x, y) == CHOOSE i \in Index : x[i] # y[i] /\ \A j \in Index : j > i => x[j] = y[j]

\* x[0] * y[i] + ... + x[i] * y[0], for i in the low word
DivRemConvolveLow(x, y, i) == Sum([k \in 0..i |-> x[k] * y[i - k]], i + 1)
\* the products that belong to limb NUM_LIMBS + i, extensions included
DivRemConvolveHigh(x, y, x_ext, y_ext, i) ==
    Sum([k \in 0..NUM_LIMBS - 2 - i |-> x[i + 1 + k] * y[Msl - k]], Msl - i)
    + Sum([k \in 0..i |-> x[k] * y_ext + y[k] * x_ext], i + 1)

Ext(sign) == IF sign THEN MaxLimb ELSE 0

\* run_mul_carries: carries of d * q + r
RunMulCarries(signed, d, q, r, q_sign) ==
    LET val[i \in 0..2 * NUM_LIMBS - 1] ==
            (IF i > 0 THEN val[i - 1] \div 2^LIMB_BITS ELSE 0)
            + IF i < NUM_LIMBS THEN r[i] + DivRemConvolveLow(d, q, i)
              ELSE DivRemConvolveHigh(d, q, Ext(Sign(signed, d)), Ext(q_sign /\ signed), i - NUM_LIMBS)
                   + Ext(Sign(signed, r))
    IN  [i \in 0..2 * NUM_LIMBS - 1 |-> val[i] \div 2^LIMB_BITS]

\* Columns and counted lookups for the outcome d of the division.
RZero(d) == d.r = ZeroWord /\ d.case # "ZeroDivisor"
RPrime(i, d) == NegateIf(Sign(IsSigned(i.opcode), i.b) # Sign(IsSigned(i.opcode), i.c), d.r)
LtIdx(i, d) == IF d.case = "None" /\ ~RZero(d) THEN DiffIdx(i.c, RPrime(i, d)) ELSE NUM_LIMBS
LtDiff(i, d) ==
    LET k == LtIdx(i, d)
        c_sign == Sign(IsSigned(i.opcode), i.c)
    IN  IF k = NUM_LIMBS THEN 0
        ELSE IF c_sign THEN RPrime(i, d)[k] - i.c[k] ELSE i.c[k] - RPrime(i, d)[k]

DivRemRowOf(i, d) ==
    LET b_sign == Sign(IsSigned(i.opcode), i.b)
        c_sign == Sign(IsSigned(i.opcode), i.c)
    IN  [b |-> i.b, c |-> i.c, q |-> d.q, r |-> d.r,
         zero_divisor |-> FromBool(d.case = "ZeroDivisor"), r_zero |-> FromBool(RZero(d)),
         b_sign |-> FromBool(b_sign), c_sign |-> FromBool(c_sign),
         q_sign |-> FromBool(d.q_sign), sign_xor |-> FromBool(b_sign # c_sign),
         c_sum_inv |-> TryInverse(WordSum(i.c)), r_sum_inv |-> TryInverse(WordSum(d.r)),
         r_prime |-> RPrime(i, d),
         r_inv |-> [k \in Index |-> Inv(RPrime(i, d)[k] - 2^LIMB_BITS)],
         lt_marker |-> [k \in Index |-> FromBool(k = LtIdx(i, d))], lt_diff |-> LtDiff(i, d),
         flag |-> Flags(DivRemOpcodes, i.opcode)]

DivRemRequestsOf(i, d) ==
    LET signed == IsSigned(i.opcode)
        top(x) == 2 * (x[Msl] - IF Sign(signed, x) THEN 2^(LIMB_BITS - 1) ELSE 0)
        carry == RunMulCarries(signed, i.c, d.q, d.r, d.q_sign)
    IN  [k \in 1..2 * NUM_LIMBS |->
            LET j == (k - 1) \div 2
            IN  IF k % 2 = 1 THEN TupleKey(d.q[j], carry[j])
                ELSE TupleKey(d.r[j], carry[NUM_LIMBS + j])]
        \o (IF signed THEN <<RequestRange(top(i.b), top(i.c))>> ELSE <<>>)
        \o (IF LtIdx(i, d) = NUM_LIMBS THEN <<>> ELSE <<RequestRange(LtDiff(i, d) - 1, 0)>>)

DivRemFillTraceRow(i) == DivRemRowOf(i, RunDivRem(IsSigned(i.opcode), i.b, i.c))
DivRemRequests(i) == DivRemRequestsOf(i, RunDivRem(IsSigned(i.opcode), i.b, i.c))

\* The kernel divides machine words; abs_u32 is the wrapping negation.
CudaRunDivRem(signed, b, c) ==
    LET neg(n, cond) == IF cond THEN Wrap(2^NUM_BITS - n) ELSE n
        b_sign == Sign(signed, b)
        c_sign == Sign(signed, c)
        b_abs == neg(Compose(b), b_sign)
        c_abs == neg(Compose(c), c_sign)
        q == neg(b_abs \div c_abs, b_sign # c_sign)
    IN  CASE Compose(c) = 0 ->
                [q |-> MaxWord, r |-> b, q_sign |-> signed, case |-> "ZeroDivisor"]
          [] Compose(b) = 2^(NUM_BITS - 1) /\ Compose(c) = 2^NUM_BITS - 1 /\ b_sign /\ c_sign ->
                [q |-> b, r |-> ZeroWord, q_sign |-> FALSE, case |-> "SignedOverflow"]
          [] OTHER ->
                [q |-> Decompose(q), r |-> Decompose(neg(b_abs % c_abs, b_sign)),
                 q_sign |-> signed /\ q >= 2^(NUM_BITS - 1), case |-> "None"]

DivRemCudaFillTraceRow(i) == DivRemRowOf(i, CudaRunDivRem(IsSigned(i.opcode), i.b, i.c))
DivRemCudaRequests(i) == DivRemRequestsOf(i, CudaRunDivRem(IsSigned(i.opcode), i.b, i.c))

DivRemZeroRow == [b |-> ZeroWord, c |-> ZeroWord, q |-> ZeroWord, r |-> ZeroWord,
            zero_divisor |-> 0, r_zero |-> 0, b_sign |-> 0, c_sign |-> 0, q_sign |-> 0,
            sign_xor |-> 0, c_sum_inv |-> 0, r_sum_inv |-> 0, r_prime |-> ZeroWord,
            r_inv |-> ZeroWord, lt_marker |-> ZeroWord, lt_diff |-> 0, flag |-> NoFlags(DivRemOpcodes)]

-----------------------------------------------------------------------------
(* The AIR.                                                                *)

DivRemIsValid(r) == FlagSum(DivRemOpcodes, r.flag)
SignedFlag(r) == r.flag["DIV"] + r.flag["REM"]
Special(r) == r.zero_divisor + r.r_zero

\* carry and carry_ext of c * q + r = b, extended by signs to two words, in F
DivRemCarry(r) ==
    LET carry[i \in 0..2 * NUM_LIMBS - 1] ==
            (Inv(2^LIMB_BITS)
             * ((IF i > 0 THEN carry[i - 1] ELSE 0)
                + IF i < NUM_LIMBS THEN r.r[i] + DivRemConvolveLow(r.c, r.q, i) - r.b[i]
                  ELSE DivRemConvolveHigh(r.c, r.q, r.c_sign * MaxLimb, r.q_sign * MaxLimb, i - NUM_LIMBS)
                       - r.r_zero * r.b_sign * MaxLimb)) % P
    IN  carry

\* zero_divisor = 1 iff c = 0, and then q is all ones; r_zero = 1 iff r = 0
\* and the divisor is not.
EvalSpecial(r) ==
    /\ IsBool(Special(r))
    /\ IsBool(r.zero_divisor)
    /\ r.zero_divisor # 0 => \A i \in Index : IsZero(r.c[i]) /\ Eq(r.q[i], MaxLimb)
    /\ IsBool(DivRemIsValid(r) - r.zero_divisor)
    /\ (DivRemIsValid(r) - r.zero_divisor) % P # 0 => Eq(WordSum(r.c) * r.c_sum_inv, 1)
    /\ IsBool(r.r_zero)
    /\ r.r_zero # 0 => \A i \in Index : IsZero(r.r[i])
    /\ IsBool(DivRemIsValid(r) - Special(r))
    /\ (DivRemIsValid(r) - Special(r)) % P # 0 => Eq(WordSum(r.r) * r.r_sum_inv, 1)

DivRemEvalSigns(r) ==
    /\ IsBool(r.b_sign) /\ IsBool(r.c_sign) /\ IsBool(r.q_sign)
    /\ (1 - SignedFlag(r)) % P # 0 => IsZero(r.b_sign) /\ IsZero(r.c_sign)
    /\ Eq(r.b_sign + r.c_sign - 2 * r.b_sign * r.c_sign, r.sign_xor)
    /\ IsZero(WordSum(r.q) * (1 - r.zero_divisor) * (r.q_sign - r.sign_xor))
    /\ IsZero((r.q_sign - r.sign_xor) * (1 - r.zero_divisor) * r.q_sign)

\* r_prime = -rem, when the signs differ
EvalNegated(rem, r_prime, r_inv) ==
    LET carry_lt[i \in Index] ==
            (((IF i > 0 THEN carry_lt[i - 1] ELSE 0) + rem[i] + r_prime[i])
             * Inv(2^LIMB_BITS)) % P
    IN  \A i \in Index :
            LET last == IF i > 0 THEN carry_lt[i - 1] ELSE 0
            IN  /\ IsZero((carry_lt[i] - last) * (carry_lt[i] - 1))
                /\ Eq((r_prime[i] - 2^LIMB_BITS) * r_inv[i], 1)
                /\ IsZero((1 - carry_lt[i]) * r_prime[i])

EvalRPrime(r) ==
    /\ IsZero(1 - r.sign_xor) \/ \A i \in Index : Eq(r.r[i], r.r_prime[i])
    /\ IsZero(r.sign_xor) \/ EvalNegated(r.r, r.r_prime, r.r_inv)

PrefixSum(r, i) ==
    Special(r) + Sum([k \in 0..NUM_LIMBS - 1 - i |-> r.lt_marker[i + k]], NUM_LIMBS - i)
Diff(r, i) == (r.c[i] - r.r_prime[i]) * (1 - 2 * r.c_sign)

\* |r| < |c|: the first limb that differs is marked and differs by lt_diff
EvalLess(r) ==
    /\ \A i \in Index :
           /\ IsBool(r.lt_marker[i])
           /\ IsZero((1 - PrefixSum(r, i)) * Diff(r, i))
           /\ r.lt_marker[i] # 0 => Eq(r.lt_diff, Diff(r, i))
    /\ DivRemIsValid(r) % P # 0 => Eq(PrefixSum(r, 0), 1)

DivRemEval(r) ==
    /\ EvalFlags(DivRemOpcodes, r.flag)
    /\ EvalSpecial(r)
    /\ DivRemEvalSigns(r)
    /\ EvalRPrime(r)
    /\ EvalLess(r)

SendsCarries(r) ==
    LET carry == DivRemCarry(r)
    IN  [k \in 1..2 * NUM_LIMBS |->
            Send(DivRemIsValid(r),
                 TupleKey(IF k <= NUM_LIMBS THEN r.q[k - 1] ELSE r.r[k - NUM_LIMBS - 1],
                          carry[k - 1]))]

DivRemSendsSigns(r) ==
    LET mask == 2^(LIMB_BITS - 1)
    IN  Send(SignedFlag(r), RangeKey(2 * (r.b[Msl] - r.b_sign * mask), 2 * (r.c[Msl] - r.c_sign * mask)))

DivRemSends(r) ==
    SendsCarries(r) \o <<DivRemSendsSigns(r), Send(DivRemIsValid(r) - Special(r), RangeKey(r.lt_diff - 1, 0))>>

DivRemContext(r) ==
    [is_valid |-> DivRemIsValid(r),
     input |-> [opcode |-> ExpectedOpcode(DivRemOpcodes, r.flag), b |-> r.b, c |-> r.c],
     result |-> [i \in Index |->
                    LET is_div == r.flag["DIV"] + r.flag["DIVU"]
                    IN  (is_div * r.q[i] + (1 - is_div) * r.r[i]) % P]]

-----------------------------------------------------------------------------
(* Candidates of a prover.  A column that is only there to hold an inverse *)
(* holds it.                                                               *)

InverseWord(x) == [i \in Index |-> TryInverse(x[i] - 2^LIMB_BITS)]
Negations == [rem \in Word |-> {x \in [Index -> F] : EvalNegated(rem, x, InverseWord(x))}]

Candidate(i, f, q, rem, zero, r_zero, bs, cs, qs) ==
    [b |-> i.b, c |-> i.c, q |-> q, r |-> rem, zero_divisor |-> zero, r_zero |-> r_zero,
     b_sign |-> bs, c_sign |-> cs, q_sign |-> qs, sign_xor |-> (bs + cs - 2 * bs * cs) % P,
     c_sum_inv |-> TryInverse(WordSum(i.c)), r_sum_inv |-> TryInverse(WordSum(rem)),
     r_prime |-> rem, r_inv |-> ZeroWord, lt_marker |-> ZeroWord, lt_diff |-> 0, flag |-> f]

Hits(r, sends) == \A k \in 1..Len(sends) : sends[k].count = 0 \/ LookupHit(sends[k].key)

DivRemForgedRows(i) ==
    LET f == Flags(DivRemOpcodes, i.opcode)
        signs == {s \in Bools \X Bools :
                    LET r == Candidate(i, f, ZeroWord, ZeroWord, 0, 0, s[1], s[2], 0)
                    IN  Hits(r, <<DivRemSendsSigns(r)>>)}
        divisions == {r \in {Candidate(i, f, q, rem, zero, r_zero, s[1], s[2], qs) :
                                q \in Word, rem \in Word, zero \in Bools, r_zero \in Bools,
                                s \in signs, qs \in Bools} :
                         DivRemEvalSigns(r) /\ EvalSpecial(r) /\ Hits(r, SendsCarries(r))}
    IN  UNION {{[r EXCEPT !.r_prime = x, !.r_inv = InverseWord(x), !.lt_marker = marker, !.lt_diff = d] :
                    x \in IF r.sign_xor = 1 THEN Negations[r.r] ELSE {r.r},
                    marker \in [Index -> Bools], d \in 0..2^LIMB_BITS} : r \in divisions}

DivRemCore == INSTANCE CoreChip WITH
    Inputs <- DivRemInputs, Execute <- DivRemExecute, Interpret <- DivRemInterpret,
    FillTraceRow <- DivRemFillTraceRow, Requests <- DivRemRequests, CudaFillTraceRow <-
    DivRemCudaFillTraceRow, CudaRequests <- DivRemCudaRequests, ForgedRows <-
    DivRemForgedRows, Eval <- DivRemEval, Sends <- DivRemSends, Context <-
    DivRemContext, ZeroRow <- DivRemZeroRow
=============================================================================
