------------------------------ MODULE FieldLimbs ------------------------------
(***************************************************************************)
(* What the instruction circuits compute with: the prime field F of order  *)
(* P, words of NUM_LIMBS limbs of LIMB_BITS bits each (little-endian), and *)
(* the tables behind the lookup buses.                                     *)
(*                                                                         *)
(* Expressions over F are integer expressions read modulo P.  A table      *)
(* offers exactly the keys its chip can count.                             *)
(***************************************************************************)
EXTENDS Integers, Sequences, FiniteSets

CONSTANTS P, NUM_LIMBS, LIMB_BITS,
          InverseTable, XorTable,  \* 1 / x in F, and x XOR y of limbs
          Samples                  \* the words, as numbers, that instructions read

F == 0..P - 1

\* f[0] + ... + f[n-1]
Sum(f, n) ==
    LET sum[k \in 0..n] == IF k = 0 THEN 0 ELSE sum[k - 1] + f[k - 1]
    IN  sum[n]

Bit(x, k) == (x \div 2^k) % 2

\* A bitwise operation on numbers of the given bits.
Bitwise(op(_, _), x, y, bits) ==
    Sum([k \in 0..bits - 1 |-> 2^k * op(Bit(x, k), Bit(y, k))], bits)
XorBit(a, b) == (a + b) % 2
OrBit(a, b) == a + b - a * b
AndBit(a, b) == a * b

FieldAssumption ==
    /\ P \in Nat /\ NUM_LIMBS \in Nat \ {0} /\ LIMB_BITS \in Nat \ {0}
    /\ \A d \in 2..P - 1 : P % d # 0
    /\ P > 2^(LIMB_BITS + 2)
    /\ Samples \subseteq 0..2^(NUM_LIMBS * LIMB_BITS) - 1
    /\ \A x \in 1..P - 1 : (x * InverseTable[x]) % P = 1
    /\ \A x \in 0..2^LIMB_BITS - 1 : \A y \in 0..2^LIMB_BITS - 1 :
           XorTable[x][y] = Bitwise(XorBit, x, y, LIMB_BITS)

\* 1 / x in F
Inv(x) == InverseTable[x % P]

\* assert_zero, assert_bool, assert_eq of the AIR builder.
IsZero(e) == e % P = 0
IsBool(e) == e % P \in {0, 1}
Eq(d, e) == (d - e) % P = 0

\* The values a column that is asserted to be boolean can take.
Bools == {e \in F : IsBool(e)}

Limb == 0..2^LIMB_BITS - 1
Index == 0..NUM_LIMBS - 1
Word == [Index -> Limb]
NUM_BITS == NUM_LIMBS * LIMB_BITS
ZeroWord == [i \in Index |-> 0]

\* 1 if b, as F::from_bool.
FromBool(b) == IF b THEN 1 ELSE 0

\* The opcode columns: one flag per opcode, in the order of the enumeration,
\* boolean as is their sum; expected_opcode is sum of flag * opcode.
FlagSum(opcodes, flag) == Sum([k \in 0..Len(opcodes) - 1 |-> flag[opcodes[k + 1]]], Len(opcodes))
EvalFlags(opcodes, flag) ==
    /\ \A k \in 1..Len(opcodes) : IsBool(flag[opcodes[k]])
    /\ IsBool(FlagSum(opcodes, flag))
ExpectedOpcode(opcodes, flag) ==
    LET n == Sum([k \in 0..Len(opcodes) - 1 |-> k * flag[opcodes[k + 1]]], Len(opcodes)) % P
    IN  IF n < Len(opcodes) THEN opcodes[n + 1] ELSE "none"

OpcodeSet(opcodes) == {opcodes[k] : k \in 1..Len(opcodes)}
Flags(opcodes, opcode) == [o \in OpcodeSet(opcodes) |-> FromBool(o = opcode)]
NoFlags(opcodes) == [o \in OpcodeSet(opcodes) |-> 0]
\* The flags of a valid row with the given opcode.
FlagChoices(opcodes, opcode) ==
    {f \in [OpcodeSet(opcodes) -> Bools] :
        /\ EvalFlags(opcodes, f)
        /\ FlagSum(opcodes, f) % P = 1
        /\ ExpectedOpcode(opcodes, f) = opcode}

\* compose and decompose: the number a word stands for.
Compose(x) == Sum([i \in Index |-> x[i] * 2^(LIMB_BITS * i)], NUM_LIMBS)
Decompose(n) == [i \in Index |-> (n \div 2^(LIMB_BITS * i)) % 2^LIMB_BITS]

\* The words that an instruction may find in its registers or in memory.
Operand == {Decompose(n) : n \in Samples}

\* The number as i32 (two's complement) and back (as u32, wrapping).
Signed(n) == IF n >= 2^(NUM_BITS - 1) THEN n - 2^NUM_BITS ELSE n
Wrap(n) == n % 2^NUM_BITS

\* Program counters: below 2^pcBits, in steps of DEFAULT_PC_STEP.  A branch
\* immediate is an element of F; preflight execution adds in F, the other
\* modes take it as a signed number (canonical_to_isize) and wrap as u32.
\* Targets outside of the program stop execution in every mode.
DEFAULT_PC_STEP == 4
Pcs(pcBits) == {pc \in 0..2^pcBits - 1 : pc % DEFAULT_PC_STEP = 0}
PcInField(pc, imm) == (pc + imm) % P
ImmSigned(imm) == IF P - imm < imm THEN imm - P ELSE imm
PcSigned(pc, imm) == (pc + ImmSigned(imm)) % (2 * P)
SamePc(x, y, pcBits) == x = y \/ (x >= 2^pcBits /\ y >= 2^pcBits)

Xor(x, y) == XorTable[x][y]

\* Keys of the buses: send_range, send_xor, range_check, range_tuple.
RangeKey(x, y) == <<"bitwise", x % P, y % P, 0, 0>>
XorKey(x, y, z) == <<"bitwise", x % P, y % P, z % P, 1>>
VarRangeKey(x, bits) == <<"var_range", x % P, bits % P>>
TupleKey(x, y) == <<"range_tuple", x % P, y % P>>

Send(count, key) == [count |-> count % P, key |-> key]

\* What a filler's request counts.
RequestXor(x, y) == XorKey(x, y, Xor(x, y))
RequestRange(x, y) == RangeKey(x, y)
AddCount(x, bits) == VarRangeKey(x, bits)

\* Rows that the tables have; the range checker goes up to rangeMaxBits, the
\* tuple checker has the given sizes.
InTable(key, rangeMaxBits, tupleSizes) ==
    CASE key[1] = "bitwise" ->
            /\ key[2] \in Limb /\ key[3] \in Limb
            /\ IF key[5] = 0 THEN key[4] = 0 ELSE key[4] = Xor(key[2], key[3])
      [] key[1] = "var_range" ->
            key[3] <= rangeMaxBits /\ key[2] < 2^key[3]
      [] key[1] = "range_tuple" ->
            key[2] < tupleSizes[1] /\ key[3] < tupleSizes[2]

-----------------------------------------------------------------------------
(* What every adapter has in common: the memory operations an instruction        *)
(* performs one timestamp after the other, the auxiliary columns that hold what  *)
(* was there before, and the messages by which a row claims the same operations  *)
(* on the memory bus.  Memory is a function from addresses <<address space,      *)
(* pointer>> to blocks [data, ts].                                               *)
RV32_IMM_AS == 0
RV32_REGISTER_AS == 1
RV32_MEMORY_AS == 2

\* tracing_read, tracing_write and increment_timestamp
Read(addr) == [op |-> "read", addr |-> addr, data |-> <<>>]
Write(addr, data) == [op |-> "write", addr |-> addr, data |-> data]
Skip == [op |-> "skip", addr |-> <<0, 0>>, data |-> <<>>]

\* The memory after each of the operations, the first at timestamp ts.
After(mem, ts, ops) ==
    LET after[k \in 0..Len(ops)] ==
            IF k = 0 THEN mem
            ELSE CASE ops[k].op = "skip" -> after[k - 1]
                   [] ops[k].op = "read" -> [after[k - 1] EXCEPT ![ops[k].addr].ts = ts + k - 1]
                   [] ops[k].op = "write" ->
                        [after[k - 1] EXCEPT ![ops[k].addr] = [data |-> ops[k].data, ts |-> ts + k - 1]]
    IN  after

\* An access as the memory bus sees it; a slot that is skipped is none.
NoAccess == [op |-> "none"]
Access(op, addr, data, ts, prevTs, prev) ==
    [op |-> op, addr |-> addr, data |-> data, ts |-> ts, prev_ts |-> prevTs, prev |-> prev]
Accesses(mem, ts, ops) ==
    LET after == After(mem, ts, ops)
    IN  [k \in 1..Len(ops) |->
            IF ops[k].op = "skip" THEN NoAccess
            ELSE LET old == after[k - 1][ops[k].addr]
                 IN  Access(ops[k].op, ops[k].addr, IF ops[k].op = "read" THEN old.data ELSE ops[k].data,
                            ts + k - 1, old.ts, old.data)]
Performed(accs) == SelectSeq(accs, LAMBDA x : x # NoAccess)
DataRead(accs) ==
    LET reads == SelectSeq(accs, LAMBDA x : x.op = "read")
    IN  [k \in 1..Len(reads) |-> reads[k].data]

\* The modes without timestamps perform the same operations.
Untimed(accs) == [k \in 1..Len(accs) |-> <<accs[k].op, accs[k].addr, accs[k].data>>]

\* Auxiliary columns of an access: the last timestamp, and for a write the
\* data it replaces; a filler that leaves them alone leaves the record's bytes.
NoAux == [prev_ts |-> 0, prev |-> ZeroWord]
AuxOf(x) == IF x = NoAccess THEN NoAux
            ELSE [prev_ts |-> x.prev_ts, prev |-> IF x.op = "write" THEN x.prev ELSE ZeroWord]
StaleAux == [prev_ts |-> P - 1, prev |-> [k \in Index |-> P - 1]]

\* prev_ts < ts: the lookups of AssertLtSubAir, see module OfflineMemory.
LtKey(prevTs, ts) == <<"less_than", prevTs, ts>>

\* memory_bridge.read and .write, with the count of the interaction.
BusRead(count, addr, data, ts, aux) ==
    [count |-> count % P, acc |-> Access("read", addr, data, ts, aux.prev_ts, data)]
BusWrite(count, addr, data, ts, aux) ==
    [count |-> count % P, acc |-> Access("write", addr, data, ts, aux.prev_ts, aux.prev)]

Claimed(msgs) ==
    LET on == SelectSeq(msgs, LAMBDA x : x.count # 0)
    IN  [k \in 1..Len(on) |-> on[k].acc]

\* The memory bus balances: every access takes up what the one before left.
BusAccepts(mem, msgs) ==
    LET accs == Claimed(msgs)
        after[k \in 0..Len(accs)] ==
            IF k = 0 THEN mem
            ELSE IF accs[k].addr \notin DOMAIN mem THEN after[k - 1]
            ELSE [after[k - 1] EXCEPT ![accs[k].addr] = [data |-> accs[k].data, ts |-> accs[k].ts]]
    IN  \A k \in 1..Len(accs) :
            /\ accs[k].addr \in DOMAIN mem
            /\ after[k - 1][accs[k].addr] = [data |-> accs[k].prev, ts |-> accs[k].prev_ts]

SendsLt(msgs) == [k \in 1..Len(msgs) |-> Send(msgs[k].count, LtKey(msgs[k].acc.prev_ts, msgs[k].acc.ts))]

\* A lookup of an adapter: an order of timestamps or a table.
BusHit(key, rangeMaxBits, tupleSizes) ==
    IF key[1] = "less_than" THEN key[2] < key[3] ELSE InTable(key, rangeMaxBits, tupleSizes)
=============================================================================
