---------------------------- MODULE AotExecution ----------------------------
(***************************************************************************)
(* Ahead-of-time compiled execution.  Every slot of the program is x86-64   *)
(* code; a guest register lives in a lane of an xmm register, or in a       *)
(* general register if the override map names one, and in memory only while *)
(* Rust code runs.  A machine m runs the code that a generator emits: the   *)
(* operators named Gen... are a generator of the source together with the   *)
(* execution of what it emits.                                              *)
(*                                                                          *)
(* ref is the state of the interpreter, given the same instruction in the   *)
(* same step: the two executions must stay equal.                           *)
(***************************************************************************)
EXTENDS Integers, Sequences, TLC

CONSTANTS
    LIMB_BITS,        \* RV32_CELL_BITS; a word has 4 limbs
    PC_STEP,          \* DEFAULT_PC_STEP
    LUI_SHIFT,        \* 12
    CHUNK_BITS, PAGE_BITS,
    Guest,            \* the guest registers of the instance
    Programs,         \* programs: sequences of instructions, Dead where there is none
    RegFiles,         \* register files an execution starts with
    InitMemory,       \* limbs of address space 2 at the start
    Limits,           \* num_insns of a pure execution; 0 stands for None
    MAX_INSTRET,      \* u64::MAX: more instructions than are executed
    MaxSteps,         \* bound: slots an execution is followed for
    CheckInsns,       \* segment_check_insns
    LeafClobbers      \* registers the small shims change

VARIABLES program, mode, limit,
          m,          \* the machine, with the VmExecState vm it works on
          ref,        \* VmExecState of the interpreter
          phase, result,
          steps       \* slots entered

vars == <<program, mode, limit, m, ref, phase, result, steps>>

WordBits == 4 * LIMB_BITS
Word == 0..2^WordBits - 1
Wrap(x) == x % 2^WordBits
Signed(x) == IF x >= 2^(WordBits - 1) THEN x - 2^WordBits ELSE x
Dead == [op |-> "DEAD", a |-> 0, b |-> 0, c |-> 0, e |-> 0, f |-> 0]
Junk == -1            \* what a register holds after foreign code used it

\* Pointers of the host are their address space times this.
Ptr(as) == as * 2^WordBits
PcPtr == Ptr(5)
StatePtr == Ptr(6)
HeightsPtr == Ptr(7)

-----------------------------------------------------------------------------
(* Word operations, of the interpreter and of the x86 instructions alike. *)

AndTable == [x \in Word |-> [y \in Word |->
    LET bit[k \in 0..WordBits] ==
            IF k = WordBits THEN 0
            ELSE bit[k + 1] + 2^k * ((x \div 2^k) % 2) * ((y \div 2^k) % 2)
    IN  bit[0]]]

Quotient(x, y) ==
    LET q == (IF x < 0 THEN -x ELSE x) \div (IF y < 0 THEN -y ELSE y)
    IN  IF (x < 0) = (y < 0) THEN q ELSE -q

Arith(op, x, y) ==
    CASE op = "ADD" -> Wrap(x + y)
      [] op = "SUB" -> Wrap(x - y)
      [] op = "AND" -> AndTable[x][y]
      [] op = "OR" -> x + y - AndTable[x][y]
      [] op = "XOR" -> x + y - 2 * AndTable[x][y]
      [] op = "SLL" -> Wrap(x * 2^(y % WordBits))
      [] op = "SRL" -> x \div 2^(y % WordBits)
      [] op = "SRA" -> Wrap(Signed(x) \div 2^(y % WordBits))
      [] op = "MUL" -> Wrap(x * y)

BaseAluOps == {"ADD", "SUB", "XOR", "OR", "AND"}
ShiftOps == {"SLL", "SRL", "SRA"}
LessThanOps == {"SLT", "SLTU"}
MulHOps == {"MULH", "MULHSU", "MULHU"}
DivRemOps == {"DIV", "DIVU", "REM", "REMU"}
BranchOps == {"BEQ", "BNE", "BLT", "BLTU", "BGE", "BGEU"}
Loads == {"LOADW", "LOADHU", "LOADBU", "LOADH", "LOADB"}
Stores == {"STOREW", "STOREH", "STOREB"}

\* MulH's and DivRem's compute of the interpreter.
MulH(op, x, y) ==
    Wrap((CASE op = "MULH" -> Signed(x) * Signed(y)
            [] op = "MULHSU" -> Signed(x) * y
            [] op = "MULHU" -> x * y) \div 2^WordBits)

DivRem(op, x, y) ==
    LET overflow == Signed(x) = -2^(WordBits - 1) /\ Signed(y) = -1
    IN  CASE op = "DIV" -> IF y = 0 THEN Wrap(-1) ELSE IF overflow THEN x
                           ELSE Wrap(Quotient(Signed(x), Signed(y)))
          [] op = "DIVU" -> IF y = 0 THEN Wrap(-1) ELSE x \div y
          [] op = "REM" -> IF y = 0 THEN x ELSE IF overflow THEN 0
                           ELSE Wrap(Signed(x) - Signed(y) * Quotient(Signed(x), Signed(y)))
          [] op = "REMU" -> IF y = 0 THEN x ELSE x % y

Taken(op, x, y) ==
    CASE op = "BEQ" -> x = y
      [] op = "BNE" -> x # y
      [] op = "BLT" -> Signed(x) < Signed(y)
      [] op = "BGE" -> Signed(x) >= Signed(y)
      [] op = "BLTU" -> x < y
      [] op = "BGEU" -> x >= y

\* The width of an access, in limbs, and its limbs as one number.
Width(op) == CASE op \in {"LOADW", "STOREW"} -> 4
               [] op \in {"LOADHU", "LOADH", "STOREH"} -> 2
               [] OTHER -> 1
ReadLimbs(mem, ptr, n) ==
    LET sum[k \in 0..n] == IF k = n THEN 0 ELSE mem[ptr + k] * 2^(k * LIMB_BITS) + sum[k + 1]
    IN  sum[0]
WriteLimbs(mem, ptr, n, x) ==
    [p \in DOMAIN mem |-> IF p \in ptr..ptr + n - 1
                          THEN (x \div 2^((p - ptr) * LIMB_BITS)) % 2^LIMB_BITS ELSE mem[p]]
SignExtend(x, n) ==
    IF x >= 2^(n * LIMB_BITS - 1) THEN Wrap(x - 2^(n * LIMB_BITS)) ELSE x

\* MemoryDimensions::label_to_index and the page of an access.
PageOf(as, ptr) ==
    ((ptr \div 2^CHUNK_BITS) + (as - 1) * 2^(WordBits - CHUNK_BITS)) \div 2^PAGE_BITS

\* The AIR whose rows an instruction adds to.
Chip(op) ==
    CASE op \in BaseAluOps -> "base_alu"
      [] op \in ShiftOps -> "shift"
      [] op \in LessThanOps -> "less_than"
      [] op = "MUL" -> "mul"
      [] op \in MulHOps -> "mulh"
      [] op \in DivRemOps -> "divrem"
      [] op \in {"BEQ", "BNE"} -> "branch_eq"
      [] op \in BranchOps \ {"BEQ", "BNE"} -> "branch_lt"
      [] op \in {"JAL", "LUI"} -> "jal_lui"
      [] op = "JALR" -> "jalr"
      [] op = "AUIPC" -> "auipc"
      [] op \in {"LOADB", "LOADH"} -> "load_sign_extend"
      [] op \in (Loads \ {"LOADB", "LOADH"}) \cup Stores -> "load_store"
      [] OTHER -> "other"

-----------------------------------------------------------------------------
(* The interpreter's handlers. *)

\* on_memory_operation of the metered context: MemoryCtx::
\* update_boundary_merkle_heights for one word.
Touch(s, as, ptr) ==
    LET page == PageOf(as, ptr)
    IN  IF mode = "pure" THEN s
        ELSE [s EXCEPT !.since = Append(@, page), !.pages = @ \cup {page},
                       !.count[as] = IF page \in s.pages THEN @ ELSE @ + 1]

\* execute_e12_impl of loads and stores: only the word around an aligned pointer
\* is accessed, and a pointer that is not aligned to the width is an error.
InterpretMemory(i, s) ==
    LET ptr == Wrap(s.regs[i.b] + i.c)
        n == Width(i.op)
        x == ReadLimbs(s.mem[i.e], ptr, n)
        t == Touch(s, i.e, ptr - (ptr % 4))
        done == [t EXCEPT !.pc = @ + PC_STEP]
    IN  IF ptr % n # 0 THEN [s EXCEPT !.exit = "fail"]
        ELSE IF i.f = 0 THEN done
        ELSE IF i.op \in Stores
        THEN [done EXCEPT !.mem[i.e] = WriteLimbs(@, ptr, n, s.regs[i.a])]
        ELSE [done EXCEPT !.regs[i.a] = IF i.op \in {"LOADB", "LOADH"} THEN SignExtend(x, n) ELSE x]

Handler(i, s) ==
    LET x == s.regs[i.b]
        y == IF i.e = 0 THEN Wrap(i.c) ELSE s.regs[i.c]
        Write(v) == [s EXCEPT !.regs[i.a] = v, !.pc = @ + PC_STEP]
    IN  CASE i.op \in BaseAluOps \cup ShiftOps \cup {"MUL"} -> Write(Arith(i.op, x, y))
          [] i.op = "SLT" -> Write(IF Signed(x) < Signed(y) THEN 1 ELSE 0)
          [] i.op = "SLTU" -> Write(IF x < y THEN 1 ELSE 0)
          [] i.op \in MulHOps -> Write(MulH(i.op, x, y))
          [] i.op \in DivRemOps -> Write(DivRem(i.op, x, y))
          [] i.op \in BranchOps ->
                 [s EXCEPT !.pc = @ + IF Taken(i.op, s.regs[i.a], s.regs[i.b]) THEN i.c ELSE PC_STEP]
          [] i.op = "JAL" ->
                 [s EXCEPT !.regs[i.a] = IF i.f = 1 THEN s.pc + PC_STEP ELSE @, !.pc = @ + i.c]
          [] i.op = "JALR" ->
                 LET to == Wrap(x + i.c)
                 IN  [s EXCEPT !.regs[i.a] = IF i.f = 1 THEN s.pc + PC_STEP ELSE @, !.pc = to - (to % 2)]
          [] i.op = "LUI" -> Write(IF i.f = 1 THEN Wrap(i.c * 2^LUI_SHIFT) ELSE s.regs[i.a])
          [] i.op = "AUIPC" -> Write(Wrap(s.pc + i.c * 2^LIMB_BITS))
          [] i.op \in Loads \cup Stores -> InterpretMemory(i, s)
          [] i.op = "TERMINATE" -> [s EXCEPT !.exit = IF i.c = 0 THEN "success" ELSE "failure",
                                             !.final = IF mode = "metered" THEN s.left ELSE @]
          [] i.op = "FAIL" -> [s EXCEPT !.exit = "fail"]
          [] i.op = "DEAD" -> [s EXCEPT !.exit = "unreachable"]

\* execute_e2_impl adds a row before it calls the handler's body.
Interpret(i, s) ==
    Handler(i, IF mode = "metered" /\ i.op \notin {"TERMINATE", "DEAD"}
               THEN [s EXCEPT !.heights[Chip(i.op)] = @ + 1] ELSE s)

-----------------------------------------------------------------------------
(* The machine: general registers g, low lanes and high halves of the xmm      *)
(* registers, zero flag, stack, and rip, the slot that executes next.          *)

Registers == {"rax", "rcx", "rdx", "rsi", "rdi", "r8", "r9", "r10", "r11",
              "rbx", "rbp", "r12", "r13", "r14", "r15"}
CallerSaved == {"rax", "rcx", "rdx", "rsi", "rdi", "r8", "r9", "r10", "r11"}
ExternalRegisters == <<"rbp", "rbx", "r12", "r13", "r14", "r15">>
InternalRegisters == <<"rcx", "rdx", "rsi", "rdi", "r8", "r9", "r10", "r11", "rax">>

\* RISCV_TO_X86_OVERRIDE_MAP.
OverrideMap == (10 :> "r10") @@ (11 :> "r11") @@ (12 :> "r9")
               @@ (13 :> "r8") @@ (14 :> "rbp") @@ (15 :> "r13")
Overridden(r) == r \in DOMAIN OverrideMap
OverriddenGuest == {r \in Guest : Overridden(r)}

Mov(k, r, v) == [k EXCEPT !.g[r] = v]

\* The registers saved by a sequence of pushes come back in reverse order.
Push(k, names) == [k EXCEPT !.stack = @ \o [j \in 1..Len(names) |-> k.g[names[j]]]]
Pop(k, names) ==
    LET n == Len(k.stack) - Len(names)
        at(r) == CHOOSE j \in 1..Len(names) : names[j] = r
    IN  [k EXCEPT !.stack = SubSeq(@, 1, n),
                  !.g = [r \in {names[j] : j \in 1..Len(names)} |-> k.stack[n + at(r)]] @@ @]

\* push_address_space_start and pop_address_space_start.
PushStarts(k) ==
    [k EXCEPT !.stack = @ \o <<k.hi[0], k.hi[1], k.hi[2], k.hi[3]>>, !.g["rdi"] = k.hi[3]]
PopStarts(k) ==
    LET n == Len(k.stack) - 4
    IN  [k EXCEPT !.stack = SubSeq(@, 1, n), !.hi = [j \in 0..3 |-> k.stack[n + j + 1]],
                  !.g["rdi"] = k.stack[n + 1]]

\* sync_gpr_to_xmm, then xmm_to_rv32_regs: the register file goes to memory,
\* wherever the high half of xmm0 points.
XmmToRv32Regs(k) ==
    LET lane == [r \in OverriddenGuest |-> k.g[OverrideMap[r]]] @@ k.lane
    IN  [k EXCEPT !.lane = lane,
                  !.vm.regs = IF k.hi[0] = Ptr(1) THEN lane ELSE [r \in Guest |-> Junk]]

\* rv32_regs_to_xmm, then sync_xmm_to_gpr.
Rv32RegsToXmm(k) ==
    LET guest(x) == CHOOSE r \in OverriddenGuest : OverrideMap[r] = x
        held == [x \in {OverrideMap[r] : r \in OverriddenGuest} |-> k.vm.regs[guest(x)]]
    IN  [k EXCEPT !.lane = k.vm.regs, !.g = held @@ ("rdi" :> Junk) @@ @]

\* A call of Rust code may change every register the caller has to save, and
\* needs a stack aligned to 16 bytes: an odd number of pushes since the entry.
Call(k, vm, ret) ==
    [k EXCEPT !.vm = vm, !.lane = [r \in Guest |-> Junk], !.hi = [j \in 0..3 |-> Junk],
              !.g = ("rax" :> ret) @@ [r \in CallerSaved |-> Junk] @@ @,
              !.aligned = @ /\ Len(k.stack) % 2 = 1]

\* The shims that store or compute one field are too small to spill anything.
CallLeaf(k, vm, ret) ==
    [k EXCEPT !.vm = vm, !.g = ("rax" :> ret) @@ [r \in LeafClobbers |-> Junk] @@ @]

\* set_pc_shim and set_instret_left_shim, with their arguments.
SetPc(k, pc) == CallLeaf(k, [k.vm EXCEPT !.pc = pc], 0)
SetInstretLeft(k) == CallLeaf(k, [k.vm EXCEPT !.left = k.g["r12"]], 0)

-----------------------------------------------------------------------------
(* Generators of the RV32IM instructions. *)

XmmToGpr(k, r, gpr, force) ==
    IF ~Overridden(r) THEN [reg |-> gpr, k |-> Mov(k, gpr, k.lane[r])]
    ELSE IF force THEN [reg |-> gpr, k |-> Mov(k, gpr, k.g[OverrideMap[r]])]
    ELSE [reg |-> OverrideMap[r], k |-> k]

GprToXmm(k, gpr, r) ==
    IF Overridden(r) THEN Mov(k, OverrideMap[r], k.g[gpr])
    ELSE [k EXCEPT !.lane[r] = k.g[gpr]]

\* gpr_to_rv32_register: the lane, even of an overridden register.
GprToRv32Register(k, gpr, r) == [k EXCEPT !.lane[r] = k.g[gpr]]

\* str_reg_a: where a result for guest register a is computed.
RegFor(a, default) == IF Overridden(a) THEN OverrideMap[a] ELSE default

\* An instruction that combines dst with a value, in dst, and its result is
\* stored in guest register a.
Combine(k, op, dst, v, a) == GprToXmm(Mov(k, dst, Arith(op, k.g[dst], v)), dst, a)

\* Mutant of GenBaseAlu: the case that writes its second operand is left out.
GenBaseAluNoAlias(k, i) ==
    LET ra == RegFor(i.a, "rdi")
    IN  IF i.e = 0
        THEN LET b == XmmToGpr(k, i.b, ra, i.a # i.b) IN Combine(b.k, i.op, b.reg, Wrap(i.c), i.a)
        ELSE LET b == XmmToGpr(k, i.b, ra, TRUE)
                 c == XmmToGpr(b.k, i.c, "rdx", FALSE)
             IN  Combine(c.k, i.op, b.reg, c.k.g[c.reg], i.a)

GenBaseAlu(k, i) ==
    LET ra == RegFor(i.a, "rdi")
    IN  IF i.e = 0
        THEN LET b == XmmToGpr(k, i.b, ra, i.a # i.b) IN Combine(b.k, i.op, b.reg, Wrap(i.c), i.a)
        ELSE IF i.a = i.c
        THEN LET c == XmmToGpr(k, i.c, "rdx", TRUE)
                 b == XmmToGpr(c.k, i.b, ra, TRUE)
             IN  Combine(b.k, i.op, b.reg, b.k.g[c.reg], i.a)
        ELSE LET b == XmmToGpr(k, i.b, ra, TRUE)
                 c == XmmToGpr(b.k, i.c, "rdx", FALSE)
             IN  Combine(c.k, i.op, b.reg, c.k.g[c.reg], i.a)

\* CMP, then SETL or SETB on the low byte and MOVZX.
GenLessThan(k, i) ==
    LET ra == RegFor(i.a, "rdi")
        b == XmmToGpr(k, i.b, "rsi", FALSE)
        c == IF i.e = 0 THEN [reg |-> "rdx", k |-> b.k] ELSE XmmToGpr(b.k, i.c, "rdx", FALSE)
        x == c.k.g[b.reg]
        y == IF i.e = 0 THEN Wrap(i.c) ELSE c.k.g[c.reg]
        less == IF i.op = "SLT" THEN Signed(x) < Signed(y) ELSE x < y
    IN  GprToXmm(Mov(c.k, ra, IF less THEN 1 ELSE 0), ra, i.a)

\* shl, shr, sar by a constant; shlx, shrx, sarx by a register.
GenShift(k, i) ==
    LET ra == RegFor(i.a, "rdi")
    IN  IF i.e = 0
        THEN LET b == XmmToGpr(k, i.b, ra, TRUE) IN Combine(b.k, i.op, b.reg, Wrap(i.c), i.a)
        ELSE LET b == XmmToGpr(k, i.b, "rsi", FALSE)
                 c == XmmToGpr(b.k, i.c, "rdx", FALSE)
             IN  GprToXmm(Mov(c.k, ra, Arith(i.op, c.k.g[b.reg], c.k.g[c.reg])), ra, i.a)

GenMul(k, i) ==
    LET ra == RegFor(i.a, "rdi")
        first == XmmToGpr(k, IF i.a = i.c THEN i.c ELSE i.b, ra, TRUE)
        second == XmmToGpr(first.k, IF i.a = i.c THEN i.b ELSE i.c, "rdx", FALSE)
    IN  Combine(second.k, "MUL", first.reg, second.k.g[second.reg], i.a)

\* imul and mul with one operand leave the product in edx:eax.
MulWide(k, product) ==
    Mov(Mov(k, "rax", Wrap(product)), "rdx", Wrap(product \div 2^WordBits))

GenMulH(k, i) ==
    LET b == XmmToGpr(k, i.b, "rax", TRUE)
        c == XmmToGpr(b.k, i.c, "rdi", FALSE)
        x == c.k.g["rax"]
        y == c.k.g[c.reg]
    IN  CASE i.op = "MULH" -> GprToXmm(MulWide(c.k, Signed(x) * Signed(y)), "rdx", i.a)
          [] i.op = "MULHU" -> GprToXmm(MulWide(c.k, x * y), "rdx", i.a)
          [] i.op = "MULHSU" ->
                 LET k1 == MulWide(Mov(c.k, "rsi", x), Signed(x) * Signed(y))
                     k2 == Mov(k1, "rax", k1.g["rdx"])
                     k3 == Mov(k2, "rdx", Arith("SRA", k2.g[c.reg], WordBits - 1))
                     k4 == Mov(k3, "rdx", Arith("AND", k3.g["rdx"], k3.g["rsi"]))
                     k5 == Mov(k4, "rax", Arith("ADD", k4.g["rax"], k4.g["rdx"]))
                 IN  GprToXmm(k5, "rax", i.a)

\* idiv and div: the quotient goes to eax, the remainder to edx.
Divide(k, q, r) == Mov(Mov(k, "rax", q), "rdx", r)

GenDivRem(k, i) ==
    LET b == XmmToGpr(k, i.b, "rax", TRUE)
        c == XmmToGpr(b.k, i.c, "rdi", FALSE)
        z == Mov(c.k, "rdx", 0)
        x == z.g["rax"]
        y == z.g[c.reg]
        q == Quotient(Signed(x), Signed(y))
        idiv == Divide(z, Wrap(q), Wrap(Signed(x) - Signed(y) * q))
        div == Divide(z, x \div y, x % y)
        overflow == x = 2^(WordBits - 1) /\ Signed(y) = -1
        toEdx(k1, v) == Mov(k1, "rdx", v)
        done == CASE i.op = "DIV" -> IF y = 0 THEN toEdx(z, Wrap(-1))
                                     ELSE IF overflow THEN toEdx(z, x) ELSE toEdx(idiv, idiv.g["rax"])
                  [] i.op = "DIVU" -> IF y = 0 THEN toEdx(z, Wrap(-1)) ELSE toEdx(div, div.g["rax"])
                  [] i.op = "REM" -> IF y = 0 THEN toEdx(z, x) ELSE IF overflow THEN toEdx(z, 0) ELSE idiv
                  [] i.op = "REMU" -> IF y = 0 THEN toEdx(z, x) ELSE div
    IN  GprToXmm(done, "rdx", i.a)

\* cmp, and a conditional jump over the jump to the target.
GenBranchEqual(k, i, pc) ==
    LET a == XmmToGpr(k, i.a, "rdi", FALSE)
        b == XmmToGpr(a.k, i.b, "rsi", FALSE)
        zf == b.k.g[a.reg] = b.k.g[b.reg]
        over == IF i.op = "BEQ" THEN ~zf ELSE zf
    IN  [b.k EXCEPT !.rip = IF over THEN @ ELSE pc + i.c]

GenBranchLessThan(k, i, pc) ==
    LET a == XmmToGpr(k, i.a, "rdi", FALSE)
        b == XmmToGpr(a.k, i.b, "rsi", FALSE)
        x == b.k.g[a.reg]
        y == b.k.g[b.reg]
        over == CASE i.op = "BGE" -> Signed(x) < Signed(y)
                  [] i.op = "BGEU" -> x < y
                  [] i.op = "BLT" -> Signed(x) >= Signed(y)
                  [] i.op = "BLTU" -> x >= y
    IN  [b.k EXCEPT !.rip = IF over THEN @ ELSE pc + i.c]

\* The target is computed before rd is written, in rsi, and looked up in
\* map_pc_base after it.
GenJalr(k, i, pc) ==
    LET b == XmmToGpr(k, i.b, "rsi", TRUE)
        to == Wrap(b.k.g["rsi"] + i.c)
        j == Mov(b.k, "rsi", to - (to % 2))
        w == IF i.f = 1 THEN GprToXmm(Mov(j, "rdi", pc + PC_STEP), "rdi", i.a) ELSE j
    IN  [w EXCEPT !.g["rdx"] = Junk, !.g["rdi"] = Junk, !.rip = w.g["rsi"]]

\* A constant for guest register a.
GenConstant(k, a, v) ==
    IF Overridden(a) THEN Mov(k, OverrideMap[a], v) ELSE GprToXmm(Mov(k, "rdi", v), "rdi", a)

GenJalLui(k, i, pc) ==
    LET rd == IF i.op = "JAL" THEN pc + PC_STEP ELSE Wrap(i.c * 2^LUI_SHIFT)
        w == IF i.f = 1 THEN GenConstant(k, i.a, rd) ELSE k
    IN  [w EXCEPT !.rip = IF i.op = "JAL" THEN pc + i.c ELSE @]

GenAuipc(k, i, pc) == GenConstant(k, i.a, Wrap(pc + i.c * 2^LIMB_BITS))

\* update_boundary_merkle_heights_asm: appends the page to the list since the
\* checkpoint, and counts it if the bit set does not have it yet.
GenTouch(k, as, ptr) ==
    LET page == PageOf(as, ptr)
    IN  [k EXCEPT !.vm.since = Append(@, page), !.vm.pages = @ \cup {page},
                  !.vm.count[as] = IF page \in k.vm.pages THEN @ ELSE @ + 1,
                  !.g["rdi"] = Junk, !.g["rdx"] = Junk, !.g["rax"] = Junk]

\* update_height_change_asm, through the pointer to the heights in r14.
GenHeightChange(k, op) ==
    IF k.g["r14"] = HeightsPtr THEN [k EXCEPT !.vm.heights[Chip(op)] = @ + 1]
    ELSE [k EXCEPT !.vm.heights = [c \in DOMAIN @ |-> Junk]]

\* The address of an access to address space 2, whose start is in r15: in rsi, once
\* the page has been noted.  ptr is the address inside the space.
GenAddress(k, i) ==
    LET b == XmmToGpr(k, i.b, "rsi", TRUE)
        ptr == Wrap(b.k.g["rsi"] + i.c)
        p == Mov(Mov(b.k, "rsi", ptr), "rdi", ptr)
        t == IF mode = "metered" THEN GenTouch(p, i.e, ptr) ELSE p
    IN  [ptr |-> ptr, k |-> Mov(t, "rsi", t.g["rsi"] + t.g["r15"])]

Loaded(k, ptr, n) == IF k.g["rsi"] = Ptr(2) + ptr THEN ReadLimbs(k.vm.mem[2], ptr, n) ELSE Junk

\* The generated code reads and writes at any address, aligned or not.
GenLoadStore(k, i) ==
    LET at == GenAddress(k, i)
        n == Width(i.op)
        ra == IF i.f = 1 THEN RegFor(i.a, "rsi") ELSE "rdx"
        loaded == Mov(at.k, ra, Loaded(at.k, at.ptr, n))
        src == XmmToGpr(at.k, i.a, "rdx", FALSE)
    IN  IF i.op \in Stores
        THEN [src.k EXCEPT !.vm.mem[2] = WriteLimbs(@, at.ptr, n, src.k.g[src.reg])]
        ELSE IF i.f = 0 THEN loaded ELSE GprToXmm(loaded, ra, i.a)

GenLoadSignExtend(k, i) ==
    LET at == GenAddress(k, i)
        n == Width(i.op)
        ra == IF i.f = 1 THEN RegFor(i.a, "rsi") ELSE "rdx"
        loaded == Mov(at.k, ra, SignExtend(Loaded(at.k, at.ptr, n), n))
    IN  IF i.f = 0 THEN loaded ELSE GprToRv32Register(loaded, ra, i.a)

\* is_aot_supported: instructions of the other extensions have no generator, and
\* loads and stores not for the public values.
AotSupported(i) ==
    /\ i.op \notin {"FAIL", "TERMINATE", "DEAD"}
    /\ i.op \in Loads \cup Stores => i.e # 3

\* generate_x86_asm and generate_x86_metered_asm: falls through to the next slot
\* unless it jumps.
Generate(k, i, pc) ==
    LET s == [k EXCEPT !.rip = pc + PC_STEP]
        h == IF mode = "metered" THEN GenHeightChange(s, i.op) ELSE s
    IN  CASE i.op \in BaseAluOps -> GenBaseAlu(h, i)
          [] i.op \in LessThanOps -> GenLessThan(h, i)
          [] i.op \in ShiftOps -> GenShift(h, i)
          [] i.op = "MUL" -> GenMul(h, i)
          [] i.op \in MulHOps -> GenMulH(h, i)
          [] i.op \in DivRemOps -> GenDivRem(h, i)
          [] i.op \in {"BEQ", "BNE"} -> GenBranchEqual(h, i, pc)
          [] i.op \in BranchOps -> GenBranchLessThan(h, i, pc)
          [] i.op = "JALR" -> GenJalr(h, i, pc)
          [] i.op \in {"JAL", "LUI"} -> GenJalLui(h, i, pc)
          [] i.op = "AUIPC" -> GenAuipc(h, i, pc)
          [] i.op \in {"LOADB", "LOADH"} -> GenLoadSignExtend(h, i)
          [] OTHER -> GenLoadStore(h, i)

-----------------------------------------------------------------------------
(* The frame around the generated code. *)

Instruction(pc) == program[(pc \div PC_STEP) + 1]
Here == Instruction(m.rip)

Save(k) == Push(PushStarts(XmmToRv32Regs(k)), InternalRegisters)
Restore(k) == Rv32RegsToXmm(PopStarts(Pop(k, InternalRegisters)))

\* sync_reg_to_instret_until_end and sync_instret_until_end_to_reg.
SyncOut(k) == IF mode = "metered" THEN [k EXCEPT !.vm.left = k.g["r12"]] ELSE k
SyncIn(k) == IF mode = "metered" THEN Mov(k, "r12", k.vm.left) ELSE k

Return(k) == Pop(k, ExternalRegisters)

InitVm ==
    [regs : RegFiles, mem : {[as \in {2, 3} |-> IF as = 2 THEN InitMemory ELSE [p \in Word |-> 0]]},
     pc : {0}, left : {0}, final : {-1}, exit : {"none"},
     heights : {[c \in {"base_alu", "shift", "less_than", "mul", "mulh", "divrem", "branch_eq",
                        "branch_lt", "jal_lui", "jalr", "auipc", "load_sign_extend", "load_store",
                        "other"} |-> 0]},
     since : {<<>>}, pages : {{}}, count : {[as \in {2, 3} |-> 0]}]

\* The caller's registers, told apart by their place in the list.
CallerG == [r \in Registers |-> IF \E j \in DOMAIN ExternalRegisters : ExternalRegisters[j] = r
                                THEN -(10 + CHOOSE j \in DOMAIN ExternalRegisters : ExternalRegisters[j] = r) ELSE Junk]

\* execute_from_state, execute_metered_from_state: a context for the state.
Init ==
    /\ program \in Programs
    /\ mode \in {"pure", "metered"}
    /\ limit \in IF mode = "pure" THEN Limits ELSE {0}
    /\ \E s \in InitVm :
           ref = [s EXCEPT !.left = IF mode = "metered" THEN CheckInsns
                                    ELSE IF limit = 0 THEN MAX_INSTRET ELSE limit]
    /\ m = [g |-> CallerG, lane |-> [r \in Guest |-> Junk], hi |-> [j \in 0..3 |-> Junk],
            zf |-> FALSE, stack |-> <<>>, rip |-> 0, aligned |-> TRUE, vm |-> ref]
    /\ phase = "enter"
    /\ result = "none"
    /\ steps = 0

\* asm_run: the state, the pointers of the address spaces and of pc, the
\* registers, then a jump through map_pc_base.
AsmRun ==
    /\ phase = "enter"
    /\ LET pushed == Push([m EXCEPT !.g["rdi"] = StatePtr,
                                    !.g["rsi"] = IF mode = "metered" THEN HeightsPtr ELSE Junk,
                                    !.g["rcx"] = m.vm.left], ExternalRegisters)
           args == [pushed EXCEPT !.g["rbx"] = pushed.g["rdi"], !.g["r12"] = pushed.g["rcx"],
                                  !.g["r14"] = pushed.g["rsi"]]
           saved == Push(args, InternalRegisters)
           ptrs == [CallLeaf(saved, saved.vm, PcPtr) EXCEPT
                        !.hi = (0 :> Ptr(1)) @@ (1 :> Ptr(3)) @@ (2 :> Ptr(4)) @@ (3 :> PcPtr),
                        !.g["r15"] = Ptr(2)]
           loaded == Rv32RegsToXmm(Pop(ptrs, InternalRegisters))
       IN  m' = [loaded EXCEPT !.rip = loaded.vm.pc]
    /\ phase' = "slot"
    /\ UNCHANGED <<program, mode, limit, ref, result, steps>>

\* Every slot starts with a test of r12.
CountInstruction ==
    /\ phase = "slot" /\ m.g["r12"] # 0 /\ steps < MaxSteps
    /\ LET k == IF Here = Dead THEN Mov(m, "rdx", m.rip) ELSE m
       IN  m' = Mov(k, "r12", k.g["r12"] - 1)
    /\ ref' = [ref EXCEPT !.left = @ - 1]
    /\ phase' = "execute"
    /\ steps' = steps + 1
    /\ UNCHANGED <<program, mode, limit, result>>

\* Pure execution suspends at zero.
Suspend ==
    /\ phase = "slot" /\ m.g["r12"] = 0 /\ mode = "pure"
    /\ m' = IF Here = Dead THEN Mov(m, "rdx", m.rip) ELSE m
    /\ phase' = "run_end"
    /\ UNCHANGED <<program, mode, limit, ref, result, steps>>

\* MeteredCtx::should_suspend at a check: the counter starts again, whether a
\* segment is cut depends on what Segmentation models.
Checked(s, suspend) ==
    [s EXCEPT !.left = IF suspend THEN CheckInsns ELSE CheckInsns - 1,
              !.since = <<>>, !.count = [as \in DOMAIN @ |-> 0]]

\* call and ret of a routine of the generated code: a return address.
Called(k) == [k EXCEPT !.stack = Append(@, Junk)]
Ret(k) == [k EXCEPT !.stack = SubSeq(@, 1, Len(@) - 1)]

\* asm_handle_segment_check: the answer travels in r14 past the pops.
HandleSegmentCheck(k, suspend) ==
    LET s == SyncOut(Save(Push(Called(k), <<"r14">>)))
        c == Call(s, Checked(s.vm, suspend), IF suspend THEN 1 ELSE 0)
        r == SyncIn(Restore(Mov(c, "r14", c.g["rax"])))
    IN  Ret(Pop(Mov(r, "rax", r.g["r14"]), <<"r14">>))

SegmentCheck ==
    /\ phase = "slot" /\ m.g["r12"] = 0 /\ mode = "metered" /\ steps < MaxSteps
    /\ \E suspend \in BOOLEAN :
           /\ m' = HandleSegmentCheck(IF Here = Dead THEN Mov(m, "rdx", m.rip) ELSE m, suspend)
           /\ ref' = Checked(ref, suspend)
           /\ phase' = IF m'.g["rax"] # 0 THEN "run_end" ELSE "execute"
    /\ steps' = steps + 1
    /\ UNCHANGED <<program, mode, limit, result>>

\* The generated code of an instruction.
Native ==
    /\ phase = "execute" /\ AotSupported(Here)
    /\ LET s == Interpret(Here, ref)
       IN  s.exit = "none" /\ ref' = s
    /\ m' = Generate(m, Here, m.rip)
    /\ phase' = "slot"
    /\ UNCHANGED <<program, mode, limit, result, steps>>

\* The ISA gives no meaning to an access that is not aligned: the interpreter
\* refuses it, the generated code performs it, and the model ends here.
Misaligned ==
    /\ phase = "execute" /\ AotSupported(Here)
    /\ Interpret(Here, ref).exit # "none"
    /\ phase' = "invalid"
    /\ UNCHANGED <<program, mode, limit, m, ref, result, steps>>

\* extern_handler: pc is set, the interpreter's handler runs on the state, and
\* the answer tells whether there is an exit code.
ExternHandler(k, pc) ==
    LET vm == Interpret(Instruction(pc), [k.vm EXCEPT !.pc = pc])
    IN  [Call(k, vm, 0) EXCEPT !.zf = vm.exit # "none"]

\* An instruction without generator.
Fallback(k, pc) ==
    LET c == ExternHandler(SyncOut(Save(k)), pc) IN SyncIn(Restore(c))

CallHandler ==
    /\ phase = "execute" /\ Here.op \notin {"TERMINATE", "DEAD"} /\ ~AotSupported(Here)
    /\ LET k == Fallback(m, m.rip)
       IN  IF k.zf THEN m' = k /\ phase' = "run_end"
           ELSE m' = [k EXCEPT !.rip = k.vm.pc] /\ phase' = "slot"
    /\ ref' = Interpret(Here, ref)
    /\ UNCHANGED <<program, mode, limit, result, steps>>

\* The slot of TERMINATE: the counter is stored before the handler, the registers
\* stay in memory, and the run returns.
TerminateSlot ==
    /\ phase = "execute" /\ Here.op = "TERMINATE"
    /\ LET s == Save(m)
           c == ExternHandler(IF mode = "pure" THEN SetInstretLeft(s) ELSE SyncOut(s), m.rip)
       IN  m' = Return(SetPc(PopStarts(Pop(c, InternalRegisters)), m.rip))
    /\ ref' = Interpret(Here, ref)
    /\ phase' = "returned"
    /\ UNCHANGED <<program, mode, limit, result, steps>>

\* asm_dead_pc_handler, which falls into its exit.
DeadSlot ==
    /\ phase = "execute" /\ Here = Dead
    /\ m' = LET c == ExternHandler(SyncOut(Save(m)), m.g["rdx"]) IN SyncIn(Restore(c))
    /\ ref' = Interpret(Here, ref)
    /\ phase' = "run_end"
    /\ UNCHANGED <<program, mode, limit, result, steps>>

\* Mutant of RunEnd: the registers stay where they are.
RunEndNoSave(k, pc) ==
    Return(SetPc(IF mode = "pure" THEN SetInstretLeft(k) ELSE k, pc))

\* asm_run_end_{pc}; asm_dead_pc_exit and asm_dead_pc_run_end have the pc in rdx.
RunEnd(k, pc) ==
    IF Instruction(pc) = Dead
    THEN LET s == SetPc(XmmToRv32Regs(k), k.g["rdx"])
         IN  Return(IF mode = "pure" THEN SetInstretLeft(s) ELSE s)
    ELSE LET s == IF mode = "pure" THEN SetInstretLeft(k) ELSE k
         IN  Return(SetPc(XmmToRv32Regs(s), pc))

EndRun ==
    /\ phase = "run_end"
    /\ m' = RunEnd(m, m.rip)
    /\ phase' = "returned"
    /\ UNCHANGED <<program, mode, limit, ref, result, steps>>

\* check_exit_code and check_termination.
Outcome(exit, bounded) ==
    CASE exit = "none" -> IF bounded THEN "ok" ELSE "did_not_terminate"
      [] exit = "success" -> "ok"
      [] OTHER -> exit

\* After asm_run: pure execution is over, metered execution goes on until there
\* is an exit code or an error.
AfterRun ==
    /\ phase = "returned"
    /\ IF mode = "metered" /\ m.vm.exit = "none"
       THEN phase' = "enter" /\ UNCHANGED result
       ELSE phase' = "done" /\ result' = Outcome(m.vm.exit, mode = "pure" /\ limit # 0)
    /\ UNCHANGED <<program, mode, limit, m, ref, steps>>

Finished ==
    /\ phase \in {"done", "invalid"} \/ (phase = "slot" /\ steps = MaxSteps)
    /\ UNCHANGED vars

Next ==
    \/ AsmRun \/ CountInstruction \/ Suspend \/ SegmentCheck \/ Native \/ Misaligned \/ CallHandler
    \/ TerminateSlot \/ DeadSlot \/ EndRun \/ AfterRun \/ Finished

Spec == Init /\ [][Next]_vars

-----------------------------------------------------------------------------
\* The guest's registers, seen through the override map.
GuestRegs(k) == [r \in Guest |-> IF Overridden(r) THEN k.g[OverrideMap[r]] ELSE k.lane[r]]

\* At every slot the machine is where the interpreter is: the same pc and
\* remaining instructions, the same guest registers in their lanes or overriding
\* registers, the same memory, and in metered execution the same rows and pages.
AotAgrees ==
    phase = "slot" =>
        /\ m.rip = ref.pc /\ m.g["r12"] = ref.left
        /\ GuestRegs(m) = ref.regs
        /\ [m.vm EXCEPT !.regs = ref.regs, !.pc = ref.pc, !.left = ref.left] = ref

\* A run returns with the stack and the caller's registers as they were, and
\* leaves in the VM state what the interpreter leaves in its own, whatever ended
\* it: TERMINATE, an error of a handler, a slot without instruction, the end of
\* the instructions asked for or of a segment; and Rust code that may spill
\* registers is only called on an aligned stack.
ReturnsAgree ==
    /\ m.aligned
    /\ phase \in {"returned", "done"} =>
         /\ m.stack = <<>>
         /\ \A j \in DOMAIN ExternalRegisters : m.g[ExternalRegisters[j]] = CallerG[ExternalRegisters[j]]
         /\ m.vm = ref
         /\ phase = "done" => result = Outcome(ref.exit, mode = "pure" /\ limit # 0)

-----------------------------------------------------------------------------
(* The instance: words of four bits, eight slots.  Each instruction alone, on *)
(* register files that make it meet zero, equal operands and the signed       *)
(* limits, and programs of several slots: a loop, calls of handlers between   *)
(* generated code, slots without instruction, exits of every kind.            *)

I(op, a, b, c, e, f) == [op |-> op, a |-> a, b |-> b, c |-> c, e |-> e, f |-> f]
Terminate(c) == I("TERMINATE", 5, 5, c, 0, 0)
Fail == I("FAIL", 5, 5, 0, 0, 0)

\* x5 has no overriding register; x10 and x14 have one the callee and one the
\* caller saves.
R == {5, 10, 14}
RRR == R \X R \X R

Singles ==
    {I(op, r[1], r[2], r[3], 1, 1) : op \in BaseAluOps \cup LessThanOps \cup ShiftOps \cup {"MUL"}
                                            \cup MulHOps \cup DivRemOps, r \in RRR}
    \cup {I(op, r[1], r[2], c, 0, 1) : op \in BaseAluOps \cup LessThanOps \cup ShiftOps,
                                       r \in R \X R, c \in {3, -1}}
    \cup {I(op, r[1], r[2], c, 1, 1) : op \in BranchOps, r \in R \X R, c \in {4, 6}}
    \cup {I("JALR", r[1], r[2], c, 0, f) : r \in R \X R, c \in {1, -2}, f \in {0, 1}}
    \cup {I(op, a, 5, c, 0, f) : op \in {"JAL", "LUI"}, a \in R, c \in {4}, f \in {0, 1}}
    \cup {I("AUIPC", a, 5, 7, 0, 1) : a \in R}
    \cup {I(op, r[1], r[2], c, 2, f) : op \in Loads, r \in R \X R, c \in {0, -4, 2}, f \in {0, 1}}
    \cup {I(op, r[1], r[2], c, e, 1) : op \in Stores, r \in R \X R, c \in {0, -4, 1}, e \in {2, 3}}

\* An instruction at pc 4, so that branches can go both ways.
Alone(i) == <<I("JAL", 5, 5, 4, 0, 0), Terminate(1), i, Terminate(0), Terminate(0), Dead, Dead, Terminate(0)>>

Loop == <<I("ADD", 10, 10, 3, 0, 1), I("STOREW", 10, 5, 0, 2, 1), I("STOREW", 14, 5, 0, 3, 1),
          I("LOADW", 14, 5, 0, 2, 1), I("SUB", 5, 5, -4, 0, 1), I("BLTU", 5, 10, -10, 1, 1),
          I("JALR", 14, 14, 0, 0, 1), Terminate(0)>>
Calls == <<I("STOREB", 10, 5, 3, 3, 1), I("ADD", 5, 10, 14, 1, 1), I("STOREH", 5, 14, 0, 3, 1),
           I("BEQ", 10, 14, 4, 1, 1), Fail, I("LOADB", 10, 14, 0, 2, 1), Dead, Terminate(0)>>

MCPrograms == {Alone(i) : i \in Singles} \cup {Loop, Calls}
MCRegFiles == {(5 :> x[1]) @@ (10 :> x[2]) @@ (14 :> x[3]) :
                 x \in {<<8, 15, 0>>, <<15, 8, 4>>, <<0, 12, 8>>, <<4, 4, 4>>, <<12, 7, 15>>}}
MCInitMemory == [p \in Word |-> IF p \in {0, 3, 4, 6, 9, 13, 14, 15} THEN 1 ELSE 0]
=============================================================================
