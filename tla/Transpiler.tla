------------------------------- MODULE Transpiler -------------------------------
(* From an ELF file to a program: the loader places the words of the executable  *)
(* segments, and every transpiler extension is asked about every word; exactly   *)
(* one of them must answer.                                                      *)
(*                                                                               *)
(* A RISC-V word is its fields [op, f3, f7, rd, rs1, rs2], from which the         *)
(* immediates of the other formats are put together.  An answer is a sequence:   *)
(* empty (None), or one instruction; a panic is an instruction of its own.       *)
EXTENDS Integers, Sequences, FiniteSets, SequencesExt, FiniteSetsExt, TLC

CONSTANTS Words,        \* the words to transpile
          Owned,          \* the opcodes for which each extension has an executor
          OwnedPhantoms,  \* and the phantom discriminants
          Circuits,       \* numbers of moduli, fields and curves configured
          Files,          \* the load segments of an ELF file, in the order of its table
          Entries, FileLen, MaxMem, MAX_ALLOWED_PC

VARIABLES word, emitted,      \* a word and what became of it
          file, loader, loaded  \* the segments, what was loaded, and how far

transpilerVars == <<word, emitted>>
elfVars == <<file, loader, loaded>>

\* Order of the BabyBear field.
P == 2013265921
ToField(x) == x % P
Flag(b) == IF b THEN 1 ELSE 0

\* Immediates of the formats, sign extended.
Signed(x, bits) == IF x >= 2^(bits - 1) THEN x - 2^bits ELSE x
ImmI(w) == Signed(w.f7 * 32 + w.rs2, 12)
ImmS(w) == Signed(w.f7 * 32 + w.rd, 12)
ImmB(w) == Signed((w.f7 \div 64) * 4096 + (w.rd % 2) * 2048 + (w.f7 % 64) * 32 + (w.rd \div 2) * 2, 13)
ImmJ(w) == Signed((w.f7 \div 64) * 2^20 + (w.rs1 * 8 + w.f3) * 2^12 + (w.rs2 % 2) * 2^11
                   + (w.f7 % 64) * 32 + (w.rs2 \div 2) * 2, 21)
ImmU(w) == w.f7 * 2^13 + w.rs2 * 2^8 + w.rs1 * 8 + w.f3  \* in units of 2^12

Insn(opcode, a, b, c, d, e, f, g) ==
    [opcode |-> opcode, a |-> a, b |-> b, c |-> c, d |-> d, e |-> e, f |-> f, g |-> g]
TERMINATE == 0
PHANTOM == 1
Panic == Insn(-1, 0, 0, 0, 0, 0, 0, 0)
nop == Insn(PHANTOM, 0, 0, 0, 0, 0, 0, 0)
unimp == Insn(TERMINATE, 0, 0, 2, 0, 0, 0, 0)
phantom(discriminant, a, b, upper) == Insn(PHANTOM, a, b, discriminant + 65536 * upper, 0, 0, 0, 0)

-----------------------------------------------------------------------------
(* The instruction formats; a register is named by its first byte. *)
from_r_type(opcode, e, w, allowRdZero) ==
    IF ~allowRdZero /\ w.rd = 0 THEN nop ELSE Insn(opcode, 4 * w.rd, 4 * w.rs1, 4 * w.rs2, 1, e, 0, 0)
from_i_type(opcode, w) ==
    IF w.rd = 0 THEN nop ELSE Insn(opcode, 4 * w.rd, 4 * w.rs1, ImmI(w) % 2^24, 1, 0, 0, 0)
from_load(opcode, w) ==
    Insn(opcode, 4 * w.rd, 4 * w.rs1, ImmI(w) % 2^16, 1, 2, Flag(w.rd # 0), Flag(ImmI(w) < 0))
from_i_type_shamt(opcode, w) ==
    IF w.rd = 0 THEN nop ELSE Insn(opcode, 4 * w.rd, 4 * w.rs1, w.rs2, 1, 0, 0, 0)
from_s_type(opcode, w) == Insn(opcode, 4 * w.rs2, 4 * w.rs1, ImmS(w) % 2^16, 1, 2, 1, Flag(ImmS(w) < 0))
from_b_type(opcode, w) == Insn(opcode, 4 * w.rs1, 4 * w.rs2, ToField(ImmB(w)), 1, 1, 0, 0)
from_j_type(opcode, w) == Insn(opcode, 4 * w.rd, 0, ToField(ImmJ(w)), 1, 0, Flag(w.rd # 0), 0)
from_u_type(opcode, w) == IF w.rd = 0 THEN nop ELSE Insn(opcode, 4 * w.rd, 0, ImmU(w), 1, 0, 0, 0)

(* InstructionTranspiler, called by the decoder of the base instruction set. *)
At(table, w) == table[w.f3 + 1]
ProcessAlu(w) == from_r_type(At(<<512, 517, 520, 521, 514, 518, 515, 516>>, w), 1, w, FALSE)
ProcessSubSra(w) == from_r_type(IF w.f3 = 0 THEN 513 ELSE 519, 1, w, FALSE)
ProcessAluImm(w) == from_i_type(At(<<512, 0, 520, 521, 514, 0, 515, 516>>, w), w)
ProcessShiftImm(w) == from_i_type_shamt(IF w.f3 = 1 THEN 517 ELSE IF w.f7 = 0 THEN 518 ELSE 519, w)
ProcessLoad(w) == from_load(At(<<534, 535, 528, 0, 529, 530>>, w), w)
ProcessStore(w) == from_s_type(At(<<533, 532, 531>>, w), w)
ProcessBranch(w) == from_b_type(At(<<544, 545, 0, 0, 549, 551, 550, 552>>, w), w)
ProcessJal(w) == from_j_type(560, w)
ProcessJalr(w) == Insn(565, 4 * w.rd, 4 * w.rs1, ImmI(w) % 2^16, 1, 0, Flag(w.rd # 0), Flag(ImmI(w) < 0))
ProcessLui(w) == IF w.rd = 0 THEN nop ELSE [from_u_type(561, w) EXCEPT !.f = 1]
ProcessAuipc(w) == IF w.rd = 0 THEN nop ELSE Insn(576, 4 * w.rd, 0, ImmU(w) * 16, 1, 0, 0, 0)
ProcessMul(w) == from_r_type(At(<<592, 593, 594, 595, 596, 597, 598, 599>>, w), 0, w, FALSE)

\* rrs_lib::process_instruction: which of them a word calls.
ProcessInstruction(w) ==
    CASE w.op = 51 /\ w.f7 = 0 -> <<ProcessAlu(w)>>
      [] w.op = 51 /\ w.f7 = 32 /\ w.f3 \in {0, 5} -> <<ProcessSubSra(w)>>
      [] w.op = 51 /\ w.f7 = 1 -> <<ProcessMul(w)>>
      [] w.op = 19 /\ w.f3 \notin {1, 5} -> <<ProcessAluImm(w)>>
      [] w.op = 19 /\ w.f3 \in {1, 5} /\ (w.f7 = 0 \/ (w.f7 = 32 /\ w.f3 = 5)) -> <<ProcessShiftImm(w)>>
      [] w.op = 3 /\ w.f3 \in {0, 1, 2, 4, 5} -> <<ProcessLoad(w)>>
      [] w.op = 35 /\ w.f3 \in 0..2 -> <<ProcessStore(w)>>
      [] w.op = 99 /\ w.f3 \in {0, 1} \cup 4..7 -> <<ProcessBranch(w)>>
      [] w.op = 111 -> <<ProcessJal(w)>>
      [] w.op = 103 /\ w.f3 = 0 -> <<ProcessJalr(w)>>
      [] w.op = 55 -> <<ProcessLui(w)>>
      [] w.op = 23 -> <<ProcessAuipc(w)>>
      [] w.op = 15 /\ w.f3 = 0 -> <<nop>>
      [] OTHER -> <<>>

-----------------------------------------------------------------------------
(* The extensions. *)
ALU == 51
CSR == 115
CUSTOM0 == 11
CUSTOM1 == 43

Rv32ITranspiler(w) ==
    CASE w.op = CSR -> IF w.f3 = 1 /\ w.rs1 = 0 /\ w.rd = 0 THEN <<nop>> ELSE <<unimp>>
      [] w.op = CUSTOM0 /\ w.f3 = 0 ->
            IF ImmI(w) \in 0..255 THEN <<Insn(TERMINATE, 0, 0, ImmI(w), 0, 0, 0, 0)>> ELSE <<Panic>>
      [] w.op = CUSTOM0 /\ w.f3 = 3 ->
            CASE ImmI(w) = 0 -> <<phantom(32, 0, 0, 0)>>
              [] ImmI(w) = 1 -> <<phantom(33, 4 * w.rd, 4 * w.rs1, 0)>>
              [] ImmI(w) = 2 -> <<phantom(34, 4 * w.rd, 0, 0)>>
              [] OTHER -> <<>>
      [] w.op = ALU /\ w.f7 = 1 -> <<>>
      [] OTHER -> ProcessInstruction(w)
Rv32MTranspiler(w) == IF w.op = ALU /\ w.f7 = 1 THEN ProcessInstruction(w) ELSE <<>>
Rv32IoTranspiler(w) ==
    CASE w.op = CUSTOM0 /\ w.f3 = 1 ->
            CASE ImmI(w) % 65536 = 0 -> <<Insn(608, 0, 4 * w.rd, 0, 1, 2, 0, 0)>>
              [] ImmI(w) % 65536 = 1 -> <<Insn(609, 4 * w.rs1, 4 * w.rd, 0, 1, 2, 0, 0)>>
              [] OTHER -> <<>>
      [] w.op = CUSTOM0 /\ w.f3 = 2 ->
            <<Insn(531, 4 * w.rs1, 4 * w.rd, ImmI(w) % 65536, 1, 3, 1, Flag(ImmI(w) < 0))>>
      [] OTHER -> <<>>
KeccakTranspiler(w) ==
    IF w.op = CUSTOM0 /\ w.f3 = 4 /\ w.f7 \in {0, 1}
    THEN <<from_r_type(IF w.f7 = 1 THEN 785 ELSE 784, 2, w, TRUE)>> ELSE <<>>
Sha2Transpiler(w) ==
    IF w.op = CUSTOM0 /\ w.f3 = 4 /\ w.f7 \in {2, 3}
    THEN <<from_r_type(IF w.f7 = 2 THEN 800 ELSE 801, 2, w, TRUE)>> ELSE <<>>
Int256Transpiler(w) ==
    CASE w.op = CUSTOM0 /\ w.f3 = 5 ->
            IF w.f7 > 10 THEN <<Panic>>
            ELSE <<from_r_type(<<1024, 1025, 1026, 1027, 1028, 1029, 1030, 1031, 1032, 1033, 1104>>[w.f7 + 1],
                               2, w, TRUE)>>
      [] w.op = CUSTOM0 /\ w.f3 = 6 -> <<Insn(1056, 4 * w.rs1, 4 * w.rs2, ToField(ImmB(w)), 1, 2, 0, 0)>>
      [] OTHER -> <<>>

\* Two source registers of which the second selects the chip to set up.
Setup(opcode, c, w) == Insn(opcode, 4 * w.rd, 4 * w.rs1, c, 1, 2, 0, 0)
ModularSetup(w, shift) ==
    IF w.rs2 > 2 \/ (w.rs2 = 2 /\ w.rd = 0) THEN <<Panic>> ELSE <<Setup(<<1282, 1285, 1287>>[w.rs2 + 1] + shift, 0, w)>>
ModularHint(w, idx) ==
    IF w.rd # 0 \/ w.rs2 # 0 \/ (w.f7 % 8 = 6 /\ w.rs1 # 0) THEN <<Panic>>
    ELSE <<phantom(IF w.f7 % 8 = 6 THEN 80 ELSE 81, 4 * w.rs1, 0, idx)>>
ModularTranspiler(w) ==
    IF w.op # CUSTOM1 \/ w.f3 # 0 THEN <<>>
    ELSE LET kind == w.f7 % 8
             idx == w.f7 \div 8
         IN CASE kind = 5 -> ModularSetup(w, idx * 8)
              [] kind \in {6, 7} -> ModularHint(w, idx)
              [] OTHER -> <<from_r_type(<<1280, 1281, 1283, 1284, 1286>>[kind + 1] + idx * 8, 2, w, kind # 4)>>
\* Mutant of Fp2Transpiler: the index is scaled by the number of kinds a word can name.
Fp2TranspilerWide(w) ==
    IF w.op # CUSTOM1 \/ w.f3 # 2 \/ w.f7 % 8 > 3 THEN <<>>
    ELSE <<from_r_type(<<1808, 1809, 1811, 1812>>[(w.f7 % 8) + 1] + (w.f7 \div 8) * 8, 2, w, TRUE)>>
Fp2Transpiler(w) ==
    IF w.op # CUSTOM1 \/ w.f3 # 2 THEN <<>>
    ELSE LET kind == w.f7 % 8
             shift == (w.f7 \div 8) * 6
         IN CASE kind = 4 -> IF w.rs2 > 1 THEN <<Panic>> ELSE <<Setup(<<1810, 1813>>[w.rs2 + 1] + shift, 0, w)>>
              [] kind < 4 -> <<from_r_type(<<1808, 1809, 1811, 1812>>[kind + 1] + shift, 2, w, TRUE)>>
              [] OTHER -> <<Panic>>
EccTranspiler(w) ==
    IF w.op # CUSTOM1 \/ w.f3 # 1 THEN <<>>
    ELSE LET kind == w.f7 % 8
             shift == (w.f7 \div 8) * 4
         IN CASE kind = 2 -> <<Setup((IF w.rs2 = 0 THEN 1539 ELSE 1537) + shift, 4 * w.rs2, w)>>
              [] kind = 0 \/ (kind = 1 /\ w.rs2 = 0) ->
                    <<from_r_type((IF kind = 0 THEN 1536 ELSE 1538) + shift, 2, w, TRUE)>>
              [] OTHER -> <<Panic>>
PairingTranspiler(w) ==
    IF w.op # CUSTOM1 \/ w.f3 # 3 \/ w.f7 % 16 # 0 THEN <<>>
    ELSE IF w.rd # 0 THEN <<Panic>> ELSE <<phantom(48, 4 * w.rs1, 4 * w.rs2, w.f7 \div 16)>>
DeferralTranspiler(w) ==
    LET imm12 == w.f7 * 32 + w.rs2
    IN IF w.op # CUSTOM1 \/ w.f3 # 7 \/ imm12 \div 4 >= 512 \/ imm12 % 4 > 1 THEN <<>>
       ELSE <<Insn(2048 + (imm12 % 4), 4 * w.rd, 4 * w.rs1, imm12 \div 4, 1, 2, 0, 0)>>

\* The answers of all extensions, in the order in which the SDK adds them.
Answers(w) ==
    [rv32i |-> Rv32ITranspiler(w), io |-> Rv32IoTranspiler(w), keccak |-> KeccakTranspiler(w),
     sha2 |-> Sha2Transpiler(w), rv32m |-> Rv32MTranspiler(w), bigint |-> Int256Transpiler(w),
     modular |-> ModularTranspiler(w), fp2 |-> Fp2Transpiler(w), pairing |-> PairingTranspiler(w),
     ecc |-> EccTranspiler(w), deferral |-> DeferralTranspiler(w)]

Transpile ==
    /\ emitted = <<>>
    /\ LET answers == Answers(word)
           some == {e \in DOMAIN answers : answers[e] # <<>>}
       IN emitted' = CASE \E e \in some : answers[e] = <<Panic>> -> [outcome |-> "panic"]
                       [] some = {} -> [outcome |-> "ParseError"]
                       [] Cardinality(some) > 1 -> [outcome |-> "AmbiguousNextInstruction"]
                       [] OTHER -> LET e == CHOOSE x \in some : TRUE
                                   IN [outcome |-> "ok", ext |-> e, insn |-> answers[e][1]]
    /\ UNCHANGED word

-----------------------------------------------------------------------------
(* Loading the ELF file, a segment at a time.  A byte of the file is its offset, *)
(* a word of memory four bytes, of which the ones past the file's data are zero. *)
WORD_SIZE == 4
EmptyLoader == [instructions |-> <<>>, image |-> <<>>, base |-> -1, end |-> -1, next |-> 1, error |-> "none"]
ByAddress(segments) == SortSeq(segments, LAMBDA x, y : x.vaddr < y.vaddr)
WordAt(seg, i) ==
    [j \in 0..WORD_SIZE - 1 |-> IF i + j < seg.filesz THEN seg.offset + i + j ELSE -1]
Offsets(n) == {i \in 0..n : i % WORD_SIZE = 0 /\ i < n}

\* A word of the segment is outside memory, past the last pc or not in the file.
WordsError(seg) ==
    CASE \E i \in Offsets(seg.memsz) : seg.vaddr + i >= MaxMem -> "Address"
      [] \E i \in Offsets(seg.memsz) : seg.exec /\ seg.vaddr + i > MAX_ALLOWED_PC -> "Pc"
      [] \E i \in Offsets(seg.memsz) : i < seg.filesz /\ \E b \in DOMAIN WordAt(seg, i) : WordAt(seg, i)[b] >= FileLen -> "Offset"
      [] OTHER -> "none"

\* Mutant of SegmentError: executable segments may have gaps between them.
SegmentErrorGaps(seg, l) ==
    CASE seg.filesz >= MaxMem -> "FileSize"
      [] seg.memsz >= MaxMem -> "MemSize"
      [] seg.vaddr % WORD_SIZE # 0 -> "Unaligned"
      [] OTHER -> WordsError(seg)

\* The header checks, then the words up to the first that is refused.
SegmentError(seg, l) ==
    CASE seg.filesz >= MaxMem -> "FileSize"
      [] seg.memsz >= MaxMem -> "MemSize"
      [] seg.vaddr % WORD_SIZE # 0 -> "Unaligned"
      [] seg.exec /\ l.end # -1 /\ seg.vaddr # l.end -> "NonContiguous"
      [] OTHER -> WordsError(seg)
LoadWords(seg, l) ==
    LET all == Offsets(seg.memsz)
        filled == {i \in all : i < seg.filesz}
    IN [l EXCEPT !.image = [a \in {seg.vaddr + i : i \in all} |-> WordAt(seg, a - seg.vaddr)] @@ @,
                 !.instructions = IF seg.exec THEN @ \o [k \in 1..Cardinality(filled) |-> WordAt(seg, WORD_SIZE * (k - 1))]
                                              ELSE @,
                 !.base = IF seg.exec /\ (@ = -1 \/ @ > seg.vaddr) THEN seg.vaddr ELSE @,
                 !.end = IF seg.exec THEN seg.vaddr + seg.memsz ELSE @]

LoadEntry ==
    /\ loaded = "header"
    /\ \E entry \in Entries :
         IF entry >= MaxMem \/ entry % WORD_SIZE # 0
         THEN loader' = [EmptyLoader EXCEPT !.error = "Entry"] /\ loaded' = "error"
         ELSE loader' = EmptyLoader /\ loaded' = "segments"
    /\ file' = ByAddress(file)
LoadSegment ==
    /\ loaded = "segments" /\ loader.next <= Len(file)
    /\ LET seg == file[loader.next]
           error == SegmentError(seg, loader)
       IN IF error # "none"
          THEN loader' = [loader EXCEPT !.error = error] /\ loaded' = "error"
          ELSE loader' = [LoadWords(seg, loader) EXCEPT !.next = @ + 1] /\ UNCHANGED loaded
    /\ UNCHANGED file
LoadEnd == loaded = "segments" /\ loader.next > Len(file) /\ loaded' = "done" /\ UNCHANGED <<file, loader>>

TranspilerStart == word \in Words /\ emitted = <<>>
ElfStart == file \in Files /\ loader = EmptyLoader /\ loaded = "header"
ElfNext == LoadEntry \/ LoadSegment \/ LoadEnd

-----------------------------------------------------------------------------
\* No word is claimed by two extensions, with all of them configured: they share
\* two major opcodes and, some of them, the function code.
OneExtensionClaims == emitted # <<>> => emitted.outcome # "AmbiguousNextInstruction"

\* Indices a word may name of those that are configured.
Configured(e, w) == (e \in DOMAIN Circuits) => (w.f7 \div 8 < Circuits[e])
Stride == [modular |-> <<1280, 8>>, fp2 |-> <<1808, 6>>, ecc |-> <<1536, 4>>]
\* What an extension emits has an executor, of that extension and of the modulus,
\* field or curve the word names (reveal is a store, skipped instructions are the
\* system's nop), and its address spaces are those the chips take.
EmittedIsExecutable ==
    emitted # <<>> /\ emitted.outcome = "ok" /\ Configured(emitted.ext, word) =>
        LET i == emitted.insn
            e == emitted.ext
        IN \/ i = nop \/ i.opcode = TERMINATE
           \/ i.opcode = PHANTOM /\ i.c % 65536 \in OwnedPhantoms[e]
           \/ e = "io" /\ i.opcode = 531 /\ i.e = 3 /\ i.opcode \in Owned["rv32i"]
           \/ /\ i.opcode \in Owned[e]
              /\ e \in DOMAIN Stride => (i.opcode - Stride[e][1]) \div Stride[e][2] = word.f7 \div 8

\* The executors that write their first operand whatever the flag, and with flag f.
WritesAlways == 512..521 \cup {576} \cup 592..599 \cup {1286 + 8 * k : k \in 0..15} \cup {1287 + 8 * k : k \in 0..15}
WritesFlagged == 528..530 \cup {534, 535, 560, 561, 565}
\* No emitted instruction writes x0, which the executors do not treat specially.
X0NeverWritten ==
    emitted # <<>> /\ emitted.outcome = "ok" =>
        LET i == emitted.insn
        IN i.opcode \in WritesAlways \/ (i.opcode \in WritesFlagged /\ i.f = 1) => i.a # 0

\* The executors' reading of an operand: three bytes extended by the third, two
\* bytes with a sign flag, an element of the field.
Read24(c) == (c % 65536) - (IF c \div 65536 = 255 THEN 65536 ELSE 0)
Read16(i) == i.c - 65536 * i.g
ReadField(c) == IF c > P \div 2 THEN c - P ELSE c
\* The executor finds the immediate that the RISC-V word encodes, with its sign.
ImmediatesSurvive ==
    emitted # <<>> /\ emitted.outcome = "ok" /\ emitted.insn.opcode \notin {PHANTOM, TERMINATE} =>
        LET i == emitted.insn
            o == i.opcode
        IN CASE word.op = 19 /\ o \notin 517..519 -> Read24(i.c) = ImmI(word) /\ i.c \div 65536 \in {0, 255}
             [] o \in 517..519 /\ i.e = 0 -> i.c = word.rs2
             [] word.op \in {3, 103} -> Read16(i) = ImmI(word)
             [] word.op = 35 -> Read16(i) = ImmS(word)
             [] o = 531 /\ i.e = 3 -> Read16(i) = ImmI(word)
             [] o \in 544..552 \cup {1056} -> ReadField(i.c) = ImmB(word)
             [] o = 560 -> ReadField(i.c) = ImmJ(word)
             [] o = 561 -> i.c = ImmU(word)
             [] o = 576 -> i.c \div 16 = ImmU(word) /\ i.c % 16 = 0
             [] OTHER -> TRUE

\* The words a segment occupies, and the ones of them that the file holds.
Occupied(seg) == {seg.vaddr + i : i \in Offsets(seg.memsz)}
Filled(seg) == {i \in Offsets(seg.memsz) : i < seg.filesz}
ExecutableWords == {w \in (1..Len(file)) \X Offsets(MaxMem) : file[w[1]].exec /\ w[2] \in Filled(file[w[1]])}

\* The n-th segment's word at offset i is the instruction of its address, when the
\* list of instructions is read from its base with `missing` words left out.
Placed(n, i, missing) ==
    LET k == (file[n].vaddr + i - loader.base) \div WORD_SIZE + 1 - missing
    IN k \in DOMAIN loader.instructions /\ loader.instructions[k] = WordAt(file[n], i)

\* Words of executable segments before the n-th that the file does not hold: memory
\* has them, the list of instructions does not.
Missing(n) ==
    MapThenSumSet(LAMBDA m : Cardinality(Offsets(file[m].memsz) \ Filled(file[m])),
                  {m \in 1..n - 1 : file[m].exec})

\* Where the instructions and the memory of an accepted file are, whatever its
\* segments: a word of an executable segment is the instruction of its address, less
\* the words the file does not hold of the executable segments before it; the program
\* has no other instructions; and memory has each segment's words, and zeros past
\* its data, unless a later segment covers them.
ElfPlacesInstructions ==
    loaded = "done" =>
        /\ \A w \in ExecutableWords : Placed(w[1], w[2], Missing(w[1]))
        /\ Len(loader.instructions) = Cardinality(ExecutableWords)
        /\ \A n \in 1..Len(file) : \A i \in Offsets(file[n].memsz) :
             LET address == file[n].vaddr + i
             IN \/ address \in DOMAIN loader.image /\ loader.image[address] = WordAt(file[n], i)
                \/ \E m \in n + 1..Len(file) : address \in Occupied(file[m])

\* "Track executable segments and reject non-contiguous ones": the words of executable
\* segments that a file is accepted with are one run of instructions, each at the
\* address its segment gives it.
NonContiguousRejected ==
    loaded = "done" => \A w \in ExecutableWords : Placed(w[1], w[2], 0)
================================================================================
