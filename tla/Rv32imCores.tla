------------------------------ MODULE Rv32imCores ------------------------------
(* The cores of the RV32IM extension, each with the machine of CoreChip, on small *)
(* words and fields: one of the chips is picked and stays.                        *)
EXTENDS Integers, Sequences, FiniteSets

VARIABLES chip, input, result, row, requests, phase

\* Tables of inverses and of exclusive or.
Inverses(p) == [x \in 1..p - 1 |-> CHOOSE y \in 1..p - 1 : (x * y) % p = 1]
Xors(bits) == [x \in 0..2^bits - 1 |-> [y \in 0..2^bits - 1 |->
    LET Bit(n, k) == (n \div 2^k) % 2
        sum[k \in 0..bits] == IF k = 0 THEN 0 ELSE sum[k - 1] + 2^(k - 1) * ((Bit(x, k - 1) + Bit(y, k - 1)) % 2)
    IN  sum[bits]]]
Inv11 == Inverses(11)
Inv17 == Inverses(17)
Inv37 == Inverses(37)
Inv67 == Inverses(67)
Inv131 == Inverses(131)
Xor1 == Xors(1)
Xor2 == Xors(2)

Alu == INSTANCE AluCores WITH Samples <- {0, 1, 5, 7, 8, 10, 15}, P <- 17, InverseTable <- Inv17, NUM_LIMBS <- 2, LIMB_BITS <- 2, XorTable <- Xor2
Lt == INSTANCE AluCores WITH Samples <- {0, 1, 6, 7, 8, 10, 15}, P <- 17, InverseTable <- Inv17, NUM_LIMBS <- 2, LIMB_BITS <- 2, XorTable <- Xor2
Sh == INSTANCE AluCores WITH Samples <- {0, 1, 2, 3, 7, 8, 10, 15}, P <- 17, InverseTable <- Inv17, NUM_LIMBS <- 2, LIMB_BITS <- 2, XorTable <- Xor2
Beq == INSTANCE BranchCores WITH Samples <- {0, 3, 4, 15}, P <- 17, InverseTable <- Inv17, NUM_LIMBS <- 2, LIMB_BITS <- 2, XorTable <- Xor2, PC_BITS <- 3, Imms <- {8, 13}
Blt == INSTANCE BranchCores WITH Samples <- {0, 6, 7, 8, 15}, P <- 17, InverseTable <- Inv17, NUM_LIMBS <- 2, LIMB_BITS <- 2, XorTable <- Xor2, PC_BITS <- 3, Imms <- {13}
Mul == INSTANCE MulCores WITH Samples <- {0, 1, 5, 7, 8, 11, 15}, P <- 37, InverseTable <- Inv37, NUM_LIMBS <- 2, LIMB_BITS <- 2, XorTable <- Xor2, CARRY_SIZE <- 8
Mh == INSTANCE MulCores WITH Samples <- {0, 1, 5, 7, 8, 15}, P <- 67, InverseTable <- Inv67, NUM_LIMBS <- 2, LIMB_BITS <- 2, XorTable <- Xor2, CARRY_SIZE <- 16
Dr == INSTANCE MulCores WITH Samples <- {0, 1, 3, 7, 8, 15}, P <- 67, InverseTable <- Inv67, NUM_LIMBS <- 2, LIMB_BITS <- 2, XorTable <- Xor2, CARRY_SIZE <- 16
Jal == INSTANCE JumpCores WITH Samples <- {}, P <- 131, InverseTable <- Inv131, NUM_LIMBS <- 4, LIMB_BITS <- 2, XorTable <- Xor2, PC_BITS <- 7, LUI_SHIFT <- 3,
                               RV_J_TYPE_IMM_BITS <- 5, JalImms <- {0, 4, 12, 123, 127}, StartPcs <- {}, Imms <- {}
Jr == INSTANCE JumpCores WITH Samples <- {0, 1, 15, 16, 60, 115, 127, 241, 255}, P <- 131, InverseTable <- Inv131, NUM_LIMBS <- 4, LIMB_BITS <- 2, XorTable <- Xor2, PC_BITS <- 7, StartPcs <- {0, 120}, Imms <- {0, 1, 12, 15}, LUI_SHIFT <- 3, RV_J_TYPE_IMM_BITS <- 5, JalImms <- {}
Au == INSTANCE JumpCores WITH Samples <- {}, P <- 131, InverseTable <- Inv131, NUM_LIMBS <- 4, LIMB_BITS <- 2, XorTable <- Xor2, PC_BITS <- 7, StartPcs <- {0, 60, 64, 124},
                               Imms <- {0, 1, 16, 47, 63}, LUI_SHIFT <- 3, RV_J_TYPE_IMM_BITS <- 5, JalImms <- {}
Ls == INSTANCE LoadStoreCores WITH Samples <- {0, 5, 11, 15}, P <- 11, InverseTable <- Inv11, NUM_LIMBS <- 4, LIMB_BITS <- 1, XorTable <- Xor1, Misaligned <- FALSE
Lse == INSTANCE LoadStoreCores WITH Samples <- {0, 2, 39, 85, 170, 216, 255}, P <- 17, InverseTable <- Inv17, NUM_LIMBS <- 4, LIMB_BITS <- 2, XorTable <- Xor2, Misaligned <- FALSE

\* What the fillers assert of their sizes, and the field of each instance.
ASSUME CoreAssumptions ==
    /\ Alu!FieldAssumption
    /\ Lt!FieldAssumption
    /\ Sh!FieldAssumption
    /\ Beq!FieldAssumption
    /\ Blt!FieldAssumption
    /\ Mul!FieldAssumption
    /\ Mh!FieldAssumption
    /\ Dr!FieldAssumption
    /\ Jal!FieldAssumption
    /\ Jr!FieldAssumption
    /\ Au!FieldAssumption
    /\ Ls!FieldAssumption
    /\ Lse!FieldAssumption
    /\ Sh!ShiftAssumption /\ Mul!MulSizesAssumption /\ Mh!MulHSizesAssumption /\ Dr!DivRemSizesAssumption
    /\ Jal!JalLuiAssumption /\ Jr!JalrAssumption /\ Au!AuipcAssumption

Chips == {"base_alu", "less_than", "shift", "branch_equal", "branch_less_than", "mul", "mulh", "divrem", "jal_lui", "jalr", "auipc", "loadstore", "load_sign_extend"}

Init == chip \in Chips /\ Alu!BaseAluCore!Start

Next ==
    /\ UNCHANGED chip
    /\ \/ chip = "base_alu" /\ Alu!BaseAluCore!CoreNext
       \/ chip = "less_than" /\ Lt!LessThanCore!CoreNext
       \/ chip = "shift" /\ Sh!ShiftCore!CoreNext
       \/ chip = "branch_equal" /\ Beq!BranchEqualCore!CoreNext
       \/ chip = "branch_less_than" /\ Blt!BranchLessThanCore!CoreNext
       \/ chip = "mul" /\ Mul!MulCore!CoreNext
       \/ chip = "mulh" /\ Mh!MulHCore!CoreNext
       \/ chip = "divrem" /\ Dr!DivRemCore!CoreNext
       \/ chip = "jal_lui" /\ Jal!JalLuiCore!CoreNext
       \/ chip = "jalr" /\ Jr!JalrCore!CoreNext
       \/ chip = "auipc" /\ Au!AuipcCore!CoreNext
       \/ chip = "loadstore" /\ Ls!LoadStoreCore!CoreNext
       \/ chip = "load_sign_extend" /\ Lse!SignExtendCore!CoreNext

Spec == Init /\ [][Next]_<<chip, input, result, row, requests, phase>>

-----------------------------------------------------------------------------
\* The rows of both trace generators are accepted, say what was executed and
\* make the lookups that were counted; padding is accepted and silent (see CoreChip).
HonestRowsAccepted ==
    /\ chip = "base_alu" => Alu!BaseAluCore!HonestRowsAccepted
    /\ chip = "less_than" => Lt!LessThanCore!HonestRowsAccepted
    /\ chip = "shift" => Sh!ShiftCore!HonestRowsAccepted
    /\ chip = "branch_equal" => Beq!BranchEqualCore!HonestRowsAccepted
    /\ chip = "branch_less_than" => Blt!BranchLessThanCore!HonestRowsAccepted
    /\ chip = "mul" => Mul!MulCore!HonestRowsAccepted
    /\ chip = "mulh" => Mh!MulHCore!HonestRowsAccepted
    /\ chip = "divrem" => Dr!DivRemCore!HonestRowsAccepted
    /\ chip = "jal_lui" => Jal!JalLuiCore!HonestRowsAccepted
    /\ chip = "jalr" => Jr!JalrCore!HonestRowsAccepted
    /\ chip = "auipc" => Au!AuipcCore!HonestRowsAccepted
    /\ chip = "loadstore" => Ls!LoadStoreCore!HonestRowsAccepted
    /\ chip = "load_sign_extend" => Lse!SignExtendCore!HonestRowsAccepted

\* No row is accepted for the same operands with another result than the
\* executor's (see CoreChip).
AcceptedRowsExecute ==
    /\ chip = "base_alu" => Alu!BaseAluCore!AcceptedRowsExecute
    /\ chip = "less_than" => Lt!LessThanCore!AcceptedRowsExecute
    /\ chip = "shift" => Sh!ShiftCore!AcceptedRowsExecute
    /\ chip = "branch_equal" => Beq!BranchEqualCore!AcceptedRowsExecute
    /\ chip = "branch_less_than" => Blt!BranchLessThanCore!AcceptedRowsExecute
    /\ chip = "mul" => Mul!MulCore!AcceptedRowsExecute
    /\ chip = "mulh" => Mh!MulHCore!AcceptedRowsExecute
    /\ chip = "divrem" => Dr!DivRemCore!AcceptedRowsExecute
    /\ chip = "jal_lui" => Jal!JalLuiCore!AcceptedRowsExecute
    /\ chip = "jalr" => Jr!JalrCore!AcceptedRowsExecute
    /\ chip = "auipc" => Au!AuipcCore!AcceptedRowsExecute
    /\ chip = "loadstore" => Ls!LoadStoreCore!AcceptedRowsExecute
    /\ chip = "load_sign_extend" => Lse!SignExtendCore!AcceptedRowsExecute

\* Pure and metered execution compute the result that preflight execution
\* records (see CoreChip).
ModesAgree ==
    /\ chip = "base_alu" => Alu!BaseAluCore!ModesAgree
    /\ chip = "less_than" => Lt!LessThanCore!ModesAgree
    /\ chip = "shift" => Sh!ShiftCore!ModesAgree
    /\ chip = "branch_equal" => Beq!BranchEqualCore!ModesAgree
    /\ chip = "branch_less_than" => Blt!BranchLessThanCore!ModesAgree
    /\ chip = "mul" => Mul!MulCore!ModesAgree
    /\ chip = "mulh" => Mh!MulHCore!ModesAgree
    /\ chip = "divrem" => Dr!DivRemCore!ModesAgree
    /\ chip = "jal_lui" => Jal!JalLuiCore!ModesAgree
    /\ chip = "jalr" => Jr!JalrCore!ModesAgree
    /\ chip = "auipc" => Au!AuipcCore!ModesAgree
    /\ chip = "loadstore" => Ls!LoadStoreCore!ModesAgree
    /\ chip = "load_sign_extend" => Lse!SignExtendCore!ModesAgree
================================================================================
