----------------------------- MODULE Rv32imAdapters -----------------------------
(* The adapters of the RV32IM extension and its hint store chip, on small words  *)
(* and fields: one of the chips is picked and stays.                             *)
EXTENDS Integers, Sequences, FiniteSets

VARIABLES chip,
          input, result, row,                                         \* the adapters
          mem, stream, ts, initial, records, failure, metered, trace, \* the hint store
          requests, phase                                             \* of either

adapterVars == <<input, result, row>>
hintVars == <<mem, stream, ts, initial, records, failure, metered, trace>>

\* Tables of inverses and of exclusive or.
Inverses(p) == [x \in 1..p - 1 |-> CHOOSE y \in 1..p - 1 : (x * y) % p = 1]
Inv37 == Inverses(37)
Inv67 == Inverses(67)
Xor2 == [x \in 0..3 |-> [y \in 0..3 |-> ((x + y) % 2) + 2 * (((x \div 2) + (y \div 2)) % 2)]]

Registers == INSTANCE RegisterAdapters WITH
    P <- 67, NUM_LIMBS <- 4, LIMB_BITS <- 2, InverseTable <- Inv67, XorTable <- Xor2, Samples <- {},
    Ptrs <- {0, 4}, FreeImms <- {0, 13, 55}, PcImms <- {9}, WordSamples <- {0, 201}, FirstTs <- 5
LoadsStores == INSTANCE LoadStoreAdapter WITH
    P <- 67, NUM_LIMBS <- 4, LIMB_BITS <- 2, InverseTable <- Inv67, XorTable <- Xor2, Samples <- {},
    RegPtrs <- {0, 4}, Rs1Samples <- {0, 3, 17, 38, 63, 64, 250, 255}, Imms <- {0, 2, 5, 15},
    POINTER_MAX_BITS <- 6, FirstTs <- 9
Hints == INSTANCE HintStore WITH
    P <- 37, NUM_LIMBS <- 4, LIMB_BITS <- 2, InverseTable <- Inv37, XorTable <- Xor2, Samples <- {},
    RegPtrs <- {0, 4}, RegValues <- {0, 1, 3, 8, 20}, MaxStream <- 3, POINTER_MAX_BITS <- 5,
    MAX_HINT_BUFFER_WORDS_BITS <- 3, FirstTs <- 5, MaxInstructions <- 2, MaxShape <- 5

\* What the chips assert of their sizes, and the field of each instance.
ASSUME AdapterAssumptions ==
    /\ Registers!FieldAssumption
    /\ LoadsStores!FieldAssumption
    /\ Hints!FieldAssumption
    /\ Hints!HintStoreAssumption

NoHints ==
    /\ mem = <<>> /\ stream = <<>> /\ ts = 0 /\ initial = <<>>
    /\ records = <<>> /\ failure = "none" /\ metered = <<>> /\ trace = <<>>

Init ==
    \/ chip \in {"registers", "loadstore"} /\ Registers!Start /\ NoHints
    \/ chip = "hintstore" /\ Hints!Start /\ input = <<>> /\ result = <<>> /\ row = <<>>

Next ==
    /\ UNCHANGED chip
    /\ \/ chip = "registers" /\ Registers!CoreNext /\ UNCHANGED hintVars
       \/ chip = "loadstore" /\ LoadsStores!CoreNext /\ UNCHANGED hintVars
       \/ chip = "hintstore" /\ Hints!Next /\ UNCHANGED adapterVars

Spec == Init /\ [][Next]_<<chip, adapterVars, hintVars, requests, phase>>

-----------------------------------------------------------------------------
\* The rows of both trace generators are accepted, claim the accesses that
\* execution performed and make the lookups that were counted, whether an
\* instruction is one row (adapters, see CoreChip) or a row a word (hint store).
HonestRowsAccepted ==
    /\ chip = "registers" => Registers!HonestRowsAccepted
    /\ chip = "loadstore" => LoadsStores!HonestRowsAccepted
    /\ chip = "hintstore" => Hints!HonestTraceAccepted

\* No rows are accepted that claim other accesses than the executor's for the
\* same instructions (adapters), or another number of words (hint store).
AcceptedRowsExecute ==
    /\ chip = "registers" => Registers!AcceptedRowsExecute
    /\ chip = "loadstore" => LoadsStores!AcceptedRowsExecute
    /\ chip = "hintstore" => Hints!AcceptedTraceWritesBuffer

\* Pure and metered execution perform the accesses that preflight execution
\* records, and metered execution counts as many rows.
ModesAgree ==
    /\ chip = "registers" => Registers!ModesAgree
    /\ chip = "loadstore" => LoadsStores!ModesAgree
    /\ chip = "hintstore" => Hints!ModesAgree
================================================================================
