----------------------------- MODULE VmConfiguration -----------------------------
(* How a VM is put together from a configuration.  Every extension is written    *)
(* down three times, by hand: the executors and the opcodes they serve, the AIRs *)
(* and the buses they look up, and the chips of a prover backend with the chips  *)
(* they feed.  Nothing but positions ties the three together: the i-th executor  *)
(* chip takes the records of the i-th executor, and the chip inserted k-th proves *)
(* the AIR inserted k-th, whose Rust type is all that is compared.               *)
(*                                                                               *)
(* An executor, an AIR and a chip are told apart by the opcodes they serve; an   *)
(* AIR's type is its Rust type with its generic size.  Moduli, curves and        *)
(* extension fields are their sizes in bytes.                                    *)
EXTENDS Integers, Sequences, FiniteSets, SequencesExt, FiniteSetsExt, TLC

CONSTANT Configs  \* the configurations, see SdkConfig and FixedConfig

VARIABLES config,      \* the configuration and the backend
          executors,   \* [list, lookup, phantoms]
          airs,        \* AirInventory
          chips,       \* ChipInventory and what the system chips feed
          proving,     \* the traces handed to the prover, with their AIR ids
          outcome      \* "running", "ok", or how construction failed

vmVars == <<config, executors, airs, chips, proving, outcome>>

Span(first, n) == first .. first + n - 1
PHANTOM == 1
Lookup(name, sizes) == [step |-> "lookup", name |-> name, sizes |-> sizes]
NewBus(name) == [step |-> "bus", name |-> name]
Unit(type, ops, needs, name) ==
    [step |-> "add", type |-> type, ops |-> ops, needs |-> needs, name |-> name]
\* Executors touch memory, so their AIRs and chips look up the range checker.
Exec(type, ops, needs) == Unit(type, ops, needs \cup {"range"}, "none")
Periphery(type, needs, name) == Unit(type, {}, needs, name)
Bitwise == Lookup("bitwise", <<0, 0>>)
LookupType(name) == IF name = "bitwise" THEN <<"BitwiseOperationLookupAir", 8>>
                                        ELSE <<"RangeTupleCheckerAir", 2>>
T(type) == <<type, 0>>

\* Big integers are laid out in 32 or 48 limbs.
LimbClass(bytes) == IF bytes <= 32 THEN 32 ELSE 48
TooLarge(sizes) == \E i \in 1..Len(sizes) : sizes[i] > 48
\* A script is run in stages, each from the value the stage before has left.
StageLength == 12
RunScript(op(_, _), inv, script) ==
    LET stages == [k \in 1..(Len(script) + StageLength - 1) \div StageLength |->
                      SubSeq(script, StageLength * (k - 1) + 1, Min({StageLength * k, Len(script)}))]
    IN FoldLeft(LAMBDA v, stage : CHOOSE w \in {FoldLeft(op, u, stage) : u \in {v}} : TRUE, inv, stages)
\* Concatenation of per-modulus scripts.
PerModulus(scripts) == FlattenSeq(scripts)

-----------------------------------------------------------------------------
(* The execution extensions. *)
SystemExecution == [list |-> << {PHANTOM} >>, phantoms |-> 0..3]
Rv32IExecution ==
    [list |-> << Span(512, 5), Span(520, 2), Span(517, 3), Span(528, 6), {534, 535}, Span(544, 2),
                 Span(549, 4), Span(560, 2), {565}, {576} >>,
     phantoms |-> {32, 34, 33}]
Rv32MExecution == [list |-> << {592}, Span(593, 3), Span(596, 4) >>, phantoms |-> {}]
Rv32IoExecution == [list |-> << Span(608, 2) >>, phantoms |-> {}]
KeccakExecution == [list |-> << {785}, {784} >>, phantoms |-> {}]
Sha2Execution == [list |-> << {800}, {801} >>, phantoms |-> {}]
BigintExecution ==
    [list |-> << Span(1024, 5), Span(1032, 2), Span(1056, 2), Span(1061, 4), {1104}, Span(1029, 3) >>,
     phantoms |-> {}]
ModularExecution(moduli) ==
    [list |-> PerModulus([i \in 1..Len(moduli) |->
        LET start == 1280 + 8 * (i - 1)
        IN << Span(start, 3), Span(start + 3, 3), Span(start + 6, 2) >>]),
     phantoms |-> {80, 81}]
Fp2Execution(moduli) ==
    [list |-> PerModulus([i \in 1..Len(moduli) |->
        LET start == 1808 + 6 * (i - 1) IN << Span(start, 3), Span(start + 3, 3) >>]),
     phantoms |-> {}]
EccExecution(curves) ==
    [list |-> PerModulus([i \in 1..Len(curves) |->
        LET start == 1536 + 4 * (i - 1) IN << Span(start, 2), Span(start + 2, 2) >>]),
     phantoms |-> {}]
PairingExecution == [list |-> <<>>, phantoms |-> {48}]
DeferralExecution == [list |-> << {2048}, {2049} >>, phantoms |-> {}]

Execution(ext, c) ==
    CASE ext = "rv32i" -> Rv32IExecution [] ext = "rv32m" -> Rv32MExecution
      [] ext = "io" -> Rv32IoExecution [] ext = "keccak" -> KeccakExecution
      [] ext = "sha2" -> Sha2Execution [] ext = "bigint" -> BigintExecution
      [] ext = "modular" -> ModularExecution(c.moduli) [] ext = "fp2" -> Fp2Execution(c.fp2)
      [] ext = "ecc" -> EccExecution(c.curves) [] ext = "pairing" -> PairingExecution
      [] ext = "deferral" -> DeferralExecution

(* The circuit extensions. *)
Poseidon2Class(degree) == IF degree >= 7 THEN 0 ELSE 1
SystemAirs(c) ==
    << NewBus("execution"), NewBus("memory"), NewBus("program"), NewBus("range"), NewBus("merkle"),
       NewBus("compression"),
       Periphery(T("VariableRangeCheckerAir"), {}, "range"),
       Periphery(<<"Poseidon2PeripheryAir", Poseidon2Class(c.degree)>>, {}, "compression"),
       Unit(T("PhantomAir"), {PHANTOM}, {}, "none") >>
Rv32ICircuit ==
    << Bitwise,
       Exec(T("BaseAlu"), Span(512, 5), {"bitwise"}), Exec(T("LessThan"), Span(520, 2), {"bitwise"}),
       Exec(T("Shift"), Span(517, 3), {"bitwise"}), Exec(T("LoadStore"), Span(528, 6), {}),
       Exec(T("LoadSignExtend"), {534, 535}, {}), Exec(T("BranchEqual"), Span(544, 2), {}),
       Exec(T("BranchLessThan"), Span(549, 4), {"bitwise"}), Exec(T("JalLui"), Span(560, 2), {"bitwise"}),
       Exec(T("Jalr"), {565}, {"bitwise"}), Exec(T("Auipc"), {576}, {"bitwise"}) >>
Rv32MCircuit(sizes) ==
    << Bitwise, Lookup("tuple", sizes), Exec(T("Mul"), {592}, {"tuple"}),
       Exec(T("MulH"), Span(593, 3), {"bitwise", "tuple"}), Exec(T("DivRem"), Span(596, 4), {"bitwise", "tuple"}) >>
Rv32IoCircuit == << Bitwise, Exec(T("HintStore"), Span(608, 2), {"bitwise"}) >>
KeccakCircuit ==
    << Bitwise, Exec(T("XorinVmAir"), {785}, {"bitwise"}), NewBus("keccakf"),
       Periphery(T("KeccakfPermAir"), {}, "keccakf"), Exec(T("KeccakfOpAir"), {784}, {"bitwise", "keccakf"}) >>
Sha2Circuit ==
    << Bitwise, NewBus("sha2"), NewBus("subair"),
       Periphery(<<"Sha2BlockHasherVmAir", 256>>, {"bitwise"}, "sha2"),
       Exec(<<"Sha2MainAir", 256>>, {800}, {"bitwise", "sha2"}),
       Periphery(<<"Sha2BlockHasherVmAir", 512>>, {"bitwise"}, "sha2"),
       Exec(<<"Sha2MainAir", 512>>, {801}, {"bitwise", "sha2"}) >>
BigintCircuit(sizes) ==
    << Bitwise, Lookup("tuple", sizes),
       Exec(T("BaseAlu256"), Span(1024, 5), {"bitwise"}), Exec(T("LessThan256"), Span(1032, 2), {"bitwise"}),
       Exec(T("BranchEqual256"), Span(1056, 2), {"bitwise"}),
       Exec(T("BranchLessThan256"), Span(1061, 4), {"bitwise"}),
       Exec(T("Mul256"), {1104}, {"bitwise", "tuple"}), Exec(T("Shift256"), Span(1029, 3), {"bitwise"}) >>
ModularCircuit(moduli) ==
    << Bitwise >> \o PerModulus([i \in 1..Len(moduli) |->
        LET start == 1280 + 8 * (i - 1)
            k == LimbClass(moduli[i])
        IN << Exec(<<"ModularAir", k>>, Span(start, 3), {"bitwise"}),
              Exec(<<"ModularAir", k>>, Span(start + 3, 3), {"bitwise"}),
              Exec(<<"ModularIsEqualAir", k>>, Span(start + 6, 2), {"bitwise"}) >>])
Fp2Circuit(moduli) ==
    << Bitwise >> \o PerModulus([i \in 1..Len(moduli) |->
        LET start == 1808 + 6 * (i - 1)
            k == LimbClass(moduli[i])
        IN << Exec(<<"Fp2Air", k>>, Span(start, 3), {"bitwise"}),
              Exec(<<"Fp2Air", k>>, Span(start + 3, 3), {"bitwise"}) >>])
EccCircuit(curves) ==
    << Bitwise >> \o PerModulus([i \in 1..Len(curves) |->
        LET start == 1536 + 4 * (i - 1)
            k == LimbClass(curves[i])
        IN << Exec(<<"WeierstrassAddNeAir", k>>, Span(start, 2), {"bitwise"}),
              Exec(<<"WeierstrassDoubleAir", k>>, Span(start + 2, 2), {"bitwise"}) >>])
PairingCircuit == <<>>
DeferralCircuit ==
    << NewBus("count"), NewBus("poseidon2"), Bitwise,
       Periphery(T("DeferralCircuitCountAir"), {}, "count"),
       Periphery(T("DeferralPoseidon2Air"), {}, "poseidon2"),
       Exec(T("DeferralCallAir"), {2048}, {"bitwise", "count", "poseidon2"}),
       Exec(T("DeferralOutputAir"), {2049}, {"bitwise", "count", "poseidon2"}) >>

Circuit(ext, c) ==
    CASE ext = "rv32i" -> Rv32ICircuit [] ext = "rv32m" -> Rv32MCircuit(c.rv32mSizes)
      [] ext = "io" -> Rv32IoCircuit [] ext = "keccak" -> KeccakCircuit
      [] ext = "sha2" -> Sha2Circuit [] ext = "bigint" -> BigintCircuit(c.bigintSizes)
      [] ext = "modular" -> ModularCircuit(c.moduli) [] ext = "fp2" -> Fp2Circuit(c.fp2)
      [] ext = "ecc" -> EccCircuit(c.curves) [] ext = "pairing" -> PairingCircuit
      [] ext = "deferral" -> DeferralCircuit

(* The prover extensions, for the CPU and for CUDA. *)
SystemCpuBuilder(c) ==
    << Periphery(T("VariableRangeCheckerAir"), {}, "range"),
       Periphery(<<"Poseidon2PeripheryAir", IF c.degree >= 7 THEN 0 ELSE 1>>, {}, "hasher"),
       Unit(T("PhantomAir"), {PHANTOM}, {}, "none") >>
SystemGpuBuilder(c) ==
    << Periphery(T("VariableRangeCheckerAir"), {}, "range"),
       Periphery(<<"Poseidon2PeripheryAir", IF c.degree >= 7 THEN 0 ELSE 1>>, {}, "hasher"),
       Unit(T("PhantomAir"), {PHANTOM}, {}, "none") >>
Rv32ICpuProver ==
    << Bitwise,
       Exec(T("BaseAlu"), Span(512, 5), {"bitwise"}), Exec(T("LessThan"), Span(520, 2), {"bitwise"}),
       Exec(T("Shift"), Span(517, 3), {"bitwise"}), Exec(T("LoadStore"), Span(528, 6), {}),
       Exec(T("LoadSignExtend"), {534, 535}, {}), Exec(T("BranchEqual"), Span(544, 2), {}),
       Exec(T("BranchLessThan"), Span(549, 4), {"bitwise"}), Exec(T("JalLui"), Span(560, 2), {"bitwise"}),
       Exec(T("Jalr"), {565}, {"bitwise"}), Exec(T("Auipc"), {576}, {"bitwise"}) >>
Rv32IGpuProver ==
    << Bitwise,
       Exec(T("BaseAlu"), Span(512, 5), {"bitwise"}), Exec(T("LessThan"), Span(520, 2), {"bitwise"}),
       Exec(T("Shift"), Span(517, 3), {"bitwise"}), Exec(T("LoadStore"), Span(528, 6), {}),
       Exec(T("LoadSignExtend"), {534, 535}, {}), Exec(T("BranchEqual"), Span(544, 2), {}),
       Exec(T("BranchLessThan"), Span(549, 4), {"bitwise"}), Exec(T("JalLui"), Span(560, 2), {"bitwise"}),
       Exec(T("Jalr"), {565}, {"bitwise"}), Exec(T("Auipc"), {576}, {"bitwise"}) >>
Rv32MCpuProver(sizes) ==
    << Bitwise, Lookup("tuple", sizes), Exec(T("Mul"), {592}, {"tuple"}),
       Exec(T("MulH"), Span(593, 3), {"bitwise", "tuple"}), Exec(T("DivRem"), Span(596, 4), {"bitwise", "tuple"}) >>
Rv32MGpuProver(sizes) ==
    << Bitwise, Lookup("tuple", sizes), Exec(T("Mul"), {592}, {"tuple"}),
       Exec(T("MulH"), Span(593, 3), {"bitwise", "tuple"}), Exec(T("DivRem"), Span(596, 4), {"bitwise", "tuple"}) >>
Rv32IoCpuProver == << Bitwise, Exec(T("HintStore"), Span(608, 2), {"bitwise"}) >>
Rv32IoGpuProver == << Bitwise, Exec(T("HintStore"), Span(608, 2), {"bitwise"}) >>
\* The permutation chip comes before the chip that hands it its records, since
\* traces are generated in reverse.
KeccakCpuProver ==
    << Bitwise, Exec(T("XorinVmAir"), {785}, {"bitwise"}), Periphery(T("KeccakfPermAir"), {}, "keccakf"),
       Exec(T("KeccakfOpAir"), {784}, {"bitwise", "keccakf"}) >>
KeccakGpuProver ==
    << Bitwise, Exec(T("XorinVmAir"), {785}, {"bitwise"}), Periphery(T("KeccakfPermAir"), {}, "keccakf"),
       Exec(T("KeccakfOpAir"), {784}, {"bitwise", "keccakf"}) >>
\* Each size has its own slot for the records the main chip leaves its hasher.
Sha2CpuProver ==
    << Bitwise,
       Periphery(<<"Sha2BlockHasherVmAir", 256>>, {"bitwise"}, "records256"),
       Exec(<<"Sha2MainAir", 256>>, {800}, {"bitwise", "records256"}),
       Periphery(<<"Sha2BlockHasherVmAir", 512>>, {"bitwise"}, "records512"),
       Exec(<<"Sha2MainAir", 512>>, {801}, {"bitwise", "records512"}) >>
Sha2GpuProver ==
    << Bitwise,
       Periphery(<<"Sha2BlockHasherVmAir", 256>>, {"bitwise"}, "records256"),
       Exec(<<"Sha2MainAir", 256>>, {800}, {"bitwise", "records256"}),
       Periphery(<<"Sha2BlockHasherVmAir", 512>>, {"bitwise"}, "records512"),
       Exec(<<"Sha2MainAir", 512>>, {801}, {"bitwise", "records512"}) >>
BigintCpuProver(sizes) ==
    << Bitwise, Lookup("tuple", sizes),
       Exec(T("BaseAlu256"), Span(1024, 5), {"bitwise"}), Exec(T("LessThan256"), Span(1032, 2), {"bitwise"}),
       Exec(T("BranchEqual256"), Span(1056, 2), {"bitwise"}),
       Exec(T("BranchLessThan256"), Span(1061, 4), {"bitwise"}),
       Exec(T("Mul256"), {1104}, {"bitwise", "tuple"}), Exec(T("Shift256"), Span(1029, 3), {"bitwise"}) >>
BigintGpuProver(sizes) ==
    << Bitwise, Lookup("tuple", sizes),
       Exec(T("BaseAlu256"), Span(1024, 5), {"bitwise"}), Exec(T("LessThan256"), Span(1032, 2), {"bitwise"}),
       Exec(T("BranchEqual256"), Span(1056, 2), {"bitwise"}),
       Exec(T("BranchLessThan256"), Span(1061, 4), {"bitwise"}),
       Exec(T("Mul256"), {1104}, {"bitwise", "tuple"}), Exec(T("Shift256"), Span(1029, 3), {"bitwise"}) >>
\* Addition and multiplication share their AIR type: their order is not checked.
\* Mutant of ModularCpuProver: the multiplication chip is inserted first.
ModularCpuProverSwapped(moduli) ==
    << Bitwise >> \o PerModulus([i \in 1..Len(moduli) |->
        LET start == 1280 + 8 * (i - 1)
            k == LimbClass(moduli[i])
        IN << Exec(<<"ModularAir", k>>, Span(start + 3, 3), {"bitwise"}),
              Exec(<<"ModularAir", k>>, Span(start, 3), {"bitwise"}),
              Exec(<<"ModularIsEqualAir", k>>, Span(start + 6, 2), {"bitwise"}) >>])
ModularCpuProver(moduli) ==
    << Bitwise >> \o PerModulus([i \in 1..Len(moduli) |->
        LET start == 1280 + 8 * (i - 1)
            k == LimbClass(moduli[i])
        IN << Exec(<<"ModularAir", k>>, Span(start, 3), {"bitwise"}),
              Exec(<<"ModularAir", k>>, Span(start + 3, 3), {"bitwise"}),
              Exec(<<"ModularIsEqualAir", k>>, Span(start + 6, 2), {"bitwise"}) >>])
ModularGpuProver(moduli) ==
    << Bitwise >> \o PerModulus([i \in 1..Len(moduli) |->
        LET start == 1280 + 8 * (i - 1)
            k == LimbClass(moduli[i])
        IN << Exec(<<"ModularAir", k>>, Span(start, 3), {"bitwise"}),
              Exec(<<"ModularAir", k>>, Span(start + 3, 3), {"bitwise"}),
              Exec(<<"ModularIsEqualAir", k>>, Span(start + 6, 2), {"bitwise"}) >>])
Fp2CpuProver(moduli) ==
    << Bitwise >> \o PerModulus([i \in 1..Len(moduli) |->
        LET start == 1808 + 6 * (i - 1)
            k == LimbClass(moduli[i])
        IN << Exec(<<"Fp2Air", k>>, Span(start, 3), {"bitwise"}),
              Exec(<<"Fp2Air", k>>, Span(start + 3, 3), {"bitwise"}) >>])
Fp2GpuProver(moduli) ==
    << Bitwise >> \o PerModulus([i \in 1..Len(moduli) |->
        LET start == 1808 + 6 * (i - 1)
            k == LimbClass(moduli[i])
        IN << Exec(<<"Fp2Air", k>>, Span(start, 3), {"bitwise"}),
              Exec(<<"Fp2Air", k>>, Span(start + 3, 3), {"bitwise"}) >>])
EccCpuProver(curves) ==
    << Bitwise >> \o PerModulus([i \in 1..Len(curves) |->
        LET start == 1536 + 4 * (i - 1)
            k == LimbClass(curves[i])
        IN << Exec(<<"WeierstrassAddNeAir", k>>, Span(start, 2), {"bitwise"}),
              Exec(<<"WeierstrassDoubleAir", k>>, Span(start + 2, 2), {"bitwise"}) >>])
EccGpuProver(curves) ==
    << Bitwise >> \o PerModulus([i \in 1..Len(curves) |->
        LET start == 1536 + 4 * (i - 1)
            k == LimbClass(curves[i])
        IN << Exec(<<"WeierstrassAddNeAir", k>>, Span(start, 2), {"bitwise"}),
              Exec(<<"WeierstrassDoubleAir", k>>, Span(start + 2, 2), {"bitwise"}) >>])
PairingProver == <<>>
DeferralCpuProver ==
    << Bitwise, Periphery(T("DeferralCircuitCountAir"), {}, "count"),
       Periphery(T("DeferralPoseidon2Air"), {}, "poseidon2"),
       Exec(T("DeferralCallAir"), {2048}, {"bitwise", "count", "poseidon2"}),
       Exec(T("DeferralOutputAir"), {2049}, {"bitwise", "count", "poseidon2"}) >>
DeferralGpuProver ==
    << Bitwise, Periphery(T("DeferralCircuitCountAir"), {}, "count"),
       Periphery(T("DeferralPoseidon2Air"), {}, "poseidon2"),
       Exec(T("DeferralCallAir"), {2048}, {"bitwise", "count", "poseidon2"}),
       Exec(T("DeferralOutputAir"), {2049}, {"bitwise", "count", "poseidon2"}) >>

CpuProver(ext, c) ==
    CASE ext = "rv32i" -> Rv32ICpuProver [] ext = "rv32m" -> Rv32MCpuProver(c.rv32mSizes)
      [] ext = "io" -> Rv32IoCpuProver [] ext = "keccak" -> KeccakCpuProver
      [] ext = "sha2" -> Sha2CpuProver [] ext = "bigint" -> BigintCpuProver(c.bigintSizes)
      [] ext = "modular" -> ModularCpuProver(c.moduli) [] ext = "fp2" -> Fp2CpuProver(c.fp2)
      [] ext = "ecc" -> EccCpuProver(c.curves) [] ext = "pairing" -> PairingProver
      [] ext = "deferral" -> DeferralCpuProver
GpuProver(ext, c) ==
    CASE ext = "rv32i" -> Rv32IGpuProver [] ext = "rv32m" -> Rv32MGpuProver(c.rv32mSizes)
      [] ext = "io" -> Rv32IoGpuProver [] ext = "keccak" -> KeccakGpuProver
      [] ext = "sha2" -> Sha2GpuProver [] ext = "bigint" -> BigintGpuProver(c.bigintSizes)
      [] ext = "modular" -> ModularGpuProver(c.moduli) [] ext = "fp2" -> Fp2GpuProver(c.fp2)
      [] ext = "ecc" -> EccGpuProver(c.curves) [] ext = "pairing" -> PairingProver
      [] ext = "deferral" -> DeferralGpuProver

-----------------------------------------------------------------------------
(* The configurations: their extensions in the order of the fields, and the      *)
(* order in which each builder extends the prover.                               *)
SdkVmConfigInner == <<"rv32i", "io", "keccak", "sha2", "rv32m", "bigint", "modular", "fp2", "pairing",
                      "ecc", "deferral">>
SdkVmCpuBuilder == <<"rv32i", "io", "keccak", "sha2", "rv32m", "bigint", "modular", "fp2", "pairing",
                     "ecc", "deferral">>
SdkVmGpuBuilder == <<"rv32i", "io", "keccak", "sha2", "rv32m", "bigint", "modular", "fp2", "pairing",
                     "ecc", "deferral">>
Rv32IConfig == <<"rv32i", "io">>
Rv32ICpuBuilder == <<"rv32i", "io">>
Rv32IGpuBuilder == <<"rv32i", "io">>
Rv32ImConfig == Rv32IConfig \o <<"rv32m">>
Rv32ImCpuBuilder == Rv32ICpuBuilder \o <<"rv32m">>
Rv32ImGpuBuilder == Rv32IGpuBuilder \o <<"rv32m">>
Rv32ModularConfig == <<"rv32i", "rv32m", "io", "modular">>
Rv32ModularCpuBuilder == <<"rv32i", "rv32m", "io", "modular">>
Rv32ModularHybridBuilder == <<"rv32i", "rv32m", "io", "modular">>
Rv32ModularWithFp2Config == Rv32ModularConfig \o <<"fp2">>
Rv32ModularWithFp2CpuBuilder == Rv32ModularCpuBuilder \o <<"fp2">>
Rv32ModularWithFp2HybridBuilder == Rv32ModularHybridBuilder \o <<"fp2">>
Rv32WeierstrassConfig == Rv32ModularConfig \o <<"ecc">>
Rv32WeierstrassCpuBuilder == Rv32ModularCpuBuilder \o <<"ecc">>
Rv32WeierstrassHybridBuilder == Rv32ModularHybridBuilder \o <<"ecc">>
Rv32PairingConfig == Rv32ModularConfig \o <<"fp2", "ecc", "pairing">>
Rv32PairingCpuBuilder == Rv32ModularCpuBuilder \o <<"fp2", "ecc", "pairing">>
Rv32PairingGpuBuilder == Rv32ModularHybridBuilder \o <<"fp2", "ecc", "pairing">>
Keccak256Rv32Config == <<"rv32i", "rv32m", "io", "keccak">>
Keccak256Rv32CpuBuilder == <<"rv32i", "rv32m", "io", "keccak">>
Keccak256Rv32GpuBuilder == <<"rv32i", "rv32m", "io", "keccak">>
Sha2Rv32Config == <<"rv32i", "rv32m", "io", "sha2">>
Sha2Rv32CpuBuilder == <<"rv32i", "rv32m", "io", "sha2">>
Sha2Rv32GpuBuilder == <<"rv32i", "rv32m", "io", "sha2">>
Int256Rv32Config == <<"rv32i", "rv32m", "io", "bigint">>
Int256Rv32CpuBuilder == <<"rv32i", "rv32m", "io", "bigint">>
Int256Rv32GpuBuilder == <<"rv32i", "rv32m", "io", "bigint">>
Rv32DeferralConfig == <<"rv32i", "rv32m", "io", "deferral">>
Rv32DeferralCpuBuilder == <<"rv32i", "rv32m", "io", "deferral">>
Rv32DeferralGpuBuilder == <<"rv32i", "rv32m", "io", "deferral">>

\* The fields of a configuration and the order of its two builders.
Fixed ==
    { << Rv32IConfig, Rv32ICpuBuilder, Rv32IGpuBuilder >>, << Rv32ImConfig, Rv32ImCpuBuilder, Rv32ImGpuBuilder >>,
      << Rv32ModularConfig, Rv32ModularCpuBuilder, Rv32ModularHybridBuilder >>,
      << Rv32ModularWithFp2Config, Rv32ModularWithFp2CpuBuilder, Rv32ModularWithFp2HybridBuilder >>,
      << Rv32WeierstrassConfig, Rv32WeierstrassCpuBuilder, Rv32WeierstrassHybridBuilder >>,
      << Rv32PairingConfig, Rv32PairingCpuBuilder, Rv32PairingGpuBuilder >>,
      << Keccak256Rv32Config, Keccak256Rv32CpuBuilder, Keccak256Rv32GpuBuilder >>,
      << Sha2Rv32Config, Sha2Rv32CpuBuilder, Sha2Rv32GpuBuilder >>,
      << Int256Rv32Config, Int256Rv32CpuBuilder, Int256Rv32GpuBuilder >>,
      << Rv32DeferralConfig, Rv32DeferralCpuBuilder, Rv32DeferralGpuBuilder >> }

\* The SDK gives the multiplication chips of both word sizes one range table.
apply_optimizations(c) ==
    LET both == [i \in 1..2 |-> Max({c.rv32mSizes[i], c.bigintSizes[i]})]
    IN IF {"rv32m", "bigint"} \subseteq Range(c.fields)
       THEN [c EXCEPT !.rv32mSizes = both, !.bigintSizes = both] ELSE c
\* Extensions that are absent add nothing.
Present(order, exts) == SelectSeq(order, LAMBDA e : e \in exts)
SdkConfig(exts, c) ==
    apply_optimizations([c EXCEPT !.fields = Present(SdkVmConfigInner, exts),
                                  !.cpu = Present(SdkVmCpuBuilder, exts),
                                  !.gpu = Present(SdkVmGpuBuilder, exts)])

FixedConfig(f, c) == [c EXCEPT !.fields = f[1], !.cpu = f[2], !.gpu = f[3]]

-----------------------------------------------------------------------------
(* The executor inventory. *)
\* An opcode or a phantom discriminant that is taken is an error.
AddExecutors(inv, ext) ==
    LET n == Len(inv.list)
        new == UNION Range(ext.list)
        clash == \/ new \cap DOMAIN inv.lookup # {}
                 \/ ext.phantoms \cap inv.phantoms # {}
                 \/ \E i, j \in 1..Len(ext.list) : i # j /\ ext.list[i] \cap ext.list[j] # {}
    IN [list |-> inv.list \o ext.list,
        lookup |-> [o \in new |-> n + (CHOOSE i \in 1..Len(ext.list) : o \in ext.list[i])] @@ inv.lookup,
        phantoms |-> inv.phantoms \cup ext.phantoms,
        failed |-> inv.failed \/ clash]
ExtendExecution(c) ==
    FoldLeft(LAMBDA inv, e : AddExecutors(inv, Execution(e, c)),
             AddExecutors([list |-> <<>>, lookup |-> <<>>, phantoms |-> {}, failed |-> FALSE], SystemExecution),
             c.fields)

(* The AIR inventory. *)
Fits(have, want) == \A i \in 1..2 : have[i] >= want[i]
\* The first table of a kind, of these sizes at least.
find_air(list, name, sizes) ==
    {i \in 1..Len(list) : list[i].type = LookupType(name) /\ Fits(list[i].sizes, sizes)}
AddAir(inv, s) ==
    CASE s.step = "bus" -> [inv EXCEPT !.env = (s.name :> inv.buses) @@ @, !.buses = @ + 1]
      [] s.step = "add" ->
            [inv EXCEPT !.list = Append(@,
                [type |-> s.type, ops |-> s.ops, looks |-> {inv.env[n] : n \in s.needs}, sizes |-> <<0, 0>>,
                 bus |-> IF s.name = "none" THEN -1 ELSE inv.env[s.name]])]
      [] s.step = "lookup" ->
            LET found == find_air(inv.list, s.name, s.sizes)
            IN IF found # {}
               THEN [inv EXCEPT !.env = (s.name :> inv.list[Min(found)].bus) @@ @]
               ELSE [inv EXCEPT !.env = (s.name :> inv.buses) @@ @, !.buses = @ + 1,
                                !.list = Append(@, [type |-> LookupType(s.name), ops |-> {}, looks |-> {},
                                                    sizes |-> s.sizes, bus |-> inv.buses])]
ExtendCircuit(c) ==
    FoldLeft(LAMBDA inv, e : RunScript(AddAir, inv, Circuit(e, c)),
             RunScript(AddAir, [list |-> <<>>, env |-> <<>>, buses |-> 0], SystemAirs(c)), c.fields)

\* The four AIRs of the system come first: program, connector, boundary, Merkle.
SystemAirList(env) ==
    LET Sys(type, looks) ==
            [type |-> T(type), ops |-> {}, looks |-> looks, sizes |-> <<0, 0>>, bus |-> -1]
    IN << Sys("ProgramAir", {}), Sys("VmConnectorAir", {env["range"]}),
          Sys("PersistentBoundaryAir", {env["compression"]}), Sys("MemoryMerkleAir", {env["compression"]}) >>
NumSystemAirs == 4
into_airs(inv) == SystemAirList(inv.env) \o Reverse(inv.list)

(* The chip inventory. *)
\* A chip is paired with the AIR at its own position, whose type must be the expected one.
next_air(inv, type) ==
    LET n == Len(inv.list) + 1 IN n <= Len(inv.airs) /\ inv.airs[n].type = type
find_chip(inv, name, sizes) ==
    {i \in 1..Len(inv.list) : inv.list[i].type = LookupType(name) /\ Fits(inv.list[i].sizes, sizes)}
AddChip(inv, s) ==
    CASE s.step = "add" ->
            IF ~next_air(inv, s.type) THEN [inv EXCEPT !.failed = TRUE]
            ELSE [inv EXCEPT !.list = Append(@, [type |-> s.type, ops |-> s.ops, sizes |-> <<0, 0>>,
                                                 feeds |-> {inv.env[n] : n \in s.needs}]),
                             !.env = (s.name :> Len(inv.list) + 1) @@ @,
                             !.insertion = IF s.ops = {} THEN @ ELSE Append(@, Len(inv.list))]
      [] s.step = "lookup" ->
            LET found == find_chip(inv, s.name, s.sizes)
                n == Len(inv.list) + 1
            IN IF found # {}
               THEN [inv EXCEPT !.env = (s.name :> Min(found)) @@ @]
               ELSE IF ~next_air(inv, LookupType(s.name)) THEN [inv EXCEPT !.failed = TRUE]
               ELSE [inv EXCEPT !.env = (s.name :> n) @@ @,
                                !.list = Append(@, [type |-> LookupType(s.name), ops |-> {}, feeds |-> {},
                                                    sizes |-> IF inv.gpu THEN s.sizes ELSE inv.airs[n].sizes])]
\* A failure is returned at once: nothing more is inserted.
Chips(inv, script) == RunScript(LAMBDA v, s : IF v.failed THEN v ELSE AddChip(v, s), inv, script)
NoChips(list, gpu) ==
    [list |-> <<>>, env |-> <<>>, insertion |-> <<>>, airs |-> list, gpu |-> gpu, failed |-> FALSE]
CreateCpu(c, list) ==
    FoldLeft(LAMBDA inv, e : Chips(inv, CpuProver(e, c)), Chips(NoChips(list, FALSE), SystemCpuBuilder(c)), c.cpu)
CreateGpu(c, list) ==
    FoldLeft(LAMBDA inv, e : Chips(inv, GpuProver(e, c)), Chips(NoChips(list, TRUE), SystemGpuBuilder(c)), c.gpu)
\* The connector counts range checks, the memory controller hashes.
SystemChips(inv) == << {}, {inv.env["range"]}, {inv.env["hasher"]}, {inv.env["hasher"]} >>

\* AIR ids count from zero, the system's first, then the extensions' last inserted first.
executor_idx_to_air_idx(inv) ==
    [e \in 1..Len(inv.insertion) |-> NumSystemAirs + Len(inv.list) - (inv.insertion[e] + 1)]
\* Traces of the extensions are generated last inserted first.
\* Mutant of TraceOrder: the arenas meet the chips in the order of insertion.
TraceOrderForward(n) == [i \in 1..n |-> i]
TraceOrder(n) == [i \in 1..n |-> n + 1 - i]
\* The position in the inventory of an AIR id past the system's.
InsertionOf(id) == NumSystemAirs + Len(chips.list) - id

-----------------------------------------------------------------------------
Start ==
    /\ config \in Configs
    /\ executors = <<>> /\ airs = <<>> /\ chips = <<>> /\ proving = <<>> /\ outcome = "running"

\* A size that fits neither layout makes each of the three extensions panic.
ModulusTooLarge(c) ==
    \/ "modular" \in Range(c.fields) /\ TooLarge(c.moduli)
    \/ "fp2" \in Range(c.fields) /\ TooLarge(c.fp2)
    \/ "ecc" \in Range(c.fields) /\ TooLarge(c.curves)

\* VirtualMachine::new creates the AIRs (key generation may have created them
\* before), the chips of a backend and last its executor.
CreateAirs ==
    /\ outcome = "running" /\ airs = <<>>
    /\ airs' = IF ModulusTooLarge(config) THEN <<>> ELSE ExtendCircuit(config)
    /\ outcome' = IF ModulusTooLarge(config) THEN "ModulusTooLarge" ELSE "running"
    /\ UNCHANGED <<config, executors, chips, proving>>

CreateChipComplex ==
    /\ outcome = "running" /\ airs # <<>> /\ chips = <<>>
    /\ \E inv \in {CreateCpu(config, airs.list), CreateGpu(config, airs.list)} :
         /\ chips' = inv
         /\ outcome' = IF inv.failed \/ Len(inv.list) # Len(airs.list) THEN "InventoryMismatch" ELSE "running"
    /\ UNCHANGED <<config, executors, airs, proving>>

\* VmExecutor::new: the last step of VirtualMachine::new, and on its own before any
\* AIR exists, as the SDK's builder calls it.
CreateExecutors ==
    /\ outcome = "running"
    /\ chips # <<>> \/ (airs = <<>> /\ executors = <<>>)
    /\ LET inv == ExtendExecution(config)
       IN /\ outcome' = CASE ModulusTooLarge(config) -> "ModulusTooLarge"
                          [] inv.failed -> "ExecutorExists"
                          [] chips = <<>> -> "running"
                          [] OTHER -> "ok"
          /\ executors' = inv
    /\ UNCHANGED <<config, airs, chips, proving>>

\* Records lie in the arena of the AIR an executor is routed to; the arenas past
\* the system's meet the chips in reverse, and empty traces are left out last.
Enumerate(traces) == {<<i - 1, traces[i]>> : i \in {j \in 1..Len(traces) : ~traces[j].empty}}
\* Tables have as many rows whatever is counted in them.
ConstantHeight == {LookupType("bitwise"), LookupType("tuple"), T("VariableRangeCheckerAir")}
GenerateProvingCtx ==
    /\ outcome = "ok" /\ proving = <<>>
    /\ \E used \in {{}} \cup {{e \in 1..Len(executors.list) : e % 2 = k} : k \in 0..1} :
         LET n == Len(chips.list)
             routed == executor_idx_to_air_idx(chips)
             arenas == [id \in 0..NumSystemAirs + n - 1 |->
                           UNION {executors.list[e] : e \in {x \in used : routed[x] = id}}]
             recorded == {p \in 1..n : arenas[InsertionOf(p)] # {}}
             fed == UNION {chips.list[p].feeds : p \in recorded} \cup {chips.env["hasher"]}
             system == [i \in 1..NumSystemAirs |-> [type |-> SystemAirList(airs.env)[i].type, ops |-> {},
                                                    records |-> {}, empty |-> FALSE]]
             traces == system \o [i \in 1..n |->
                 LET chip == chips.list[TraceOrder(n)[i]]
                     records == arenas[NumSystemAirs + i - 1]
                 IN [type |-> chip.type, ops |-> chip.ops, records |-> records,
                     empty |-> records = {} /\ chip.type \notin ConstantHeight
                               /\ TraceOrder(n)[i] \notin fed]]
         IN proving' = [used |-> used, contexts |-> Enumerate(traces)]
    /\ UNCHANGED <<config, executors, airs, chips, outcome>>

VmNext == CreateAirs \/ CreateChipComplex \/ CreateExecutors \/ GenerateProvingCtx

-----------------------------------------------------------------------------
\* The inventories are complete; trace generation leaves them as they are.
Built == outcome = "ok" /\ proving = <<>>

\* The AIRs and the chips of every configuration whose moduli fit 48 limbs, a
\* hand-written one or any choice of the SDK's extensions, pair up in both backends.
\* This is so even when the executor is refused after them, which happens only when
\* there are so many moduli that their opcodes run into those of the curves.
ConstructionSucceeds ==
    /\ outcome # "InventoryMismatch"
    /\ outcome = "ExecutorExists" => "ecc" \in Range(config.fields) /\ Len(config.moduli) > 32

\* An opcode's records are routed to the AIR that constrains this opcode, and the
\* trace is generated by the chip of the same unit, although addition and
\* multiplication AIRs have one type and nothing but positions relates the three
\* inventories.
RecordsReachTheirChip ==
    Built => LET routed == executor_idx_to_air_idx(chips)
             IN \A o \in DOMAIN executors.lookup :
                  LET id == routed[executors.lookup[o]]
                  IN /\ o \in into_airs(airs)[id + 1].ops
                     /\ o \in chips.list[InsertionOf(id)].ops

\* A chip counts its lookups in just the chips whose AIRs receive on the buses that
\* its AIR sends on (the first table that is large enough, one block hasher for each
\* hash size), in the CPU and in the CUDA builders, and a table has the size of its AIR.
LookupsMatchBuses ==
    Built => /\ \A i \in 1..Len(chips.list) :
                  /\ {airs.list[j].bus : j \in chips.list[i].feeds} = airs.list[i].looks
                  /\ \A j \in chips.list[i].feeds :
                       chips.list[j].type[1] = "Sha2BlockHasherVmAir" => chips.list[j].type[2] = chips.list[i].type[2]
                  /\ chips.list[i].sizes = airs.list[i].sizes
             /\ \A i \in 1..NumSystemAirs :
                  {airs.list[j].bus : j \in SystemChips(chips)[i]} = SystemAirList(airs.env)[i].looks

\* A chip's trace is generated after the traces of all chips that feed it: by then
\* every lookup has been counted and every record handed over.
PeripheryAfterProducers ==
    Built => LET order == TraceOrder(Len(chips.list))
             IN \A s, t \in 1..Len(order) : order[t] \in chips.list[order[s]].feeds => s < t

\* Metered execution adds rows to chips it finds by an offset from its own AIR:
\* the permutation after the Keccak operation, the block hasher after the SHA-2
\* main AIR, the Poseidon2 chip of the deferrals one after CALL and two after
\* OUTPUT, and the system's Poseidon2 chip one before the last AIR.
MeteredOffsets ==
    Built => LET routed == executor_idx_to_air_idx(chips)
                 TypeAt(o, offset) == into_airs(airs)[routed[executors.lookup[o]] + offset + 1].type
                 has == DOMAIN executors.lookup
             IN /\ 784 \in has => TypeAt(784, 1) = T("KeccakfPermAir")
                /\ 800 \in has => TypeAt(800, 1) = <<"Sha2BlockHasherVmAir", 256>>
                /\ 801 \in has => TypeAt(801, 1) = <<"Sha2BlockHasherVmAir", 512>>
                /\ 2048 \in has => TypeAt(2048, 1) = T("DeferralPoseidon2Air")
                /\ 2049 \in has => TypeAt(2049, 2) = T("DeferralPoseidon2Air")
                /\ LET all == into_airs(airs)
                   IN all[Len(all) - 1].type = <<"Poseidon2PeripheryAir", Poseidon2Class(config.degree)>>

\* Whatever executors ran, each trace handed to the prover carries the id of the AIR
\* it belongs to, holds records of that AIR's opcodes only, and no executor's
\* records are lost with the empty traces.
TracesKeyedByAir ==
    proving # <<>> =>
        LET all == into_airs(airs)
        IN /\ \A ctx \in proving.contexts :
                /\ all[ctx[1] + 1].type = ctx[2].type
                /\ ctx[2].records \subseteq all[ctx[1] + 1].ops
           /\ UNION {ctx[2].records : ctx \in proving.contexts} = UNION {executors.list[e] : e \in proving.used}
================================================================================
