# OpenVM: a TLA+ verification project

OpenVM is a modular zkVM. A guest program (RISC-V, transpiled to the VM's own
instructions) runs three ways: *pure* execution computes the result, *metered*
execution also estimates the trace heights of every chip and cuts the run into
segments, and *preflight* execution re-runs one segment, writes the record
arenas and the offline-memory log, from which the chips' traces are generated
and the segment is proved. Segment proofs are then folded by aggregation
circuits, each of which contains a circuit that verifies STARK proofs, into one
proof that the root circuit or the native verifier accepts.

The modules model this way from one end to the other: from an ELF file to a
program, from a configuration to the chips of a VM, the execution modes
(interpreter and generated code), memory and its argument, the RV32IM
instructions and their constraints, segments and their chaining, the
recursive verifier, the aggregation tree, and deferred calls.

Paths below are relative to the repository root; `vm/` stands for
`crates/vm/src/`. Each definition that models code is listed in `PROJECT.json`
("map") with the lines it models.

## 1. Inventory

| Part | State it keeps | Operations | What makes it correct |
|---|---|---|---|
| Metered execution (`vm/arch/execution_mode/metered`) | trace heights, page bit set, pages since the checkpoint, checkpoint, countdown, segments | one per instruction, `check_and_segment`, `on_terminate`, suspend and resume | segments tile the run, heights cover it, limits hold up to one check window, no panic |
| Ahead-of-time execution (`vm/arch/aot`, RV32IM `execution.rs`) | machine registers, guest registers in lanes and overrides, stack, instruction counter | one generator per instruction, segment check, calls of handlers, ends of a run | does what the interpreter does, from the same state, and returns cleanly |
| Online memory (`vm/system/memory/online.rs`) | data, last access time per block, clock | read, write, increment, finalize | every access row follows the previous access of its block |
| Memory argument (`offline_checker`, `persistent.rs`) | bus messages, boundary rows | access rows, boundary rows | the bus balances for honest rows, and only for rows that behave like a memory |
| Merkle commitment (`vm/system/memory/merkle`) | sparse tree, rows, roots, top tree | from_memory, finalize, trace generation, public values proof | root commits to all of memory, roots chain, rows satisfy the AIR |
| Record arenas (`vm/arch/record_arena.rs`) | buffers, offsets, layouts | allocate, seek, into_matrix | within the estimate every record fits, aligned, and reaches its rows |
| RV32IM extension | one instruction: operands, record, row, lookups | executors, fillers (CPU, GPU), AIRs, adapters, hint store | honest rows are accepted, accepted rows are executions, modes agree |
| Preflight interpreter, program and connector chips | execution frequencies, VM state, boundary states | execute a segment, count instructions, publish pcs and exit code | one segment's rows describe exactly that segment; the timestamp is bounded |
| Continuations prover (`VmInstance`, `vm/arch/vm.rs`) | an optional VM state, interpreter, memory controller | new, reset_state, prove_continuations | each call proves the execution on its own input |
| Segment verification (`verify_segments`) | program commitment, first and last pc and root | one iteration per proof | what is accepted is one terminating execution |
| Recursive verifier (`crates/recursion`) | transcripts, preflights, tables with multiplicities | preflight per proof, trace generation per module, shared tables | buses balance and rows are accepted for every proof shape |
| Aggregation (`crates/continuations`, `crates/sdk/src/prover`, `crates/verify`) | proofs per layer, published commits and flags, depths | inner, deferral, hook and root circuits, the SDK's provers, native verifier | honest trees are never refused, what is accepted is genuine |
| Deferral extension (`extensions/deferral`) | inputs and answers, accumulators, lookup tables | CALL, OUTPUT in two executions, trace generation, AIRs | executions agree, traces balance, accepted rows are genuine |
| VM configuration (`vm/arch/extensions.rs`, `crates/sdk-config`) | inventories of executors, AIRs, chips | build, generate traces | positions mean the same in all inventories, counters come after their users |
| Transpiler (`crates/toolchain/transpiler`) | words, instructions, memory image | decode, transpile | one extension per word, executable, at its address |
| Periphery chips | multiplicities | count, generate | what is received is what was sent |
| Static verifier, modular arithmetic, hash and curve chips, CUDA kernels, CLI, guest libraries | see `PROJECT.json` | | section 7 |

Interaction: the metered context hands *segments* (number of instructions and
heights per chip) to `prove_continuations`, which calls the preflight
interpreter for each, passes its records to the chips and the result to the
proving engine. Memory is shared state: the VM state owns it, the memory
controller gets a clone at the start of each segment, tracing memory adds
access times, and trace generation reads all three. Chips meet in shared
counters while traces are generated in parallel, and on buses once they are.
A verifier sees only what is published: program commitment, pcs, exit code,
memory roots, and in the layers above the commits of verifying keys and flags
that tell which layer a proof is of.

What is hard here. There are no messages that get lost and nothing is
recovered after a crash. The difficulty is in state that outlives the step it
belongs to (checkpoints used at a later check, tables kept from segment to
segment, an instance's state reused by the next call or lost in a failed one);
in executions of the same program that must agree (metered, preflight,
generated code); in one property split over many chips and written down
several times by hand (executor, filler, AIR; executors, AIRs and chips of an
extension; circuit and native verifier); in counters that threads share; in
layers told apart only by what a proof says of itself; and in boundaries (a
segment that touches nothing, a trace of no rows, a value at the order of the
field). `PROJECT.json` lists each under "hazards", at its line, with the
properties that would catch it.

## 2. Modules

| Module | Models | Uses |
|---|---|---|
| `Segmentation` | `MeteredCtx`, `MemoryCtx`, `SegmentationCtx` | |
| `OfflineMemory` | `TracingMemory`, the bus messages of honest access and boundary rows | |
| `MemoryArgument` | the offline checker's and boundary chip's constraints, for arbitrary rows | |
| `MemoryMerkle` | `MerkleTree`, `MemoryMerkleChip` and AIR, public values proof, the metered estimate of rows | |
| `RecordArenas` | `MatrixRecordArena`, `DenseRecordArena`, `RecordSeeker` | |
| `MemorySystem` | the four views above on one instance each | the four above |
| `SegmentVerifier` | the checks `verify_segments` makes on one proof (operators) | |
| `VerifySegments` | `verify_segments` on any sequence of proofs | `SegmentVerifier` |
| `GuestExecution` | `VmState`, one instruction, a whole execution (operators) | |
| `Continuations` | `VmInstance::prove_continuations`, preflight, verification by the caller | `GuestExecution`, `SegmentVerifier` |
| `ContinuationProver` | abstract specification: what a prover promises its caller | `GuestExecution` |
| `FieldLimbs` | a small prime field, words in limbs, the tables behind lookup buses, the sub-AIRs the chips share, and what adapters say on the buses | |
| `AluCores`, `BranchCores`, `MulCores`, `JumpCores`, `LoadStoreCores` | executors, fillers and constraints of the thirteen RV32IM cores (operators) | `FieldLimbs` |
| `RegisterAdapters`, `LoadStoreAdapter`, `HintStore` | the adapters and the hint store chip | `FieldLimbs` |
| `CoreChip` | the machine around a chip: execute, fill a row or choose one, judge it | |
| `Rv32imCores`, `Rv32imAdapters` | all chips, each on its own small field | the modules above |
| `AotExecution` | the generated x86-64 code and the interpreter, in lockstep | |
| `RecursionBus` | proofs, shapes, names of field values, messages | |
| `RecursionFront`, `RecursionGkr`, `RecursionTranscript`, `RecursionWhir`, `RecursionStacking`, `RecursionBatch` | the modules of the verifier circuit: preflight, trace generation, AIRs | each other |
| `Recursion` | `VerifierSubCircuit`: threads, shared tables, all messages | the Recursion modules |
| `InnerCircuit` | the inner aggregation circuit and its trace generators | |
| `AggregationCircuits` | deferral inner, hook and root circuits, native verifier | `InnerCircuit` |
| `Aggregation` | the SDK's provers, and a prover that departs from them | `AggregationCircuits` |
| `VmConfiguration` | executor, AIR and chip inventories of every extension and configuration, order of trace generation | |
| `Transpiler` | `Elf::decode`, `Transpiler::transpile`, the processors of all extensions | |
| `DeferralExtension` | CALL and OUTPUT from execution to traces, Poseidon2, count and connector chips; runs `VmConfiguration` and `Transpiler` too | the two above |
| `*Proofs` | theorems about the module of that name; `MerkleRowsProofs` continues `MemoryMerkleProofs` | |

The module of a run holds its instance for TLC in a section at its end
(`Segmentation`, `Continuations`, `VerifySegments`, `AotExecution`, `Recursion`)
or is itself the instance (`MemorySystem`, `Rv32imCores`, `Rv32imAdapters`).

How state and actions correspond to the code:

**Segmentation.** One variable per field of the three contexts, by name.
`Execute(i)` is one instruction (its rows, `on_memory_operation` for each page
it touches, the countdown). `CheckAndSegment` and `CheckWithoutSegment` are
`check_and_segment` with and without a cut, `Terminate` is `on_terminate`
(with the final segment), `Fail` an execution error, `Resume` continues after
a suspension; `ExecutePanics` and `CheckPanics` are the assertions on the
since-checkpoint buffer and the `checked_sub` of `reset_trace_heights`. Two
history variables hold the rows and pages of every instruction: the properties
compare the recorded heights with them. A third, `roomy`, says whether every
instruction so far left room for the register pages in the buffer. The proving backend's memory formula
is a sum of padded cells.

**OfflineMemory.** `bus` counts, for each message, sends minus receives.
`Read`, `Write` and `IncrementTimestamp` are the three ways the clock moves;
an access puts its receive and its send on the bus at once, as the row it
becomes will. `Finalize` adds the boundary rows.

**MemoryArgument.** The rows are no longer what the VM writes but whatever
satisfies the constraints. Two facts are assumed, because other parts of the
system provide them: the t-th access has time t (the execution bus chains
timestamps) and a chunk has at most one initial and one final row (the Merkle
AIR expands each node once).

**MemoryMerkle.** The tree is a partial function from node indices, as the
code's hash map; absent nodes are zero nodes. A hash is a term, so two hashes
are equal only if their inputs are: Poseidon2 is taken to be collision-free.
`FinalizeTree` is `MerkleTree::finalize` including the artificial touch of
leaf 0. Its rows come bottom-up, from left to right within a height: the row of
a node is at the node's rank in that order. `TraceRows` is the reversal and
swap of `generate_proving_ctx`, `Eval` and `Interactions` the AIR, with the
padded rows; a bus balances if each message has as many senders as receivers. Assumed of an image
(`MerkleAssumption`): the address space of the public values holds nothing
behind them, which is what its size in `MemoryConfig` says.

**RecordArenas.** A dense and a matrix arena take the same records in
lockstep, from a buffer at any address, until one runs out; then the seeker
copies the dense one into a matrix and both become traces. Of a layout
(`LayoutAssumption`) it is assumed what Rust and the chips' `size_of` checks
give: a size is a multiple of its alignment, of two alignments the smaller
divides the larger, none exceeds that of a field element or `MAX_ALIGNMENT`, an
adapter record is not empty, and a record fits into its row.

**SegmentVerifier, VerifySegments.** `ErrorOf` has the order of the code (the
order of AIR indices). A proof is known by its public values and two flags. The
assumption on the STARK verifier is `Sound`: an accepted proof is of a run of
its program between its pcs and roots, and if it says "terminate" the
instruction there is TERMINATE with that exit code. A proof that does not
terminate may carry any exit code: the connector AIR does not constrain it.

**GuestExecution, Continuations.** An instruction is known by what it does to
pc, memory, input stream, hint stream and random generator: these are what a
segment boundary or a second call could get wrong. A hint is one word. The
state of the instance (`state`, an Option; `frequencies`; `initial_memory`;
`top_tree`) is kept apart from the call's local variables, which `Drop` clears
on every way out. Every way to cut the execution into non-empty segments is
tried: `Segmentation` proves (`SegmentationTiles`) that metered execution
yields such a cut. A root is known by the memory it commits to, which is what
`MemoryMerkle` establishes. `GenerationFails` and `EnginePanics` are the two
failures of `prove_continuations` after the state was taken.

**RV32IM.** `CoreChip` ties a core's parts together as the VM's integration API
does. An instruction is executed (preflight), interpreted (pure, metered), and
a row is made: by the CPU filler, the GPU filler, as padding, or by a prover
that picks any row the AIR accepts for the operands on the buses. Words and
fields are small (each chip has the smallest limbs and field in which its
constraints still separate what they must), so that the search over rows is
complete. `HintStore` does the same for traces of several rows. Load and store
cores are run with the alignments the executor accepts (`Misaligned` FALSE).
A JAL or JALR at the last pc is left out: a link beyond it does not fit
`PC_BITS` and has no row.

**AotExecution.** `m` is the machine: sixteen general registers, guest
registers in xmm lanes or in the registers of the override map, the stack, and
the VM state that only Rust code sees. Each `Gen…` operator is a generator of
the source together with the execution of what it emits; `ref` is the
interpreter's state after the same instruction. The frame (`AsmRun`, `EndRun`),
the segment check, calls of handlers through the shims and the ways
a run ends are actions. Assumed: the shims that only read or set a field
clobber no more than rax, rdi and rsi (`LeafClobbers`). At a misaligned access
the interpreter refuses and the generated code goes on; the instruction set
gives such accesses no meaning (`docs/vocs/docs/pages/specs/openvm/isa.mdx`) and the model stops there
(`Misaligned`). Programs neither jump out of their range nor run past their
last slot.

**Recursion.** A field value is a name; two places have the same name where the
child verifier's own checks make the values equal. What is kept is the control:
which row speaks on which bus, how often, about which round of which proof, at
which place of the transcript. A thread per proof runs preflight, then the
modules generate traces in parallel and count into tables they share, and the
tables' traces come last. `ForOuter` are the messages for the circuit around the
verifier. Restrictions on child circuits: a preprocessed trace's height is fixed
by the key, an AIR with public values is required, no AIR has cached mains and
public values both. Whether a required height is at its maximum is one flag
(`tight`).

**Aggregation.** A digest is a prefix code of what it hashes. Keys are
`[cached, pre]`: the commitment of the constraint expressions, which is what
ties a proof to a circuit, and the preprocessed commit. The verification of a
child means that it satisfies the circuit its key names (the Recursion modules
are about that). In honest behaviours the SDK's provers run layer by layer: VM
tree, one tree per deferral circuit with its hook, the deferral tree, the mix,
extra wraps, and retries of the root prover (its trace heights are a
nondeterministic failure). In adversary behaviours a prover holds genuine and
forged proofs of applications, hooks and inner circuits, runs any circuit on
them in any order and changes a field of one trace; a run with a gap is tried
without or with a genuine hook, a complete one with any.

**DeferralExtension.** A program of CALLs and OUTPUTs is executed metered, then
segment by segment with tracing; then one action per row of the CALL chip and
per record of OUTPUT, in any order, fills traces and counts permutations and
circuits, on a CPU (a concurrent map) or a GPU (a buffer); then the tables
generate and clear. A digest has two cells and a block one; Poseidon2 is a free
constructor. Buffers may overlap (`rd = rs`), and an output's section may look
like the start of the sponge. The rows carry the auxiliary columns of the
canonicity sub-AIR: a trace row is the record's own memory, so an OUTPUT row after
the first has its columns cleared before it is filled (`OutputLtAux`), and padded
rows and these rows must meet the constraints that no count switches off. The
`Forge…` actions build traces of any rows that the constraints (`OutputEval`, the
count table's) let through, with any auxiliary columns. Canonicity, with count one
and zero, and the connector's timestamp limbs are checked over every input of a
small field. The same run steps through `VmConfiguration` (build the
inventories extension by extension, CPU or GPU, then generate traces) and
`Transpiler` (words and ELF files).

**VmConfiguration.** Each extension's executors, AIRs and chips are written
down as in the code, three times; buses and periphery chips are found or
created as `find_air` and `find_chip` do. The actions are the steps of
`VirtualMachine::new`, in its order: `CreateAirs`, `CreateChipComplex` for one of
the backends, `CreateExecutors`, so that opcodes that clash are found when AIRs
and chips exist already. `CreateExecutors` also comes first, as the SDK's builder
calls `VmExecutor::new`. `ConstructionSucceeds` says that a clash needs more than 32
moduli beside curves, and that AIRs and chips pair up in every configuration, those
with a clash included. `RunScript` is a fold in stages, which TLC's stack needs.

**Transpiler.** A word is its fields. Every field value that a processor tests
is in the enumerated sets, and the limits of each immediate. An ELF file has one
to three segments over a few addresses, sizes and flags; `ElfPlacesInstructions` says
exactly where an accepted file's instructions are, also when an executable segment
has more memory than file data (see section 5).

## 3. Runs

| Run | Properties | Bounds, and why they are enough |
|---|---|---|
| `segmentation` | `TypeOK`, `SegmentsTile`, `HeightsCoverExecution`, `OversizedIsOneWindow`, `SuspendsNearBoundary`, `NoPanic` | seven instructions, a check every two: three checks and a partial window, so a cut, a cut right after a cut, and a final segment all happen; one instruction is so large that one window exceeds the height limit, another leaves no room for the register pages, so that accesses and checks panic in some runs |
| `segmentation_checkpoint` (violation) | `CheckpointWithinLimits`: a checkpoint over the limits | as `segmentation` |
| `memory` | `BusBalances`; `AcceptedRowsAreMemory`; `RootsCommit`, `RowsAccepted`, `EstimateCovers`, `PublicValuesVerify`; `ArenasKeepRecords` | accesses: two chunks of two blocks, two values, four times (partly touched chunks, repeated accesses, skipped times); arguments: one chunk, three accesses (two can claim each other's past while a third intervenes); tree: height four, three touches, two segments, three images (siblings, cousins, distant chunks, an untouched segment, data behind a zero page); arenas: three layouts, heights up to four, every base address |
| `verify_segments` | `AcceptedIsExecution`, `RejectsOnlyIncomplete` | three proofs: a first, a middle and a last one; two programs, one of which fails |
| `continuations` | `ProgramBusBalances`, `RefinesProver`, `CallReturns` | two calls (what the first leaves is what the second meets), executions of up to nine instructions, all cuts, three programs: input, random hints in a loop, failure exit code, end of input, a pc outside the program |
| `rv32im_cores` | `HonestRowsAccepted`, `AcceptedRowsExecute`, `ModesAgree` | thirteen cores, every opcode, operands that meet carries, signs, zero and division by zero; every row of the small field |
| `rv32im_adapters` | the same three | every adapter; buffers of up to the hint store's bound, several instructions per trace |
| `aot` | `AotAgrees`, `ReturnsAgree` | four limbs of one bit, eight slots, twelve steps: each instruction on register files with zero, equal and extreme operands, loops, handlers between generated code, empty slots, exits of every kind, limits that end a run in the middle |
| `recursion` | `BusesBalance`, `RowsAccepted` | four child circuits, 55 sets of one to three proofs: absent AIRs, heights below `2^l_skip`, no interactions, no multilinear round, embedded in an outer circuit; every interleaving of the generators that share a table |
| `aggregation` | `HonestNeverRefused`, `AcceptedIsGenuine`, `VerdictsAgree` | up to three segments, arity up to three, nine patterns of calls over up to three circuits, Merkle depth three, two retries (eight in the code), and deferral switched off; five segments, and nine circuits, so that either tree is the deeper one; an adversary with seven steps (enough for both trees and their mix) and one changed field |
| `extensions` | `DeferredCallsAgree`, `HonestTraceAccepted`, `SystemHashesBalance`, `AcceptedTracesGenuine`, `LimbsExact`, `InventoriesAgree`, `TracesInOrder`, `ProgramsTranspile` | programs of four instructions, two per segment, two segments (what the first leaves in a table meets the second), two circuits; forged traces of up to four rows; field 17 in base 4, count zero included, and field 67 with every split of the timestamp; every subset of the SDK's extensions and the fixed configurations, with moduli of both sizes, one too large and too many; every form of every word |
| `elf_segments` (violation) | `ElfSegmentsContiguous`: a file whose second executable segment is misplaced | as `extensions`, only ELF files |

Every property of a passing run has a mutant under "mutants": a change of one
definition, like a plausible bug in that code, that makes the property fail.
The mutated forms stand next to the definitions they replace. A property that
is a conjunction has named conjuncts where they speak of different code.

**Fairness.** Only `Continuations` has a liveness property, under
`WF_vars(Run)`: a call and the verification that follows are one thread's
code, which goes on while it can; that a next call comes is not assumed.
`CallReturns` then says that no loop of the call waits for something that does
not happen. That guest programs halt is an assumption of the instance
(`HaltsAssumption`), evaluated by TLC. The other modules are straight-line
code or bounded loops; that they end is the absence of deadlock before `Done`.

**Bounds.** `MaxInsns`, `MaxTime`, `MaxTouches`, `MaxSegments`, `MaxProofs`,
`MaxCalls`, `MaxSteps`, `MaxPerSegment`, `MaxArity`, `MaxDeviations`,
`MaxMerkleDepth`, `MaxHeight` and `MaxRows` are the only bounds that are not the
code's (`MaxRetries` stands for a larger one of the code). The theorems of
section 4 hold for every value of those of their modules. Deadlock is checked
except in `aggregation` (an adversary may run out of steps), `extensions` (every
part ends) and `rv32im_adapters` (a hint store's trace is judged, and that is all).

## 4. Theorems

All are proved by TLAPS for every value of the constants that satisfies the
named assumptions of the module.

**SegmentationProofs.** From `ChipsAssumption`, `PagesAssumption`,
`BoundsAssumption`, `InsnsAssumption` (finite sets of chips and pages, natural
costs). None of the properties is inductive by itself. `IInv` adds: the
countdown, `instret` and the number of executed instructions agree
(`Countdown`); the open segment's row counts, and those at the checkpoint, are
differences of the history (`RowsCounted`); a memory chip's height is a
multiple of the pages already turned into rows, the page set contains the
registers and all pages of the open segment, and the since-checkpoint buffer
those since the checkpoint (`PagesCounted`); constant heights stay
(`ConstantsKept`); a checkpoint over the limits is one window into its segment
(`CheckpointPlace`). The step that needs all of it is the cut: the new segment
gets the checkpoint's heights, the open one what the buffer replays.
`SegmentationTypeOK`, `SegmentationTiles`, `SegmentationCovers`,
`SegmentationOversized`, `SegmentationNoUnderflow` and `SegmentationSuspends`
follow. `SegmentationCapacity` needs a second invariant, `BufferHasRoom`: with
at least two instructions per window and each leaving room for the register
pages, the buffer never overflows. `SegmentationNoPanic` joins the two.

**OfflineMemoryProofs.** From `MemoryAssumption`. `IInv` says which messages
are outstanding before the end: of every accessed block its current value, and
the receipt of its initial one; of the others none (`BusOutstanding`), and
untouched blocks still hold the initial value (`UntouchedKept`). The boundary
rows are the negation of that, which is `OfflineMemoryBalances`;
`OfflineMemoryTimestamps` follows from `LastAccessPast`.

**VerifySegmentsProofs.** From `RunsAssumption` (runs compose). `ChainSoFar`:
what the loop carries is a run of the committed program from the first pc and
memory to the last; an accepted proof extends it because it starts where the
chain ends. `VerifySegmentsSound` is `AcceptedIsExecution`. The other direction
needs what the loop carries to be exact: `AccTracksProofs` says that the
commitment is that of the first proof, the last pc and root are those of the
latest, and that the loop runs only while proofs are left, so that each comparison the code makes is one between neighbouring
proofs. `VerifySegmentsComplete` is `RejectsOnlyIncomplete`: an error means that
the proofs are not a chain that terminates well.

**MemoryArgumentProofs.** From `AccessesAssumption`. `MemoryArgumentSound` is
about rows of a prover's choice. A block at a time is sent at most once, by the
access row of that time or, at time zero, by the initial boundary row; since the
bus balances, no two rows receive the same block and time, and the lower bound on
the time difference makes every receive older than its row. Take the least time
at which a row receives something other than the latest access before it: what it
receives is older, and the access that follows that older one came before and has
received it already.

**ContinuationsProofs.** From the assumptions of `GuestExecution` and
`Continuations`. `IInv` says that the states met so far are those of the whole
execution on the call's own input, at the boundaries of the cut; that a
segment's frequencies count exactly its instructions; that the published pcs,
roots and flags are of those states; and that the instance's state is absent
only after a failure. `ProgramBusBalanced` is the second part.
`ContinuationsRefineProver` shows the refinement of `ContinuationProver`: one
lemma per action, most of them a stutter; the step that returns is the one that
needs the chain of segments to be accepted by the verifier.

**MemoryMerkleProofs.** From `MerkleAssumption`, for every height and block of
public values. Powers of two are the numbers of subsets of an interval, which
gives their arithmetic without a recursive definition to unfold. Reference tree,
zero nodes and layers are recursive functions on numbers; that they satisfy
their equations, and everything said of all levels, is by the least level at
which it fails. A sparse tree *represents* a memory if `get_node` answers with the
reference tree's node everywhere, for absent nodes with the zero node;
`MerkleTree::finalize` keeps that if the touched leaves *cover* the difference of
the two memories. The artificial touch of leaf 0 only adds to the cover.
`MerkleInv` carries it from segment to segment, and `MerkleRootsCommit` is
`RootsCommit`. `PublicValuesOpen` (`PublicValuesVerify`) follows the path of the
public values' subtree up to the root that the first theorem gives.

**MerkleRowsProofs.** From `MerkleAssumption`. `FinalInv` adds to `MerkleInv`
that a finalized segment is `FinalizeTree` of the tree and memory it started
from, which gives every row its node and its contents. `MerkleEstimateCovers`
is `EstimateCovers`: a parent that gets rows is an ancestor of a touched leaf, so
it lies in or above a page that metering has counted; it is mapped to a slot of
such a page (a node inside the page, or a place on its path to the root), no two
parents to the same slot, so there are no more of them than metered slots.
`MerkleRowsAccepted` is `RowsAccepted`, in three parts. Order: the rank of nodes
is a bijection onto positions that climbs with the height, so that after reversal
and swap the root's two rows come first and heights descend by at most one where
the AIR compares neighbours. Contents: each constraint on a row of a node, and on
a padding row, follows from the node's two hashes. Bus: a message carries height,
labels and hash; labels determine the node, so a message is known by its node and
by whether it is of the initial or the final tree. Each such key has one sender and
one receiver: a changed node's own row (or the boundary chip's leaf) and its
parent's row; an unchanged child has no rows of its own, and its parent's final
row, marked as of the other direction, cancels its parent's initial row. That is
where the subtrees that `MerkleTree` skips and the direction flags must agree.

**RecordArenasProofs.** From `LayoutAssumption`, for every layout, height and base
address. `RecordArenasKeepRecords` is `ArenasKeepRecords`. `ArenaInv` adds what
holds while records are allocated: the dense arena's position is the end of its last
record, bounded by the rows used so far and aligned relative to the base address
(`ArenaType`), and each record's bytes are in both buffers at the places that the
number of rows before it gives (`RecordsStored`). Disjoint places are the heart
of it: a later record starts at or after the end of an earlier one, for which
the alignments of adapter and core must divide each other. The seeker's loop
over the dense buffer and the rows used by a sequence of records recur on a
number; what they yield is shown by the least turn at which it fails. Rows of
the final trace are then read off the bytes (`MatrixToTrace`).

**Only model-checked.** Liveness (`CallReturns`) is out of the prover's reach. So
is what a fold over a sequence computes for every input, as in the traces of the
Recursion modules. (A function that recurs on a number is not: the least number
at which a claim fails serves as induction, as above.) The aggregation circuits
and the deferral extension: their adversaries' steps are searched by TLC.
The RV32IM cores: that no other row is accepted depends on the field. AOT,
configurations and transpiler: case analyses over the text of the code, where
TLC is exhaustive already.

## 5. Findings

`CheckpointWithinLimits` (`segmentation_checkpoint`) is a disagreement of a
comment with the code, without consequence for the proofs produced: the comment
in `segment_ctx.rs` calls the checkpoint the "last known state where all
thresholds satisfied". It is updated after every check, also right after a cut
whose carried-over heights are over a limit already. What does hold is
`OversizedIsOneWindow`.

`ElfSegmentsContiguous` (`elf_segments`) is a disagreement of comments in `elf.rs`
and an entry of the change log with the code. They say that non-contiguous executable
segments are rejected, which is what makes a list of instructions with one base
address enough. The end that is compared is `vaddr + mem_size`, but words past
`file_size` get no instruction: a file with such a segment and another executable
one right after it is accepted, and the second one's instructions are at addresses
too low by the missing words. Linkers do not usually lay out files like this.
`ElfPlacesInstructions` states what holds of every accepted file: each instruction
is at the address its segment gives it, less the missing words before it.

Worth knowing, though no text contradicts it: when `prove_continuations` fails
after its metered execution, the instance has lost its state and the next call
panics in `reset_state`. `ContinuationProver` states it (`failed`, `Panic`), and
`RefinesProver` shows that nothing else makes a call panic. The since-checkpoint
buffer is shared by all instructions since the checkpoint and the register
pages, so that `CapacitySlack` asks more of an instruction than the per-instruction
bound that the assertion names.

## 6. Plan

Done: segmentation; memory (accesses, constraints, commitment, arenas); segment
verification; continuations; RV32IM; AOT execution; recursive verifier;
aggregation; deferral; configurations; transpiler.

Left, in this order:

1. Theorems: `AcceptedIsGenuine` of the aggregation circuits (every component of
   the memory system has its theorems), `LimbsExact`.
2. Metered-cost execution as a third refinement of one abstract execution.
3. The composition of the connector's timestamp bound with `MemoryArgument`,
   which assumes that the t-th access has time t.
4. The big-integer and hash extensions' multi-row chips, on the pattern of
   `HintStore`.

## 7. Not modelled

The modular arithmetic builder and the chips of algebra, curves, pairings, big
integers, Keccak and SHA-2 compute within one instruction over fields and
permutations that do not scale down; their inventories, configurations and
transpilers are modelled. The static verifier (Halo2) evaluates a fixed graph of
field operations. The proving backend is a dependency: what is used of it is
assumed where it is used (`Sound`, bus balance). CUDA kernels other than those of
RV32IM cores and deferral mirror the CPU's trace generation. Metrics and
profiling only observe. CLI, file formats, key generation and EVM verification
are I/O. Guest libraries, examples and benchmarks are programs inside the VM.
