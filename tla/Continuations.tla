---------------------------- MODULE Continuations ----------------------------
(***************************************************************************)
(* VmInstance::prove_continuations.                                        *)
(*                                                                         *)
(* One instance proves execution after execution.  A call resets the       *)
(* instance's own VmState, finds the segments with a metered execution     *)
(* from a fresh state, and then executes segment after segment again       *)
(* (preflight), each from the state the one before left, generating and    *)
(* proving its traces.  The instance's state is taken out for the time of  *)
(* the proofs and only put back at the end.                                *)
(*                                                                         *)
(* A memory root is known by the memory it commits to (see MemoryMerkle).  *)
(***************************************************************************)
EXTENDS GuestExecution, SegmentVerifier

CONSTANT MaxCalls           \* bound: calls of prove

VARIABLES
    exe,
    state,          \* VmInstance::state, an Option
    frequencies,    \* the preflight interpreter's execution_frequencies
    initial_memory, top_tree,       \* kept by the memory controller
    phase,          \* where prove_continuations stands
    input, segments, local_state, proofs,   \* its variables
    metered,        \* the metered execution
    exec,           \* the VmExecState of the preflight execution
    verifier,       \* verify_segments on the call's proof
    result,         \* what the caller of the last call learned
    failed,         \* a segment could not be proved
    calls

instance == <<state, frequencies, initial_memory, top_tree>>
locals == <<input, segments, local_state, proofs, metered, exec, verifier>>
vars == <<exe, instance, phase, locals, result, failed, calls>>

Err == [error |-> TRUE]

\* The call's variables are gone when it returns.
Drop ==
    /\ input' = <<>> /\ segments' = <<>> /\ local_state' = None /\ proofs' = <<>>
    /\ metered' = None /\ exec' = None /\ verifier' = None

NoFrequencies == [pc \in DOMAIN exe.program |-> 0]

\* Ways to cut n instructions into segments (Segmentation: SegmentsTile).
Tilings[n \in 0..MaxInsns] ==
    IF n = 0 THEN {<<>>}
    ELSE UNION {{Append(t, [instret_start |-> n - k, num_insns |-> k]) : t \in Tilings[n - k]} :
                k \in 1..n}

\* VmInstance::new.
Init ==
    /\ exe \in Exes
    /\ state = VmStateInitial(exe, <<>>)
    /\ frequencies = NoFrequencies
    /\ initial_memory = None /\ top_tree = None
    /\ phase = "idle"
    /\ input = <<>> /\ segments = <<>> /\ local_state = None /\ proofs = <<>>
    /\ metered = None /\ exec = None /\ verifier = None
    /\ result = None
    /\ failed = FALSE
    /\ calls = 0

Call(i) ==
    /\ phase = "idle"
    /\ calls < MaxCalls
    /\ calls' = calls + 1
    /\ phase' = "called"
    /\ input' = i
    /\ result' = None
    /\ UNCHANGED <<exe, instance, segments, local_state, proofs, metered, exec, verifier, failed>>

\* Mutant of Reset: memory is overlaid, not cleared.
ResetOverlay(s) ==
    [s EXCEPT !.pc = exe.pc_start,
              !.memory = SetFromSparse(@, exe.init_memory),
              !.input_stream = input, !.hint_stream = <<>>,
              !.rng = DEFAULT_RNG_SEED]

\* VmState::reset.
Reset(s) ==
    [s EXCEPT !.pc = exe.pc_start,
              !.memory = SetFromSparse(FillZero, exe.init_memory),
              !.input_stream = input, !.hint_stream = <<>>,
              !.rng = DEFAULT_RNG_SEED]

\* reset_state unwraps a state that was never put back.
ResetPanics ==
    /\ phase = "called" /\ state = None
    /\ phase' = "panicked"
    /\ result' = Err
    /\ Drop
    /\ UNCHANGED <<exe, instance, failed, calls>>

\* The instance's state is reset; the metered execution makes its own.
ResetState ==
    /\ phase = "called" /\ state # None
    /\ state' = Reset(state)
    /\ metered' = Started(exe, input)
    /\ phase' = "metered"
    /\ UNCHANGED <<exe, frequencies, initial_memory, top_tree, input, segments, local_state,
                   proofs, exec, verifier, result, failed, calls>>

\* Mutant of MeteredStops: only an exit code of zero ends the loop.
StopsOnSuccess == CheckTermination(metered)

\* The loop of execute_metered_from_state ends on any exit code or error.
MeteredStops == Stopped(metered)

ExecuteMetered ==
    /\ phase = "metered" /\ ~MeteredStops
    /\ metered' = Turn(exe, metered)
    /\ UNCHANGED <<exe, instance, phase, input, segments, local_state, proofs, exec,
                   verifier, result, failed, calls>>

\* The metered execution returns an error; the instance keeps its state.
MeteredFails ==
    /\ phase = "metered" /\ MeteredStops
    /\ ~CheckTermination(metered)
    /\ phase' = "idle"
    /\ result' = Err
    /\ Drop
    /\ UNCHANGED <<exe, instance, failed, calls>>

Metered(segs) ==
    /\ phase = "metered" /\ MeteredStops
    /\ CheckTermination(metered)
    /\ segments' = segs
    /\ local_state' = state
    /\ state' = None
    /\ phase' = "segments"
    /\ UNCHANGED <<exe, frequencies, initial_memory, top_tree, input, proofs, metered, exec,
                   verifier, result, failed, calls>>

-----------------------------------------------------------------------------
(* One segment.                                                            *)

\* Mutant of ResetFrequencies: they go on from the segment before.
KeepFrequencies == frequencies

ResetFrequencies == NoFrequencies

\* The loop is at the segment after those proved.
StartSegment ==
    /\ phase = "segments" /\ Len(proofs) < Len(segments)
    /\ initial_memory' = local_state.memory
    /\ frequencies' = ResetFrequencies
    /\ exec' = [from_pc |-> local_state.pc, vm |-> local_state,
                instret_left |-> segments[Len(proofs) + 1].num_insns,
                exit_code |-> Running, touched |-> {}]
    /\ local_state' = None
    /\ phase' = "preflight"
    /\ UNCHANGED <<exe, state, top_tree, input, segments, proofs, metered, verifier, result,
                   failed, calls>>

Stops == exec.exit_code # Running \/ exec.instret_left = 0

FailCall ==
    /\ phase' = "idle"
    /\ result' = Err
    /\ failed' = TRUE
    /\ Drop

\* execute_instruction: an instruction is counted before it runs; an error
\* leaves the instance without a state.
ExecuteInstruction ==
    LET vm == exec.vm
        insn == exe.program[vm.pc]
    IN /\ phase = "preflight" /\ ~Stops
       /\ frequencies' = [pc \in DOMAIN frequencies |->
                            frequencies[pc] + (IF pc = vm.pc THEN 1 ELSE 0)]
       /\ IF Executes(exe, vm)
          THEN /\ exec' = [exec EXCEPT
                     !.vm = After1(exe, vm),
                     !.exit_code = IF Terminates(exe, vm) THEN {insn.code} ELSE Running,
                     !.touched = @ \cup TouchedBy(insn),
                     !.instret_left = @ - 1]
               /\ UNCHANGED <<phase, input, segments, local_state, proofs, metered, verifier,
                              result, failed>>
          ELSE FailCall
       /\ UNCHANGED <<exe, state, initial_memory, top_tree, calls>>

\* The tree of the initial memory, updated at the touched leaves.
FinalTree ==
    [c \in Cells |-> IF c \in exec.touched THEN exec.vm.memory[c] ELSE initial_memory[c]]

\* The public values of the system chips, and the program chip's column.
SegmentProof ==
    [stark |-> TRUE, boundary |-> TRUE, program |-> exe.program,
     initial_pc |-> exec.from_pc, final_pc |-> exec.vm.pc,
     is_terminate |-> IF exec.exit_code # Running THEN 1 ELSE 0,
     exit_code |-> IF exec.exit_code # Running THEN CHOOSE c \in exec.exit_code : TRUE
                   ELSE DEFAULT_SUSPEND_EXIT_CODE,
     initial_root |-> initial_memory, final_root |-> FinalTree,
     frequencies |-> frequencies]

ProveSegment ==
    /\ phase = "preflight" /\ Stops
    /\ top_tree' = FinalTree
    /\ proofs' = Append(proofs, SegmentProof)
    /\ local_state' = exec.vm
    /\ phase' = "segments"
    /\ UNCHANGED <<exe, state, frequencies, initial_memory, input, segments, metered, exec,
                   verifier, result, failed, calls>>

\* The traces are too high for the proof system: an error.
GenerationFails ==
    /\ phase = "preflight" /\ Stops
    /\ top_tree' = FinalTree
    /\ FailCall
    /\ UNCHANGED <<exe, state, frequencies, initial_memory, calls>>

\* The engine returns an error, which is unwrapped.
EnginePanics ==
    /\ phase = "preflight" /\ Stops
    /\ top_tree' = FinalTree
    /\ phase' = "panicked"
    /\ result' = Err
    /\ Drop
    /\ UNCHANGED <<exe, state, frequencies, initial_memory, failed, calls>>

\* All segments are proved: the state is put back and the proof returned,
\* with the public values opened in the last segment's tree.
Finish ==
    /\ phase = "segments" /\ Len(proofs) = Len(segments)
    /\ state' = local_state
    /\ verifier' = [acc |-> FirstSegment, next |-> 1,
                    error |-> IF proofs = <<>> THEN "ProofNotFound" ELSE "none",
                    public_values |-> [values |-> local_state.memory[PvCell], tree |-> top_tree]]
    /\ phase' = "verify"
    /\ UNCHANGED <<exe, frequencies, initial_memory, top_tree, input, segments, local_state,
                   proofs, metered, exec, result, failed, calls>>

-----------------------------------------------------------------------------
(* The caller verifies the proof.                                          *)

Verifying == verifier.error = "none" /\ verifier.next <= Len(proofs)

VerifySegment ==
    LET k == verifier.next IN
    /\ phase = "verify" /\ Verifying
    /\ verifier' = [verifier EXCEPT
          !.error = ErrorOf(verifier.acc, proofs[k], k = 1, k = Len(proofs)),
          !.acc = After(verifier.acc, proofs[k], k = 1),
          !.next = k + 1]
    /\ UNCHANGED <<exe, instance, phase, input, segments, local_state, proofs, metered, exec,
                   result, failed, calls>>

\* UserPublicValuesProof::verify opens the values against the final root.
Verified ==
    LET pv == verifier.public_values
        payload == Payload(verifier.acc)
    IN IF verifier.error # "none" THEN [rejected |-> verifier.error]
       ELSE IF pv.tree # payload.final_memory_root \/ pv.values # pv.tree[PvCell]
       THEN [rejected |-> "UserPublicValues"]
       ELSE [exe_commit |-> payload.exe_commit,
             final_memory_root |-> payload.final_memory_root,
             public_values |-> pv.values]

VerifyPublicValues ==
    /\ phase = "verify" /\ ~Verifying
    /\ result' = Verified
    /\ phase' = "idle"
    /\ Drop
    /\ UNCHANGED <<exe, instance, failed, calls>>

Run ==
    \/ ResetPanics
    \/ ResetState
    \/ ExecuteMetered
    \/ MeteredFails
    \/ phase = "metered" /\ \E segs \in Tilings[Len(metered.pcs)] : Metered(segs)
    \/ StartSegment
    \/ ExecuteInstruction
    \/ ProveSegment
    \/ GenerationFails
    \/ EnginePanics
    \/ Finish
    \/ VerifySegment
    \/ VerifyPublicValues

Done ==
    /\ phase = "panicked" \/ (phase = "idle" /\ calls = MaxCalls)
    /\ UNCHANGED vars

Next == (\E i \in Inputs : Call(i)) \/ Run \/ Done

\* A call and the verification run on the caller's thread: they go on as long as they can.
Spec == Init /\ [][Next]_vars /\ WF_vars(Run)

-----------------------------------------------------------------------------
(* Properties.                                                             *)

\* What a proof of the execution of e on input i commits to.
ProofOf(e, i) ==
    LET memory == Execution(e, i).vm.memory IN
    [exe_commit |-> [program |-> e.program, pc_start |-> e.pc_start,
                     init_memory |-> CreateMemoryImage(e)],
     final_memory_root |-> memory,
     public_values |-> memory[PvCell]]

\* None is not the Some of a state or of an answer.
ASSUME NoneAssumption ==
    /\ Err # None
    /\ \A e \in Exes : VmStateInitial(e, <<>>) # None
    /\ \A e \in Exes, i \in Inputs :
         /\ ProofOf(e, i) # None
         /\ \A n \in 0..MaxInsns : Turns(e, i)[n].vm # None

Prover == INSTANCE ContinuationProver WITH
    Succeeds <- Succeeds, Proves <- ProofOf,
    request <- IF phase \in {"idle", "panicked"} THEN [idle |-> TRUE] ELSE [input |-> input],
    answer <- IF result = None THEN [idle |-> TRUE] ELSE result,
    down <- phase = "panicked"

\* Every call is answered with a proof that verifies and commits to the
\* execution of this program on this call's input, however it was cut into
\* segments and whatever the instance proved or failed to prove before; a
\* call panics only if the engine does or a segment failed earlier.
RefinesProver == Prover!Spec

\* The end of the k-th segment.
EndOf(segs, k) == IF k = 0 THEN 0 ELSE segs[k].instret_start + segs[k].num_insns

\* The segments cover n instructions without gap or overlap.
Tiles(segs, n) ==
    /\ \A k \in 1..Len(segs) :
         segs[k].num_insns > 0 /\ segs[k].instret_start = EndOf(segs, k - 1)
    /\ EndOf(segs, Len(segs)) = n

\* How often instruction pc is among those after the from-th up to the to-th.
CountOf(pcs, pc, from, to) == Cardinality({j \in from + 1..to : pcs[j] = pc})

\* Each segment's program chip counts exactly the instructions the execution
\* runs in that segment, and no instruction is in two segments or in none: the
\* program bus balances segment by segment.
ProgramBusBalances ==
    proofs # <<>> =>
        LET pcs == Execution(exe, input).pcs IN
        /\ Tiles(segments, Len(pcs))
        /\ \A k \in 1..Len(proofs) : \A pc \in DOMAIN exe.program :
             proofs[k].frequencies[pc] =
                 CountOf(pcs, pc, EndOf(segments, k - 1), EndOf(segments, k))

\* A call returns or panics: the segments of an execution are finitely many
\* and the preflight execution of each ends.
CallReturns == phase = "called" ~> phase \in {"idle", "panicked"}

-----------------------------------------------------------------------------
(* The inductive invariant: where the metered execution, the segments and  *)
(* the verification stand on the one execution of this call.               *)

\* The execution on this call's input after n instructions, and its length.
At(n) == Turns(exe, input)[n]
Length == Len(Execution(exe, input).pcs)

Counts(from, to) ==
    [pc \in DOMAIN exe.program |-> CountOf(Execution(exe, input).pcs, pc, from, to)]

\* A VmState has these fields, and memory has these cells.
IsVmState(s) ==
    s = [pc |-> s.pc, memory |-> [c \in Cells |-> s.memory[c]],
         input_stream |-> s.input_stream, hint_stream |-> s.hint_stream, rng |-> s.rng]

Proving == phase \in {"segments", "preflight", "verify"}

\* The instance lacks its state in a call only while segments are proved, and
\* between calls exactly after one failed.
StateKept ==
    /\ phase \in {"idle", "called"} =>
         /\ state = None <=> failed
         /\ state # None => IsVmState(state)
    /\ phase = "metered" \/ Proving => ~failed
    /\ phase = "metered" => state = VmStateInitial(exe, input)
    /\ phase \in {"segments", "preflight"} => state = None
    /\ phase = "verify" => state = At(Length).vm

MeteredFollows == phase = "metered" => \E n \in 0..MaxInsns : metered = At(n)

\* The proof of segment k.
ProofOfSegment(k) ==
    LET from == EndOf(segments, k - 1)
        to == EndOf(segments, k)
    IN [stark |-> TRUE, boundary |-> TRUE, program |-> exe.program,
        initial_pc |-> At(from).vm.pc, final_pc |-> At(to).vm.pc,
        is_terminate |-> IF to = Length THEN 1 ELSE 0,
        exit_code |-> IF to = Length THEN Success ELSE DEFAULT_SUSPEND_EXIT_CODE,
        initial_root |-> At(from).vm.memory, final_root |-> At(to).vm.memory,
        frequencies |-> Counts(from, to)]

SegmentsFollow ==
    Proving =>
        /\ Succeeds(exe, input)
        /\ segments \in Seq([instret_start : Nat, num_insns : Nat])
        /\ Tiles(segments, Length)
        /\ proofs \in Seq({ProofOfSegment(k) : k \in 1..Len(segments)})
        /\ Len(proofs) <= Len(segments)
        /\ \A k \in 1..Len(proofs) : proofs[k] = ProofOfSegment(k)

LocalStateFollows ==
    phase = "segments" =>
        /\ local_state = At(EndOf(segments, Len(proofs))).vm
        /\ proofs # <<>> => top_tree = local_state.memory

\* After n instructions of the execution, in the segment after those proved.
ExecAt(n) ==
    LET from == EndOf(segments, Len(proofs))
        to == EndOf(segments, Len(proofs) + 1)
    IN /\ from <= n /\ n <= to
       /\ exec = [from_pc |-> At(from).vm.pc, vm |-> At(n).vm, instret_left |-> to - n,
                  exit_code |-> At(n).exit_code, touched |-> exec.touched]
       /\ initial_memory = At(from).vm.memory
       /\ \A c \in Cells \ exec.touched : At(n).vm.memory[c] = initial_memory[c]
       /\ frequencies = Counts(from, n)

PreflightFollows ==
    phase = "preflight" => Len(proofs) < Len(segments) /\ \E n \in 0..MaxInsns : ExecAt(n)

\* What verify_segments remembers after k segments.
AccAfter(k) ==
    IF k = 0 THEN FirstSegment
    ELSE [program_commit |-> exe.program, start_pc |-> At(0).vm.pc,
          initial_memory_root |-> At(0).vm.memory,
          prev_final_pc |-> At(EndOf(segments, k)).vm.pc,
          prev_final_memory_root |-> At(EndOf(segments, k)).vm.memory]

VerifierFollows ==
    phase = "verify" =>
        /\ Len(proofs) = Len(segments)
        /\ verifier.next \in 1..Len(proofs) + 1
        /\ verifier = [acc |-> AccAfter(verifier.next - 1), next |-> verifier.next,
                       error |-> "none",
                       public_values |-> [values |-> At(Length).vm.memory[PvCell],
                                          tree |-> At(Length).vm.memory]]

CallState ==
    /\ exe \in Exes
    /\ phase \in {"idle", "called", "metered", "segments", "preflight", "verify", "panicked"}
    /\ phase \notin {"idle", "panicked"} => input \in Inputs /\ result = None
    /\ ~Proving => proofs = <<>>

IInv ==
    /\ CallState
    /\ StateKept
    /\ MeteredFollows
    /\ SegmentsFollow
    /\ LocalStateFollows
    /\ PreflightFollows
    /\ VerifierFollows

-----------------------------------------------------------------------------
(* The instance: a program that stores an input and may skip the public    *)
(* value, one that loops over random hints, and one that ends in a failure *)
(* or at a hole of the program for some inputs.                            *)

Program(insns) == [pc \in 0..Len(insns) - 1 |-> insns[pc + 1]]
NoMemory == [c \in {} |-> 0]

StoreInput ==
    [pc_start |-> 0, init_memory |-> NoMemory,
     program |-> Program(<<[op |-> "hint_input"], [op |-> "hint_store", cell |-> "x"],
                           [op |-> "branch", cell |-> "x", target |-> 4],
                           [op |-> "store", cell |-> "pv", value |-> 1],
                           [op |-> "terminate", code |-> 0]>>)]

RandomLoop ==
    [pc_start |-> 0, init_memory |-> [c \in {"y"} |-> 1],
     program |-> Program(<<[op |-> "hint_random"], [op |-> "hint_store", cell |-> "pv"],
                           [op |-> "toggle", cell |-> "x"],
                           [op |-> "branch", cell |-> "x", target |-> 0],
                           [op |-> "terminate", code |-> 0]>>)]

MayFail ==
    [pc_start |-> 1, init_memory |-> [c \in {"pv"} |-> 1],
     program |-> Program(<<[op |-> "terminate", code |-> 1],
                           [op |-> "toggle", cell |-> "y"],
                           [op |-> "hint_input"], [op |-> "hint_store", cell |-> "x"],
                           [op |-> "branch", cell |-> "x", target |-> 0],
                           [op |-> "hint_input"], [op |-> "hint_store", cell |-> "x"],
                           [op |-> "branch", cell |-> "x", target |-> 9],
                           [op |-> "terminate", code |-> 0]>>)]

MCExes == {StoreInput, RandomLoop, MayFail}
MCInputs == {<<>>, <<0>>, <<1>>, <<0, 0>>, <<0, 1>>}
=============================================================================
