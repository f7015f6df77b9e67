--------------------------- MODULE GuestExecution ---------------------------
(***************************************************************************)
(* The guest machine as every execution mode sees it: the VmState and what *)
(* one instruction does to it, down to what continuations depend on: pc,   *)
(* memory, the input and hint streams and the random generator.            *)
(***************************************************************************)
EXTENDS Integers, Sequences, FiniteSets

CONSTANTS
    Cells,          \* memory; PvCell holds the public values
    PvCell,
    Exes,           \* [program, pc_start, init_memory]
    Inputs,         \* sequences of 0/1
    MaxInsns        \* bound: instructions of an execution

DEFAULT_RNG_SEED == 0
ExitSuccess == 0
Running == {}               \* no exit code yet; {c}: exit code c

\* AddressMap::set_from_sparse
SetFromSparse(memory, sparse) ==
    [c \in Cells |-> IF c \in DOMAIN sparse THEN sparse[c] ELSE memory[c]]

FillZero == [c \in Cells |-> 0]

CreateMemoryImage(exe) == SetFromSparse(FillZero, exe.init_memory)

VmStateInitial(exe, input) ==
    [pc |-> exe.pc_start, memory |-> CreateMemoryImage(exe),
     input_stream |-> input, hint_stream |-> <<>>, rng |-> DEFAULT_RNG_SEED]

\* The n-th draw of the generator; any fixed sequence of bits will do.
Random(n) == (n + 1) % 2

-----------------------------------------------------------------------------
(* Instructions, as [op, ...].                                             *)

Ops == {"terminate", "store", "toggle", "branch", "hint_input", "hint_random", "hint_store"}

\* Whether the instruction at s.pc exists and does not fail.
Executes(exe, s) ==
    /\ s.pc \in DOMAIN exe.program
    /\ exe.program[s.pc].op = "hint_input" => s.input_stream # <<>>
    /\ exe.program[s.pc].op = "hint_store" => s.hint_stream # <<>>

Terminates(exe, s) == exe.program[s.pc].op = "terminate"

TouchedBy(insn) == IF insn.op \in {"store", "toggle", "hint_store"} THEN {insn.cell} ELSE {}

\* The state after the instruction; TERMINATE leaves it alone.
After1(exe, s) ==
    LET insn == exe.program[s.pc]
        next == [s EXCEPT !.pc = @ + 1]
    IN CASE insn.op = "terminate" -> s
         [] insn.op = "store" -> [next EXCEPT !.memory[insn.cell] = insn.value]
         [] insn.op = "toggle" -> [next EXCEPT !.memory[insn.cell] = 1 - @]
         [] insn.op = "branch" ->
              IF s.memory[insn.cell] # 0 THEN [s EXCEPT !.pc = insn.target] ELSE next
         [] insn.op = "hint_input" ->
              [next EXCEPT !.hint_stream = <<Head(s.input_stream)>>, !.input_stream = Tail(@)]
         [] insn.op = "hint_random" ->
              [next EXCEPT !.hint_stream = <<Random(s.rng)>>, !.rng = @ + 1]
         [] insn.op = "hint_store" ->
              [next EXCEPT !.memory[insn.cell] = Head(s.hint_stream), !.hint_stream = Tail(@)]

-----------------------------------------------------------------------------
(* The execution of exe on input, from its initial state to its end.       *)

Stopped(e) == ~e.ok \/ e.exit_code # Running

\* One turn of the execution loop; pcs are the instructions so far.
Turn(exe, e) ==
    IF Stopped(e) THEN e
    ELSE IF ~Executes(exe, e.vm) THEN [e EXCEPT !.ok = FALSE]
    ELSE [vm |-> After1(exe, e.vm),
          exit_code |-> IF Terminates(exe, e.vm) THEN {exe.program[e.vm.pc].code} ELSE Running,
          ok |-> TRUE,
          pcs |-> Append(e.pcs, e.vm.pc)]

Started(exe, input) ==
    [vm |-> VmStateInitial(exe, input), exit_code |-> Running, ok |-> TRUE, pcs |-> <<>>]

\* After n turns.
Turns(exe, input) ==
    LET E[n \in 0..MaxInsns] == IF n = 0 THEN Started(exe, input) ELSE Turn(exe, E[n - 1])
    IN E

Execution(exe, input) == Turns(exe, input)[MaxInsns]

\* check_termination: it stopped at TERMINATE with exit code zero.
CheckTermination(e) == e.ok /\ e.exit_code = {ExitSuccess}

Succeeds(exe, input) == CheckTermination(Execution(exe, input))

\* The instructions of a program are of the VM, and every execution ends within
\* the bound.
ASSUME GuestAssumption ==
    /\ MaxInsns \in Nat
    /\ \A e \in Exes : \A pc \in DOMAIN e.program : e.program[pc].op \in Ops
    /\ \A e \in Exes, i \in Inputs : Stopped(Execution(e, i))
=============================================================================
