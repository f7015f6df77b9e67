--------------------------- MODULE SegmentVerifier ---------------------------
(***************************************************************************)
(* The checks verify_segments makes on one segment proof.                  *)
(*                                                                         *)
(* A segment proof is known by its public values: the program commitment,  *)
(* the connector's (initial_pc, final_pc, is_terminate, exit_code) and the *)
(* Merkle chip's (initial_root, final_root).  "stark" says that the STARK  *)
(* verifier accepts it, "boundary" that it has a trace for the boundary    *)
(* chip.                                                                   *)
(***************************************************************************)
EXTENDS Integers

CONSTANT None           \* of the code's Options

Success == 0
DEFAULT_SUSPEND_EXIT_CODE == 42

\* What the loop remembers of the segments before.
FirstSegment ==
    [program_commit |-> None, start_pc |-> None, initial_memory_root |-> None,
     prev_final_pc |-> None, prev_final_memory_root |-> None]

ProgramCommitMismatch(acc, p, first) == ~first /\ p.program # acc.program_commit

\* Mutant of InitialPcMismatch: the jump from segment to segment is not checked.
AnyInitialPc(acc, p, first) == FALSE

InitialPcMismatch(acc, p, first) == ~first /\ p.initial_pc # acc.prev_final_pc

IsTerminateMismatch(p, last) == p.is_terminate # (IF last THEN 1 ELSE 0)

ExitCodeMismatch(p, last) ==
    p.exit_code # (IF last THEN Success ELSE DEFAULT_SUSPEND_EXIT_CODE)

\* Mutant of MemoryRootMismatch: compared with the first root of the chain.
RootOfFirst(acc, p, first) == ~first /\ p.initial_root # acc.initial_memory_root

MemoryRootMismatch(acc, p, first) ==
    ~first /\ p.initial_root # acc.prev_final_memory_root

\* The error returned for p, in the order of the AIRs; "none" if p passes.
ErrorOf(acc, p, first, last) ==
    IF ~p.stark THEN "StarkError"
    ELSE IF ProgramCommitMismatch(acc, p, first) THEN "ProgramCommitMismatch"
    ELSE IF InitialPcMismatch(acc, p, first) THEN "InitialPcMismatch"
    ELSE IF IsTerminateMismatch(p, last) THEN "IsTerminateMismatch"
    ELSE IF ExitCodeMismatch(p, last) THEN "ExitCodeMismatch"
    ELSE IF MemoryRootMismatch(acc, p, first) THEN "InitialMemoryRootMismatch"
    ELSE IF ~p.boundary THEN "SystemAirMissing"
    ELSE "none"

\* What the loop remembers after p.
After(acc, p, first) ==
    [program_commit |-> IF first THEN p.program ELSE acc.program_commit,
     start_pc |-> IF first THEN p.initial_pc ELSE acc.start_pc,
     initial_memory_root |-> IF first THEN p.initial_root ELSE acc.initial_memory_root,
     prev_final_pc |-> p.final_pc,
     prev_final_memory_root |-> p.final_root]

\* VerifiedExecutionPayload; the commitment is known by what it commits to.
Payload(acc) ==
    [exe_commit |-> [program |-> acc.program_commit, pc_start |-> acc.start_pc,
                     init_memory |-> acc.initial_memory_root],
     final_memory_root |-> acc.prev_final_memory_root]
=============================================================================
