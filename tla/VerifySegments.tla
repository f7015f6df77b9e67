--------------------------- MODULE VerifySegments ---------------------------
(***************************************************************************)
(* verify_segments on any sequence of segment proofs.                      *)
(*                                                                         *)
(* The proofs are whatever a prover submits.  A proof the STARK verifier   *)
(* accepts is of a run of its program from its initial to its final        *)
(* (pc, memory); if it says is_terminate, the instruction at the final pc  *)
(* is TERMINATE with the proof's exit code (the connector looks it up).    *)
(* A proof that does not terminate may carry any exit code.                *)
(***************************************************************************)
EXTENDS SegmentVerifier, Sequences

CONSTANTS
    Programs, Pcs, Roots, ExitCodes,
    Runs,           \* for each program: pairs of (pc, root) it runs between
    TerminateAt,    \* for each program and pc: the TERMINATE codes there
    MaxProofs       \* bound: segments of a proof

ASSUME RunsAssumption ==
    /\ MaxProofs \in Nat
    /\ Runs \in [Programs -> SUBSET ((Pcs \X Roots) \X (Pcs \X Roots))]
    /\ \A g \in Programs : \A a, b, c \in Pcs \X Roots :
         <<a, b>> \in Runs[g] /\ <<b, c>> \in Runs[g] => <<a, c>> \in Runs[g]

VARIABLES
    num_proofs,     \* proofs.len()
    proofs,         \* those looked at so far
    acc,
    outcome         \* "running", "ok" or the error

vars == <<num_proofs, proofs, acc, outcome>>

Proof ==
    [stark : BOOLEAN, boundary : BOOLEAN, program : Programs,
     initial_pc : Pcs, final_pc : Pcs, is_terminate : {0, 1}, exit_code : ExitCodes,
     initial_root : Roots, final_root : Roots]

\* What the AIRs and the STARK verifier guarantee of a proof they accept.
Sound(p) ==
    p.stark =>
        /\ <<<<p.initial_pc, p.initial_root>>, <<p.final_pc, p.final_root>>>> \in Runs[p.program]
        /\ p.is_terminate = 1 => p.exit_code \in TerminateAt[p.program][p.final_pc]

Init ==
    /\ num_proofs \in 0..MaxProofs
    /\ proofs = <<>>
    /\ acc = FirstSegment
    /\ outcome = IF num_proofs = 0 THEN "ProofNotFound" ELSE "running"

\* One iteration of the loop over the proofs.
Check(p) ==
    LET first == proofs = <<>>
        last == Len(proofs) + 1 = num_proofs
        error == ErrorOf(acc, p, first, last)
    IN /\ outcome = "running"
       /\ Sound(p)
       /\ proofs' = Append(proofs, p)
       /\ acc' = After(acc, p, first)
       /\ outcome' = IF error # "none" THEN error
                     ELSE IF last THEN "ok" ELSE "running"
       /\ UNCHANGED num_proofs

Done == outcome # "running" /\ UNCHANGED vars

Next == (\E p \in Proof : Check(p)) \/ Done

Spec == Init /\ [][Next]_vars

-----------------------------------------------------------------------------
(* Properties.                                                             *)

\* An accepted sequence of segment proofs is one execution: the program the
\* payload commits to, started at its pc on its initial memory, runs to the
\* committed final memory and stops there at TERMINATE with exit code 0.
AcceptedIsExecution ==
    outcome = "ok" =>
        LET exe == Payload(acc).exe_commit
            root == Payload(acc).final_memory_root
        IN \E pc \in Pcs :
             /\ <<<<exe.pc_start, exe.init_memory>>, <<pc, root>>>> \in Runs[exe.program]
             /\ Success \in TerminateAt[exe.program][pc]

\* The first parts of a complete proof of n segments, by definition: every
\* part valid, one program, each part starting where the one before ended,
\* and the n-th, only it, terminating with success.
PartOfComplete(ps, n) ==
    /\ \A k \in 1..Len(ps) :
         /\ ps[k].stark /\ ps[k].boundary /\ ps[k].program = ps[1].program
         /\ k < n => ps[k].is_terminate = 0 /\ ps[k].exit_code = DEFAULT_SUSPEND_EXIT_CODE
         /\ k = n => ps[k].is_terminate = 1 /\ ps[k].exit_code = Success
    /\ \A k \in 1..Len(ps) - 1 :
         ps[k].final_pc = ps[k + 1].initial_pc /\ ps[k].final_root = ps[k + 1].initial_root

\* The loop returns an error exactly when the proofs seen so far cannot be the
\* beginning of a complete proof: what it carries from segment to segment
\* loses nothing and mixes nothing up.
RejectsOnlyIncomplete ==
    proofs # <<>> =>
        (outcome \in {"running", "ok"} <=> PartOfComplete(proofs, num_proofs))

\* What the loop has established of the segments before: a run of the program
\* from the first pc and memory to the last.
ChainSoFar ==
    outcome \in {"running", "ok"} /\ proofs # <<>> =>
        /\ acc.program_commit \in Programs
        /\ acc.start_pc \in Pcs /\ acc.initial_memory_root \in Roots
        /\ acc.prev_final_pc \in Pcs /\ acc.prev_final_memory_root \in Roots
        /\ <<<<acc.start_pc, acc.initial_memory_root>>,
             <<acc.prev_final_pc, acc.prev_final_memory_root>>>> \in Runs[acc.program_commit]

IInv ==
    /\ proofs \in Seq(Proof)
    /\ outcome = "ok" => proofs # <<>>
    /\ ChainSoFar
    /\ AcceptedIsExecution

\* What the loop remembers is the first and the last of the proofs it passed,
\* and it goes on only while proofs are left.
AccTracksProofs ==
    /\ proofs \in Seq(Proof) /\ num_proofs \in Nat
    /\ outcome = "running" => Len(proofs) < num_proofs
    /\ outcome = "running" /\ proofs # <<>> =>
         /\ acc.program_commit = proofs[1].program
         /\ acc.prev_final_pc = proofs[Len(proofs)].final_pc
         /\ acc.prev_final_memory_root = proofs[Len(proofs)].final_root

CompletenessInv == AccTracksProofs /\ RejectsOnlyIncomplete

-----------------------------------------------------------------------------
(* The instance: two programs over two pcs and two memories.  "good" steps *)
(* from pc 0 to the TERMINATE 0 at pc 1, changing memory; "bad" ends in    *)
(* TERMINATE 1.                                                            *)

StepsOf == [good |-> {<<<<0, "a">>, <<0, "b">>>>, <<<<0, "b">>, <<1, "b">>>>},
            bad |-> {<<<<0, "a">>, <<1, "a">>>>, <<<<0, "b">>, <<1, "a">>>>}]

\* Reflexive and transitive closure: two steps suffice here.
Compose(R, S) == {<<z[1][1], z[2][2]>> : z \in {w \in R \X S : w[1][2] = w[2][1]}}
Identity == {<<s, s>> : s \in Pcs \X Roots}
MCRuns == [g \in Programs |-> Identity \cup StepsOf[g] \cup Compose(StepsOf[g], StepsOf[g])]
MCTerminateAt == [g \in Programs |-> [pc \in Pcs |->
                    IF pc = 0 THEN {} ELSE IF g = "good" THEN {0} ELSE {1}]]
=============================================================================
