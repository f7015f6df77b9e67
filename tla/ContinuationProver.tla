------------------------- MODULE ContinuationProver -------------------------
(***************************************************************************)
(* What a ContinuationVmProver promises its caller.                        *)
(*                                                                         *)
(* Each call is answered with a proof of the execution on that call's      *)
(* input, whatever was proved before, or with an error.  An execution that *)
(* fails has no proof.  After a segment could not be proved the prover may *)
(* be gone: a later call panics.                                           *)
(***************************************************************************)
CONSTANTS
    Exes, Inputs,
    Succeeds(_, _),     \* the execution of an exe on an input ends with success
    Proves(_, _)        \* what a proof of it that verifies commits to

VARIABLES
    exe,
    request,    \* the input of the call in progress, or Idle
    answer,     \* to the last call, or Idle
    failed,     \* a segment could not be proved
    down        \* panicked

vars == <<exe, request, answer, failed, down>>

Idle == [idle |-> TRUE]
Error == [error |-> TRUE]

Init ==
    /\ exe \in Exes
    /\ request = Idle /\ answer = Idle
    /\ failed = FALSE /\ down = FALSE

Request(input) ==
    /\ ~down /\ request = Idle
    /\ request' = [input |-> input]
    /\ answer' = Idle
    /\ UNCHANGED <<exe, failed, down>>

Answer ==
    /\ request # Idle /\ ~failed
    /\ request' = Idle
    /\ answer' = IF Succeeds(exe, request.input) THEN Proves(exe, request.input) ELSE Error
    /\ UNCHANGED <<exe, failed, down>>

FailSegment ==
    /\ request # Idle /\ ~failed /\ Succeeds(exe, request.input)
    /\ request' = Idle /\ answer' = Error /\ failed' = TRUE
    /\ UNCHANGED <<exe, down>>

Panic ==
    /\ request # Idle
    /\ failed \/ Succeeds(exe, request.input)
    /\ request' = Idle /\ answer' = Error /\ down' = TRUE
    /\ UNCHANGED <<exe, failed>>

Next ==
    \/ \E i \in Inputs : Request(i)
    \/ Answer \/ FailSegment \/ Panic

Spec == Init /\ [][Next]_vars
=============================================================================
