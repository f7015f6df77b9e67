-------------------------------- MODULE Recursion --------------------------------
(* VerifierSubCircuit: preflight of the proofs, a thread for each; then the traces *)
(* of the modules, in parallel, which count into tables they share; at last the    *)
(* traces of the tables.                                                           *)
EXTENDS RecursionBatch

CONSTANT Cases      \* [child, proofs, tight]: see Start

VARIABLES case,
          pfs,        \* the preflight of each proof
          step,       \* how many modules have run preflight on each proof
          stage,      \* "preflight", "traces", "done"
          done,       \* the modules whose traces are generated
          counts,     \* PowerCheckerCpuTraceGenerator and the range checker
          requests,   \* ExpBitsLenCpuTraceGenerator
          outcome,    \* "ctxs" or "none"
          traces

vars == <<case, pfs, step, stage, done, counts, requests, outcome, traces>>

c == case.child
Modules == {"BatchConstraint", "Transcript", "ProofShape", "Gkr", "Stacking", "Whir"}
NumPreflightModules == 5

-----------------------------------------------------------------------------
Start(k, proof) ==
    [idx |-> k - 1, lh |-> proof.lh, queries |-> proof.queries, log |-> <<>>,
     ps |-> <<>>, gkr |-> <<>>, bc |-> <<>>, st |-> <<>>, whir |-> <<>>]

Init ==
    /\ case \in Cases
    /\ pfs = [k \in 1..Len(case.proofs) |-> Start(k, case.proofs[k])]
    /\ step = [k \in 1..Len(case.proofs) |-> 0]
    /\ stage = "preflight" /\ done = {} /\ outcome = "none" /\ traces = <<>>
    /\ counts = NoCounts /\ requests = <<>>

\* run_preflight_without_merkle and compute_merkle_precomputation, the latter in
\* the last step.
RunPreflight(s, pf) ==
    CASE s = 0 -> ProofShapePreflight(c, pf)
      [] s = 1 -> G!GkrPreflight(c, pf)
      [] s = 2 -> BatchPreflight(c, pf)
      [] s = 3 -> StackingPreflight(c, pf)
      [] s = 4 -> WhirPreflight(c, pf)
Preflight(k) ==
    /\ step[k] < NumPreflightModules
    /\ pfs' = [pfs EXCEPT ![k] = RunPreflight(step[k], pfs[k])]
    /\ step' = [step EXCEPT ![k] = step[k] + 1]
    /\ UNCHANGED <<case, stage, done, counts, requests, outcome, traces>>

\* The threads are joined; what the outer circuit looks up is counted first.
Join ==
    /\ stage = "preflight" /\ \A k \in DOMAIN step : step[k] = NumPreflightModules
    /\ stage' = "traces"
    /\ counts' = AddCounts(counts, Counts("pow", c.outer_pows))
    /\ UNCHANGED <<case, pfs, step, done, requests, outcome, traces>>

ForAll(of(_, _)) == Flat([k \in 1..Len(pfs) |-> of(c, pfs[k])])
ModuleCounts(module) ==
    CASE module = "ProofShape" -> Counts("range", c.outer_ranges) \o ForAll(ShapeCounts)
      [] module = "BatchConstraint" -> ForAll(BatchCounts)
      [] OTHER -> <<>>
ModuleRequests(module) ==
    CASE module = "Gkr" -> G!GkrExpBits(c, pfs)
      [] module = "Whir" -> ForAll(WhirExpBits)
      [] OTHER -> <<>>
\* generate_cpu_ctxs of a module, by some thread.
Generate(module) ==
    /\ stage = "traces" /\ module \notin done
    /\ done' = done \cup {module}
    /\ counts' = AddCounts(counts, ModuleCounts(module))
    /\ requests' = requests \o ModuleRequests(module)
    /\ UNCHANGED <<case, pfs, step, stage, outcome, traces>>

\* A module or table whose trace is higher than its required height has none, and
\* neither has the circuit.  The heights enter only through this comparison: case.tight
\* is the set of those that are too low.
Tight == case.tight # {}
Collect ==
    /\ stage = "traces" /\ done = Modules
    /\ stage' = "done"
    /\ IF Tight THEN UNCHANGED <<outcome, traces>>
       ELSE /\ outcome' = "ctxs"
            /\ traces' = [shape |-> ShapeTrace(c, pfs), pvs |-> PvTrace(c, pfs), gkr |-> G!GkrTraces(c, pfs),
                          batch |-> BatchTraces(c, pfs), stacking |-> StackingTraces(c, pfs), whir |-> WhirTraces(c, pfs),
                          transcript |-> TranscriptTraces(c, pfs), exp |-> ExpTrace(requests)]
    /\ UNCHANGED <<case, pfs, step, done, counts, requests>>

Next ==
    \/ \E k \in DOMAIN step : Preflight(k)
    \/ Join
    \/ \E module \in Modules : Generate(module)
    \/ Collect
Terminated == stage = "done" /\ UNCHANGED vars
Spec == Init /\ [][Next \/ Terminated]_vars

-----------------------------------------------------------------------------
\* final_transcript_state: the state behind the last row of the only proof, which
\* the outer circuit compresses.
FinalState == LET rows == TranscriptRows(pfs[1]) IN rows[Len(rows)].val.post
FinalCompression == IF c.final_state THEN <<<<FinalState, <<"final_state_digest">>>>>> ELSE <<>>
AllMessages ==
    LET inputs == Poseidon2Inputs(pfs, traces.transcript)
        ts == traces
    IN  MessagesOf(ts.shape, LAMBDA l, n : ShapeMessages(c, l, n))
        \o MessagesOf(ts.pvs, LAMBDA l, n : PvMessages(c, l, n))
        \o G!GkrMessages(c, ts.gkr)
        \o BatchMessages(c, ts.batch)
        \o StackingMessages(c, ts.stacking)
        \o WhirMessages(c, ts.whir)
        \o TranscriptModuleMessages(c, ts.transcript,
                [inputs EXCEPT !.compressions = inputs.compressions \o FinalCompression])
        \o [k \in 1..Len(ts.exp) |-> ExpMessages(ts.exp[k])]
        \o RangeMessages(counts) \o PowMessages(counts)

\* What is left for the circuit around the verifier.
ForOuter ==
    LET Pvs(pf) == {<<<<"public_values", pf.idx, i, v - 1, <<"pv", i, v - 1>>>>, 1>> : <<i, v>> \in
                        {x \in Present(pf) \X (1..Max({Air(c, i).pvs : i \in AirIds(c)} \cup {0})) : x[2] <= Air(c, x[1]).pvs}}
        Cached(pf) == {<<<<"cached_commit", pf.idx, x[1], x[2],
                           SumUpTo(x[1], LAMBDA j : Len(Air(c, j).cached)) + x[2], <<"cached_commit", x[1], x[2]>>>>, 1>> :
                        x \in {y \in Present(pf) \X (0..MaxCached(c)) : y[2] < Len(Air(c, y[1]).cached)}}
        Of(pf) == Pvs(pf) \cup Cached(pf) \cup {<<<<"pre_hash", pf.idx, <<"pre_hash">>>>, 1>>}
    IN  (IF c.continuations THEN UNION {Of(pfs[k]) : k \in DOMAIN pfs} ELSE {})
        \cup {<<PowKey(c.outer_pows[k], 2^c.outer_pows[k]), 1>> : k \in DOMAIN c.outer_pows}
        \cup {<<RangeKey(c.outer_ranges[k]), 1>> : k \in DOMAIN c.outer_ranges}
        \cup (IF c.final_state THEN {<<<<"final_state", 0, FinalState>>, 1>>,
                                     <<<<"poseidon2_compress", FinalState, <<"final_state_digest">>>>, 1>>} ELSE {})

\* On every bus of the verifier circuit each message of the proofs is sent as often
\* as it is received, whichever proofs there are, whichever order the modules count
\* and request in, and all that is left is what the circuit around it receives.
BusesBalance == outcome = "ctxs" => Tally(AllMessages) = ForOuter

\* The constraints of every circuit accept the rows that its generator fills in for
\* any proofs, also where AIRs are absent, below 2^l_skip rows or without interactions;
\* every transcript ends in a sample, as final_transcript_state assumes.
RowsAccepted ==
    /\ \A k \in DOMAIN pfs : step[k] = NumPreflightModules => pfs[k].log[Len(pfs[k].log)].sample = 1
    /\ outcome = "ctxs" =>
         /\ Accepted(traces.shape, LAMBDA l, n : ShapeEval(c, l, n))
         /\ Accepted(traces.pvs, PvEval)
         /\ G!GkrAccepted(c, traces.gkr)
         /\ BatchAccepted(c, traces.batch)
         /\ StackingAccepted(c, traces.stacking)
         /\ WhirAccepted(c, traces.whir)
         /\ TranscriptAccepted(c, traces.transcript)
         /\ \A k \in 1..Len(traces.exp) : ExpEval(traces.exp[k], traces.exp[NextIndex(traces.exp, k)])

-----------------------------------------------------------------------------
(* The instance: child circuits and proofs of them.                        *)

Var(col, part, rot) == [kind |-> "Var", attrs |-> <<col, part, rot>>]
Node(kind, a, b) == [kind |-> kind, attrs |-> <<a, b, 0>>]

\* Public values, a rotation, selectors, an operation on twice the same node, two
\* interactions of which one has two fields.
Main ==
    [required |-> TRUE, pre |-> 0, dim |-> 0, cached |-> <<>>, main |-> 2, pvs |-> 2, rot |-> TRUE,
     nodes |-> <<Var(0, 0, 0), Var(1, 0, 0), Var(0, 0, 1), Node("PublicValue", 0, 0), Node("PublicValue", 1, 0),
                 Node("IsFirst", 0, 0), Node("IsTransition", 0, 0), Node("Sub", 0, 3), Node("Mul", 5, 7), Node("Mul", 1, 1),
                 Node("Constant", 1, 0), Node("Neg", 4, 0), Node("Add", 6, 11)>>,
     constraints |-> <<8, 9, 12>>,
     inters |-> <<[count |-> 10, message |-> <<0, 2>>, bus |-> 1], [count |-> 0, message |-> <<9>>, bus |-> 2]>>,
     unused |-> <<<<1, 0, 1>>>>]
\* Preprocessed and cached columns, one of them unused.
Cached ==
    [required |-> FALSE, pre |-> 1, dim |-> 1, cached |-> <<1, 2>>, main |-> 1, pvs |-> 0, rot |-> FALSE,
     nodes |-> <<Var(0, 0, 0), Var(0, 1, 0), Var(0, 2, 0), Var(0, 3, 0), Node("Mul", 0, 1), Node("IsLast", 0, 0), Node("Mul", 4, 5)>>,
     constraints |-> <<6>>,
     inters |-> <<[count |-> 2, message |-> <<3>>, bus |-> 1]>>,
     unused |-> <<<<1, 3, 0>>>>]
\* No interactions, and a constraint without operations.
Silent ==
    [required |-> FALSE, pre |-> 0, dim |-> 0, cached |-> <<>>, main |-> 1, pvs |-> 0, rot |-> TRUE,
     nodes |-> <<Var(0, 0, 0), Var(0, 0, 1)>>, constraints |-> <<0>>, inters |-> <<>>, unused |-> <<>>]

Child ==
    [airs |-> <<Main, Cached, Silent>>, l_skip |-> 1, logup_pow_bits |-> 1, max_interactions |-> 200, num_queries |-> 2,
     continuations |-> FALSE, n_stack |-> 2, log_blowup |-> 1, k_whir |-> 1, whir_queries |-> <<2, 1>>, mu_pow_bits |-> 1,
     folding_pow_bits |-> 1, query_pow_bits |-> 2, final_state |-> FALSE, w_stack |-> 7, max_degree |-> 2, max_proofs |-> 3,
     has_cached |-> TRUE, outer_pows |-> <<>>, outer_ranges |-> <<>>]

Proof(a, b, d, queries) == [lh |-> 0 :> a @@ 1 :> b @@ 2 :> d, queries |-> queries]

\* Traces below 2^l_skip rows, and a folding by four.
Skipping ==
    [Child EXCEPT !.l_skip = 2, !.n_stack = 2, !.k_whir = 2, !.whir_queries = <<1, 1>>, !.num_queries = 1, !.logup_pow_bits = 0,
                  !.max_degree = 1, !.has_cached = FALSE,
                  !.airs = <<Main, [Cached EXCEPT !.dim = -1], Silent>>]
\* A circuit that is verified inside an aggregation circuit.
Wrapped ==
    [Child EXCEPT !.airs = <<Main, Cached>>, !.continuations = TRUE, !.final_state = TRUE, !.max_proofs = 1,
                  !.outer_pows = <<2>>, !.outer_ranges = <<3>>]
\* One round of WHIR and no interactions at all: no GKR layers.
Quiet == [Child EXCEPT !.airs = <<Silent, Silent>>, !.n_stack = 1, !.whir_queries = <<2>>, !.mu_pow_bits = 0]

Alone(child, a, b, d, queries) == [child |-> child, proofs |-> <<Proof(a, b, d, queries)>>, tight |-> {}]
MCCases ==
    { [child |-> Child, proofs |-> <<Proof(1, 2, -1, <<5, 13, 24>>), Proof(1, -1, 3, <<7, 3, 6>>), Proof(0, 2, 2, <<1, 3, 9>>)>>, tight |-> {}],
      [child |-> Skipping, proofs |-> <<Proof(0, 1, 2, <<9, 21>>), Proof(3, 1, 4, <<3, 4>>)>>, tight |-> {}],
      [child |-> Wrapped, proofs |-> <<[lh |-> 0 :> 2 @@ 1 :> 2, queries |-> <<5, 5, 2>>]>>, tight |-> {}],
      [child |-> Quiet, proofs |-> <<[lh |-> 0 :> -1 @@ 1 :> 1, queries |-> <<2, 6>>], [lh |-> 0 :> 0 @@ 1 :> 1, queries |-> <<1, 1>>]>>, tight |-> {}],
      [child |-> Child, proofs |-> <<Proof(1, 2, -1, <<5, 13, 24>>)>>, tight |-> {"Whir"}] }
    \cup {Alone(Child, a, b, d, <<2, 2, 17>>) : a \in 0..3, b \in {-1, 2}, d \in {-1, 0, 1, 3}}
    \cup {Alone(Skipping, a, b, d, <<6, 1>>) : a \in {0, 2, 4}, b \in {-1, 1}, d \in {-1, 1, 2}}
================================================================================
