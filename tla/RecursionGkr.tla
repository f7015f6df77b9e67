------------------------------ MODULE RecursionGkr ------------------------------
(* GkrModule: the part of the recursive verifier that checks the GKR proof of  *)
(* the interactions, one row per proof (input), per layer, per sumcheck round  *)
(* of each layer, and per extra challenge xi.                                  *)
EXTENDS RecursionBus

\* c: the verifying key of the child; pf: a proof with its preflight records.
\* The layers are claims_per_layer, none when there are no interactions.
Layers(pf) == pf.ps.layers
NumXis(c, pf) == pf.ps.n_max + c.l_skip

\* Names of the values of layer i and round j.
Mu(i) == <<"mu", i>>
Ri(i, j) == <<"ri", i, j>>
LayerClaims(i) == <<<<"p_xi_0", i>>, <<"q_xi_0", i>>, <<"p_xi_1", i>>, <<"q_xi_1", i>>>>
Evals(i, j) == <<<<"ev1", i, j>>, <<"ev2", i, j>>, <<"ev3", i, j>>>>
Q0(pf) == IF Layers(pf) = 0 THEN One ELSE <<"q0">>
Numer(i) == <<"numer", i>>
Denom(i) == <<"denom", i>>
InputClaim(pf) ==
    IF Layers(pf) = 0 THEN <<Zero, <<"alpha">>>> ELSE <<Numer(Layers(pf) - 1), Denom(Layers(pf) - 1)>>
\* Both the verifier's running claim and eq, after the given number of rounds.
SumcheckClaim(i, j) == <<"sumcheck_claim", i, j>>
SumcheckEq(i, j) == <<"sumcheck_eq", i, j>>

\* xi, the point at which the input layer is evaluated, with the index of its
\* sample: the rounds of the last layer behind its mu, then the extra ones.
XiName(pf, k) ==
    CASE k >= Layers(pf) -> <<"xi", k>>
      [] Layers(pf) = 1 -> Zero
      [] k = 0 -> Mu(Layers(pf) - 1)
      [] OTHER -> Ri(Layers(pf) - 1, k - 1)

-----------------------------------------------------------------------------
(* Preflight.                                                              *)

ObserveClaims(i) == Flat([k \in 1..4 |-> ObserveExt(LayerClaims(i)[k])]) \o SampleExt(Mu(i))
LayerLog(i) ==
    SampleExt(<<"lambda", i>>)
    \o Flat([j \in 1..i |-> Flat([k \in 1..3 |-> ObserveExt(Evals(i, j - 1)[k])]) \o SampleExt(Ri(i, j - 1))])
    \o ObserveClaims(i)
GkrLog(c, pf) ==
    LET n == Layers(pf)
    IN  PowObserveSample(c.logup_pow_bits, <<"logup_pow">>)
        \o SampleExt(<<"alpha">>) \o SampleExt(<<"beta">>)
        \o (IF n = 0 THEN <<>>
            ELSE ObserveExt(Q0(pf)) \o ObserveClaims(0) \o Flat([i \in 1..n - 1 |-> LayerLog(i)]))
        \o Flat([k \in 1..Sat(NumXis(c, pf) - n) |-> SampleExt(XiName(pf, n + k - 1))])

GkrPreflight(c, pf) ==
    LET log == pf.log \o GkrLog(c, pf)
    IN  [pf EXCEPT !.log = log,
                   !.gkr = [post_tidx |-> Len(log),
                            xi |-> [k \in 0..Max({Layers(pf), NumXis(c, pf)}) - 1 |-> XiName(pf, k)]]]

-----------------------------------------------------------------------------
(* generate_blob: the records of each proof, with their transcript indices. *)

FirstLayerTidx(c, pf) == pf.ps.post_tidx + PowTidxCount(c.logup_pow_bits) + 3 * D_EF
FirstSumcheckTidx(c, pf) == FirstLayerTidx(c, pf) + 6 * D_EF
\* Samples after the layers.
XiSamplerTidx(c, pf) ==
    pf.gkr.post_tidx - D_EF * Sat(NumXis(c, pf) - Layers(pf))

\* GkrInputTraceGenerator
InputRows(c, pf) ==
    <<[en |-> 1, ctr |-> <<pf.idx>>, first |-> <<1>>, tidx |-> pf.ps.post_tidx,
       n_logup |-> pf.ps.n_logup, n_max |-> pf.ps.n_max, greater |-> IntOf(pf.ps.n_max > pf.ps.n_logup),
       logup_zero |-> IntOf(pf.ps.n_logup = 0),
       val |-> [pow |-> <<"logup_pow">>, alpha |-> <<"alpha">>, q0 |-> Q0(pf), claim |-> InputClaim(pf)]]>>

LayerTidx(c, pf, j) ==
    FirstLayerTidx(c, pf) + (IF j = 0 THEN 0 ELSE D_EF * (2 * j * j + 4 * j - 1))

LayerRow(c, pf, i, dummy) ==
    [en |-> 1, ctr |-> <<pf.idx>>, first |-> <<IntOf(i = 0)>>, dummy |-> dummy, layer |-> i,
     tidx |-> IF dummy = 1 THEN 0 ELSE LayerTidx(c, pf, i),
     val |-> [lambda |-> <<"lambda", i>>, mu |-> Mu(i), claims |-> LayerClaims(i), numer |-> Numer(i), denom |-> Denom(i),
              claim_in |-> IF i = 0 THEN Q0(pf) ELSE SumcheckClaim(i, 0), eq |-> SumcheckEq(i, i),
              claim_out |-> SumcheckClaim(i, i)]]
\* GkrLayerTraceGenerator: one row that says nothing if there are no layers.
LayerRows(c, pf) ==
    IF Layers(pf) = 0 THEN <<LayerRow(c, pf, 0, 1)>>
    ELSE [i \in 1..Layers(pf) |-> LayerRow(c, pf, i - 1, 0)]

\* GkrSumcheckRecord: layers are counted from the first that has rounds.
LayerStartIndex(i) == (i * (i + 1)) \div 2
DeriveTidx(c, pf, i, j) ==
    FirstSumcheckTidx(c, pf) + 4 * D_EF * (LayerStartIndex(i) + j) + 6 * D_EF * i
\* ris[offset], the rounds of all layers numbered through.
RiAt(offset) ==
    LET i == CHOOSE k \in 0..offset : LayerStartIndex(k) <= offset /\ offset < LayerStartIndex(k + 1)
    IN  Ri(i + 1, offset - LayerStartIndex(i))
PrevChallenge(i, j) ==
    IF j = 0 THEN Mu(i) ELSE RiAt(LayerStartIndex(i - 1) + (j - 1))
SumcheckRow(c, pf, i, j, dummy) ==
    [en |-> 1, ctr |-> <<pf.idx, i>>, first |-> <<IntOf(i = 0 /\ j = 0), IntOf(j = 0)>>, dummy |-> dummy,
     round |-> j, last_layer |-> IntOf(dummy = 1 \/ i = Layers(pf) - 2),
     tidx |-> IF dummy = 1 THEN D_EF ELSE DeriveTidx(c, pf, i, j),
     val |-> IF dummy = 1 THEN <<>>
             ELSE [evals |-> Evals(i + 1, j), prev |-> PrevChallenge(i, j), challenge |-> RiAt(LayerStartIndex(i) + j),
                   claim_in |-> SumcheckClaim(i + 1, j), claim_out |-> SumcheckClaim(i + 1, j + 1),
                   eq_out |-> SumcheckEq(i + 1, j + 1)]]
\* GkrSumcheckTraceGenerator
SumcheckRows(c, pf) ==
    IF Layers(pf) <= 1 THEN <<SumcheckRow(c, pf, 0, 0, 1)>>
    ELSE Flat([i \in 1..Layers(pf) - 1 |-> [j \in 1..i |-> SumcheckRow(c, pf, i - 1, j - 1, 0)]])

\* GkrXiSamplerTraceGenerator
XiRows(c, pf) ==
    LET n == Sat(NumXis(c, pf) - Layers(pf))
    IN  IF n = 0
        THEN <<[en |-> 1, ctr |-> <<pf.idx>>, first |-> <<1>>, dummy |-> 1, idx |-> 0, tidx |-> 0, val |-> <<>>]>>
        ELSE [k \in 1..n |->
                [en |-> 1, ctr |-> <<pf.idx>>, first |-> <<IntOf(k = 1)>>, dummy |-> 0, idx |-> Layers(pf) + k - 1,
                 tidx |-> XiSamplerTidx(c, pf) + (k - 1) * D_EF, val |-> pf.gkr.xi[Layers(pf) + k - 1]]]

-----------------------------------------------------------------------------
(* The AIRs.                                                               *)

InputEval(l, n) == l.greater \in {0, 1} /\ (l.en = 1 => l.logup_zero = IntOf(l.n_logup = 0))

InputMessages(c, l, n) ==
    LET has == 1 - l.logup_zero
        layers == l.n_logup + c.l_skip
        needs == IntOf(l.greater = 1 \/ l.logup_zero = 1)
        pow == PowTidxCount(c.logup_pow_bits)
        tidxAfter == l.tidx + pow + 2 * D_EF
        tidxAfterLayers == tidxAfter + has * layers * (layers + 2) * 2 * D_EF
        tidxEnd == tidxAfterLayers + needs * (l.n_max + c.l_skip - has * layers) * D_EF
        p == l.ctr[1]
    IN  Send(<<"gkr_layer_input", p, tidxAfter + D_EF, l.val.q0>>, l.en * has)
        \o Receive(<<"gkr_layer_output", p, tidxAfterLayers, layers - 1, l.val.claim>>, l.en * has)
        \o Send(<<"gkr_xi_sampler", p, has * layers, tidxAfterLayers>>, l.en * needs)
        \o Receive(<<"gkr_xi_sampler", p, l.n_max + c.l_skip - 1, tidxEnd>>, l.en * needs)
        \o Receive(<<"gkr_module", p, l.tidx, l.n_logup, l.n_max, l.greater>>, l.en)
        \o PowBus(p, l.tidx, c.logup_pow_bits, l.val.pow, l.en)
        \o SampleExtBus(p, l.tidx + pow, l.val.alpha, l.en)
        \o ObserveExtBus(p, l.tidx + pow + 2 * D_EF, l.val.q0, l.en * has)
        \o Send(<<"bc_module", p, tidxEnd + D_EF, l.val.claim[1], <<"minus_alpha", l.val.claim[2]>>>>, l.en)
        \o Send(<<"constraints_folding_input", p, tidxEnd>>, l.en)
        \o Send(<<"interactions_folding_input", p, l.tidx + pow + D_EF>>, l.en)

LayerEval(l, n) ==
    LET isTransition == IsTransition(n, 1)  isLast == IsLast(l, n, 1)
    IN  /\ l.dummy \in {0, 1}
        /\ l.first[1] = 1 => l.layer = 0
        /\ isTransition # 0 => n.layer = l.layer + 1 /\ n.dummy = l.dummy /\ l.dummy = 0
        /\ l.dummy # 0 => l.first[1] = 1 /\ isLast = 1
        /\ isTransition # 0 => n.tidx = l.tidx + (1 - l.first[1]) * D_EF + l.layer * 4 * D_EF + 5 * D_EF

LayerMessages(c, l, n) ==
    LET isLast == IsLast(l, n, 1)
        on == 1 - l.dummy
        nonRoot == l.en * (1 - l.first[1]) * on
        tidxAfter == l.tidx + (1 - l.first[1]) * D_EF + l.layer * 4 * D_EF
        tidxEnd == tidxAfter + 5 * D_EF
        p == l.ctr[1]
    IN  Receive(<<"gkr_layer_input", p, l.tidx, l.val.claim_in>>, l.first[1] * on)
        \o Send(<<"gkr_layer_output", p, tidxEnd, l.layer, <<l.val.numer, l.val.denom>>>>, isLast * on)
        \o Send(<<"gkr_sumcheck_input", p, l.layer, isLast, l.tidx + D_EF, l.val.claim_in>>, nonRoot)
        \o Receive(<<"gkr_sumcheck_output", p, l.layer, tidxAfter, l.val.claim_out, l.val.eq>>, nonRoot)
        \o Send(<<"gkr_sumcheck_challenge", p, l.layer, 0, l.val.mu>>, IsTransition(n, 1) * on)
        \o SampleExtBus(p, l.tidx, l.val.lambda, nonRoot)
        \o Flat([k \in 1..4 |-> ObserveExtBus(p, tidxAfter + (k - 1) * D_EF, l.val.claims[k], l.en * on)])
        \o SampleExtBus(p, tidxAfter + 4 * D_EF, l.val.mu, l.en * on)
        \o Send(<<"xi_randomness", p, 0, l.val.mu>>, isLast * on)

SumcheckEval(l, n) ==
    LET isTransition == IsTransition(n, 2)  isLast == IsLast(l, n, 2)
    IN  /\ l.dummy \in {0, 1} /\ l.last_layer \in {0, 1}
        /\ l.first[2] = 1 => l.round = 0
        /\ isTransition # 0 =>
               n.round = l.round + 1 /\ n.last_layer = l.last_layer /\ n.tidx = l.tidx + 4 * D_EF
        /\ isLast # 0 => l.round = l.ctr[2]
        /\ IsTransition(n, 1) # 0 => n.dummy = l.dummy /\ l.dummy = 0
        /\ l.dummy # 0 => l.first = <<1, 1>> /\ isLast = 1 /\ l.last_layer = 1

SumcheckMessages(c, l, n) ==
    LET on == 1 - l.dummy
        layer == l.ctr[2] + 1
        p == l.ctr[1]
    IN  Receive(<<"gkr_sumcheck_input", p, layer, l.last_layer, l.tidx, l.val.claim_in>>, l.first[2] * on)
        \o Send(<<"gkr_sumcheck_output", p, layer, l.tidx + 4 * D_EF, l.val.claim_out, l.val.eq_out>>, IsLast(l, n, 2) * on)
        \o Receive(<<"gkr_sumcheck_challenge", p, layer - 1, l.round, l.val.prev>>, l.en * on)
        \o Send(<<"gkr_sumcheck_challenge", p, layer, l.round + 1, l.val.challenge>>, l.en * (1 - l.last_layer) * on)
        \o Flat([k \in 1..3 |-> ObserveExtBus(p, l.tidx + (k - 1) * D_EF, l.val.evals[k], l.en * on)])
        \o SampleExtBus(p, l.tidx + 3 * D_EF, l.val.challenge, l.en * on)
        \o Send(<<"xi_randomness", p, l.round + 1, l.val.challenge>>, l.en * l.last_layer * on)

XiEval(l, n) ==
    LET isTransition == IsTransition(n, 1)
    IN  /\ l.dummy \in {0, 1}
        /\ isTransition # 0 => n.idx = l.idx + 1 /\ n.dummy = l.dummy /\ l.dummy = 0 /\ n.tidx = l.tidx + D_EF
        /\ l.dummy # 0 => l.first[1] = 1 /\ IsLast(l, n, 1) = 1

XiMessages(c, l, n) ==
    LET on == 1 - l.dummy
        p == l.ctr[1]
    IN  Receive(<<"gkr_xi_sampler", p, l.idx, l.tidx>>, l.first[1] * on)
        \o Send(<<"gkr_xi_sampler", p, l.idx, l.tidx + D_EF>>, IsLast(l, n, 1) * on)
        \o SampleExtBus(p, l.tidx, l.val, l.en * on)
        \o Send(<<"xi_randomness", p, l.idx, l.val>>, l.en * on)

-----------------------------------------------------------------------------
\* generate_proving_ctxs: the traces of the module for all proofs.
GkrTraces(c, pfs) ==
    [input |-> Trace([k \in 1..Len(pfs) |-> InputRows(c, pfs[k])]),
     layer |-> Trace([k \in 1..Len(pfs) |-> LayerRows(c, pfs[k])]),
     sumcheck |-> Trace([k \in 1..Len(pfs) |-> SumcheckRows(c, pfs[k])]),
     xi |-> Trace([k \in 1..Len(pfs) |-> XiRows(c, pfs[k])])]
GkrAccepted(c, ts) ==
    /\ Accepted(ts.input, InputEval)
    /\ Accepted(ts.layer, LayerEval)
    /\ Accepted(ts.sumcheck, SumcheckEval)
    /\ Accepted(ts.xi, XiEval)
GkrMessages(c, ts) ==
    MessagesOf(ts.input, LAMBDA l, n : InputMessages(c, l, n))
    \o MessagesOf(ts.layer, LAMBDA l, n : LayerMessages(c, l, n))
    \o MessagesOf(ts.sumcheck, LAMBDA l, n : SumcheckMessages(c, l, n))
    \o MessagesOf(ts.xi, LAMBDA l, n : XiMessages(c, l, n))
\* The requests to the table of powers, one per proof.
GkrExpBits(c, pfs) ==
    Flat([k \in 1..Len(pfs) |-> PowRequest(c.logup_pow_bits)])
================================================================================
