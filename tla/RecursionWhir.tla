------------------------------ MODULE RecursionWhir ------------------------------
(* WhirModule: the part of the recursive verifier that checks the opening of the *)
(* stacked polynomials: rounds of k sumcheck steps each, queries to the codeword *)
(* of each round, the rows they open and their folding, and the final polynomial *)
(* with its evaluations.                                                         *)
EXTENDS RecursionTranscript

SumcheckRounds(c) == NumWhirRounds(c) * c.k_whir
LogFinalPolyLen(c) == c.l_skip + c.n_stack - SumcheckRounds(c)
FinalPolyLen(c) == 2^LogFinalPolyLen(c)
QueriesOf(c, i) == c.whir_queries[i + 1]

\* Names of values.
WhirAlpha(n) == <<"whir_alpha", n>>
Gamma(i) == <<"gamma", i>>
Z0(i) == <<"z0", i>>
Y0(i) == <<"y0", i>>
U(n) == <<"u", n>>
WhirClaim(i) == <<"whir_claim", i>>                  \* at the start of round i
PostClaim(c, n) == <<"whir_sumcheck_claim", n>>      \* behind step n
EqPartial(n) == <<"whir_eq", n>>
FinalCoeff(n) == <<"final_poly", n>>
FinalMleEval == <<"final_poly_mle_eval">>
FinalQueryEval == <<"final_poly_query_eval">>
QueryClaim(i, q) == <<"query_claim", i, q>>          \* before query q of round i
\* The point of a query: the root to an exponent, squared a number of times.
Shift(e, squarings) == <<"shift", e, squarings>>
Omega(log) == <<"omega", log>>

Query(c, pf, i, q) == pf.whir.queries[QueryOffset(c, i) + q + 1]
\* zi_root as an exponent, the index of the leaf.
ZiRoot(c, pf, i, q) == Query(c, pf, i, q) % 2^PathDepth(c, i)
FoldValue(i, e, height, coset) == <<"fold", i, e, height, coset>>
Opened(p, minor, e, coset, col) == <<"opened", p, minor, e, coset, col>>

-----------------------------------------------------------------------------
(* Preflight.                                                              *)

FoldStepSlots(c, n) ==
    ObserveExt(<<"whir_ev1", n>>) \o ObserveExt(<<"whir_ev2", n>>)
        \o PowObserveSample(c.folding_pow_bits, <<"folding_pow", n>>) \o SampleExt(WhirAlpha(n))
MiddleSlots(c, i) ==
    IF i < NumWhirRounds(c) - 1
    THEN ObserveDigest(<<"codeword_commit", i>>) \o SampleExt(Z0(i)) \o ObserveExt(Y0(i))
    ELSE Flat([n \in 1..FinalPolyLen(c) |-> ObserveExt(FinalCoeff(n - 1))])
BeforeQueries(c, i) ==
    Flat([j \in 1..c.k_whir |-> FoldStepSlots(c, i * c.k_whir + j - 1)]) \o MiddleSlots(c, i)
        \o PowObserveSample(c.query_pow_bits, <<"query_pow", i>>)
RoundSlots(c, queries, i) ==
    BeforeQueries(c, i)
        \o [q \in 1..QueriesOf(c, i) |-> Sampled(Number(queries[QueryOffset(c, i) + q]))]
        \o SampleExt(Gamma(i))

\* compute_merkle_precomputation: the opened rows are hashed in chunks; states
\* before and behind each.
NumChunks(width) == (width + CHUNK - 1) \div CHUNK
ChunkLen(width, chunk) == Min({CHUNK, width - chunk * CHUNK})
LeafDigest(c, pf, major, minor, q, coset) ==
    LeafNode(c, pf, [idx |-> Query(c, pf, major, q), depth |-> PathDepth(c, major), major |-> major, minor |-> minor], 0, coset)
\* One open row of the first round: lanes behind chunk; none before the first.
RowState(c, pf, minor, q, coset, chunk) ==
    LET digest == LeafDigest(c, pf, 0, minor, q, coset)
        last == chunk = NumChunks(pf.st.widths[minor + 1]) - 1
    IN  [i \in Lanes |-> IF chunk < 0 THEN Zero
                         ELSE IF last /\ i < CHUNK THEN Append(digest, i)
                         ELSE <<"row_state", pf.idx, minor, ZiRoot(c, pf, 0, q), coset, chunk, i>>]
PreState(c, pf, minor, q, coset, chunk) ==
    LET before == RowState(c, pf, minor, q, coset, chunk - 1)
        len == ChunkLen(pf.st.widths[minor + 1], chunk)
    IN  [i \in Lanes |-> IF i < len THEN Opened(pf.idx, minor, ZiRoot(c, pf, 0, q), coset, chunk * CHUNK + i) ELSE before[i]]
InitialPerms(c, pf) ==
    Flat([m \in 1..Len(pf.st.widths) |-> Flat([q \in 1..QueriesOf(c, 0) |-> Flat([s \in 1..2^c.k_whir |->
        [k \in 1..NumChunks(pf.st.widths[m]) |->
            <<PreState(c, pf, m - 1, q - 1, s - 1, k - 1), RowState(c, pf, m - 1, q - 1, s - 1, k - 1)>>]])])])
\* A value of a later round is hashed by a compression with zeros.
OpenedValue(c, pf, i, q, coset) == FoldValue(i, <<pf.idx, ZiRoot(c, pf, i, q)>>, 0, coset)
CodewordCompressions(c, pf) ==
    Flat([i \in 1..NumWhirRounds(c) - 1 |-> Flat([q \in 1..QueriesOf(c, i) |-> [s \in 1..2^c.k_whir |->
        <<<<OpenedValue(c, pf, i, q - 1, s - 1), Zero>>, LeafDigest(c, pf, i, 0, q - 1, s - 1)>>]])])

WhirPreflight(c, pf) ==
    LET start[i \in 0..NumWhirRounds(c)] ==
            IF i = 0 THEN Len(pf.log) ELSE start[i - 1] + Len(RoundSlots(c, pf.queries, i - 1))
        queries == pf.queries
        logged == [pf EXCEPT
            !.log = @ \o Flat([i \in 1..NumWhirRounds(c) |-> RoundSlots(c, queries, i - 1)]),
            !.whir = [queries |-> queries, round_tidx |-> start,
                      query_tidx |-> [i \in 0..NumWhirRounds(c) - 1 |-> start[i] + Len(BeforeQueries(c, i))],
                      perms |-> <<>>, compressions |-> <<>>]]
    IN  [logged EXCEPT !.whir.perms = InitialPerms(c, logged), !.whir.compressions = CodewordCompressions(c, logged)]

-----------------------------------------------------------------------------
(* Rows.                                                                   *)

WhirRoundRows(c, pf) ==
    [n \in 1..NumWhirRounds(c) |->
        LET i == n - 1
        IN  [en |-> 1, ctr |-> <<pf.idx, i>>, first |-> <<IntOf(i = 0), 1>>, tidx |-> pf.whir.round_tidx[i],
             num_queries |-> QueriesOf(c, i), log |-> LogRsDomain(c, i),
             val |-> [claim |-> WhirClaim(i), next_claim |-> WhirClaim(i + 1),
                      post |-> PostClaim(c, (i + 1) * c.k_whir - 1)]]]

\* alpha_lookup_counts: each alpha folds the openings of its own round and
\* enters the evaluation of every query of the rounds before.
AlphaLookups(c, i, j) ==
    SumUpTo(i, LAMBDA r : QueriesOf(c, r) + 1) + QueriesOf(c, i) * 2^(c.k_whir - 1 - j)
FoldStepLen(c) == 3 * D_EF + PowTidxCount(c.folding_pow_bits)
WhirSumcheckRows(c, pf) ==
    [k \in 1..SumcheckRounds(c) |->
        LET n == k - 1  i == n \div c.k_whir  j == n % c.k_whir
        IN  [en |-> 1, ctr |-> <<pf.idx, i, j>>, first |-> <<IntOf(n = 0), IntOf(j = 0), 1>>,
             tidx |-> pf.whir.round_tidx[i] + FoldStepLen(c) * j, lookups |-> AlphaLookups(c, i, j),
             val |-> [pre |-> IF j = 0 THEN WhirClaim(i) ELSE PostClaim(c, n - 1), claim |-> PostClaim(c, n),
                      group |-> PostClaim(c, (i + 1) * c.k_whir - 1), eq |-> EqPartial(n)]]]

QueryRows(c, pf) ==
    Flat([n \in 1..NumWhirRounds(c) |-> [k \in 1..QueriesOf(c, n - 1) |->
        LET i == n - 1  q == k - 1  e == ZiRoot(c, pf, i, q)
        IN  [en |-> 1, ctr |-> <<pf.idx, i, q>>, first |-> <<IntOf(i = 0 /\ q = 0), IntOf(q = 0), 1>>,
             tidx |-> pf.whir.query_tidx[i] + q, sample |-> Query(c, pf, i, q), num_queries |-> QueriesOf(c, i),
             log |-> LogRsDomain(c, i), root |-> e,
             val |-> [pre |-> QueryClaim(i, q), next |-> QueryClaim(i, q + 1), post |-> WhirClaim(i + 1),
                      yi |-> FoldValue(i, <<pf.idx, e>>, c.k_whir, 0)]]]])

InitialOpenedRows(c, pf) ==
    LET Before(m) == SumUpTo(m, LAMBDA j : pf.st.widths[j + 1])
        Row(q, s, m, k) ==
            LET e == ZiRoot(c, pf, 0, q)  len == ChunkLen(pf.st.widths[m + 1], k)
            IN  [en |-> 1, ctr |-> <<pf.idx, q, s, m, k>>,
                 first |-> <<IntOf(q = 0 /\ s = 0 /\ m = 0 /\ k = 0), IntOf(s = 0 /\ m = 0 /\ k = 0), IntOf(m = 0 /\ k = 0), IntOf(k = 0), 1>>,
                 len |-> len, mu_first |-> Before(m) + k * CHUNK, mu_last |-> Before(m) + k * CHUNK + len - 1,
                 twiddle |-> s, root |-> e, sample |-> Query(c, pf, 0, q),
                 val |-> [pre |-> PreState(c, pf, m, q, s, k), post |-> RowState(c, pf, m, q, s, k),
                          acc |-> FoldValue(0, <<pf.idx, e>>, 0, s), yi |-> FoldValue(0, <<pf.idx, e>>, c.k_whir, 0)]]
    IN  Flat([q \in 1..QueriesOf(c, 0) |-> Flat([s \in 1..2^c.k_whir |-> Flat([m \in 1..Len(pf.st.widths) |->
            [k \in 1..NumChunks(pf.st.widths[m]) |-> Row(q - 1, s - 1, m - 1, k - 1)]])])])

NonInitialOpenedRows(c, pf) ==
    LET Row(i, q, s) ==
            LET e == ZiRoot(c, pf, i, q)
            IN  [en |-> 1, ctr |-> <<pf.idx, i - 1, q, s>>,
                 first |-> <<IntOf(i = 1 /\ q = 0 /\ s = 0), IntOf(q = 0 /\ s = 0), IntOf(s = 0), 1>>,
                 twiddle |-> s, root |-> e, sample |-> Query(c, pf, i, q),
                 val |-> [value |-> OpenedValue(c, pf, i, q, s), hash |-> LeafDigest(c, pf, i, 0, q, s),
                          yi |-> FoldValue(i, <<pf.idx, e>>, c.k_whir, 0)]]
    IN  Flat([i \in 1..NumWhirRounds(c) - 1 |-> Flat([q \in 1..QueriesOf(c, i) |->
            [s \in 1..2^c.k_whir |-> Row(i, q - 1, s - 1)]])])

\* binary_k_fold: halves of the coset are folded, the second at the opposite
\* points; twiddles are exponents of the root of the coset.
FoldRows(c, pf) ==
    LET Row(i, q, h, s) ==
            LET e == ZiRoot(c, pf, i, q)  m == 2^(c.k_whir - h)
            IN  [p |-> pf.idx, round |-> i, query |-> q, height |-> h, coset |-> s, size |-> m, root |-> IntOf(m = 1),
                 twiddle |-> s * 2^(h - 1), e |-> e,
                 val |-> [left |-> FoldValue(i, <<pf.idx, e>>, h - 1, s), right |-> FoldValue(i, <<pf.idx, e>>, h - 1, s + m),
                          out |-> FoldValue(i, <<pf.idx, e>>, h, s), final |-> FoldValue(i, <<pf.idx, e>>, c.k_whir, 0)]]
    IN  Flat([n \in 1..NumWhirRounds(c) |-> Flat([q \in 1..QueriesOf(c, n - 1) |-> Flat([h \in 1..c.k_whir |->
            [s \in 1..2^(c.k_whir - h) |-> Row(n - 1, q - 1, h, s - 1)]])])])

MleValue(layer, node) == IF layer = 0 THEN FinalCoeff(node) ELSE <<"final_poly_fold", layer, node>>
FinalMleRows(c, pf) ==
    LET vars == LogFinalPolyLen(c)
        tidx == pf.whir.round_tidx[NumWhirRounds(c) - 1] + c.k_whir * FoldStepLen(c)
    IN  Flat([h \in 1..vars + 1 |-> [n \in 1..2^(vars - (h - 1)) |->
            LET layer == h - 1  nodes == 2^(vars - layer)
            IN  [p |-> pf.idx, root |-> IntOf(layer = vars), layer |-> layer, node |-> n - 1, tidx |-> tidx, nodes |-> nodes,
                 val |-> [point |-> U(SumcheckRounds(c) + vars - layer), value |-> MleValue(layer, n - 1),
                          left |-> MleValue(layer - 1, n - 1), right |-> MleValue(layer - 1, n - 1 + nodes)]]]])

\* build_final_poly_query_eval_records: every query of every round and the one
\* out of the domain before them: first the alphas of the later rounds, then
\* the coefficients of the final polynomial.
QueryPoint(c, pf, i, q) ==
    IF q > 0 THEN Shift(ZiRoot(c, pf, i, q - 1), c.k_whir)
    ELSE IF i < NumWhirRounds(c) - 1 THEN Z0(i) ELSE Zero
Squared(v, n) == <<"squared", v, n>>
FinalQueryRows(c, pf) ==
    LET EqLen(i) == c.k_whir * (NumWhirRounds(c) - 1 - i)
        LastRound(i) == IntOf(i = NumWhirRounds(c) - 1)
        Row(i, q, phase, v) ==
            LET same == phase = 0 \/ v + 1 < FinalPolyLen(c)
                firstInQuery == v = 0 /\ (phase = 0 \/ EqLen(i) = 0)
            IN  [en |-> 1, ctr |-> <<pf.idx, i, q, phase - LastRound(i), v>>,
                 first |-> <<IntOf(firstInQuery /\ q = 0 /\ i = 0), IntOf(firstInQuery /\ q = 0), IntOf(firstInQuery), IntOf(v = 0), 1>>,
                 phase |-> phase, last_round |-> LastRound(i), query_zero |-> IntOf(q = 0),
                 carry |-> IntOf(/\ ~ same
                                 /\ ~ (i = NumWhirRounds(c) - 1 /\ q = QueriesOf(c, i))
                                 /\ ~ (i = NumWhirRounds(c) - 1 /\ q = 0)),
                 gamma_pow |-> q + 1,
                 val |-> [point |-> QueryPoint(c, pf, i, q), squarings |-> IF phase = 0 THEN v ELSE EqLen(i)]]
    IN  Flat([n \in 1..NumWhirRounds(c) |-> Flat([k \in 1..QueriesOf(c, n - 1) + 1 |->
            [v \in 1..EqLen(n - 1) |-> Row(n - 1, k - 1, 0, v - 1)]
            \o [v \in 1..FinalPolyLen(c) |-> Row(n - 1, k - 1, 1, v - 1)]])])

-----------------------------------------------------------------------------
(* The AIRs.                                                               *)

Same(n, level) == n.en - n.first[level]

\* Where the proof of work of a round is, behind the sumcheck.
PowTidx(c, l, same) ==
    l.tidx + FoldStepLen(c) * c.k_whir + (IF same = 1 THEN DIGEST_SIZE + 2 * D_EF ELSE D_EF * FinalPolyLen(c))
WhirRoundEval(c, l, n) ==
    LET same == Same(n, 1)
    IN  /\ l.en = 1 => l.num_queries = QueriesOf(c, l.ctr[2])
        /\ l.first[1] = 1 => l.log = LogRsDomain(c, 0)
        /\ same = 1 => n.log = l.log - 1 /\ n.val.claim = l.val.next_claim
        /\ l.en - same = 1 => l.ctr[2] = NumWhirRounds(c) - 1
        /\ same = 1 => n.tidx = PowTidx(c, l, same) + PowTidxCount(c.query_pow_bits) + D_EF + l.num_queries
WhirRoundMessages(c, l, n) ==
    IF l.en = 0 THEN <<>>
    ELSE
    LET same == Same(n, 1)
        p == l.ctr[1]  i == l.ctr[2]
        post == l.tidx + FoldStepLen(c) * c.k_whir
        pow == PowTidx(c, l, same)
        verify == pow + PowTidxCount(c.query_pow_bits)
    IN  Receive(<<"whir_module", p, l.tidx, l.val.claim>>, l.first[1])
        \o Send(<<"commitments", p, i + 1, 0, <<"codeword_commit", i>>>>, same * n.num_queries)
        \o Send(<<"whir_sumcheck", p, l.tidx, i * c.k_whir, l.val.claim, l.val.post>>, 1)
        \o ObserveDigestBus(p, post, <<"codeword_commit", i>>, same)
        \o SampleExtBus(p, post + DIGEST_SIZE, Z0(i), same)
        \o ObserveExtBus(p, post + DIGEST_SIZE + D_EF, Y0(i), same)
        \o Send(<<"whir_query", p, i, 0, IF same = 1 THEN Z0(i) ELSE Zero>>, 1)
        \o Send(<<"final_poly_mle_eval", p, post, i + 1, FinalMleEval>>, 1 - same)
        \o Send(<<"final_poly_query_eval", p, i + 1, FinalQueryEval>>, 1 - same)
        \o PowBus(p, pow, c.query_pow_bits, <<"query_pow", i>>, 1)
        \o Send(<<"verify_queries", p, verify, i, l.num_queries, l.log, Gamma(i), QueryClaim(i, 0), l.val.next_claim>>, 1)
        \o SampleExtBus(p, verify + l.num_queries, Gamma(i), 1)
        \o Send(<<"whir_gamma", p, i, Gamma(i)>>, 1)

WhirSumcheckEval(c, l, n) ==
    LET round == Same(n, 2)
    IN  /\ l.en - round = 1 => l.ctr[3] = c.k_whir - 1 /\ l.val.claim = l.val.group
        /\ round = 1 => l.val.claim = n.val.pre /\ n.val.group = l.val.group /\ n.tidx = l.tidx + FoldStepLen(c)
WhirSumcheckMessages(c, l, n) ==
    IF l.en = 0 THEN <<>>
    ELSE
    LET p == l.ctr[1]
        step == l.ctr[2] * c.k_whir + l.ctr[3]
    IN  Receive(<<"whir_sumcheck", p, l.tidx, step, l.val.pre, l.val.group>>, l.first[2])
        \o ObserveExtBus(p, l.tidx, <<"whir_ev1", step>>, 1)
        \o ObserveExtBus(p, l.tidx + D_EF, <<"whir_ev2", step>>, 1)
        \o PowBus(p, l.tidx + 2 * D_EF, c.folding_pow_bits, <<"folding_pow", step>>, 1)
        \o SampleExtBus(p, l.tidx + 2 * D_EF + PowTidxCount(c.folding_pow_bits), WhirAlpha(step), 1)
        \o Send(<<"whir_alpha", p, step, WhirAlpha(step)>>, l.lookups)
        \o Send(<<"eq_alpha_u", p, l.val.eq>>, 1 - Same(n, 1))
        \o Receive(<<"whir_opening_point", p, step, U(step)>>, 1)

QueryEval(c, l, n) ==
    LET round == Same(n, 2)
    IN  /\ l.en - round = 1 => l.ctr[3] + 1 = l.num_queries /\ l.val.next = QueryClaim(l.ctr[2], l.num_queries)
        /\ round = 1 => n.tidx = l.tidx + 1 /\ n.log = l.log /\ n.val.pre = l.val.next /\ n.val.post = l.val.post
QueryMessages(c, l, n) ==
    IF l.en = 0 THEN <<>>
    ELSE
    LET p == l.ctr[1]  i == l.ctr[2]  q == l.ctr[3]
    IN  Receive(<<"verify_queries", p, l.tidx, i, l.num_queries, l.log, Gamma(i), l.val.pre, l.val.post>>, l.first[2])
        \o SampleBus(p, l.tidx, Number(l.sample), 1)
        \o Send(<<"whir_query", p, i, q + 1, Shift(l.root, c.k_whir)>>, 1)
        \o Send(<<"verify_query", p, i, q, l.sample, l.root, l.val.yi>>, 1)
        \o Receive(ExpBitsKey(Omega(l.log), l.sample, LogRsDomain(c, 0) - c.k_whir - i, l.root), 1)

\* The digest in the lanes that a hash leaves.
DigestOf(state) == SubSeq(state[0], 1, Len(state[0]) - 1)
FoldingKey(p, i, q, height, shift, coset, size, twiddle, value, final) ==
    <<"whir_folding", p, i, q, height, shift, coset, size, twiddle, value, final>>
InitialOpenedEval(c, l, n) ==
    LET commit == Same(n, 4)  coset == Same(n, 3)  query == Same(n, 2)
    IN  /\ l.len \in 0..CHUNK
        /\ l.first[3] = 1 => l.mu_first = 0
        /\ coset = 1 => n.mu_first = l.mu_last + 1
        /\ l.en - query = 1 => l.ctr[3] = 2^c.k_whir - 1
        /\ l.first[4] = 1 => \A i \in Lanes : i >= l.len => l.val.pre[i] = Zero
        /\ commit = 1 => l.len = CHUNK /\ \A i \in Lanes : i >= n.len => n.val.pre[i] = l.val.post[i]
        /\ l.first[2] = 1 => l.twiddle = 0
        /\ coset = 1 => n.twiddle = l.twiddle
        /\ l.en = 1 /\ coset = 0 /\ n.en = 1 => n.twiddle = (l.twiddle + 1) % 2^c.k_whir
        /\ query = 1 => n.root = l.root /\ n.sample = l.sample /\ n.val.yi = l.val.yi
InitialOpenedMessages(c, l, n) ==
    IF l.en = 0 THEN <<>>
    ELSE
    LET p == l.ctr[1]  q == l.ctr[2]  s == l.ctr[3]  m == l.ctr[4]
    IN  Receive(<<"whir_mu", p, <<"stacking_mu">>>>, l.first[1])
        \o Flat([i \in 1..l.len |-> Receive(<<"stacking_indices", p, m, l.ctr[5] * CHUNK + i - 1>>, 1)])
        \o Receive(<<"verify_query", p, 0, q, l.sample, l.root, l.val.yi>>, l.first[2])
        \o Receive(<<"poseidon2_permute", l.val.pre, l.val.post>>, 1)
        \o Send(<<"merkle_verify", p, DigestOf(l.val.post), l.sample, l.sample, LogRsDomain(c, 0) + 1, 0, 1, s, 0, m>>, 1 - Same(n, 4))
        \o Send(FoldingKey(p, 0, q, 0, Shift(l.root, 0), s, 2^c.k_whir, l.twiddle, l.val.acc, <<Shift(l.root, c.k_whir), l.val.yi>>),
                1 - Same(n, 3))

NonInitialOpenedEval(c, l, n) ==
    LET query == Same(n, 3)
    IN  /\ l.en - query = 1 => l.ctr[4] = 2^c.k_whir - 1
        /\ l.first[3] = 1 => l.twiddle = 0
        /\ query = 1 => n.twiddle = l.twiddle + 1 /\ n.root = l.root /\ n.sample = l.sample /\ n.val.yi = l.val.yi
NonInitialOpenedMessages(c, l, n) ==
    IF l.en = 0 THEN <<>>
    ELSE
    LET p == l.ctr[1]  i == l.ctr[2] + 1  q == l.ctr[3]  s == l.ctr[4]
    IN  Receive(<<"verify_query", p, i, q, l.sample, l.root, l.val.yi>>, l.first[3])
        \o Send(FoldingKey(p, i, q, 0, Shift(l.root, 0), s, 2^c.k_whir, l.twiddle, l.val.value, <<Shift(l.root, c.k_whir), l.val.yi>>), 1)
        \o Receive(<<"poseidon2_compress", <<l.val.value, Zero>>, l.val.hash>>, 1)
        \o Send(<<"merkle_verify", p, l.val.hash, l.sample, l.sample, LogRsDomain(c, 0) + 1 - i, 0, 1, s, i, 0>>, 1)

FoldEval(c, l) ==
    l.root = 1 => l.twiddle = 0 /\ l.coset = 0 /\ l.height = c.k_whir /\ l.val.out = l.val.final
FoldMessages(c, l) ==
    LET Key(height, squarings, coset, size, twiddle, value) ==
            FoldingKey(l.p, l.round, l.query, height, Shift(l.e, squarings), coset, size, twiddle % 2^c.k_whir, value,
                       <<Shift(l.e, c.k_whir), l.val.final>>)
        step == l.round * c.k_whir + l.height - 1
    IN  Receive(<<"whir_alpha", l.p, step, WhirAlpha(step)>>, 1)
        \o Receive(Key(l.height - 1, l.height - 1, l.coset, 2 * l.size, l.twiddle, l.val.left), 1)
        \o Receive(Key(l.height - 1, l.height - 1, l.coset + l.size, 2 * l.size, l.twiddle + 2^(c.k_whir - 1), l.val.right), 1)
        \o Send(Key(l.height, l.height, l.coset, l.size, 2 * l.twiddle, l.val.out), 1 - l.root)

FinalMleEvalRow(c, l) ==
    l.root = 1 => l.layer = LogFinalPolyLen(c) /\ l.nodes = 1 /\ l.node = 0
FinalMleMessages(c, l) ==
    LET nonleaf == IntOf(l.layer > 0)
        firstNode == nonleaf * IntOf(l.node = 0)
        var == SumcheckRounds(c) + LogFinalPolyLen(c) - l.layer
        Folding(layer, node, nodes, value) == <<"final_poly_folding", l.p, layer, node, nodes, l.tidx, value>>
    IN  Receive(<<"whir_opening_point", l.p, var, l.val.point>>, firstNode)
        \o Send(<<"whir_opening_point_lookup", l.p, var, l.val.point>>, firstNode * (l.nodes - 1))
        \o Receive(<<"whir_opening_point_lookup", l.p, var, l.val.point>>, nonleaf - firstNode)
        \o Receive(Folding(l.layer - 1, l.node, 2 * l.nodes, l.val.left), nonleaf)
        \o Receive(Folding(l.layer - 1, l.node + l.nodes, 2 * l.nodes, l.val.right), nonleaf)
        \o Send(Folding(l.layer, l.node, l.nodes, l.val.value), 1 - l.root)
        \o ObserveExtBus(l.p, l.tidx + l.node * D_EF, l.val.value, 1 - nonleaf)
        \o Send(<<"whir_final_poly", l.p, l.node, l.val.value>>,
                (1 - nonleaf) * SumUpTo(NumWhirRounds(c), LAMBDA i : QueriesOf(c, i) + 1))
        \o Receive(<<"final_poly_mle_eval", l.p, l.tidx, NumWhirRounds(c), FinalMleEval>>, l.root)
        \o Receive(<<"eq_alpha_u", l.p, EqPartial(SumcheckRounds(c) - 1)>>, l.root)

FinalQueryRowEval(c, l, n) ==
    LET proof == Same(n, 1)  round == Same(n, 2)  query == Same(n, 3)  phase == Same(n, 4)
        eqLen == c.k_whir * (NumWhirRounds(c) - 1 - l.ctr[2])
    IN  l.en = 1 =>
        /\ l.phase = 1 /\ phase = 0 => l.ctr[5] = FinalPolyLen(c) - 1
        /\ l.phase = 0 /\ phase = 0 => l.ctr[5] = eqLen - 1
        /\ l.phase = 0 => n.val.point = l.val.point /\ n.val.squarings = l.val.squarings + 1
        /\ l.phase = 1 /\ query = 1 => n.val = l.val
        /\ l.first[2] = 1 => l.gamma_pow = 1 /\ l.query_zero = 1
        /\ query = 1 => n.gamma_pow = l.gamma_pow /\ n.query_zero = l.query_zero
        /\ round = 1 /\ n.first[3] = 1 => n.gamma_pow = l.gamma_pow + 1
        /\ l.ctr[3] # 0 => l.query_zero = 0
        /\ proof = 0 => l.last_round = 1
        /\ round = 1 => n.last_round = l.last_round
        /\ l.ctr[2] # NumWhirRounds(c) - 1 => l.last_round = 0
        /\ l.carry = (proof - query) * (1 - l.query_zero * l.last_round)
FinalQueryMessages(c, l, n) ==
    IF l.en = 0 THEN <<>>
    ELSE
    LET p == l.ctr[1]  i == l.ctr[2]
        alpha == (i + 1) * c.k_whir + l.ctr[5]
    IN  Receive(<<"whir_query", p, i, l.ctr[3], l.val.point>>, l.first[3])
        \o Receive(<<"whir_alpha", p, alpha, WhirAlpha(alpha)>>, 1 - l.phase)
        \o Receive(<<"whir_gamma", p, i, Gamma(i)>>, l.first[2])
        \o Receive(<<"final_poly_query_eval", p, NumWhirRounds(c), FinalQueryEval>>, 1 - Same(n, 1))
        \o Receive(<<"whir_final_poly", p, FinalPolyLen(c) - 1 - l.ctr[5], FinalCoeff(FinalPolyLen(c) - 1 - l.ctr[5])>>, l.phase)

-----------------------------------------------------------------------------
\* enqueue_pow_requests_for_proof: the proofs of work, and for each query its
\* root with the shift that its Merkle paths look up.
WhirExpBits(c, pf) ==
    PowRequest(c.mu_pow_bits)
    \o Flat([n \in 1..SumcheckRounds(c) |-> PowRequest(c.folding_pow_bits)])
    \o Flat([n \in 1..NumWhirRounds(c) |-> PowRequest(c.query_pow_bits)])
    \o Flat([n \in 1..NumWhirRounds(c) |-> [q \in 1..QueriesOf(c, n - 1) |->
            ExpBits(Omega(LogRsDomain(c, n - 1)), Query(c, pf, n - 1, q - 1), PathDepth(c, n - 1), PathDepth(c, n - 1) + 1,
                    IF n = 1 THEN Len(pf.st.widths) ELSE 1)]])

\* The opened rows of later rounds: none if there is one round.
OptionalTrace(rowsOfProofs) == IF Flat(rowsOfProofs) = <<>> THEN <<>> ELSE Trace(rowsOfProofs)
WhirTraces(c, pfs) ==
    LET n == Len(pfs)
    IN  [round |-> Trace([k \in 1..n |-> WhirRoundRows(c, pfs[k])]),
         sumcheck |-> Trace([k \in 1..n |-> WhirSumcheckRows(c, pfs[k])]),
         query |-> Trace([k \in 1..n |-> QueryRows(c, pfs[k])]),
         initial |-> Trace([k \in 1..n |-> InitialOpenedRows(c, pfs[k])]),
         opened |-> OptionalTrace([k \in 1..n |-> NonInitialOpenedRows(c, pfs[k])]),
         fold |-> Flat([k \in 1..n |-> FoldRows(c, pfs[k])]),
         mle |-> Flat([k \in 1..n |-> FinalMleRows(c, pfs[k])]),
         final |-> Trace([k \in 1..n |-> FinalQueryRows(c, pfs[k])])]
WhirAccepted(c, ts) ==
    /\ Accepted(ts.round, LAMBDA l, n : WhirRoundEval(c, l, n))
    /\ Accepted(ts.sumcheck, LAMBDA l, n : WhirSumcheckEval(c, l, n))
    /\ Accepted(ts.query, LAMBDA l, n : QueryEval(c, l, n))
    /\ Accepted(ts.initial, LAMBDA l, n : InitialOpenedEval(c, l, n))
    /\ Accepted(ts.opened, LAMBDA l, n : NonInitialOpenedEval(c, l, n))
    /\ \A k \in 1..Len(ts.fold) : FoldEval(c, ts.fold[k])
    /\ \A k \in 1..Len(ts.mle) : FinalMleEvalRow(c, ts.mle[k])
    /\ Accepted(ts.final, LAMBDA l, n : FinalQueryRowEval(c, l, n))
WhirMessages(c, ts) ==
    MessagesOf(ts.round, LAMBDA l, n : WhirRoundMessages(c, l, n))
    \o MessagesOf(ts.sumcheck, LAMBDA l, n : WhirSumcheckMessages(c, l, n))
    \o MessagesOf(ts.query, LAMBDA l, n : QueryMessages(c, l, n))
    \o MessagesOf(ts.initial, LAMBDA l, n : InitialOpenedMessages(c, l, n))
    \o MessagesOf(ts.opened, LAMBDA l, n : NonInitialOpenedMessages(c, l, n))
    \o [k \in 1..Len(ts.fold) |-> FoldMessages(c, ts.fold[k])]
    \o [k \in 1..Len(ts.mle) |-> FinalMleMessages(c, ts.mle[k])]
    \o MessagesOf(ts.final, LAMBDA l, n : FinalQueryMessages(c, l, n))
================================================================================
