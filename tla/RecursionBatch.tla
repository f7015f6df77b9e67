----------------------------- MODULE RecursionBatch -----------------------------
(* BatchConstraintModule: the part of the recursive verifier that checks the     *)
(* constraints and the interactions of all AIRs of a proof at a random point.    *)
(* The expressions of the AIRs are a table that is the same for every proof.     *)
EXTENDS RecursionStacking

G == INSTANCE RecursionGkr

\* Names of values.
BcMu == <<"bc_mu">>
BcClaim(round) == <<"bc_sumcheck_claim", round>>      \* round -1 is the sum over D
RoundEval(round, k) == <<"round_eval", round, k>>
EqZeroN(sharp) == <<"eq_zero", sharp>>
EqOuter(sharp, n) == <<"eq_outer", sharp, n>>
SharpProduct(xi, iter) == <<"sharp_product", xi, iter>>
SelUni(c, n, isFirst) == IF n = -c.l_skip THEN One ELSE <<"sel_uni", n, isFirst>>
SelHypercube(n, isFirst) == IF n = 0 THEN One ELSE <<"sel_hypercube", n, isFirst>>
Eq3bValue(nLift, idx) == <<"eq_3b", nLift, idx>>
ExprClaim(isInteraction, idx) == <<"expression_claim", isInteraction, idx>>
Expr(i, node) == <<"expr", i, node>>

SDeg(c) == c.max_degree + 1
UnivariateDeg(c) == SDeg(c) * (2^c.l_skip - 1)
NGlobal(pf) == Max({pf.ps.n_max, pf.ps.n_logup})
SortOf(pf, i) == (CHOOSE k \in 1..Len(pf.ps.sorted) : pf.ps.sorted[k] = i) - 1

-----------------------------------------------------------------------------
(* Preflight.                                                              *)

BatchPreflight(c, pf) ==
    LET numXi == Max({G!Layers(pf), G!NumXis(c, pf)})
        extra == Sat(c.l_skip + NGlobal(pf) - numXi)
        log0 == pf.log \o Flat([k \in 1..extra |-> SampleExt(<<"xi", numXi + k - 1>>)])
        log1 == log0 \o SampleExt(<<"bc_lambda">>)
                     \o Flat([k \in 1..Len(pf.ps.sorted) |->
                              ObserveExt(<<"sum_claim_p", k - 1>>) \o ObserveExt(<<"sum_claim_q", k - 1>>)])
                     \o SampleExt(BcMu)
        log2 == log1 \o Flat([k \in 1..UnivariateDeg(c) + 1 |-> ObserveExt(<<"bc_coeff", k - 1>>)]) \o SampleExt(R(0))
        log3 == log2 \o Flat([n \in 1..pf.ps.n_max |->
                    Flat([k \in 1..SDeg(c) |-> ObserveExt(RoundEval(n - 1, k))]) \o SampleExt(R(n))])
        columns == ColumnClaims(c, pf)
        log4 == log3 \o Flat([k \in 1..Len(columns) |->
                    ObserveExt(ColClaim(columns[k].sort, columns[k].part, columns[k].col))
                    \o ObserveExt(RotClaim(columns[k].sort, columns[k].part, columns[k].col, columns[k].rot))])
    IN  [pf EXCEPT !.log = log4,
                   !.bc = [tidx_lambda |-> Len(log0), tidx_univariate |-> Len(log1), tidx_multilinear |-> Len(log2),
                           tidx_columns |-> Len(log3),
                           xi |-> [k \in 0..numXi + extra - 1 |-> IF k < numXi THEN G!XiName(pf, k) ELSE <<"xi", k>>]]]

-----------------------------------------------------------------------------
(* The expressions: build_cached_trace_record.  A node of an AIR has a kind  *)
(* and attributes: arguments of an operation, column, part and offset of a   *)
(* variable.                                                                 *)

Operations == {"Add", "Sub", "Mul"}
Selectors == {"IsFirst", "IsLast", "IsTransition"}
UsesArg0(kind) == kind \in Operations \cup {"Neg", "InteractionMult", "InteractionMsgComp"}
UsesArg1(kind) == kind \in Operations

\* Mutant of Fanout: a node that is both arguments of an operation is used once.
FanoutOnce(a, node) ==
    Cardinality({k \in 1..Len(a.nodes) : \/ UsesArg0(a.nodes[k].kind) /\ a.nodes[k].attrs[1] = node
                                         \/ UsesArg1(a.nodes[k].kind) /\ a.nodes[k].attrs[2] = node})
    + SumSeq([j \in 1..Len(a.inters) |->
        IntOf(a.inters[j].count = node)
        + Cardinality({k \in 1..Len(a.inters[j].message) : a.inters[j].message[k] = node})])

\* How often a node is looked up.
Fanout(a, node) ==
    Cardinality({k \in 1..Len(a.nodes) : UsesArg0(a.nodes[k].kind) /\ a.nodes[k].attrs[1] = node})
    + Cardinality({k \in 1..Len(a.nodes) : UsesArg1(a.nodes[k].kind) /\ a.nodes[k].attrs[2] = node})
    + SumSeq([j \in 1..Len(a.inters) |->
        IntOf(a.inters[j].count = node)
        + Cardinality({k \in 1..Len(a.inters[j].message) : a.inters[j].message[k] = node})])

ExprRecord(kind, i, node, attrs, constraint, fanout) ==
    [kind |-> kind, air |-> i, node |-> node, attrs |-> attrs, is_constraint |-> IntOf(constraint # -1),
     constraint |-> Sat(constraint), fanout |-> fanout]
\* The place of a node among the constraints, -1 if it is none.
ConstraintIdx(a, node) ==
    LET places == {k \in 1..Len(a.constraints) : a.constraints[k] = node}
    IN  IF places = {} THEN -1 ELSE Min(places) - 1
NodeRecords(a, i) ==
    [k \in 1..Len(a.nodes) |->
        ExprRecord(a.nodes[k].kind, i, k - 1, a.nodes[k].attrs, ConstraintIdx(a, k - 1), Fanout(a, k - 1))]
InteractionRecords(a, i) ==
    Flat([j \in 1..Len(a.inters) |->
        <<ExprRecord("InteractionMult", i, j - 1, <<a.inters[j].count, 0, 0>>, -1, 0)>>
        \o [k \in 1..Len(a.inters[j].message) |->
              ExprRecord("InteractionMsgComp", i, j - 1, <<a.inters[j].message[k], k - 1, 0>>, -1, 0)]
        \o <<ExprRecord("InteractionBusIndex", i, j - 1, <<a.inters[j].bus, 0, 0>>, -1, 0)>>])
UnusedRecords(a, i) ==
    [k \in 1..Len(a.unused) |-> ExprRecord("Var", i, Len(a.nodes) + k - 1, a.unused[k], -1, 0)]
CachedRecords(c) ==
    Flat([k \in 1..NumAirs(c) |->
        NodeRecords(Air(c, k - 1), k - 1) \o InteractionRecords(Air(c, k - 1), k - 1) \o UnusedRecords(Air(c, k - 1), k - 1)])
PaddingRecord == ExprRecord("none", 0, 0, <<0, 0, 0>>, -1, 0)

\* BatchConstraintBlob: the value of a node.
VarValue(sort, attrs) == IF attrs[3] = 1 THEN RotClaim(sort, attrs[2], attrs[1], 1) ELSE ColClaim(sort, attrs[2], attrs[1])
NodeValue(c, pf, i, node) ==
    LET x == Air(c, i).nodes[node + 1]
    IN  CASE x.kind = "Var" -> VarValue(SortOf(pf, i), x.attrs)
          [] x.kind = "PublicValue" -> <<"pv", i, x.attrs[1]>>
          [] x.kind = "Constant" -> <<"constant", x.attrs[1]>>
          [] OTHER -> Expr(i, node)
\* selector_counts: nodes of these kinds in the AIRs of this height.
SelectorCount(c, pf, kinds, height) ==
    SumSeq([k \in 1..Len(pf.ps.sorted) |->
        LET i == pf.ps.sorted[k]
        IN  IF pf.lh[i] # height THEN 0
            ELSE Cardinality({j \in 1..Len(Air(c, i).nodes) : Air(c, i).nodes[j].kind \in kinds})])
FirstCount(c, pf, height) == SelectorCount(c, pf, {"IsFirst"}, height)
LastTransCount(c, pf, height) == SelectorCount(c, pf, {"IsLast", "IsTransition"}, height)

-----------------------------------------------------------------------------
(* SymbolicExpressionAir: a row of the table has a slot for each proof.      *)
(* slot_state is 0 if there is no such proof, 2 if the AIR is in the proof,  *)
(* 1 otherwise.                                                              *)

EmptySlot(state) == [state |-> state, sort |-> 0, n_abs |-> 0, n_neg |-> 0, arg0 |-> Zero, arg1 |-> Zero]
ExprArgs(c, pf, r) ==
    LET lh == pf.lh[r.air]
        isFirst == IntOf(r.kind = "IsFirst")
        Arg(k) == NodeValue(c, pf, r.air, r.attrs[k])
    IN  CASE r.kind = "Var" -> <<VarValue(SortOf(pf, r.air), r.attrs), Zero>>
          [] r.kind = "PublicValue" -> <<<<"pv", r.air, r.attrs[1]>>, Zero>>
          [] r.kind = "InteractionBusIndex" -> <<<<"constant", r.attrs[1] + 1>>, Zero>>
          [] r.kind = "Constant" -> <<Zero, Zero>>
          [] r.kind \in Selectors -> <<SelUni(c, Min({lh, c.l_skip}) - c.l_skip, isFirst), SelHypercube(NLift(c, lh), isFirst)>>
          [] r.kind \in Operations -> <<Arg(1), Arg(2)>>
          [] OTHER -> <<Arg(1), Zero>>
ExprSlot(c, pfs, k, r) ==
    IF k > Len(pfs) THEN EmptySlot(0)
    ELSE IF r.kind = "none" \/ r.air \notin Present(pfs[k]) THEN EmptySlot(1)
    ELSE LET n == pfs[k].lh[r.air] - c.l_skip
             args == ExprArgs(c, pfs[k], r)
         IN  [state |-> 2, sort |-> SortOf(pfs[k], r.air), n_abs |-> IF n < 0 THEN -n ELSE n, n_neg |-> IntOf(n < 0),
              arg0 |-> args[1], arg1 |-> args[2]]
ExprTrace(c, pfs) ==
    LET records == CachedRecords(c)
        height == 2^Log2Ceil(Len(records))
    IN  [k \in 1..height |->
            LET r == IF k <= Len(records) THEN records[k] ELSE PaddingRecord
            IN  [rec |-> r, slots |-> [p \in 1..c.max_proofs |-> ExprSlot(c, pfs, p, r)]]]
ExprEval(trace) ==
    \A k \in 1..Len(trace) : \A p \in DOMAIN trace[k].slots :
        LET s == trace[k].slots[p]
        IN  /\ s.state \in 0..2
            /\ s.n_neg = 1 => s.state = 2
            /\ s.state = 2 => trace[k].rec.kind # "none"
            /\ k < Len(trace) => (s.state # 0) = (trace[k + 1].slots[p].state # 0)
            /\ trace[k].rec.kind \in Selectors /\ s.n_neg = 1 => s.arg1 = One
ExprValue(r, s) ==
    CASE r.kind \in {"Var", "PublicValue", "InteractionMult", "InteractionMsgComp"} -> s.arg0
      [] r.kind = "InteractionBusIndex" -> <<"constant", r.attrs[1] + 1>>
      [] r.kind = "Constant" -> <<"constant", r.attrs[1]>>
      [] OTHER -> Expr(r.air, r.node)
ExprKey(p, i, node, value) == <<"symbolic_expression", p, i, node, value>>
ExprMessages(r, s, p) ==
    LET present == IntOf(s.state = 2)
        Is(kinds) == present * IntOf(r.kind \in kinds)
        value == ExprValue(r, s)
        isFirst == IntOf(r.kind = "IsFirst")
    IN  Send(ExprKey(p, r.air, r.node, value), present * r.fanout)
        \o Receive(ExprKey(p, r.air, r.attrs[1], s.arg0), present * IntOf(UsesArg0(r.kind)))
        \o Receive(ExprKey(p, r.air, r.attrs[2], s.arg1), present * IntOf(UsesArg1(r.kind)))
        \o Receive(<<"column_claims", p, s.sort, r.attrs[2], r.attrs[1], s.arg0, r.attrs[3]>>, Is({"Var"}))
        \o Receive(<<"public_values", p, r.air, r.attrs[1], s.arg0>>, Is({"PublicValue"}))
        \o Receive(<<"air_shape", p, s.sort, "AirId", r.air>>, present)
        \o Receive(<<"air_presence", p, r.air, present>>, IntOf(s.state # 0 /\ r.kind # "none"))
        \o Receive(<<"hyperdim", p, s.sort, s.n_abs, s.n_neg>>, present)
        \o Receive(<<"sel_uni", p, -(s.n_abs * s.n_neg), isFirst, s.arg0>>, Is(Selectors))
        \o Receive(<<"sel_hypercube", p, s.n_abs, isFirst, s.arg1>>, Is(Selectors) * (1 - s.n_neg))
        \o Send(<<"interactions_folding", p, r.air, r.node, IntOf(r.kind = "InteractionMult"), r.attrs[2], value>>,
                Is({"InteractionMult", "InteractionMsgComp"}))
        \o Send(<<"interactions_folding", p, r.air, r.node, 0, -1, value>>, Is({"InteractionBusIndex"}))
        \o Send(<<"constraints_folding", p, r.air, r.constraint, value>>, present * r.is_constraint)

\* DagCommitSubAir: without a cached trace the records are public by their hash,
\* a sponge that absorbs one a row.
CollapseFlags(r) == <<r.kind, r.is_constraint>>
RecordDigest(r) == <<CollapseFlags(r), r.air, r.node, r.attrs, r.fanout, r.constraint>>
DagCommitRows(c) ==
    LET records == CachedRecords(c)
        digest == [k \in 1..2^Log2Ceil(Len(records)) |-> RecordDigest(IF k <= Len(records) THEN records[k] ELSE PaddingRecord)]
    IN  [k \in DOMAIN digest |-> [digest |-> digest[k], capacity |-> SubSeq(digest, 1, k - 1)]]
DagCommit(c) == LET rows == DagCommitRows(c)  last == rows[Len(rows)] IN Append(last.capacity, last.digest)
DagCommitEval(trace, rows, commit) ==
    /\ Len(rows) = Len(trace) /\ rows[1].capacity = <<>>
    /\ \A k \in 1..Len(rows) : rows[k].digest = RecordDigest(trace[k].rec)
    /\ \A k \in 1..Len(rows) - 1 : rows[k + 1].capacity = Append(rows[k].capacity, rows[k].digest)
    /\ commit = Append(rows[Len(rows)].capacity, rows[Len(rows)].digest)

-----------------------------------------------------------------------------
(* The sum claims and the sumcheck, by the transcript.                     *)

\* FractionsFolderTraceGenerator: the AIRs from the last to the first.
FractionRows(c, pf) ==
    LET m == Len(pf.ps.sorted)
    IN  [k \in 1..m |->
            [en |-> 1, ctr |-> <<pf.idx>>, first |-> <<IntOf(k = 1)>>, air |-> m - k,
             tidx |-> pf.bc.tidx_univariate - D_EF - 2 * D_EF * k, val |-> [sums |-> G!InputClaim(pf)]]]
FractionEval(l, n) ==
    /\ IsTransition(n, 1) = 1 => n.air = l.air - 1 /\ n.tidx = l.tidx - 2 * D_EF
    /\ IsLast(l, n, 1) = 1 => l.air = 0
FractionMessages(l, n) ==
    IF l.en = 0 THEN <<>>
    ELSE
    LET p == l.ctr[1]  isFirst == l.first[1]  isLast == IsLast(l, n, 1)
    IN  Receive(<<"fraction_folder_input", p, l.air + 1>>, isFirst)
        \o SampleExtBus(p, l.tidx + 2 * D_EF, BcMu, isFirst)
        \o ObserveExtBus(p, l.tidx + D_EF, <<"sum_claim_q", l.air>>, 1)
        \o ObserveExtBus(p, l.tidx, <<"sum_claim_p", l.air>>, 1)
        \o Send(<<"bc_sumcheck_claim", p, -1, BcClaim(-1)>>, isLast)
        \o Receive(<<"bc_module", p, l.tidx, l.val.sums[1], <<"minus_alpha", l.val.sums[2]>>>>, isLast)
        \o Send(<<"univariate_input", p, l.tidx + 3 * D_EF>>, isFirst)
        \o Send(<<"conductor", p, "Mu", 0, BcMu>>, isFirst)

\* UnivariateSumcheckTraceGenerator: coefficients from the highest.
BcUnivariateRows(c, pf) ==
    [k \in 1..UnivariateDeg(c) + 1 |->
        [en |-> 1, ctr |-> <<pf.idx>>, first |-> <<IntOf(k = 1)>>, coeff |-> UnivariateDeg(c) + 1 - k,
         tidx |-> pf.bc.tidx_multilinear - D_EF - k * D_EF, val |-> <<>>]]
BcUnivariateEval(c, l, n) ==
    /\ l.first[1] = 1 => l.coeff = UnivariateDeg(c)
    /\ IsTransition(n, 1) = 1 => n.coeff = l.coeff - 1 /\ n.tidx = l.tidx - D_EF
    /\ IsLast(l, n, 1) = 1 => l.coeff = 0
BcUnivariateMessages(l, n) ==
    IF l.en = 0 THEN <<>>
    ELSE
    LET p == l.ctr[1]  isFirst == l.first[1]  isLast == IsLast(l, n, 1)
    IN  SampleExtBus(p, l.tidx + D_EF, R(0), isFirst)
        \o ObserveExtBus(p, l.tidx, <<"bc_coeff", l.coeff>>, 1)
        \o Receive(<<"univariate_input", p, l.tidx>>, isLast)
        \o Send(<<"stacking_module", p, l.tidx + 2 * D_EF>>, isFirst)
        \o Receive(<<"bc_sumcheck_claim", p, -1, BcClaim(-1)>>, isLast)
        \o Send(<<"bc_sumcheck_claim", p, 0, BcClaim(0)>>, isLast)
        \o Send(<<"constraint_randomness", p, 0, R(0)>>, isFirst)
        \o Send(<<"conductor", p, "R", 0, R(0)>>, 2 * isFirst)

\* MultilinearSumcheckTraceGenerator: s_deg + 1 evaluations a round, the first of
\* which is not in the transcript; a row that says nothing if there is no round.
MultilinearRows(c, pf) ==
    LET perRound == SDeg(c) + 1
        Row(k, dummy) ==
            [en |-> 1, ctr |-> <<pf.idx, k \div perRound>>, first |-> <<IntOf(k = 0), IntOf(k % perRound = 0)>>, dummy |-> dummy,
             eval |-> k % perRound, tidx |-> IF dummy = 1 THEN 0 ELSE pf.bc.tidx_multilinear + k * D_EF, val |-> <<>>]
    IN  IF pf.ps.n_max = 0 THEN <<Row(0, 1)>> ELSE [k \in 1..pf.ps.n_max * perRound |-> Row(k - 1, 0)]
MultilinearEval(c, l, n) ==
    /\ l.dummy \in {0, 1} /\ (l.dummy = 1 => l.en = 1 /\ l.first[1] = 1 /\ IsLast(l, n, 1) = 1)
    /\ l.first[1] = 1 => l.ctr[2] = 0
    /\ l.first[2] = 1 => l.eval = 0
    /\ IsTransition(n, 2) = 1 => n.eval = l.eval + 1
    /\ IsLast(l, n, 2) = 1 /\ l.dummy = 0 => l.eval = SDeg(c)
    /\ IsTransition(n, 1) = 1 => n.tidx = l.tidx + D_EF
MultilinearMessages(l, n) ==
    IF l.en = 0 \/ l.dummy = 1 THEN <<>>
    ELSE
    LET p == l.ctr[1]  round == l.ctr[2]  isLast == IsLast(l, n, 2)
    IN  ObserveExtBus(p, l.tidx, RoundEval(round, n.eval), IsTransition(n, 2))
        \o SampleExtBus(p, l.tidx, R(round + 1), isLast)
        \o Receive(<<"stacking_module", p, l.tidx>>, l.first[1])
        \o Send(<<"stacking_module", p, l.tidx + D_EF>>, IsLast(l, n, 1))
        \o Receive(<<"bc_sumcheck_claim", p, round, BcClaim(round)>>, l.first[2])
        \o Send(<<"bc_sumcheck_claim", p, round + 1, BcClaim(round + 1)>>, isLast)
        \o Send(<<"constraint_randomness", p, round + 1, R(round + 1)>>, l.first[2])
        \o Send(<<"conductor", p, "R", round + 1, R(round + 1)>>, l.first[2])

-----------------------------------------------------------------------------
(* The values of eq.                                                        *)

\* EqNsTraceGenerator: a row for each n up to n_global.
InteractionsUpTo(c, pf, n) ==
    SumSeq([k \in 1..Len(pf.ps.sorted) |->
        IF NLift(c, pf.lh[pf.ps.sorted[k]]) <= n THEN Len(Air(c, pf.ps.sorted[k]).inters) ELSE 0])
TracesOf(c, pf, n) == Cardinality({i \in Present(pf) : NLift(c, pf.lh[i]) = n})
EqNsRows(c, pf) ==
    [k \in 1..NGlobal(pf) + 1 |->
        LET n == k - 1  height == n + c.l_skip
        IN  [en |-> 1, ctr |-> <<pf.idx>>, first |-> <<IntOf(n = 0)>>, n |-> n,
             n_logup |-> pf.ps.n_logup, n_max |-> pf.ps.n_max, lt_logup |-> IntOf(n < pf.ps.n_logup), lt_max |-> IntOf(n < pf.ps.n_max),
             xi_mult |-> IF n <= pf.ps.n_logup THEN InteractionsUpTo(c, pf, n) ELSE 0,
             num_traces |-> TracesOf(c, pf, n),
             first_count |-> IF n <= pf.ps.n_max THEN FirstCount(c, pf, height) ELSE 0,
             last_count |-> IF n <= pf.ps.n_max THEN LastTransCount(c, pf, height) ELSE 0,
             val |-> [xi |-> IF n = NGlobal(pf) THEN Zero ELSE pf.bc.xi[height], r |-> IF n < pf.ps.n_max THEN R(n + 1) ELSE One]]]
EqNsEval(l, n) ==
    LET within == IsTransition(n, 1) = 1  isLast == IsLast(l, n, 1) = 1
    IN  /\ l.first[1] = 1 => l.n = 0 /\ (l.n_logup # 0 => l.lt_logup = 1) /\ (l.n_max # 0 => l.lt_max = 1)
        /\ within => n.n = l.n + 1 /\ n.n_logup = l.n_logup /\ n.n_max = l.n_max /\ n.lt_logup <= l.lt_logup /\ n.lt_max <= l.lt_max
        /\ l.en = 0 => l.lt_logup = 0 /\ l.lt_max = 0 /\ l.n_logup = 0 /\ l.n_max = 0
        /\ l.lt_logup = 1 /\ n.lt_logup = 0 => n.n = n.n_logup
        /\ l.lt_max = 1 /\ n.lt_max = 0 => n.n = n.n_max
        /\ isLast => l.lt_logup = 0 /\ l.lt_max = 0
        /\ l.en = 1 /\ l.lt_max = 0 => l.val.r = One
EqNsMessages(c, l, n) ==
    LET p == l.ctr[1]
    IN  (IF l.en = 0 THEN <<>>
         ELSE Send(<<"sel_hypercube", p, l.n, 0, SelHypercube(l.n, 0)>>, l.last_count)
              \o Send(<<"sel_hypercube", p, l.n, 1, SelHypercube(l.n, 1)>>, l.first_count)
              \o Receive(<<"xi_randomness", p, l.n + c.l_skip, l.val.xi>>, IsTransition(n, 1))
              \o Send(<<"conductor", p, "Xi", l.n + c.l_skip, l.val.xi>>, l.lt_logup * l.xi_mult)
              \o Receive(<<"eq_zero_n", p, 0, EqZeroN(0)>>, l.first[1])
              \o Receive(<<"eq_zero_n", p, 1, EqZeroN(1)>>, l.first[1])
              \o Receive(<<"conductor", p, "R", l.n + 1, l.val.r>>, l.lt_max)
              \o Receive(<<"eq_n_logup_n_max", p, l.n_logup, l.n_max>>, l.first[1]))
        \o Send(<<"eq_n_outer", n.ctr[1], 0, n.n, EqOuter(0, n.n)>>, n.en * n.num_traces)
        \o Send(<<"eq_n_outer", n.ctr[1], 1, n.n, EqOuter(1, n.n)>>, 2 * n.en * n.num_traces)

\* generate_eq_3b_blob: where an interaction is in the stacked column, by 2^l_skip.
StackedIds(c, pf) ==
    LET m == Len(pf.ps.sorted)
        Lift(k) == NLift(c, pf.lh[pf.ps.sorted[k]])
        Inters(k) == Len(Air(c, pf.ps.sorted[k]).inters)
        start[k \in 1..m] == IF k = 1 THEN 0 ELSE start[k - 1] + Inters(k - 1) * 2^Lift(k - 1)
        Id(k, j, none) == [sort |-> k - 1, inter |-> j, n_lift |-> Lift(k), idx |-> start[k] + j * 2^Lift(k), none |-> none]
    IN  Flat([k \in 1..m |-> IF Inters(k) = 0 THEN <<Id(k, 0, 1)>> ELSE [j \in 1..Inters(k) |-> Id(k, j - 1, 0)]])
Eq3bRows(c, pf) ==
    LET ids == StackedIds(c, pf)
        Row(k, n) ==
            LET x == ids[k]
            IN  [en |-> 1, ctr |-> <<pf.idx, x.sort, x.inter>>,
                 first |-> <<IntOf(k = 1 /\ n = 0), IntOf((x.inter = 0 /\ n = 0) \/ x.none = 1), IntOf(n = 0 \/ x.none = 1)>>,
                 n_lift |-> x.n_lift, n_logup |-> pf.ps.n_logup, n |-> n, at_least |-> IntOf(n >= x.n_lift), none |-> x.none,
                 idx |-> x.idx % 2^n, running |-> x.idx, bit |-> (x.idx \div 2^n) % 2,
                 val |-> [xi |-> IF n \in x.n_lift..pf.ps.n_logup - 1 THEN pf.bc.xi[c.l_skip + n] ELSE Zero]]
    IN  Flat([k \in 1..Len(ids) |->
            IF ids[k].none = 1 THEN <<Row(k, 0)>> ELSE [n \in 1..pf.ps.n_logup + 1 |-> Row(k, n - 1)]])
Eq3bEval(l, n) ==
    LET sameProof == IsTransition(n, 1) = 1
        sameAir == IsTransition(n, 2) = 1
        same == IsTransition(n, 3) = 1
        isLast == l.en = 1 /\ ~ same
    IN  /\ l.first[1] = 1 => l.ctr[2] = 0 /\ l.running = 0
        /\ l.first[2] = 1 => l.ctr[3] = 0
        /\ l.at_least \in {0, 1} /\ l.bit \in {0, 1} /\ l.none \in {0, 1}
        /\ l.first[3] = 1 => l.n = 0 /\ l.idx = 0 /\ (l.at_least = 1 => l.n_lift = 0)
        /\ sameAir => n.n_lift = l.n_lift
        /\ sameProof => /\ n.n_logup = l.n_logup
                        /\ n.running = l.running + (n.first[3] - l.none) * 2^l.n_lift
        /\ same => n.n = l.n + 1 /\ n.at_least >= l.at_least /\ n.idx = l.idx + l.bit * 2^l.n
        /\ isLast /\ l.none = 0 => l.at_least = 1 /\ l.n = l.n_logup /\ l.idx = l.running
        /\ l.at_least = 0 /\ n.at_least = 1 => n.n = n.n_lift
        /\ l.at_least = 0 => l.bit = 0
        /\ l.none = 1 => l.en = 1 /\ l.first[2] = 1 /\ ~ sameAir
Eq3bMessages(c, l, n) ==
    IF l.en = 0 THEN <<>>
    ELSE
    LET p == l.ctr[1]  same == IsTransition(n, 3)
    IN  Receive(<<"conductor", p, "Xi", l.n + c.l_skip, l.val.xi>>, l.at_least * same)
        \o Receive(<<"eq_3b_shape", p, l.ctr[2], l.n_lift, l.n_logup, l.ctr[3] + 1 - l.none>>, IsLast(l, n, 2))
        \o Send(<<"eq_3b", p, l.ctr[2], l.ctr[3], Eq3bValue(l.n_lift, l.idx)>>, (1 - same) * (1 - l.none))

\* generate_eq_sharp_uni_blob: rounds that double a list of products.
SharpRows(c, pf) ==
    LET Row(i, j) ==
            [en |-> 1, ctr |-> <<pf.idx, i, j>>, first |-> <<IntOf(i = 0), IntOf(j = 0), 1>>, xi_idx |-> c.l_skip - 1 - i,
             half |-> 2^i, val |-> [xi |-> pf.bc.xi[c.l_skip - 1 - i], before |-> IF i = 0 THEN One ELSE SharpProduct(c.l_skip - i, j)]]
    IN  Flat([i \in 1..c.l_skip |-> [j \in 1..2^(i - 1) |-> Row(i - 1, j - 1)]])
SharpEval(c, l, n) ==
    /\ l.en = 1 => l.ctr[2] = c.l_skip - 1 - l.xi_idx
    /\ l.first[2] = 1 => l.ctr[3] = 0
    /\ n.en = 1 /\ n.ctr[3] # 0 => n.ctr[3] = l.ctr[3] + 1 /\ n.half = l.half
    /\ IsLast(l, n, 2) = 1 => l.ctr[3] + 1 = l.half
    /\ n.en = 1 /\ n.first[2] = 1 /\ n.first[1] = 0 => n.half = 2 * l.half /\ l.xi_idx = n.xi_idx + 1
    /\ l.first[1] = 1 => l.half = 1 /\ l.xi_idx = c.l_skip - 1 /\ l.val.before = One
    /\ IsLast(l, n, 1) = 1 => l.xi_idx = 0
SharpMessages(l, n) ==
    IF l.en = 0 THEN <<>>
    ELSE
    LET p == l.ctr[1]  iter == l.ctr[3]
        Key(xi, it, product) == <<"eq_sharp_uni", p, xi, it, product>>
    IN  Receive(<<"xi_randomness", p, l.xi_idx, l.val.xi>>, l.first[2])
        \o Send(<<"conductor", p, "Xi", l.xi_idx, l.val.xi>>, IsLast(l, n, 1))
        \o Receive(Key(l.xi_idx + 1, iter, l.val.before), 1 - l.first[1])
        \o Send(Key(l.xi_idx, iter, SharpProduct(l.xi_idx, iter)), 1)
        \o Send(Key(l.xi_idx, iter + l.half, SharpProduct(l.xi_idx, iter + l.half)), 1)
SharpReceiverRows(c, pf) ==
    [k \in 1..2^c.l_skip |->
        [en |-> 1, ctr |-> <<pf.idx>>, first |-> <<IntOf(k = 1)>>, idx |-> k - 1, val |-> SharpProduct(0, k - 1)]]
SharpReceiverEval(l, n) == (l.first[1] = 1 => l.idx = 0) /\ (IsTransition(n, 1) = 1 => n.idx = l.idx + 1)
SharpReceiverMessages(l) ==
    IF l.en = 0 THEN <<>>
    ELSE Receive(<<"conductor", l.ctr[1], "R", 0, R(0)>>, l.first[1])
         \o Receive(<<"eq_sharp_uni", l.ctr[1], 0, l.idx, l.val>>, 1)
         \o Send(<<"eq_zero_n", l.ctr[1], 1, EqZeroN(1)>>, l.first[1])

EqUniRows(c, pf) ==
    [k \in 1..c.l_skip + 1 |->
        [en |-> 1, ctr |-> <<pf.idx>>, first |-> <<IntOf(k = 1)>>, idx |-> k - 1, val |-> pf.bc.xi[0]]]
EqUniEval(c, l, n) ==
    /\ l.first[1] = 1 \/ l.en = 0 => l.idx = 0
    /\ IsTransition(n, 1) = 1 => n.idx = l.idx + 1
    /\ IsLast(l, n, 1) = 1 => l.idx = c.l_skip
EqUniMessages(l, n) ==
    IF l.en = 0 THEN <<>>
    ELSE Receive(<<"conductor", l.ctr[1], "Xi", 0, l.val>>, l.first[1])
         \o Receive(<<"conductor", l.ctr[1], "R", 0, R(0)>>, l.first[1])
         \o Send(<<"eq_zero_n", l.ctr[1], 0, EqZeroN(0)>>, IsLast(l, n, 1))

\* How often a selector of a trace of 2^row rows is looked up, those of all higher
\* traces with that of 2^l_skip rows.
EqNegCounts(c, pf, neg, row, count(_)) ==
    CASE neg = 0 /\ row = 0 -> count(0)
      [] row = c.l_skip - neg -> SumUpTo(IF neg = 0 THEN pf.ps.n_max + 1 ELSE 1, LAMBDA k : count(row + k))
      [] OTHER -> 0
\* EqNegTraceGenerator: for each n from 0 down to 1 - l_skip, l_skip + n + 1 rows.
EqNegRows(c, pf) ==
    Flat([k \in 1..c.l_skip |-> [j \in 1..c.l_skip - k + 2 |->
        LET neg == k - 1  row == j - 1
        IN  [en |-> 1, ctr |-> <<pf.idx, neg, row>>, first |-> <<IntOf(neg = 0 /\ row = 0), IntOf(row = 0), 1>>,
             last |-> IntOf(k = c.l_skip /\ row = c.l_skip - neg), last_cube |-> IntOf(row = c.l_skip - neg),
             first_count |-> EqNegCounts(c, pf, neg, row, LAMBDA h : FirstCount(c, pf, h)),
             last_count |-> EqNegCounts(c, pf, neg, row, LAMBDA h : LastTransCount(c, pf, h)), val |-> <<>>]]])
EqNegEval(c, l, n) ==
    /\ l.en = 1 => l.last = IsLast(l, n, 1) /\ l.last_cube = IsLast(l, n, 2)
    /\ l.last = 1 \/ l.last_cube = 1 => l.en = 1
    /\ l.first[1] = 1 => l.ctr[2] = 0
    /\ l.last = 1 => l.ctr[2] = c.l_skip - 1
    /\ l.first[2] = 1 => l.ctr[3] = 0
    /\ l.last_cube = 1 => l.ctr[3] = c.l_skip - l.ctr[2]
    /\ l.en = 1 /\ l.last_cube = 0 => n.ctr[3] = l.ctr[3] + 1 /\ n.ctr[2] = l.ctr[2]
EqNegMessages(c, l, n) ==
    IF l.en = 0 THEN <<>>
    ELSE
    LET p == l.ctr[1]  neg == l.ctr[2]
        Internal(k) == <<"eq_neg_internal", p, k, <<"r_squared", k>>>>
        SelKey(k, isFirst) == <<"sel_uni", p, k, isFirst, SelUni(c, k, isFirst)>>
    IN  Receive(<<"eq_neg_base_rand", p, U(0), R(0)>>, l.first[1])
        \o Send(Internal(neg + 1), l.first[2] * (1 - n.last))
        \o Receive(Internal(neg), l.first[2] * (1 - l.first[1]))
        \o Send(SelKey(-neg, 1), n.last_cube * n.first_count)
        \o Send(SelKey(-neg, 0), n.last_cube * n.last_count)
        \o Send(SelKey(-c.l_skip, 1), l.first[1] * l.first_count)
        \o Send(SelKey(-c.l_skip, 0), l.first[1] * l.last_count)
        \o Send(<<"eq_neg_result", p, -neg, EqNegResult(-neg)>>, IntOf(neg # 0) * n.last_cube)

-----------------------------------------------------------------------------
(* Folding the interactions and constraints of each AIR, and their sum.     *)

InteractionRows(c, pf) ==
    LET ids == StackedIds(c, pf)
        Row(k, j, idx) ==      \* idx -1 is the multiplicity, Len(message) the bus
            LET x == ids[k]
                i == pf.ps.sorted[x.sort + 1]
                a == Air(c, i).inters[j]
            IN  [en |-> 1, ctr |-> <<pf.idx, x.sort, x.inter>>,
                 first |-> <<IntOf(k = 1 /\ idx = -1), IntOf(x.inter = 0 /\ idx = -1), IntOf(idx = -1)>>,
                 air |-> i, has |-> 1, bus_index |-> IntOf(idx = Len(a.message)), second |-> IntOf(idx = 0), idx |-> Sat(idx),
                 beta_tidx |-> pf.ps.post_tidx + PowTidxCount(c.logup_pow_bits) + D_EF,
                 val |-> [value |-> CASE idx = -1 -> NodeValue(c, pf, i, a.count)
                                      [] idx = Len(a.message) -> <<"constant", a.bus + 1>>
                                      [] OTHER -> NodeValue(c, pf, i, a.message[idx + 1]),
                          eq |-> Eq3bValue(x.n_lift, x.idx)]]
        Dummy(k) ==
            [en |-> 1, ctr |-> <<pf.idx, ids[k].sort, 0>>, first |-> <<IntOf(k = 1), 1, 1>>, air |-> pf.ps.sorted[ids[k].sort + 1],
             has |-> 0, bus_index |-> 0, second |-> 0, idx |-> 0,
             beta_tidx |-> pf.ps.post_tidx + PowTidxCount(c.logup_pow_bits) + D_EF, val |-> [value |-> Zero, eq |-> Zero]]
    IN  Flat([k \in 1..Len(ids) |->
            IF ids[k].none = 1 THEN <<Dummy(k)>>
            ELSE LET message == Air(c, pf.ps.sorted[ids[k].sort + 1]).inters[ids[k].inter + 1].message
                 IN  [m \in 1..Len(message) + 2 |-> Row(k, ids[k].inter + 1, m - 2)]])
InteractionEval(l, n) ==
    LET sameAir == IsTransition(n, 2)  same == IsTransition(n, 3)
        nextMessage == n.first[3] + 1 - n.en
        nextAir == n.first[2] + 1 - n.en
    IN  /\ {l.has, l.bus_index, l.second, l.first[3] + l.second} \subseteq {0, 1}
        /\ l.bus_index = 1 => l.has = 1
        /\ l.has = 1 => l.en = 1
        /\ l.first[1] = 1 => l.ctr[2] = 0
        /\ sameAir = 0 => n.ctr[3] = 0
        /\ l.first[3] + l.second = 1 => l.idx = 0
        /\ same = 1 => n.idx = l.idx + 1 - l.first[3]
        /\ sameAir = 1 => n.air = l.air
        /\ l.en = 1 => l.first[3] * nextMessage = 1 - l.has
        /\ l.en = 1 /\ l.has = 0 => l.first[2] = 1 /\ nextAir = 1
        /\ l.has = 1 => l.bus_index = nextMessage /\ l.bus_index + l.first[3] \in {0, 1}
        /\ l.first[3] * l.has = 1 => n.second = 1
        /\ n.second = 1 => l.first[3] = 1
        /\ same = 1 => n.val.eq = l.val.eq
InteractionMessages(l, n) ==
    IF l.en = 0 THEN <<>>
    ELSE
    LET p == l.ctr[1]  sort == l.ctr[2]
        Key(isMult, idx) == <<"interactions_folding", p, l.air, l.ctr[3], isMult, idx, l.val.value>>
    IN  Send(<<"expression_claim", p, 1, 2 * sort, ExprClaim(1, 2 * sort)>>, l.first[2])
        \o Send(<<"expression_claim", p, 1, 2 * sort + 1, ExprClaim(1, 2 * sort + 1)>>, l.first[2])
        \o Receive(Key(0, l.idx), l.has * (1 - l.first[3] - l.bus_index))
        \o Receive(Key(1, 0), l.first[3] * l.has)
        \o Receive(Key(0, -1), l.bus_index)
        \o SampleExtBus(p, l.beta_tidx, <<"beta">>, l.first[1])
        \o Receive(<<"air_shape", p, sort, "NumInteractions", (l.ctr[3] + 1) * l.has>>, IsLast(l, n, 2))
        \o Receive(<<"air_shape", p, sort, "AirId", l.air>>, l.first[2])
        \o Receive(<<"interactions_folding_input", p, l.beta_tidx>>, l.first[1])
        \o Receive(<<"eq_3b", p, sort, l.ctr[3], l.val.eq>>, l.has * l.first[3])

\* ConstraintsFoldingTraceGenerator: a row for the AIR, then its constraints.
ConstraintRows(c, pf) ==
    Flat([k \in 1..Len(pf.ps.sorted) |->
        LET i == pf.ps.sorted[k]
        IN  [j \in 1..Len(Air(c, i).constraints) + 1 |->
                [en |-> 1, ctr |-> <<pf.idx, k - 1>>, first |-> <<IntOf(k = 1 /\ j = 1), IntOf(j = 1)>>, air |-> i, constraint |-> j - 1,
                 n_lift |-> NLift(c, pf.lh[i]), lambda_tidx |-> pf.bc.tidx_lambda,
                 val |-> IF j = 1 THEN Zero ELSE NodeValue(c, pf, i, Air(c, i).constraints[j - 1])]]])
ConstraintEval(l, n) ==
    LET sameAir == IsTransition(n, 2) = 1
    IN  /\ l.first[1] = 1 => l.ctr[2] = 0
        /\ sameAir => n.constraint = l.constraint + 1 /\ n.air = l.air /\ n.n_lift = l.n_lift
        /\ l.first[2] = 1 => l.constraint = 0
        /\ l.first[2] = 1 /\ ~ sameAir => l.val = Zero
ConstraintMessages(l, n) ==
    IF l.en = 0 THEN <<>>
    ELSE
    LET p == l.ctr[1]  sort == l.ctr[2]
    IN  Receive(<<"n_lift", p, l.air, l.n_lift>>, l.first[2])
        \o Receive(<<"constraints_folding", p, l.air, l.constraint - 1, l.val>>, 1 - l.first[2])
        \o Send(<<"expression_claim", p, 0, sort, ExprClaim(0, sort)>>, l.first[2])
        \o Receive(<<"constraints_folding_input", p, l.lambda_tidx>>, l.first[1])
        \o SampleExtBus(p, l.lambda_tidx, <<"bc_lambda">>, l.first[1])
        \o Receive(<<"eq_n_outer", p, 0, l.n_lift, EqOuter(0, l.n_lift)>>, l.first[2])
        \o Receive(<<"air_shape", p, sort, "AirId", l.air>>, l.first[2])

\* ExpressionClaimTraceGenerator: numerator and denominator of each trace, then the
\* constraints of each trace.
ExpressionClaimRows(c, pf) ==
    LET m == Len(pf.ps.sorted)
        Size(k) == pf.lh[pf.ps.sorted[k + 1]] - c.l_skip
        Row(group, trace, parity) ==
            [en |-> 1, ctr |-> <<pf.idx, group, trace, parity>>,
             first |-> <<IntOf(group = 0 /\ trace = 0 /\ parity = 0), IntOf(trace = 0 /\ parity = 0), 1 - parity, 1>>,
             idx |-> IF group = 0 THEN 2 * trace + parity ELSE trace, rounds |-> pf.ps.n_max,
             n_abs |-> IF group = 1 THEN 0 ELSE IF Size(trace) < 0 THEN -Size(trace) ELSE Size(trace),
             n_neg |-> IF group = 1 THEN 0 ELSE IntOf(Size(trace) < 0), val |-> <<>>]
    IN  [k \in 1..2 * m |-> Row(0, (k - 1) \div 2, (k - 1) % 2)] \o [k \in 1..m |-> Row(1, k - 1, 0)]
ExpressionClaimEval(l, n) ==
    LET inter == l.en = 1 /\ l.ctr[2] = 0
    IN  /\ IsLast(l, n, 1) = 1 => l.ctr[2] = 1
        /\ l.n_neg \in {0, 1}
        /\ inter => l.ctr[4] + n.ctr[4] = 1 /\ l.idx = 2 * l.ctr[3] + l.ctr[4]
        /\ l.ctr[4] = 1 => l.ctr[2] = 0
        /\ l.ctr[2] = 1 => l.idx = l.ctr[3]
        /\ inter /\ l.ctr[4] = 0 => n.n_abs = l.n_abs /\ n.n_neg = l.n_neg
ExpressionClaimMessages(l) ==
    IF l.en = 0 THEN <<>>
    ELSE
    LET p == l.ctr[1]  inter == 1 - l.ctr[2]
    IN  Receive(<<"expression_claim", p, inter, l.idx, ExprClaim(inter, l.idx)>>, 1)
        \o Receive(<<"conductor", p, "Mu", 0, BcMu>>, l.first[1])
        \o Receive(<<"expression_claim_n_max", p, l.rounds>>, l.first[1])
        \o Receive(<<"bc_sumcheck_claim", p, l.rounds, BcClaim(l.rounds)>>, l.first[1])
        \o Receive(<<"hyperdim", p, l.ctr[3], l.n_abs, l.n_neg>>, inter - l.ctr[4])
        \o Receive(<<"eq_n_outer", p, 1, l.n_abs * (1 - l.n_neg), EqOuter(1, l.n_abs * (1 - l.n_neg))>>, inter)
        \o Receive(PowKey(l.n_abs, 2^l.n_abs), inter)
\* What the generator counts in the table of powers.
BatchCounts(c, pf) ==
    Flat([k \in 1..Len(pf.ps.sorted) |->
        LET n == pf.lh[pf.ps.sorted[k]] - c.l_skip  abs == IF n < 0 THEN -n ELSE n IN Counts("pow", <<abs, abs>>)])

-----------------------------------------------------------------------------
BatchTraces(c, pfs) ==
    LET Of(rows(_, _)) == Trace([k \in 1..Len(pfs) |-> rows(c, pfs[k])])
    IN  [expr |-> ExprTrace(c, pfs), fraction |-> Of(FractionRows), univariate |-> Of(BcUnivariateRows),
         multilinear |-> Of(MultilinearRows), eq_ns |-> Of(EqNsRows), eq_3b |-> Of(Eq3bRows), sharp |-> Of(SharpRows),
         sharp_receiver |-> Of(SharpReceiverRows), eq_uni |-> Of(EqUniRows), eq_neg |-> Of(EqNegRows),
         interactions |-> Of(InteractionRows), constraints |-> Of(ConstraintRows), claims |-> Of(ExpressionClaimRows)]
BatchAccepted(c, ts) ==
    /\ ExprEval(ts.expr)
    /\ ~ c.has_cached => DagCommitEval(ts.expr, DagCommitRows(c), DagCommit(c))
    /\ Accepted(ts.fraction, FractionEval)
    /\ Accepted(ts.univariate, LAMBDA l, n : BcUnivariateEval(c, l, n))
    /\ Accepted(ts.multilinear, LAMBDA l, n : MultilinearEval(c, l, n))
    /\ Accepted(ts.eq_ns, EqNsEval)
    /\ Accepted(ts.eq_3b, Eq3bEval)
    /\ Accepted(ts.sharp, LAMBDA l, n : SharpEval(c, l, n))
    /\ Accepted(ts.sharp_receiver, SharpReceiverEval)
    /\ Accepted(ts.eq_uni, LAMBDA l, n : EqUniEval(c, l, n))
    /\ Accepted(ts.eq_neg, LAMBDA l, n : EqNegEval(c, l, n))
    /\ Accepted(ts.interactions, InteractionEval)
    /\ Accepted(ts.constraints, ConstraintEval)
    /\ Accepted(ts.claims, ExpressionClaimEval)
BatchMessages(c, ts) ==
    [k \in 1..Len(ts.expr) |-> Flat([p \in 1..c.max_proofs |-> ExprMessages(ts.expr[k].rec, ts.expr[k].slots[p], p - 1)])]
    \o MessagesOf(ts.fraction, FractionMessages)
    \o MessagesOf(ts.univariate, BcUnivariateMessages)
    \o MessagesOf(ts.multilinear, MultilinearMessages)
    \o MessagesOf(ts.eq_ns, LAMBDA l, n : EqNsMessages(c, l, n))
    \o MessagesOf(ts.eq_3b, LAMBDA l, n : Eq3bMessages(c, l, n))
    \o MessagesOf(ts.sharp, SharpMessages)
    \o MessagesOf(ts.sharp_receiver, LAMBDA l, n : SharpReceiverMessages(l))
    \o MessagesOf(ts.eq_uni, EqUniMessages)
    \o MessagesOf(ts.eq_neg, LAMBDA l, n : EqNegMessages(c, l, n))
    \o MessagesOf(ts.interactions, InteractionMessages)
    \o MessagesOf(ts.constraints, ConstraintMessages)
    \o MessagesOf(ts.claims, LAMBDA l, n : ExpressionClaimMessages(l))
================================================================================
