---------------------------- MODULE RecursionStacking ----------------------------
(* StackingModule: the part of the recursive verifier that turns the openings of *)
(* the columns into openings of the stacked columns.  The columns of each        *)
(* commitment are cut by height into slices, which are laid one behind the other *)
(* into columns of height 2^(l_skip + n_stack).                                  *)
EXTENDS RecursionFront, RecursionWhir

\* Names of values.
ColClaim(sort, part, col) == <<"col_claim", sort, part, col>>
RotClaim(sort, part, col, rot) == IF rot = 1 THEN <<"rot_claim", sort, part, col>> ELSE Zero
StackS(n) == <<"stack_claim", n>>                 \* sum over D, s_0(u_0), s_n(u_n)
StackingMu == <<"stacking_mu">>
R(n) == <<"r", n>>                                \* challenges of the batch constraint sumcheck
EqIn(n) == <<"eq_in", n>>
KRotIn(n) == <<"k_rot_in", n>>
EqBitsEval(b, bits) == <<"eq_bits", b, bits>>
EqNegResult(n) == <<<<"eq_neg", n>>, <<"k_rot_neg", n>>>>
URound(c, round) == U(round + c.l_skip - 1)

-----------------------------------------------------------------------------
(* The layout.                                                             *)

LogStacked(c) == c.l_skip + c.n_stack
\* sorted_column_claims: the columns of the main traces, then those of each
\* preprocessed and cached trace.
PartWidths(a) == (IF a.pre > 0 THEN <<a.pre>> ELSE <<>>) \o a.cached
ColumnClaims(c, pf) ==
    LET m == Len(pf.ps.sorted)
        Of(k) == Air(c, pf.ps.sorted[k])
        Column(k, part, col, last) ==
            [sort |-> k - 1, part |-> part, col |-> col, n |-> pf.lh[pf.ps.sorted[k]] - c.l_skip,
             rot |-> IntOf(Of(k).rot), last_in_commit |-> last]
    IN  Flat([k \in 1..m |-> [j \in 1..Of(k).main |-> Column(k, 0, j - 1, k = m /\ j = Of(k).main)]])
        \o Flat([k \in 1..m |-> Flat([i \in 1..Len(PartWidths(Of(k))) |->
               [j \in 1..PartWidths(Of(k))[i] |-> Column(k, i, j - 1, j = PartWidths(Of(k))[i])]])])

\* get_stacked_slice_data: commit_idx, col_idx and row_idx of the slice of each
\* column, and whether the stacked column ends with it.
\* Mutant of SlicePlaces: a full stacked column does not end its claim.
SlicePlacesOverfull(c, columns) ==
    LET height(k) == 2^(Max({columns[k].n, 0}) + c.l_skip)
        place[k \in 1..Len(columns)] ==
            IF k = 1 THEN [commit |-> 0, col |-> 0, row |-> 0]
            ELSE LET prev == place[k - 1]
                     end == prev.row + height(k - 1)
                 IN  IF columns[k - 1].last_in_commit THEN [commit |-> prev.commit + 1, col |-> 0, row |-> 0]
                     ELSE IF end = 2^LogStacked(c) THEN [prev EXCEPT !.col = prev.col + 1, !.row = 0]
                     ELSE [prev EXCEPT !.row = end]
    IN  [k \in 1..Len(columns) |->
            [commit |-> place[k].commit, col |-> place[k].col, row |-> place[k].row,
             last |-> IntOf(columns[k].last_in_commit)]]

SlicePlaces(c, columns) ==
    LET height(k) == 2^(Max({columns[k].n, 0}) + c.l_skip)
        place[k \in 1..Len(columns)] ==
            IF k = 1 THEN [commit |-> 0, col |-> 0, row |-> 0]
            ELSE LET prev == place[k - 1]
                     end == prev.row + height(k - 1)
                 IN  IF columns[k - 1].last_in_commit THEN [commit |-> prev.commit + 1, col |-> 0, row |-> 0]
                     ELSE IF end = 2^LogStacked(c) THEN [prev EXCEPT !.col = prev.col + 1, !.row = 0]
                     ELSE [prev EXCEPT !.row = end]
    IN  [k \in 1..Len(columns) |->
            [commit |-> place[k].commit, col |-> place[k].col, row |-> place[k].row,
             last |-> IntOf(columns[k].last_in_commit \/ place[k].row + height(k) = 2^LogStacked(c))]]

\* compute_coefficients: a stacked column collects the slices laid into it.
Coefficient(slices, commit, col) ==
    {k \in 1..Len(slices) : slices[k].commit = commit /\ slices[k].col = col}
StackedWidths(slices) ==
    [m \in 1..slices[Len(slices)].commit + 1 |->
        Max({slices[k].col : k \in {j \in 1..Len(slices) : slices[j].commit = m - 1}}) + 1]
\* Whether the columns fit the w_stack claims that the circuit has room for.
FitsStack(c, pf) == SumSeq(StackedWidths(SlicePlaces(c, ColumnClaims(c, pf)))) <= c.w_stack

-----------------------------------------------------------------------------
(* Preflight.                                                              *)

NumUnivariateCoeffs(c) == 2 * (2^c.l_skip - 1) + 1
StackingPreflight(c, pf) ==
    LET columns == ColumnClaims(c, pf)
        slices == SlicePlaces(c, columns)
        widths == StackedWidths(slices)
        log0 == pf.log \o SampleExt(<<"stacking_lambda">>)
        log1 == log0 \o Flat([k \in 1..NumUnivariateCoeffs(c) |-> ObserveExt(<<"univariate_coeff", k - 1>>)]) \o SampleExt(U(0))
        log2 == log1 \o Flat([k \in 1..c.n_stack |->
                    ObserveExt(<<"stack_ev1", k>>) \o ObserveExt(<<"stack_ev2", k>>) \o SampleExt(URound(c, k))])
        log3 == log2 \o Flat([m \in 1..Len(widths) |-> Flat([j \in 1..widths[m] |-> ObserveExt(<<"stacked", m - 1, j - 1>>)])])
                     \o PowObserveSample(c.mu_pow_bits, <<"mu_pow">>) \o SampleExt(StackingMu)
    IN  [pf EXCEPT !.log = log3,
                   !.st = [columns |-> columns, slices |-> slices, widths |-> widths,
                           tidx |-> <<Len(log0), Len(log1), Len(log2)>>]]

-----------------------------------------------------------------------------
(* Trace generation.  Rows behind the last proof have its index plus one,   *)
(* and the last of them is a last row.                                      *)

StackTrace(rowsOfProofs) ==
    LET trace == Trace(rowsOfProofs)
    IN  [k \in 1..Len(trace) |->
            IF trace[k].en = 1 THEN trace[k]
            ELSE [trace[k] EXCEPT !.ctr[1] = Len(rowsOfProofs), !.last = IntOf(k = Len(trace))]]

OpeningRows(c, pf) ==
    LET columns == pf.st.columns  slices == pf.st.slices
        rows == Len(columns)
        mains == {k \in 1..rows : columns[k].part = 0}
    IN  [k \in 1..rows |->
            LET x == columns[k]  s == slices[k]  lift == Max({x.n, 0})
            IN  [en |-> 1, ctr |-> <<pf.idx>>, first |-> <<IntOf(k = 1)>>, last |-> IntOf(k = rows),
                 sort |-> x.sort, part |-> x.part, col |-> x.col, need_rot |-> x.rot,
                 main |-> IntOf(x.part = 0), transition_main |-> IntOf(k # rows /\ k # Max(mains)),
                 dim |-> x.n, log_lifted |-> lift + c.l_skip, lifted |-> 2^(lift + c.l_skip),
                 tidx |-> pf.bc.tidx_columns + 2 * D_EF * (k - 1), lambda_pow |-> 2 * (k - 1),
                 commit |-> s.commit, stacked_col |-> s.col, row |-> s.row, last_for_claim |-> s.last,
                 val |-> [coeff |-> {j \in 1..k : \A i \in j..k - 1 : slices[i].last = 0}]]]
UnivariateRows(c, pf) ==
    [k \in 1..NumUnivariateCoeffs(c) |->
        [en |-> 1, ctr |-> <<pf.idx>>, first |-> <<IntOf(k = 1)>>, last |-> IntOf(k = NumUnivariateCoeffs(c)),
         tidx |-> pf.st.tidx[1] + D_EF * (k - 1), coeff |-> k - 1, is_d |-> IntOf(k - 1 = 2^c.l_skip), val |-> <<>>]]

\* How often eq_n and k_rot_n are looked up: the columns of that height.
ColumnsOfSize(pf, n) == Cardinality({k \in 1..Len(pf.st.columns) : pf.st.columns[k].n = n})
\* The prefixes of the places of the slices, the nodes of a tree.
PlacePrefixes(c, pf) ==
    UNION {LET lift == Max({pf.st.columns[k].n, 0})
               bits == c.n_stack - lift
               b == pf.st.slices[k].row \div 2^(lift + c.l_skip)
           IN  {<<b \div 2^(bits - i), i>> : i \in 1..bits} : k \in 1..Len(pf.st.columns)}
StackSumcheckRows(c, pf) ==
    LET nodes == PlacePrefixes(c, pf)
    IN  [k \in 1..c.n_stack |->
            [en |-> 1, ctr |-> <<pf.idx>>, first |-> <<IntOf(k = 1)>>, last |-> IntOf(k = c.n_stack),
             round |-> k, tidx |-> pf.st.tidx[2] + 3 * D_EF * (k - 1), has_r |-> IntOf(k <= pf.ps.n_max),
             u_mult |-> Cardinality({x \in nodes : x[2] = c.n_stack - k + 1}),
             eq_rot_mult |-> ColumnsOfSize(pf, k), val |-> <<>>]]

ClaimRows(c, pf) ==
    LET claims == Flat([m \in 1..Len(pf.st.widths) |-> [j \in 1..pf.st.widths[m] |-> <<m - 1, j - 1>>]])
        Row(k, valid) ==
            [en |-> 1, ctr |-> <<pf.idx, k - 1>>, first |-> <<IntOf(k = 1), 1>>, valid |-> valid,
             last |-> IntOf(k = c.w_stack), commit |-> 0, col |-> 0, tidx |-> 0, val |-> [coeff |-> {}]]
    IN  [k \in 1..c.w_stack |->
            IF k > Len(claims) THEN Row(k, 0)
            ELSE [Row(k, 1) EXCEPT !.commit = claims[k][1], !.col = claims[k][2], !.tidx = pf.st.tidx[3] + D_EF * (k - 1),
                                   !.val.coeff = Coefficient(pf.st.slices, claims[k][1], claims[k][2])]]

EqBaseRows(c, pf) ==
    [k \in 1..c.l_skip + 1 |->
        [en |-> 1, ctr |-> <<pf.idx>>, first |-> <<IntOf(k = 1)>>, last |-> IntOf(k = c.l_skip + 1), row |-> k - 1,
         mult |-> IF k = c.l_skip + 1 THEN ColumnsOfSize(pf, 0) ELSE 0,
         mult_neg |-> IF k = 1 THEN 0 ELSE ColumnsOfSize(pf, -(k - 1)), val |-> <<>>]]

\* EqBitsTraceGenerator: a node for each prefix.  The slices come in turn; a new
\* one hangs below the deepest prefix that is there already, whose flag counts 1
\* for a child that ends in 0 and 2 for one that ends in 1.  The nodes that are
\* made on the way down are taken to end in 0.
EqBitsTree(c, pf) ==
    LET Lift(k) == Max({pf.st.columns[k].n, 0})
        Depth(k) == c.n_stack - Lift(k)
        Place(k) == pf.st.slices[k].row \div 2^(Lift(k) + c.l_skip)
        Node(k, bits) == <<Place(k) \div 2^(Depth(k) - bits), bits>>
        root == <<0, 0>>
        tree[k \in 0..Len(pf.st.columns)] ==
            IF k = 0 THEN [x \in {root} |-> [flag |-> 0, mult |-> 0]]
            ELSE LET t == tree[k - 1]
                     found == Max({0} \cup {i \in 1..Depth(k) : Node(k, i) \in DOMAIN t})
                     new == {Node(k, i) : i \in found + 1..Depth(k)}
                     leaf == Node(k, Depth(k))
                 IN  [x \in DOMAIN t \cup new |->
                        IF x \in new THEN [flag |-> IntOf(x # leaf), mult |-> IntOf(x = leaf)]
                        ELSE IF x # Node(k, found) THEN t[x]
                        ELSE IF found = Depth(k) THEN [t[x] EXCEPT !.mult = t[x].mult + 1]
                        ELSE [t[x] EXCEPT !.flag = t[x].flag + 1 + (Node(k, found + 1)[1] % 2)]]
    IN  tree[Len(pf.st.columns)]
\* The nodes behind the root, in any order.
EqBitsRows(c, pf) ==
    LET tree == EqBitsTree(c, pf)
        size == 2^c.n_stack
        order == SelectSeq([i \in 1..size * (c.n_stack + 1) |-> <<(i - 1) \div (c.n_stack + 1), (i - 1) % (c.n_stack + 1)>>],
                           LAMBDA x : x \in DOMAIN tree /\ x[2] > 0)
        Row(x, first) == [en |-> 1, ctr |-> <<pf.idx>>, first |-> <<first>>, flag |-> tree[x].flag, mult |-> tree[x].mult,
                          sub |-> x[1] \div 2, lsb |-> x[1] % 2, bits |-> x[2], last |-> 0, val |-> <<>>]
    IN  <<Row(<<0, 0>>, 1)>> \o [k \in 1..Len(order) |-> Row(order[k], 0)]

-----------------------------------------------------------------------------
(* The AIRs.                                                               *)

\* A last row is followed by a row of the next proof or by padding.
LastFlag(l, n) == l.last \in {0, 1} /\ (l.en = 1 => l.last = IsLast(l, n, 1))
PaddingFlag(l, n) ==
    /\ l.en = 1 /\ l.last = 1 => n.ctr[1] \in {0, l.ctr[1] + 1}
    /\ l.en = 0 /\ l.last = 1 => n.ctr[1] = 0

\* The order of the columns and of their places.
OpeningOrder(c, l, n) ==
    /\ l.main = 1 => l.en = 1 /\ l.part = 0 /\ l.commit = 0
    /\ l.first[1] = 1 => l.main = 1 /\ l.sort = 0 /\ l.col = 0 /\ l.commit = 0 /\ l.stacked_col = 0 /\ l.row = 0
    /\ l.transition_main = 1 => n.main = l.main /\ l.en = 1 /\ n.en = 1 /\ l.last = 0
    /\ l.main = 1 /\ n.main = 1 /\ l.last = 0 => l.transition_main = 1
    /\ l.main = 0 /\ n.main = 0 /\ n.en = 1 => l.transition_main = 1
    /\ l.main = 0 /\ n.main = 1 => l.last = 1
    /\ l.main = 1 /\ l.transition_main = 1 =>
           \/ n.sort = l.sort /\ n.col = l.col + 1
           \/ n.sort = l.sort + 1 /\ n.col = 0
    /\ l.main = 1 /\ l.transition_main = 0 /\ l.last = 0 => n.part = 1 /\ n.col = 0
    /\ l.transition_main = 1 /\ l.main = 0 => n.col = (IF n.commit = l.commit THEN l.col + 1 ELSE 0)
\* is_last_for_claim, and the sum that it resets.
OpeningClaim(c, l, n) ==
    LET commit == n.commit - l.commit
    IN  /\ l.last = 0 => commit \in {0, 1}
        /\ commit # 0 => n.stacked_col = 0 /\ l.last_for_claim = 1
        /\ l.last = 0 /\ commit # 1 => n.stacked_col - l.stacked_col \in {0, 1}
        /\ l.last_for_claim = 1 /\ l.last = 0 => commit = 1 \/ n.stacked_col = l.stacked_col + 1
        /\ n.stacked_col # l.stacked_col => l.last_for_claim = 1
        /\ l.en = 1 /\ l.last = 1 => l.last_for_claim = 1
        /\ n.row = IF l.last_for_claim = 1 THEN 0 ELSE l.row + l.lifted
        /\ n.en = 1 => n.val.coeff \ (IF l.last_for_claim = 1 \/ l.en = 0 THEN {} ELSE l.val.coeff) = {n.lambda_pow \div 2 + 1}
        /\ l.en = 1 /\ l.last_for_claim = 0 => n.en = 1
        /\ l.last_for_claim = 1 /\ l.last = 0 /\ commit # 1 => l.row + l.lifted = 2^LogStacked(c)
OpeningEval(c, l, n) ==
    /\ LastFlag(l, n) /\ PaddingFlag(l, n)
    /\ OpeningOrder(c, l, n)
    /\ OpeningClaim(c, l, n)
    /\ l.last = 0 /\ l.en = 1 => n.lambda_pow = l.lambda_pow + 2 /\ n.tidx = l.tidx + 2 * D_EF
OpeningMessages(c, l, n) ==
    IF l.en = 0 THEN <<>>
    ELSE
    LET p == l.ctr[1]
        col == ColClaim(l.sort, l.part, l.col)
        rot == RotClaim(l.sort, l.part, l.col, l.need_rot)
        b == l.row \div l.lifted
        bits == LogStacked(c) - l.log_lifted
    IN  Send(<<"column_claims", p, l.sort, l.part, l.col, col, 0>>, 1)
        \o Send(<<"column_claims", p, l.sort, l.part, l.col, rot, 1>>, l.need_rot)
        \o Send(<<"sumcheck_claims", p, 0, StackS(0)>>, l.last)
        \o Send(<<"claim_coefficients", p, l.commit, l.stacked_col, l.val.coeff>>, l.last_for_claim)
        \o Receive(<<"lifted_heights", p, l.sort, l.part, l.commit, l.dim, l.lifted, l.log_lifted>>, 1)
        \o Receive(<<"eq_kernel", p, l.dim, EqIn(l.dim), KRotIn(l.dim)>>, 1)
        \o Receive(<<"eq_bits_lookup", p, b * 2^c.l_skip, bits, EqBitsEval(b, bits)>>, 1)
        \o Receive(<<"air_shape", p, l.sort, "NeedRot", l.need_rot>>, 1)
        \o Receive(<<"stacking_module", p, l.tidx>>, l.first[1])
        \o ObserveExtBus(p, l.tidx, col, 1)
        \o ObserveExtBus(p, l.tidx + D_EF, rot, 1)
        \o SampleExtBus(p, l.tidx + 2 * D_EF, <<"stacking_lambda">>, l.last)
        \o Send(<<"stacking_tidx", p, 0, l.tidx + 3 * D_EF>>, l.last)

UnivariateEval(c, l, n) ==
    /\ LastFlag(l, n) /\ PaddingFlag(l, n)
    /\ l.first[1] = 1 => l.coeff = 0
    /\ l.last = 1 /\ l.en = 1 => l.coeff = 2 * (2^c.l_skip - 1)
    /\ l.last = 0 /\ l.en = 1 => n.coeff = l.coeff + 1 /\ n.en = 1 /\ n.tidx = l.tidx + D_EF
    /\ l.is_d = 1 => l.en = 1 /\ l.coeff = 2^c.l_skip
UnivariateMessages(c, l, n) ==
    LET p == l.ctr[1]  last == l.last * l.en
    IN  Receive(<<"sumcheck_claims", n.ctr[1], 0, StackS(0)>>, n.is_d)
        \o Send(<<"sumcheck_claims", p, 1, StackS(1)>>, last)
        \o Send(<<"eq_rand_values", p, 0, U(0)>>, 2 * last)
        \o Receive(<<"stacking_tidx", p, 0, l.tidx>>, l.first[1])
        \o ObserveExtBus(p, l.tidx, <<"univariate_coeff", l.coeff>>, l.en)
        \o SampleExtBus(p, l.tidx + D_EF, U(0), last)
        \o Send(<<"stacking_tidx", p, 1, l.tidx + 2 * D_EF>>, last)

StackSumcheckEval(c, l, n) ==
    /\ LastFlag(l, n) /\ PaddingFlag(l, n)
    /\ l.first[1] = 1 => l.round = 1
    /\ l.last = 0 /\ l.en = 1 => n.round = l.round + 1 /\ n.tidx = l.tidx + 3 * D_EF /\ l.has_r - n.has_r \in {0, 1}
    /\ l.has_r = 0 => l.eq_rot_mult = 0
    /\ l.en = 0 => l.u_mult = 0
StackSumcheckMessages(c, l, n) ==
    IF l.en = 0 THEN <<>>
    ELSE
    LET p == l.ctr[1]  u == URound(c, l.round)
    IN  Receive(<<"sumcheck_claims", p, 1, StackS(1)>>, l.first[1])
        \o Send(<<"sumcheck_claims", p, 2, StackS(2)>>, l.last)
        \o Receive(<<"eq_base", p, EqIn(0), KRotIn(0)>>, l.first[1])
        \o Send(<<"eq_kernel", p, l.round, EqIn(l.round), KRotIn(l.round)>>, l.eq_rot_mult)
        \o Receive(<<"constraint_randomness", p, l.round, R(l.round)>>, l.has_r)
        \o Send(<<"whir_opening_point", p, l.round + c.l_skip - 1, u>>, 1)
        \o Send(<<"eq_rand_values", p, l.round, u>>, l.u_mult)
        \o Receive(<<"stacking_tidx", p, 1, l.tidx>>, l.first[1])
        \o ObserveExtBus(p, l.tidx, <<"stack_ev1", l.round>>, 1)
        \o ObserveExtBus(p, l.tidx + D_EF, <<"stack_ev2", l.round>>, 1)
        \o SampleExtBus(p, l.tidx + 2 * D_EF, u, 1)
        \o Send(<<"stacking_tidx", p, 2, l.tidx + 3 * D_EF>>, l.last)

\* Rows of claims, then rows that only count up to w_stack.
LastValid(l, n) == l.valid * (n.en - n.valid + l.last)
ClaimEval(c, l, n) ==
    LET continuing == l.valid = 1 /\ LastValid(l, n) = 0
    IN  /\ LastFlag(l, n)
        /\ l.en = 1 /\ l.valid = 0 /\ l.last = 0 => n.en = 1 /\ n.valid = 0
        /\ l.first[1] = 1 => l.valid = 1 /\ l.commit = 0 /\ l.col = 0 /\ l.ctr[2] = 0
        /\ continuing => /\ \/ n.commit = l.commit /\ n.col = l.col + 1
                            \/ n.commit = l.commit + 1 /\ n.col = 0
                         /\ n.tidx = l.tidx + D_EF
        /\ l.last = 1 /\ l.en = 1 => l.ctr[2] = c.w_stack - 1
ClaimMessages(c, l, n) ==
    IF l.valid = 0 THEN <<>>
    ELSE
    LET p == l.ctr[1]  last == IntOf(LastValid(l, n) > 0)
        pow == l.tidx + D_EF
        mu == pow + PowTidxCount(c.mu_pow_bits)
    IN  Send(<<"stacking_indices", p, l.commit, l.col>>, QueriesOf(c, 0) * 2^c.k_whir)
        \o Receive(<<"claim_coefficients", p, l.commit, l.col, l.val.coeff>>, 1)
        \o Receive(<<"sumcheck_claims", p, 2, StackS(2)>>, last)
        \o Receive(<<"stacking_tidx", p, 2, l.tidx>>, l.first[1])
        \o ObserveExtBus(p, l.tidx, <<"stacked", l.commit, l.col>>, 1)
        \o PowBus(p, pow, c.mu_pow_bits, <<"mu_pow">>, last)
        \o SampleExtBus(p, mu, StackingMu, last)
        \o Send(<<"whir_module", p, mu + D_EF, WhirClaim(0)>>, last)
        \o Send(<<"whir_mu", p, StackingMu>>, last)

EqBaseEval(c, l, n) ==
    /\ LastFlag(l, n) /\ PaddingFlag(l, n)
    /\ l.first[1] * l.last = 0
    /\ l.first[1] = 1 => l.row = 0 /\ l.mult_neg = 0
    /\ l.en = 1 => IF l.last = 1 THEN l.row = c.l_skip ELSE n.row = l.row + 1
    /\ n.mult # 0 => n.last = 1
    /\ l.en = 0 => l.mult_neg = 0
EqBaseMessages(c, l, n) ==
    LET p == l.ctr[1]
        between == l.en * (1 - l.first[1]) * (1 - l.last)
    IN  Send(<<"whir_opening_point", p, l.row, U(l.row)>>, l.en * (1 - l.last))
        \o Receive(<<"constraint_randomness", p, 0, R(0)>>, l.first[1])
        \o Receive(<<"eq_rand_values", p, 0, U(0)>>, l.en * (l.first[1] + l.last))
        \o Send(<<"eq_neg_base_rand", p, U(0), R(0)>>, l.first[1])
        \o Send(<<"eq_kernel", p, 0, EqIn(0), KRotIn(0)>>, n.en * n.mult)
        \o Send(<<"eq_base", p, EqIn(0), KRotIn(0)>>, n.last * n.en)
        \o Receive(<<"eq_neg_result", p, -l.row, EqNegResult(-l.row)>>, between)
        \o Send(<<"eq_kernel", p, -l.row, EqIn(-l.row), KRotIn(-l.row)>>, l.mult_neg)

EqBitsEvalRow(c, l) ==
    /\ l.first[1] = 1 => l.sub = 0 /\ l.bits = 0 /\ l.lsb = 0
    /\ l.lsb \in {0, 1} /\ l.flag \in 0..3 /\ (l.en = 0 => l.flag = 0)
EqBitsMessages(c, l) ==
    LET p == l.ctr[1]
        inner == l.en * (1 - l.first[1])
        b == 2 * l.sub + l.lsb
        eval == EqBitsEval(b, l.bits)
    IN  Receive(<<"eq_rand_values", p, c.n_stack + 1 - l.bits, URound(c, c.n_stack + 1 - l.bits)>>, inner)
        \o Receive(<<"eq_bits_internal", p, l.sub, l.bits - 1, EqBitsEval(l.sub, l.bits - 1), l.lsb>>, inner)
        \o Send(<<"eq_bits_internal", p, b, l.bits, eval, 0>>, l.flag % 2)
        \o Send(<<"eq_bits_internal", p, b, l.bits, eval, 1>>, IntOf(l.flag >= 2))
        \o Send(<<"eq_bits_lookup", p, b * 2^c.l_skip, l.bits, eval>>, l.en * l.mult)

-----------------------------------------------------------------------------
StackingTraces(c, pfs) ==
    LET n == Len(pfs)
    IN  [opening |-> StackTrace([k \in 1..n |-> OpeningRows(c, pfs[k])]),
         univariate |-> StackTrace([k \in 1..n |-> UnivariateRows(c, pfs[k])]),
         sumcheck |-> StackTrace([k \in 1..n |-> StackSumcheckRows(c, pfs[k])]),
         claims |-> StackTrace([k \in 1..n |-> ClaimRows(c, pfs[k])]),
         eq_base |-> StackTrace([k \in 1..n |-> EqBaseRows(c, pfs[k])]),
         eq_bits |-> StackTrace([k \in 1..n |-> EqBitsRows(c, pfs[k])])]
StackingAccepted(c, ts) ==
    /\ Accepted(ts.opening, LAMBDA l, n : OpeningEval(c, l, n))
    /\ Accepted(ts.univariate, LAMBDA l, n : UnivariateEval(c, l, n))
    /\ Accepted(ts.sumcheck, LAMBDA l, n : StackSumcheckEval(c, l, n))
    /\ Accepted(ts.claims, LAMBDA l, n : ClaimEval(c, l, n))
    /\ Accepted(ts.eq_base, LAMBDA l, n : EqBaseEval(c, l, n))
    /\ Accepted(ts.eq_bits, LAMBDA l, n : EqBitsEvalRow(c, l))
StackingMessages(c, ts) ==
    MessagesOf(ts.opening, LAMBDA l, n : OpeningMessages(c, l, n))
    \o MessagesOf(ts.univariate, LAMBDA l, n : UnivariateMessages(c, l, n))
    \o MessagesOf(ts.sumcheck, LAMBDA l, n : StackSumcheckMessages(c, l, n))
    \o MessagesOf(ts.claims, LAMBDA l, n : ClaimMessages(c, l, n))
    \o MessagesOf(ts.eq_base, LAMBDA l, n : EqBaseMessages(c, l, n))
    \o MessagesOf(ts.eq_bits, LAMBDA l, n : EqBitsMessages(c, l))
================================================================================
