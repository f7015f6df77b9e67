----------------------------- MODULE RecursionFront -----------------------------
(* ProofShapeModule: the part of the recursive verifier that reads the shape of *)
(* a proof (which AIRs are there, how high their traces are), observes the       *)
(* commitments and tells the other modules where they start; and the tables for  *)
(* ranges and powers.  The transcript itself is in RecursionTranscript.          *)
EXTENDS RecursionBus

CONSTANTS NUM_LIMBS, LIMB_BITS,   \* of a number of interactions; LIMB_BITS bits are range checked
          POW_BITS                \* the table of powers has 2^POW_BITS rows

NumAirs(c) == Len(c.airs)
Air(c, i) == c.airs[i + 1]
AirIds(c) == 0..NumAirs(c) - 1

\* The first AIR with the fewest cached traces holds the main commitment, in a
\* place that is free on its row.
MinCachedIdx(c) ==
    CHOOSE i \in AirIds(c) : \A j \in AirIds(c) :
        \/ Len(Air(c, i).cached) < Len(Air(c, j).cached)
        \/ Len(Air(c, i).cached) = Len(Air(c, j).cached) /\ i <= j
MaxCached(c) ==
    LET most == Max({Len(Air(c, i).cached) : i \in AirIds(c)})
    IN  IF Len(Air(c, MinCachedIdx(c)).cached) = most THEN most + 1 ELSE most
TotalWidth(a) == a.main + a.pre + SumSeq(a.cached)

Present(pf) == {i \in DOMAIN pf.lh : pf.lh[i] >= 0}
\* sorted_trace_vdata: by falling height, then by index.
Sorted(pf) ==
    SetToSortSeq(Present(pf), LAMBDA i, j : pf.lh[i] > pf.lh[j] \/ (pf.lh[i] = pf.lh[j] /\ i < j))
Absent(pf) == SetToSortSeq(DOMAIN pf.lh \ Present(pf), LAMBDA i, j : i < j)
LiftedHeight(c, lh) == 2^Max({lh, c.l_skip})
NLift(c, lh) == Sat(lh - c.l_skip)
NumInteractions(c, pf, i) == Len(Air(c, i).inters) * LiftedHeight(c, pf.lh[i])

-----------------------------------------------------------------------------
(* Preflight.                                                              *)

PresenceSlots(c, pf, i) == IF Air(c, i).required THEN <<>> ELSE Observe(<<"present", IntOf(i \in Present(pf))>>)
HeadSlots(c, pf, i) ==
    IF i \notin Present(pf) THEN <<>>
    ELSE IF Air(c, i).pre > 0 THEN ObserveDigest(<<"pre_commit", i>>) ELSE Observe(<<"log_height", pf.lh[i]>>)
CachedSlots(c, pf, i) ==
    IF i \notin Present(pf) THEN <<>>
    ELSE Flat([k \in 1..Len(Air(c, i).cached) |-> ObserveDigest(<<"cached_commit", i, k - 1>>)])
NumPvs(c, pf, i) == IF i \in Present(pf) THEN Air(c, i).pvs ELSE 0
PvSlots(c, pf, i) == [k \in 1..NumPvs(c, pf, i) |-> Observed(<<"pv", i, k - 1>>)]
AirSlots(c, pf, i) == PresenceSlots(c, pf, i) \o HeadSlots(c, pf, i) \o CachedSlots(c, pf, i) \o PvSlots(c, pf, i)

ProofShapePreflight(c, pf) ==
    LET start[i \in 0..NumAirs(c)] ==
            IF i = 0 THEN 2 * DIGEST_SIZE ELSE start[i - 1] + Len(AirSlots(c, pf, i - 1))
        layers == LET total == SumSeq([k \in 1..Len(Sorted(pf)) |-> NumInteractions(c, pf, Sorted(pf)[k])])
                  IN  Bits(total)
    IN  [pf EXCEPT
            !.log = ObserveDigest(<<"pre_hash">>) \o ObserveDigest(<<"main_commit">>)
                        \o Flat([k \in 1..NumAirs(c) |-> AirSlots(c, pf, k - 1)]),
            !.ps = [sorted |-> Sorted(pf), starting_tidx |-> start, post_tidx |-> start[NumAirs(c)],
                    pvs_tidx |-> [i \in {j \in AirIds(c) : NumPvs(c, pf, j) > 0} |->
                                    start[i] + Len(PresenceSlots(c, pf, i) \o HeadSlots(c, pf, i))],
                    n_max |-> Max({NLift(c, pf.lh[i]) : i \in Present(pf)}),
                    layers |-> layers, n_logup |-> Sat(layers - c.l_skip)]]

-----------------------------------------------------------------------------
(* Trace generation: a row for each AIR in the proof, by height, one for    *)
(* each that is absent, and a row that closes the proof and holds other     *)
(* things in the same columns.                                              *)

Decompose(n) == [i \in 0..NUM_LIMBS - 1 |-> (n \div 2^(i * LIMB_BITS)) % 2^LIMB_BITS]
\* nodes, unused variables and the fields of all interactions
InteractionLength(interaction) == Len(interaction.message) + 2
AirShapeLookups(c, i) ==
    Len(Air(c, i).nodes) + Len(Air(c, i).unused)
        + SumSeq([k \in 1..Len(Air(c, i).inters) |-> InteractionLength(Air(c, i).inters[k])])

\* Commitments before the k-th AIR of the order, the main one included.
StartingCidx(c, pf, k) ==
    1 + SumUpTo(k, LAMBDA j : LET a == Air(c, pf.ps.sorted[j + 1]) IN IntOf(a.pre > 0) + Len(a.cached))
TotalBefore(c, pf, k) == SumUpTo(k, LAMBDA j : NumInteractions(c, pf, pf.ps.sorted[j + 1]))

PresentRow(c, pf, k) ==
    LET i == pf.ps.sorted[k]  lh == pf.lh[i]  n == lh - c.l_skip  a == Air(c, i)
    IN  [en |-> 1, ctr |-> <<pf.idx>>, first |-> <<IntOf(k = 1)>>, valid |-> 1, last |-> 0,
         air1 |-> i + 1, sorted |-> k - 1, log_height |-> lh, sign |-> IntOf(n < 0),
         tidx |-> pf.ps.starting_tidx[i], cidx |-> StartingCidx(c, pf, k - 1),
         n_logup |-> pf.ps.n_logup, n_max |-> pf.ps.n_max, greater |-> 0, present |-> 1, height |-> 2^lh,
         num_present |-> k, equal |-> IntOf(k < Len(pf.ps.sorted) /\ lh = pf.lh[pf.ps.sorted[(k % Len(pf.ps.sorted)) + 1]]),
         lookups |-> AirShapeLookups(c, i),
         val |-> [lifted |-> Decompose(LiftedHeight(c, lh)), inters |-> Decompose(NumInteractions(c, pf, i)),
                  total |-> Decompose(TotalBefore(c, pf, k - 1)),
                  commits |-> [j \in 1..MaxCached(c) |->
                                 IF j <= Len(a.cached) THEN <<"cached_commit", i, j - 1>>
                                 ELSE IF i = MinCachedIdx(c) THEN <<"main_commit">> ELSE Zero]]]
AbsentRow(c, pf, k) ==
    LET i == Absent(pf)[k]  m == Len(pf.ps.sorted)
    IN  [en |-> 1, ctr |-> <<pf.idx>>, first |-> <<IntOf(m + k = 1)>>, valid |-> 1, last |-> 0,
         air1 |-> i + 1, sorted |-> m + k - 1, log_height |-> 0, sign |-> 0,
         tidx |-> pf.ps.starting_tidx[i], cidx |-> StartingCidx(c, pf, m),
         n_logup |-> pf.ps.n_logup, n_max |-> pf.ps.n_max, greater |-> 0, present |-> 0, height |-> 0,
         num_present |-> m, equal |-> IntOf(k < Len(Absent(pf))), lookups |-> AirShapeLookups(c, i),
         val |-> [lifted |-> Decompose(0), inters |-> Decompose(0), total |-> Decompose(TotalBefore(c, pf, m)),
                  commits |-> [j \in 1..MaxCached(c) |-> IF i = MinCachedIdx(c) /\ j = MaxCached(c) THEN <<"main_commit">> ELSE Zero]]]

\* The closing row: the highest limb of the total that is not zero, and by how
\* much it must be shifted; and the highest limb that differs from the limit.
TopLimb(x, y) ==
    LET differ == {i \in 0..NUM_LIMBS - 1 : x[i] # y[i]} IN IF differ = {} THEN 0 ELSE Max(differ)
LastRow(c, pf) ==
    LET total == Decompose(TotalBefore(c, pf, Len(pf.ps.sorted)))
        limit == Decompose(c.max_interactions)
        top == TopLimb(total, Decompose(0))
        msb == total[top]
        zeroBits == IF msb = 0 THEN 0 ELSE LIMB_BITS - Bits(msb)
    IN  [en |-> 1, ctr |-> <<pf.idx>>, first |-> <<0>>, valid |-> 0, last |-> 1, air1 |-> 0, sorted |-> 0,
         log_height |-> 2^zeroBits, sign |-> IntOf(msb # 0), tidx |-> pf.ps.post_tidx, cidx |-> 0,
         n_logup |-> pf.ps.n_logup, n_max |-> pf.ps.n_max, greater |-> IntOf(pf.ps.n_max > pf.ps.n_logup),
         present |-> 0, height |-> msb, num_present |-> Len(pf.ps.sorted), equal |-> 0, lookups |-> 0,
         val |-> [lifted |-> [i \in 0..NUM_LIMBS - 1 |-> IntOf(i = top /\ msb # 0)],
                  inters |-> [i \in 0..NUM_LIMBS - 1 |-> IntOf(i = TopLimb(total, limit))], total |-> total,
                  commits |-> [j \in 1..MaxCached(c) |-> IF j = MaxCached(c) THEN <<"pre_hash">> ELSE Zero]]]
ShapeRows(c, pf) ==
    [k \in 1..Len(pf.ps.sorted) |-> PresentRow(c, pf, k)] \o [k \in 1..Len(Absent(pf)) |-> AbsentRow(c, pf, k)]
        \o <<LastRow(c, pf)>>
\* Rows behind the last proof have the next proof index.
ShapeTrace(c, pfs) ==
    LET trace == Trace([k \in 1..Len(pfs) |-> ShapeRows(c, pfs[k])])
    IN  [k \in 1..Len(trace) |-> IF trace[k].en = 1 THEN trace[k] ELSE [trace[k] EXCEPT !.ctr = <<Len(pfs)>>]]

PvRows(c, pf) ==
    LET airs == SetToSortSeq(DOMAIN pf.ps.pvs_tidx, LAMBDA i, j : i < j)
    IN  Flat([k \in 1..Len(airs) |-> [v \in 1..Air(c, airs[k]).pvs |->
            [en |-> 1, ctr |-> <<pf.idx>>, first |-> <<IntOf(k = 1 /\ v = 1)>>, air |-> airs[k], pv |-> v - 1,
             first_in_air |-> IntOf(v = 1), tidx |-> pf.ps.pvs_tidx[airs[k]] + v - 1, val |-> <<"pv", airs[k], v - 1>>]]])
\* A trace without rows is a row of zeros, which says nothing.
PvTrace(c, pfs) ==
    IF \A k \in 1..Len(pfs) : PvRows(c, pfs[k]) = <<>> THEN <<>> ELSE Trace([k \in 1..Len(pfs) |-> PvRows(c, pfs[k])])

\* What the generator counts in the tables of ranges and of powers.
Counts(table, values) == [k \in 1..Len(values) |-> <<table, values[k]>>]
Limbs(x) == [i \in 1..NUM_LIMBS |-> x[i - 1]]
Carries(c, pf, i) ==
    LET lifted == Decompose(LiftedHeight(c, pf.lh[i]))
        inters == Decompose(NumInteractions(c, pf, i))
        perRow == Decompose(Len(Air(c, i).inters))
        low == CHOOSE k \in 0..NUM_LIMBS - 1 : lifted[k] # 0 /\ \A j \in 0..k - 1 : lifted[j] = 0
        carry[k \in 0..NUM_LIMBS - 1] ==
            IF k < low THEN 0
            ELSE ((IF k = low THEN 0 ELSE carry[k - 1]) + lifted[low] * perRow[k - low] - inters[k]) \div 2^LIMB_BITS
    IN  [k \in 1..NUM_LIMBS - 1 |-> carry[k - 1]]
PresentCounts(c, pf, k) ==
    LET i == pf.ps.sorted[k]
        m == Len(pf.ps.sorted)
        next == pf.ps.sorted[(k % m) + 1]
        diff == pf.lh[i] - pf.lh[next]
    IN  (CASE k < m /\ diff = 0 -> Counts("range", <<next - i - 1>>)
           [] k < m /\ diff # 0 -> Counts("pow_range", <<diff - 1>>)
           [] k = m /\ m < NumAirs(c) -> Counts("pow_range", <<pf.lh[i]>>)
           [] OTHER -> <<>>)
        \o Counts("range", Limbs(Decompose(LiftedHeight(c, pf.lh[i]))) \o Limbs(Decompose(TotalBefore(c, pf, k)))
                             \o Carries(c, pf, i))
        \o Counts("pow_range", <<IF pf.lh[i] < c.l_skip THEN c.l_skip - pf.lh[i] ELSE pf.lh[i] - c.l_skip>>)
        \o Counts("pow", <<pf.lh[i]>>)
AbsentCounts(c, pf, k) ==
    (IF k < Len(Absent(pf)) THEN Counts("range", <<Absent(pf)[k + 1] - Absent(pf)[k] - 1>>) ELSE <<>>)
    \o Counts("range", [j \in 1..2 * NUM_LIMBS - 1 |-> 0] \o Limbs(Decompose(TotalBefore(c, pf, Len(pf.ps.sorted)))))
LastCounts(c, pf) ==
    LET r == LastRow(c, pf)
        shifted == r.height * r.log_height
        top == TopLimb(r.val.total, Decompose(c.max_interactions))
    IN  Counts("range", <<shifted>> \o (IF shifted = 0 THEN <<>> ELSE <<shifted - 2^(LIMB_BITS - 1)>>)
                        \o <<Decompose(c.max_interactions)[top] - r.val.total[top] - 1>>)
        \o Counts("pow", <<Bits(r.log_height) - 1>>)
        \o Counts("pow_range", <<IF pf.ps.n_max > pf.ps.n_logup THEN pf.ps.n_max - pf.ps.n_logup ELSE pf.ps.n_logup - pf.ps.n_max>>)
ShapeCounts(c, pf) ==
    Flat([k \in 1..Len(pf.ps.sorted) |-> PresentCounts(c, pf, k)]) \o Flat([k \in 1..Len(Absent(pf)) |-> AbsentCounts(c, pf, k)])
        \o LastCounts(c, pf)

-----------------------------------------------------------------------------
(* ProofShapeAir.                                                          *)

\* The carries of the product of the lifted height with the interactions of a
\* row, less the limbs that are claimed for it.
ProductCarries(l, perRow) ==
    LET carry[k \in 0..2 * NUM_LIMBS - 1] ==
            LET pairs == {<<i, j>> \in (0..NUM_LIMBS - 1) \X (0..NUM_LIMBS - 1) : i + j = k}
            IN  ((IF k = 0 THEN 0 ELSE carry[k - 1]) + MapThenSumSet(LAMBDA x : l.val.lifted[x[1]] * perRow[x[2]], pairs)
                    - (IF k < NUM_LIMBS THEN l.val.inters[k] ELSE 0)) \div 2^LIMB_BITS
    IN  carry
SumOfLimbs(x) == SumUpTo(NUM_LIMBS, LAMBDA i : x[i] * 2^(i * LIMB_BITS))
Prefix(marker, i) == SumUpTo(NUM_LIMBS - i, LAMBDA k : marker[NUM_LIMBS - 1 - k])

\* Rows of AIRs: order, heights and limbs.
EvalAirRow(c, l, n) ==
    LET a == Air(c, l.air1 - 1)
        size == l.log_height - c.l_skip
        lifted == IF l.sign = 1 /\ l.present = 1 THEN 2^c.l_skip ELSE l.height
    IN  /\ l.air1 \in 1..NumAirs(c)
        /\ n.ctr = l.ctr /\ n.n_logup = l.n_logup /\ n.n_max = l.n_max
        /\ n.num_present = l.num_present + n.present * n.valid
        /\ a.required => l.present = 1
        /\ a.pre > 0 /\ l.present = 1 => size = a.dim
        /\ l.present = 0 => l.height = 0 /\ l.log_height = 0
        /\ l.air1 = 1 => l.tidx = 2 * DIGEST_SIZE
        /\ l.sign \in {0, 1} /\ (l.first[1] = 1 => l.n_max = Sat(size) /\ l.cidx = 1 /\ SumOfLimbs(l.val.total) = 0)
        /\ SumOfLimbs(l.val.lifted) = lifted
        /\ SumOfLimbs(l.val.inters) = lifted * Len(a.inters)
        /\ SumOfLimbs(n.val.total) = SumOfLimbs(l.val.total) + SumOfLimbs(l.val.inters)
        /\ n.last = 0 => n.cidx = l.cidx + l.present * (IntOf(a.pre > 0) + Len(a.cached))
        /\ n.en = 1
\* The closing row: the number of interactions has n_logup + l_skip bits and is
\* below the limit.
EvalLastRow(c, l, n) ==
    LET limit == Decompose(c.max_interactions)
    IN  /\ n.first[1] = 1 \/ n.en = 0
        /\ Prefix(l.val.lifted, 0) \in {0, 1}
        /\ \A i \in 0..NUM_LIMBS - 1 : l.val.total[i] # 0 => Prefix(l.val.lifted, i) = 1 /\ l.sign = 1
        /\ l.height = SumUpTo(NUM_LIMBS, LAMBDA i : l.val.total[i] * l.val.lifted[i])
        /\ l.sign = 0 => l.n_logup = 0
        /\ Prefix(l.val.inters, 0) = 1
        /\ \A i \in 0..NUM_LIMBS - 1 : l.val.total[i] # limit[i] => Prefix(l.val.inters, i) = 1
ShapeEval(c, l, n) ==
    /\ l.valid \in {0, 1} /\ l.last \in {0, 1} /\ l.present \in {0, 1} /\ l.en = l.valid + l.last
    /\ l.first[1] = 1 => l.num_present = l.present /\ l.sorted = 0
    /\ n.sorted # 0 => l.sorted = n.sorted - 1
    /\ l.equal \in {0, 1} /\ (l.equal = 1 => l.valid = 1 /\ n.last = 0 /\ l.height = n.height)
    /\ n.last = 1 => l.valid = 1 /\ l.sorted = NumAirs(c) - 1
    /\ l.valid = 1 => EvalAirRow(c, l, n)
    /\ l.last = 1 => EvalLastRow(c, l, n)

RangeKey(v) == <<"range", v, LIMB_BITS>>
PowRangeKey(v) == <<"range", v, POW_BITS>>
PowKey(log, exp) == <<"pow", log, exp>>

\* Where things are in the transcript.
ShapeTranscript(c, l) ==
    LET a == Air(c, l.air1 - 1)  i == l.air1 - 1  p == l.ctr[1]
        t1 == l.tidx + IntOf(~ a.required)
        t2 == t1 + l.present * (IF a.pre > 0 THEN DIGEST_SIZE ELSE 1)
        t3 == t2 + l.present * Len(a.cached) * DIGEST_SIZE
    IN  ObserveBus(p, l.tidx, <<"present", l.present>>, IntOf(~ a.required))
        \o ObserveDigestBus(p, t1, <<"pre_commit", i>>, l.present * IntOf(a.pre > 0))
        \o ObserveBus(p, t1, <<"log_height", l.log_height>>, l.present * IntOf(a.pre = 0))
        \o Flat([k \in 1..Len(a.cached) |-> ObserveDigestBus(p, t2 + (k - 1) * DIGEST_SIZE, l.val.commits[k], l.present)])
        \o Send(<<"starting_tidx", p, i + 1, t3 + l.present * a.pvs>>, 1)
        \o Send(<<"num_pvs", p, i, t3, a.pvs>>, l.present * IntOf(a.pvs > 0))
        \o ObserveDigestBus(p, DIGEST_SIZE, l.val.commits[MaxCached(c)], IntOf(i = MinCachedIdx(c)))
        \o Receive(<<"starting_tidx", p, i, l.tidx>>, IntOf(i # 0))

\* What the other modules look up about an AIR.
ShapeLookups(c, l) ==
    LET a == Air(c, l.air1 - 1)  i == l.air1 - 1  p == l.ctr[1]
        size == l.log_height - c.l_skip
        abs == IF l.sign = 1 THEN -size ELSE size
        lifted == IF l.sign = 1 THEN 2^c.l_skip ELSE l.height
        hasPre == IntOf(a.pre > 0)
        LiftedKey(part, commit) == <<"lifted_heights", p, l.sorted, part, commit, size, lifted, (1 - l.sign) * abs + c.l_skip>>
        nLift == size * (1 - l.sign)
    IN  Send(<<"air_presence", p, i, l.present>>, l.lookups)
        \o Send(<<"air_shape", p, l.sorted, "AirId", i>>, l.present * (l.lookups + 2))
        \o Send(<<"air_shape", p, l.sorted, "NumInteractions", Len(a.inters)>>, l.present)
        \o Send(<<"air_shape", p, l.sorted, "NeedRot", IntOf(a.rot)>>, l.present * TotalWidth(a))
        \o Send(<<"hyperdim", p, l.sorted, abs, l.sign>>, l.present * (l.lookups + 1))
        \o Send(LiftedKey(0, 0), l.present * a.main)
        \o Send(LiftedKey(1, l.cidx), l.present * a.pre)
        \o Send(<<"commitments", p, 0, l.cidx, <<"pre_commit", i>>>>, l.present * hasPre * c.num_queries)
        \o Flat([k \in 1..Len(a.cached) |->
                    Send(LiftedKey(hasPre + k, l.cidx + hasPre + k - 1), l.present * a.cached[k])
                    \o Send(<<"commitments", p, 0, l.cidx + hasPre + k - 1, l.val.commits[k]>>, l.present * c.num_queries)
                    \o Send(<<"cached_commit", p, i, k - 1,
                             SumUpTo(i, LAMBDA j : Len(Air(c, j).cached)) + k - 1, l.val.commits[k]>>,
                            l.present * IntOf(c.continuations))])
        \o Send(<<"commitments", p, 0, 0, l.val.commits[MaxCached(c)]>>, IntOf(i = MinCachedIdx(c)) * c.num_queries)
        \o Send(<<"n_lift", p, i, nLift>>, l.present)
        \o Send(<<"eq_3b_shape", p, l.sorted, nLift, l.n_logup, Len(a.inters)>>, l.present)

\* The lookups by which rows are ordered and limbs are limbs.
ShapeRanges(c, l, n) ==
    LET a == Air(c, l.air1 - 1)
        size == l.log_height - c.l_skip
        carry == ProductCarries(l, Decompose(Len(a.inters)))
    IN  Receive(PowRangeKey(l.log_height + l.present - n.log_height - n.present - 1), IntOf(n.last = 0 /\ l.equal = 0))
        \o Receive(RangeKey(n.air1 - l.air1 - 1), l.equal)
        \o Receive(PowRangeKey(IF l.sign = 1 THEN -size ELSE size), l.present)
        \o Receive(PowKey(l.log_height, l.height), l.present)
        \o Flat([k \in 1..NUM_LIMBS |-> Receive(RangeKey(l.val.lifted[k - 1]), 1) \o Receive(RangeKey(n.val.total[k - 1]), 1)])
        \o Flat([k \in 1..NUM_LIMBS - 1 |-> Receive(RangeKey(carry[k - 1]), 1)])

\* What the closing row tells the modules.
ShapeLastMessages(c, l) ==
    LET p == l.ctr[1]
        zeroBits == SumUpTo(NUM_LIMBS, LAMBDA i : l.val.lifted[i] * (i + 1) * LIMB_BITS)
                        - (l.n_logup + Prefix(l.val.lifted, 0) * c.l_skip)
        shifted == l.height * l.log_height
        limit == Decompose(c.max_interactions)
    IN  Receive(<<"starting_tidx", p, NumAirs(c), l.tidx>>, 1)
        \o ObserveDigestBus(p, 0, l.val.commits[MaxCached(c)], 1)
        \o Send(<<"pre_hash", p, l.val.commits[MaxCached(c)]>>, IntOf(c.continuations))
        \o Receive(PowKey(zeroBits, l.log_height), 1)
        \o Receive(RangeKey(shifted), 1)
        \o Receive(RangeKey(shifted - 2^(LIMB_BITS - 1)), l.sign)
        \o Receive(PowRangeKey((l.n_max - l.n_logup) * (2 * l.greater - 1)), 1)
        \o Receive(RangeKey(SumUpTo(NUM_LIMBS, LAMBDA i : l.val.inters[i] * (limit[i] - l.val.total[i])) - 1), 1)
        \o Send(<<"gkr_module", p, l.tidx, l.n_logup, l.n_max, l.greater>>, 1)
        \o Send(<<"eq_n_logup_n_max", p, l.n_logup, l.n_max>>, 1)
        \o Send(<<"expression_claim_n_max", p, l.n_max>>, 1)
        \o Send(<<"fraction_folder_input", p, l.num_present>>, 1)

ShapeMessages(c, l, n) ==
    IF l.last = 1 THEN ShapeLastMessages(c, l)
    ELSE IF l.valid = 0 THEN <<>>
    ELSE Send(<<"proof_shape_permutation", l.ctr[1], l.sorted>>, 1)
         \o Receive(<<"proof_shape_permutation", l.ctr[1], l.air1 - 1>>, 1)
         \o ShapeTranscript(c, l) \o ShapeLookups(c, l) \o ShapeRanges(c, l, n)

\* PublicValuesAir
PvEval(l, n) ==
    /\ l.first_in_air \in {0, 1} /\ (l.first[1] = 1 => l.first_in_air = 1)
    /\ l.first_in_air = 1 => l.en = 1 /\ l.pv = 0
    /\ n.en = 1 /\ n.air # l.air => n.first_in_air = 1
    /\ l.en = 1 /\ n.en = 1 /\ n.first_in_air = 0 => n.air = l.air /\ n.pv = l.pv + 1 /\ n.tidx = l.tidx + 1
PvMessages(c, l, n) ==
    LET p == l.ctr[1]
    IN  Receive(<<"num_pvs", p, l.air, l.tidx - l.pv, l.pv + 1>>, l.en - l.en * n.en * (1 - n.first_in_air))
        \o Send(<<"public_values", p, l.air, l.pv, l.val>>, l.en * (1 + IntOf(c.continuations)))
        \o ObserveBus(p, l.tidx, l.val, l.en)

-----------------------------------------------------------------------------
(* The tables: each value that was counted, as often as it was counted.     *)

Tables == ({"range"} \X (0..2^LIMB_BITS - 1)) \cup ({"pow", "pow_range"} \X (0..2^POW_BITS - 1))
NoCounts == [x \in Tables |-> 0]
AddCounts(counts, added) == [x \in Tables |-> counts[x] + Cardinality({k \in 1..Len(added) : added[k] = x})]
\* RangeCheckerAir: a row a value.
RangeMessages(counts) ==
    [v \in 1..2^LIMB_BITS |-> Send(RangeKey(v - 1), counts[<<"range", v - 1>>])]
\* PowerCheckerAir: log, its power, and both multiplicities.
PowMessages(counts) ==
    [v \in 1..2^POW_BITS |->
        Send(PowKey(v - 1, 2^(v - 1)), counts[<<"pow", v - 1>>])
        \o Send(PowRangeKey(v - 1), counts[<<"pow_range", v - 1>>])]
================================================================================
