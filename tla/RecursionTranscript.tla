--------------------------- MODULE RecursionTranscript ---------------------------
(* TranscriptModule: the sponge that replays the transcript, the table of        *)
(* Poseidon2 permutations, and the Merkle paths of the opened rows; and the      *)
(* table of powers, to which every module sends requests.                        *)
EXTENDS RecursionBus

CONSTANTS NUM_BITS,          \* rows of a power, one more than the bits of a value
          LOW_BITS_COUNT     \* the modulus is (2^h - 1) * 2^LOW_BITS_COUNT + 1

CHUNK == DIGEST_SIZE
Lanes == 0..2 * CHUNK - 1

-----------------------------------------------------------------------------
(* build_trace_artifacts: a row for each run of up to CHUNK slots that are   *)
(* all observed or all sampled.                                              *)

RunStarts(log) == {t \in 1..Len(log) : t = 1 \/ log[t].sample # log[t - 1].sample}
RowStarts(log) ==
    LET runs == RunStarts(log)
    IN  SelectSeq([t \in 1..Len(log) |-> t], LAMBDA t : (t - Max({s \in runs : s <= t})) % CHUNK = 0)

\* The state that a permutation leaves: the lanes that are sampled next are
\* named by what they are, the others by the place they are at.
Fresh(log, starts, k, p) ==
    [i \in Lanes |->
        LET slot == starts[k] + CHUNK - 1 - i
            end == IF k = Len(starts) THEN Len(log) + 1 ELSE starts[k + 1]
        IN  IF log[starts[k]].sample = 1 /\ i < CHUNK /\ slot < end THEN log[slot].val ELSE <<"lane", p, k, i>>]

\* Whether the state is permuted behind the k-th row: not behind the last row
\* and not when samples are followed by observations.
Permuted(log, starts, k) ==
    k < Len(starts) /\ ~ (log[starts[k]].sample = 1 /\ log[starts[k + 1]].sample = 0)

TranscriptRows(pf) ==
    LET log == pf.log
        starts == RowStarts(log)
        p == pf.idx
        EndOf(k) == IF k = Len(starts) THEN Len(log) + 1 ELSE starts[k + 1]
        Sampled1(k) == log[starts[k]].sample = 1
        Base(k) == IF k = 1 THEN [i \in Lanes |-> Zero]
                   ELSE IF Permuted(log, starts, k - 1) THEN Fresh(log, starts, k, p)
                   ELSE Fresh(log, starts, k - 1, p)      \* behind samples, which leave the state as it is
        Prev(k) == IF Sampled1(k) THEN Base(k)
                   ELSE [i \in Lanes |-> IF i < EndOf(k) - starts[k] THEN log[starts[k] + i].val ELSE Base(k)[i]]
        Post(k) == IF Permuted(log, starts, k) THEN Fresh(log, starts, k + 1, p) ELSE Prev(k)
    IN  [k \in 1..Len(starts) |->
            [en |-> 1, ctr |-> <<p>>, first |-> <<IntOf(k = 1)>>, tidx |-> starts[k] - 1,
             sample |-> log[starts[k]].sample, count |-> EndOf(k) - starts[k],
             val |-> [prev |-> Prev(k), post |-> Post(k)]]]
\* The inputs to the permutation that the rows add, with their outputs.
RowPerms(rows) ==
    LET permuted == SelectSeq([k \in 1..Len(rows) - 1 |-> k], LAMBDA k : ~ (rows[k].sample = 1 /\ rows[k + 1].sample = 0))
    IN  [j \in 1..Len(permuted) |-> <<rows[permuted[j]].val.prev, rows[permuted[j]].val.post>>]

SameProof(n) == n.en - n.first[1]
TranscriptEval(l, n) ==
    LET same == SameProof(n) = 1
        permuted == same /\ ~ (l.sample = 1 /\ n.sample = 0)
    IN  /\ l.first[1] = 1 =>
               /\ l.tidx = 0 /\ l.en = 1
               /\ \A i \in Lanes : i >= l.count => l.val.prev[i] = Zero
        /\ l.sample \in {0, 1} /\ l.count \in 0..CHUNK
        /\ same =>
               /\ n.tidx = l.tidx + l.count
               /\ l.sample = n.sample => l.count = CHUNK
               /\ \A i \in Lanes : i >= n.count \/ n.sample = 1 => n.val.prev[i] = l.val.post[i]
        /\ l.en = 1 /\ ~ permuted => l.val.post = l.val.prev
TranscriptMessages(c, l, n) ==
    LET same == SameProof(n)
        p == l.ctr[1]
    IN  [k \in 1..l.count |->
            [key |-> TranscriptKey(p, l.tidx + k - 1, l.val.prev[IF l.sample = 1 THEN CHUNK - k ELSE k - 1], l.sample),
             mult |-> 1]]
        \o Receive(<<"poseidon2_permute", l.val.prev, l.val.post>>, same * (1 - l.sample * (1 - n.sample)))
        \o Send(<<"final_state", p, l.val.post>>, IntOf(c.final_state) * l.en * (1 - same))

\* dedup_poseidon_inputs and Poseidon2Air: a row for each input, with the
\* number of permutations and of compressions of it.
Deduplicated(inputs, bus) ==
    [k \in 1..Len(inputs) |->
        IF \E j \in 1..k - 1 : inputs[j] = inputs[k] THEN <<>>
        ELSE Send(bus \o inputs[k], Cardinality({j \in 1..Len(inputs) : inputs[j] = inputs[k]}))]
Poseidon2Messages(perms, compressions) ==
    Deduplicated(perms, <<"poseidon2_permute">>) \o Deduplicated(compressions, <<"poseidon2_compress">>)

-----------------------------------------------------------------------------
(* Merkle paths.  2^k rows of a codeword are one leaf; a query opens them in  *)
(* every commitment of the first round, or in the codeword of a later round.  *)

NumWhirRounds(c) == Len(c.whir_queries)
\* stacking_commits: main, then those of the AIRs in their order.
StackingCommits(c, pf) ==
    <<<<"main_commit">>>> \o
    Flat([k \in 1..Len(pf.ps.sorted) |->
            LET i == pf.ps.sorted[k]  a == c.airs[i + 1]
            IN  (IF a.pre > 0 THEN <<<<"pre_commit", i>>>> ELSE <<>>)
                    \o [j \in 1..Len(a.cached) |-> <<"cached_commit", i, j - 1>>]])
CommitOf(c, pf, major, minor) ==
    IF major = 0 THEN StackingCommits(c, pf)[minor + 1] ELSE <<"codeword_commit", major - 1>>
LogRsDomain(c, round) == c.l_skip + c.n_stack + c.log_blowup - round
PathDepth(c, round) == LogRsDomain(c, round) - c.k_whir
QueryOffset(c, round) == SumUpTo(round, LAMBDA r : c.whir_queries[r + 1])

\* build_merkle_logs
MerkleLogs(c, pf) ==
    LET Log(round, q, minor) ==
            [idx |-> pf.whir.queries[QueryOffset(c, round) + q + 1], depth |-> PathDepth(c, round),
             major |-> round, minor |-> minor]
        Minors(round) == IF round = 0 THEN Len(StackingCommits(c, pf)) ELSE 1
    IN  Flat([r \in 1..NumWhirRounds(c) |->
            Flat([q \in 1..c.whir_queries[r] |-> [m \in 1..Minors(r - 1) |-> Log(r - 1, q - 1, m - 1)]])])

\* A node of the tree: LeafNode below the path, which begins with its root.
LeafNode(c, pf, log, layer, j) ==
    LET i == log.idx % 2^log.depth
    IN  IF layer = c.k_whir THEN <<"node", pf.idx, log.major, log.minor, 0, i>>
        ELSE <<"leaf", pf.idx, log.major, log.minor, i, layer, j>>
PathNode(c, pf, log, pos, i) ==
    IF pos = log.depth THEN CommitOf(c, pf, log.major, log.minor)
    ELSE <<"node", pf.idx, log.major, log.minor, pos, i % 2^(log.depth - pos)>>

MerkleRow(c, pf, log) ==
    [en |-> 1, p |-> pf.idx, last |-> 0, combining |-> 0, last_leaf |-> 0, leaf_sub |-> 0,
     idx |-> log.idx, current |-> log.idx, total_depth |-> log.depth + c.k_whir + 1, height |-> 0,
     recv |-> 2, major |-> log.major, minor |-> log.minor, val |-> <<>>]
\* compute_combination_indices: the layers of the leaf one after the other.
LeafRows(c, pf, log) ==
    Flat([s \in 1..c.k_whir |-> [j \in 1..2^(c.k_whir - s) |->
        [MerkleRow(c, pf, log) EXCEPT
            !.combining = 1, !.last_leaf = IntOf(s = c.k_whir), !.leaf_sub = j - 1, !.height = s - 1,
            !.val = <<LeafNode(c, pf, log, s - 1, 2 * (j - 1)), LeafNode(c, pf, log, s - 1, 2 * (j - 1) + 1),
                      LeafNode(c, pf, log, s, j - 1)>>]]])
Flip(i) == IF i % 2 = 0 THEN i + 1 ELSE i - 1
PathRow(c, pf, log, pos) ==
    LET cur == log.idx \div 2^pos
        here == PathNode(c, pf, log, pos, cur)
        sibling == IF pos = log.depth THEN CommitOf(c, pf, log.major, log.minor) ELSE PathNode(c, pf, log, pos, Flip(cur))
        out == IF pos = log.depth THEN <<"beyond", here>> ELSE PathNode(c, pf, log, pos + 1, cur \div 2)
    IN  [MerkleRow(c, pf, log) EXCEPT
            !.last = IntOf(pos = log.depth), !.current = cur \div 2, !.height = pos + c.k_whir, !.recv = cur % 2,
            !.val = IF cur % 2 = 0 THEN <<here, sibling, out>> ELSE <<sibling, here, out>>]
MerkleRows(c, pf) ==
    LET logs == MerkleLogs(c, pf)
    IN  Flat([m \in 1..Len(logs) |->
            LeafRows(c, pf, logs[m]) \o [pos \in 1..logs[m].depth + 1 |-> PathRow(c, pf, logs[m], pos - 1)]])
RowCompressions(rows) == [k \in 1..Len(rows) |-> <<<<rows[k].val[1], rows[k].val[2]>>, rows[k].val[3]>>]

MerkleEval(c, l) ==
    /\ l.last = 1 => l.val[1] = l.val[2] /\ l.height + 1 = l.total_depth
    /\ l.combining = 0 => l.leaf_sub = 0 /\ l.recv \in {0, 1}
    /\ l.last_leaf = 1 => l.combining = 1 /\ l.leaf_sub = 0 /\ l.height + 1 = c.k_whir
    /\ l.combining = 1 => l.recv = 2 /\ l.idx = l.current
MerkleMessages(c, l) ==
    LET child == l.current * (2 - l.combining)
        MerkleKey(value, current, height, leaf, sub) ==
            <<"merkle_verify", l.p, value, l.idx, current, l.total_depth, height, leaf, sub, l.major, l.minor>>
    IN  Receive(MerkleKey(l.val[1], child, l.height, l.combining, 2 * l.leaf_sub), IntOf(l.recv # 1))
        \o Receive(MerkleKey(l.val[2], child + 1 - l.combining, l.height, l.combining,
                             l.combining * (2 * l.leaf_sub + 1)), IntOf(l.recv >= 1))
        \o Send(MerkleKey(l.val[3], l.current, l.height + 1, l.combining - l.last_leaf, l.leaf_sub), 1 - l.last)
        \o Receive(<<"commitments", l.p, l.major, l.minor, l.val[1]>>, l.last)
        \o Receive(RightShiftKey(l.idx, l.total_depth - c.k_whir, l.current), l.last)
        \o Receive(<<"poseidon2_compress", <<l.val[1], l.val[2]>>, l.val[3]>>, 1)

-----------------------------------------------------------------------------
(* ExpBitsLen: NUM_BITS rows for each request, in the order they came.        *)

\* fill_valid_rows: the bits of src, the number of bits that count, the result
\* so far (as an exponent of the base of the request), and whether src can be a
\* canonical value of the field.
Bit(src, step) == (src \div 2^step) % 2
ExpRow(r, step) ==
    [en |-> 1, first |-> IntOf(step = 0), base |-> r.base, bit_idx |-> step, src |-> r.src \div 2^step,
     bits |-> Sat(r.bits - step), low_left |-> Sat(LOW_BITS_COUNT - step),
     result |-> SumUpTo(NUM_BITS - 1, LAMBDA s : IF s >= step /\ s < r.bits THEN Bit(r.src, s) * 2^s ELSE 0),
     low_zero |-> IntOf(\A s \in 0..step - 1 : s < LOW_BITS_COUNT => Bit(r.src, s) = 0),
     high_one |-> IntOf(step >= LOW_BITS_COUNT /\ \A s \in LOW_BITS_COUNT..step - 1 : Bit(r.src, s) = 1),
     original |-> r.src, mult |-> IF r.shift = step THEN r.mult ELSE 0]
ExpTrace(requests) ==
    LET rows == Flat([k \in 1..Len(requests) |-> [s \in 1..NUM_BITS |-> ExpRow(requests[k], s - 1)]])
    IN  rows \o [k \in 1..2^Log2Ceil(Len(rows)) - Len(rows) |-> [ExpRow(requests[1], NUM_BITS) EXCEPT !.en = 0, !.mult = 0]]

ExpEval(l, n) ==
    LET transition == n.en - n.first
        last == l.en - transition
        bit == l.src - 2 * n.src
    IN  /\ transition = 1 => l.en = 1
        /\ l.first = 1 => last = 0 /\ l.bit_idx = 0 /\ l.low_left = LOW_BITS_COUNT /\ l.low_zero = 1 /\ l.high_one = 0
                          /\ l.src = l.original
        /\ last = 1 => /\ l.low_left = 0 /\ l.bit_idx = NUM_BITS - 1 /\ l.src = 0 /\ l.bits = 0 /\ l.result = 0
                       /\ ~ (l.high_one = 1 /\ l.low_zero = 0)
        /\ transition = 1 =>
               /\ n.bit_idx = l.bit_idx + 1 /\ bit \in {0, 1}
               /\ n.bits = l.bits - IntOf(l.bits > 0)
               /\ n.low_left = l.low_left - IntOf(l.low_left > 0)
               /\ l.result = n.result + IntOf(l.bits > 0) * bit * 2^l.bit_idx
               /\ n.low_zero = IF l.low_left > 0 THEN l.low_zero * (1 - bit) ELSE l.low_zero
               /\ n.high_one = (CASE l.low_left > 0 /\ n.low_left > 0 -> 0
                                  [] l.low_left > 0 /\ n.low_left = 0 -> 1
                                  [] OTHER -> l.high_one * bit)
               /\ l.original = n.original
        /\ l.mult # 0 => l.en = 1
ExpMessages(l) ==
    Send(ExpBitsKey(l.base, l.src, l.bits, l.result), l.en * l.first)
    \o Send(RightShiftKey(l.original, l.bit_idx, l.src), l.mult)

-----------------------------------------------------------------------------
\* generate_proving_ctxs: perms and compressions of all proofs are counted in
\* one table.
TranscriptTraces(c, pfs) ==
    [transcript |-> Trace([k \in 1..Len(pfs) |-> TranscriptRows(pfs[k])]),
     merkle |-> Flat([k \in 1..Len(pfs) |-> MerkleRows(c, pfs[k])])]
Poseidon2Inputs(pfs, ts) ==
    [perms |-> Flat([k \in 1..Len(pfs) |-> pfs[k].whir.perms])
                   \o Flat([k \in 1..Len(pfs) |-> RowPerms(SelectSeq(ts.transcript, LAMBDA r : r.en = 1 /\ r.ctr[1] = pfs[k].idx))]),
     compressions |-> Flat([k \in 1..Len(pfs) |-> pfs[k].whir.compressions]) \o RowCompressions(ts.merkle)]
TranscriptAccepted(c, ts) ==
    /\ Accepted(ts.transcript, TranscriptEval)
    /\ \A k \in 1..Len(ts.merkle) : MerkleEval(c, ts.merkle[k])
TranscriptModuleMessages(c, ts, inputs) ==
    MessagesOf(ts.transcript, LAMBDA l, n : TranscriptMessages(c, l, n))
    \o [k \in 1..Len(ts.merkle) |-> MerkleMessages(c, ts.merkle[k])]
    \o Poseidon2Messages(inputs.perms, inputs.compressions)
================================================================================
