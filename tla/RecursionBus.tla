------------------------------ MODULE RecursionBus ------------------------------
(***************************************************************************)
(* What the circuits of the recursive verifier share.  Each circuit checks *)
(* a part of the proofs of a child circuit and tells the others about it   *)
(* over buses: a bus balances when every message is sent as often as it is *)
(* received.  Preflight runs the verifier once over every proof and logs   *)
(* the transcript; the trace generators of the circuits work from it.      *)
(*                                                                         *)
(* Field values are names.  Two places get the same name when the checks   *)
(* of the child's verifier make their values equal, so that the arithmetic *)
(* of the constraints is left out and their control is kept: which row     *)
(* speaks, how often, about which round of which proof, and at which index *)
(* of the transcript.                                                      *)
(***************************************************************************)
EXTENDS Integers, Sequences, FiniteSets, FiniteSetsExt, SequencesExt

CONSTANTS D_EF,          \* coefficients of an extension field element
          DIGEST_SIZE    \* elements of a commitment

IntOf(b) == IF b THEN 1 ELSE 0
Sat(n) == IF n > 0 THEN n ELSE 0                    \* saturating_sub
\* ceil(log2(n)), and the bits of n
Log2Ceil(n) == CHOOSE k \in 0..n : 2^k >= n /\ (k = 0 \/ 2^(k - 1) < n)
Bits(n) == IF n = 0 THEN 0 ELSE CHOOSE k \in 1..n : 2^k > n /\ 2^(k - 1) <= n
SumSeq(s) == LET sum[k \in 0..Len(s)] == IF k = 0 THEN 0 ELSE sum[k - 1] + s[k] IN sum[Len(s)]
SumUpTo(n, f(_)) == LET sum[k \in 0..n] == IF k = 0 THEN 0 ELSE sum[k - 1] + f(k - 1) IN sum[n]
\* s[1] \o ... \o s[n]
Flat(s) == IF s = <<>> THEN <<>> ELSE FlattenSeq(s)

-----------------------------------------------------------------------------
(* The transcript: an element a slot, extension field elements in a row.    *)

Zero == <<"zero">>
One == <<"one">>
Generator == <<"generator">>
Coeffs(v) == [k \in 1..D_EF |-> Append(v, k)]
Observed(v) == [val |-> v, sample |-> 0]
Sampled(v) == [val |-> v, sample |-> 1]
Observe(v) == <<Observed(v)>>
ObserveExt(v) == [k \in 1..D_EF |-> Observed(Append(v, k))]
ObserveDigest(v) == [k \in 1..DIGEST_SIZE |-> Observed(Append(v, k))]
Sample(v) == <<Sampled(v)>>
SampleExt(v) == [k \in 1..D_EF |-> Sampled(Append(v, k))]
\* A value whose bits matter.
Number(n) == <<"number", n>>
\* pow_tidx_count and pow_observe_sample: a witness, and a sample whose last
\* bits are zero.
PowSample(bits) == 2^bits
PowTidxCount(bits) == IF bits > 0 THEN 2 ELSE 0
PowObserveSample(bits, name) ==
    IF bits > 0 THEN Observe(name) \o Sample(Number(PowSample(bits))) ELSE <<>>

-----------------------------------------------------------------------------
(* Messages: a key that begins with the bus, and how often it is sent (or,  *)
(* negative, received or looked up).                                        *)

Send(key, mult) == IF mult = 0 THEN <<>> ELSE <<[key |-> key, mult |-> mult]>>
Receive(key, mult) == Send(key, -mult)

TranscriptKey(p, tidx, val, sample) == <<"transcript", p, tidx, val, sample>>
ReceiveSlots(p, tidx, vals, sample, mult) ==
    IF mult = 0 THEN <<>>
    ELSE [k \in 1..Len(vals) |-> [key |-> TranscriptKey(p, tidx + k - 1, vals[k], sample), mult |-> -mult]]
ObserveBus(p, tidx, v, mult) == Receive(TranscriptKey(p, tidx, v, 0), mult)
SampleBus(p, tidx, v, mult) == Receive(TranscriptKey(p, tidx, v, 1), mult)
ObserveExtBus(p, tidx, v, mult) == ReceiveSlots(p, tidx, Coeffs(v), 0, mult)
SampleExtBus(p, tidx, v, mult) == ReceiveSlots(p, tidx, Coeffs(v), 1, mult)
ObserveDigestBus(p, tidx, v, mult) ==
    ReceiveSlots(p, tidx, [k \in 1..DIGEST_SIZE |-> Append(v, k)], 0, mult)

\* A lookup in the table of powers: base^(the last bits of src), as an exponent.
ExpBitsKey(base, src, bits, exponent) == <<"exp_bits_len", base, src, bits, exponent>>
RightShiftKey(src, bits, result) == <<"right_shift", src, bits, result>>
\* A proof of work of the transcript, and its request to that table.
PowBus(p, tidx, bits, name, mult) ==
    IF bits = 0 THEN <<>>
    ELSE ObserveBus(p, tidx, name, mult) \o SampleBus(p, tidx + 1, Number(PowSample(bits)), mult)
         \o Receive(ExpBitsKey(Generator, PowSample(bits), bits, 0), mult)
ExpBits(base, src, bits, shift, mult) ==
    [base |-> base, src |-> src, bits |-> bits, shift |-> shift, mult |-> mult]
PowRequest(bits) == IF bits = 0 THEN <<>> ELSE <<ExpBits(Generator, PowSample(bits), bits, 0, 0)>>

\* The balance of each key of a bundle of messages, where it is not zero.  The
\* messages are first parted by bus and proof.
Tally(bundle) ==
    LET places == UNION {{<<k, j>> : j \in 1..Len(bundle[k])} : k \in 1..Len(bundle)}
        Key(x) == bundle[x[1]][x[2]].key
        Part(x) == <<Key(x)[1], Key(x)[2]>>
        groups == {{x \in places : Part(x) = part} : part \in {Part(x) : x \in places}}
        Balances(group) ==
            LET keys == {Key(x) : x \in group}
                sums == {<<key, MapThenSumSet(LAMBDA x : bundle[x[1]][x[2]].mult, {x \in group : Key(x) = key})>> : key \in keys}
            IN  {s \in sums : s[2] # 0}
    IN  UNION {Balances(group) : group \in groups}

-----------------------------------------------------------------------------
(* Traces.  A row has en (is_enabled), ctr and first (counters and is_first *)
(* flags of the nested loops, the outermost first), val (values) and other  *)
(* integer columns.                                                         *)

ZeroLike(r) ==
    [f \in DOMAIN r |-> CASE f = "val" -> <<>>
                          [] f \in {"ctr", "first"} -> [k \in DOMAIN r[f] |-> 0]
                          [] OTHER -> 0]
\* The rows of the proofs one after the other, up to a power of two.
Trace(rowsOfProofs) ==
    LET rows == Flat(rowsOfProofs)
    IN  rows \o [k \in 1..2^Log2Ceil(Len(rows)) - Len(rows) |-> ZeroLike(rows[1])]
NextIndex(trace, k) == IF k = Len(trace) THEN 1 ELSE k + 1
MessagesOf(trace, messages(_, _)) ==
    [k \in 1..Len(trace) |-> messages(trace[k], trace[NextIndex(trace, k)])]

\* NestedForLoopSubAir: local_is_transition, local_is_last, eval_first_row,
\* eval_transition and eval.
IsTransition(n, level) == n.en - n.first[level]
IsLast(l, n, level) == l.en - n.en + n.first[level]
NestedFirstRow(l, level) == l.en = 1 => l.first[level] = 1
NestedTransition(l, n, level, diff) ==
    /\ n.en = 1 => diff \in {0, 1}
    /\ l.en = 1 /\ diff # 1 => n.first[level] = 0
NestedLoop(l, n, isFirstRow, isLastRow) ==
    /\ l.en \in {0, 1}
    /\ ~ isLastRow /\ l.en # 1 => n.en = 0
    /\ \A level \in DOMAIN l.first :
           LET diff == n.ctr[level] - l.ctr[level]
           IN  /\ l.first[level] \in {0, 1}
               /\ l.first[level] = 1 => l.en = 1
               /\ (IF level = 1 THEN isFirstRow ELSE l.first[level - 1] = 1)
                      => NestedFirstRow(l, level) /\ l.ctr[level] = 0
               /\ (IF level = 1 THEN ~ isLastRow ELSE IsTransition(n, level - 1) # 0)
                      => NestedTransition(l, n, level, diff)
               /\ n.en = 1 /\ diff # 0 => n.first[level] = 1
Accepted(trace, eval(_, _)) ==
    \A k \in 1..Len(trace) :
        LET l == trace[k]  n == trace[NextIndex(trace, k)]
        IN  NestedLoop(l, n, k = 1, k = Len(trace)) /\ eval(l, n)
================================================================================
