---------------------------- MODULE Aggregation ----------------------------
(***************************************************************************)
(* From segment proofs to one verified proof.  In "honest" behaviours the   *)
(* SDK provers (crates/sdk/src/prover) run: the VM tree layer by layer, one *)
(* tree per deferral circuit and its hook proof, the deferral tree over the *)
(* hooks, the mix of both, the extra wraps and the root prover's retries;   *)
(* no circuit may refuse an honest trace.  In "adversary" behaviours a      *)
(* prover holds arbitrary genuine and forged proofs, uses any of the inner  *)
(* circuits' keys and deviates from the honest traces; what the verifier    *)
(* accepts must still be a genuine execution.                               *)
(***************************************************************************)
EXTENDS AggregationCircuits

CONSTANTS
    MaxSegments,    \* bound: segments of an honest execution
    MaxArity,       \* bound: children of a leaf or internal proof
    MaxRetries,     \* MAX_ROOT_TRACEGEN_RETRIES
    MaxDeviations,  \* bound: departures from an honest trace per behaviour
    MaxSteps        \* bound: proofs the adversary makes

VARIABLES
    mode,       \* "honest" or "adversary"
    sc,         \* the execution to be proved and the tree configuration
    stage,      \* what StarkProver::prove does next
    vm,         \* proofs of the VM tree's current layer
    circ,       \* per deferral circuit: phase, proofs and depth of its tree
    def,        \* hook proofs (or absent) and then the deferral tree's current layer
    meta,       \* layers, proof type and retries (adversary: deviations and steps)
    refused     \* stages in which a circuit refused an honest trace

vars == <<mode, sc, stage, vm, circ, def, meta, refused>>

----------------------------------------------------------------------------
(* Keys.  The commit of a key is the commit of its constraint DAG and its     *)
(* pre-hash; internal-recursive keys do not depend on what is below.          *)

Vk(k) == [cached |-> <<200 + k>>, pre |-> <<300 + k>>]
App == Vk(1)
Leaf == Vk(2)
Ifl == Vk(3)
Ir == Vk(4)
Hook == Vk(5)
DLeaf == Vk(6)
DIfl == Vk(7)
DefIfl == Vk(8)
DefIr == Vk(9)
DefCircuit(d) == Vk(10 + d)
DefLeaf(d) == Vk(20 + d)
Bogus == Vk(99)

ComponentsOf(app, leaf, ifl) ==
    HashSlice(<<app.cached, app.pre, leaf.cached, leaf.pre, ifl.cached, ifl.pre>>)

\* SingleDeferralCircuitProver::circuit_commit and AggProver::vm_or_hook_commit
CircuitCommit(d) == ComponentsOf(DefCircuit(d), DefLeaf(d), DefIfl)
HookCommit == ComponentsOf(Hook, DLeaf, DIfl)
AppVmCommit == ComponentsOf(App, Leaf, Ifl)

----------------------------------------------------------------------------
(* Memory: two opaque address spaces, the public values and the accumulators *)
(* of deferral circuits.                                                     *)

\* Address spaces with room for four circuits, or for sixteen.
AddressHeight(circuits) == IF circuits <= 4 THEN 3 ELSE 5
Dims == [as |-> 2, addr |-> AddressHeight(Len(sc.calls)), pvs |-> 1]

\* Call j of circuit d: input commit, cached commit of its proof, output commit.
CallProof(d, j) ==
    [kind |-> "def", vk |-> DefCircuit(d), cached |-> <<<<600 + 10 * d + j>>>>,
     pvs |-> [input |-> <<500 + 10 * d + j>>, output |-> <<400 + 10 * d + j>>, idx |-> d,
              base |-> BaseUnset]]
IoCommit(p) == <<FoldedInput(p), p.pvs.output>>
Calls(d, n) == [j \in 1..n |-> CallProof(d, j)]

Accumulated(d, calls) ==
    LET io == [j \in 1..Len(calls) |-> IoCommit(calls[j])] IN
    <<Onion(CircuitCommit(d), [j \in 1..Len(io) |-> io[j][1]]),
      Onion(Zero, [j \in 1..Len(io) |-> io[j][2]])>>

\* Memory with n circuits whose calls so far are calls[1..n].
Memory(id, n, calls) ==
    [id |-> id, pv |-> <<<<800 + id>>, <<850 + id>>>>, height |-> AddressHeight(n),
     acc |-> [d \in 0..2^(AddressHeight(n) - 1) - 1 |-> IF d < n THEN Accumulated(d, calls[d + 1]) ELSE <<Zero, Zero>>]]

AsNode(mem, as, level, i) ==
    LET leaf(k) ==
          IF as = PublicValuesAs THEN Pad(IF k < 2 THEN mem.pv[k + 1] ELSE Zero)
          ELSE Pad(mem.acc[k \div 2][(k % 2) + 1])
        node[l \in 0..level, k \in 0..2^mem.height - 1] ==
          IF l = 0 THEN leaf(k) ELSE Compress(node[l - 1, 2 * k], node[l - 1, 2 * k + 1])
    IN  node[level, i]

Opaque(mem) == Compress(<<700 + mem.id>>, <<750 + mem.id>>)
MemRoot(mem) ==
    Compress(Opaque(mem), Compress(AsNode(mem, PublicValuesAs, mem.height, 0), AsNode(mem, DeferralAs, mem.height, 0)))

UserProof(mem) ==
    [k \in 1..mem.height - 1 |-> AsNode(mem, PublicValuesAs, k, 1)]
    \o <<AsNode(mem, DeferralAs, mem.height, 0), Opaque(mem)>>

\* deferral_merkle_proof_from_tree
DeferralProof(mem, depth) ==
    [i \in 1..mem.height |-> IF i - 1 < depth THEN Zero
                    ELSE AsNode(mem, DeferralAs, i - 1, IF depth = 0 /\ i = 1 THEN 0 ELSE 1)]
    \o <<AsNode(mem, PublicValuesAs, mem.height, 0), Opaque(mem)>>

----------------------------------------------------------------------------
(* Base proofs *)

Program == <<900>>

SegmentPvs(a, z, i, last) ==
    [program |-> Program, ipc |-> 150 + i, fpc |-> 151 + i,
     exit |-> IF last THEN Success ELSE SuspendExit, term |-> IF last THEN 1 ELSE 0,
     iroot |-> MemRoot(a), froot |-> MemRoot(z)]

\* `att' is what the proof really shows: its segments and hooks, and whether a proof
\* under a key that is not genuine took part.
AppProof(pvs) ==
    [kind |-> "app", vk |-> App, cached |-> Zero, pvs |-> [PvsUnset EXCEPT !.vm = pvs],
     att |-> [forged |-> FALSE, segs |-> <<pvs>>, hooks |-> <<>>]]

HookProof(cached, t, calls) ==
    [kind |-> "hook", vk |-> Hook, cached |-> cached, pvs |-> [PvsUnset EXCEPT !.df = t.pvs],
     att |-> [forged |-> FALSE, segs |-> <<>>, hooks |-> <<<<t.proof.pvs.agg.idx, calls>>>>]]

JoinAtt(ps) ==
    [forged |-> \E i \in 1..Len(ps) : ps[i].att.forged,
     segs |-> FoldLeft(LAMBDA s, p : s \o p.att.segs, <<>>, ps),
     hooks |-> FoldLeft(LAMBDA s, p : s \o p.att.hooks, <<>>, ps)]

InnerProof(ps, self, pvs) ==
    [kind |-> "inner", vk |-> self, cached |-> ps[1].vk.cached, pvs |-> pvs, att |-> JoinAtt(ps)]

\* agg_prove of the inner prover; children share one key.
AggProve(ps, self, w) ==
    LET app == ps[1].kind # "inner"
        t == InnerTrace(ps, app, ps[1].vk, w, sc.enabled)
    IN  [ok |-> InnerAccepts(t, DefIr.cached), proof |-> InnerProof(ps, self, t.pvs)]

\* agg_prove of the deferral inner prover
DefAggProve(ps, self, childDepth) ==
    LET t == DefInnerTrace(ps, ps[1].kind = "dinner", ps[1].vk, childDepth)
    IN  [ok |-> DefInnerAccepts(t),
         proof |-> [kind |-> "dinner", vk |-> self, cached |-> ps[1].vk.cached, pvs |-> t.pvs]]

Chunks(s, n) ==
    [i \in 1..((Len(s) + n - 1) \div n) |->
        SubSeq(s, (i - 1) * n + 1, IF i * n > Len(s) THEN Len(s) ELSE i * n)]

Ok(res, where) == IF \A i \in 1..Len(res) : res[i].ok THEN {} ELSE {where}
ProofsOf(res) == [i \in 1..Len(res) |-> res[i].proof]

----------------------------------------------------------------------------
(* Honest executions *)

CallCounts == {<<>>, <<0>>, <<1>>, <<2>>, <<5>>, <<0, 3>>, <<1, 1>>, <<0, 0, 2>>, <<3, 0, 1>>}

Scenarios ==
    {[enabled |-> e, segs |-> n, leafArity |-> l, intArity |-> k, calls |-> c] :
        e \in {TRUE}, n \in 1..MaxSegments, l \in 1..2, k \in 2..MaxArity, c \in CallCounts}
    \cup {[enabled |-> FALSE, segs |-> n, leafArity |-> 1, intArity |-> 2, calls |-> <<>>] :
             n \in 1..MaxSegments}
    \* a VM tree, and a deferral tree, that is one layer deeper than the other
    \cup {[enabled |-> TRUE, segs |-> 5, leafArity |-> 1, intArity |-> 2, calls |-> <<1>>],
          [enabled |-> TRUE, segs |-> 1, leafArity |-> 1, intArity |-> 2, calls |-> <<1, 0, 0, 0, 0, 0, 0, 0, 1>>]}

CallsOf(s) == [d \in 1..Len(s.calls) |-> Calls(d - 1, s.calls[d])]
HasCalls(s) == \E d \in 1..Len(s.calls) : s.calls[d] > 0

\* Memory before segment i (numbered from 0): calls are made in the last segment.
MemoryAt(s, i) ==
    Memory(i, Len(s.calls),
           IF i < s.segs THEN [d \in 1..Len(s.calls) |-> <<>>] ELSE CallsOf(s))

Segments(s) ==
    [i \in 1..s.segs |-> AppProof(SegmentPvs(MemoryAt(s, i - 1), MemoryAt(s, i), i - 1, i = s.segs))]

\* VerificationBaseline
Baseline(iroot) ==
    [appExe |-> ExeCommit([program |-> Program, iroot |-> iroot, ipc |-> 150]),
     app |-> App, leaf |-> Leaf, ifl |-> Ifl, ir |-> Ir, hook |-> HookCommit]

----------------------------------------------------------------------------
(* AggProver::prove_vm *)

VmLayer(self, arity) ==
    LET cs == Chunks(vm, arity)
        res == [i \in 1..Len(cs) |-> AggProve(cs[i], self, Witness("Vm", Len(cs[i]), <<>>, FALSE))]
    IN  /\ vm' = ProofsOf(res)
        /\ refused' = refused \cup Ok(res, stage)

Honest == mode = "honest" /\ UNCHANGED <<mode, sc>>

ProveVmLeaf ==
    /\ Honest /\ stage = "leaf" /\ stage' = "ifl"
    /\ VmLayer(Leaf, sc.leafArity)
    /\ UNCHANGED <<circ, def, meta>>

ProveVmIfl ==
    /\ Honest /\ stage = "ifl" /\ stage' = "ir0"
    /\ VmLayer(Ifl, sc.intArity)
    /\ UNCHANGED <<circ, def, meta>>

ProveVmIr0 ==
    /\ Honest /\ stage = "ir0" /\ stage' = "ir"
    /\ VmLayer(Ir, sc.intArity)
    /\ meta' = [meta EXCEPT !.vmLayer = 1]
    /\ UNCHANGED <<circ, def>>

ProveVmIr ==
    /\ Honest /\ stage = "ir" /\ Len(vm) > 1
    /\ VmLayer(Ir, sc.intArity)
    /\ meta' = [meta EXCEPT !.vmLayer = @ + 1]
    /\ UNCHANGED <<stage, circ, def>>

----------------------------------------------------------------------------
(* Deferral circuits: SingleDeferralCircuitProver and MultiDeferralCircuitProver *)

InCircuits == Honest /\ stage = "ir" /\ Len(vm) = 1 /\ HasCalls(sc)

\* prove of one circuit: its proofs, the leaf and the internal-for-leaf layer.
SingleProve(c) ==
    LET calls == Calls(c - 1, sc.calls[c])
        leaves == Chunks(calls, 2)
        leafRes == [i \in 1..Len(leaves) |->
                      DefAggProve(leaves[i], DefLeaf(c - 1), IF Len(calls) = 1 THEN <<>> ELSE <<0>>)]
        ifls == Chunks(ProofsOf(leafRes), 2)
        iflRes == [i \in 1..Len(ifls) |->
                     DefAggProve(ifls[i], DefIfl, IF Len(leaves) = 1 THEN <<>> ELSE <<1>>)]
    IN  /\ InCircuits /\ circ[c].phase = "idle"
        /\ \A b \in 1..(c - 1) : circ[b].phase # "idle"
        /\ circ' = [circ EXCEPT ![c] =
                      [phase |-> "ir", proofs |-> ProofsOf(iflRes), depth |-> 2, layer |-> 0]]
        /\ refused' = refused \cup Ok(leafRes, "def leaf") \cup Ok(iflRes, "def ifl")
        /\ UNCHANGED <<stage, vm, def, meta>>

Next1(c) == /\ InCircuits /\ \A b \in 1..Len(circ) : circ[b].phase # "idle"
            /\ \A b \in 1..(c - 1) : circ[b].phase = "done"

\* absent_deferral_pvs
AbsentPvs(d, commit) ==
    LET h == Compress(Pad(commit), Pad(Zero)) IN [init |-> h, fin |-> h, depth |-> 1, idx |-> d]

Absent(pvs) == [present |-> FALSE, pvs |-> pvs, proof |-> <<>>]
Present(p) == [present |-> TRUE, pvs |-> DefUnset, proof |-> <<p>>]

\* A circuit without calls contributes its untouched accumulators.
MultiAbsent(c) ==
    /\ Next1(c) /\ circ[c].phase = "ir" /\ circ[c].proofs = <<>>
    /\ circ' = [circ EXCEPT ![c].phase = "done"]
    /\ def' = Append(def, Absent(AbsentPvs(c - 1, CircuitCommit(c - 1))))
    /\ UNCHANGED <<stage, vm, meta, refused>>

\* One round of the internal-recursive loop, at least one per circuit.
MultiIr(c) ==
    LET me == circ[c]
        many == Len(me.proofs) > 1
        cs == Chunks(me.proofs, 2)
        res == [i \in 1..Len(cs) |-> DefAggProve(cs[i], DefIr, IF many THEN <<me.depth>> ELSE <<>>)]
    IN  /\ Next1(c) /\ me.phase = "ir" /\ me.proofs # <<>>
        /\ circ' = [circ EXCEPT ![c] =
                      [phase |-> IF Len(res) = 1 THEN "hook" ELSE "ir", proofs |-> ProofsOf(res),
                       depth |-> IF many THEN me.depth + 1 ELSE me.depth, layer |-> me.layer + 1]]
        /\ refused' = refused \cup Ok(res, "def ir")
        /\ UNCHANGED <<stage, vm, def, meta>>

\* DeferralHookProver::prove; its trace generator asserts that the leaves give the root.
HookProve(c) ==
    LET calls == Calls(c - 1, sc.calls[c])
        t == HookTrace(circ[c].proofs[1], [j \in 1..Len(calls) |-> IoCommit(calls[j])])
        fine == TreeRoot(t.tree) = circ[c].proofs[1].pvs.agg.merkle /\ HookAccepts(t, DefIr)
    IN  /\ Next1(c) /\ circ[c].phase = "hook"
        /\ circ' = [circ EXCEPT ![c] = [@ EXCEPT !.phase = "done", !.proofs = <<>>]]
        /\ def' = Append(def, Present(HookProof(DefIr.cached, t, calls)))
        /\ refused' = refused \cup (IF fine THEN {} ELSE {"hook"})
        /\ UNCHANGED <<stage, vm, meta>>

\* The rest of a power of two of circuits is absent, with zero commits.
PadAbsent ==
    LET n == Len(circ)
        h == CHOOSE x \in {1, 2, 4, 8, 16} : x >= n /\ (x = 1 \/ x \div 2 < n)
    IN  /\ InCircuits /\ Len(def) = n /\ \A b \in 1..n : circ[b].phase = "done"
        /\ def' = def \o [i \in 1..(h - n) |-> Absent(AbsentPvs(n + i - 1, Zero))]
        /\ stage' = "defleaf"
        /\ UNCHANGED <<vm, circ, meta, refused>>

----------------------------------------------------------------------------
(* AggProver::prove_def and prove_mixed *)

\* reduce_def_round on one pair
ReducePair(a, b, self) ==
    CASE a.present /\ b.present ->
           AggProve(a.proof \o b.proof, self, Witness("Deferral", 2, <<>>, FALSE))
      [] a.present /\ ~b.present ->
           AggProve(a.proof, self, Witness("Deferral", 1, <<b.pvs>>, FALSE))
      [] ~a.present /\ b.present ->
           AggProve(b.proof, self, Witness("Deferral", 1, <<a.pvs>>, TRUE))

JoinAbsent(a, b) ==
    [init |-> Compress(a.init, b.init), fin |-> Compress(a.fin, b.fin), depth |-> a.depth + 1,
     idx |-> a.idx \div 2]

ReduceRound(self) ==
    IF Len(def) = 1
    THEN LET r == AggProve(def[1].proof, self, Witness("Deferral", 1, <<>>, FALSE))
         IN  def' = <<Present(r.proof)>> /\ refused' = refused \cup Ok(<<r>>, stage)
    ELSE LET half == Len(def) \div 2
             item[i \in 1..half] ==
               LET a == def[2 * i - 1]  b == def[2 * i] IN
               IF ~a.present /\ ~b.present
               THEN [ok |-> TRUE, next |-> Absent(JoinAbsent(a.pvs, b.pvs))]
               ELSE LET r == ReducePair(a, b, self) IN [ok |-> r.ok, next |-> Present(r.proof)]
         IN  LET items == [i \in 1..half |-> item[i]] IN
             /\ def' = [i \in 1..half |-> items[i].next]
             /\ refused' = refused \cup Ok(items, stage)

ProveDefLeaf ==
    /\ Honest /\ stage = "defleaf" /\ stage' = "defifl"
    /\ ReduceRound(DLeaf) /\ UNCHANGED <<vm, circ, meta>>

ProveDefIfl ==
    /\ Honest /\ stage = "defifl" /\ stage' = "defir0"
    /\ ReduceRound(DIfl) /\ UNCHANGED <<vm, circ, meta>>

ProveDefIr0 ==
    /\ Honest /\ stage = "defir0" /\ stage' = "mix"
    /\ ReduceRound(Ir) /\ meta' = [meta EXCEPT !.defLayer = 1] /\ UNCHANGED <<vm, circ>>

\* Further rounds: several proofs left, or the deferral side is shallower (wrap_def_inner).
ProveDefIr ==
    /\ Honest /\ stage = "mix"
    /\ Len(def) > 1 \/ meta.defLayer < meta.vmLayer
    /\ ReduceRound(Ir) /\ meta' = [meta EXCEPT !.defLayer = @ + 1] /\ UNCHANGED <<stage, vm, circ>>

\* wrap_proof
Wrap(where) ==
    LET r == AggProve(vm, Ir, Witness(meta.type, 1, <<>>, FALSE))
    IN  /\ vm' = <<r.proof>> /\ refused' = refused \cup Ok(<<r>>, where)
        /\ UNCHANGED <<circ, def>>

WrapShallowVm ==
    /\ Honest /\ stage = "mix" /\ Len(def) = 1 /\ meta.vmLayer < meta.defLayer
    /\ Wrap(stage) /\ meta' = [meta EXCEPT !.vmLayer = @ + 1] /\ UNCHANGED stage

Mix ==
    LET r == AggProve(vm \o def[1].proof, Ir, Witness("Mix", 2, <<>>, FALSE))
    IN  /\ Honest /\ stage = "mix" /\ Len(def) = 1 /\ meta.vmLayer = meta.defLayer
        /\ vm' = <<r.proof>> /\ refused' = refused \cup Ok(<<r>>, stage)
        /\ meta' = [meta EXCEPT !.vmLayer = @ + 1, !.type = "Combined"]
        /\ stage' = "wrap" /\ UNCHANGED <<circ, def>>

\* ADDITIONAL_INTERNAL_RECURSIVE_LAYERS
FinalWrap ==
    /\ Honest
    /\ stage = "wrap" \/ (stage = "ir" /\ Len(vm) = 1 /\ ~HasCalls(sc))
    /\ Wrap("wrap") /\ meta' = [meta EXCEPT !.vmLayer = @ + 1] /\ stage' = "root"

----------------------------------------------------------------------------
(* RootProver::prove and verification *)

Evidence(s, p) ==
    LET a == MemoryAt(s, 0)
        z == MemoryAt(s, s.segs)
    IN  [pvs |-> z.pv, proof |-> UserProof(z),
         def |-> IF s.enabled THEN <<DeferralProof(a, p.pvs.df.depth), DeferralProof(z, p.pvs.df.depth)>>
                 ELSE <<>>]

RootVerdict(p, ev) ==
    LET t == RootTrace(p, ev.pvs, ev.proof, ev.def, Dims)
    IN  p.vk = Ir /\ RootAccepts(t, Ir, HookCommit, sc.enabled, Dims)

NativeVerdict(p, ev, base) ==
    p.vk = Ir /\ NativeAccepts(p, ev.pvs, ev.proof, ev.def, base, sc.enabled, Dims)

\* The trace did not fit the root circuit's fixed heights: wrap the proof once more.
RootRetry ==
    /\ Honest /\ stage = "root" /\ meta.tries < MaxRetries
    /\ Wrap("root retry")
    /\ meta' = [meta EXCEPT !.vmLayer = @ + 1, !.tries = @ + 1] /\ UNCHANGED stage

RootProve ==
    LET ev == Evidence(sc, vm[1])
        fine == RootVerdict(vm[1], ev) /\ NativeVerdict(vm[1], ev, Baseline(MemRoot(MemoryAt(sc, 0))))
    IN  /\ Honest /\ stage = "root" /\ stage' = "done"
        /\ refused' = refused \cup (IF fine THEN {} ELSE {"root"})
        /\ UNCHANGED <<vm, circ, def, meta>>

HonestNext ==
    \/ ProveVmLeaf \/ ProveVmIfl \/ ProveVmIr0 \/ ProveVmIr
    \/ \E c \in 1..Len(circ) : SingleProve(c) \/ MultiAbsent(c) \/ MultiIr(c) \/ HookProve(c)
    \/ PadAbsent \/ ProveDefLeaf \/ ProveDefIfl \/ ProveDefIr0 \/ ProveDefIr
    \/ WrapShallowVm \/ Mix \/ FinalWrap \/ RootRetry \/ RootProve
    \/ Honest /\ stage = "done" /\ UNCHANGED vars

----------------------------------------------------------------------------
(* The adversary proves an execution of two segments over two deferral circuits, *)
(* or another one, with one call of circuit 0, one of each circuit, or none.       *)

NoCalls == <<<<>>, <<>>>>
Called == <<Calls(0, 1), <<>>>>
Mem0 == Memory(0, 2, NoCalls)
Mem1 == Memory(1, 2, NoCalls)
MemCalled == Memory(2, 2, Called)
MemPlain == Memory(3, 2, NoCalls)
MemBoth == Memory(4, 2, <<Calls(0, 1), Calls(1, 1)>>)
Memories == {Mem0, Mem1, MemCalled, MemPlain, MemBoth}

First == SegmentPvs(Mem0, Mem1, 0, FALSE)
LastCalled == SegmentPvs(Mem1, MemCalled, 1, TRUE)
LastPlain == SegmentPvs(Mem1, MemPlain, 1, TRUE)
LastBoth == SegmentPvs(Mem1, MemBoth, 1, TRUE)

\* A proof that satisfies no genuine circuit; only its key says so.
ForgedProof(kind, vk, cached, pvs) ==
    [kind |-> kind, vk |-> vk, cached |-> cached, pvs |-> pvs,
     att |-> [forged |-> TRUE, segs |-> <<>>, hooks |-> <<>>]]

\* The key of a circuit of the adversary's own, or one that borrows a genuine pre-hash.
ForgedKeys(vk) == {Bogus, [Bogus EXCEPT !.pre = vk.pre]}

\* What an honest chain of wraps publishes after `depth' internal-recursive layers.
ForgedBase(iflag, depth) ==
    [iflag |-> iflag, app |-> App, leaf |-> IF iflag = 0 THEN UnsetCommit ELSE Leaf,
     ifl |-> IF iflag < 2 THEN UnsetCommit ELSE Ifl, depth |-> depth,
     ir |-> IF depth < 2 THEN UnsetCommit ELSE Ir]

WholeRun == [First EXCEPT !.fpc = LastPlain.fpc, !.exit = Success, !.term = 1,
                          !.froot = LastPlain.froot]

ForgedInner ==
    UNION {{ForgedProof("inner", k, Ir.cached,
                        [PvsUnset EXCEPT !.base = ForgedBase(x[1], x[2]), !.vm = WholeRun]) :
              k \in ForgedKeys(x[3])} :
            x \in {<<0, 0, Leaf>>, <<1, 0, Ifl>>, <<2, 1, Ir>>, <<2, 2, Ir>>,
                   <<2, 2^LogMaxDepth - 2, Ir>>, <<2, 2^LogMaxDepth - 1, Ir>>}}

CompleteRuns == {<<AppProof(First), AppProof(l)>> : l \in {LastCalled, LastPlain, LastBoth}}
BrokenRuns ==
    {<<AppProof(LastPlain), AppProof(First)>>, <<AppProof(First)>>, <<AppProof(LastPlain)>>,
     <<AppProof(First), AppProof([LastPlain EXCEPT !.program = <<901>>])>>}
VmBases ==
    CompleteRuns \cup BrokenRuns
    \cup {<<ForgedProof("app", k, Zero, [PvsUnset EXCEPT !.vm = WholeRun])>> : k \in ForgedKeys(App)}
    \cup {<<p>> : p \in ForgedInner}

\* A hook proof for calls, over a deferral tree that is genuine when base is.
HookOver(d, calls, base, cached, selfCached) ==
    LET io == [j \in 1..Len(calls) |-> IoCommit(calls[j])]
        child == [kind |-> "dinner", vk |-> DefIr, cached |-> cached,
                  pvs |-> [base |-> base,
                           agg |-> [merkle |-> TreeRoot(MerkleRows(NormalizedLeaves(io), TRUE)),
                                    num |-> Len(calls), depth |-> 0, idx |-> d]]]
        t == HookTrace(child, io)
    IN  IF HookAccepts(t, DefIr) THEN {HookProof(selfCached, t, calls)} ELSE {}

HookBase(d) ==
    [iflag |-> 2, app |-> DefCircuit(d), leaf |-> DefLeaf(d), ifl |-> DefIfl, depth |-> 1,
     ir |-> UnsetCommit]

GenuineHook == {<<h>> : h \in HookOver(0, Calls(0, 1), HookBase(0), DefIfl.cached, DefIr.cached)}
DefBases ==
    {<<>>} \cup GenuineHook
    \cup {<<h>> : h \in HookOver(0, <<CallProof(0, 2)>>, HookBase(0), DefIfl.cached, DefIr.cached)}
    \cup {<<h>> : h \in HookOver(0, Calls(0, 1), HookBase(1), DefIfl.cached, DefIr.cached)}
    \cup {<<g, h>> : g \in HookOver(0, Calls(0, 1), HookBase(0), DefIfl.cached, DefIr.cached),
                     h \in HookOver(1, Calls(1, 1), HookBase(1), DefIfl.cached, DefIr.cached)}
    \cup {<<[h EXCEPT !.att.forged = TRUE]>> :
              h \in HookOver(0, Calls(0, 1), HookBase(0), DefIfl.cached, Bogus.cached)}
    \cup {<<[h EXCEPT !.vk = k, !.att.forged = TRUE]>> : k \in ForgedKeys(Hook),
              h \in HookOver(0, Calls(0, 1), HookBase(0), DefIfl.cached, DefIr.cached)}

----------------------------------------------------------------------------
(* Deviations: one published field, one column of the layout, or another key. *)

SlotValues == {Zero, Bogus.cached, Bogus.pre}
Deviations ==
    {<<f, <<n>>>> : f \in {"iflag", "dflag"}, n \in 0..2}
    \cup {<<"depth", <<n>>>> : n \in {0, 1, 2, 3}}
    \cup {<<"dfdepth", <<n>>>> : n \in 0..3}
    \cup {<<"idx", <<n>>>> : n \in 0..1}
    \cup {<<"term", <<1>>>>, <<"exit", <<Success>>>>}
    \cup {<<"ipc", <<150>>>>, <<"iroot", MemRoot(Mem0)>>, <<"program", Program>>}
    \cup {<<"froot", MemRoot(m)>> : m \in {MemPlain, MemCalled}}
    \cup {<<"hook", h>> : h \in {Zero, HookCommit}}
    \cup {<<f, v>> : f \in {"init", "fin"}, v \in {Zero, Compress(Pad(CircuitCommit(0)), Pad(Zero))}}
    \cup UNION {{<<f[1], v>> : v \in SlotValues \cup {f[2].cached}} :
                  f \in {<<"appC", App>>, <<"leafC", Leaf>>, <<"iflC", Ifl>>, <<"irC", Ir>>}}
    \cup UNION {{<<f[1], v>> : v \in SlotValues \cup {f[2].pre}} :
                  f \in {<<"appP", App>>, <<"leafP", Leaf>>, <<"iflP", Ifl>>, <<"irP", Ir>>}}

Deviate(pvs, f, v) ==
    CASE f = "iflag" -> [pvs EXCEPT !.base.iflag = v[1]]
      [] f = "depth" -> [pvs EXCEPT !.base.depth = v[1]]
      [] f = "dflag" -> [pvs EXCEPT !.dflag = v[1]]
      [] f = "dfdepth" -> [pvs EXCEPT !.df.depth = v[1]]
      [] f = "idx" -> [pvs EXCEPT !.df.idx = v[1]]
      [] f = "init" -> [pvs EXCEPT !.df.init = v]
      [] f = "fin" -> [pvs EXCEPT !.df.fin = v]
      [] f = "hook" -> [pvs EXCEPT !.hook = v]
      [] f = "term" -> [pvs EXCEPT !.vm.term = v[1]]
      [] f = "exit" -> [pvs EXCEPT !.vm.exit = v[1]]
      [] f = "ipc" -> [pvs EXCEPT !.vm.ipc = v[1]]
      [] f = "iroot" -> [pvs EXCEPT !.vm.iroot = v]
      [] f = "froot" -> [pvs EXCEPT !.vm.froot = v]
      [] f = "program" -> [pvs EXCEPT !.vm.program = v]
      [] f = "appC" -> [pvs EXCEPT !.base.app.cached = v]
      [] f = "appP" -> [pvs EXCEPT !.base.app.pre = v]
      [] f = "leafC" -> [pvs EXCEPT !.base.leaf.cached = v]
      [] f = "leafP" -> [pvs EXCEPT !.base.leaf.pre = v]
      [] f = "iflC" -> [pvs EXCEPT !.base.ifl.cached = v]
      [] f = "iflP" -> [pvs EXCEPT !.base.ifl.pre = v]
      [] f = "irC" -> [pvs EXCEPT !.base.ir.cached = v]
      [] f = "irP" -> [pvs EXCEPT !.base.ir.pre = v]
      [] OTHER -> pvs

\* Layouts: the honest ones for n children, and those with one column changed.
AbsentChoices == {<<>>, <<AbsentPvs(1, CircuitCommit(1))>>, <<AbsentPvs(0, CircuitCommit(0))>>}
HonestLayouts(n) ==
    {Witness("Vm", n, <<>>, FALSE)}
    \cup {Witness("Deferral", n, a, r) : a \in (IF n = 1 THEN AbsentChoices ELSE {<<>>}),
                                         r \in (IF n = 1 THEN BOOLEAN ELSE {FALSE})}
    \cup (IF n = 2 THEN {Witness("Mix", 2, <<>>, FALSE)} ELSE {Witness("Combined", 1, <<>>, FALSE)})

IndexLists(n) == {<<>>, <<0>>} \cup (IF n = 2 THEN {<<1>>, <<0, 1>>} ELSE {})
ChangedLayouts(w, n) ==
    {[w EXCEPT !.flag = x] : x \in 0..2} \cup {[w EXCEPT !.vm = x] : x \in 0..n}
    \cup {[w EXCEPT !.vmflag = x] : x \in 0..2} \cup {[w EXCEPT !.defflag = x] : x \in 0..2}
    \cup {[w EXCEPT !.def = x] : x \in IndexLists(n)}
    \cup {[w EXCEPT !.vmUnset = x] : x \in IndexLists(n)}
    \cup {[w EXCEPT !.defUnset = x] : x \in IndexLists(n)}

NaturalKey(ps) ==
    CASE ps[1].kind = "app" -> Leaf
      [] ps[1].kind = "hook" -> DLeaf
      [] ps[1].pvs.base.iflag = 0 -> IF ps[1].vk = DLeaf THEN DIfl ELSE Ifl
      [] OTHER -> Ir
InnerKeys == {Leaf, Ifl, Ir, DLeaf, DIfl}

\* The proofs the adversary can make from ps, each with the deviations it costs.
Makes(ps) ==
    LET n == Len(ps)
        app == ps[1].kind # "inner"
        trace(w) == InnerTrace(ps, app, ps[1].vk, w, sc.enabled)
        left == MaxDeviations - meta.dev
        layouts == {<<w, 0>> : w \in HonestLayouts(n)}
                   \cup {<<w, 1>> : w \in IF left > 0 THEN UNION {ChangedLayouts(h, n) : h \in HonestLayouts(n)}
                                                      ELSE {}}
        traces == {<<trace(x[1]), x[2]>> : x \in layouts}
        usable == {x \in traces : ConsistencyBalance(x[1]) /\ PublicValuesBalance(x[1])}
        choices(x) == {<<"none", <<0>>>>} \cup (IF x[2] < left THEN Deviations ELSE {})
        made(t, d) == [t EXCEPT !.pvs = Deviate(t.pvs, d[1], d[2])]
        cost(x, d) == x[2] + (IF d[1] = "none" THEN 0 ELSE 1)
        good == UNION {{<<InnerProof(ps, NaturalKey(ps), made(x[1], d).pvs), cost(x, d)>> :
                          d \in {y \in choices(x) : InnerAccepts(made(x[1], y), DefIr.cached)}} : x \in usable}
    IN  good \cup {<<[g[1] EXCEPT !.vk = k], g[2] + 1>> :
                     g \in {y \in good : y[2] < left}, k \in InnerKeys \ {NaturalKey(ps)}}

Spend(g) == meta' = [meta EXCEPT !.dev = @ + g[2], !.steps = @ + 1]
SameKey(ps) == \A i \in 1..Len(ps) : ps[i].vk = ps[1].vk /\ ps[i].kind = ps[1].kind

Adversary == mode = "adversary" /\ meta.steps < MaxSteps /\ UNCHANGED <<mode, sc, stage, circ, refused>>

AggregateVm ==
    /\ Adversary /\ SameKey(vm)
    /\ \E g \in Makes(vm) : vm' = <<g[1]>> /\ Spend(g) /\ UNCHANGED def

AggregateDef ==
    /\ Adversary /\ def # <<>> /\ SameKey(def)
    /\ \E g \in Makes(def) : def' = <<g[1]>> /\ Spend(g) /\ UNCHANGED vm

AggregateBoth ==
    /\ Adversary /\ Len(vm) = 1 /\ Len(def) = 1 /\ SameKey(vm \o def)
    /\ \E g \in Makes(vm \o def) : vm' = <<g[1]>> /\ Spend(g) /\ def' = <<>>

\* Any hook proofs beside complete runs, a genuine one beside broken runs.
AdversaryInit ==
    /\ mode = "adversary" /\ sc = [enabled |-> TRUE, calls |-> NoCalls] /\ stage = "attack"
    /\ vm \in VmBases /\ def \in DefBases /\ circ = <<>> /\ refused = {}
    /\ meta = [dev |-> 0, steps |-> 0]
    /\ def # <<>> => vm \in CompleteRuns \/ (vm \in BrokenRuns /\ def \in GenuineHook)

AdversaryNext == AggregateVm \/ AggregateDef \/ AggregateBoth

----------------------------------------------------------------------------
HonestInit ==
    /\ mode = "honest" /\ sc \in Scenarios /\ stage = "leaf" /\ vm = Segments(sc)
    /\ circ = [c \in 1..Len(sc.calls) |-> [phase |-> "idle", proofs |-> <<>>, depth |-> 2, layer |-> 0]]
    /\ def = <<>> /\ refused = {}
    /\ meta = [vmLayer |-> 0, defLayer |-> 0, type |-> "Vm", tries |-> 0]

Init == HonestInit \/ AdversaryInit
Next == HonestNext \/ AdversaryNext
Spec == Init /\ [][Next]_vars

----------------------------------------------------------------------------
(* Properties *)

\* No circuit and no verifier refuses what the SDK's provers build: every layer's padding,
\* absent subtree, depth counter and layout is what the circuit above expects.
HonestNeverRefused == refused = {}

\* The memories a final proof claims, when they are ones a run really had.
Roots == [m \in Memories |-> MemRoot(m)]
MemOf(root) == {m \in Memories : Roots[m] = root}
Expected == Baseline(MemRoot(Mem0))

Openings == [m \in Memories |-> [user |-> UserProof(m), def |-> [d \in 0..3 |-> DeferralProof(m, d)]]]
Claims ==
    IF mode = "adversary" /\ Len(vm) = 1 /\ vm[1].kind = "inner" /\ vm[1].vk = Ir
    THEN LET d == IF vm[1].pvs.df.depth > 3 THEN 3 ELSE vm[1].pvs.df.depth
         IN  {[a |-> a, z |-> z, ev |-> [pvs |-> z.pv, proof |-> Openings[z].user,
                                         def |-> <<Openings[a].def[d], Openings[z].def[d]>>]] :
                a \in MemOf(vm[1].pvs.vm.iroot), z \in MemOf(vm[1].pvs.vm.froot)}
    ELSE {}

\* The segments in the proof are genuine, run the expected program from its initial state
\* without a gap, and the last one terminates.
GenuineRun(att) ==
    /\ ~att.forged /\ att.segs # <<>>
    /\ att.segs[1].iroot = Roots[Mem0] /\ att.segs[1].ipc = 150
    /\ \A i \in 1..Len(att.segs) : att.segs[i].program = Program
    /\ \A i \in 1..(Len(att.segs) - 1) :
         att.segs[i].fpc = att.segs[i + 1].ipc /\ att.segs[i].froot = att.segs[i + 1].iroot
    /\ Last(att.segs).term = 1

\* What the native verifier accepts is a genuine, complete execution, whatever keys,
\* layouts and published values the prover chose along the way; and every deferred
\* call it made was proved by its own circuit: the accumulators in the final memory
\* are those of the attested calls, the others untouched.
AcceptedIsGenuine ==
    \A c \in Claims : NativeVerdict(vm[1], c.ev, Expected) =>
        /\ GenuineRun(vm[1].att) /\ Last(vm[1].att.segs).froot = Roots[c.z]
        /\ \A d \in 0..1 :
              \/ c.z.acc[d] = c.a.acc[d]
              \/ \E h \in Range(vm[1].att.hooks) : h[1] = d /\ c.z.acc[d] = Accumulated(d, h[2])

\* The root circuit and the native verifier judge every proof alike.
VerdictsAgree ==
    \A c \in Claims :
        NativeVerdict(vm[1], c.ev, Expected)
          = (/\ RootVerdict(vm[1], c.ev)
             /\ HashSlice(VkComponents(vm[1].pvs.base)) = AppVmCommit
             /\ ExeCommit(vm[1].pvs.vm) = Expected.appExe)
=============================================================================
