---------------------------- MODULE InnerCircuit ----------------------------
(***************************************************************************)
(* The inner aggregation circuit (crates/continuations, circuit/inner): the *)
(* one circuit behind the leaf, internal-for-leaf and internal-recursive    *)
(* layers, which verifies child proofs and joins their public values.  Its  *)
(* five AIRs are predicates over traces; the trace generators are operators *)
(* that build the traces from the child proofs.  That the child proofs      *)
(* verify is the business of the recursion modules; here it means that a    *)
(* child satisfies the constraints of the circuit its verifying key names.  *)
(*                                                                          *)
(* A digest is a sequence of numbers, a hash a prefix code of what it       *)
(* hashes: two digests are equal only if what they commit to is.            *)
(***************************************************************************)
EXTENDS Integers, Sequences, FiniteSets, SequencesExt

CONSTANTS
    LogMaxDepth,    \* LOG_MAX_RECURSION_DEPTH
    NodeBits        \* bits of the range check on node_idx

ASSUME InnerAssumption == LogMaxDepth \in Nat /\ NodeBits \in Nat

----------------------------------------------------------------------------
(* Digests *)

Zero == <<0>>

\* poseidon2_compress_with_capacity: the left and the right half of one permutation.
Compress(l, r) == <<1>> \o l \o r
Capacity(l, r) == <<3>> \o l \o r

\* poseidon2_hash_slice over whole digests: a sponge whose capacity carries over.
HashSlice(ds) ==
    Compress(Last(ds), FoldLeft(LAMBDA c, d : Capacity(d, c), Zero, Front(ds)))

Pad(d) == Compress(d, Zero)

----------------------------------------------------------------------------
(* Public values *)

UnsetCommit == [cached |-> Zero, pre |-> Zero]

BaseUnset == [iflag |-> 0, app |-> UnsetCommit, leaf |-> UnsetCommit,
              ifl |-> UnsetCommit, depth |-> 0, ir |-> UnsetCommit]

VmUnset == [program |-> Zero, ipc |-> 0, fpc |-> 0, exit |-> 0, term |-> 0,
            iroot |-> Zero, froot |-> Zero]

DefUnset == [init |-> Zero, fin |-> Zero, depth |-> 0, idx |-> 0]

\* The six digests that identify everything below the internal-recursive layer.
VkComponents(b) ==
    <<b.app.cached, b.app.pre, b.leaf.cached, b.leaf.pre, b.ifl.cached, b.ifl.pre>>

PvsUnset == [base |-> BaseUnset, dflag |-> 0, hook |-> Zero, vm |-> VmUnset, df |-> DefUnset]

\* Exit code of a segment that suspends (DEFAULT_SUSPEND_EXIT_CODE), and success.
SuspendExit == 42
Success == 0

----------------------------------------------------------------------------
(* Traces.  `proofs' are the children, `app' says that they come from the VM or *)
(* the hook circuit, and the witness w says how the generator lays them out:     *)
(*   flag      deferral_flag of app children          pvflag  the published one  *)
(*   vm        number of VM rows, vmflag their flag                              *)
(*   def       indices of the deferral rows, defflag their flag                  *)
(*   absent    <<>> or <<pvs of the absent sibling>>, right: it is on the left   *)
(*   vmUnset, defUnset   the children whose values must be unset                 *)

Pow2Above(n) == CHOOSE h \in {1, 2, 4, 8} : h >= n /\ (h = 1 \/ h \div 2 < n)

Witness(type, n, absent, right) ==
    LET all == [i \in 1..n |-> i - 1] IN
    CASE type = "Vm" ->
           [flag |-> 0, pvflag |-> 0, vm |-> n, vmflag |-> 0, def |-> <<>>, defflag |-> 0,
            absent |-> <<>>, right |-> FALSE, vmUnset |-> <<>>, defUnset |-> all]
      [] type = "Deferral" ->
           [flag |-> 1, pvflag |-> 1, vm |-> 0, vmflag |-> 1, def |-> all, defflag |-> 1,
            absent |-> absent, right |-> right, vmUnset |-> all, defUnset |-> <<>>]
      [] type = "Mix" ->
           [flag |-> 0, pvflag |-> 2, vm |-> 1, vmflag |-> 0, def |-> <<1>>, defflag |-> 1,
            absent |-> <<>>, right |-> FALSE, vmUnset |-> <<1>>, defUnset |-> <<0>>]
      [] type = "Combined" ->
           [flag |-> 0, pvflag |-> 2, vm |-> 1, vmflag |-> 2, def |-> <<0>>, defflag |-> 2,
            absent |-> <<>>, right |-> FALSE, vmUnset |-> <<>>, defUnset |-> <<>>]

VerifierRows(proofs, app, w) ==
    LET n == Len(proofs)
        trailing == IF app THEN w.flag ELSE Last(proofs).pvs.dflag
    IN  [i \in 1..Pow2Above(n) |->
          IF i > n
          THEN [idx |-> 0, valid |-> FALSE, has |-> FALSE, last |-> FALSE, rflag |-> 0,
                base |-> BaseUnset, dflag |-> trailing, hook |-> Zero]
          ELSE LET c == proofs[i].pvs IN
               [idx |-> i - 1, valid |-> TRUE, has |-> ~app, last |-> i = n,
                rflag |-> IF app THEN 0 ELSE IF c.base.depth > 2 THEN 2 ELSE c.base.depth,
                base |-> IF app THEN BaseUnset ELSE c.base,
                dflag |-> IF app THEN w.flag ELSE c.dflag,
                hook |-> IF app THEN Zero ELSE c.hook]]

VmRows(proofs, app, w) ==
    [i \in 1..Pow2Above(w.vm) |->
        IF i > w.vm
        THEN [idx |-> 0, valid |-> FALSE, last |-> FALSE, has |-> FALSE, pvs |-> VmUnset,
              dflag |-> IF i = 1 THEN w.vmflag ELSE 0]
        ELSE [idx |-> i - 1, valid |-> TRUE, last |-> i = w.vm, has |-> ~app,
              pvs |-> proofs[i].pvs.vm, dflag |-> w.vmflag]]

DefRows(proofs, app, w) ==
    IF w.def = <<>>
    THEN <<[row |-> 0, dflag |-> w.defflag, has |-> FALSE, idx |-> 0, present |-> FALSE,
            right |-> FALSE, pvs |-> DefUnset]>>
    ELSE [i \in 1..Len(w.def) |->
            [row |-> i - 1, dflag |-> w.defflag, has |-> ~app, idx |-> w.def[i],
             present |-> TRUE, right |-> w.right, pvs |-> proofs[w.def[i] + 1].pvs.df]]
         \o [i \in 1..Len(w.absent) |->
            [row |-> Len(w.def), dflag |-> w.defflag, has |-> ~app, idx |-> 0,
             present |-> FALSE, right |-> w.right, pvs |-> w.absent[i]]]

UnsetRows(idxs, app) ==
    LET n == IF app THEN 0 ELSE Len(idxs)
    IN  [i \in 1..Pow2Above(n) |->
            IF i <= n THEN [idx |-> idxs[i], valid |-> TRUE]
                      ELSE [idx |-> i - 1, valid |-> FALSE]]

\* What the verifier trace publishes: the first child's values with the child's own
\* commit filled in one layer up.
NextBase(first, app, childVk) ==
    CASE app -> [first EXCEPT !.app = childVk]
      [] ~app /\ first.iflag = 0 -> [first EXCEPT !.leaf = childVk, !.iflag = 1]
      [] ~app /\ first.iflag = 1 ->
           [first EXCEPT !.ifl = childVk, !.iflag = 2, !.depth = 1]
      [] OTHER ->
           [first EXCEPT !.ir = childVk, !.iflag = 2, !.depth = first.depth + 1]

NextHook(rows, n, base, w, enabled) ==
    CASE ~enabled -> Zero
      [] enabled /\ w.pvflag = 1 /\ base.iflag = 2 -> HashSlice(VkComponents(base))
      [] OTHER -> rows[n].hook

NextVm(rows, w) ==
    IF w.vm = 0 THEN VmUnset
    ELSE LET a == rows[1].pvs
             z == rows[w.vm].pvs
         IN  [z EXCEPT !.program = a.program, !.ipc = a.ipc, !.iroot = a.iroot]

NextDef(rows) ==
    LET a == rows[1].pvs
        b == rows[2].pvs
        join(x, y) == IF rows[1].right THEN Compress(y, x) ELSE Compress(x, y)
    IN  IF Len(rows) = 1 THEN a
        ELSE [init |-> join(a.init, b.init), fin |-> join(a.fin, b.fin),
              depth |-> a.depth + 1,
              idx |-> (a.idx - (IF rows[1].right THEN 1 ELSE 0)) \div 2]

\* generate_proving_ctx of the inner prover: all traces and the published values.
InnerTrace(proofs, app, childVk, w, enabled) ==
    LET v == VerifierRows(proofs, app, w)
        m == VmRows(proofs, app, w)
        d == DefRows(proofs, app, w)
        base == NextBase(v[1].base, app, childVk)
    IN  [proofs |-> proofs, enabled |-> enabled, verifier |-> v, vm |-> m, def |-> d,
         vmUnset |-> UnsetRows(IF enabled THEN w.vmUnset ELSE <<>>, app),
         defUnset |-> UnsetRows(IF enabled THEN w.defUnset ELSE <<>>, app),
         pvs |-> [base |-> base, dflag |-> IF enabled THEN w.pvflag ELSE 0,
                  hook |-> NextHook(v, Len(proofs), base, w, enabled),
                  vm |-> NextVm(m, w), df |-> IF enabled THEN NextDef(d) ELSE DefUnset]]

----------------------------------------------------------------------------
(* VerifierPvsAir.  local and next are the rows of a window; the last row's next *)
(* row is the first.                                                             *)

NextRow(rows, i) == rows[(i % Len(rows)) + 1]

VerifierShape(rows) ==
    /\ rows[1].valid /\ rows[1].idx = 0
    /\ \A i \in 1..Len(rows) :
         LET local == rows[i]  next == NextRow(rows, i) IN
         /\ i < Len(rows) /\ next.valid => local.valid /\ next.idx = local.idx + 1
         /\ local.has => local.valid

\* Children agree on what they say about the layers below them.
VerifierAgree(local, next, vkCond) ==
    /\ local.valid /\ next.valid =>
         /\ local.has = next.has /\ local.rflag = next.rflag
         /\ local.base.iflag = next.base.iflag /\ local.base.depth = next.base.depth
         /\ local.base.ir = next.base.ir
    /\ vkCond =>
         /\ local.base.app = next.base.app
         /\ local.base.leaf = next.base.leaf
         /\ local.base.ifl = next.base.ifl

\* A child's flags name its layer, and commits of layers above it are unset.
VerifierLevels(local) ==
    LET b == local.base IN
    /\ b.iflag \in 0..2 /\ local.rflag \in 0..2
    /\ local.rflag # 2 => b.depth = local.rflag
    /\ (local.rflag = 2) = (b.depth \notin {0, 1})
    /\ b.iflag # 2 => b.depth = 0
    /\ local.valid => b.depth \in 0..(2^LogMaxDepth - 1)
    /\ local.rflag # 0 => b.iflag = 2
    /\ local.rflag = 0 => b.iflag \in {0, 1}
    /\ ~local.has => b.iflag = 0 /\ b.app = UnsetCommit
    /\ b.iflag = 0 => b.leaf = UnsetCommit
    /\ b.iflag # 2 => b.ifl = UnsetCommit
    /\ local.rflag # 2 => b.ir = UnsetCommit

\* The cached trace of an internal child commits to the key the child verified.
CachedOf(local) ==
    CASE local.base.iflag = 0 -> local.base.app.cached
      [] local.base.iflag = 1 -> local.base.leaf.cached
      [] local.rflag = 1 -> local.base.ifl.cached
      [] OTHER -> local.base.ir.cached

\* Mutant of VerifierReceives: the child's cached commit is not received.
VerifierReceivesNoCached(local, proofs) ==
    local.valid /\ local.has => proofs[local.idx + 1].pvs.base = local.base

VerifierReceives(local, proofs) ==
    local.valid /\ local.has =>
        LET child == proofs[local.idx + 1] IN
        /\ child.pvs.base = local.base
        /\ child.cached = CachedOf(local)

\* The pre-hash of the children's key, in the slot of the children's layer.
PreHashOf(local, base) ==
    CASE base.iflag = 0 -> base.app.pre
      [] base.iflag = 1 -> base.leaf.pre
      [] local.base.iflag = 1 -> base.ifl.pre
      [] OTHER -> base.ir.pre

VerifierPublish(local, first, proofs, base) ==
    /\ local.valid /\ ~local.has => base.iflag = 0
    /\ local.valid /\ local.base.iflag = 0 => base.depth = 0
    /\ local.has /\ local.base.iflag # 2 => base.iflag = local.base.iflag + 1
    /\ first /\ local.has => base.app = local.base.app
    /\ local.base.iflag # 0 => base.iflag = 2 /\ base.depth = local.base.depth + 1
    /\ first /\ local.base.iflag # 0 => base.leaf = local.base.leaf
    /\ first /\ local.rflag # 0 => base.ifl = local.base.ifl
    /\ local.rflag = 2 => base.ir = local.base.ir
    /\ local.valid => proofs[local.idx + 1].vk.pre = PreHashOf(local, base)

\* eval_deferrals of the verifier AIR: at most one place where VM and deferral
\* children meet, a pair of exactly two proofs.
DeferralShape(rows) ==
    \A i \in 1..Len(rows) :
        LET local == rows[i]  next == NextRow(rows, i)
            delta == next.dflag - local.dflag
            transition == i < Len(rows)
        IN  /\ local.dflag \in 0..2
            /\ local.last => local.valid /\ (next.valid => next.idx = 0)
            /\ local.valid /\ ~local.last => next.valid
            /\ ~transition /\ local.valid => local.last
            /\ transition => delta \in {0, 1}
            /\ transition /\ local.dflag # 0 => delta = 0
            /\ transition /\ local.idx # 0 => delta = 0
            /\ local.dflag = 2 => local.last
            /\ transition /\ delta # 0 => next.last
            /\ delta # 0 => local.base.iflag = 2
            /\ local.dflag = 2 => local.base.iflag = 2
            /\ local.base.iflag # 2 => local.hook = Zero

DeferralPublish(rows, proofs, pvs) ==
    \A i \in 1..Len(rows) :
        LET local == rows[i]
            delta == NextRow(rows, i).dflag - local.dflag
        IN  /\ local.valid /\ local.has =>
                 LET child == proofs[local.idx + 1].pvs
                 IN  child.dflag = local.dflag /\ child.hook = local.hook
            /\ delta # 0 => pvs.dflag = 2
            /\ delta \notin {-1, 1} => pvs.dflag = local.dflag
            /\ local.rflag # 0 /\ local.dflag # 0 => pvs.hook = local.hook
            /\ local.base.iflag = 2 /\ local.dflag # 0 => pvs.hook = local.hook
            /\ pvs.base.iflag = 2 /\ pvs.dflag = 1 =>
                 pvs.hook = HashSlice(VkComponents(pvs.base))

VerifierEval(t) ==
    /\ VerifierShape(t.verifier)
    /\ \A i \in 1..Len(t.verifier) :
         LET local == t.verifier[i]
             next == NextRow(t.verifier, i)
             vkCond == IF t.enabled
                       THEN local.valid /\ ~local.last /\ next.dflag = local.dflag
                       ELSE local.valid /\ next.valid
         IN  /\ VerifierAgree(local, next, vkCond)
             /\ VerifierLevels(local)
             /\ VerifierReceives(local, t.proofs)
             /\ VerifierPublish(local, i = 1, t.proofs, t.pvs.base)
    /\ t.enabled => DeferralShape(t.verifier) /\ DeferralPublish(t.verifier, t.proofs, t.pvs)

----------------------------------------------------------------------------
(* VmPvsAir *)

VmShape(rows, enabled) ==
    /\ rows[1].idx = 0
    /\ rows[1].valid = (IF enabled THEN rows[1].dflag # 1 ELSE TRUE)
    /\ \A i \in 1..Len(rows) :
         LET local == rows[i]  next == NextRow(rows, i) IN
         /\ i < Len(rows) /\ next.valid => local.valid /\ next.idx = local.idx + 1
         /\ local.last => local.valid /\ (next.valid => next.idx = 0)
         /\ local.valid /\ ~local.last => next.valid
         /\ i = Len(rows) /\ local.valid => local.last
         /\ local.has => local.valid
         /\ local.valid /\ next.valid => local.has = next.has

\* Adjacent segments meet, and only the last one may terminate.
SegmentsAdjoin(local, next) ==
    /\ local.pvs.term \in {0, 1}
    /\ local.pvs.term = 1 => local.last /\ local.pvs.exit = Success
    /\ local.valid /\ local.pvs.term = 0 => local.pvs.exit = SuspendExit
    /\ local.valid /\ ~local.last =>
         local.pvs.fpc = next.pvs.ipc /\ local.pvs.froot = next.pvs.iroot

VmPublish(local, first, pvs) ==
    /\ first => local.pvs.ipc = pvs.ipc /\ local.pvs.iroot = pvs.iroot
    /\ local.last =>
         /\ local.pvs.fpc = pvs.fpc /\ local.pvs.exit = pvs.exit
         /\ local.pvs.term = pvs.term /\ local.pvs.froot = pvs.froot
    /\ local.valid => local.pvs.program = pvs.program

VmDeferrals(rows, pvs) ==
    \A i \in 1..Len(rows) :
        LET local == rows[i] IN
        /\ local.dflag \in 0..2 /\ local.dflag = NextRow(rows, i).dflag
        /\ local.dflag # 0 => local.idx = 0
        /\ local.dflag = 2 => local.valid /\ local.last
        /\ local.dflag = 1 => ~local.valid /\ pvs = VmUnset

VmEval(t) ==
    /\ VmShape(t.vm, t.enabled)
    /\ \A i \in 1..Len(t.vm) :
         /\ SegmentsAdjoin(t.vm[i], NextRow(t.vm, i))
         /\ VmPublish(t.vm[i], i = 1, t.pvs.vm)
    /\ t.enabled => VmDeferrals(t.vm, t.pvs.vm)

----------------------------------------------------------------------------
(* DeferralPvsAir: one row passes a child's accumulator subtree on, two rows join *)
(* two adjacent subtrees, the second possibly absent and untouched.               *)

DefShape(rows) ==
    \A i \in 1..Len(rows) :
        LET local == rows[i]  next == NextRow(rows, i)
            two == next.row # local.row
            count == (IF local.present THEN 1 ELSE 0) + (IF next.present THEN 1 ELSE 0)
        IN  /\ local.row \in {0, 1} /\ (i = 1 => local.row = 0)
            /\ i < Len(rows) => next.row = local.row + 1
            /\ i < Len(rows) /\ next.present => local.present
            /\ local.dflag \in 0..2 /\ local.dflag = next.dflag
            /\ local.dflag # 0 => count \in {1, 2}
            /\ i = 1 => local.idx \in {0, 1} /\ (local.idx = 1 => ~two)
            /\ local.has = next.has
            /\ local.right = next.right /\ (local.right => count = 1)
            /\ local.dflag # 1 => ~two
            /\ local.dflag = 0 => ~local.present /\ local.pvs = DefUnset
            /\ two /\ ~local.present => local.pvs.init = local.pvs.fin
            /\ two => local.pvs.depth = next.pvs.depth

DefPublish(rows, pvs) ==
    \A i \in 1..Len(rows) :
        LET local == rows[i]  next == NextRow(rows, i)
            a == IF local.right THEN next.pvs ELSE local.pvs
            b == IF local.right THEN local.pvs ELSE next.pvs
        IN  /\ next.row = local.row => local.pvs = pvs /\ pvs.idx = 0
            /\ next.row # local.row => pvs.depth = local.pvs.depth + 1
            /\ next.row = 1 =>
                 /\ pvs.init = Compress(a.init, b.init)
                 /\ pvs.fin = Compress(a.fin, b.fin)
                 /\ next.present => next.pvs.idx = local.pvs.idx + 1
                 /\ local.pvs.idx = 2 * pvs.idx + (IF local.right THEN 1 ELSE 0)
                 /\ pvs.idx \in 0..(2^NodeBits - 1)

\* A direct child from the hook circuit must have verified the expected key.
DefHookCached(rows, proofs, hookCached) ==
    \A r \in Range(rows) :
        r.present /\ ~r.has => proofs[r.idx + 1].cached = hookCached

DefEval(t, hookCached) ==
    DefShape(t.def) /\ DefPublish(t.def, t.pvs.df) /\ DefHookCached(t.def, t.proofs, hookCached)

UnsetEval(rows) ==
    \A i \in 1..(Len(rows) - 1) : rows[i + 1].idx = rows[i].idx + 1

----------------------------------------------------------------------------
(* The buses between the AIRs *)

\* Every public value of a child is received exactly once: by the row that uses it or
\* by the row that requires it to be unset.
PublicValuesBalance(t) ==
    \A k \in 1..Len(t.proofs) :
        LET child == t.proofs[k]
            vm  == {i \in 1..Len(t.vm) : t.vm[i].valid /\ t.vm[i].idx = k - 1}
            vmU == {i \in 1..Len(t.vmUnset) : t.vmUnset[i].valid /\ t.vmUnset[i].idx = k - 1}
            df  == {i \in 1..Len(t.def) : t.def[i].present /\ t.def[i].idx = k - 1}
            dfU == {i \in 1..Len(t.defUnset) : t.defUnset[i].valid /\ t.defUnset[i].idx = k - 1}
            hasVm == child.kind \in {"app", "inner"}
            hasDef == t.enabled /\ child.kind \in {"hook", "inner"}
        IN  /\ Cardinality(vm) + Cardinality(vmU) = IF hasVm THEN 1 ELSE 0
            /\ \A i \in vm : t.vm[i].pvs = child.pvs.vm
            /\ vmU # {} => child.pvs.vm = VmUnset
            /\ Cardinality(df) + Cardinality(dfU) = IF hasDef THEN 1 ELSE 0
            /\ \A i \in df : t.def[i].pvs = child.pvs.df
            /\ dfU # {} => child.pvs.df = DefUnset

\* The verifier row of a child offers its deferral flag and layer to as many lookups as
\* there are AIRs that read the child, and all of them are made.
ConsistencyBalance(t) ==
    \A k \in 1..Len(t.proofs) :
        LET v == t.verifier[k]
            vm  == {i \in 1..Len(t.vm) : t.vm[i].valid /\ t.vm[i].idx = k - 1}
            df  == {i \in 1..Len(t.def) : t.def[i].present /\ t.def[i].idx = k - 1}
            vmU == {i \in 1..Len(t.vmUnset) : t.vmUnset[i].valid /\ t.vmUnset[i].idx = k - 1}
            dfU == {i \in 1..Len(t.defUnset) : t.defUnset[i].valid /\ t.defUnset[i].idx = k - 1}
            unset == Cardinality(vmU) + Cardinality(dfU)
        IN  /\ \A i \in vm : t.vm[i].has = v.has /\ (t.enabled => t.vm[i].dflag = v.dflag)
            /\ t.enabled =>
                 /\ \A i \in df : t.def[i].has = v.has /\ t.def[i].dflag = v.dflag
                 /\ vmU # {} => v.has /\ v.dflag = 1
                 /\ dfU # {} => v.has /\ v.dflag = 0
                 /\ Cardinality(vm) + Cardinality(df) + unset = IF v.has THEN 2 ELSE 1
            /\ ~t.enabled => Cardinality(vm) = 1

\* The circuit: every AIR accepts and every bus balances.
InnerAccepts(t, hookCached) ==
    /\ ConsistencyBalance(t) /\ PublicValuesBalance(t)
    /\ VmEval(t)
    /\ t.enabled => DefEval(t, hookCached) /\ UnsetEval(t.vmUnset) /\ UnsetEval(t.defUnset)
    /\ VerifierEval(t)
=============================================================================
