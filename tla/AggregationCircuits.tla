------------------------ MODULE AggregationCircuits ------------------------
(***************************************************************************)
(* The circuits around the inner one (crates/continuations): the deferral   *)
(* inner circuit, which folds the proofs of one deferral circuit into a     *)
(* tagged Merkle tree of their input and output commits; the hook circuit,  *)
(* which opens that tree and hashes the commits into the two accumulators   *)
(* the guest kept in memory; the root circuit, which checks the last        *)
(* internal-recursive proof; and the native verifier (crates/verify), which *)
(* checks the same proof without a circuit.                                 *)
(***************************************************************************)
EXTENDS InnerCircuit

CONSTANT
    MaxMerkleDepth  \* MAX_DEF_AGG_MERKLE_DEPTH

ASSUME AggregationAssumption == MaxMerkleDepth \in Nat

----------------------------------------------------------------------------
(* The tagged tree over the input and output commits of deferral proofs *)

LeafTag == <<4>>
InternalTag == <<5>>

TaggedCompress(tag, l, r) == Compress(Compress(tag, l), r)

\* Root of an empty tree with `depth' levels of hashing.
DefZeroHash(depth) ==
    LET zero[d \in 0..depth] ==
          IF d = 0 THEN Zero
          ELSE TaggedCompress(IF d = 1 THEN LeafTag ELSE InternalTag, zero[d - 1], zero[d - 1])
    IN  zero[depth]

AggUnset == [merkle |-> Zero, num |-> 0, depth |-> 0, idx |-> 0]

\* fold_leaf_input_commit: a deferral proof's input commit with its cached commits.
FoldedInput(proof) == HashSlice(<<proof.pvs.input>> \o proof.cached)

----------------------------------------------------------------------------
(* Deferral inner circuit: traces.  childDepth is <<>> for a wrapper.      *)

AggRows(proofs, agg, childDepth) ==
    LET n == IF childDepth = <<>> THEN 1 ELSE 2 IN
    [i \in 1..n |->
        IF i > Len(proofs)
        THEN [row |-> i - 1, present |-> FALSE, has |-> agg, input |-> Zero, output |-> Zero,
              idx |-> 0, merkle |-> Zero, num |-> 0, depth |-> 0, zeroIdx |-> childDepth[1]]
        ELSE LET p == proofs[i].pvs IN
             IF agg
             THEN [row |-> i - 1, present |-> TRUE, has |-> TRUE, input |-> Zero,
                   output |-> Zero, idx |-> p.agg.idx, merkle |-> p.agg.merkle,
                   num |-> p.agg.num, depth |-> p.agg.depth, zeroIdx |-> 0]
             ELSE [row |-> i - 1, present |-> TRUE, has |-> FALSE,
                   input |-> FoldedInput(proofs[i]), output |-> p.output, idx |-> p.idx,
                   merkle |-> TaggedCompress(LeafTag, FoldedInput(proofs[i]), p.output),
                   num |-> 0, depth |-> 0, zeroIdx |-> 0]]

\* Proofs below a row, and the depth of its tree.
RowNum(r) == IF r.has THEN r.num ELSE IF r.present THEN 1 ELSE 0
RowDepth(r) == IF r.has THEN r.depth ELSE 0

\* Mutant of NextAgg: the padding is the empty tree of the children's depth, leaves unhashed.
NextAggShallowZero(rows, childDepth) ==
    LET a == rows[1]
        right == IF rows[2].present THEN rows[2].merkle ELSE DefZeroHash(childDepth[1])
    IN  IF childDepth = <<>>
        THEN [merkle |-> a.merkle, num |-> RowNum(a), depth |-> RowDepth(a), idx |-> a.idx]
        ELSE [merkle |-> TaggedCompress(InternalTag, a.merkle, right),
              num |-> RowNum(a) + RowNum(rows[2]), depth |-> RowDepth(a) + 1, idx |-> a.idx]

NextAgg(rows, childDepth) ==
    LET a == rows[1]
        right == IF rows[2].present THEN rows[2].merkle ELSE DefZeroHash(childDepth[1] + 1)
    IN  IF childDepth = <<>>
        THEN [merkle |-> a.merkle, num |-> RowNum(a), depth |-> RowDepth(a), idx |-> a.idx]
        ELSE [merkle |-> TaggedCompress(InternalTag, a.merkle, right),
              num |-> RowNum(a) + RowNum(rows[2]), depth |-> RowDepth(a) + 1, idx |-> a.idx]

\* The verifier rows are those of the inner circuit, without deferral columns.
DefVerifierRows(proofs, agg) ==
    [i \in 1..Pow2Above(Len(proofs)) |->
        LET c == proofs[i].pvs.base IN
        IF i > Len(proofs)
        THEN [idx |-> 0, valid |-> FALSE, has |-> FALSE, rflag |-> 0, base |-> BaseUnset]
        ELSE [idx |-> i - 1, valid |-> TRUE, has |-> agg,
              rflag |-> IF ~agg THEN 0 ELSE IF c.depth > 2 THEN 2 ELSE c.depth,
              base |-> IF agg THEN c ELSE BaseUnset]]

DefInnerTrace(proofs, agg, childVk, childDepth) ==
    LET v == DefVerifierRows(proofs, agg)
        r == AggRows(proofs, agg, childDepth)
    IN  [proofs |-> proofs, verifier |-> v, rows |-> r,
         pvs |-> [base |-> NextBase(v[1].base, ~agg, childVk), agg |-> NextAgg(r, childDepth)]]

----------------------------------------------------------------------------
(* Deferral inner circuit: AIRs *)

\* The values a row works on are the child's: the commit folded by InputCommitAir at the
\* leaf layer, the child's own tree elsewhere.
AggReceives(r, proofs) ==
    r.present =>
        LET c == proofs[r.row + 1] IN
        IF r.has
        THEN r.merkle = c.pvs.agg.merkle /\ r.num = c.pvs.agg.num
             /\ r.depth = c.pvs.agg.depth /\ r.idx = c.pvs.agg.idx
        ELSE r.input = FoldedInput(c) /\ r.output = c.pvs.output /\ r.idx = c.pvs.idx
             /\ r.merkle = TaggedCompress(LeafTag, r.input, r.output)

AggShape(rows) ==
    /\ rows[1].present /\ rows[1].row = 0 /\ Len(rows) \in {1, 2}
    /\ \A i \in 1..Len(rows) :
         LET local == rows[i]  next == NextRow(rows, i) IN
         /\ local.row \in {0, 1} /\ local.has = next.has
         /\ i < Len(rows) => next.row = local.row + 1
         /\ ~local.present /\ local.has => local.num = 0 /\ local.depth = 0

AggPublish(rows, agg) ==
    LET local == rows[1]
        next == NextRow(rows, 1)
        right == IF next.present THEN next.merkle ELSE DefZeroHash(next.zeroIdx + 1)
    IN  /\ Len(rows) = 1 => agg.num = RowNum(local) /\ agg.depth = RowDepth(local)
                            /\ agg.merkle = local.merkle
        /\ Len(rows) = 2 =>
             /\ agg.num = RowNum(local) + RowNum(next) /\ agg.depth = RowDepth(local) + 1
             /\ next.present => RowDepth(local) = RowDepth(next)
             /\ ~next.present => next.zeroIdx \in 0..MaxMerkleDepth /\ agg.depth = next.zeroIdx + 1
             /\ agg.merkle = TaggedCompress(InternalTag, local.merkle, right)
        /\ \A r \in Range(rows) : r.present => r.idx = agg.idx
        /\ MaxMerkleDepth - agg.depth \in 0..255

DefVerifierEval(t) ==
    /\ VerifierShape(t.verifier)
    /\ \A i \in 1..Len(t.verifier) :
         LET local == t.verifier[i]  next == NextRow(t.verifier, i) IN
         /\ VerifierAgree(local, next, local.valid /\ next.valid)
         /\ VerifierLevels(local)
         /\ VerifierReceives(local, t.proofs)
         /\ VerifierPublish(local, TRUE, t.proofs, t.pvs.base)

DefInnerAccepts(t) ==
    /\ AggShape(t.rows) /\ AggPublish(t.rows, t.pvs.agg)
    /\ \A r \in Range(t.rows) :
         r.present => r.row < Len(t.proofs) /\ t.verifier[r.row + 1].has = r.has
    /\ \A i \in 1..Len(t.proofs) : \E r \in Range(t.rows) : r.present /\ r.row = i - 1
    /\ \A r \in Range(t.rows) : AggReceives(r, t.proofs)
    /\ DefVerifierEval(t)

----------------------------------------------------------------------------
(* MerkleTreeSubAir: the leaves first, then each layer, then one idle row *)

TreeHash(tagged, tag, l, r) == IF tagged THEN TaggedCompress(tag, l, r) ELSE Compress(l, r)

\* generate_cols_from_leaf_children; leaves is a sequence of pairs.
MerkleRows(leaves, tagged) ==
    LET n == Len(leaves)
        row[i \in 1..(2 * n - 1)] ==
          LET j == 2 * (i - n) - 1
              left == IF i <= n THEN leaves[i][1] ELSE row[j].parent
              right == IF i <= n THEN leaves[i][2] ELSE row[j + 1].parent
          IN  [row |-> i - 1, send |-> IF i = 2 * n - 1 THEN 2 ELSE 1,
               receive |-> IF i <= n THEN 1 ELSE 2, right |-> (i - 1) % 2,
               l |-> left, r |-> right,
               parent |-> TreeHash(tagged, IF i <= n THEN LeafTag ELSE InternalTag, left, right)]
    IN  [i \in 1..(2 * n - 1) |-> row[i]]
        \o <<[row |-> 2 * n - 1, send |-> 0, receive |-> 0, right |-> 1, l |-> Zero, r |-> Zero,
              parent |-> Zero]>>

MerkleTreeAir(rows, numRows, tagged) ==
    LET n == Len(rows)
        sent == {<<(s.row - s.right + numRows) \div 2, s.right, s.parent>> :
                   s \in {x \in Range(rows) : x.send = 1}}
        received == UNION {{<<s.row, 0, s.l>>, <<s.row, 1, s.r>>} :
                             s \in {x \in Range(rows) : x.receive = 2}}
    IN  /\ rows[1].row = 0 /\ rows[n].row = numRows - 1
        /\ rows[1].right = 0 /\ rows[1].receive = 1 /\ rows[1].send \in {1, 2}
        /\ rows[n].send = 0 /\ rows[n].receive = 0
        /\ \A i \in 1..n :
             LET local == rows[i]  next == NextRow(rows, i) IN
             /\ local.right = 1 - next.right
             /\ i < n => next.row = local.row + 1 /\ local.send \in {1, 2} /\ local.receive \in {1, 2}
             /\ local.send # 2 => next.send \in {1, 2}
             /\ local.send = 2 => next.send = 0
             /\ local.receive = 2 => next.receive \in {0, 2}
             /\ local.send # 0 =>
                  local.parent = TreeHash(tagged, IF local.receive = 1 THEN LeafTag ELSE InternalTag,
                                          local.l, local.r)
        /\ sent = received

\* What the row with send_type 2 puts on the Merkle root bus.
TreeRoot(rows) == (CHOOSE r \in Range(rows) : r.send = 2).parent

----------------------------------------------------------------------------
(* Hook circuit *)

\* normalize_leaf_children
NormalizedLeaves(calls) ==
    [i \in 1..(CHOOSE h \in {1, 2, 4, 8, 16} : h >= Len(calls) /\ (h = 1 \/ h \div 2 < Len(calls))) |->
        IF i <= Len(calls) THEN calls[i] ELSE <<Zero, Zero>>]

Onion(start, commits) == FoldLeft(LAMBDA o, c : Compress(o, c), start, commits)

OnionRows(commit, sent) ==
    LET n == Len(sent) IN
    [i \in 1..(n + 1) |->
        [row |-> i - 1, valid |-> i <= n,
         inOnion |-> Onion(commit, [k \in 1..(i - 1) |-> sent[k][1]]),
         outOnion |-> Onion(Zero, [k \in 1..(i - 1) |-> sent[k][2]]),
         input |-> IF i <= n THEN sent[i][1] ELSE Zero,
         output |-> IF i <= n THEN sent[i][2] ELSE Zero]]

HookTrace(proof, calls) ==
    LET leaves == NormalizedLeaves(calls)
        commit == HashSlice(VkComponents(proof.pvs.base))
        onion == OnionRows(commit, calls)
        last == Last(onion)
    IN  [proof |-> proof, tree |-> MerkleRows(leaves, TRUE),
         send |-> [i \in 1..(2 * Len(leaves)) |-> i <= Len(calls)], onion |-> onion,
         commit |-> commit, inOnion |-> last.inOnion, outOnion |-> last.outOnion,
         pvs |-> [init |-> Compress(Pad(commit), Pad(Zero)),
                  fin |-> Compress(Pad(last.inOnion), Pad(last.outOnion)),
                  depth |-> 1, idx |-> proof.pvs.agg.idx]]

\* The commits are sent from a prefix of the leaves, and the other leaves are zero.
DecommitAir(t) ==
    LET n == Len(t.tree) IN
    /\ MerkleTreeAir(t.tree, n, TRUE)
    /\ t.send[1]
    /\ \A i \in 1..n :
         /\ i < n /\ t.send[i + 1] => t.send[i]
         /\ t.send[i] => t.tree[i].receive = 1
         /\ ~t.send[i] /\ t.tree[i].receive = 1 => t.tree[i].l = Zero /\ t.tree[i].r = Zero

OnionHashAir(rows, commit) ==
    /\ rows[1].valid /\ ~Last(rows).valid
    /\ rows[1].inOnion = commit /\ rows[1].outOnion = Zero
    /\ \A i \in 1..Len(rows) :
         /\ rows[i].row = i - 1
         /\ i < Len(rows) /\ rows[i + 1].valid => rows[i].valid
         /\ rows[i].valid => rows[i + 1].inOnion = Compress(rows[i].inOnion, rows[i].input)
                             /\ rows[i + 1].outOnion = Compress(rows[i].outOnion, rows[i].output)

\* Every commit sent is hashed, at its index.
IoCommitBalance(t) ==
    {<<i - 1, t.tree[i].l, t.tree[i].r>> : i \in {k \in 1..Len(t.tree) : t.send[k]}}
      = {<<r.row, r.input, r.output>> : r \in {x \in Range(t.onion) : x.valid}}

\* Mutant of RecursiveChild: a first internal-recursive proof may name an internal-recursive key.
RecursiveChildPreset(proof, irVk) ==
    LET b == proof.pvs.base IN
    /\ b.iflag = 2 /\ b.depth - 1 \in 0..(2^LogMaxDepth - 1)
    /\ proof.cached = IF b.depth = 1 THEN b.ifl.cached ELSE b.ir.cached
    /\ proof.vk.pre = irVk.pre
    /\ b.depth # 1 => b.ir = irVk

\* A proof of the internal-recursive layer whose key and cached trace are expected.
\* Shared by the hook and the root circuit.
RecursiveChild(proof, irVk) ==
    LET b == proof.pvs.base IN
    /\ b.iflag = 2 /\ b.depth - 1 \in 0..(2^LogMaxDepth - 1)
    /\ proof.cached = IF b.depth = 1 THEN b.ifl.cached ELSE b.ir.cached
    /\ proof.vk.pre = irVk.pre
    /\ b.ir = IF b.depth = 1 THEN UnsetCommit ELSE irVk

HookPvsAir(t, irVk) ==
    LET agg == t.proof.pvs.agg
        end == CHOOSE i \in 1..Len(t.onion) : ~t.onion[i].valid /\ t.onion[i - 1].valid
    IN  /\ RecursiveChild(t.proof, irVk)
        /\ t.commit = HashSlice(VkComponents(t.proof.pvs.base))
        /\ agg.depth \in 0..MaxMerkleDepth
        /\ agg.merkle = TreeRoot(t.tree) /\ 2 * 2^agg.depth = Len(t.tree)
        /\ t.inOnion = t.onion[end].inOnion /\ t.outOnion = t.onion[end].outOnion
        /\ agg.num = t.onion[end].row
        /\ t.pvs.depth = 1 /\ t.pvs.idx = agg.idx
        /\ t.pvs.init = Compress(Pad(t.commit), Pad(Zero))
        /\ t.pvs.fin = Compress(Pad(t.inOnion), Pad(t.outOnion))

HookAccepts(t, irVk) ==
    /\ DecommitAir(t) /\ OnionHashAir(t.onion, t.commit) /\ IoCommitBalance(t)
    /\ HookPvsAir(t, irVk)

----------------------------------------------------------------------------
(* Root circuit.  dims is [as, addr, pvs]: heights of the address space       *)
(* selector, of an address space and of the public values subtree.           *)

Overall(dims) == dims.as + dims.addr

\* label_to_index of block 0 of an address space (numbered from 1)
LabelIndex(dims, as) == (as - 1) * 2^dims.addr
PublicValuesAs == 3
DeferralAs == 4

Bit(x, i) == (x \div 2^i) % 2

ChildHash(right, node, sibling) ==
    IF right = 1 THEN Compress(sibling, node) ELSE Compress(node, sibling)

\* Rows of a Merkle path from `start' at level `skip'; `one' sets the lowest branch bit.
PathRows(start, siblings, bits, skip, one) ==
    LET n == Len(siblings) + 1
        right[i \in 1..n] ==
          IF i - 1 < skip THEN 0 ELSE IF one /\ i = 1 THEN 1 ELSE Bit(bits, i - 1)
        node[i \in 1..n] ==
          IF i - 1 < skip THEN Zero
          ELSE IF i - 1 = skip THEN start
          ELSE ChildHash(right[i - 1], node[i - 1], siblings[i - 1])
        branch[i \in 1..n] == right[i] * 2^(i - 1) + (IF i = 1 THEN 0 ELSE branch[i - 1])
    IN  [i \in 1..n |->
          [right |-> right[i], node |-> node[i], branch |-> branch[i], skip |-> i - 1 < skip,
           sib |-> IF i < n THEN siblings[i] ELSE Zero]]

MerklePathAir(rows, expectedLen, expectedBits) ==
    LET n == Len(rows) IN
    /\ n = expectedLen + 1
    /\ rows[1].branch = rows[1].right
    /\ rows[n].branch = expectedBits /\ rows[n].right = 0
    /\ \A i \in 1..n :
         /\ rows[i].right \in {0, 1}
         /\ rows[i].skip => rows[i].right = 0 /\ rows[i].branch = 0
         /\ i < n =>
              /\ rows[i + 1].branch = rows[i].branch + rows[i + 1].right * 2^i
              /\ rows[i + 1].skip => rows[i].skip
              /\ ~rows[i].skip =>
                   rows[i + 1].node = ChildHash(rows[i].right, rows[i].node, rows[i].sib)

\* UserPvsCommitAir: the tree over the published user values.
UserPvsCommitAir(tree, userPvs) ==
    /\ MerkleTreeAir(tree, 2 * Len(userPvs), FALSE)
    /\ \A i \in 1..Len(tree) : tree[i].receive = 1 =>
         tree[i].l = userPvs[tree[i].row + 1] /\ tree[i].r = Zero

UserPvsInMemoryAir(path, tree, dims, finalRoot) ==
    /\ MerklePathAir(path, Overall(dims) - dims.pvs,
                     LabelIndex(dims, PublicValuesAs) \div 2^dims.pvs)
    /\ path[1].node = TreeRoot(tree)
    /\ Last(path).node = finalRoot

\* DeferralAccMerklePathsAir: where the accumulators enter the two memory trees.  With no
\* deferrals the path starts at the untouched second leaf.
DefPathsAir(a, z, unset, df, dims, vm) ==
    LET start == {i \in 1..(Len(a) - 1) : a[i].skip /\ ~a[i + 1].skip}
        bits == LabelIndex(dims, DeferralAs) + (IF unset THEN 1 ELSE 0)
    IN  /\ MerklePathAir(a, Overall(dims), bits) /\ MerklePathAir(z, Overall(dims), bits)
        /\ \A i \in 1..Len(a) : a[i].skip = z[i].skip /\ a[i].right = z[i].right
        /\ unset => a[1].right = 1 /\ start = {} /\ a[1].node = Pad(Zero)
                    /\ df.init = Zero /\ df.fin = Zero /\ df.depth = 0
        /\ ~unset => \E i \in start : /\ df.depth = i /\ i <= dims.addr
                                      /\ df.init = a[i + 1].node /\ df.fin = z[i + 1].node
        /\ \A i \in 1..dims.addr :
             a[i].sib = z[i].sib /\ (unset => a[i].node = z[i].node)
        /\ Last(a).node = vm.iroot /\ Last(z).node = vm.froot

ExeCommit(vm) == Compress(Compress(Pad(vm.program), Pad(vm.iroot)), Pad(<<vm.ipc>>))

RootVerifierAir(t, irVk) ==
    LET pvs == t.proof.pvs IN
    /\ pvs.vm.exit = Success /\ pvs.vm.term = 1
    /\ RecursiveChild(t.proof, irVk)
    /\ t.appVm = HashSlice(VkComponents(pvs.base))
    /\ t.appExe = ExeCommit(pvs.vm)

\* eval_deferrals of the root verifier AIR
RootDeferrals(pvs, hookCommit) ==
    /\ pvs.dflag \in {0, 2}
    /\ pvs.dflag # 0 => pvs.hook = hookCommit
    /\ pvs.dflag # 2 => pvs.df.depth = 0 /\ pvs.df.init = Zero /\ pvs.df.fin = Zero
                        /\ pvs.hook = Zero
    /\ pvs.df.idx = 0

\* The root prover's traces from a proof, the user public values with their Merkle proof
\* and the two deferral Merkle proofs (<<>> when deferrals are disabled).
RootTrace(proof, userPvs, userProof, defProofs, dims) ==
    LET tree == MerkleRows([i \in 1..Len(userPvs) |-> <<userPvs[i], Zero>>], FALSE)
        df == proof.pvs.df
        unset == df.depth = 0
        bits == LabelIndex(dims, DeferralAs)
        path(acc, sibs) == PathRows(IF unset THEN Pad(acc) ELSE acc, sibs, bits, df.depth, unset)
    IN  [proof |-> proof, tree |-> tree, userPvs |-> userPvs,
         user |-> PathRows(TreeRoot(tree), userProof,
                           LabelIndex(dims, PublicValuesAs) \div 2^dims.pvs, 0, FALSE),
         initial |-> IF defProofs = <<>> THEN <<>> ELSE path(df.init, defProofs[1]),
         final |-> IF defProofs = <<>> THEN <<>> ELSE path(df.fin, defProofs[2]),
         appVm |-> HashSlice(VkComponents(proof.pvs.base)), appExe |-> ExeCommit(proof.pvs.vm)]

RootAccepts(t, irVk, hookCommit, enabled, dims) ==
    /\ RootVerifierAir(t, irVk)
    /\ UserPvsCommitAir(t.tree, t.userPvs)
    /\ UserPvsInMemoryAir(t.user, t.tree, dims, t.proof.pvs.vm.froot)
    /\ enabled =>
         /\ RootDeferrals(t.proof.pvs, hookCommit)
         /\ DefPathsAir(t.initial, t.final, t.proof.pvs.dflag = 0, t.proof.pvs.df, dims,
                        t.proof.pvs.vm)

----------------------------------------------------------------------------
(* Native verifier.  base is the baseline: appExe, app, leaf, ifl, ir, hook.  *)

\* merkle_path_root
MerklePathRoot(leaf, siblings, idx, depth) ==
    LET node[i \in depth..Len(siblings)] ==
          IF i = depth THEN leaf
          ELSE LET right == IF depth = 0 /\ i = 1 THEN 1 ELSE Bit(idx, i - 1)
               IN  ChildHash(right, node[i - 1], siblings[i])
    IN  node[Len(siblings)]

\* DeferralMerkleProofs::verify
DeferralProofsVerify(defProofs, dims, vm, df) ==
    LET unset == df.depth = 0
        leaf(acc) == IF unset THEN Pad(acc) ELSE acc
        idx == LabelIndex(dims, DeferralAs)
    IN  /\ Len(defProofs[1]) = Overall(dims) /\ Len(defProofs[2]) = Overall(dims)
        /\ df.depth <= dims.addr
        /\ \A i \in 1..dims.addr : defProofs[1][i] = defProofs[2][i]
        /\ MerklePathRoot(leaf(df.init), defProofs[1], idx, df.depth) = vm.iroot
        /\ MerklePathRoot(leaf(df.fin), defProofs[2], idx, df.depth) = vm.froot

\* UserPublicValuesProof::verify, as the tree and path it recomputes.
UserPvsVerify(userPvs, userProof, dims, froot) ==
    LET tree == MerkleRows([i \in 1..Len(userPvs) |-> <<userPvs[i], Zero>>], FALSE)
        path == PathRows(TreeRoot(tree), userProof,
                         LabelIndex(dims, PublicValuesAs) \div 2^dims.pvs, 0, FALSE)
    IN  Len(userProof) = Overall(dims) - dims.pvs /\ Last(path).node = froot

NativeDeferrals(pvs, defProofs, base, dims) ==
    /\ CASE pvs.dflag = 0 -> pvs.hook = Zero /\ pvs.df.init = Zero /\ pvs.df.fin = Zero
                             /\ pvs.df.depth = 0
         [] pvs.dflag = 2 -> pvs.hook = base.hook
         [] OTHER -> FALSE
    /\ pvs.df.idx = 0
    /\ defProofs # <<>> /\ DeferralProofsVerify(defProofs, dims, pvs.vm, pvs.df)

\* verify_vm_stark_proof_pvs
NativeAccepts(proof, userPvs, userProof, defProofs, base, enabled, dims) ==
    LET pvs == proof.pvs
        b == pvs.base
    IN  /\ UserPvsVerify(userPvs, userProof, dims, pvs.vm.froot)
        /\ Len(userPvs) = 2^dims.pvs
        /\ ExeCommit(pvs.vm) = base.appExe
        /\ pvs.vm.exit = Success /\ pvs.vm.term = 1
        /\ b.iflag = 2
        /\ b.app = base.app /\ b.leaf = base.leaf /\ b.ifl = base.ifl
        /\ b.depth \in 1..2^LogMaxDepth
        /\ b.ir = IF b.depth = 1 THEN UnsetCommit ELSE base.ir
        /\ proof.cached = IF b.depth = 1 THEN base.ifl.cached ELSE base.ir.cached
        /\ IF enabled THEN NativeDeferrals(pvs, defProofs, base, dims) ELSE defProofs = <<>>
=============================================================================
