---------------------------- MODULE MemoryMerkle ----------------------------
(***************************************************************************)
(* The Merkle commitment to memory, from segment to segment.               *)
(*                                                                         *)
(* A segment starts from a memory image and touches some leaves.  The      *)
(* Merkle chip builds the tree of the image, hashes the touched leaves     *)
(* upwards, records two rows (old and new) per parent on the way, and      *)
(* publishes both roots.  The rows must satisfy the Merkle AIR and cancel  *)
(* the leaf messages of the boundary chip on the Merkle bus.  After the    *)
(* last segment the public values are opened against the final root.       *)
(***************************************************************************)
EXTENDS Integers, SequencesExt, FiniteSetsExt

CONSTANTS
    addr_space_height, address_height,
    PAGE_BITS,          \* leaves of a metered page
    HOST_PAGE_BITS,     \* leaves of a host page, for from_memory
    num_pv_bits,        \* log2 of the chunks of public values
    ChunkValues, Zero,       \* contents of a chunk
    Images,             \* memories a program may start with
    Touchable,          \* labels the program touches
    RegisterLabel,      \* a label of the register file
    MaxTouches, MaxSegments

ADDR_SPACE_OFFSET == 1
PUBLIC_VALUES_AS == 3
Height == addr_space_height + address_height
AddressSpaces == ADDR_SPACE_OFFSET..(2^addr_space_height - 1 + ADDR_SPACE_OFFSET)
Labels == AddressSpaces \X (0..2^address_height - 1)

ASSUME MerkleAssumption ==
    /\ addr_space_height \in Nat \ {0} /\ address_height \in Nat \ {0}
    /\ PUBLIC_VALUES_AS \in AddressSpaces
    /\ num_pv_bits \in 0..address_height
    /\ PAGE_BITS \in 0..Height /\ HOST_PAGE_BITS \in Nat
    /\ Images \subseteq [Labels -> ChunkValues]
    /\ Touchable \subseteq Labels /\ RegisterLabel \in Labels
    \* The address space of public values has no other cells.
    /\ \A l \in Touchable : l[1] = PUBLIC_VALUES_AS => l[2] < 2^num_pv_bits
    /\ \A m \in Images : \A l \in Labels :
         l[1] = PUBLIC_VALUES_AS /\ ~(l[2] < 2^num_pv_bits) => m[l] = Zero

VARIABLES
    start, memory,      \* at the start of the segment, and now
    touched,
    segment,            \* number of finalized segments
    chain,              \* final root of the segment before
    final               \* the last segment's FinalState and top tree, or None

merkleVars == <<start, memory, touched, segment, chain, final>>
None == [rows |-> <<>>]

-----------------------------------------------------------------------------
(* Dimensions and hashes.  Hashes are terms: equal only for equal inputs.  *)

LabelToIndex(l) == (l[1] - ADDR_SPACE_OFFSET) * 2^address_height + l[2]

Hash(v) == [chunk |-> v]
Compress(l, r) == [left |-> l, right |-> r]

ZeroNodes[h \in 0..Height] ==
    IF h = 0 THEN Hash(Zero) ELSE Compress(ZeroNodes[h - 1], ZeroNodes[h - 1])

ILog2(i) == CHOOSE k \in 0..Height : 2^k <= i /\ i < 2^(k + 1)

-----------------------------------------------------------------------------
(* MerkleTree: a partial map from node indices; the root is node 1.        *)

GetNode(nodes, i) ==
    IF i \in DOMAIN nodes THEN nodes[i] ELSE ZeroNodes[Height - ILog2(i)]

\* A child is the one just computed, or the tree's if it was not touched.
NewNode(nodes, layer, i) ==
    IF i \in DOMAIN layer THEN layer[i] ELSE GetNode(nodes, i)

Parents(S) == {i \div 2 : i \in S}

LayerAbove(nodes, below) ==
    [i \in Parents(DOMAIN below) |->
       Compress(NewNode(nodes, below, 2 * i), NewNode(nodes, below, 2 * i + 1))]

Layers(nodes, leaves) ==
    LET L[h \in 0..Height] == IF h = 0 THEN leaves ELSE LayerAbove(nodes, L[h - 1])
    IN L

\* The layers are stored only after all of them are computed.
Extend(nodes, L) ==
    [i \in DOMAIN nodes \cup UNION {DOMAIN L[h] : h \in 0..Height} |->
       LET h == Height - ILog2(i) IN
       IF i \in DOMAIN L[h] THEN L[h][i] ELSE nodes[i]]

\* Mutant of Partition: the last non-zero host page is cut off.
PartitionShort(mem) ==
    {l \in Labels :
       \E k \in Labels :
          k[1] = l[1] /\ mem[k] # Zero
          /\ l[2] \div 2^HOST_PAGE_BITS < k[2] \div 2^HOST_PAGE_BITS}

\* Each address space up to its last host page with a non-zero byte.
Partition(mem) ==
    {l \in Labels :
       \E k \in Labels :
          k[1] = l[1] /\ mem[k] # Zero
          /\ l[2] \div 2^HOST_PAGE_BITS <= k[2] \div 2^HOST_PAGE_BITS}

LeafIndex(l) == 2^Height + LabelToIndex(l)

\* The leaf that stands at node index i.
LabelAt(i) == CHOOSE l \in Labels : LeafIndex(l) = i

Leaves(mem, ls) == [i \in {LeafIndex(l) : l \in ls} |-> Hash(mem[LabelAt(i)])]

Empty == [i \in {} |-> Hash(Zero)]
FromMemory(mem) == Extend(Empty, Layers(Empty, Leaves(mem, Partition(mem))))

-----------------------------------------------------------------------------
(* The rows of the Merkle chip.                                            *)

\* Mutant of ChangedBelow: an untouched child is treated as touched.
AllChangedBelow(layer, i) == TRUE

ChangedBelow(layer, i) == i \in DOMAIN layer

\* Rows for parent i at height h: the initial tree's and the final tree's.
RowPair(nodes, L, h, i) ==
    LET section == 2^(IF address_height > h THEN address_height - h ELSE 0)
        common == [height_section |-> IF h > address_height THEN 1 ELSE 0,
                   parent_height |-> h,
                   is_root |-> IF h = Height THEN 1 ELSE 0,
                   parent_as_label |-> (i - 2^(Height - h)) \div section,
                   parent_address_label |-> i % section]
        row(dir, parent, left, right, ldiff, rdiff) ==
            [common |-> common, expand_direction |-> dir, parent_hash |-> parent,
             left_child_hash |-> left, right_child_hash |-> right,
             left_direction_different |-> ldiff, right_direction_different |-> rdiff]
        different(j) == IF ChangedBelow(L[h - 1], j) THEN 0 ELSE 1
    IN <<row(1, GetNode(nodes, i), GetNode(nodes, 2 * i), GetNode(nodes, 2 * i + 1), 0, 0),
         row(-1, L[h][i], NewNode(nodes, L[h - 1], 2 * i), NewNode(nodes, L[h - 1], 2 * i + 1),
             different(2 * i), different(2 * i + 1))>>

\* The parents with rows, as <<height, index>>: layer after layer from below,
\* each layer in the order of its indices.
RowNodes(L) == UNION {{h} \X DOMAIN L[h] : h \in 1..Height}
Precedes(m, n) == m[1] < n[1] \/ (m[1] = n[1] /\ m[2] < n[2])
Rank(S, n) == Cardinality({m \in S : Precedes(m, n)})
InOrder(S) == [r \in 0..Cardinality(S) - 1 |-> CHOOSE n \in S : Rank(S, n) = r]

Rows(nodes, L) ==
    LET order == InOrder(RowNodes(L))
    IN [k \in 1..2 * Cardinality(RowNodes(L)) |->
           LET n == order[(k - 1) \div 2] IN RowPair(nodes, L, n[1], n[2])[1 + ((k - 1) % 2)]]

\* Nothing was touched: leaf 0 stands in, and its row says no child changed.
MarkArtificial(rows) ==
    [rows EXCEPT ![2].left_direction_different = 1, ![2].right_direction_different = 1]

\* Trace order: the roots first, the initial one before the final one.
SwapFirst(rows) == [rows EXCEPT ![1] = rows[2], ![2] = rows[1]]
TraceRows(rows) == SwapFirst(Reverse(rows))

TopTree(nodes) == [k \in 1..2^(addr_space_height + 1) - 1 |-> GetNode(nodes, k)]

FinalizeTree(nodes, mem, ls) ==
    LET L == Layers(nodes, IF ls # {} THEN Leaves(mem, ls)
                           ELSE [i \in {2^Height} |-> GetNode(nodes, i)])
        after == Extend(nodes, L)
        rows == Rows(nodes, L)
    IN [rows |-> TraceRows(IF ls # {} THEN rows ELSE MarkArtificial(rows)),
        init_root |-> GetNode(nodes, 1),
        final_root |-> GetNode(after, 1),
        top_tree |-> TopTree(after)]

-----------------------------------------------------------------------------
(* Segments.                                                               *)

MerkleInit ==
    /\ start \in Images
    /\ memory = start
    /\ touched = {}
    /\ segment = 0
    /\ chain = GetNode(FromMemory(start), 1)
    /\ final = None

\* A read or a write of a chunk: v may be what it held.
Touch(l, v) ==
    /\ segment < MaxSegments
    /\ Cardinality(touched) < MaxTouches
    /\ final = None
    /\ l \notin touched
    /\ touched' = touched \cup {l}
    /\ memory' = [memory EXCEPT ![l] = v]
    /\ UNCHANGED <<start, segment, chain, final>>

\* MemoryMerkleChip::finalize.
MerkleFinalize ==
    /\ final = None
    /\ segment < MaxSegments
    /\ final' = FinalizeTree(FromMemory(start), memory, touched)
    /\ segment' = segment + 1
    /\ UNCHANGED <<start, memory, touched, chain>>

\* The next segment starts from the memory the last one left.
NextSegment ==
    /\ final # None
    /\ segment < MaxSegments
    /\ start' = memory
    /\ chain' = final.final_root
    /\ touched' = {}
    /\ final' = None
    /\ UNCHANGED <<memory, segment>>

MerkleDone == segment = MaxSegments /\ final # None /\ UNCHANGED merkleVars

MerkleNext ==
    \/ \E l \in Touchable, v \in ChunkValues : Touch(l, v)
    \/ MerkleFinalize
    \/ NextSegment
    \/ MerkleDone

MerkleSpec == MerkleInit /\ [][MerkleNext]_merkleVars

-----------------------------------------------------------------------------
(* The public values proof.                                                *)

extract_public_values(mem) == [k \in 0..2^num_pv_bits - 1 |-> mem[<<PUBLIC_VALUES_AS, k>>]]
PvHash(values) == [k \in 0..2^num_pv_bits - 1 |-> Hash(values[k])]

\* hasher.merkle_root over the chunks of public values, layer by layer.
PvLayers(leaves) ==
    LET R[h \in 0..num_pv_bits] ==
          IF h = 0 THEN leaves
          ELSE [k \in 0..2^(num_pv_bits - h) - 1 |-> Compress(R[h - 1][2 * k], R[h - 1][2 * k + 1])]
    IN R

MerkleRoot(leaves) == PvLayers(leaves)[num_pv_bits][0]

\* Bit k of the public values' address space, from the top.
PvBit(k) == ((PUBLIC_VALUES_AS - ADDR_SPACE_OFFSET) \div 2^(addr_space_height - k)) % 2

\* The node of the top tree reached after k steps from the root.
PvNode(k) == 2^k + (PUBLIC_VALUES_AS - ADDR_SPACE_OFFSET) \div 2^(addr_space_height - k)

\* Mutant of PvSibling: the wrong neighbour is taken.
PvSelf(k) == PvNode(k)

PvSibling(k) == IF PvBit(k) = 1 THEN PvNode(k) - 1 ELSE PvNode(k) + 1

\* Siblings from the public values' subtree up to the root.
PvProof(top_tree) ==
    [k \in 1..address_height - num_pv_bits |-> ZeroNodes[num_pv_bits + k - 1]]
    \o Reverse([k \in 1..addr_space_height |-> top_tree[PvSibling(k)]])

PvCompute(top_tree, mem) ==
    [proof |-> PvProof(top_tree),
     public_values |-> extract_public_values(mem),
     public_values_commit |-> MerkleRoot(PvHash(extract_public_values(mem)))]

\* Where the subtree of the public values stands among those of its height.
PvPrefix == LabelToIndex(<<PUBLIC_VALUES_AS, 0>>) \div 2^num_pv_bits

\* The hashes on the way from the commitment to the root.
PvPath(proof, commit) ==
    LET path[k \in 0..Len(proof)] ==
          IF k = 0 THEN commit
          ELSE IF (PvPrefix \div 2^(k - 1)) % 2 = 1
               THEN Compress(proof[k], path[k - 1]) ELSE Compress(path[k - 1], proof[k])
    IN path

\* The lengths are right, the commitment opens at the root, and it is that of the values.
PvVerify(pv, root) ==
    /\ DOMAIN pv.public_values = 0..2^num_pv_bits - 1
    /\ Len(pv.proof) = Height - num_pv_bits
    /\ PvPath(pv.proof, pv.public_values_commit)[Len(pv.proof)] = root
    /\ MerkleRoot(PvHash(pv.public_values)) = pv.public_values_commit

-----------------------------------------------------------------------------
(* The metered estimate of the rows of the memory chips.                   *)

\* Pages of the touched chunks and of the registers.
MeteredPages ==
    {LabelToIndex(l) \div 2^PAGE_BITS : l \in touched \cup {RegisterLabel}}

\* Mutant of NodesPerPage: the path from the page to the root is forgotten.
NodesInPage == 2^PAGE_BITS - 1

\* The inner nodes of a page's subtree and those above it.
NodesPerPage == (2^PAGE_BITS - 1) + (Height - PAGE_BITS)

-----------------------------------------------------------------------------
(* The Merkle AIR.                                                         *)

Padded(rows) ==
    LET n == CHOOSE k \in 0..Len(rows) :
               2^k >= Len(rows) /\ (k = 0 \/ 2^(k - 1) < Len(rows))
        blank == [common |-> [height_section |-> 0, parent_height |-> 0, is_root |-> 0,
                              parent_as_label |-> 0, parent_address_label |-> 0],
                  expand_direction |-> 0,
                  left_direction_different |-> 0, right_direction_different |-> 0]
    IN rows \o [k \in 1..2^n - Len(rows) |-> blank]

Bool == {0, 1}

RowConstraints(r) ==
    /\ r.expand_direction \in {-1, 0, 1}
    /\ r.left_direction_different \in Bool /\ r.right_direction_different \in Bool
    /\ r.expand_direction # -1 => r.left_direction_different = 0 /\ r.right_direction_different = 0
    /\ r.common.is_root = 1 => /\ r.common.parent_address_label = 0
                               /\ r.common.parent_as_label = 0
                               /\ r.common.parent_height = Height
    /\ r.expand_direction # 0 =>
         /\ r.common.parent_height # 0
         \* the compression bus
         /\ r.parent_hash = Compress(r.left_child_hash, r.right_child_hash)

TransitionConstraints(r, n) ==
    /\ r.parent_height - n.parent_height \in Bool
    /\ r.height_section - n.height_section \in Bool
    /\ r.is_root - n.is_root \in Bool
    /\ r.parent_height # address_height + 1 => r.height_section = n.height_section
    /\ n.parent_height # address_height => r.height_section = n.height_section

Eval(t, init_root, final_root) ==
    /\ \A k \in 1..Len(t) : RowConstraints(t[k])
    /\ \A k \in 1..Len(t) - 1 : TransitionConstraints(t[k].common, t[k + 1].common)
    /\ \A k \in 1..Len(t) :
         LET n == t[IF k = Len(t) THEN 1 ELSE k + 1] IN
         t[k].common.is_root = 1 /\ n.common.is_root = 1
           => t[k].expand_direction - n.expand_direction = 2
    /\ t[1].common.height_section = 1 /\ t[1].common.is_root = 1 /\ t[2].common.is_root = 1
    /\ t[Len(t)].common.height_section = 0 /\ t[Len(t)].common.is_root = 0
    /\ t[1].parent_hash = init_root /\ t[2].parent_hash = final_root

\* The three interactions of a row with the Merkle bus: <<message, count>>.
Interactions(r) ==
    LET c == r.common
        s == c.height_section
        d == r.expand_direction
    IN {<<1, <<d, c.parent_height, c.parent_as_label, c.parent_address_label, r.parent_hash>>,
          (1 - c.is_root) * d>>,
        <<2, <<d + 2 * r.left_direction_different, c.parent_height - 1,
               c.parent_as_label * (1 + s), c.parent_address_label * (2 - s),
               r.left_child_hash>>, -d>>,
        <<3, <<d + 2 * r.right_direction_different, c.parent_height - 1,
               c.parent_as_label * (1 + s) + s, c.parent_address_label * (2 - s) + (1 - s),
               r.right_child_hash>>, -d>>}

\* The boundary chip's leaf messages for the touched chunks.
LeafInteractions ==
    {<<l, <<1, 0, l[1] - ADDR_SPACE_OFFSET, l[2], Hash(start[l])>>, 1>> : l \in touched}
    \cup
    {<<l, <<-1, 0, l[1] - ADDR_SPACE_OFFSET, l[2], Hash(memory[l])>>, -1>> : l \in touched}

\* All interactions with the Merkle bus, with the row each belongs to.
RowEvents(rows) == UNION {{<<k, x>> : x \in Interactions(rows[k])} : k \in 1..Len(rows)}
LeafEvents == {<<0, x>> : x \in LeafInteractions}
AllEvents(rows) == RowEvents(rows) \cup LeafEvents
EventsOf(all, m, c) == {e \in all : e[2][2] = m /\ e[2][3] = c}

\* Counts are -1, 0 or 1, so a message cancels when as many interactions send
\* it as receive it.
BusBalanced(rows) ==
    LET all == AllEvents(rows) IN
    \A e \in all : Cardinality(EventsOf(all, e[2][2], 1)) = Cardinality(EventsOf(all, e[2][2], -1))

-----------------------------------------------------------------------------
(* Properties.                                                             *)

\* The tree of a memory, from its definition: all leaves, and all layers over them.
ReferenceTree(mem) ==
    LET T[h \in 0..Height] ==
          IF h = 0 THEN [k \in 0..2^Height - 1 |-> Hash(mem[LabelAt(2^Height + k)])]
          ELSE [k \in 0..2^(Height - h) - 1 |-> Compress(T[h - 1][2 * k], T[h - 1][2 * k + 1])]
    IN T

ReferenceRoot(mem) == ReferenceTree(mem)[Height][0]

\* The incremental update of the sparse tree yields the root of the whole
\* final memory, whichever leaves were touched and however sparse the image.
RootCommitsMemory == final # None => final.final_root = ReferenceRoot(memory)

\* A segment's initial root, rebuilt from the memory image, is the final root
\* of the segment before it.
RootsChain == final # None => final.init_root = chain

\* The roots a segment publishes commit to its memory, and chain (MerkleTree).
RootsCommit == RootCommitsMemory /\ RootsChain

\* The rows satisfy every constraint of the Merkle AIR and the Merkle bus
\* balances against the boundary rows, also when nothing was touched.
RowsAccepted ==
    final # None =>
        /\ Eval(Padded(final.rows), final.init_root, final.final_root)
        /\ BusBalanced(final.rows)

\* The metered estimate is an upper bound of the rows the memory chips need:
\* segmentation keeps the estimate within the limits, so the traces are
\* within them too and generate_proving_ctx does not reject the segment.
EstimateCovers ==
    final # None =>
        LET pages == Cardinality(MeteredPages) IN
        /\ 2 * Cardinality(touched) <= 2 * 2^PAGE_BITS * pages
        /\ Len(final.rows) <= 2 * NodesPerPage * pages

\* The proof computed from the last segment's top tree opens the public
\* values against the final root.
PublicValuesVerify ==
    final # None => PvVerify(PvCompute(final.top_tree, memory), final.final_root)
=============================================================================
