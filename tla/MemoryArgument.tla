--------------------------- MODULE MemoryArgument ---------------------------
(***************************************************************************)
(* What the memory constraints of a segment proof imply.                   *)
(*                                                                         *)
(* OfflineMemory shows that the rows the VM fills in satisfy the           *)
(* constraints.  Here the rows are whatever satisfies them: every access   *)
(* row may claim any previous value and any earlier time, every boundary   *)
(* row any value.  If the memory bus then balances, the accesses must have *)
(* behaved like a memory.                                                  *)
(*                                                                         *)
(* Two facts come from other parts of the system: the t-th access has time *)
(* t (the execution bus chains the timestamps of instructions), and a      *)
(* chunk has at most one initial and one final row (the Merkle AIR expands *)
(* every node of a tree once).  A chunk is a leaf of the memory tree.      *)
(***************************************************************************)
EXTENDS Integers, Sequences, FiniteSets

CONSTANTS
    LeafChunks,         \* chunks
    BLOCKS_PER_LEAF,
    Contents,           \* of a block
    MaxAccesses         \* bound: accesses of the segment

ASSUME AccessesAssumption == MaxAccesses \in Nat

BlocksOfLeaves(ls) == ls \X (0..BLOCKS_PER_LEAF - 1)
AnyBlock == BlocksOfLeaves(LeafChunks)

VARIABLES
    rows,        \* access rows; the t-th has time t
    boundary     \* the boundary rows of an accepted proof, or NoBoundary

argumentVars == <<rows, boundary>>

AccessRow ==
    [addr : AnyBlock, prev_data : Contents, prev_timestamp : 0..MaxAccesses, data : Contents]
NoBoundary == [touched |-> {}, init |-> <<>>, final |-> <<>>, accepted |-> FALSE]

ArgumentInit ==
    /\ rows = <<>>
    /\ boundary = NoBoundary

\* Mutant of TimestampLt: an access may follow itself.
TimestampLe(r, t) == r.prev_timestamp <= t

\* eval_timestamps: the previous access is earlier.
TimestampLt(r, t) == r.prev_timestamp < t

AddRow(r) ==
    /\ ~boundary.accepted
    /\ Len(rows) < MaxAccesses
    /\ TimestampLt(r, Len(rows) + 1)
    /\ rows' = Append(rows, r)
    /\ UNCHANGED boundary

\* MemoryReadOperation: the data received is the data sent.
ReadRow(r) == r.prev_data = r.data /\ AddRow(r)

WriteRow(r) == AddRow(r)

-----------------------------------------------------------------------------
(* The bus.                                                                *)

BlockState == [data : Contents, timestamp : 0..MaxAccesses]

\* PersistentBoundaryAir: an initial row has time INITIAL_TIMESTAMP, zero.
InitialTime(t) == t = 0

RowMessage == [addr : AnyBlock, data : Contents, timestamp : 0..MaxAccesses]

Times == 1..Len(rows)

\* One of the boundary rows bs, initial or final, is about message m.
BoundaryRow(m, B, bs) ==
    /\ m.addr \in BlocksOfLeaves(B.touched)
    /\ bs[m.addr] = [data |-> m.data, timestamp |-> m.timestamp]

Sent(m, B) ==
    Cardinality({t \in Times : rows[t].addr = m.addr /\ rows[t].data = m.data /\ t = m.timestamp})
    + (IF BoundaryRow(m, B, B.init) THEN 1 ELSE 0)

Received(m, B) ==
    Cardinality({t \in Times : /\ rows[t].addr = m.addr
                               /\ rows[t].prev_data = m.data
                               /\ rows[t].prev_timestamp = m.timestamp})
    + (IF BoundaryRow(m, B, B.final) THEN 1 ELSE 0)

Balanced(B) == \A m \in RowMessage : Sent(m, B) = Received(m, B)

\* The proof is accepted with boundary rows for the touched chunks.
VerifyBoundary(touched, init, final) ==
    LET B == [touched |-> touched, init |-> init, final |-> final, accepted |-> TRUE] IN
    /\ ~boundary.accepted
    /\ \A b \in BlocksOfLeaves(touched) : InitialTime(init[b].timestamp)
    /\ Balanced(B)
    /\ boundary' = B
    /\ UNCHANGED rows

\* No further row, or no boundary rows that balance these: the end.
ArgumentDone ==
    /\ boundary.accepted \/ Len(rows) = MaxAccesses
    /\ UNCHANGED argumentVars

ArgumentNext ==
    \/ \E r \in AccessRow : ReadRow(r) \/ WriteRow(r)
    \/ \E touched \in SUBSET LeafChunks :
         \E init, final \in [BlocksOfLeaves(touched) -> BlockState] :
            VerifyBoundary(touched, init, final)
    \/ ArgumentDone

ArgumentSpec == ArgumentInit /\ [][ArgumentNext]_argumentVars

-----------------------------------------------------------------------------
(* Properties.                                                             *)

\* Accesses of block b before time t.
Before(b, t) == {s \in Times : s < t /\ rows[s].addr = b}
Latest(S) == CHOOSE s \in S : \A x \in S : x <= s

\* What memory holds at block b just before time t.
Holds(b, t) ==
    IF Before(b, t) = {} THEN boundary.init[b].data ELSE rows[Latest(Before(b, t))].data

\* In an accepted segment every access sees the value last written to its
\* block, or the initial one, and the final boundary rows, which the final
\* memory root commits to, hold what the accesses left, and the initial value
\* of every block not accessed: what the rows of the bridge and of the boundary
\* chip claim about the past is forced by the balance of the memory bus.
AcceptedRowsAreMemory ==
    boundary.accepted =>
        /\ \A t \in Times :
              /\ rows[t].addr \in BlocksOfLeaves(boundary.touched)
              /\ rows[t].prev_data = Holds(rows[t].addr, t)
        /\ \A b \in BlocksOfLeaves(boundary.touched) :
              boundary.final[b].data = Holds(b, MaxAccesses + 1)

\* What the constraints leave of the rows: each follows an earlier time, and
\* the boundary rows of an accepted proof balance them.
RowsConstrained ==
    /\ rows \in Seq(AccessRow) /\ Len(rows) <= MaxAccesses
    /\ \A t \in Times : TimestampLt(rows[t], t)
    /\ boundary.accepted =>
         /\ boundary.touched \in SUBSET LeafChunks
         /\ boundary.init \in [BlocksOfLeaves(boundary.touched) -> BlockState]
         /\ boundary.final \in [BlocksOfLeaves(boundary.touched) -> BlockState]
         /\ \A b \in BlocksOfLeaves(boundary.touched) : InitialTime(boundary.init[b].timestamp)
         /\ Balanced(boundary)
=============================================================================
