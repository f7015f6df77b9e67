------------------------------- MODULE CoreChip -------------------------------
(***************************************************************************)
(* The core of an instruction chip, as the integration API of the VM ties  *)
(* its parts together: an executor (pure and metered: Interpret; preflight:*)
(* Execute), a trace filler on the CPU and one on the GPU that turn the    *)
(* record of an execution into a row and count the lookups the row will    *)
(* make, and an AIR whose constraints and lookups decide which rows are    *)
(* accepted and what an accepted row says to its adapter.                  *)
(*                                                                         *)
(* One instruction is executed, and a row is made for it: by a filler, as  *)
(* padding, or by a prover that picks any accepted row for the values that *)
(* the program bus and the memory bus hold for this instruction.           *)
(***************************************************************************)
EXTENDS Integers, Sequences, FiniteSets

CONSTANTS
    Inputs,               \* [opcode, ...]: an instruction and what it reads
    Execute(_),           \* the result by the executor that writes records
    Interpret(_),         \* the result by the pure and metered executors
    FillTraceRow(_), Requests(_),          \* row, and lookups counted
    CudaFillTraceRow(_), CudaRequests(_),
    ForgedRows(_),        \* rows over F for these inputs, except some that
                          \* part of the constraints and lookups refuse
    Eval(_),              \* the constraints hold for a row
    Sends(_),             \* lookups of a row: sequence of [count, key]
    LookupHit(_),         \* the table has this key
    Context(_),           \* AdapterAirContext: [is_valid, input, result]
    Agree(_, _),          \* results that the next instruction cannot tell apart
    ZeroRow

VARIABLES input, result, row, requests, phase

coreVars == <<input, result, row, requests, phase>>

\* The verifier accepts the row, the tables being honest.
Accepts(r) ==
    /\ Eval(r)
    /\ \A k \in 1..Len(Sends(r)) :
           Sends(r)[k].count = 0 \/ LookupHit(Sends(r)[k].key)

Start ==
    /\ phase = "start"
    /\ input = <<>> /\ result = <<>> /\ row = <<>> /\ requests = <<>>

ExecuteInstruction ==
    /\ phase = "start"
    /\ \E i \in Inputs :
           /\ input' = i
           /\ result' = Execute(i)
    /\ phase' = "executed"
    /\ UNCHANGED <<row, requests>>

FillRow ==
    /\ phase = "executed"
    /\ row' = FillTraceRow(input)
    /\ requests' = Requests(input)
    /\ phase' = "filled"
    /\ UNCHANGED <<input, result>>

CudaFillRow ==
    /\ phase = "executed"
    /\ row' = CudaFillTraceRow(input)
    /\ requests' = CudaRequests(input)
    /\ phase' = "filled"
    /\ UNCHANGED <<input, result>>

\* Rows beyond the records are zero.
PadRow ==
    /\ phase = "start"
    /\ row' = ZeroRow
    /\ phase' = "padded"
    /\ UNCHANGED <<input, result, requests>>

ForgeRow ==
    /\ phase = "executed"
    /\ row' \in {r \in ForgedRows(input) :
                    Accepts(r) /\ Context(r).is_valid # 0 /\ Context(r).input = input}
    /\ phase' = "forged"
    /\ UNCHANGED <<input, result, requests>>

NextRow ==
    /\ phase \in {"filled", "padded", "forged"}
    /\ input' = <<>> /\ result' = <<>> /\ row' = <<>> /\ requests' = <<>>
    /\ phase' = "start"

CoreNext == ExecuteInstruction \/ FillRow \/ CudaFillRow \/ PadRow \/ ForgeRow \/ NextRow

CoreSpec == Start /\ [][CoreNext]_coreVars

-----------------------------------------------------------------------------
\* How often key is sent by the row, and how often the filler counted it.
Sent(key) == Cardinality({k \in 1..Len(Sends(row)) :
                              Sends(row)[k].key = key /\ Sends(row)[k].count = 1})
Counted(key) == Cardinality({k \in 1..Len(requests) : requests[k] = key})

\* The row either filler makes for an executed instruction satisfies every
\* constraint, presents to the adapter the instruction and the result that
\* preflight execution recorded and wrote, and makes exactly the lookups the
\* filler counted, so that the lookup buses balance (TraceFiller::
\* fill_trace_row against VmCoreAir::eval).  A padding row is accepted, is
\* not valid and makes no lookup.
HonestRowsAccepted ==
    /\ phase = "filled" =>
           /\ Accepts(row)
           /\ Context(row) = [is_valid |-> 1, input |-> input, result |-> result]
           /\ \A key \in {requests[k] : k \in 1..Len(requests)}
                         \cup {Sends(row)[k].key : k \in 1..Len(Sends(row))} :
                  Sent(key) = Counted(key)
    /\ phase = "padded" =>
           /\ Accepts(row)
           /\ Context(row).is_valid = 0
           /\ \A k \in 1..Len(Sends(row)) : Sends(row)[k].count = 0

\* No choice of the columns that execution does not determine makes the AIR
\* accept a result other than the one the executor computes (VmCoreAir::eval
\* against PreflightExecutor::execute).
AcceptedRowsExecute ==
    phase = "forged" => Context(row).is_valid = 1 /\ Context(row).result = result

\* Pure and metered execution, which compute on machine words, and preflight
\* execution, which computes limb by limb, have the same result.
ModesAgree == phase = "executed" => Agree(result, Interpret(input))
=============================================================================
