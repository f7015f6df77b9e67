------------------------- MODULE OfflineMemoryProofs -------------------------
(***************************************************************************)
(* TLAPS proofs about OfflineMemory, for all chunks, values and times.     *)
(***************************************************************************)
EXTENDS OfflineMemory, TLAPS

\* A message is about one block only, and is counted once.
LEMMA IsFacts ==
  ASSUME NEW m \in Message, NEW b, NEW v, NEW t
  PROVE  /\ Is(m, b, v, t) \in Int
         /\ m.addr # b => Is(m, b, v, t) = 0
  BY DEF Is, Msg

\* A fresh TracingMemory has nothing outstanding.
LEMMA InitIInv == Init => IInv
  <1> SUFFICES ASSUME Init PROVE IInv
    OBVIOUS
  <1>1. TypeOK
    <2>1. meta \in [Blocks -> 0..MaxTime] /\ bus \in [Message -> Int]
      BY MemoryAssumption DEF Init, INITIAL_TIMESTAMP
    <2>2. timestamp \in 1..MaxTime + 1
      BY MemoryAssumption DEF Init, INITIAL_TIMESTAMP
    <2>3. record \in Record \cup {NoRecord} /\ finalized \in BOOLEAN
      BY DEF Init
    <2>4. image \in [Blocks -> Values] /\ data \in [Blocks -> Values]
      BY DEF Init
    <2> QED
      BY <2>1, <2>2, <2>3, <2>4 DEF TypeOK
  <1>2. TouchedBlocks = {}
    BY DEF Init, TouchedBlocks, INITIAL_TIMESTAMP
  <1>3. LastAccessPast /\ UntouchedKept /\ TimestampsIncrease /\ BusBalances
    BY DEF Init, LastAccessPast, UntouchedKept, TimestampsIncrease, BusBalances, INITIAL_TIMESTAMP
  <1>4. BusOutstanding
    BY <1>2 DEF Init, BusOutstanding, Outstanding
  <1> QED
    BY <1>1, <1>3, <1>4 DEF IInv

\* An access replaces the outstanding message of its block.
LEMMA PerformIInv ==
  ASSUME IInv, NEW b \in Blocks, NEW v \in Values, Perform(b, v)
  PROVE  IInv'
  <1>1. /\ image \in [Blocks -> Values] /\ data \in [Blocks -> Values]
        /\ meta \in [Blocks -> 0..MaxTime]
        /\ timestamp \in 1..MaxTime + 1
        /\ bus \in [Message -> Int]
        /\ MaxTime \in Nat
        /\ \A x \in Blocks : meta[x] < timestamp
        /\ \A x \in Blocks \ TouchedBlocks : data[x] = image[x]
    BY MemoryAssumption DEF IInv, TypeOK, LastAccessPast, UntouchedKept
  <1>2. /\ ~finalized /\ finalized' = finalized
        /\ timestamp <= MaxTime
        /\ timestamp' = timestamp + 1
        /\ meta' = [meta EXCEPT ![b] = timestamp]
        /\ data' = [data EXCEPT ![b] = v]
        /\ image' = image
        /\ record' = [addr |-> b, prev_data |-> data[b], data |-> v,
                      prev_timestamp |-> meta[b], timestamp |-> timestamp]
    BY DEF Perform, Access, PrevAccessTime
  <1>3. ASSUME NEW m \in Message
        PROVE  bus'[m] = bus[m] - Is(m, b, data[b], meta[b]) + Is(m, b, v, timestamp)
    BY DEF Perform, Apply, Access, PrevAccessTime
  <1>4. TouchedBlocks' = TouchedBlocks \cup {b}
    BY <1>1, <1>2 DEF TouchedBlocks, INITIAL_TIMESTAMP
  <1>5. TypeOK'
    <2>1. record' \in Record
      BY <1>1, <1>2 DEF Record
    <2>2. bus' \in [Message -> Int]
      <3>1. bus' = [m \in Message |-> bus[m] - Is(m, b, data[b], meta[b]) + Is(m, b, v, timestamp)]
        BY DEF Perform, Apply, Access, PrevAccessTime
      <3> QED
        BY <1>1, <3>1, IsFacts
    <2>3. timestamp' \in 1..MaxTime + 1 /\ meta' \in [Blocks -> 0..MaxTime]
      BY <1>1, <1>2
    <2>4. data' \in [Blocks -> Values] /\ image' \in [Blocks -> Values] /\ finalized' \in BOOLEAN
      BY <1>1, <1>2 DEF IInv, TypeOK
    <2> QED
      BY <2>1, <2>2, <2>3, <2>4 DEF TypeOK
  <1>6. LastAccessPast'
    BY <1>1, <1>2 DEF LastAccessPast
  <1>7. UntouchedKept'
    BY <1>1, <1>2, <1>4 DEF UntouchedKept
  <1>8. TimestampsIncrease'
    BY <1>1, <1>2 DEF TimestampsIncrease
  <1>9. BusOutstanding'
    <2> SUFFICES ASSUME NEW m \in Message
                 PROVE  bus'[m] = Outstanding(m)'
      BY DEF BusOutstanding
    <2>1. m.addr \in Blocks /\ bus[m] = Outstanding(m)
      BY <1>2 DEF IInv, BusOutstanding, Message
    <2>2. CASE m.addr = b
      <3>1. Outstanding(m)' = Is(m, b, v, timestamp) - Is(m, b, image[b], INITIAL_TIMESTAMP)
        BY <1>1, <1>2, <1>4, <2>1, <2>2 DEF Outstanding, Is, Msg
      <3>2. CASE b \in TouchedBlocks
        <4>1. bus[m] = Is(m, b, data[b], meta[b]) - Is(m, b, image[b], INITIAL_TIMESTAMP)
          BY <2>1, <2>2, <3>2 DEF Outstanding
        <4> QED
          BY <1>3, <3>1, <4>1, IsFacts
      <3>3. CASE b \notin TouchedBlocks
        <4>1. bus[m] = 0
          BY <2>1, <2>2, <3>3 DEF Outstanding
        <4>2. data[b] = image[b] /\ meta[b] = INITIAL_TIMESTAMP
          BY <1>1, <3>3 DEF TouchedBlocks, INITIAL_TIMESTAMP
        <4> QED
          BY <1>3, <3>1, <4>1, <4>2, IsFacts
      <3> QED
        BY <3>2, <3>3
    <2>3. CASE m.addr # b
      <3>1. bus'[m] = bus[m]
        BY <1>1, <1>3, <2>3, IsFacts
      <3>2. Outstanding(m)' = Outstanding(m)
        BY <1>1, <1>2, <1>4, <2>1, <2>3 DEF Outstanding, Is, Msg
      <3> QED
        BY <2>1, <3>1, <3>2
    <2> QED
      BY <2>2, <2>3
  <1>10. BusBalances'
    BY <1>2 DEF BusBalances
  <1> QED
    BY <1>5, <1>6, <1>7, <1>8, <1>9, <1>10 DEF IInv

\* Skipping a time changes no block.
LEMMA IncrementIInv ==
  ASSUME IInv, IncrementTimestamp
  PROVE  IInv'
  <1>1. /\ UNCHANGED <<image, data, meta, bus, record, finalized>>
        /\ timestamp' = timestamp + 1
        /\ timestamp <= MaxTime
        /\ timestamp \in 1..MaxTime + 1
        /\ MaxTime \in Nat
        /\ meta \in [Blocks -> 0..MaxTime]
    BY MemoryAssumption DEF IncrementTimestamp, IInv, TypeOK
  <1>2. TypeOK' /\ LastAccessPast'
    <2>1. timestamp' \in 1..MaxTime + 1
      BY <1>1
    <2>2. \A x \in Blocks : meta[x] < timestamp + 1
      BY <1>1 DEF IInv, LastAccessPast
    <2> QED
      BY <1>1, <2>1, <2>2 DEF IInv, TypeOK, LastAccessPast
  <1>3. TouchedBlocks' = TouchedBlocks
    BY <1>1 DEF TouchedBlocks
  <1>4. UntouchedKept' /\ TimestampsIncrease' /\ BusBalances'
    BY <1>1, <1>3 DEF IInv, UntouchedKept, TimestampsIncrease, BusBalances
  <1>5. BusOutstanding'
    BY <1>1, <1>3 DEF IInv, BusOutstanding, Outstanding, Is, Msg
  <1> QED
    BY <1>2, <1>4, <1>5 DEF IInv

\* The boundary rows cancel exactly what is outstanding.
LEMMA FinalizeIInv ==
  ASSUME IInv, Finalize
  PROVE  IInv'
  <1>1. /\ UNCHANGED <<image, data, meta, timestamp, record>>
        /\ ~finalized /\ finalized' = TRUE
        /\ bus' = [m \in Message |-> bus[m] + BoundaryRows(m)]
        /\ bus \in [Message -> Int]
    BY DEF Finalize, IInv, TypeOK
  <1>2. ASSUME NEW m \in Message
        PROVE  bus[m] + BoundaryRows(m) = 0
    <2> DEFINE b == m.addr
               i == Is(m, b, image[b], INITIAL_TIMESTAMP)
               o == Is(m, b, data[b], meta[b])
    <2>1. b \in Blocks /\ bus[m] = Outstanding(m) /\ i \in Int /\ o \in Int
      BY <1>1, IsFacts DEF IInv, BusOutstanding, Message
    <2>2. CASE b \in TouchedBlocks
      <3>1. BoundaryRows(m) = i - o
        BY <2>2 DEF BoundaryRows, TouchedChunks, FinalValue, FinalTime
      <3>2. bus[m] = o - i
        BY <2>1, <2>2 DEF Outstanding
      <3> QED
        BY <2>1, <3>1, <3>2
    <2>3. CASE b \notin TouchedBlocks
      <3>1. bus[m] = 0
        BY <2>1, <2>3 DEF Outstanding
      <3>2. BoundaryRows(m) = 0
        <4>1. FinalValue(b) = image[b] /\ FinalTime(b) = INITIAL_TIMESTAMP
          BY <2>3 DEF FinalValue, FinalTime
        <4>2. i - Is(m, b, FinalValue(b), FinalTime(b)) = 0
          BY <2>1, <4>1
        <4> QED
          BY <4>2 DEF BoundaryRows
      <3> QED
        BY <3>1, <3>2
    <2> QED
      BY <2>2, <2>3
  <1>3. \A m \in Message : bus'[m] = 0
    BY <1>1, <1>2
  <1>4. bus' \in [Message -> Int]
    <2>1. \A m \in Message : bus[m] + BoundaryRows(m) \in Int
      BY <1>2
    <2> QED
      BY <1>1, <2>1
  <1>5. TypeOK'
    BY <1>1, <1>4 DEF IInv, TypeOK
  <1>6. TouchedBlocks' = TouchedBlocks
    BY <1>1 DEF TouchedBlocks
  <1>7. LastAccessPast' /\ UntouchedKept' /\ TimestampsIncrease' /\ BusOutstanding' /\ BusBalances'
    BY <1>1, <1>3, <1>6 DEF IInv, LastAccessPast, UntouchedKept, TimestampsIncrease, BusOutstanding, BusBalances
  <1> QED
    BY <1>5, <1>7 DEF IInv

\* Every step of preflight memory and trace generation keeps the invariant.
LEMMA NextIInv ==
  ASSUME IInv, [Next]_vars
  PROVE  IInv'
  <1>1. ASSUME NEW b \in Blocks, Read(b)
        PROVE  IInv'
    <2>1. data[b] \in Values
      BY DEF IInv, TypeOK
    <2> QED
      BY <1>1, <2>1, PerformIInv DEF Read
  <1>2. ASSUME NEW b \in Blocks, NEW v \in Values, Write(b, v)
        PROVE  IInv'
    BY <1>2, PerformIInv DEF Write
  <1>3. CASE IncrementTimestamp
    BY <1>3, IncrementIInv
  <1>4. CASE Finalize
    BY <1>4, FinalizeIInv
  <1>5. CASE UNCHANGED vars
    <2>1. UNCHANGED <<image, data, meta, timestamp, bus, record, finalized>>
      BY <1>5 DEF vars
    <2>2. TypeOK' /\ LastAccessPast' /\ TimestampsIncrease' /\ BusBalances'
      BY <2>1 DEF IInv, TypeOK, LastAccessPast, TimestampsIncrease, BusBalances
    <2>3. TouchedBlocks' = TouchedBlocks
      BY <2>1 DEF TouchedBlocks
    <2>4. UntouchedKept' /\ BusOutstanding'
      BY <2>1, <2>3 DEF IInv, UntouchedKept, BusOutstanding, Outstanding
    <2> QED
      BY <2>2, <2>4 DEF IInv
  <1> QED
    BY <1>1, <1>2, <1>3, <1>4, <1>5 DEF Next, Done

\* The invariant holds throughout preflight execution and finalization.
THEOREM OfflineMemoryInvariant == Spec => []IInv
  BY InitIInv, NextIInv, PTL DEF Spec

\* The memory bus balances for every sequence of accesses and every way they
\* fall into chunks.
THEOREM OfflineMemoryBalances == Spec => []BusBalances
  <1>1. IInv => BusBalances
    BY DEF IInv
  <1> QED
    BY <1>1, OfflineMemoryInvariant, PTL

\* Every row passes the timestamp comparison of the offline checker.
THEOREM OfflineMemoryTimestamps == Spec => []TimestampsIncrease
  <1>1. IInv => TimestampsIncrease
    BY DEF IInv
  <1> QED
    BY <1>1, OfflineMemoryInvariant, PTL
=============================================================================
