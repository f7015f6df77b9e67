------------------------ MODULE ContinuationsProofs ------------------------
(***************************************************************************)
(* prove_continuations implements ContinuationProver, for all programs,    *)
(* inputs, segmentations and numbers of calls.                             *)
(***************************************************************************)
EXTENDS Continuations, FiniteSetTheorems, WellFoundedInduction, TLAPS

\* The least-number principle, for a set of numbers.
LEMMA LeastNumber ==
    ASSUME NEW T \in SUBSET Nat, T # {}
    PROVE  \E x \in T : \A y \in T : x <= y
<1>1. IsWellFoundedOn(OpToRel(<, Nat), Nat)
  BY NatLessThanWellFounded
<1>2. PICK x \in T : \A y \in T : ~(<<y, x>> \in OpToRel(<, Nat))
  BY <1>1, WFMin
<1>3. ASSUME NEW y \in T, y < x PROVE FALSE
  BY <1>2, <1>3 DEF OpToRel
<1> QED BY <1>3

-----------------------------------------------------------------------------
(* The execution.                                                          *)

\* Turns is well defined: every turn is made from the one before.
LEMMA TurnsDefined ==
    ASSUME NEW e, NEW i
    PROVE  Turns(e, i) = [n \in 0..MaxInsns |->
                            IF n = 0 THEN Started(e, i) ELSE Turn(e, Turns(e, i)[n - 1])]
<1> DEFINE Def(f, m) ==
             f = [n \in 0..m |-> IF n = 0 THEN Started(e, i) ELSE Turn(e, f[n - 1])]
           Bad == {m \in Nat : ~\E f : Def(f, m)}
<1>1. Bad = {}
  <2> SUFFICES ASSUME Bad # {} PROVE FALSE
    OBVIOUS
  <2>1. PICK m \in Bad : m \in Nat /\ \A y \in Bad : m <= y
    BY LeastNumber
  <2>2. CASE m = 0
    <3> DEFINE f == [n \in 0..0 |-> Started(e, i)]
    <3>1. Def(f, 0)
      OBVIOUS
    <3> QED BY <2>1, <2>2, <3>1
  <2>3. CASE m # 0
    <3>1. m - 1 \in Nat /\ m - 1 \notin Bad
      <4> HIDE DEF Bad
      <4> QED BY <2>1, <2>3
    <3>2. PICK f : Def(f, m - 1)
      BY <3>1
    <3> DEFINE g == [n \in 0..m |-> IF n = 0 THEN Started(e, i) ELSE Turn(e, f[n - 1])]
    <3>3. ASSUME NEW n \in 1..m PROVE f[n - 1] = g[n - 1]
      <4>1. n - 1 \in 0..m - 1 /\ n - 1 \in 0..m
        BY <2>1
      <4> DEFINE k == n - 1
      <4> HIDE DEF k
      <4>2. f[k] = IF k = 0 THEN Started(e, i) ELSE Turn(e, f[k - 1])
        BY <3>2, <4>1 DEF k
      <4>3. g[k] = IF k = 0 THEN Started(e, i) ELSE Turn(e, f[k - 1])
        BY <4>1 DEF k
      <4> QED BY <4>2, <4>3 DEF k
    <3>4. Def(g, m)
      <4>1. ASSUME NEW n \in 0..m
            PROVE  (IF n = 0 THEN Started(e, i) ELSE Turn(e, f[n - 1]))
                     = (IF n = 0 THEN Started(e, i) ELSE Turn(e, g[n - 1]))
        <5>1. CASE n = 0
          BY <5>1
        <5>2. CASE n # 0
          <6>1. n \in 1..m
            BY <2>1, <5>2
          <6> QED BY <3>3, <5>2, <6>1
        <5> QED BY <5>1, <5>2
      <4>2. g = [n \in 0..m |-> IF n = 0 THEN Started(e, i) ELSE Turn(e, f[n - 1])]
        OBVIOUS
      <4> HIDE DEF g
      <4> QED BY <4>1, <4>2
    <3> QED BY <2>1, <3>4
  <2> QED BY <2>2, <2>3
<1>2. \E f : Def(f, MaxInsns)
  BY <1>1, GuestAssumption
<1> QED BY <1>2 DEF Turns

\* The turns, one by one.
LEMMA TurnsStep ==
    ASSUME NEW e, NEW i
    PROVE  /\ Turns(e, i)[0] = Started(e, i)
           /\ \A n \in 1..MaxInsns : Turns(e, i)[n] = Turn(e, Turns(e, i)[n - 1])
<1> DEFINE T == Turns(e, i)
<1>1. T = [n \in 0..MaxInsns |-> IF n = 0 THEN Started(e, i) ELSE Turn(e, T[n - 1])]
  BY TurnsDefined
<1> HIDE DEF T
<1>2. T[0] = Started(e, i)
  BY <1>1, GuestAssumption
<1>3. ASSUME NEW n \in 1..MaxInsns PROVE T[n] = Turn(e, T[n - 1])
  BY <1>1, GuestAssumption
<1> QED BY <1>2, <1>3 DEF T

\* An execution starts in the initial state.
LEMMA FirstTurn ==
    ASSUME NEW e, NEW i
    PROVE  Turns(e, i)[0].vm = VmStateInitial(e, i)
<1>1. Started(e, i).vm = VmStateInitial(e, i)
  BY DEF Started
<1> QED BY <1>1, TurnsStep

\* A record of the fields of a VmState is one.
LEMMA VmStateRecord ==
    ASSUME NEW p, NEW m, NEW i, NEW h, NEW r, m = [c \in Cells |-> m[c]]
    PROVE  IsVmState([pc |-> p, memory |-> m, input_stream |-> i, hint_stream |-> h, rng |-> r])
  BY DEF IsVmState

\* An instruction leaves a VmState, and the cells it does not touch alone.
LEMMA After1State ==
    ASSUME NEW e \in Exes, NEW s, IsVmState(s), Executes(e, s)
    PROVE  /\ IsVmState(After1(e, s))
           /\ \A c \in Cells \ TouchedBy(e.program[s.pc]) : After1(e, s).memory[c] = s.memory[c]
<1> DEFINE insn == e.program[s.pc]
           next == [s EXCEPT !.pc = @ + 1]
<1>1. insn.op \in Ops
  BY GuestAssumption DEF Executes
<1>2. IsVmState(next) /\ next.memory = s.memory
  BY DEF IsVmState
<1>0. next = [pc |-> s.pc + 1, memory |-> s.memory, input_stream |-> s.input_stream,
              hint_stream |-> s.hint_stream, rng |-> s.rng]
  BY DEF IsVmState
<1>m. s.memory = [c \in Cells |-> s.memory[c]]
  BY DEF IsVmState
<1>3. CASE insn.op = "terminate"
  BY <1>3 DEF After1
<1>4. CASE insn.op = "store"
  <2>1. After1(e, s) = [next EXCEPT !.memory[insn.cell] = insn.value]
    BY <1>4 DEF After1
  <2>2. TouchedBy(insn) = {insn.cell}
    BY <1>4 DEF TouchedBy
  <2> HIDE DEF insn, next
  <2> QED BY <1>2, <2>1, <2>2 DEF IsVmState, insn
<1>5. CASE insn.op = "toggle"
  <2>1. After1(e, s) = [next EXCEPT !.memory[insn.cell] = 1 - @]
    BY <1>5 DEF After1
  <2>2. TouchedBy(insn) = {insn.cell}
    BY <1>5 DEF TouchedBy
  <2> HIDE DEF insn, next
  <2> QED BY <1>2, <2>1, <2>2 DEF IsVmState, insn
<1>6. CASE insn.op = "branch"
  <2>1. After1(e, s) = IF s.memory[insn.cell] # 0 THEN [s EXCEPT !.pc = insn.target] ELSE next
    BY <1>6 DEF After1
  <2> HIDE DEF insn, next
  <2> QED BY <1>2, <2>1 DEF IsVmState
<1>7. CASE insn.op = "hint_input"
  <2>1. After1(e, s) =
          [next EXCEPT !.hint_stream = <<Head(s.input_stream)>>, !.input_stream = Tail(@)]
    BY <1>7 DEF After1
  <2> HIDE DEF insn, next
  <2>2. After1(e, s) = [pc |-> s.pc + 1, memory |-> s.memory,
                        input_stream |-> Tail(s.input_stream),
                        hint_stream |-> <<Head(s.input_stream)>>, rng |-> s.rng]
    BY <1>0, <2>1
  <2> QED BY <1>m, <2>2, VmStateRecord
<1>8. CASE insn.op = "hint_random"
  <2>1. After1(e, s) = [next EXCEPT !.hint_stream = <<Random(s.rng)>>, !.rng = @ + 1]
    BY <1>8 DEF After1
  <2> HIDE DEF insn, next
  <2>2. After1(e, s) = [pc |-> s.pc + 1, memory |-> s.memory, input_stream |-> s.input_stream,
                        hint_stream |-> <<Random(s.rng)>>, rng |-> s.rng + 1]
    BY <1>0, <2>1
  <2> QED BY <1>m, <2>2, VmStateRecord
<1>9. CASE insn.op = "hint_store"
  <2>1. After1(e, s) =
          [next EXCEPT !.memory[insn.cell] = Head(s.hint_stream), !.hint_stream = Tail(@)]
    BY <1>9 DEF After1
  <2>2. TouchedBy(insn) = {insn.cell}
    BY <1>9 DEF TouchedBy
  <2> HIDE DEF insn, next
  <2> DEFINE mem == [s.memory EXCEPT ![insn.cell] = Head(s.hint_stream)]
  <2>3. After1(e, s) = [pc |-> s.pc + 1, memory |-> mem, input_stream |-> s.input_stream,
                        hint_stream |-> Tail(s.hint_stream), rng |-> s.rng]
    BY <1>0, <2>1
  <2>4. mem = [c \in Cells |-> mem[c]] /\ \A c \in Cells \ {insn.cell} : mem[c] = s.memory[c]
    BY <1>m
  <2> HIDE DEF mem
  <2> QED BY <2>2, <2>3, <2>4, VmStateRecord DEF insn
<1> QED BY <1>1, <1>3, <1>4, <1>5, <1>6, <1>7, <1>8, <1>9 DEF Ops

\* The shape of an execution.
IsRun(e, r) ==
    /\ r = [vm |-> r.vm, exit_code |-> r.exit_code, ok |-> r.ok, pcs |-> r.pcs]
    /\ IsVmState(r.vm)
    /\ r.pcs \in Seq(DOMAIN e.program)

\* A turn that is made appends the pc of its instruction.
LEMMA TurnRun ==
    ASSUME NEW e \in Exes, NEW r, IsRun(e, r)
    PROVE  /\ IsRun(e, Turn(e, r))
           /\ Stopped(r) => Turn(e, r) = r
           /\ ~Stopped(r) /\ ~Executes(e, r.vm) => Stopped(Turn(e, r)) /\ ~Turn(e, r).ok
           /\ ~Stopped(r) /\ Executes(e, r.vm) =>
                /\ Turn(e, r).vm = After1(e, r.vm)
                /\ Turn(e, r).exit_code = IF Terminates(e, r.vm) THEN {e.program[r.vm.pc].code}
                                          ELSE Running
                /\ Turn(e, r).pcs = Append(r.pcs, r.vm.pc)
<1>1. CASE Stopped(r)
  BY <1>1 DEF Turn
<1>2. CASE ~Stopped(r) /\ ~Executes(e, r.vm)
  <2>1. Turn(e, r) = [r EXCEPT !.ok = FALSE]
    BY <1>2 DEF Turn
  <2> QED BY <1>2, <2>1 DEF IsRun, Stopped
<1>3. CASE ~Stopped(r) /\ Executes(e, r.vm)
  <2>1. Turn(e, r) = [vm |-> After1(e, r.vm),
                      exit_code |-> IF Terminates(e, r.vm) THEN {e.program[r.vm.pc].code}
                                    ELSE Running,
                      ok |-> TRUE,
                      pcs |-> Append(r.pcs, r.vm.pc)]
    BY <1>3 DEF Turn
  <2>2. IsVmState(After1(e, r.vm))
    BY <1>3, After1State DEF IsRun
  <2>3. Append(r.pcs, r.vm.pc) \in Seq(DOMAIN e.program)
    <3>1. r.vm.pc \in DOMAIN e.program /\ r.pcs \in Seq(DOMAIN e.program)
      BY <1>3 DEF IsRun, Executes
    <3>2. ASSUME NEW D, NEW q \in Seq(D), NEW x \in D PROVE Append(q, x) \in Seq(D)
      OBVIOUS
    <3> QED BY <3>1, <3>2
  <2> QED BY <1>3, <2>1, <2>2, <2>3 DEF IsRun
<1> QED BY <1>1, <1>2, <1>3

\* Every execution has that shape, at every turn.
LEMMA TurnsRun ==
    ASSUME NEW e \in Exes, NEW i
    PROVE  \A n \in 0..MaxInsns : IsRun(e, Turns(e, i)[n])
<1> DEFINE T == Turns(e, i)
           Bad == {n \in 0..MaxInsns : ~IsRun(e, T[n])}
<1> SUFFICES ASSUME Bad # {} PROVE FALSE
  OBVIOUS
<1>1. Bad \in SUBSET Nat
  BY GuestAssumption
<1>2. PICK n \in Bad : \A y \in Bad : n <= y
  BY <1>1, LeastNumber
<1>3. T[0] = Started(e, i) /\ \A k \in 1..MaxInsns : T[k] = Turn(e, T[k - 1])
  BY TurnsStep
<1> HIDE DEF T
<1>4. CASE n = 0
  <2>1. IsRun(e, Started(e, i))
    BY DEF IsRun, IsVmState, Started, VmStateInitial, CreateMemoryImage, SetFromSparse
  <2> QED BY <1>2, <1>3, <1>4, <2>1
<1>5. CASE n # 0
  <2>1. n \in 1..MaxInsns /\ n - 1 \in 0..MaxInsns /\ n - 1 < n /\ n - 1 \in Nat
    BY <1>5, GuestAssumption
  <2>2. IsRun(e, T[n - 1])
    BY <1>1, <1>2, <2>1
  <2>3. IsRun(e, Turn(e, T[n - 1]))
    BY <2>2, TurnRun
  <2>4. IsRun(e, T[n])
    BY <1>3, <2>1, <2>3
  <2> QED BY <1>2, <2>4
<1> QED BY <1>4, <1>5

\* An execution stops at some turn and stays there.
LEMMA StopsAt ==
    ASSUME NEW e \in Exes, NEW i \in Inputs
    PROVE  \E N \in 1..MaxInsns :
             /\ Stopped(Turns(e, i)[N])
             /\ \A n \in 0..N - 1 : ~Stopped(Turns(e, i)[n])
             /\ \A n \in N..MaxInsns : Turns(e, i)[n] = Turns(e, i)[N]
<1> DEFINE T == Turns(e, i)
           S == {n \in 0..MaxInsns : Stopped(T[n])}
<1>1. MaxInsns \in Nat /\ Stopped(T[MaxInsns])
  BY GuestAssumption DEF Execution
<1>2. /\ T[0] = Started(e, i) /\ \A n \in 1..MaxInsns : T[n] = Turn(e, T[n - 1])
      /\ \A n \in 0..MaxInsns : IsRun(e, T[n])
  BY TurnsStep, TurnsRun
<1> HIDE DEF T
<1>3. S \in SUBSET Nat /\ MaxInsns \in S
  BY <1>1
<1>4. PICK N \in S : \A y \in S : N <= y
  BY <1>3, LeastNumber
<1>5. N \in 0..MaxInsns /\ Stopped(T[N]) /\ N \in Nat
  BY <1>1, <1>4
<1>6. ~Stopped(T[0])
  BY <1>2 DEF Started, Stopped
<1>7. N \in 1..MaxInsns
  BY <1>5, <1>6
<1>8. ASSUME NEW n \in 0..N - 1 PROVE ~Stopped(T[n])
  BY <1>1, <1>4, <1>5
<1>9. ASSUME NEW n \in N..MaxInsns PROVE T[n] = T[N]
  <2> DEFINE Bad == {m \in N..MaxInsns : T[m] # T[N]}
  <2> SUFFICES ASSUME Bad # {} PROVE FALSE
    OBVIOUS
  <2>1. Bad \in SUBSET Nat
    BY <1>1, <1>5
  <2>2. PICK m \in Bad : \A y \in Bad : m <= y
    BY <2>1, LeastNumber
  <2>3. m \in N..MaxInsns /\ T[m] # T[N]
    BY <2>2
  <2>4. m # N /\ m - 1 \in N..MaxInsns /\ m \in 1..MaxInsns /\ m - 1 \in 0..MaxInsns
    BY <1>1, <1>5, <2>3
  <2>5. m - 1 \notin Bad
    BY <1>5, <2>1, <2>2, <2>4
  <2>6. T[m - 1] = T[N]
    BY <2>4, <2>5
  <2>7. T[m] = Turn(e, T[N])
    BY <1>2, <2>4, <2>6
  <2>8. Turn(e, T[N]) = T[N]
    BY <1>2, <1>5, TurnRun
  <2> QED BY <2>3, <2>7, <2>8
<1> QED BY <1>5, <1>7, <1>8, <1>9 DEF T

\* A stopped turn is the end of the execution, and one that is not has a next.
LEMMA StoppedIsEnd ==
    ASSUME NEW e \in Exes, NEW i \in Inputs, NEW n \in 0..MaxInsns
    PROVE  /\ Stopped(Turns(e, i)[n]) => Turns(e, i)[n] = Execution(e, i)
           /\ ~Stopped(Turns(e, i)[n]) =>
                n + 1 \in 0..MaxInsns /\ Turns(e, i)[n + 1] = Turn(e, Turns(e, i)[n])
<1> DEFINE T == Turns(e, i)
<1>1. PICK N \in 1..MaxInsns :
             /\ Stopped(T[N])
             /\ \A k \in 0..N - 1 : ~Stopped(T[k])
             /\ \A k \in N..MaxInsns : T[k] = T[N]
  BY StopsAt
<1>2. MaxInsns \in Nat /\ \A k \in 1..MaxInsns : T[k] = Turn(e, T[k - 1])
  BY GuestAssumption, TurnsStep
<1>3. Execution(e, i) = T[MaxInsns]
  BY DEF Execution
<1> HIDE DEF T
<1>4. CASE n < N
  <2>1. ~Stopped(T[n])
    BY <1>1, <1>2, <1>4
  <2>2. n + 1 \in 1..MaxInsns /\ (n + 1) - 1 = n
    BY <1>1, <1>2, <1>4
  <2>3. T[n + 1] = Turn(e, T[n])
    BY <1>2, <2>2
  <2> QED BY <2>1, <2>2, <2>3 DEF T
<1>5. CASE ~(n < N)
  <2>1. n \in N..MaxInsns /\ MaxInsns \in N..MaxInsns
    BY <1>1, <1>2, <1>5
  <2>2. T[n] = T[N] /\ T[MaxInsns] = T[N]
    BY <1>1, <2>1
  <2> QED BY <1>1, <1>3, <2>2 DEF T
<1> QED BY <1>4, <1>5

\* A successful execution of N instructions: no turn before the N-th stops or
\* fails, and the N-th is the end.
LEMMA SuccessfulRun ==
    ASSUME NEW e \in Exes, NEW i \in Inputs, Succeeds(e, i)
    PROVE  LET T == Turns(e, i)
               pcs == Execution(e, i).pcs
               N == Len(pcs)
           IN /\ N \in 1..MaxInsns
              /\ T[N] = Execution(e, i) /\ T[N].exit_code = {ExitSuccess}
              /\ \A n \in 0..N - 1 :
                   /\ T[n].exit_code = Running /\ Executes(e, T[n].vm)
                   /\ T[n + 1].vm = After1(e, T[n].vm)
                   /\ T[n + 1].exit_code = IF Terminates(e, T[n].vm)
                                           THEN {e.program[T[n].vm.pc].code} ELSE Running
                   /\ pcs[n + 1] = T[n].vm.pc
<1> DEFINE T == Turns(e, i)
           pcs == Execution(e, i).pcs
<1>1. PICK N \in 1..MaxInsns :
             /\ Stopped(T[N])
             /\ \A n \in 0..N - 1 : ~Stopped(T[n])
             /\ \A n \in N..MaxInsns : T[n] = T[N]
  BY StopsAt
<1>2. /\ MaxInsns \in Nat /\ N \in Nat
      /\ T[0] = Started(e, i) /\ \A n \in 1..MaxInsns : T[n] = Turn(e, T[n - 1])
      /\ \A n \in 0..MaxInsns : IsRun(e, T[n])
  BY <1>1, GuestAssumption, TurnsStep, TurnsRun
<1>3. Execution(e, i) = T[MaxInsns]
  BY DEF Execution
<1> HIDE DEF T
<1>4. T[MaxInsns] = T[N]
  BY <1>1, <1>2
<1>5. T[N].ok /\ T[N].exit_code = {ExitSuccess}
  BY <1>3, <1>4 DEF Succeeds, CheckTermination
<1>6. ASSUME NEW n \in 0..N - 1
      PROVE  /\ T[n].exit_code = Running /\ Executes(e, T[n].vm)
             /\ T[n + 1].vm = After1(e, T[n].vm)
             /\ T[n + 1].exit_code = IF Terminates(e, T[n].vm)
                                     THEN {e.program[T[n].vm.pc].code} ELSE Running
             /\ T[n + 1].pcs = Append(T[n].pcs, T[n].vm.pc)
  <2>1. ~Stopped(T[n]) /\ n + 1 \in 1..MaxInsns /\ (n + 1) - 1 = n /\ n \in 0..MaxInsns
    BY <1>1, <1>2
  <2>2. T[n + 1] = Turn(e, T[n]) /\ IsRun(e, T[n])
    BY <1>2, <2>1
  <2>3. Executes(e, T[n].vm)
    <3> SUFFICES ASSUME ~Executes(e, T[n].vm) PROVE FALSE
      OBVIOUS
    <3>1. Stopped(T[n + 1]) /\ ~T[n + 1].ok
      BY <2>1, <2>2, TurnRun
    <3>2. n + 1 \in 0..N - 1 \/ n + 1 = N
      BY <1>2
    <3> QED BY <1>1, <1>5, <3>1, <3>2
  <2>4. T[n].exit_code = Running
    BY <2>1 DEF Stopped
  <2> DEFINE r == T[n]
             t == T[n + 1]
             out == IF Terminates(e, T[n].vm) THEN {e.program[T[n].vm.pc].code} ELSE Running
  <2>5. t = Turn(e, r) /\ IsRun(e, r) /\ ~Stopped(r) /\ Executes(e, r.vm)
    BY <2>1, <2>2, <2>3
  <2>6. Turn(e, r).vm = After1(e, r.vm) /\ Turn(e, r).exit_code = out
        /\ Turn(e, r).pcs = Append(r.pcs, r.vm.pc)
    <3> HIDE DEF r
    <3> QED BY <2>5, TurnRun DEF r
  <2> HIDE DEF out, t
  <2>7. t.vm = After1(e, r.vm) /\ t.exit_code = out /\ t.pcs = Append(r.pcs, r.vm.pc)
    BY <2>5, <2>6
  <2> QED BY <2>3, <2>4, <2>7 DEF t, out
<1>7. \A n \in 0..N : Len(T[n].pcs) = n /\ \A k \in 1..n : T[n].pcs[k] = T[k - 1].vm.pc
  <2> DEFINE P(n) == Len(T[n].pcs) = n /\ \A k \in 1..n : T[n].pcs[k] = T[k - 1].vm.pc
             Bad == {n \in 0..N : ~P(n)}
  <2> SUFFICES ASSUME Bad # {} PROVE FALSE
    OBVIOUS
  <2>1. Bad \in SUBSET Nat
    BY <1>2
  <2>2. PICK m \in Bad : \A y \in Bad : m <= y
    BY <2>1, LeastNumber
  <2>3. m \in 0..N /\ ~P(m)
    BY <2>2
  <2>4. CASE m = 0
    <3>1. T[0].pcs = <<>>
      BY <1>2 DEF Started
    <3>2. P(0)
      BY <3>1
    <3> QED BY <2>3, <2>4, <3>2
  <2>5. CASE m # 0
    <3> DEFINE n == m - 1
    <3>1. n \in 0..N /\ n \in 0..N - 1 /\ n + 1 = m /\ n \in Nat /\ n \in 0..MaxInsns /\ n < m
      BY <1>1, <1>2, <2>3, <2>5
    <3>2. n \notin Bad
      BY <2>1, <2>2, <3>1
    <3>3. P(n)
      BY <3>1, <3>2
    <3>4. T[m].pcs = Append(T[n].pcs, T[n].vm.pc)
      BY <1>6, <3>1
    <3> DEFINE D == DOMAIN e.program
    <3>5. T[n].pcs \in Seq(D) /\ T[n].vm.pc \in D
      BY <1>2, <1>6, <3>1 DEF IsRun, Executes
    <3> DEFINE q == T[n].pcs
               x == T[n].vm.pc
    <3> HIDE DEF q, x, D
    <3>6. Len(Append(q, x)) = Len(q) + 1 /\ Append(q, x)[Len(q) + 1] = x
          /\ \A k \in 1..Len(q) : Append(q, x)[k] = q[k]
      BY <3>5 DEF q, x
    <3>7. Len(T[m].pcs) = m
      BY <3>1, <3>3, <3>4, <3>6 DEF q, x
    <3>8. ASSUME NEW k \in 1..m PROVE T[m].pcs[k] = T[k - 1].vm.pc
      <4>1. CASE k = m
        BY <3>1, <3>3, <3>4, <3>6, <4>1 DEF q, x
      <4>2. CASE k # m
        <5>1. k \in 1..n /\ k \in 1..Len(q)
          BY <3>1, <3>3, <4>2 DEF q
        <5>2. T[m].pcs[k] = q[k]
          BY <3>4, <3>6, <5>1 DEF q, x
        <5> QED BY <3>3, <5>1, <5>2 DEF q
      <4> QED BY <4>1, <4>2
    <3> QED BY <2>3, <3>7, <3>8
  <2> QED BY <2>4, <2>5
<1>8. pcs = T[N].pcs /\ Len(pcs) = N
  BY <1>2, <1>3, <1>4, <1>7
<1>9. ASSUME NEW n \in 0..N - 1 PROVE pcs[n + 1] = T[n].vm.pc
  <2>1. n + 1 \in 1..N /\ (n + 1) - 1 = n
    BY <1>2
  <2> QED BY <1>2, <1>7, <1>8, <2>1
<1> QED BY <1>1, <1>3, <1>4, <1>5, <1>6, <1>8, <1>9 DEF T

-----------------------------------------------------------------------------
(* The segments.                                                           *)

Segment == [instret_start : Nat, num_insns : Nat]

\* The tilings of n instructions, given by f those of fewer.
Cuts(f, n) ==
    IF n = 0 THEN {<<>>}
    ELSE UNION {{Append(t, [instret_start |-> n - k, num_insns |-> k]) : t \in f[n - k]} :
                k \in 1..n}

\* Only the tilings of fewer instructions matter.
LEMMA CutsAgree ==
    ASSUME NEW n \in Nat, NEW f, NEW g, \A k \in 0..n - 1 : f[k] = g[k]
    PROVE  Cuts(f, n) = Cuts(g, n)
<1>1. CASE n = 0
  BY <1>1 DEF Cuts
<1>2. CASE n # 0
  <2> DEFINE C(h, k) == {Append(t, [instret_start |-> n - k, num_insns |-> k]) : t \in h[n - k]}
  <2>1. ASSUME NEW k \in 1..n PROVE C(f, k) = C(g, k)
    <3>1. f[n - k] = g[n - k]
      OBVIOUS
    <3> QED BY <3>1
  <2>2. Cuts(f, n) = UNION {C(f, k) : k \in 1..n} /\ Cuts(g, n) = UNION {C(g, k) : k \in 1..n}
    BY <1>2 DEF Cuts
  <2> HIDE DEF C
  <2> QED BY <2>1, <2>2
<1> QED BY <1>1, <1>2

\* Tilings is well defined.
LEMMA TilingsDefined == Tilings = [n \in 0..MaxInsns |-> Cuts(Tilings, n)]
<1> DEFINE Def(f, m) == f = [n \in 0..m |-> Cuts(f, n)]
           Bad == {m \in Nat : ~\E f : Def(f, m)}
<1>1. Bad = {}
  <2> SUFFICES ASSUME Bad # {} PROVE FALSE
    OBVIOUS
  <2>1. PICK m \in Bad : m \in Nat /\ \A y \in Bad : m <= y
    BY LeastNumber
  <2>2. CASE m = 0
    <3> DEFINE f == [n \in 0..0 |-> {<<>>}]
    <3>1. Def(f, 0)
      BY DEF Cuts
    <3> QED BY <2>1, <2>2, <3>1
  <2>3. CASE m # 0
    <3>1. m - 1 \in Nat /\ m - 1 \notin Bad
      <4> HIDE DEF Bad
      <4> QED BY <2>1, <2>3
    <3>2. PICK f : Def(f, m - 1)
      BY <3>1
    <3> DEFINE g == [n \in 0..m |-> Cuts(f, n)]
    <3>3. ASSUME NEW k \in 0..m - 1 PROVE f[k] = g[k]
      BY <2>1, <3>2
    <3>4. ASSUME NEW n \in 0..m PROVE Cuts(f, n) = Cuts(g, n)
      <4> HIDE DEF g
      <4>1. n \in Nat /\ \A k \in 0..n - 1 : k \in 0..m - 1
        BY <2>1
      <4> QED BY <3>3, <4>1, CutsAgree
    <3>5. g = [n \in 0..m |-> Cuts(f, n)]
      OBVIOUS
    <3>6. Def(g, m)
      <4> HIDE DEF g
      <4> QED BY <3>4, <3>5
    <3> QED BY <2>1, <3>6
  <2> QED BY <2>2, <2>3
<1>2. \E f : Def(f, MaxInsns)
  BY <1>1, GuestAssumption
<1> QED BY <1>2 DEF Tilings, Cuts

\* A segment after those of a tiling is one of a longer tiling.
LEMMA TilesAppend ==
    ASSUME NEW t \in Seq(Segment), NEW n \in Nat, NEW k \in Nat, k > 0, Tiles(t, n)
    PROVE  LET s == Append(t, [instret_start |-> n, num_insns |-> k])
           IN s \in Seq(Segment) /\ Tiles(s, n + k)
<1> DEFINE r == [instret_start |-> n, num_insns |-> k]
           s == Append(t, r)
<1>1. r \in Segment /\ r.instret_start = n /\ r.num_insns = k
  BY DEF Segment
<1> HIDE DEF r
<1>2. s \in Seq(Segment) /\ Len(s) = Len(t) + 1 /\ Len(t) \in Nat
      /\ s[Len(t) + 1] = r /\ \A j \in 1..Len(t) : s[j] = t[j]
  BY <1>1
<1> HIDE DEF s
<1>3. ASSUME NEW j \in 0..Len(t) PROVE EndOf(s, j) = EndOf(t, j)
  BY <1>2 DEF EndOf
<1>4. EndOf(t, Len(t)) = n
  BY DEF Tiles
<1>5. EndOf(s, Len(s)) = n + k
  BY <1>1, <1>2 DEF EndOf
<1>6. ASSUME NEW j \in 1..Len(s)
      PROVE  s[j].num_insns > 0 /\ s[j].instret_start = EndOf(s, j - 1)
  <2>1. CASE j = Len(t) + 1
    <3>1. j - 1 \in 0..Len(t) /\ j - 1 = Len(t)
      BY <1>2, <2>1
    <3> QED BY <1>1, <1>2, <1>3, <1>4, <2>1, <3>1
  <2>2. CASE j # Len(t) + 1
    <3>1. j \in 1..Len(t) /\ j - 1 \in 0..Len(t)
      BY <1>2, <2>2
    <3> QED BY <1>2, <1>3, <3>1 DEF Tiles
  <2> QED BY <2>1, <2>2
<1> QED BY <1>2, <1>5, <1>6 DEF Tiles, s, r

\* The segments the metered execution may return tile the execution.
LEMMA TilingsTile ==
    \A n \in 0..MaxInsns : \A s \in Tilings[n] : s \in Seq(Segment) /\ Tiles(s, n)
<1> DEFINE Good(n) == \A s \in Tilings[n] : s \in Seq(Segment) /\ Tiles(s, n)
           Bad == {n \in 0..MaxInsns : ~Good(n)}
<1> SUFFICES ASSUME Bad # {} PROVE FALSE
  OBVIOUS
<1>1. MaxInsns \in Nat /\ Bad \in SUBSET Nat
  BY GuestAssumption
<1>2. PICK n \in Bad : \A y \in Bad : n <= y
  BY <1>1, LeastNumber
<1>3. n \in 0..MaxInsns /\ n \in Nat /\ ~Good(n)
  BY <1>1, <1>2
<1>4. Tilings[n] = Cuts(Tilings, n)
  <2> DEFINE F == Tilings
  <2>1. F = [m \in 0..MaxInsns |-> Cuts(F, m)]
    BY TilingsDefined
  <2> HIDE DEF F
  <2> QED BY <1>3, <2>1 DEF F
<1>5. CASE n = 0
  <2>1. Tilings[n] = {<<>>}
    BY <1>4, <1>5 DEF Cuts
  <2>2. <<>> \in Seq(Segment) /\ Tiles(<<>>, 0)
    BY DEF Tiles, EndOf
  <2> QED BY <1>3, <1>5, <2>1, <2>2
<1>6. CASE n # 0
  <2>1. PICK s \in Tilings[n] : ~(s \in Seq(Segment) /\ Tiles(s, n))
    BY <1>3
  <2> DEFINE C(k) == {Append(t, [instret_start |-> n - k, num_insns |-> k]) : t \in Tilings[n - k]}
  <2>2. PICK k \in 1..n : s \in C(k)
    <3>1. Cuts(Tilings, n) = UNION {C(k) : k \in 1..n}
      BY <1>6 DEF Cuts
    <3> HIDE DEF C
    <3> QED BY <1>4, <2>1, <3>1
  <2> PICK t \in Tilings[n - k] : s = Append(t, [instret_start |-> n - k, num_insns |-> k])
    BY <2>2
  <2>3. n - k \in 0..MaxInsns /\ n - k \in Nat /\ n - k < n /\ k \in Nat /\ k > 0 /\ (n - k) + k = n
    BY <1>1, <1>3
  <2>4. Good(n - k)
    BY <1>1, <1>2, <2>3
  <2>5. t \in Seq(Segment) /\ Tiles(t, n - k)
    BY <2>4
  <2>6. s \in Seq(Segment) /\ Tiles(s, (n - k) + k)
    BY <2>3, <2>5, TilesAppend
  <2> QED BY <2>1, <2>3, <2>6
<1> QED BY <1>5, <1>6

\* The segments of a tiling end one after the other, the last one at the end.
LEMMA TilesFacts ==
    ASSUME NEW s \in Seq(Segment), NEW n \in Nat, Tiles(s, n)
    PROVE  /\ EndOf(s, 0) = 0 /\ EndOf(s, Len(s)) = n
           /\ \A k \in 0..Len(s) : EndOf(s, k) \in 0..n /\ (EndOf(s, k) = n <=> k = Len(s))
           /\ \A k \in 1..Len(s) : /\ EndOf(s, k - 1) < EndOf(s, k)
                                   /\ EndOf(s, k) = EndOf(s, k - 1) + s[k].num_insns
<1>1. EndOf(s, 0) = 0 /\ EndOf(s, Len(s)) = n /\ Len(s) \in Nat
  BY DEF EndOf, Tiles
<1>2. ASSUME NEW k \in 0..Len(s) PROVE EndOf(s, k) \in Nat
  <2>1. CASE k = 0
    BY <1>1, <2>1
  <2>2. CASE k # 0
    <3>1. s[k] \in Segment
      BY <2>2
    <3> QED BY <2>2, <3>1 DEF EndOf, Segment
  <2> QED BY <2>1, <2>2
<1>3. ASSUME NEW k \in 1..Len(s)
      PROVE  EndOf(s, k - 1) < EndOf(s, k) /\ EndOf(s, k) = EndOf(s, k - 1) + s[k].num_insns
  <2>1. s[k] \in Segment /\ k # 0 /\ k - 1 \in 0..Len(s)
    OBVIOUS
  <2>2. s[k].num_insns > 0 /\ s[k].instret_start = EndOf(s, k - 1)
    BY DEF Tiles
  <2>3. EndOf(s, k) = EndOf(s, k - 1) + s[k].num_insns
    BY <2>1, <2>2 DEF EndOf
  <2>4. s[k].num_insns \in Nat /\ EndOf(s, k - 1) \in Nat
    BY <1>2, <2>1 DEF Segment
  <2> QED BY <2>2, <2>3, <2>4
<1>4. ASSUME NEW k \in 0..Len(s) PROVE EndOf(s, k) <= n /\ (EndOf(s, k) = n <=> k = Len(s))
  <2> DEFINE P(j) == EndOf(s, Len(s) - j) <= n /\ (j > 0 => EndOf(s, Len(s) - j) < n)
             Bad == {j \in 0..Len(s) : ~P(j)}
  <2>1. Bad = {}
    <3> SUFFICES ASSUME Bad # {} PROVE FALSE
      OBVIOUS
    <3>1. Bad \in SUBSET Nat
      BY <1>1
    <3>2. PICK j \in Bad : \A y \in Bad : j <= y
      BY <3>1, LeastNumber
    <3>3. j \in 0..Len(s) /\ ~P(j)
      BY <3>2
    <3>4. j # 0
      BY <1>1, <3>3
    <3>5. j - 1 \in 0..Len(s) /\ j - 1 < j /\ j - 1 \in Nat
      BY <1>1, <3>3, <3>4
    <3>6. P(j - 1)
      BY <3>1, <3>2, <3>5
    <3> DEFINE m == Len(s) - (j - 1)
    <3>7. m \in 1..Len(s) /\ m - 1 = Len(s) - j /\ Len(s) - j \in 0..Len(s) /\ m \in 0..Len(s)
      BY <1>1, <3>3, <3>4
    <3>8. EndOf(s, m) <= n
      BY <3>6
    <3> HIDE DEF m
    <3>9. EndOf(s, Len(s) - j) < EndOf(s, m)
      BY <1>3, <3>7
    <3> QED BY <1>2, <3>3, <3>7, <3>8, <3>9
  <2>2. Len(s) - k \in 0..Len(s) /\ Len(s) - (Len(s) - k) = k
    BY <1>1
  <2>3. P(Len(s) - k)
    BY <2>1, <2>2
  <2>4. EndOf(s, k) <= n /\ (Len(s) - k > 0 => EndOf(s, k) < n)
    BY <2>2, <2>3
  <2> QED BY <1>1, <1>2, <2>4
<1>5. ASSUME NEW k \in 0..Len(s) PROVE EndOf(s, k) \in 0..n /\ (EndOf(s, k) = n <=> k = Len(s))
  BY <1>2, <1>4
<1> QED BY <1>1, <1>3, <1>5

\* One more instruction is counted once.
LEMMA CountOfStep ==
    ASSUME NEW pcs, NEW pc, NEW from \in Nat, NEW n \in Nat, from <= n
    PROVE  /\ CountOf(pcs, pc, n, n) = 0
           /\ CountOf(pcs, pc, from, n) \in Nat
           /\ CountOf(pcs, pc, from, n + 1) =
                CountOf(pcs, pc, from, n) + (IF pcs[n + 1] = pc THEN 1 ELSE 0)
<1> DEFINE A(a, b) == {j \in a + 1..b : pcs[j] = pc}
<1>1. A(n, n) = {}
  OBVIOUS
<1>2. CountOf(pcs, pc, n, n) = 0
  BY <1>1, FS_EmptySet DEF CountOf
<1>3. IsFiniteSet(A(from, n))
  <2>1. IsFiniteSet(from + 1..n)
    BY FS_Interval
  <2> QED BY <2>1, FS_Subset
<1>4. CountOf(pcs, pc, from, n) \in Nat
  BY <1>3, FS_CardinalityType DEF CountOf
<1>5. CASE pcs[n + 1] = pc
  <2>1. A(from, n + 1) = A(from, n) \cup {n + 1} /\ n + 1 \notin A(from, n)
    BY <1>5
  <2> HIDE DEF A
  <2>2. Cardinality(A(from, n + 1)) = Cardinality(A(from, n)) + 1
    BY <1>3, <2>1, FS_AddElement
  <2> QED BY <1>2, <1>4, <1>5, <2>2 DEF CountOf, A
<1>6. CASE pcs[n + 1] # pc
  <2>1. A(from, n + 1) = A(from, n)
    BY <1>6
  <2> QED BY <1>2, <1>4, <1>6, <2>1 DEF CountOf
<1> QED BY <1>5, <1>6

-----------------------------------------------------------------------------
(* The inductive invariant.                                                *)

\* What the invariant says of the execution and the segments while they are proved.
LEMMA ProvingFacts ==
    ASSUME CallState, SegmentsFollow, Proving
    PROVE  /\ exe \in Exes /\ input \in Inputs /\ Length \in 1..MaxInsns /\ MaxInsns \in Nat
           /\ At(0).vm = VmStateInitial(exe, input)
           /\ At(Length) = Execution(exe, input) /\ At(Length).exit_code = {ExitSuccess}
           /\ \A n \in 0..Length : IsVmState(At(n).vm)
           /\ \A n \in 0..Length - 1 :
                /\ At(n).exit_code = Running /\ Executes(exe, At(n).vm)
                /\ At(n + 1).vm = After1(exe, At(n).vm)
                /\ At(n + 1).exit_code = IF Terminates(exe, At(n).vm)
                                         THEN {exe.program[At(n).vm.pc].code} ELSE Running
                /\ Execution(exe, input).pcs[n + 1] = At(n).vm.pc
           /\ segments \in Seq(Segment) /\ Len(segments) \in Nat /\ Len(proofs) \in Nat
           /\ Len(segments) > 0
           /\ EndOf(segments, 0) = 0 /\ EndOf(segments, Len(segments)) = Length
           /\ \A k \in 0..Len(segments) :
                /\ EndOf(segments, k) \in 0..Length
                /\ EndOf(segments, k) = Length <=> k = Len(segments)
           /\ \A k \in 1..Len(segments) :
                /\ EndOf(segments, k - 1) < EndOf(segments, k)
                /\ EndOf(segments, k) = EndOf(segments, k - 1) + segments[k].num_insns
<1>1. exe \in Exes /\ input \in Inputs /\ Succeeds(exe, input) /\ MaxInsns \in Nat
  BY GuestAssumption DEF CallState, SegmentsFollow, Proving
<1>2. segments \in Seq(Segment) /\ Tiles(segments, Length)
      /\ Len(segments) \in Nat /\ Len(proofs) \in Nat
  BY DEF SegmentsFollow, Segment
<1>3. /\ Length \in 1..MaxInsns
      /\ At(Length) = Execution(exe, input) /\ At(Length).exit_code = {ExitSuccess}
      /\ \A n \in 0..Length - 1 :
                /\ At(n).exit_code = Running /\ Executes(exe, At(n).vm)
                /\ At(n + 1).vm = After1(exe, At(n).vm)
                /\ At(n + 1).exit_code = IF Terminates(exe, At(n).vm)
                                         THEN {exe.program[At(n).vm.pc].code} ELSE Running
                /\ Execution(exe, input).pcs[n + 1] = At(n).vm.pc
  BY <1>1, SuccessfulRun DEF At, Length
<1>4. At(0).vm = VmStateInitial(exe, input)
  BY FirstTurn DEF At
<1>5. \A n \in 0..MaxInsns : IsVmState(At(n).vm)
  BY <1>1, TurnsRun DEF At, IsRun
<1>6. Length \in Nat /\ Length > 0 /\ \A n \in 0..Length : n \in 0..MaxInsns
  BY <1>1, <1>3
<1>7. /\ EndOf(segments, 0) = 0 /\ EndOf(segments, Len(segments)) = Length
      /\ \A k \in 0..Len(segments) :
                /\ EndOf(segments, k) \in 0..Length
                /\ EndOf(segments, k) = Length <=> k = Len(segments)
      /\ \A k \in 1..Len(segments) :
                /\ EndOf(segments, k - 1) < EndOf(segments, k)
                /\ EndOf(segments, k) = EndOf(segments, k - 1) + segments[k].num_insns
  BY <1>2, <1>6, TilesFacts
<1>8. Len(segments) > 0
  BY <1>2, <1>6, <1>7
<1> HIDE DEF Length, At
<1> QED BY <1>1, <1>2, <1>3, <1>4, <1>5, <1>6, <1>7, <1>8

\* Outside a call's execution the invariant is about the instance only.
LEMMA OutsideInv ==
    ASSUME phase' \in {"idle", "called", "panicked"}, CallState', StateKept'
    PROVE  IInv'
  BY DEF IInv, Proving, MeteredFollows, SegmentsFollow, LocalStateFollows, PreflightFollows,
         VerifierFollows

\* The initial state of an execution is a VmState.
LEMMA InitialState ==
    ASSUME NEW e, NEW i
    PROVE  IsVmState(VmStateInitial(e, i))
  BY DEF IsVmState, VmStateInitial, CreateMemoryImage, SetFromSparse

LEMMA InitInv == Init => IInv
<1> SUFFICES ASSUME Init PROVE IInv
  OBVIOUS
<1>1. IsVmState(state) /\ state # None
  BY InitialState, NoneAssumption DEF Init
<1>2. CallState
  BY DEF Init, CallState, Proving
<1>3. StateKept
  BY <1>1 DEF Init, StateKept, Proving
<1> QED
  BY <1>2, <1>3 DEF Init, IInv, Proving, MeteredFollows, SegmentsFollow, LocalStateFollows,
                    PreflightFollows, VerifierFollows

LEMMA CallInv ==
    ASSUME IInv, NEW i \in Inputs, Call(i)
    PROVE  IInv'
<1>1. CallState'
  BY DEF IInv, CallState, Call, Proving
<1>2. StateKept'
  BY DEF IInv, StateKept, Call, Proving, instance, IsVmState
<1> QED BY <1>1, <1>2, OutsideInv DEF Call

LEMMA ResetPanicsInv ==
    ASSUME IInv, ResetPanics
    PROVE  IInv'
<1>1. CallState'
  BY DEF IInv, CallState, ResetPanics, Drop, Proving
<1>2. StateKept'
  BY DEF IInv, StateKept, ResetPanics, Proving
<1> QED BY <1>1, <1>2, OutsideInv DEF ResetPanics

LEMMA ResetStateInv ==
    ASSUME IInv, ResetState
    PROVE  IInv'
<1>1. CallState'
  BY DEF IInv, CallState, ResetState, Proving
<1>2. IsVmState(state) /\ ~failed
  BY DEF IInv, StateKept, ResetState
<1>3. Reset(state) = VmStateInitial(exe, input)
  <2>1. state = [pc |-> state.pc, memory |-> [c \in Cells |-> state.memory[c]],
                 input_stream |-> state.input_stream, hint_stream |-> state.hint_stream,
                 rng |-> state.rng]
    BY <1>2 DEF IsVmState
  <2> DEFINE V(p, m, i, h, r) ==
               [pc |-> p, memory |-> m, input_stream |-> i, hint_stream |-> h, rng |-> r]
             s1 == [state EXCEPT !.pc = exe.pc_start]
             s2 == [s1 EXCEPT !.memory = SetFromSparse(FillZero, exe.init_memory)]
             s3 == [s2 EXCEPT !.input_stream = input]
             s4 == [s3 EXCEPT !.hint_stream = <<>>]
             s5 == [s4 EXCEPT !.rng = DEFAULT_RNG_SEED]
             mem == SetFromSparse(FillZero, exe.init_memory)
  <2>2. Reset(state) = s5
    BY DEF Reset
  <2>a. s1 = V(exe.pc_start, state.memory, state.input_stream, state.hint_stream, state.rng)
    BY <2>1
  <2> HIDE DEF s1, mem
  <2>b. s2 = V(exe.pc_start, mem, state.input_stream, state.hint_stream, state.rng)
    BY <2>a DEF mem
  <2> HIDE DEF s2
  <2>c. s3 = V(exe.pc_start, mem, input, state.hint_stream, state.rng)
    BY <2>b
  <2> HIDE DEF s3
  <2>d. s4 = V(exe.pc_start, mem, input, <<>>, state.rng)
    BY <2>c
  <2> HIDE DEF s4
  <2>e. s5 = V(exe.pc_start, mem, input, <<>>, DEFAULT_RNG_SEED)
    BY <2>d
  <2> HIDE DEF s5
  <2> QED BY <2>2, <2>e DEF mem, VmStateInitial, CreateMemoryImage
<1>4. StateKept'
  BY <1>2, <1>3 DEF StateKept, ResetState, Proving
<1>5. metered' = At(0)'
  BY TurnsStep DEF ResetState, At
<1>6. MeteredFollows'
  BY <1>5, GuestAssumption DEF MeteredFollows
<1> QED BY <1>1, <1>4, <1>6 DEF ResetState, IInv, Proving, SegmentsFollow, LocalStateFollows,
                                PreflightFollows, VerifierFollows

LEMMA ExecuteMeteredInv ==
    ASSUME IInv, ExecuteMetered
    PROVE  IInv'
<1>1. CallState'
  BY DEF IInv, CallState, ExecuteMetered, Proving
<1>2. StateKept'
  BY DEF IInv, StateKept, ExecuteMetered, Proving, instance
<1>3. PICK n \in 0..MaxInsns : metered = At(n)
  BY DEF IInv, MeteredFollows, ExecuteMetered
<1>4. exe \in Exes /\ input \in Inputs /\ ~Stopped(At(n)) /\ metered' = Turn(exe, At(n))
  BY <1>3 DEF IInv, CallState, ExecuteMetered, MeteredStops
<1>5. n + 1 \in 0..MaxInsns /\ metered' = At(n + 1)
  BY <1>4, StoppedIsEnd DEF At
<1>6. metered' = At(n + 1)'
  BY <1>5 DEF ExecuteMetered, At
<1>7. MeteredFollows'
  BY <1>5, <1>6 DEF MeteredFollows
<1> QED BY <1>1, <1>2, <1>7 DEF ExecuteMetered, IInv, Proving, SegmentsFollow, LocalStateFollows,
                                PreflightFollows, VerifierFollows

LEMMA MeteredFailsInv ==
    ASSUME IInv, MeteredFails
    PROVE  IInv'
<1>1. CallState'
  BY DEF IInv, CallState, MeteredFails, Drop, Proving
<1>2. exe \in Exes /\ input \in Inputs /\ ~failed /\ state = VmStateInitial(exe, input)
  BY DEF IInv, CallState, StateKept, MeteredFails
<1>3. state # None
  <2>1. state = Turns(exe, input)[0].vm
    BY <1>2, FirstTurn
  <2> QED BY <1>2, <2>1, NoneAssumption, GuestAssumption
<1>4. IsVmState(state)
  BY <1>2, InitialState
<1>5. StateKept'
  BY <1>2, <1>3, <1>4 DEF StateKept, MeteredFails, Proving, instance, IsVmState
<1> QED BY <1>1, <1>5, OutsideInv DEF MeteredFails

LEMMA MeteredInv ==
    ASSUME IInv, phase = "metered", NEW segs \in Tilings[Len(metered.pcs)], Metered(segs)
    PROVE  IInv'
<1>1. CallState'
  BY DEF IInv, CallState, Metered, Proving
<1>2. exe \in Exes /\ input \in Inputs /\ ~failed /\ state = VmStateInitial(exe, input)
      /\ proofs = <<>> /\ exe' = exe /\ input' = input /\ proofs' = <<>> /\ segments' = segs
      /\ local_state' = state /\ phase' = "segments"
  BY DEF IInv, CallState, StateKept, Metered, Proving
<1>3. StateKept'
  BY <1>2 DEF StateKept, Metered, Proving
<1>4. PICK n \in 0..MaxInsns : metered = At(n)
  BY DEF IInv, MeteredFollows
<1>5. metered = Execution(exe, input) /\ Succeeds(exe, input)
  BY <1>2, <1>4, StoppedIsEnd DEF Metered, MeteredStops, At, Succeeds
<1>6. Length \in 1..MaxInsns /\ Length = Len(metered.pcs)
  BY <1>2, <1>5, SuccessfulRun DEF Length
<1>7. segs \in Seq(Segment) /\ Tiles(segs, Length)
  BY <1>6, TilingsTile, GuestAssumption
<1>8. Length' = Length
  BY <1>2 DEF Length
<1>9. SegmentsFollow'
  <2>1. Succeeds(exe, input)'
    BY <1>2, <1>5
  <2>2. Tiles(segments, Length)' /\ segments' \in Seq([instret_start : Nat, num_insns : Nat])
    BY <1>2, <1>7, <1>8 DEF Segment
  <2>3. Len(proofs') = 0 /\ Len(segments') \in Nat
    BY <1>2, <2>2
  <2>4. proofs' \in Seq({ProofOfSegment(k) : k \in 1..Len(segments)}')
    BY <1>2
  <2> QED BY <2>1, <2>2, <2>3, <2>4 DEF SegmentsFollow
<1>10. LocalStateFollows'
  <2>1. EndOf(segments, Len(proofs))' = 0
    BY <1>2 DEF EndOf
  <2>2. At(0)'.vm = state
    BY <1>2, FirstTurn DEF At
  <2> QED BY <1>2, <2>1, <2>2 DEF LocalStateFollows
<1> QED BY <1>1, <1>2, <1>3, <1>9, <1>10 DEF IInv, MeteredFollows, PreflightFollows, VerifierFollows

\* What is said of the segments stays true while they stay.
LEMMA SegmentsStay ==
    ASSUME exe' = exe, input' = input, segments' = segments
    PROVE  /\ Length' = Length
           /\ \A k : ProofOfSegment(k)' = ProofOfSegment(k)
<1>1. Length' = Length
  BY DEF Length
<1>2. ASSUME NEW CONSTANT k PROVE ProofOfSegment(k)' = ProofOfSegment(k)
  BY <1>1 DEF ProofOfSegment, At, Counts
<1> QED BY <1>1, <1>2

LEMMA ProofsStay ==
    ASSUME SegmentsFollow, Proving, exe' = exe, input' = input, segments' = segments,
           proofs' = proofs
    PROVE  SegmentsFollow'
<1>1. Length' = Length /\ \A k : ProofOfSegment(k)' = ProofOfSegment(k)
  BY SegmentsStay
<1>2. Succeeds(exe, input)' /\ Tiles(segments, Length)'
      /\ (segments \in Seq([instret_start : Nat, num_insns : Nat]))' /\ Len(proofs') <= Len(segments')
  BY <1>1 DEF SegmentsFollow
<1>3. {ProofOfSegment(k) : k \in 1..Len(segments)}' = {ProofOfSegment(k) : k \in 1..Len(segments)}
  BY <1>1
<1>4. proofs' \in Seq({ProofOfSegment(k) : k \in 1..Len(segments)}')
  BY <1>3 DEF SegmentsFollow
<1>5. \A k \in 1..Len(proofs') : proofs'[k] = ProofOfSegment(k)'
  BY <1>1 DEF SegmentsFollow
<1> QED BY <1>2, <1>4, <1>5 DEF SegmentsFollow

\* The counts of a program's instructions, one more executed.
LEMMA CountsStep ==
    ASSUME NEW from \in Nat, NEW n \in Nat, from <= n
    PROVE  /\ Counts(n, n) = NoFrequencies
           /\ Counts(from, n + 1) =
                [pc \in DOMAIN Counts(from, n) |->
                   Counts(from, n)[pc]
                     + (IF pc = Execution(exe, input).pcs[n + 1] THEN 1 ELSE 0)]
<1> DEFINE pcs == Execution(exe, input).pcs
<1> HIDE DEF pcs
<1>1. ASSUME NEW pc \in DOMAIN exe.program
      PROVE  /\ CountOf(pcs, pc, n, n) = 0
             /\ CountOf(pcs, pc, from, n + 1) =
                  CountOf(pcs, pc, from, n) + (IF pc = pcs[n + 1] THEN 1 ELSE 0)
  BY CountOfStep
<1>2. \A a, b : Counts(a, b) = [pc \in DOMAIN exe.program |-> CountOf(pcs, pc, a, b)]
  BY DEF Counts, pcs
<1>3. Counts(n, n) = NoFrequencies
  BY <1>1, <1>2 DEF NoFrequencies
<1>4. Counts(from, n + 1) =
                [pc \in DOMAIN Counts(from, n) |->
                   Counts(from, n)[pc] + (IF pc = pcs[n + 1] THEN 1 ELSE 0)]
  BY <1>1, <1>2
<1> QED BY <1>3, <1>4 DEF pcs

LEMMA StartSegmentInv ==
    ASSUME IInv, StartSegment
    PROVE  IInv'
<1>1. Proving /\ CallState /\ SegmentsFollow /\ exe' = exe /\ input' = input /\ segments' = segments
      /\ proofs' = proofs /\ phase' = "preflight" /\ Len(proofs) < Len(segments)
  BY DEF IInv, StartSegment, Proving
<1>2. CallState'
  BY DEF IInv, CallState, StartSegment, Proving
<1>3. StateKept'
  BY DEF IInv, StateKept, StartSegment, Proving
<1>4. SegmentsFollow'
  BY <1>1, ProofsStay
<1> DEFINE from == EndOf(segments, Len(proofs))
           to == EndOf(segments, Len(proofs) + 1)
<1>5. from \in 0..Length - 1 /\ to \in 0..Length /\ from < to /\ from \in 0..MaxInsns
      /\ to - from = segments[Len(proofs) + 1].num_insns
  <2>1. Len(proofs) \in 0..Len(segments) /\ Len(proofs) + 1 \in 1..Len(segments)
        /\ (Len(proofs) + 1) - 1 = Len(proofs) /\ Len(proofs) + 1 \in 0..Len(segments)
    BY <1>1, ProvingFacts
  <2>2. Length \in 1..MaxInsns /\ MaxInsns \in Nat /\ from \in 0..Length /\ to \in 0..Length
        /\ from < to /\ to = from + segments[Len(proofs) + 1].num_insns
    BY <1>1, <2>1, ProvingFacts
  <2>3. segments[Len(proofs) + 1].num_insns \in Nat
    <3>1. segments \in Seq(Segment)
      BY <1>1, ProvingFacts
    <3>2. segments[Len(proofs) + 1] \in Segment
      BY <2>1, <3>1
    <3> QED BY <3>2 DEF Segment
  <2> HIDE DEF from, to
  <2> QED BY <2>2, <2>3
<1>6. At(from).exit_code = Running
  BY <1>1, <1>5, ProvingFacts
<1>7. local_state = At(from).vm
  BY DEF IInv, LocalStateFollows, StartSegment
<1>8. exec' = [from_pc |-> At(from).vm.pc, vm |-> At(from).vm, instret_left |-> to - from,
               exit_code |-> At(from).exit_code, touched |-> {}]
      /\ initial_memory' = At(from).vm.memory
  BY <1>5, <1>6, <1>7 DEF StartSegment
<1>9. frequencies' = Counts(from, from)
  <2>1. frequencies' = NoFrequencies
    BY DEF StartSegment, ResetFrequencies
  <2>2. from \in Nat /\ from <= from
    BY <1>5
  <2> HIDE DEF from
  <2> QED BY <2>1, <2>2, CountsStep
<1>10. At(from)' = At(from) /\ Counts(from, from)' = Counts(from, from) /\ from' = from /\ to' = to
  BY <1>1 DEF At, Counts
<1>11. exec'.touched = {}
  BY <1>8
<1>12. ExecAt(from)'
  <2>1. exec' = [from_pc |-> At(from)'.vm.pc, vm |-> At(from)'.vm, instret_left |-> to' - from',
                 exit_code |-> At(from)'.exit_code, touched |-> exec'.touched]
    BY <1>8, <1>10, <1>11
  <2>2. from' <= from' /\ from' <= to'
    BY <1>5, <1>10
  <2>3. initial_memory' = At(from)'.vm.memory
    BY <1>8, <1>10
  <2>4. frequencies' = Counts(from, from)'
    BY <1>9, <1>10
  <2> QED BY <2>1, <2>2, <2>3, <2>4 DEF ExecAt
<1>13. PreflightFollows'
  <2>1. from' \in 0..MaxInsns
    BY <1>5, <1>10
  <2> HIDE DEF from
  <2> QED BY <1>1, <1>12, <2>1 DEF PreflightFollows
<1> QED BY <1>1, <1>2, <1>3, <1>4, <1>13 DEF IInv, MeteredFollows, LocalStateFollows, VerifierFollows

\* The preflight execution stops exactly at the end of its segment.
LEMMA PreflightFacts ==
    ASSUME IInv, phase = "preflight", NEW CONSTANT n \in 0..MaxInsns, ExecAt(n)
    PROVE  LET from == EndOf(segments, Len(proofs))
               to == EndOf(segments, Len(proofs) + 1)
           IN /\ from \in 0..Length /\ to \in 0..Length /\ from < to /\ Length \in Nat
              /\ Len(proofs) + 1 \in 1..Len(segments) /\ from <= n /\ n <= to
              /\ to = Length <=> Len(proofs) + 1 = Len(segments)
              /\ ~Stops => n < to /\ n \in 0..Length - 1
              /\ Stops => n = to
              /\ FinalTree = At(n).vm.memory
<1> DEFINE from == EndOf(segments, Len(proofs))
           to == EndOf(segments, Len(proofs) + 1)
<1>1. Proving /\ CallState /\ SegmentsFollow /\ Len(proofs) < Len(segments)
  BY DEF IInv, Proving, PreflightFollows
<1>2. Len(proofs) \in 0..Len(segments) /\ Len(proofs) + 1 \in 1..Len(segments)
      /\ (Len(proofs) + 1) - 1 = Len(proofs) /\ Len(proofs) + 1 \in 0..Len(segments)
  BY <1>1, ProvingFacts
<1>3. /\ Length \in 1..MaxInsns /\ MaxInsns \in Nat /\ from \in 0..Length /\ to \in 0..Length
      /\ from < to
      /\ to = Length <=> Len(proofs) + 1 = Len(segments)
  BY <1>1, <1>2, ProvingFacts
<1>4. /\ from <= n /\ n <= to
      /\ exec = [from_pc |-> At(from).vm.pc, vm |-> At(n).vm, instret_left |-> to - n,
                 exit_code |-> At(n).exit_code, touched |-> exec.touched]
      /\ initial_memory = At(from).vm.memory
      /\ \A c \in Cells \ exec.touched : At(n).vm.memory[c] = initial_memory[c]
  BY DEF ExecAt
<1>5. exec.vm = At(n).vm /\ exec.instret_left = to - n /\ exec.exit_code = At(n).exit_code
  <2> HIDE DEF from, to
  <2> QED BY <1>4
<1> HIDE DEF from, to
<1>6. n \in 0..Length /\ n \in Nat /\ from \in Nat /\ to \in Nat /\ Length \in Nat
  BY <1>3, <1>4
<1>7. ASSUME ~Stops PROVE n < to /\ n \in 0..Length - 1
  <2>1. to - n # 0
    BY <1>5, <1>7 DEF Stops
  <2> QED BY <1>3, <1>4, <1>6, <2>1
<1>8. ASSUME Stops PROVE n = to
  <2> SUFFICES ASSUME n # to PROVE FALSE
    OBVIOUS
  <2>1. n \in 0..Length - 1 /\ to - n # 0
    BY <1>3, <1>4, <1>6
  <2>2. At(n).exit_code = Running
    BY <1>1, <2>1, ProvingFacts
  <2> QED BY <1>5, <1>8, <2>1, <2>2 DEF Stops
<1>9. FinalTree = At(n).vm.memory
  <2>1. IsVmState(At(n).vm)
    BY <1>1, <1>6, ProvingFacts
  <2> DEFINE mem == At(n).vm.memory
  <2>2. mem = [c \in Cells |-> mem[c]]
    BY <2>1 DEF IsVmState
  <2>3. \A c \in Cells \ exec.touched : mem[c] = initial_memory[c]
    BY <1>4
  <2>4. FinalTree = [c \in Cells |-> IF c \in exec.touched THEN mem[c] ELSE initial_memory[c]]
    BY <1>5 DEF FinalTree
  <2> HIDE DEF mem
  <2>5. [c \in Cells |-> IF c \in exec.touched THEN mem[c] ELSE initial_memory[c]]
          = [c \in Cells |-> mem[c]]
    BY <2>3
  <2> QED BY <2>2, <2>4, <2>5 DEF mem
<1> QED BY <1>2, <1>3, <1>4, <1>6, <1>7, <1>8, <1>9 DEF from, to

LEMMA ExecuteInstructionInv ==
    ASSUME IInv, ExecuteInstruction
    PROVE  IInv' /\ UNCHANGED <<exe, phase, input, result, failed>>
<1>1. Proving /\ CallState /\ SegmentsFollow /\ phase = "preflight" /\ ~Stops
      /\ Len(proofs) < Len(segments)
  BY DEF IInv, Proving, ExecuteInstruction, PreflightFollows
<1>2. PICK n \in 0..MaxInsns : ExecAt(n)
  BY <1>1 DEF IInv, PreflightFollows
<1> DEFINE from == EndOf(segments, Len(proofs))
           to == EndOf(segments, Len(proofs) + 1)
<1>3. from \in 0..Length /\ to \in 0..Length /\ Length \in Nat /\ from <= n /\ n < to
      /\ n \in 0..Length - 1
  BY <1>1, <1>2, PreflightFacts
<1>4. /\ exec = [from_pc |-> At(from).vm.pc, vm |-> At(n).vm, instret_left |-> to - n,
                 exit_code |-> At(n).exit_code, touched |-> exec.touched]
      /\ initial_memory = At(from).vm.memory
      /\ \A c \in Cells \ exec.touched : At(n).vm.memory[c] = initial_memory[c]
      /\ frequencies = Counts(from, n)
  BY <1>2 DEF ExecAt
<1>5. /\ exe \in Exes /\ Length \in 1..MaxInsns /\ MaxInsns \in Nat
      /\ Executes(exe, At(n).vm) /\ At(n + 1).vm = After1(exe, At(n).vm)
      /\ At(n + 1).exit_code = IF Terminates(exe, At(n).vm)
                               THEN {exe.program[At(n).vm.pc].code} ELSE Running
      /\ Execution(exe, input).pcs[n + 1] = At(n).vm.pc
      /\ IsVmState(At(n).vm)
  <2>1. n \in 0..Length /\ n \in 0..Length - 1
    BY <1>3
  <2> QED BY <1>1, <2>1, ProvingFacts
<1>6. exec.vm = At(n).vm /\ exec.instret_left = to - n
  <2> HIDE DEF from, to
  <2> QED BY <1>4
<1> DEFINE vm == At(n).vm
           insn == exe.program[vm.pc]
           code == IF Terminates(exe, vm) THEN {insn.code} ELSE Running
           touched == exec.touched \cup TouchedBy(insn)
<1>7. /\ exec' = [exec EXCEPT !.vm = After1(exe, vm), !.exit_code = code,
                              !.touched = touched, !.instret_left = @ - 1]
      /\ UNCHANGED <<phase, input, segments, local_state, proofs, metered, verifier, result,
                     failed, exe, state, initial_memory, top_tree, calls>>
      /\ frequencies' = [pc \in DOMAIN frequencies |->
                            frequencies[pc] + (IF pc = vm.pc THEN 1 ELSE 0)]
  BY <1>5, <1>6 DEF ExecuteInstruction
<1>8. exec' = [from_pc |-> At(from).vm.pc, vm |-> At(n + 1).vm, instret_left |-> to - (n + 1),
               exit_code |-> At(n + 1).exit_code, touched |-> touched]
  <2> DEFINE R(f, v, l, x, t) ==
               [from_pc |-> f, vm |-> v, instret_left |-> l, exit_code |-> x, touched |-> t]
             e1 == [exec EXCEPT !.vm = After1(exe, vm)]
             e2 == [e1 EXCEPT !.exit_code = code]
             e3 == [e2 EXCEPT !.touched = touched]
             e4 == [e3 EXCEPT !.instret_left = @ - 1]
             fpc == At(from).vm.pc
             left == to - n
             was == At(n).exit_code
             next == At(n + 1)
             old == exec.touched
  <2>1. exec' = e4
    <3> HIDE DEF vm, code, touched
    <3> QED BY <1>7
  <2>2. exec = R(fpc, vm, left, was, old)
    BY <1>4
  <2>3. next.vm = After1(exe, vm) /\ next.exit_code = code
    BY <1>5
  <2>4. left - 1 = to - (n + 1)
    <3> HIDE DEF from, to
    <3> QED BY <1>3
  <2> HIDE DEF from, to, code, touched, fpc, left, was, next, old, vm
  <2>5. e1 = R(fpc, next.vm, left, was, old)
    BY <2>2, <2>3
  <2> HIDE DEF e1
  <2>6. e2 = R(fpc, next.vm, left, next.exit_code, old)
    BY <2>3, <2>5
  <2> HIDE DEF e2
  <2>7. e3 = R(fpc, next.vm, left, next.exit_code, touched)
    BY <2>6
  <2> HIDE DEF e3
  <2>8. e4 = R(fpc, next.vm, left - 1, next.exit_code, touched)
    BY <2>7
  <2> HIDE DEF e4
  <2> QED BY <2>1, <2>4, <2>8 DEF fpc, next
<1>9. exec'.touched = touched
  <2> HIDE DEF from, to, touched
  <2> QED BY <1>8
<1>10. ASSUME NEW c \in Cells \ touched PROVE At(n + 1).vm.memory[c] = initial_memory[c]
  <2>1. c \in Cells \ exec.touched /\ c \in Cells \ TouchedBy(exe.program[vm.pc])
    OBVIOUS
  <2>2. After1(exe, vm).memory[c] = vm.memory[c]
    <3> HIDE DEF vm
    <3> QED BY <1>5, <2>1, After1State DEF vm
  <2> QED BY <1>4, <1>5, <2>1, <2>2
<1>11. frequencies' = Counts(from, n + 1)
  <2>1. from \in Nat /\ n \in Nat /\ from <= n
    BY <1>3
  <2>2. vm.pc = Execution(exe, input).pcs[n + 1] /\ frequencies = Counts(from, n)
    BY <1>4, <1>5
  <2> HIDE DEF from, vm
  <2>3. Counts(from, n + 1) = [pc \in DOMAIN Counts(from, n) |->
                                 Counts(from, n)[pc] + (IF pc = vm.pc THEN 1 ELSE 0)]
    BY <2>1, <2>2, CountsStep
  <2> QED BY <1>7, <2>2, <2>3
<1>12. /\ At(n + 1)' = At(n + 1) /\ At(from)' = At(from) /\ from' = from /\ to' = to
       /\ Counts(from, n + 1)' = Counts(from, n + 1)
  BY <1>7 DEF At, Counts
<1>13. ExecAt(n + 1)'
  <2>1. from' <= n + 1 /\ n + 1 <= to'
    <3> HIDE DEF from, to
    <3> QED BY <1>3, <1>12
  <2>2. exec' = [from_pc |-> At(from)'.vm.pc, vm |-> At(n + 1)'.vm, instret_left |-> to' - (n + 1),
                 exit_code |-> At(n + 1)'.exit_code, touched |-> exec'.touched]
    <3> HIDE DEF from, to, touched
    <3> QED BY <1>8, <1>9, <1>12
  <2>3. initial_memory' = At(from)'.vm.memory
    BY <1>4, <1>7, <1>12
  <2>4. \A c \in Cells \ exec'.touched : At(n + 1)'.vm.memory[c] = initial_memory'[c]
    <3> HIDE DEF touched
    <3> QED BY <1>7, <1>9, <1>10, <1>12
  <2>5. frequencies' = Counts(from, n + 1)'
    BY <1>11, <1>12
  <2> QED BY <2>1, <2>2, <2>3, <2>4, <2>5 DEF ExecAt
<1>14. PreflightFollows'
  <2>1. n + 1 \in 0..MaxInsns
    BY <1>3, <1>5
  <2> QED BY <1>1, <1>7, <1>13, <2>1 DEF PreflightFollows
<1>15. CallState'
  BY <1>1, <1>7 DEF CallState, Proving
<1>16. StateKept'
  BY <1>1, <1>7 DEF IInv, StateKept, Proving
<1>17. SegmentsFollow'
  BY <1>1, <1>7, ProofsStay
<1> QED BY <1>1, <1>7, <1>14, <1>15, <1>16, <1>17
        DEF IInv, MeteredFollows, LocalStateFollows, VerifierFollows

\* At the end of a segment, its proof is that of the segment.
LEMMA SegmentProofIs ==
    ASSUME IInv, phase = "preflight", Stops
    PROVE  /\ SegmentProof = ProofOfSegment(Len(proofs) + 1)
           /\ exec.vm = At(EndOf(segments, Len(proofs) + 1)).vm
           /\ FinalTree = exec.vm.memory
           /\ Len(proofs) + 1 \in 1..Len(segments)
<1>1. Proving /\ CallState /\ SegmentsFollow
  BY DEF IInv, Proving
<1> DEFINE from == EndOf(segments, Len(proofs))
           to == EndOf(segments, Len(proofs) + 1)
<1>2. PICK n \in 0..MaxInsns : ExecAt(n)
  BY DEF IInv, PreflightFollows
<1>3. from \in 0..Length /\ to \in 0..Length /\ Length \in Nat /\ n = to
      /\ FinalTree = At(n).vm.memory /\ Len(proofs) + 1 \in 1..Len(segments)
  BY <1>2, PreflightFacts
<1>4. /\ exec = [from_pc |-> At(from).vm.pc, vm |-> At(to).vm, instret_left |-> to - to,
                 exit_code |-> At(to).exit_code, touched |-> exec.touched]
      /\ initial_memory = At(from).vm.memory
      /\ frequencies = Counts(from, to)
  BY <1>2, <1>3 DEF ExecAt
<1>5. exec.from_pc = At(from).vm.pc /\ exec.vm = At(to).vm /\ exec.exit_code = At(to).exit_code
  <2> HIDE DEF from, to
  <2> QED BY <1>4
<1>6. CASE to = Length
  <2>1. exec.exit_code = {0}
    BY <1>1, <1>5, <1>6, ProvingFacts DEF ExitSuccess
  <2>2. exec.exit_code # Running /\ (CHOOSE c \in exec.exit_code : TRUE) = Success
    BY <2>1 DEF Running, Success
  <2>3. SegmentProof =
          [stark |-> TRUE, boundary |-> TRUE, program |-> exe.program,
           initial_pc |-> At(from).vm.pc, final_pc |-> At(to).vm.pc,
           is_terminate |-> 1, exit_code |-> Success,
           initial_root |-> At(from).vm.memory, final_root |-> At(to).vm.memory,
           frequencies |-> Counts(from, to)]
    BY <1>3, <1>4, <1>5, <2>2 DEF SegmentProof
  <2>4. (Len(proofs) + 1) - 1 = Len(proofs)
    BY <1>1, ProvingFacts
  <2>5. ProofOfSegment(Len(proofs) + 1) =
          [stark |-> TRUE, boundary |-> TRUE, program |-> exe.program,
           initial_pc |-> At(from).vm.pc, final_pc |-> At(to).vm.pc,
           is_terminate |-> 1, exit_code |-> Success,
           initial_root |-> At(from).vm.memory, final_root |-> At(to).vm.memory,
           frequencies |-> Counts(from, to)]
    BY <1>6, <2>4 DEF ProofOfSegment
  <2> QED BY <1>3, <1>5, <2>3, <2>5
<1>7. CASE to # Length
  <2>1. to \in 0..Length - 1
    BY <1>3, <1>7
  <2>2. exec.exit_code = Running
    BY <1>1, <1>5, <2>1, ProvingFacts
  <2>3. SegmentProof =
          [stark |-> TRUE, boundary |-> TRUE, program |-> exe.program,
           initial_pc |-> At(from).vm.pc, final_pc |-> At(to).vm.pc,
           is_terminate |-> 0, exit_code |-> DEFAULT_SUSPEND_EXIT_CODE,
           initial_root |-> At(from).vm.memory, final_root |-> At(to).vm.memory,
           frequencies |-> Counts(from, to)]
    BY <1>3, <1>4, <1>5, <2>2 DEF SegmentProof
  <2>4. (Len(proofs) + 1) - 1 = Len(proofs)
    BY <1>1, ProvingFacts
  <2>5. ProofOfSegment(Len(proofs) + 1) =
          [stark |-> TRUE, boundary |-> TRUE, program |-> exe.program,
           initial_pc |-> At(from).vm.pc, final_pc |-> At(to).vm.pc,
           is_terminate |-> 0, exit_code |-> DEFAULT_SUSPEND_EXIT_CODE,
           initial_root |-> At(from).vm.memory, final_root |-> At(to).vm.memory,
           frequencies |-> Counts(from, to)]
    BY <1>7, <2>4 DEF ProofOfSegment
  <2> QED BY <1>3, <1>5, <2>3, <2>5
<1> QED BY <1>6, <1>7

LEMMA ProveSegmentInv ==
    ASSUME IInv, ProveSegment
    PROVE  IInv'
<1>1. Proving /\ CallState /\ SegmentsFollow /\ phase = "preflight" /\ Stops /\ exe' = exe
      /\ input' = input /\ segments' = segments /\ phase' = "segments" /\ top_tree' = FinalTree
      /\ proofs' = Append(proofs, SegmentProof) /\ local_state' = exec.vm
  BY DEF IInv, Proving, ProveSegment
<1> DEFINE P == {ProofOfSegment(k) : k \in 1..Len(segments)}
           p == ProofOfSegment(Len(proofs) + 1)
           m == Len(proofs) + 1
<1>2. SegmentProof = p /\ exec.vm = At(EndOf(segments, m)).vm /\ FinalTree = exec.vm.memory
      /\ m \in 1..Len(segments) /\ Len(segments) \in Nat /\ Len(proofs) \in Nat
  BY <1>1, SegmentProofIs, ProvingFacts
<1>3. p \in P /\ proofs \in Seq(P) /\ \A k \in 1..Len(proofs) : proofs[k] = ProofOfSegment(k)
  BY <1>1, <1>2 DEF SegmentsFollow
<1>4. proofs' \in Seq(P) /\ Len(proofs') = m /\ proofs'[m] = p
      /\ \A k \in 1..Len(proofs) : proofs'[k] = proofs[k]
  <2>1. ASSUME NEW Q, NEW q \in Seq(Q), NEW x \in Q
        PROVE  Append(q, x) \in Seq(Q) /\ Len(Append(q, x)) = Len(q) + 1
               /\ Append(q, x)[Len(q) + 1] = x /\ \A k \in 1..Len(q) : Append(q, x)[k] = q[k]
    OBVIOUS
  <2> HIDE DEF P, p
  <2> QED BY <1>1, <1>2, <1>3, <2>1
<1>5. Length' = Length /\ \A k : ProofOfSegment(k)' = ProofOfSegment(k)
  BY <1>1, SegmentsStay
<1>6. SegmentsFollow'
  <2>1. Succeeds(exe, input)' /\ Tiles(segments, Length)'
        /\ (segments \in Seq([instret_start : Nat, num_insns : Nat]))'
    BY <1>1, <1>5 DEF SegmentsFollow
  <2>2. Len(proofs') <= Len(segments')
    BY <1>1, <1>2, <1>4
  <2>3. {ProofOfSegment(k) : k \in 1..Len(segments)}' = P
    BY <1>1, <1>5
  <2>4. proofs' \in Seq({ProofOfSegment(k) : k \in 1..Len(segments)}')
    <3> HIDE DEF P
    <3> QED BY <1>4, <2>3
  <2>5. \A k \in 1..Len(proofs') : proofs'[k] = ProofOfSegment(k)
    <3> SUFFICES ASSUME NEW k \in 1..Len(proofs') PROVE proofs'[k] = ProofOfSegment(k)
      OBVIOUS
    <3>1. k = m \/ k \in 1..Len(proofs)
      BY <1>2, <1>4
    <3> QED BY <1>3, <1>4, <3>1
  <2>6. \A k \in 1..Len(proofs') : proofs'[k] = ProofOfSegment(k)'
    BY <1>5, <2>5
  <2> QED BY <2>1, <2>2, <2>4, <2>6 DEF SegmentsFollow
<1>7. LocalStateFollows'
  <2>1. At(EndOf(segments, Len(proofs)))' = At(EndOf(segments, m))
    BY <1>1, <1>4 DEF At
  <2> QED BY <1>1, <1>2, <2>1 DEF LocalStateFollows
<1>8. CallState'
  BY <1>1 DEF CallState, Proving, ProveSegment
<1>9. StateKept'
  BY <1>1 DEF IInv, StateKept, Proving, ProveSegment
<1> QED BY <1>1, <1>6, <1>7, <1>8, <1>9 DEF IInv, MeteredFollows, PreflightFollows, VerifierFollows

LEMMA GenerationFailsInv ==
    ASSUME IInv, GenerationFails
    PROVE  IInv'
<1>1. CallState'
  BY DEF IInv, CallState, GenerationFails, FailCall, Drop, Proving
<1>2. StateKept'
  BY DEF IInv, StateKept, GenerationFails, FailCall, Proving
<1> QED BY <1>1, <1>2, OutsideInv DEF GenerationFails, FailCall

LEMMA EnginePanicsInv ==
    ASSUME IInv, EnginePanics
    PROVE  IInv'
<1>1. CallState'
  BY DEF IInv, CallState, EnginePanics, Drop, Proving
<1>2. StateKept'
  BY DEF IInv, StateKept, EnginePanics, Proving
<1> QED BY <1>1, <1>2, OutsideInv DEF EnginePanics

LEMMA FinishInv ==
    ASSUME IInv, Finish
    PROVE  IInv'
<1>1. Proving /\ CallState /\ SegmentsFollow /\ phase = "segments" /\ exe' = exe
      /\ input' = input /\ segments' = segments /\ proofs' = proofs /\ phase' = "verify"
      /\ state' = local_state /\ Len(proofs) = Len(segments)
  BY DEF IInv, Proving, Finish
<1>2. Len(segments) > 0 /\ Len(proofs) \in Nat /\ EndOf(segments, Len(segments)) = Length
  BY <1>1, ProvingFacts
<1>3. proofs # <<>>
  BY <1>1, <1>2
<1>4. local_state = At(Length).vm /\ top_tree = At(Length).vm.memory
  BY <1>1, <1>2, <1>3 DEF IInv, LocalStateFollows
<1>5. Length' = Length /\ At(Length)' = At(Length)
  BY <1>1, SegmentsStay DEF At
<1>6. CallState'
  BY <1>1 DEF CallState, Proving, Finish
<1>7. StateKept'
  BY <1>1, <1>4, <1>5 DEF IInv, StateKept, Proving, Finish
<1>8. SegmentsFollow'
  BY <1>1, ProofsStay
<1>9. VerifierFollows'
  <2>1. verifier' = [acc |-> FirstSegment, next |-> 1, error |-> "none",
                     public_values |-> [values |-> At(Length).vm.memory[PvCell],
                                        tree |-> At(Length).vm.memory]]
    BY <1>3, <1>4 DEF Finish
  <2>2. verifier'.next = 1
    BY <2>1
  <2>3. AccAfter(verifier.next - 1)' = FirstSegment
    BY <2>2 DEF AccAfter
  <2>4. verifier'.next \in 1..Len(proofs') + 1
    BY <1>1, <1>2, <2>2
  <2> QED BY <1>1, <1>5, <2>1, <2>2, <2>3, <2>4 DEF VerifierFollows
<1> QED BY <1>1, <1>6, <1>7, <1>8, <1>9
        DEF IInv, MeteredFollows, LocalStateFollows, PreflightFollows

\* The proof of every segment passes, after those of the segments before.
LEMMA SegmentPasses ==
    ASSUME CallState, SegmentsFollow, Proving, NEW k \in 1..Len(segments)
    PROVE  /\ ErrorOf(AccAfter(k - 1), ProofOfSegment(k), k = 1, k = Len(segments)) = "none"
           /\ After(AccAfter(k - 1), ProofOfSegment(k), k = 1) = AccAfter(k)
<1> DEFINE p == ProofOfSegment(k)
           from == EndOf(segments, k - 1)
           to == EndOf(segments, k)
           a == At(from)
           b == At(to)
           acc == AccAfter(k - 1)
<1>1. /\ p.stark /\ p.boundary /\ p.program = exe.program /\ p.initial_pc = a.vm.pc
      /\ p.final_pc = b.vm.pc /\ p.initial_root = a.vm.memory /\ p.final_root = b.vm.memory
      /\ p.is_terminate = (IF to = Length THEN 1 ELSE 0)
      /\ p.exit_code = (IF to = Length THEN Success ELSE DEFAULT_SUSPEND_EXIT_CODE)
  <2> HIDE DEF a, b, from, to
  <2> QED BY DEF ProofOfSegment, a, b, from, to
<1>2. k \in 0..Len(segments) /\ k \in Nat /\ (to = Length <=> k = Len(segments))
      /\ EndOf(segments, 0) = 0
  BY ProvingFacts
<1>3. CASE k = 1
  <2>1. from = 0 /\ acc = FirstSegment
    BY <1>2, <1>3 DEF AccAfter
  <2>2. a = At(0)
    BY <2>1
  <2>3. ErrorOf(acc, p, k = 1, k = Len(segments)) = "none"
    <3> HIDE DEF p, acc, from, to, a, b
    <3> QED BY <1>1, <1>2, <1>3 DEF ErrorOf, ProgramCommitMismatch, InitialPcMismatch,
                        IsTerminateMismatch, ExitCodeMismatch, MemoryRootMismatch
  <2>4. After(acc, p, k = 1) =
          [program_commit |-> exe.program, start_pc |-> At(0).vm.pc,
           initial_memory_root |-> At(0).vm.memory,
           prev_final_pc |-> b.vm.pc, prev_final_memory_root |-> b.vm.memory]
    <3> HIDE DEF p, acc, from, to, a, b
    <3> QED BY <1>1, <1>3, <2>2 DEF After
  <2> QED BY <1>3, <2>3, <2>4 DEF AccAfter
<1>4. CASE k # 1
  <2>1. acc = [program_commit |-> exe.program, start_pc |-> At(0).vm.pc,
               initial_memory_root |-> At(0).vm.memory,
               prev_final_pc |-> a.vm.pc, prev_final_memory_root |-> a.vm.memory]
    BY <1>2, <1>4 DEF AccAfter
  <2> HIDE DEF p, acc, a, b, from, to
  <2>2. /\ acc.program_commit = exe.program /\ acc.start_pc = At(0).vm.pc
        /\ acc.initial_memory_root = At(0).vm.memory
        /\ acc.prev_final_pc = a.vm.pc /\ acc.prev_final_memory_root = a.vm.memory
    BY <2>1
  <2>3. ErrorOf(acc, p, k = 1, k = Len(segments)) = "none"
    BY <1>1, <1>2, <1>4, <2>2 DEF ErrorOf, ProgramCommitMismatch, InitialPcMismatch,
                             IsTerminateMismatch, ExitCodeMismatch, MemoryRootMismatch
  <2>4. After(acc, p, k = 1) =
          [program_commit |-> exe.program, start_pc |-> At(0).vm.pc,
           initial_memory_root |-> At(0).vm.memory,
           prev_final_pc |-> b.vm.pc, prev_final_memory_root |-> b.vm.memory]
    BY <1>1, <1>4, <2>2 DEF After
  <2>5. AccAfter(k) =
          [program_commit |-> exe.program, start_pc |-> At(0).vm.pc,
           initial_memory_root |-> At(0).vm.memory,
           prev_final_pc |-> b.vm.pc, prev_final_memory_root |-> b.vm.memory]
    BY <1>2 DEF AccAfter, b, to
  <2> QED BY <2>3, <2>4, <2>5 DEF acc, p
<1> QED BY <1>3, <1>4

LEMMA VerifySegmentInv ==
    ASSUME IInv, VerifySegment
    PROVE  IInv'
<1>1. Proving /\ CallState /\ SegmentsFollow /\ phase = "verify" /\ exe' = exe
      /\ input' = input /\ segments' = segments /\ proofs' = proofs /\ phase' = "verify"
      /\ Len(proofs) = Len(segments) /\ Verifying
  BY DEF IInv, Proving, VerifySegment, VerifierFollows
<1> DEFINE k == verifier.next
           pv == [values |-> At(Length).vm.memory[PvCell], tree |-> At(Length).vm.memory]
<1>2. k \in 1..Len(segments) /\ Len(segments) \in Nat
  BY <1>1, ProvingFacts DEF IInv, VerifierFollows, Verifying
<1>3. verifier = [acc |-> AccAfter(k - 1), next |-> k, error |-> "none", public_values |-> pv]
  BY <1>1 DEF IInv, VerifierFollows
<1>4. proofs[k] = ProofOfSegment(k) /\ verifier.acc = AccAfter(k - 1)
  <2>1. proofs[k] = ProofOfSegment(k)
    BY <1>1, <1>2 DEF SegmentsFollow
  <2> HIDE DEF k, pv
  <2> QED BY <1>3, <2>1
<1>5. verifier' = [verifier EXCEPT !.error = "none", !.acc = AccAfter(k), !.next = k + 1]
  <2>1. verifier' = [verifier EXCEPT
          !.error = ErrorOf(AccAfter(k - 1), ProofOfSegment(k), k = 1, k = Len(segments)),
          !.acc = After(AccAfter(k - 1), ProofOfSegment(k), k = 1),
          !.next = k + 1]
    BY <1>1, <1>4 DEF VerifySegment
  <2>2. /\ ErrorOf(AccAfter(k - 1), ProofOfSegment(k), k = 1, k = Len(segments)) = "none"
        /\ After(AccAfter(k - 1), ProofOfSegment(k), k = 1) = AccAfter(k)
    BY <1>1, <1>2, SegmentPasses
  <2> QED BY <2>1, <2>2
<1>6. verifier' = [acc |-> AccAfter(k), next |-> k + 1, error |-> "none", public_values |-> pv]
  <2> DEFINE next == AccAfter(k)
             prev == AccAfter(k - 1)
  <2> HIDE DEF k, pv, next, prev
  <2>1. verifier = [acc |-> prev, next |-> k, error |-> "none", public_values |-> pv]
    BY <1>3 DEF prev
  <2> DEFINE v1 == [verifier EXCEPT !.error = "none"]
             v2 == [v1 EXCEPT !.acc = next]
             v3 == [v2 EXCEPT !.next = k + 1]
  <2>2. verifier' = v3
    BY <1>5 DEF next
  <2>3. v1 = [acc |-> prev, next |-> k, error |-> "none", public_values |-> pv]
    BY <2>1
  <2> HIDE DEF v1
  <2>4. v2 = [acc |-> next, next |-> k, error |-> "none", public_values |-> pv]
    BY <2>3
  <2> HIDE DEF v2
  <2>5. v3 = [acc |-> next, next |-> k + 1, error |-> "none", public_values |-> pv]
    BY <2>4
  <2> HIDE DEF v3
  <2> QED BY <2>2, <2>5 DEF next
<1>7. verifier'.next = k + 1 /\ (k + 1) - 1 = k
  <2>1. verifier'.next = k + 1
    <3> HIDE DEF k, pv
    <3> QED BY <1>6
  <2> QED BY <1>2, <2>1
<1>8. AccAfter(verifier.next - 1)' = AccAfter(k)
  BY <1>1, <1>7 DEF AccAfter, At
<1>9. Length' = Length /\ At(Length)' = At(Length)
  BY <1>1, SegmentsStay DEF At
<1>10. VerifierFollows'
  <2>1. verifier'.next \in 1..Len(proofs') + 1
    BY <1>1, <1>2, <1>7
  <2>2. verifier' = [acc |-> AccAfter(verifier.next - 1)', next |-> verifier'.next,
                     error |-> "none",
                     public_values |-> [values |-> At(Length)'.vm.memory[PvCell],
                                        tree |-> At(Length)'.vm.memory]]
    BY <1>6, <1>7, <1>8, <1>9
  <2> QED BY <1>1, <2>1, <2>2 DEF VerifierFollows
<1>11. CallState'
  BY <1>1 DEF CallState, Proving, VerifySegment
<1>12. StateKept'
  BY <1>1, <1>9 DEF IInv, StateKept, Proving, VerifySegment, instance
<1>13. SegmentsFollow'
  BY <1>1, ProofsStay
<1> QED BY <1>1, <1>10, <1>11, <1>12, <1>13
        DEF IInv, MeteredFollows, LocalStateFollows, PreflightFollows

\* The verifier accepts, and learns of the execution what ProofOf says.
LEMMA VerifyPublicValuesInv ==
    ASSUME IInv, VerifyPublicValues
    PROVE  IInv' /\ result' = ProofOf(exe, input) /\ Succeeds(exe, input)
<1>1. Proving /\ CallState /\ SegmentsFollow /\ phase = "verify" /\ exe' = exe
      /\ Len(proofs) = Len(segments) /\ ~Verifying /\ ~failed /\ Succeeds(exe, input)
      /\ state = At(Length).vm
  BY DEF IInv, Proving, VerifyPublicValues, VerifierFollows, StateKept, SegmentsFollow
<1> DEFINE k == verifier.next
           mem == At(Length).vm.memory
           last == AccAfter(Len(segments))
           pv == [values |-> mem[PvCell], tree |-> mem]
<1>2. verifier = [acc |-> AccAfter(k - 1), next |-> k, error |-> "none", public_values |-> pv]
      /\ k \in 1..Len(segments) + 1 /\ Len(segments) \in Nat /\ Len(segments) > 0
  BY <1>1, ProvingFacts DEF IInv, VerifierFollows
<1>3. verifier.error = "none" /\ verifier.acc = AccAfter(k - 1) /\ verifier.public_values = pv
  <2> HIDE DEF k, pv
  <2> QED BY <1>2
<1>4. k - 1 = Len(segments)
  BY <1>1, <1>2, <1>3 DEF Verifying
<1>5. verifier.acc = last
  BY <1>3, <1>4
<1>6. At(0).vm = VmStateInitial(exe, input) /\ EndOf(segments, Len(segments)) = Length
      /\ At(Length) = Execution(exe, input) /\ exe \in Exes /\ input \in Inputs
      /\ Length \in 1..MaxInsns /\ MaxInsns \in Nat /\ IsVmState(At(Length).vm)
  <2>1. Length \in 0..Length
    BY <1>1, ProvingFacts
  <2> QED BY <1>1, <2>1, ProvingFacts
<1>7. last.program_commit = exe.program /\ last.start_pc = exe.pc_start
      /\ last.initial_memory_root = CreateMemoryImage(exe) /\ last.prev_final_memory_root = mem
  <2>1. last = [program_commit |-> exe.program, start_pc |-> At(0).vm.pc,
                initial_memory_root |-> At(0).vm.memory,
                prev_final_pc |-> At(Length).vm.pc, prev_final_memory_root |-> mem]
    BY <1>2, <1>6 DEF AccAfter
  <2>2. At(0).vm.pc = exe.pc_start /\ At(0).vm.memory = CreateMemoryImage(exe)
    BY <1>6 DEF VmStateInitial
  <2> HIDE DEF last, mem
  <2> QED BY <2>1, <2>2
<1> DEFINE payload == Payload(last)
           commit == [program |-> exe.program, pc_start |-> exe.pc_start,
                      init_memory |-> CreateMemoryImage(exe)]
<1>8. payload.exe_commit = commit /\ payload.final_memory_root = mem
  <2> HIDE DEF last, mem
  <2> QED BY <1>7 DEF Payload
<1>9. pv.tree = mem /\ pv.values = mem[PvCell]
  OBVIOUS
<1>10. Verified = [exe_commit |-> commit, final_memory_root |-> mem, public_values |-> mem[PvCell]]
  <2>1. payload = Payload(verifier.acc) /\ pv = verifier.public_values
    BY <1>3, <1>5
  <2> HIDE DEF payload, pv, mem, commit
  <2> QED BY <1>3, <1>8, <1>9, <2>1 DEF Verified
<1>11. Verified = ProofOf(exe, input)
  BY <1>6, <1>10 DEF ProofOf
<1>12. state # None /\ IsVmState(state)
  <2>1. Length \in 0..MaxInsns
    BY <1>6
  <2> QED BY <1>1, <1>6, <2>1, NoneAssumption DEF At
<1>13. CallState'
  BY <1>1 DEF CallState, Proving, VerifyPublicValues, Drop
<1>14. StateKept'
  BY <1>1, <1>12 DEF StateKept, Proving, VerifyPublicValues, instance, IsVmState
<1> QED BY <1>1, <1>11, <1>13, <1>14, OutsideInv DEF VerifyPublicValues

LEMMA NextInv ==
    ASSUME IInv, [Next]_vars
    PROVE  IInv'
<1>1. CASE \E i \in Inputs : Call(i)
  BY <1>1, CallInv
<1>2. CASE ResetPanics
  BY <1>2, ResetPanicsInv
<1>3. CASE ResetState
  BY <1>3, ResetStateInv
<1>4. CASE ExecuteMetered
  BY <1>4, ExecuteMeteredInv
<1>5. CASE MeteredFails
  BY <1>5, MeteredFailsInv
<1>6. CASE phase = "metered" /\ \E segs \in Tilings[Len(metered.pcs)] : Metered(segs)
  BY <1>6, MeteredInv
<1>7. CASE StartSegment
  BY <1>7, StartSegmentInv
<1>8. CASE ExecuteInstruction
  BY <1>8, ExecuteInstructionInv
<1>9. CASE ProveSegment
  BY <1>9, ProveSegmentInv
<1>10. CASE GenerationFails
  BY <1>10, GenerationFailsInv
<1>11. CASE EnginePanics
  BY <1>11, EnginePanicsInv
<1>12. CASE Finish
  BY <1>12, FinishInv
<1>13. CASE VerifySegment
  BY <1>13, VerifySegmentInv
<1>14. CASE VerifyPublicValues
  BY <1>14, VerifyPublicValuesInv
<1>15. CASE UNCHANGED vars
  <2>1. /\ UNCHANGED <<exe, input, segments, proofs, phase, state, failed, result>>
        /\ UNCHANGED <<metered, exec, verifier, local_state, top_tree, initial_memory, frequencies>>
    BY <1>15 DEF vars, instance, locals
  <2>2. CallState' /\ MeteredFollows'
    BY <2>1 DEF IInv, CallState, Proving, MeteredFollows, At
  <2>3. Length' = Length /\ At(Length)' = At(Length)
    BY <2>1 DEF Length, At
  <2>4. StateKept'
    BY <2>1, <2>3 DEF IInv, StateKept, Proving, IsVmState
  <2>5. SegmentsFollow'
    <3>1. CASE Proving
      BY <2>1, <3>1, ProofsStay DEF IInv
    <3>2. CASE ~Proving
      BY <2>1, <3>2 DEF SegmentsFollow, Proving
    <3> QED BY <3>1, <3>2
  <2>6. LocalStateFollows'
    BY <2>1 DEF IInv, LocalStateFollows, At
  <2>7. \A n : ExecAt(n) => ExecAt(n)'
    BY <2>1 DEF ExecAt, At, Counts
  <2>8. PreflightFollows'
    BY <2>1, <2>7 DEF IInv, PreflightFollows
  <2>9. VerifierFollows'
    <3>1. AccAfter(verifier.next - 1)' = AccAfter(verifier.next - 1)
      BY <2>1 DEF AccAfter, At
    <3> QED BY <2>1, <2>3, <3>1 DEF IInv, VerifierFollows
  <2> QED BY <2>2, <2>4, <2>5, <2>6, <2>8, <2>9 DEF IInv
<1> QED BY <1>1, <1>2, <1>3, <1>4, <1>5, <1>6, <1>7, <1>8, <1>9, <1>10, <1>11, <1>12, <1>13,
           <1>14, <1>15 DEF Next, Run, Done

LEMMA InvAlways == Spec => []IInv
<1> QED BY InitInv, NextInv, PTL DEF Spec

\* Each segment's program chip counts exactly the instructions of its part of
\* the execution, and the parts tile it, for every program, input and
\* segmentation and every sequence of calls.
THEOREM ProgramBusBalanced == Spec => []ProgramBusBalances
<1>1. IInv => ProgramBusBalances
  <2> SUFFICES ASSUME IInv, proofs # <<>> PROVE ProgramBusBalances
    BY DEF ProgramBusBalances
  <2>1. Proving /\ SegmentsFollow
    BY DEF IInv, CallState
  <2>2. ASSUME NEW k \in 1..Len(proofs), NEW pc \in DOMAIN exe.program
        PROVE  proofs[k].frequencies[pc] =
                 CountOf(Execution(exe, input).pcs, pc, EndOf(segments, k - 1), EndOf(segments, k))
    <3> DEFINE from == EndOf(segments, k - 1)
               to == EndOf(segments, k)
    <3>1. ProofOfSegment(k).frequencies = Counts(from, to)
      BY DEF ProofOfSegment
    <3>2. proofs[k].frequencies = Counts(from, to)
      BY <2>1, <3>1 DEF SegmentsFollow
    <3> QED BY <3>2 DEF Counts
  <2> QED BY <2>1, <2>2 DEF ProgramBusBalances, SegmentsFollow, Length
<1> QED BY <1>1, InvAlways, PTL

-----------------------------------------------------------------------------
(* Refinement.                                                             *)

\* The abstract request, answer and down.
LEMMA ProverState ==
    /\ Prover!Idle = [idle |-> TRUE] /\ Prover!Error = Err
    /\ [input |-> input] # [idle |-> TRUE]
    /\ Err # None /\ \A e \in Exes, i \in Inputs : ProofOf(e, i) # None
<1>1. [input |-> input] # [idle |-> TRUE]
  <2>1. DOMAIN [input |-> input] = {"input"} /\ DOMAIN [idle |-> TRUE] = {"idle"}
    OBVIOUS
  <2> QED BY <2>1
<1> QED BY <1>1, NoneAssumption DEF Prover!Idle, Prover!Error, Err

LEMMA InitRefines == Init => Prover!Init
  BY ProverState DEF Init, Prover!Init, Prover!Idle

LEMMA CallRefines ==
    ASSUME IInv, NEW i \in Inputs, Call(i)
    PROVE  Prover!Request(i)
  BY DEF Call, Prover!Request, Prover!Idle

\* A call in progress goes on.
LEMMA CallGoesOn ==
    ASSUME UNCHANGED <<exe, input, result, failed>>,
           phase \notin {"idle", "panicked"}, phase' \notin {"idle", "panicked"}
    PROVE  UNCHANGED Prover!vars
  BY DEF Prover!vars

LEMMA ResetPanicsRefines ==
    ASSUME IInv, ResetPanics
    PROVE  Prover!Panic
<1>1. failed
  BY DEF IInv, StateKept, ResetPanics
<1> QED BY <1>1, ProverState DEF ResetPanics, Prover!Panic, Prover!Idle, Prover!Error

LEMMA MeteredFailsRefines ==
    ASSUME IInv, MeteredFails
    PROVE  Prover!Answer
<1>1. ~failed /\ exe \in Exes /\ input \in Inputs
  BY DEF IInv, CallState, StateKept, MeteredFails
<1>2. ~Succeeds(exe, input)
  <2>1. PICK n \in 0..MaxInsns : metered = At(n)
    BY DEF IInv, MeteredFollows, MeteredFails
  <2>2. metered = Execution(exe, input)
    BY <1>1, <2>1, StoppedIsEnd DEF MeteredFails, MeteredStops, At
  <2> QED BY <2>2 DEF MeteredFails, Succeeds
<1>3. [input |-> input].input = input
  OBVIOUS
<1> QED BY <1>1, <1>2, <1>3, ProverState DEF MeteredFails, Prover!Answer, Prover!Idle, Prover!Error

LEMMA GenerationFailsRefines ==
    ASSUME IInv, GenerationFails
    PROVE  Prover!FailSegment
<1>1. ~failed /\ Succeeds(exe, input)
  BY DEF IInv, StateKept, SegmentsFollow, Proving, GenerationFails
<1>2. [input |-> input].input = input
  OBVIOUS
<1> QED BY <1>1, <1>2, ProverState
        DEF GenerationFails, FailCall, Prover!FailSegment, Prover!Idle, Prover!Error

LEMMA EnginePanicsRefines ==
    ASSUME IInv, EnginePanics
    PROVE  Prover!Panic
<1>1. Succeeds(exe, input)
  BY DEF IInv, SegmentsFollow, Proving, EnginePanics
<1>2. [input |-> input].input = input
  OBVIOUS
<1> QED BY <1>1, <1>2, ProverState DEF EnginePanics, Prover!Panic, Prover!Idle, Prover!Error

LEMMA VerifyPublicValuesRefines ==
    ASSUME IInv, VerifyPublicValues
    PROVE  Prover!Answer
<1>1. ~failed /\ exe \in Exes /\ input \in Inputs
  BY DEF IInv, CallState, StateKept, Proving, VerifyPublicValues
<1>2. result' = ProofOf(exe, input) /\ Succeeds(exe, input)
  BY VerifyPublicValuesInv
<1>3. [input |-> input].input = input
  OBVIOUS
<1>4. result' # None
  BY <1>1, <1>2, ProverState
<1> QED BY <1>1, <1>2, <1>3, <1>4, ProverState
        DEF VerifyPublicValues, Prover!Answer, Prover!Idle

LEMMA NextRefines ==
    ASSUME IInv, [Next]_vars
    PROVE  [Prover!Next]_(Prover!vars)
<1>1. CASE \E i \in Inputs : Call(i)
  BY <1>1, CallRefines DEF Prover!Next
<1>2. CASE ResetPanics
  BY <1>2, ResetPanicsRefines DEF Prover!Next
<1>3. CASE ResetState
  BY <1>3, CallGoesOn DEF ResetState
<1>4. CASE ExecuteMetered
  BY <1>4, CallGoesOn DEF ExecuteMetered
<1>5. CASE MeteredFails
  BY <1>5, MeteredFailsRefines DEF Prover!Next
<1>6. CASE phase = "metered" /\ \E segs \in Tilings[Len(metered.pcs)] : Metered(segs)
  BY <1>6, CallGoesOn DEF Metered
<1>7. CASE StartSegment
  BY <1>7, CallGoesOn DEF StartSegment
<1>8. CASE ExecuteInstruction
  <2>1. UNCHANGED <<exe, phase, input, result, failed>> /\ phase = "preflight"
    BY <1>8, ExecuteInstructionInv DEF ExecuteInstruction
  <2> QED BY <2>1, CallGoesOn
<1>9. CASE ProveSegment
  BY <1>9, CallGoesOn DEF ProveSegment
<1>10. CASE GenerationFails
  BY <1>10, GenerationFailsRefines DEF Prover!Next
<1>11. CASE EnginePanics
  BY <1>11, EnginePanicsRefines DEF Prover!Next
<1>12. CASE Finish
  BY <1>12, CallGoesOn DEF Finish
<1>13. CASE VerifySegment
  BY <1>13, CallGoesOn DEF VerifySegment
<1>14. CASE VerifyPublicValues
  BY <1>14, VerifyPublicValuesRefines DEF Prover!Next
<1>15. CASE UNCHANGED vars
  BY <1>15 DEF vars, locals, Prover!vars
<1> QED BY <1>1, <1>2, <1>3, <1>4, <1>5, <1>6, <1>7, <1>8, <1>9, <1>10, <1>11, <1>12, <1>13,
           <1>14, <1>15 DEF Next, Run, Done

\* prove_continuations implements the prover its callers rely on: whatever it
\* proved or failed to prove before and however the execution is cut into
\* segments, a call returns a proof that verifies and commits to the execution
\* of this program on this call's input, or an error; it panics only when the
\* engine does or after a segment could not be proved.
THEOREM ContinuationsRefineProver == Spec => RefinesProver
<1>1. Init => Prover!Init
  BY InitRefines
<1>2. IInv /\ [Next]_vars => [Prover!Next]_(Prover!vars)
  BY NextRefines
<1> QED BY <1>1, <1>2, InvAlways, PTL DEF Spec, RefinesProver, Prover!Spec
=============================================================================
