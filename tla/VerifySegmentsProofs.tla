------------------------ MODULE VerifySegmentsProofs ------------------------
(***************************************************************************)
(* verify_segments accepts only executions, for all programs, memories and *)
(* numbers of segments.  The invariant that carries the argument through   *)
(* the loop is ChainSoFar; a step extends the chain by transitivity of     *)
(* Runs, because the new segment starts where the chain ends.              *)
(***************************************************************************)
EXTENDS VerifySegments, TLAPS

\* The loop starts without a chain.
LEMMA InitEstablishes == Init => IInv
<1> SUFFICES ASSUME Init PROVE IInv
  OBVIOUS
<1>1. proofs = <<>> /\ outcome # "ok"
  BY DEF Init
<1>2. proofs \in Seq(Proof)
  BY <1>1
<1>3. ChainSoFar /\ AcceptedIsExecution
  BY <1>1 DEF ChainSoFar, AcceptedIsExecution
<1> QED BY <1>1, <1>2, <1>3 DEF IInv

\* A segment that passes the checks extends the chain.
LEMMA CheckExtends ==
    ASSUME RunsAssumption, NEW p \in Proof, Check(p), IInv,
           outcome' \in {"running", "ok"}
    PROVE  /\ acc'.program_commit = p.program
           /\ acc'.prev_final_pc = p.final_pc
           /\ acc'.prev_final_memory_root = p.final_root
           /\ acc'.start_pc \in Pcs /\ acc'.initial_memory_root \in Roots
           /\ <<<<acc'.start_pc, acc'.initial_memory_root>>,
                <<p.final_pc, p.final_root>>>> \in Runs[p.program]
<1> DEFINE first == proofs = <<>>
           last == Len(proofs) + 1 = num_proofs
<1>1. ErrorOf(acc, p, first, last) = "none"
  <2>1. outcome' = IF ErrorOf(acc, p, first, last) # "none" THEN ErrorOf(acc, p, first, last)
                   ELSE IF last THEN "ok" ELSE "running"
    BY DEF Check
  <2>2. ErrorOf(acc, p, first, last) \notin {"running", "ok"}
    BY DEF ErrorOf
  <2> QED BY <2>1, <2>2
<1>2. /\ p.stark
      /\ ~ProgramCommitMismatch(acc, p, first)
      /\ ~InitialPcMismatch(acc, p, first)
      /\ ~MemoryRootMismatch(acc, p, first)
  BY <1>1 DEF ErrorOf
<1>3. /\ p.program \in Programs
      /\ p.initial_pc \in Pcs /\ p.final_pc \in Pcs
      /\ p.initial_root \in Roots /\ p.final_root \in Roots
  BY DEF Proof
<1>4. <<<<p.initial_pc, p.initial_root>>, <<p.final_pc, p.final_root>>>> \in Runs[p.program]
  BY <1>2 DEF Check, Sound
<1>5. acc' = After(acc, p, first)
  BY DEF Check
<1>6. CASE proofs = <<>>
  BY <1>3, <1>4, <1>5, <1>6 DEF After
<1>7. CASE proofs # <<>>
  <2>1. /\ acc.program_commit = p.program
        /\ acc.prev_final_pc = p.initial_pc
        /\ acc.prev_final_memory_root = p.initial_root
    BY <1>2, <1>7 DEF ProgramCommitMismatch, InitialPcMismatch, MemoryRootMismatch
  <2>2. outcome = "running"
    BY DEF Check
  <2>3. /\ acc.start_pc \in Pcs /\ acc.initial_memory_root \in Roots
        /\ <<<<acc.start_pc, acc.initial_memory_root>>,
             <<p.initial_pc, p.initial_root>>>> \in Runs[p.program]
    BY <1>7, <2>1, <2>2 DEF IInv, ChainSoFar
  <2>4. <<<<acc.start_pc, acc.initial_memory_root>>,
          <<p.final_pc, p.final_root>>>> \in Runs[p.program]
    <3> DEFINE a == <<acc.start_pc, acc.initial_memory_root>>
               b == <<p.initial_pc, p.initial_root>>
               c == <<p.final_pc, p.final_root>>
    <3>1. a \in Pcs \X Roots /\ b \in Pcs \X Roots /\ c \in Pcs \X Roots
      BY <1>3, <2>3
    <3> HIDE DEF a, b, c
    <3>2. <<a, b>> \in Runs[p.program] /\ <<b, c>> \in Runs[p.program]
      BY <1>4, <2>3 DEF a, b, c
    <3>3. <<a, c>> \in Runs[p.program]
      BY <1>3, <3>1, <3>2 DEF RunsAssumption
    <3> QED BY <3>3 DEF a, c
  <2>5. /\ acc'.start_pc = acc.start_pc
        /\ acc'.initial_memory_root = acc.initial_memory_root
        /\ acc'.program_commit = p.program
        /\ acc'.prev_final_pc = p.final_pc
        /\ acc'.prev_final_memory_root = p.final_root
    BY <1>5, <1>7, <2>1 DEF After
  <2> QED BY <2>3, <2>4, <2>5
<1> QED BY <1>6, <1>7

\* The last segment of an accepted proof ends at TERMINATE with success.
LEMMA AcceptedTerminates ==
    ASSUME NEW p \in Proof, Check(p), outcome' = "ok"
    PROVE  Success \in TerminateAt[p.program][p.final_pc]
<1> DEFINE first == proofs = <<>>
           last == Len(proofs) + 1 = num_proofs
<1>1. outcome' = IF ErrorOf(acc, p, first, last) # "none" THEN ErrorOf(acc, p, first, last)
                 ELSE IF last THEN "ok" ELSE "running"
  BY DEF Check
<1>2. ErrorOf(acc, p, first, last) # "ok"
  BY DEF ErrorOf
<1>3. ErrorOf(acc, p, first, last) = "none" /\ last
  BY <1>1, <1>2
<1>4. p.stark /\ ~IsTerminateMismatch(p, last) /\ ~ExitCodeMismatch(p, last)
  BY <1>3 DEF ErrorOf
<1>5. p.is_terminate = 1 /\ p.exit_code = Success
  BY <1>3, <1>4 DEF IsTerminateMismatch, ExitCodeMismatch
<1> QED BY <1>4, <1>5 DEF Check, Sound

\* One iteration of the loop preserves the invariant.
LEMMA CheckPreserves ==
    ASSUME RunsAssumption, NEW p \in Proof, Check(p), IInv
    PROVE  IInv'
<1>1. proofs' = Append(proofs, p) /\ proofs \in Seq(Proof)
  BY DEF Check, IInv
<1>2. proofs' \in Seq(Proof) /\ proofs' # <<>>
  BY <1>1
<1>3. ChainSoFar'
  <2>1. CASE outcome' \in {"running", "ok"}
    BY <2>1, CheckExtends DEF ChainSoFar, Proof
  <2>2. CASE outcome' \notin {"running", "ok"}
    BY <2>2 DEF ChainSoFar
  <2> QED BY <2>1, <2>2
<1>4. AcceptedIsExecution'
  <2>1. CASE outcome' = "ok"
    <3>1. Success \in TerminateAt[p.program][p.final_pc]
      BY <2>1, AcceptedTerminates
    <3>2. /\ acc'.program_commit = p.program
          /\ acc'.prev_final_memory_root = p.final_root
          /\ <<<<acc'.start_pc, acc'.initial_memory_root>>,
               <<p.final_pc, p.final_root>>>> \in Runs[p.program]
      BY <2>1, CheckExtends
    <3>3. p.final_pc \in Pcs
      BY DEF Proof
    <3> QED BY <3>1, <3>2, <3>3 DEF AcceptedIsExecution, Payload
  <2>2. CASE outcome' # "ok"
    BY <2>2 DEF AcceptedIsExecution
  <2> QED BY <2>1, <2>2
<1> QED BY <1>2, <1>3, <1>4 DEF IInv

\* IInv is inductive: the loop of verify_segments keeps a chain of runs.
THEOREM VerifySegmentsInvariant == Spec => []IInv
<1>1. ASSUME IInv, [Next]_vars PROVE IInv'
  <2>1. CASE \E p \in Proof : Check(p)
    BY <1>1, <2>1, CheckPreserves, RunsAssumption
  <2>2. CASE UNCHANGED vars
    BY <1>1, <2>2 DEF vars, IInv, ChainSoFar, AcceptedIsExecution
  <2> QED BY <1>1, <2>1, <2>2 DEF Next, Done
<1> QED BY <1>1, InitEstablishes, PTL DEF Spec

\* An accepted sequence of segment proofs is one execution of the committed
\* program from its start to TERMINATE with exit code 0 (verify_segments).
THEOREM VerifySegmentsSound == Spec => []AcceptedIsExecution
<1>1. IInv => AcceptedIsExecution
  BY DEF IInv
<1> QED BY <1>1, VerifySegmentsInvariant, PTL

-----------------------------------------------------------------------------
(* What is rejected.                                                       *)

\* The checks on one proof, by what they ask of it.
LEMMA PassesWhen ==
    ASSUME NEW a, NEW p \in Proof, NEW first \in BOOLEAN, NEW last \in BOOLEAN
    PROVE  /\ ErrorOf(a, p, first, last) = "none" <=>
                /\ p.stark /\ p.boundary
                /\ p.is_terminate = (IF last THEN 1 ELSE 0)
                /\ p.exit_code = (IF last THEN Success ELSE DEFAULT_SUSPEND_EXIT_CODE)
                /\ ~first => /\ p.program = a.program_commit
                             /\ p.initial_pc = a.prev_final_pc
                             /\ p.initial_root = a.prev_final_memory_root
           /\ ErrorOf(a, p, first, last) \notin {"running", "ok"}
  BY DEF ErrorOf, ProgramCommitMismatch, InitialPcMismatch, IsTerminateMismatch,
         ExitCodeMismatch, MemoryRootMismatch

\* A proof more is the beginning of a complete proof iff the proofs before are
\* and the new one fits behind them.
LEMMA OneMorePart ==
    ASSUME NEW ps \in Seq(Proof), NEW p \in Proof, NEW n \in Nat, Len(ps) < n
    PROVE  PartOfComplete(Append(ps, p), n) <=>
             /\ PartOfComplete(ps, n)
             /\ p.stark /\ p.boundary
             /\ p.is_terminate = (IF Len(ps) + 1 = n THEN 1 ELSE 0)
             /\ p.exit_code = (IF Len(ps) + 1 = n THEN Success ELSE DEFAULT_SUSPEND_EXIT_CODE)
             /\ ps # <<>> => /\ p.program = ps[1].program
                             /\ p.initial_pc = ps[Len(ps)].final_pc
                             /\ p.initial_root = ps[Len(ps)].final_root
<1> DEFINE qs == Append(ps, p)
           l == Len(ps)
           Part(s, k) ==
             /\ s[k].stark /\ s[k].boundary /\ s[k].program = s[1].program
             /\ k < n => s[k].is_terminate = 0 /\ s[k].exit_code = DEFAULT_SUSPEND_EXIT_CODE
             /\ k = n => s[k].is_terminate = 1 /\ s[k].exit_code = Success
           Link(s, k) == s[k].final_pc = s[k + 1].initial_pc /\ s[k].final_root = s[k + 1].initial_root
<1>1. /\ l \in Nat /\ Len(qs) = l + 1 /\ qs[l + 1] = p
      /\ \A k \in 1..l : qs[k] = ps[k]
  OBVIOUS
<1>2. PartOfComplete(ps, n) <=> (\A k \in 1..l : Part(ps, k)) /\ (\A k \in 1..l - 1 : Link(ps, k))
  BY DEF PartOfComplete
<1>3. PartOfComplete(qs, n) <=> (\A k \in 1..l + 1 : Part(qs, k)) /\ (\A k \in 1..l : Link(qs, k))
  BY <1>1 DEF PartOfComplete
<1>4. CASE l = 0
  <2>1. ps = <<>>
    BY <1>4
  <2>2. PartOfComplete(ps, n)
    BY <1>2, <1>4
  <2>3. PartOfComplete(qs, n) <=> Part(qs, 1)
    BY <1>3, <1>4
  <2> QED BY <1>1, <1>4, <2>1, <2>2, <2>3
<1>5. CASE l > 0
  <2>1. ps # <<>> /\ qs[1] = ps[1] /\ qs[l] = ps[l]
    BY <1>1, <1>5
  <2>2. \A k \in 1..l : Part(qs, k) <=> Part(ps, k)
    BY <1>1, <2>1
  <2>3. \A k \in 1..l - 1 : Link(qs, k) <=> Link(ps, k)
    BY <1>1
  <2>4. (\A k \in 1..l + 1 : Part(qs, k)) <=> (\A k \in 1..l : Part(ps, k)) /\ Part(qs, l + 1)
    <3> HIDE DEF Part, qs
    <3>1. 1..l + 1 = (1..l) \cup {l + 1}
      BY <1>1
    <3> QED BY <2>2, <3>1
  <2>5. (\A k \in 1..l : Link(qs, k)) <=> (\A k \in 1..l - 1 : Link(ps, k)) /\ Link(qs, l)
    <3> HIDE DEF Link, qs
    <3>1. 1..l = (1..l - 1) \cup {l}
      BY <1>1, <1>5
    <3> QED BY <2>3, <3>1
  <2>6. Part(qs, l + 1) <=>
           /\ p.stark /\ p.boundary /\ p.program = ps[1].program
           /\ p.is_terminate = (IF l + 1 = n THEN 1 ELSE 0)
           /\ p.exit_code = (IF l + 1 = n THEN Success ELSE DEFAULT_SUSPEND_EXIT_CODE)
    BY <1>1, <2>1
  <2>7. Link(qs, l) <=> p.initial_pc = ps[l].final_pc /\ p.initial_root = ps[l].final_root
    BY <1>1, <2>1
  <2> HIDE DEF Part, Link, qs
  <2>8. PartOfComplete(qs, n) <=> PartOfComplete(ps, n) /\ Part(qs, l + 1) /\ Link(qs, l)
    BY <1>2, <1>3, <2>4, <2>5
  <2> QED BY <2>1, <2>6, <2>7, <2>8 DEF qs
<1> QED BY <1>1, <1>4, <1>5

\* One iteration of the loop: what it remembers stays the last proof it passed.
LEMMA CheckKeepsTrack ==
    ASSUME CompletenessInv, NEW p \in Proof, Check(p)
    PROVE  CompletenessInv'
<1> DEFINE first == proofs = <<>>
           last == Len(proofs) + 1 = num_proofs
           error == ErrorOf(acc, p, first, last)
           n == num_proofs
<1>1. /\ proofs \in Seq(Proof) /\ n \in Nat /\ n' = n /\ Len(proofs) < n
      /\ outcome = "running"
      /\ proofs' = Append(proofs, p)
      /\ acc' = After(acc, p, first)
      /\ outcome' = IF error # "none" THEN error ELSE IF last THEN "ok" ELSE "running"
  BY DEF CompletenessInv, AccTracksProofs, Check
<1>2. /\ proofs' \in Seq(Proof) /\ proofs' # <<>> /\ Len(proofs') = Len(proofs) + 1
      /\ proofs'[Len(proofs')] = p
      /\ proofs # <<>> => proofs'[1] = proofs[1]
      /\ proofs = <<>> => proofs'[1] = p
  BY <1>1
<1>3. first \in BOOLEAN /\ last \in BOOLEAN
  OBVIOUS
<1>4. proofs # <<>> =>
        /\ acc.program_commit = proofs[1].program
        /\ acc.prev_final_pc = proofs[Len(proofs)].final_pc
        /\ acc.prev_final_memory_root = proofs[Len(proofs)].final_root
  BY <1>1 DEF CompletenessInv, AccTracksProofs
<1>5. PartOfComplete(proofs, n)
  <2>1. CASE proofs = <<>>
    BY <2>1 DEF PartOfComplete
  <2>2. CASE proofs # <<>>
    BY <1>1, <2>2 DEF CompletenessInv, RejectsOnlyIncomplete
  <2> QED BY <2>1, <2>2
<1>6. error = "none" <=> PartOfComplete(proofs', n)
  <2>1. error = "none" <=>
                /\ p.stark /\ p.boundary
                /\ p.is_terminate = (IF last THEN 1 ELSE 0)
                /\ p.exit_code = (IF last THEN Success ELSE DEFAULT_SUSPEND_EXIT_CODE)
                /\ ~first => /\ p.program = acc.program_commit
                             /\ p.initial_pc = acc.prev_final_pc
                             /\ p.initial_root = acc.prev_final_memory_root
    BY <1>3, PassesWhen
  <2>2. PartOfComplete(Append(proofs, p), n) <=>
             /\ PartOfComplete(proofs, n)
             /\ p.stark /\ p.boundary
             /\ p.is_terminate = (IF last THEN 1 ELSE 0)
             /\ p.exit_code = (IF last THEN Success ELSE DEFAULT_SUSPEND_EXIT_CODE)
             /\ proofs # <<>> => /\ p.program = proofs[1].program
                                 /\ p.initial_pc = proofs[Len(proofs)].final_pc
                                 /\ p.initial_root = proofs[Len(proofs)].final_root
    BY <1>1, OneMorePart
  <2> HIDE DEF error
  <2> QED BY <1>1, <1>4, <1>5, <2>1, <2>2
<1>7. outcome' \in {"running", "ok"} <=> error = "none"
  BY <1>1, <1>3, PassesWhen
<1>8. RejectsOnlyIncomplete'
  BY <1>1, <1>6, <1>7 DEF RejectsOnlyIncomplete
<1>9. AccTracksProofs'
  <2>1. outcome' = "running" => error = "none" /\ ~last
    BY <1>1, <1>3, PassesWhen
  <2>2. outcome' = "running" => Len(proofs') < n'
    BY <1>1, <1>2, <2>1
  <2>3. /\ acc'.program_commit = IF first THEN p.program ELSE acc.program_commit
        /\ acc'.prev_final_pc = p.final_pc
        /\ acc'.prev_final_memory_root = p.final_root
    BY <1>1 DEF After
  <2>4. acc'.program_commit = proofs'[1].program
    BY <1>2, <1>4, <2>3
  <2> QED BY <1>1, <1>2, <2>2, <2>3, <2>4 DEF AccTracksProofs
<1> QED BY <1>8, <1>9 DEF CompletenessInv

\* The loop of verify_segments returns an error exactly when the proofs it has
\* seen cannot be the beginning of a complete proof, whatever was submitted.
THEOREM VerifySegmentsComplete == Spec => []RejectsOnlyIncomplete
<1>1. Init => CompletenessInv
  <2> SUFFICES ASSUME Init PROVE CompletenessInv
    OBVIOUS
  <2>1. proofs = <<>> /\ num_proofs \in 0..MaxProofs /\ MaxProofs \in Nat
    BY RunsAssumption DEF Init
  <2>2. outcome = "running" => num_proofs # 0
    BY DEF Init
  <2>3. Len(proofs) = 0 /\ proofs \in Seq(Proof) /\ num_proofs \in Nat
    BY <2>1
  <2> QED BY <2>1, <2>2, <2>3 DEF CompletenessInv, AccTracksProofs, RejectsOnlyIncomplete
<1>2. CompletenessInv /\ [Next]_vars => CompletenessInv'
  <2> SUFFICES ASSUME CompletenessInv, [Next]_vars PROVE CompletenessInv'
    OBVIOUS
  <2>1. CASE \E p \in Proof : Check(p)
    BY <2>1, CheckKeepsTrack
  <2>2. CASE UNCHANGED vars
    BY <2>2 DEF vars, CompletenessInv, AccTracksProofs, RejectsOnlyIncomplete
  <2> QED BY <2>1, <2>2 DEF Next, Done
<1>3. CompletenessInv => RejectsOnlyIncomplete
  BY DEF CompletenessInv
<1> QED BY <1>1, <1>2, <1>3, PTL DEF Spec
=============================================================================
