------------------------------ MODULE MemorySystem ------------------------------
(* The four views of guest memory, each on a small instance: the accesses of an  *)
(* honest segment (OfflineMemory), what the verifier can conclude from *)
(* balanced buses (MemoryArgument), the Merkle tree and its rows (MemoryMerkle), *)
(* and the record arenas of a chip (RecordArenas).  One of them runs, the others *)
(* stay in their initial state.                                                  *)
EXTENDS OfflineMemory, MemoryArgument, MemoryMerkle, RecordArenas

VARIABLE part      \* the view that runs

\* Four address spaces of four chunks.  A segment touches up to three chunks:
\* siblings, cousins and chunks of different address spaces.
MCTouchable == {<<1, 0>>, <<2, 0>>, <<2, 1>>, <<2, 3>>, <<3, 1>>}
MCRegisterLabel == <<1, 0>>
ImageWith(S) == [l \in Labels |-> IF l \in S THEN 1 ELSE 0]
MCImages == {ImageWith({}), ImageWith({<<2, 2>>}), ImageWith({<<2, 1>>, <<4, 3>>})}

\* Two records of two sized parts, the core aligned more or less strictly; a
\* record with a header whose length depends on the number of rows.
Layout(m, a, aa, c, ca, aw, w) ==
    [multi_row |-> m, adapter_size |-> a, adapter_alignment |-> aa,
     core_size |-> c, core_alignment |-> ca, adapter_width |-> aw, width |-> w]
MCLayouts == {Layout(FALSE, 4, 2, 3, 1, 3, 5), Layout(FALSE, 3, 1, 2, 2, 2, 3),
              Layout(TRUE, 2, 2, 1, 1, 1, 2)}

\* The initial state of a view that does not run.
Idle(v, state) == part # v => state
SystemInit ==
    /\ part \in {"offline", "argument", "merkle", "arenas"}
    /\ Init /\ Idle("offline", image = [b \in Blocks |-> CHOOSE v \in Values : TRUE])
    /\ ArgumentInit
    /\ MerkleInit /\ Idle("merkle", start = ImageWith({}))
    /\ ArenaInit /\ Idle("arenas", ~ layout.multi_row /\ layout.width = 3 /\ height = 0 /\ base = 0)

SystemNext ==
    /\ UNCHANGED part
    /\ \/ part = "offline" /\ Next /\ UNCHANGED <<argumentVars, merkleVars, arenaVars>>
       \/ part = "argument" /\ ArgumentNext /\ UNCHANGED <<vars, merkleVars, arenaVars>>
       \/ part = "merkle" /\ MerkleNext /\ UNCHANGED <<vars, argumentVars, arenaVars>>
       \/ part = "arenas" /\ ArenaNext /\ UNCHANGED <<vars, argumentVars, merkleVars>>

SystemSpec == SystemInit /\ [][SystemNext]_<<part, vars, argumentVars, merkleVars, arenaVars>>
=================================================================================
