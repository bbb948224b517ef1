---- MODULE MCSemanticTransaction ----
(***************************************************************************)
(* Finite instances of SemanticTransaction.                                *)
(***************************************************************************)
EXTENDS SemanticTransaction, TLC

\* Names, inodes and bytes are interchangeable.
Interchangeable == Permutations(Inode) \cup Permutations(Path) \cup Permutations(Content)

\* The bytes of an inode without a name are unreachable: two states that differ
\* in nothing else have the same futures.
Reachable == <<dir, [i \in Inode \ Free |-> data[i]], snap, aside, control, ghosts>>
====
