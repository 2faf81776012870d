------------------------------- MODULE MCHeap -------------------------------
(* The heap of Heap with blocks of a few units.                            *)
EXTENDS Heap, TLC

(* The pointers may be exchanged, and so may the names of the pages.       *)
Symmetry == Permutations(Owners) \cup Permutations(Ids)

=============================================================================
