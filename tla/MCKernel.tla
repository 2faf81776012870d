------------------------------ MODULE MCKernel ------------------------------
(* The metadata store of Kernel on a small instance.                       *)
EXTENDS Kernel, TLC

(* Challenges may be exchanged: nothing in the kernel compares their names.*)
Symmetry == Permutations(Challenges)

=============================================================================
