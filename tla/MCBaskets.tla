------------------------------ MODULE MCBaskets ------------------------------
(* Small instances of Baskets for TLC. *)
EXTENDS Baskets, TLC

\* Threads run the same code and tabs are alike.
Symmetry == Permutations(Thread) \cup Permutations(Tab)
=============================================================================
