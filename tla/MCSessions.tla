------------------------------ MODULE MCSessions ------------------------------
(* Small instances of Sessions for TLC. *)
EXTENDS Sessions, TLC

\* Requests run the same code and browsers are alike.
Symmetry == Permutations(Request) \cup Permutations(Browser)
=============================================================================
