------------------------------ MODULE MCBackups ------------------------------
(* Small instances of Backups for TLC. *)
EXTENDS Backups, TLC

\* Image names, threads and backup processes are alike.
Symmetry == Permutations(Image) \cup Permutations(Request) \cup Permutations(Process)
=============================================================================
