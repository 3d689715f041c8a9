------------------------------ MODULE MCRestore ------------------------------
(* Small instances of Restore for TLC. *)
EXTENDS Restore
=============================================================================
