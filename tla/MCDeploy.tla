------------------------------ MODULE MCDeploy ------------------------------
(* Small instances of Deploy for TLC. *)
EXTENDS Deploy

\* Commit 2 changes no migration, commit 3 adds one.
MCSchema == <<1, 1, 2>>

\* Commit 2 adds a migration.
MCMigration == <<1, 2>>
=============================================================================
