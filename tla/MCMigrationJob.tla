--------------------------- MODULE MCMigrationJob ---------------------------
(* Small instances of MigrationJob.                                        *)
EXTENDS MigrationJob
=============================================================================
