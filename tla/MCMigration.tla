----------------------------- MODULE MCMigration ----------------------------
(***************************************************************************)
(* Instances of Migration.                                                 *)
(***************************************************************************)
EXTENDS Migration

MCName == 1 .. 3
=============================================================================
