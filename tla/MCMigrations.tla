------------------------------ MODULE MCMigrations ------------------------------
(* Instances of Migrations for TLC. *)
EXTENDS Migrations

EveryVersion == 0..7
Fresh == {0}

=============================================================================
