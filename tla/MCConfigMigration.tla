------------------------- MODULE MCConfigMigration -------------------------
(* Instance of ConfigMigration for TLC. *)
EXTENDS ConfigMigration
=============================================================================
