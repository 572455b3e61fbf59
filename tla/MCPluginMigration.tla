------------------------- MODULE MCPluginMigration -------------------------
(* Model-checking instance of PluginMigration. *)
EXTENDS PluginMigration
=============================================================================
