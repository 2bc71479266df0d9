-------------------------- MODULE MCCatalogMigration --------------------------
(****************************************************************************)
(* An instance of CatalogMigration for TLC where reading back a catalog     *)
(* that is as it was written may fail: one game with one import is enough.  *)
(****************************************************************************)
EXTENDS CatalogMigration

OneImport == {"artwork"}
===============================================================================
