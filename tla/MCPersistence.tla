--------------------------- MODULE MCPersistence ---------------------------
(***************************************************************************)
(* Snapshots for TLC: constants come from the .cfg files.                  *)
(***************************************************************************)
EXTENDS PersistenceProps, TLC
=============================================================================
