------------------------------ MODULE MCDeath ------------------------------
(***************************************************************************)
(* A shared death for TLC: constants come from the .cfg files.             *)
(***************************************************************************)
EXTENDS DeathProps, TLC
=============================================================================
