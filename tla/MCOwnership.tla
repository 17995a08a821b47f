---------------------------- MODULE MCOwnership ----------------------------
(***************************************************************************)
(* The constants of the registry for TLC.  One time unit is 1.5 s, so each *)
(* duration below is what the source's comparison amounts to on whole      *)
(* units: MIN_HOLD 2000 ms takes 2, a heartbeat older than 2500 ms is one  *)
(* older than 1, THREAT_ENGAGE_WINDOW 4500 ms is 3, DAMAGE_WINDOW 4000 ms  *)
(* is rounded to 3, the buffer's 2000 ms to 1.  _DEAD_FID_TTL (600 s) is   *)
(* shortened to 2 so that it can run out.  One unit of damage is 20 hit    *)
(* points, so THREAT_DAMAGE_NORM 80 is 4.                                  *)
(***************************************************************************)
EXTENDS OwnershipProps, TLC

\* The players are interchangeable: no action and no property names one.
Symmetry == Permutations(Peer)
=============================================================================
