---------------------------- MODULE MCWorldValue ----------------------------
(***************************************************************************)
(* The shared values for TLC: one key of each kind, and a second door       *)
(* filed under the entry of the first.                                     *)
(***************************************************************************)
EXTENDS WorldValueProps, TLC

CONSTANTS door, twin

\* Of the keys only the second door has no entry of its own.
SharedDoor == [k \in Key |-> IF k = twin THEN door ELSE k]

\* Savefiles that have every value the same.
SameSave == {[k \in Key |-> v] : v \in Val}
=============================================================================
