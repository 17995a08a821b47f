------------------------- MODULE MCOwnershipMirror -------------------------
(***************************************************************************)
(* The ownership copies for TLC.                                           *)
(***************************************************************************)
EXTENDS OwnershipMirrorProps, TLC

\* The players and the NPCs are interchangeable.
Symmetry == Permutations(Peer) \cup Permutations(Npc)
=============================================================================
