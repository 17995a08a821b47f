-------------------------- MODULE MCContainerSync --------------------------
(***************************************************************************)
(* A container for TLC: two clients, one item in it, one that the players  *)
(* carry.  Three moves are enough for a race of two clients and a retry    *)
(* after it.                                                               *)
(***************************************************************************)
EXTENDS ContainerSyncProps, TLC

CONSTANTS cap, stim

MCItem == {cap, stim}
\* One stimpak in the container, a cap in every pocket.
OneItem == [i \in MCItem |-> IF i = stim THEN 1 ELSE 0]
Pocket == [i \in MCItem |-> IF i = cap THEN 1 ELSE 0]
\* The players are interchangeable.
Symmetry == Permutations(Client)
=============================================================================
