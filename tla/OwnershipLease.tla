--------------------------- MODULE OwnershipLease ---------------------------
(***************************************************************************)
(* What the ownership registry promises, without time, threat or hit       *)
(* points: each NPC has at most one holder, every change of holder is      *)
(* stamped with a token larger than any token handed out before, and state *)
(* is accepted only from the current holder under the current token.       *)
(***************************************************************************)
EXTENDS Integers

CONSTANTS Peer, Npc, NoPeer

VARIABLES
  holder,     \* who holds each NPC, NoPeer when nobody does
  token,      \* the token of the last change of holder of each NPC
  nextToken,  \* no token handed out so far reaches this number
  accepted    \* the token under which state was last accepted for each NPC

leaseVars == <<holder, token, nextToken, accepted>>

LeaseInit ==
  /\ holder = [n \in Npc |-> NoPeer]
  /\ token = [n \in Npc |-> 0]
  /\ nextToken = 1
  /\ accepted = [n \in Npc |-> 0]

\* The NPCs of S change hands together, each under a fresh token of its own.
Reassign(S) ==
  /\ holder' \in [Npc -> Peer \cup {NoPeer}]
  /\ token' \in [Npc -> Nat]
  /\ nextToken' \in Nat
  /\ nextToken' >= nextToken
  /\ \A n \in S : nextToken <= token'[n] /\ token'[n] < nextToken'
  /\ \A m, n \in S : token'[m] = token'[n] => m = n
  /\ \A n \in Npc \ S : holder'[n] = holder[n] /\ token'[n] = token[n]
  /\ UNCHANGED accepted

Accept(n) ==
  /\ holder[n] # NoPeer
  /\ accepted' = [accepted EXCEPT ![n] = token[n]]
  /\ UNCHANGED <<holder, token, nextToken>>

LeaseNext ==
  \/ \E S \in SUBSET Npc : Reassign(S)
  \/ \E n \in Npc : Accept(n)

LeaseSpec == LeaseInit /\ [][LeaseNext]_leaseVars
=============================================================================
