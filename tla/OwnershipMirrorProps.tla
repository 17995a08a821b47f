------------------------ MODULE OwnershipMirrorProps ------------------------
(***************************************************************************)
(* What must hold of the clients' copies of the ownership table.           *)
(***************************************************************************)
EXTENDS OwnershipMirror

Link == {"down", "up", "stranded"}
\* An entry has an epoch exactly if it names an owner.
Well(x) == x \in Entry /\ (x.owner = NoPeer <=> x.epoch = 0)

TypeOK ==
  /\ nextEpoch \in Nat \ {0}
  /\ said \subseteq [npc : Npc, owner : Owner, epoch : Nat]
  /\ rec \in [Npc -> Entry] /\ \A n \in Npc : Well(rec[n])
  /\ alive \subseteq Npc /\ dead \subseteq Npc
  /\ link \in [Peer -> Link]
  /\ mirror \in [Peer -> [Npc -> Entry]]
  /\ \A p \in Peer, n \in Npc : Well(mirror[p][n])
  /\ observed \in [Peer -> SUBSET Npc]
  /\ snap \in [Peer -> [Npc -> Nat]]
  /\ \A m \in wire : /\ m.to \in Peer
                      /\ DOMAIN m.table \subseteq Npc
                      /\ \A n \in DOMAIN m.table : m.table[n] \in Entry
  /\ sightings \subseteq [from : Peer, npc : Npc]
  /\ claims \subseteq [from : Peer, npc : Npc]
  /\ reports \subseteq [from : Peer, npc : Npc, epoch : Nat]
  /\ states \subseteq [to : Peer, from : Peer, npc : Npc, epoch : Nat]

\* Puppets are moved by one hand: a relayed state that a client would apply
\* comes from the very peer its copy names as the NPC's owner, whatever order
\* the announcements, the snapshot and the states arrived in.
AppliedFromNamedOwner ==
  \A s \in states : Applies(s) => s.from = mirror[s.to][s.npc].owner

\* A released NPC is not left frozen: when the release is on its way to a peer
\* that fights the NPC, somebody owns it again later, unless that peer goes.
\* An NPC whose pool emptied lately is meant to stay nobody's.
ReleasedIsReelected ==
  \A p \in Peer, n \in Npc :
    (/\ link[p] = "up" /\ ~Tracked(n) /\ n \notin dead
     /\ \E m \in wire : m.to = p /\ n \in DOMAIN m.table /\ m.table[n].owner = NoPeer)
    ~> (Tracked(n) \/ link[p] # "up" \/ Exhausted)

\* The player fights the NPC and tells the server so.
Claims(p, n) == \E c \in claims : c.from = p /\ c.npc = n

\* An owner whose own copy is wrong (two announcements arrived in the wrong
\* order, or it was dropped unawares) does not hold the NPC for ever: it loses
\* the NPC or its copy becomes right, unless it claims the NPC again and again
\* for its copy names another owner.
OwnerViewHeals ==
  \A p \in Peer, n \in Npc :
    (rec[n].owner = p /\ mirror[p][n] # rec[n])
    ~> (rec[n].owner # p \/ mirror[p][n] = rec[n] \/ Claims(p, n) \/ Exhausted)
=============================================================================
