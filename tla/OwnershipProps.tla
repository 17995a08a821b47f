--------------------------- MODULE OwnershipProps ---------------------------
(***************************************************************************)
(* What must hold of the ownership registry.                               *)
(***************************************************************************)
EXTENDS Ownership, Functions

TypeOK ==
  /\ now \in Nat \ {0}
  /\ session \subseteq Peer
  /\ rec \in [Npc -> Record]
  /\ nextEpoch \in Nat \ {0}
  /\ deadFids \in [Npc -> Nat]
  /\ pendingDmg \in [Npc -> Pending]
  /\ phase2 \in [Npc -> [owner : Owner, epoch : Nat]]
  /\ relayed \in [Npc -> Nat]

\* The fencing token works: no two tracked NPCs carry the same epoch, and
\* every epoch in the table was handed out once.
EpochsFresh ==
  /\ \A n \in Npc : Tracked(n) => rec[n].epoch \in Issued
  /\ \A m, n \in Npc : Tracked(m) /\ Tracked(n) /\ rec[m].epoch = rec[n].epoch => m = n

\* Clients only mirror announcements, so after every handler the last PHASE_2
\* of an NPC names exactly the owner and the epoch the server keeps.
TableAnnounced ==
  \A n \in Npc : /\ phase2[n].owner = rec[n].owner
                 /\ Tracked(n) => phase2[n].epoch = rec[n].epoch

\* The shared pool is conserved: what is left is what the pool started with
\* minus what each peer is on the books for, and an empty pool never rests in
\* the table (the handler that empties it also commands the kill).  Early claims
\* wait only for an NPC nobody knows: none counts through buffer and pool both.
PoolConserved ==
  \A n \in Npc :
    /\ rec[n].hpMax > 0 =>
         /\ rec[n].hpCur > 0 /\ ~rec[n].hpDead
         /\ rec[n].hpCur = rec[n].hpMax - SumFunctionOnSet(rec[n].dealt, Peer)
    /\ Tracked(n) => pendingDmg[n] = NoPending

\* After a pool kill the NPC stays out of the table and out of the damage
\* buffer until the corpse's time to live is over.
KilledStaysDead ==
  \A n \in Npc : RecentlyDead(n, now) => ~Tracked(n) /\ pendingDmg[n] = NoPending

\* Nobody keeps an NPC in silence: between ticks every owner's last sign of
\* life is recent, and one that is not even connected was handed the NPC that
\* recently and never refreshed it.
SilentOwnerBounded ==
  \A n \in Npc : Tracked(n) =>
    /\ now - rec[n].heartbeat <= HeartbeatTimeout
    /\ rec[n].owner \notin session => rec[n].heartbeat = rec[n].since

\* The NPC goes straight from one peer to another in this step.
Handoff(n) == Tracked(n) /\ rec'[n].owner \notin {NoPeer, rec[n].owner}

\* Aggro follows the fight: an NPC is handed only to a peer that fought it
\* within the engagement window, however close the others stand.
HandoffOnlyToFighter ==
  [][\A n \in Npc : Handoff(n) =>
       LET p == rec'[n].owner
       IN  rec[n].engaged[p] > 0 /\ now' - rec[n].engaged[p] < EngageWindow]_vars

\* A peer that fights the NPC at the very moment of the tick does not lose it
\* to one that only stands near it or fights it without doing damage.
FightingOwnerKept ==
  [][\A n \in Npc : Handoff(n) /\ rec[n].engaged[rec[n].owner] = now =>
       rec[n].damage[rec'[n].owner].sum > 0]_vars

\* The registry is a fenced lease service.
Lease == INSTANCE OwnershipLease WITH
  holder <- [n \in Npc |-> rec[n].owner],
  token <- [n \in Npc |-> phase2[n].epoch],
  nextToken <- nextEpoch,
  accepted <- relayed
ImplementsLease == Lease!LeaseSpec
=============================================================================
