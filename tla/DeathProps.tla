----------------------------- MODULE DeathProps -----------------------------
(***************************************************************************)
(* What must hold of a shared death.                                       *)
(***************************************************************************)
EXTENDS Death

TypeOK ==
  /\ owner \in Peer \cup {NoPeer} /\ noted \in BOOLEAN
  /\ changes \in 0 .. MaxChanges /\ kills \in 0 .. MaxKills
  /\ phases \subseteq [to : Peer, owner : Peer \cup {NoPeer}, no : 1 .. changes]
  /\ deaths \in [Peer -> 0 .. kills] /\ reports \in [Peer -> 0 .. kills]
  /\ applyQueue \in [Peer -> 0 .. kills] /\ posted \in [Peer -> Nat]
  /\ view \in [Peer -> Peer \cup {NoPeer}]
  /\ copy \in [Peer -> {"alive", "dead"}]
  /\ dying \cup armed \cup loaded \cup killed \subseteq Peer
  /\ lost \subseteq {"no record", "not tracked", "not loaded", "revived"}

Quiet == \A p \in Peer : deaths[p] = 0 /\ reports[p] = 0 /\ applyQueue[p] = 0

\* Players see the same fight: when no death is on its way any more, the NPC is
\* dead for everybody or for nobody, whoever killed it, owned it or was told of
\* an owner too late, unless the death fell through one of the four holes that
\* the code has.
DeathsAgree ==
  Quiet /\ lost = {} => \A p, q \in Peer : copy[p] = copy[q]

\* A queued death the main thread was not told of, or not any more.
Stranded(p) == applyQueue[p] > 0 /\ posted[p] = 0

\* A death on its way to a client, or waiting there, is carried out, even if
\* the client has become the owner meanwhile, unless it is dead there already
\* or out of the world, or the wake-up for it was dropped.
DeathCarriedOut ==
  \A p \in Peer :
    ((deaths[p] > 0 \/ applyQueue[p] > 0) /\ p \notin killed)
    ~> (copy[p] = "dead" \/ p \notin loaded \/ Stranded(p))

----------------------------------------------------------------------------
(* What a comment of the code says and the code does not keep.             *)

\* "NEVER MoveTo-revive a dying raider": a copy that died by a relayed death
\* stays a body.
CorpseStaysDead ==
  [][\A p \in killed : copy[p] = "dead" => copy'[p] = "dead"]_vars
=============================================================================
