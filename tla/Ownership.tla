----------------------------- MODULE Ownership -----------------------------
(***************************************************************************)
(* The NPC ownership registry of the server (net/server/ownership.py) with *)
(* the handlers of net/server/main.py that drive it.                       *)
(*                                                                         *)
(* For every tracked NPC the server keeps one record: which peer owns it   *)
(* (runs its AI), under which epoch, when that peer last gave proof of     *)
(* life, how much threat each peer earned, and a shared pool of hit points.*)
(* Clients report what they see; the server decides and announces every    *)
(* change of owner with a PHASE_2 message to all sessions.                 *)
(*                                                                         *)
(* Abstractions.  Time advances in whole units, one per server tick, and   *)
(* every constant of the module that is a duration counts them.  Hit points*)
(* and damage are natural numbers; a decayed sum is rounded down.  The     *)
(* position stream enters as an input of the tick: which sessions have a   *)
(* fresh position and which of those stand in aggro range of which NPC;  *)
(* the proximity score is 1 in range and 0 outside, its fraction left out. *)
(* The legacy modes (closeness, RNG) behind THREAT_OWNERSHIP = True are    *)
(* dead code and are left out, with the fields only they read.             *)
(*                                                                         *)
(* An operator whose name starts with Bug is a plausible mistake in the    *)
(* operator below it; no action uses it.                                   *)
(***************************************************************************)
EXTENDS Integers, FiniteSets

CONSTANTS
  Peer,               \* the players' client ids
  Npc,                \* the form ids of the NPCs in play
  NoPeer,             \* "nobody": the all-zero peer id of a release
  HeartbeatTimeout,   \* HEARTBEAT_TIMEOUT_MS
  EngageWindow,       \* THREAT_ENGAGE_WINDOW_MS
  DamageWindow,       \* THREAT_DAMAGE_WINDOW_MS
  MinHold,            \* THREAT_MIN_HOLD_MS
  DeadFidTtl,         \* _DEAD_FID_TTL_MS
  PendingDmgTtl,      \* _PENDING_DMG_TTL_MS
  WEngage, WDistance, WDamage,   \* THREAT_W_ENGAGE / _DISTANCE / _DAMAGE
  DamageNorm,         \* THREAT_DAMAGE_NORM
  DamageCeiling,      \* the safety ceiling of _damage_term
  FlipNum, FlipDen,   \* THREAT_FLIP_MARGIN = FlipNum / FlipDen
  MinAbsDelta,        \* THREAT_MIN_ABS_DELTA
  Amounts,            \* damage a claim may carry
  MaxHps,             \* max_hp a claim may carry; 0 is "unknown"
  MaxTime,            \* bound: the clock stops here
  MaxEpoch,           \* bound: highest epoch the registry hands out
  MaxDamage           \* bound: highest damage sum a record or the buffer holds

ASSUME OwnershipAssumption ==
  /\ IsFiniteSet(Peer) /\ IsFiniteSet(Npc)
  /\ NoPeer \notin Peer
  /\ {HeartbeatTimeout, MinHold, DeadFidTtl, PendingDmgTtl} \subseteq Nat
  /\ {EngageWindow, DamageWindow, DamageNorm, FlipDen} \subseteq Nat \ {0}
  /\ {WEngage, WDistance, WDamage, DamageCeiling, FlipNum, MinAbsDelta} \subseteq Nat
  /\ Amounts \subseteq Nat /\ MaxHps \subseteq Nat
  /\ {MaxTime, MaxEpoch, MaxDamage} \subseteq Nat

\* What the tuning of the threat table respects: damage is forgotten no later
\* than engagement, and standing near alone does not make a clear lead.
ASSUME ThreatAssumption == DamageWindow <= EngageWindow /\ WDistance < MinAbsDelta

VARIABLES
  now,         \* the server clock, starting at 1 (0 stands for "never")
  session,     \* peers with a live session
  rec,         \* _records: the record of each NPC, NoRecord when untracked
  nextEpoch,   \* _next_epoch
  deadFids,    \* _dead_fids: when the shared pool of an NPC last hit zero
  pendingDmg,  \* _pending_dmg: claims for an NPC that is not tracked yet
  phase2,      \* the last PHASE_2 announced for each NPC
  relayed      \* epoch of the last owner state relayed for each NPC

vars == <<now, session, rec, nextEpoch, deadFids, pendingDmg, phase2, relayed>>

----------------------------------------------------------------------------
Owner == Peer \cup {NoPeer}

Record == [owner : Owner, epoch : Nat, heartbeat : Nat, since : Nat,
           engaged : [Peer -> Nat], damage : [Peer -> [sum : Nat, last : Nat]],
           hpMax : Nat, hpCur : Nat, hpDead : BOOLEAN, dealt : [Peer -> Nat]]

Pending == [sum : Nat, maxHp : Nat, peer : Owner, ts : Nat]

NoRecord == [owner |-> NoPeer, epoch |-> 0, heartbeat |-> 0, since |-> 0,
             engaged |-> [p \in Peer |-> 0],
             damage |-> [p \in Peer |-> [sum |-> 0, last |-> 0]],
             hpMax |-> 0, hpCur |-> 0, hpDead |-> FALSE,
             dealt |-> [p \in Peer |-> 0]]

NoPending == [sum |-> 0, maxHp |-> 0, peer |-> NoPeer, ts |-> 0]

Tracked(n) == rec[n].owner # NoPeer

Less(a, b) == IF a > b THEN a - b ELSE 0          \* max(0, a - b)

RecentlyDead(n, t) == deadFids[n] > 0 /\ t - deadFids[n] <= DeadFidTtl

\* The peer is seen fighting the NPC now.
Engage(r, p) == [r EXCEPT !.engaged[p] = now]

\* The owner gives proof of life now.
Beat(r) == [r EXCEPT !.heartbeat = now]

\* A handoff: a new owner under a new epoch, both clocks restarted.
HandTo(r, p, e, t) == [r EXCEPT !.owner = p, !.epoch = e, !.since = t, !.heartbeat = t]

----------------------------------------------------------------------------
(* The hit-point pool of a record.                                         *)

BugBootstrap(r, maxHp) == [r EXCEPT !.hpMax = maxHp, !.hpCur = maxHp]

\* The pool after a claim: the first claim that knows max_hp fills it.
Bootstrap(r, maxHp) ==
  IF r.hpMax = 0 THEN [r EXCEPT !.hpMax = maxHp, !.hpCur = maxHp] ELSE r

BugDeplete(r, p, amount) ==
  IF r.hpMax = 0 THEN r
  ELSE [r EXCEPT !.dealt[p] = @ + amount, !.hpCur = @ - amount,
                 !.hpDead = @ \/ r.hpCur = amount]

\* Take amount out of the pool; hpDead latches the first time it is empty.
Deplete(r, p, amount) ==
  IF r.hpMax = 0 THEN r
  ELSE [r EXCEPT !.dealt[p] = @ + amount,
                 !.hpCur = Less(@, amount),
                 !.hpDead = @ \/ (r.hpCur > 0 /\ r.hpCur <= amount)]

ApplyHpClaim(r, p, amount, maxHp) == Deplete(Bootstrap(r, maxHp), p, amount)

Decayed(d, t) == (d.sum * Less(DamageWindow, t - d.last)) \div DamageWindow

\* Damage feeds the threat table and counts as engagement.
RecordDamage(r, p, amount) ==
  IF amount = 0 THEN r
  ELSE Engage([r EXCEPT !.damage[p] = [sum |-> Decayed(@, now) + amount, last |-> now]], p)

\* A fresh record takes over the buffered claims unless they are too old.
DrainPending(r, n) ==
  LET b == pendingDmg[n]
  IN  IF b.sum > 0 /\ now - b.ts <= PendingDmgTtl
      THEN ApplyHpClaim(r, b.peer, b.sum, b.maxHp)
      ELSE r

----------------------------------------------------------------------------
(* The threat of a peer toward an NPC at time t, scaled to an integer: the *)
(* real value times EngageWindow * DamageWindow * DamageNorm.              *)

Scale == EngageWindow * DamageWindow * DamageNorm

EngageTerm(r, p, t) ==
  IF r.engaged[p] = 0 THEN 0
  ELSE WEngage * Less(EngageWindow, t - r.engaged[p]) * DamageWindow * DamageNorm

DamageTerm(r, p, t) ==
  LET raw == r.damage[p].sum * Less(DamageWindow, t - r.damage[p].last)
      top == DamageCeiling * DamageNorm * DamageWindow
  IN  WDamage * EngageWindow * (IF raw > top THEN top ELSE raw)

Threat(r, p, inRange, t) ==
  EngageTerm(r, p, t) + DamageTerm(r, p, t) + (IF p \in inRange THEN WDistance * Scale ELSE 0)

BugCandidates(r, fresh, inRange, t) == inRange \cup ({r.owner} \cap fresh)

\* Who is scored: in range, recently engaged, or the owner with a fresh
\* position.  The engagement test does not ask whether the peer is connected.
Candidates(r, fresh, inRange, t) ==
  inRange
  \cup {p \in Peer : r.engaged[p] > 0 /\ t - r.engaged[p] <= EngageWindow}
  \cup ({r.owner} \cap fresh)

BugClearsMargins(best, ownerThreat) == best * FlipDen >= ownerThreat * FlipNum

\* The lead is a clear one, in proportion and absolutely.
ClearsMargins(best, ownerThreat) ==
  /\ best * FlipDen >= ownerThreat * FlipNum
  /\ best - ownerThreat >= MinAbsDelta * Scale

\* The peers reeval_threat_owners may hand r to: highest threat, another peer
\* than the owner, and past the three hysteresis gates.
Challengers(r, fresh, inRange, t) ==
  LET cands == Candidates(r, fresh, inRange, t)
      ownerThreat == IF r.owner \in cands THEN Threat(r, r.owner, inRange, t) ELSE 0
  IN  {p \in cands \ {r.owner} :
        LET best == Threat(r, p, inRange, t) IN
        /\ \A q \in cands : Threat(r, q, inRange, t) <= best
        /\ best > 0
        /\ t - r.since >= MinHold
        /\ ClearsMargins(best, ownerThreat)}

----------------------------------------------------------------------------
(* Every change of owner takes a fresh epoch and is announced.             *)

BugNumberings(S) == {[n \in S |-> nextEpoch + 1]}

\* A loop over the table numbers the NPCs of S one after the other.
Numberings(S) ==
  {f \in [S -> nextEpoch .. nextEpoch + Cardinality(S) - 1] :
     \A m, n \in S : f[m] = f[n] => m = n}

Announce(S, newOwner, f) ==
  phase2' = [n \in Npc |-> IF n \in S THEN [owner |-> newOwner[n], epoch |-> f[n]]
                                      ELSE phase2[n]]

BugRelease(S) ==
  /\ nextEpoch + Cardinality(S) <= MaxEpoch + 1
  /\ nextEpoch' = nextEpoch + Cardinality(S)
  /\ rec' = [n \in Npc |-> IF n \in S THEN NoRecord ELSE rec[n]]
  /\ UNCHANGED phase2

\* Every NPC of S becomes unowned: its record is deleted.
Release(S) ==
  \E f \in Numberings(S) :
    /\ nextEpoch + Cardinality(S) <= MaxEpoch + 1
    /\ nextEpoch' = nextEpoch + Cardinality(S)
    /\ rec' = [n \in Npc |-> IF n \in S THEN NoRecord ELSE rec[n]]
    /\ Announce(S, [n \in S |-> NoPeer], f)

\* The shared pool is empty: the corpse is remembered, besides the release.  The
\* command that kills the copies is in Death.
FireNpcDeath(n) == deadFids' = [deadFids EXCEPT ![n] = now]

----------------------------------------------------------------------------
Init ==
  /\ now = 1
  /\ session = {}
  /\ rec = [n \in Npc |-> NoRecord]
  /\ nextEpoch = 1
  /\ deadFids = [n \in Npc |-> 0]
  /\ pendingDmg = [n \in Npc |-> NoPending]
  /\ phase2 = [n \in Npc |-> [owner |-> NoPeer, epoch |-> 0]]
  /\ relayed = [n \in Npc |-> 0]

PeerJoin(p) ==
  /\ p \notin session
  /\ session' = session \cup {p}
  /\ UNCHANGED <<now, rec, nextEpoch, deadFids, pendingDmg, phase2, relayed>>

\* DISCONNECT, a dead channel or a silent peer: the session goes and
\* everything the peer owned is released.
PeerLeave(p) ==
  /\ p \in session
  /\ session' = session \ {p}
  /\ Release({n \in Npc : rec[n].owner = p})
  /\ UNCHANGED <<now, deadFids, pendingDmg, relayed>>

BugClaimable(n) == ~Tracked(n)

\* A peer may claim the NPC: nobody holds it and it is no fresh corpse.
Claimable(n) == ~Tracked(n) /\ ~RecentlyDead(n, now)

\* Draining takes the buffered claims out, used or too old.
PopPending(n) == [pendingDmg EXCEPT ![n] = NoPending]

\* NPC_OBSERVED for an untracked NPC: the observer claims it, unless the NPC
\* died recently.  Buffered damage may empty the new pool at once; the claim
\* and the release of the kill then take an epoch each.
ClaimObserved(p, n) ==
  LET r == DrainPending(Engage(HandTo(NoRecord, p, nextEpoch, now), p), n) IN
  /\ Claimable(n)
  /\ pendingDmg' = PopPending(n)
  /\ \/ /\ ~r.hpDead
        /\ nextEpoch <= MaxEpoch
        /\ nextEpoch' = nextEpoch + 1
        /\ rec' = [rec EXCEPT ![n] = r]
        /\ phase2' = [phase2 EXCEPT ![n] = [owner |-> p, epoch |-> nextEpoch]]
        /\ UNCHANGED <<deadFids>>
     \/ /\ r.hpDead
        /\ nextEpoch + 1 <= MaxEpoch
        /\ nextEpoch' = nextEpoch + 2
        /\ phase2' = [phase2 EXCEPT ![n] = [owner |-> NoPeer, epoch |-> nextEpoch + 1]]
        /\ FireNpcDeath(n)
        /\ UNCHANGED rec
  /\ UNCHANGED <<now, session, relayed>>

\* NPC_OBSERVED for a tracked NPC only records the observer's engagement.
RefreshObserved(p, n) ==
  /\ Tracked(n)
  /\ rec' = [rec EXCEPT ![n] = Engage(@, p)]
  /\ UNCHANGED <<now, session, nextEpoch, deadFids, pendingDmg, phase2, relayed>>

NpcObserved(p, n) == p \in session /\ (ClaimObserved(p, n) \/ RefreshObserved(p, n))

BugHolds(p, n, e) == rec[n].owner = p

\* The sender holds the NPC under the epoch its message carries.
Holds(p, n, e) == rec[n].owner = p /\ rec[n].epoch = e

NpcUnload(p, n, e) ==
  /\ p \in session
  /\ Holds(p, n, e)
  /\ Release({n})
  /\ UNCHANGED <<now, session, deadFids, pendingDmg, relayed>>

NpcOwnerHeartbeat(p, n, e) ==
  /\ p \in session
  /\ Holds(p, n, e)
  /\ rec' = [rec EXCEPT ![n] = Beat(@)]
  /\ UNCHANGED <<now, session, nextEpoch, deadFids, pendingDmg, phase2, relayed>>

\* A state entry of the owner is proof of life, engagement when its animation
\* says combat, and is relayed to the other peers.
NpcStateFromOwner(p, n, e, inCombat) ==
  /\ p \in session
  /\ Holds(p, n, e)
  /\ rec' = [rec EXCEPT ![n] = IF inCombat THEN Engage(Beat(@), p) ELSE Beat(@)]
  /\ relayed' = [relayed EXCEPT ![n] = e]
  /\ UNCHANGED <<now, session, nextEpoch, deadFids, pendingDmg, phase2>>

BugNpcEngagementClaim(p, n) ==
  /\ p \in session
  /\ Tracked(n)
  /\ rec' = [rec EXCEPT ![n] = Engage(Beat(@), p)]
  /\ UNCHANGED <<now, session, nextEpoch, deadFids, pendingDmg, phase2, relayed>>

\* A claim of combat counts as engagement, and as proof of life if the owner's.
NpcEngagementClaim(p, n) ==
  /\ p \in session
  /\ Tracked(n)
  /\ rec' = [rec EXCEPT ![n] = IF @.owner = p THEN Engage(Beat(@), p) ELSE Engage(@, p)]
  /\ UNCHANGED <<now, session, nextEpoch, deadFids, pendingDmg, phase2, relayed>>

\* A claim for a tracked NPC: threat first, then the pool, then the kill.
ClaimTracked(p, n, amount, maxHp) ==
  LET r == ApplyHpClaim(RecordDamage(rec[n], p, amount), p, amount, maxHp) IN
  /\ Tracked(n)
  /\ r.damage[p].sum <= MaxDamage /\ r.dealt[p] <= MaxDamage
  /\ \/ /\ ~r.hpDead
        /\ rec' = [rec EXCEPT ![n] = r]
        /\ UNCHANGED <<nextEpoch, phase2, deadFids>>
     \/ /\ r.hpDead
        /\ FireNpcDeath(n)
        /\ Release({n})
  /\ UNCHANGED pendingDmg

\* A claim that overtook the observation waits for it in the buffer.
StashPending(p, n, amount, maxHp) ==
  /\ ~Tracked(n)
  /\ amount > 0 /\ maxHp > 0
  /\ ~RecentlyDead(n, now)
  /\ pendingDmg[n].sum + amount <= MaxDamage
  /\ pendingDmg' = [pendingDmg EXCEPT ![n] =
       [sum |-> @.sum + amount, maxHp |-> maxHp, peer |-> p, ts |-> now]]
  /\ UNCHANGED <<rec, nextEpoch, phase2, deadFids>>

NpcDamageClaim(p, n, amount, maxHp) ==
  /\ p \in session
  /\ ClaimTracked(p, n, amount, maxHp) \/ StashPending(p, n, amount, maxHp)
  /\ UNCHANGED <<now, session, relayed>>

\* The owner says the NPC died: the record goes, and the corpse is not
\* remembered.  Another peer's report is only relayed (Death).
NpcDeathFromOwner(p, n) ==
  /\ p \in session
  /\ rec[n].owner = p
  /\ Release({n})
  /\ UNCHANGED <<now, session, deadFids, pendingDmg, relayed>>

\* The NPCs whose owner was silent for longer than the timeout at time t.
Expired(t) == {n \in Npc : Tracked(n) /\ t - rec[n].heartbeat > HeartbeatTimeout}

\* The NPCs the threat table takes away from their owner at time t.
Contested(fresh, near, t) ==
  {n \in Npc \ Expired(t) :
     /\ Tracked(n)
     /\ ~rec[n].hpDead /\ ~RecentlyDead(n, t)
     /\ fresh # {}
     /\ Challengers(rec[n], fresh, near[n], t) # {}}

\* The server tick: health gate, then threat re-evaluation.  fresh is the set
\* of sessions with a fresh position, near[n] those in aggro range of n.
Tick(fresh, near) ==
  LET t == now + 1
      lost == Expired(t)
      moved == Contested(fresh, near, t)
      S == lost \cup moved
  IN
  /\ now < MaxTime
  /\ now' = t
  /\ nextEpoch + Cardinality(S) <= MaxEpoch + 1
  /\ nextEpoch' = nextEpoch + Cardinality(S)
  /\ \E f \in Numberings(S) : \E to \in [moved -> Peer] :
       /\ \A n \in moved : to[n] \in Challengers(rec[n], fresh, near[n], t)
       /\ rec' = [n \in Npc |->
            IF n \in lost THEN NoRecord
            ELSE IF n \in moved
                 THEN HandTo(rec[n], to[n], f[n], t)
                 ELSE rec[n]]
       /\ Announce(S, [n \in S |-> IF n \in lost THEN NoPeer ELSE to[n]], f)
  /\ UNCHANGED <<session, deadFids, pendingDmg, relayed>>

\* Epochs a client can quote: any that was handed out.
Issued == 1 .. nextEpoch - 1

Next ==
  \/ \E p \in Peer : PeerJoin(p) \/ PeerLeave(p)
  \/ \E p \in Peer, n \in Npc :
       \/ NpcObserved(p, n)
       \/ NpcEngagementClaim(p, n)
       \/ NpcDeathFromOwner(p, n)
       \/ \E e \in Issued :
            \/ NpcUnload(p, n, e)
            \/ NpcOwnerHeartbeat(p, n, e)
            \/ \E inCombat \in BOOLEAN : NpcStateFromOwner(p, n, e, inCombat)
       \/ \E amount \in Amounts, maxHp \in MaxHps : NpcDamageClaim(p, n, amount, maxHp)
  \/ \E fresh \in SUBSET session : \E near \in [Npc -> SUBSET fresh] : Tick(fresh, near)

Spec == Init /\ [][Next]_vars
=============================================================================
