-------------------------- MODULE OwnershipProofs --------------------------
(***************************************************************************)
(* Proofs about the ownership registry, for every value of its constants.  *)
(***************************************************************************)
EXTENDS OwnershipProps, SumTheorems, TLAPS

USE OwnershipAssumption

----------------------------------------------------------------------------
(* Operators.                                                              *)

\* Division of naturals stays in the naturals.
LEMMA DivNat == ASSUME NEW a \in Nat, NEW b \in Nat \ {0} PROVE a \div b \in Nat
OBVIOUS

\* A product of naturals is a natural.
LEMMA TimesNat == ASSUME NEW a \in Nat, NEW b \in Nat PROVE a * b \in Nat
OBVIOUS

\* Truncated subtraction is a natural.
LEMMA LessNat == ASSUME NEW a \in Nat, NEW b \in Nat PROVE Less(a, b) \in Nat
BY DEF Less

\* Two records agree on who owns the NPC, under which epoch and since when.
SameLease(s, r) ==
  s.owner = r.owner /\ s.epoch = r.epoch /\ s.heartbeat = r.heartbeat /\ s.since = r.since

\* A hit-point claim keeps a record a record and touches nobody's lease.
LEMMA HpClaimRecord ==
  ASSUME NEW r \in Record, NEW p \in Peer, NEW amount \in Nat, NEW maxHp \in Nat
  PROVE  ApplyHpClaim(r, p, amount, maxHp) \in Record /\ SameLease(ApplyHpClaim(r, p, amount, maxHp), r)
<1> DEFINE b == Bootstrap(r, maxHp)
<1>1. /\ b \in Record /\ b.owner = r.owner /\ b.epoch = r.epoch
      /\ b.heartbeat = r.heartbeat /\ b.since = r.since
  BY DEF Bootstrap, Record
<1>2. Less(b.hpCur, amount) \in Nat
  BY <1>1, LessNat DEF Record
<1> HIDE DEF b
<1> DEFINE cur == Less(b.hpCur, amount)
           dead == b.hpDead \/ (b.hpCur > 0 /\ b.hpCur <= amount)
           dealt == [b.dealt EXCEPT ![p] = @ + amount]
           drained == [b EXCEPT !.dealt = dealt, !.hpCur = cur, !.hpDead = dead]
<1>3. dead \in BOOLEAN
  BY ZenonT(20)
<1>4. dealt \in [Peer -> Nat]
  BY <1>1 DEF Record
<1>5. Deplete(b, p, amount) = IF b.hpMax = 0 THEN b ELSE drained
  BY <1>1 DEF Deplete, Record
<1> HIDE DEF cur, dead, dealt
<1>6. /\ drained \in Record /\ drained.owner = b.owner /\ drained.epoch = b.epoch
      /\ drained.heartbeat = b.heartbeat /\ drained.since = b.since
  BY <1>1, <1>2, <1>3, <1>4 DEF Record, cur
<1>7. /\ Deplete(b, p, amount) \in Record
      /\ Deplete(b, p, amount).owner = b.owner /\ Deplete(b, p, amount).epoch = b.epoch
      /\ Deplete(b, p, amount).heartbeat = b.heartbeat
      /\ Deplete(b, p, amount).since = b.since
  BY <1>1, <1>5, <1>6
<1>. QED
  BY <1>1, <1>7 DEF ApplyHpClaim, b, SameLease

\* Engagement is no part of the lease.
LEMMA EngageRecord ==
  ASSUME NEW r \in Record, NEW p \in Peer, now \in Nat
  PROVE  Engage(r, p) \in Record /\ SameLease(Engage(r, p), r)
<1>1. r.engaged \in [Peer -> Nat]
  BY DEF Record
<1>2. [r.engaged EXCEPT ![p] = now] \in [Peer -> Nat]
  BY <1>1
<1>. QED
  BY <1>2 DEF Engage, Record, SameLease

\* A proof of life moves the heartbeat only.
LEMMA BeatRecord ==
  ASSUME NEW r \in Record, now \in Nat
  PROVE  /\ Beat(r) \in Record
         /\ Beat(r).owner = r.owner /\ Beat(r).epoch = r.epoch
         /\ Beat(r).heartbeat = now /\ Beat(r).since = r.since
BY DEF Beat, Record

\* A handoff writes the lease and nothing else.
LEMMA HandToRecord ==
  ASSUME NEW r \in Record, NEW p \in Peer, NEW e \in Nat, NEW t \in Nat
  PROVE  /\ HandTo(r, p, e, t) \in Record
         /\ HandTo(r, p, e, t).owner = p /\ HandTo(r, p, e, t).epoch = e
         /\ HandTo(r, p, e, t).heartbeat = t /\ HandTo(r, p, e, t).since = t
BY DEF HandTo, Record, Owner

\* Recording damage keeps a record a record and touches nobody's lease.
LEMMA DamageRecord ==
  ASSUME NEW r \in Record, NEW p \in Peer, NEW amount \in Nat, now \in Nat
  PROVE  RecordDamage(r, p, amount) \in Record /\ SameLease(RecordDamage(r, p, amount), r)
<1> DEFINE d == r.damage[p]
           left == Less(DamageWindow, now - d.last)
<1>1. d \in [sum : Nat, last : Nat]
  BY DEF Record
<1>2. left \in Nat
  BY <1>1 DEF Less
<1>3. d.sum * left \in Nat
  BY <1>1, <1>2, TimesNat
<1>4. Decayed(d, now) \in Nat
  BY <1>3, DivNat DEF Decayed
<1> HIDE DEF d
<1> DEFINE damage == [r.damage EXCEPT ![p] = [sum |-> Decayed(@, now) + amount, last |-> now]]
           hit == [r EXCEPT !.damage = damage]
<1>5. damage \in [Peer -> [sum : Nat, last : Nat]]
  BY <1>4 DEF d, Record
<1>6. RecordDamage(r, p, amount) = IF amount = 0 THEN r ELSE Engage(hit, p)
  BY DEF RecordDamage, Record
<1> HIDE DEF damage
<1>7. /\ hit \in Record /\ hit.owner = r.owner /\ hit.epoch = r.epoch
      /\ hit.heartbeat = r.heartbeat /\ hit.since = r.since
  BY <1>5 DEF Record
<1>8. Engage(hit, p) \in Record /\ SameLease(Engage(hit, p), hit)
  BY <1>7, EngageRecord
<1> HIDE DEF hit
<1>. QED
  BY <1>6, <1>7, <1>8 DEF SameLease

\* The epochs a loop hands out are fresh, distinct and below the next one.
LEMMA NumberingsFresh ==
  ASSUME nextEpoch \in Nat, NEW S \in SUBSET Npc, NEW f \in Numberings(S)
  PROVE  /\ Cardinality(S) \in Nat
         /\ \A n \in S : f[n] \in Nat /\ nextEpoch <= f[n] /\ f[n] < nextEpoch + Cardinality(S)
         /\ \A m, n \in S : f[m] = f[n] => m = n
<1>1. Cardinality(S) \in Nat
  BY FS_Subset, FS_CardinalityType
<1>. QED
  BY <1>1 DEF Numberings

\* Draining the buffer keeps a record a record and touches nobody's lease.
LEMMA DrainRecord ==
  ASSUME TypeOK, NEW r \in Record, NEW n \in Npc,
         pendingDmg[n].sum > 0 => pendingDmg[n].peer \in Peer
  PROVE  DrainPending(r, n) \in Record /\ SameLease(DrainPending(r, n), r)
<1>1. pendingDmg[n] \in Pending
  BY DEF TypeOK
<1>2. CASE pendingDmg[n].sum > 0 /\ now - pendingDmg[n].ts <= PendingDmgTtl
  <2>1. /\ pendingDmg[n].peer \in Peer
        /\ pendingDmg[n].sum \in Nat /\ pendingDmg[n].maxHp \in Nat
    BY <1>1, <1>2 DEF Pending
  <2>2. DrainPending(r, n) =
          ApplyHpClaim(r, pendingDmg[n].peer, pendingDmg[n].sum, pendingDmg[n].maxHp)
    BY <1>2 DEF DrainPending
  <2>. QED
    BY <2>1, <2>2, HpClaimRecord
<1>3. CASE ~(pendingDmg[n].sum > 0 /\ now - pendingDmg[n].ts <= PendingDmgTtl)
  BY <1>3 DEF DrainPending, SameLease
<1>. QED
  BY <1>2, <1>3

----------------------------------------------------------------------------
(* Type correctness.  The buffer names a peer whenever it holds damage.    *)

BufferNamesPeer == \A n \in Npc : pendingDmg[n].sum > 0 => pendingDmg[n].peer \in Peer

Typed == TypeOK /\ BufferNamesPeer

LEMMA NoRecordType == NoRecord \in Record /\ NoRecord.owner = NoPeer
BY DEF NoRecord, Record, Owner

LEMMA TypedInit == Init => Typed
<1> SUFFICES ASSUME Init PROVE Typed
  OBVIOUS
<1>1. NoPending \in Pending /\ NoPending.sum = 0
  BY DEF NoPending, Pending, Owner
<1>. QED
  BY <1>1, NoRecordType DEF Init, Typed, TypeOK, BufferNamesPeer, Owner

\* Releasing a set of NPCs preserves the types of what it writes.
LEMMA ReleaseTyped ==
  ASSUME TypeOK, NEW S \in SUBSET Npc, Release(S)
  PROVE  /\ rec' \in [Npc -> Record]
         /\ nextEpoch' \in Nat \ {0}
         /\ phase2' \in [Npc -> [owner : Owner, epoch : Nat]]
<1>1. PICK f \in Numberings(S) :
        /\ nextEpoch' = nextEpoch + Cardinality(S)
        /\ rec' = [n \in Npc |-> IF n \in S THEN NoRecord ELSE rec[n]]
        /\ Announce(S, [n \in S |-> NoPeer], f)
  BY DEF Release
<1>2. /\ Cardinality(S) \in Nat
      /\ \A n \in S : f[n] \in Nat
  BY NumberingsFresh DEF TypeOK
<1>3. rec' \in [Npc -> Record]
  BY <1>1, NoRecordType DEF TypeOK
<1>4. nextEpoch' \in Nat \ {0}
  BY <1>1, <1>2 DEF TypeOK
<1>5. phase2' \in [Npc -> [owner : Owner, epoch : Nat]]
  BY <1>1, <1>2 DEF Announce, TypeOK, Owner
<1>. QED
  BY <1>3, <1>4, <1>5

LEMMA TypedNext == Typed /\ [Next]_vars => Typed'
<1> SUFFICES ASSUME Typed, [Next]_vars PROVE Typed'
  OBVIOUS
<1> USE DEF Typed
<1>0. TypeOK /\ BufferNamesPeer
  OBVIOUS
<1>1. ASSUME NEW p \in Peer, PeerJoin(p) PROVE Typed'
  BY <1>1 DEF PeerJoin, TypeOK, BufferNamesPeer
<1>2. ASSUME NEW p \in Peer, PeerLeave(p) PROVE Typed'
  <2>1. Release({n \in Npc : rec[n].owner = p})
    BY <1>2 DEF PeerLeave
  <2>2. /\ rec' \in [Npc -> Record] /\ nextEpoch' \in Nat \ {0}
        /\ phase2' \in [Npc -> [owner : Owner, epoch : Nat]]
    BY <2>1, ReleaseTyped
  <2>. QED
    BY <1>2, <2>2 DEF PeerLeave, TypeOK, BufferNamesPeer
<1>3. ASSUME NEW p \in Peer, NEW n \in Npc, ClaimObserved(p, n) PROVE Typed'
  <2> DEFINE fresh == Engage(HandTo(NoRecord, p, nextEpoch, now), p)
             r == DrainPending(fresh, n)
  <2>1. fresh \in Record
    BY NoRecordType, HandToRecord, EngageRecord DEF TypeOK
  <2>2. r \in Record
    BY <2>1, DrainRecord DEF BufferNamesPeer
  <2>3. NoPending \in Pending /\ NoPending.sum = 0
    BY DEF NoPending, Pending, Owner
  <2>4. /\ pendingDmg' = [pendingDmg EXCEPT ![n] = NoPending]
        /\ now' = now /\ session' = session /\ relayed' = relayed
        /\ \/ /\ nextEpoch' = nextEpoch + 1
              /\ rec' = [rec EXCEPT ![n] = r]
              /\ phase2' = [phase2 EXCEPT ![n] = [owner |-> p, epoch |-> nextEpoch]]
              /\ UNCHANGED deadFids
           \/ /\ nextEpoch' = nextEpoch + 2
              /\ phase2' = [phase2 EXCEPT ![n] = [owner |-> NoPeer, epoch |-> nextEpoch + 1]]
              /\ FireNpcDeath(n)
              /\ UNCHANGED rec
    BY <1>3 DEF ClaimObserved, Claimable, PopPending
  <2> HIDE DEF r, fresh
  <2>5. /\ pendingDmg' \in [Npc -> Pending] /\ BufferNamesPeer'
        /\ now' \in Nat \ {0} /\ session' \subseteq Peer /\ relayed' \in [Npc -> Nat]
    BY <2>3, <2>4 DEF TypeOK, BufferNamesPeer
  <2>6. nextEpoch' \in Nat \ {0} /\ rec' \in [Npc -> Record]
    BY <2>2, <2>4 DEF TypeOK
  <2>7. phase2' \in [Npc -> [owner : Owner, epoch : Nat]]
    BY <2>4 DEF TypeOK, Owner
  <2>8. deadFids' \in [Npc -> Nat]
    BY <2>4 DEF TypeOK, FireNpcDeath
  <2>. QED
    BY <2>5, <2>6, <2>7, <2>8 DEF TypeOK
<1>4. ASSUME NEW p \in Peer, NEW n \in Npc, RefreshObserved(p, n) PROVE Typed'
  BY <1>4, EngageRecord DEF RefreshObserved, TypeOK, BufferNamesPeer
<1>5. ASSUME NEW p \in Peer, NEW n \in Npc, NEW e \in Issued, NpcUnload(p, n, e) PROVE Typed'
  <2>1. /\ rec' \in [Npc -> Record] /\ nextEpoch' \in Nat \ {0}
        /\ phase2' \in [Npc -> [owner : Owner, epoch : Nat]]
    BY <1>5, ReleaseTyped DEF NpcUnload
  <2>. QED
    BY <1>5, <2>1 DEF NpcUnload, TypeOK, BufferNamesPeer
<1>6. ASSUME NEW p \in Peer, NEW n \in Npc, NEW e \in Issued, NpcOwnerHeartbeat(p, n, e)
      PROVE Typed'
  BY <1>6, BeatRecord DEF NpcOwnerHeartbeat, TypeOK, BufferNamesPeer
<1>7. ASSUME NEW p \in Peer, NEW n \in Npc, NEW e \in Issued, NEW inCombat \in BOOLEAN,
             NpcStateFromOwner(p, n, e, inCombat)
      PROVE Typed'
  BY <1>7, BeatRecord, EngageRecord DEF NpcStateFromOwner, TypeOK, BufferNamesPeer, Issued
<1>8. ASSUME NEW p \in Peer, NEW n \in Npc, NpcEngagementClaim(p, n) PROVE Typed'
  BY <1>8, BeatRecord, EngageRecord DEF NpcEngagementClaim, TypeOK, BufferNamesPeer
<1>9. ASSUME NEW p \in Peer, NEW n \in Npc, NEW amount \in Amounts, NEW maxHp \in MaxHps,
             NpcDamageClaim(p, n, amount, maxHp)
      PROVE Typed'
  <2>1. amount \in Nat /\ maxHp \in Nat /\ now \in Nat
    BY DEF TypeOK
  <2>2. CASE ClaimTracked(p, n, amount, maxHp)
    <3> DEFINE r == ApplyHpClaim(RecordDamage(rec[n], p, amount), p, amount, maxHp)
    <3>1. r \in Record
      BY <2>1, DamageRecord, HpClaimRecord DEF TypeOK
    <3>2. /\ rec' \in [Npc -> Record] /\ nextEpoch' \in Nat \ {0}
          /\ phase2' \in [Npc -> [owner : Owner, epoch : Nat]]
          /\ deadFids' \in [Npc -> Nat]
          /\ pendingDmg' = pendingDmg
      <4>1. CASE /\ rec' = [rec EXCEPT ![n] = r]
                 /\ UNCHANGED <<nextEpoch, phase2, deadFids, pendingDmg>>
        BY <3>1, <4>1 DEF TypeOK
      <4>2. CASE FireNpcDeath(n) /\ Release({n}) /\ pendingDmg' = pendingDmg
        BY <4>2, ReleaseTyped DEF FireNpcDeath, TypeOK
      <4>. QED
        BY <2>2, <4>1, <4>2 DEF ClaimTracked
    <3>. QED
      BY <1>9, <3>2 DEF NpcDamageClaim, TypeOK, BufferNamesPeer
  <2>3. CASE StashPending(p, n, amount, maxHp)
    <3>1. pendingDmg' \in [Npc -> Pending] /\ BufferNamesPeer'
      BY <2>1, <2>3 DEF StashPending, TypeOK, Pending, BufferNamesPeer, Owner
    <3>. QED
      BY <1>9, <2>3, <3>1 DEF NpcDamageClaim, StashPending, TypeOK
  <2>. QED
    BY <1>9, <2>2, <2>3 DEF NpcDamageClaim
<1>10. ASSUME NEW p \in Peer, NEW n \in Npc, NpcDeathFromOwner(p, n) PROVE Typed'
  <2>1. /\ rec' \in [Npc -> Record] /\ nextEpoch' \in Nat \ {0}
        /\ phase2' \in [Npc -> [owner : Owner, epoch : Nat]]
    BY <1>10, ReleaseTyped DEF NpcDeathFromOwner, TypeOK
  <2>. QED
    BY <1>10, <2>1 DEF NpcDeathFromOwner, TypeOK, BufferNamesPeer
<1>11. ASSUME NEW fresh \in SUBSET session, NEW near \in [Npc -> SUBSET fresh],
              Tick(fresh, near)
       PROVE Typed'
  <2> DEFINE t == now + 1
             lost == Expired(t)
             moved == Contested(fresh, near, t)
             S == lost \cup moved
  <2>1. S \in SUBSET Npc
    BY DEF Expired, Contested
  <2>2. PICK f \in Numberings(S), to \in [moved -> Peer] :
          /\ rec' = [n \in Npc |->
               IF n \in lost THEN NoRecord
               ELSE IF n \in moved
                    THEN HandTo(rec[n], to[n], f[n], t)
                    ELSE rec[n]]
          /\ Announce(S, [n \in S |-> IF n \in lost THEN NoPeer ELSE to[n]], f)
    BY <1>11 DEF Tick
  <2>3. /\ Cardinality(S) \in Nat
        /\ \A n \in S : f[n] \in Nat
    BY <2>1, <2>2, NumberingsFresh DEF TypeOK
  <2>4. /\ now' = t /\ nextEpoch' = nextEpoch + Cardinality(S)
        /\ UNCHANGED <<session, deadFids, pendingDmg, relayed>>
    BY <1>11 DEF Tick
  <2> HIDE DEF lost, moved
  <2>5. rec' \in [Npc -> Record]
    <3>1. t \in Nat
      BY DEF TypeOK
    <3>2. ASSUME NEW n \in moved, n \in Npc PROVE HandTo(rec[n], to[n], f[n], t) \in Record
      BY <2>3, <3>1, <3>2, HandToRecord DEF TypeOK
    <3>. QED
      BY <2>2, <3>2, NoRecordType DEF TypeOK
  <2>6. phase2' \in [Npc -> [owner : Owner, epoch : Nat]]
    BY <2>2, <2>3 DEF Announce, TypeOK, Owner
  <2>. QED
    BY <2>3, <2>4, <2>5, <2>6 DEF TypeOK, BufferNamesPeer
<1>12. CASE UNCHANGED vars
  BY <1>12 DEF vars, TypeOK, BufferNamesPeer
<1>. QED
  BY <1>1, <1>2, <1>3, <1>4, <1>5, <1>6, <1>7, <1>8, <1>9, <1>10, <1>11, <1>12
  DEF Next, NpcObserved

\* Every variable keeps its type.
THEOREM TypeCorrect == Spec => []TypeOK
<1>1. Typed => TypeOK
  BY DEF Typed
<1>. QED
  BY <1>1, TypedInit, TypedNext, PTL DEF Spec

----------------------------------------------------------------------------
(* Every step either keeps all leases or gives a set of NPCs fresh epochs. *)

LeasesKept ==
  /\ nextEpoch' = nextEpoch /\ phase2' = phase2
  /\ \A n \in Npc : rec'[n].owner = rec[n].owner /\ rec'[n].epoch = rec[n].epoch

Reassigned(S) ==
  /\ nextEpoch <= nextEpoch' /\ relayed' = relayed
  /\ \A n \in S :
       /\ nextEpoch <= phase2'[n].epoch
       /\ phase2'[n].epoch < nextEpoch'
       /\ phase2'[n].owner = rec'[n].owner
       /\ rec'[n].owner # NoPeer => rec'[n].epoch = phase2'[n].epoch
  /\ \A m, n \in S : phase2'[m].epoch = phase2'[n].epoch => m = n
  /\ \A n \in Npc \ S :
       /\ phase2'[n] = phase2[n]
       /\ rec'[n].owner = rec[n].owner
       /\ rec'[n].epoch = rec[n].epoch

RelayedOwnState ==
  relayed' = relayed
  \/ \E n \in Npc : Tracked(n) /\ relayed' = [relayed EXCEPT ![n] = rec[n].epoch]

LeaseStep == (LeasesKept /\ RelayedOwnState) \/ \E S \in SUBSET Npc : Reassigned(S)

\* Replacing one record by one with the same lease keeps all leases.
LEMMA KeepOne ==
  ASSUME TypeOK, NEW n \in Npc, NEW r, r.owner = rec[n].owner, r.epoch = rec[n].epoch,
         rec' = [rec EXCEPT ![n] = r], nextEpoch' = nextEpoch, phase2' = phase2
  PROVE  LeasesKept
BY DEF LeasesKept, TypeOK

LEMMA ReleaseStep ==
  ASSUME TypeOK, NEW S \in SUBSET Npc, Release(S), relayed' = relayed
  PROVE  Reassigned(S)
<1>1. PICK f \in Numberings(S) :
        /\ nextEpoch' = nextEpoch + Cardinality(S)
        /\ rec' = [n \in Npc |-> IF n \in S THEN NoRecord ELSE rec[n]]
        /\ Announce(S, [n \in S |-> NoPeer], f)
  BY DEF Release
<1>2. /\ Cardinality(S) \in Nat
      /\ \A n \in S : f[n] \in Nat /\ nextEpoch <= f[n] /\ f[n] < nextEpoch + Cardinality(S)
      /\ \A m, n \in S : f[m] = f[n] => m = n
  BY NumberingsFresh DEF TypeOK
<1>3. \A n \in Npc : phase2'[n] = IF n \in S THEN [owner |-> NoPeer, epoch |-> f[n]]
                                             ELSE phase2[n]
  BY <1>1 DEF Announce
<1>4. nextEpoch <= nextEpoch'
  BY <1>1, <1>2 DEF TypeOK
<1>5. ASSUME NEW n \in S
      PROVE  phase2'[n].epoch = f[n] /\ phase2'[n].owner = NoPeer /\ rec'[n].owner = NoPeer
  <2>1. rec'[n] = NoRecord /\ phase2'[n] = [owner |-> NoPeer, epoch |-> f[n]]
    BY <1>1, <1>3
  <2>. QED
    BY <2>1, NoRecordType
<1>6. \A n \in Npc \ S : phase2'[n] = phase2[n] /\ rec'[n] = rec[n]
  BY <1>1, <1>3
<1>7. ASSUME NEW n \in S
      PROVE  /\ nextEpoch <= phase2'[n].epoch /\ phase2'[n].epoch < nextEpoch'
             /\ phase2'[n].owner = rec'[n].owner /\ rec'[n].owner = NoPeer
  BY <1>1, <1>2, <1>5
<1>8. ASSUME NEW m \in S, NEW n \in S, phase2'[m].epoch = phase2'[n].epoch PROVE m = n
  BY <1>2, <1>5, <1>8
<1>. QED
  BY <1>4, <1>6, <1>7, <1>8 DEF Reassigned

LEMMA EveryStep == Typed /\ [Next]_vars => LeaseStep
<1> SUFFICES ASSUME Typed, [Next]_vars PROVE LeaseStep
  OBVIOUS
<1>0. TypeOK /\ BufferNamesPeer
  BY DEF Typed
<1> USE <1>0
<1>1. ASSUME NEW p \in Peer, PeerJoin(p) PROVE LeaseStep
  BY <1>1 DEF PeerJoin, LeaseStep, LeasesKept, RelayedOwnState
<1>2. ASSUME NEW p \in Peer, PeerLeave(p) PROVE LeaseStep
  BY <1>2, ReleaseStep DEF PeerLeave, LeaseStep
<1>3. ASSUME NEW p \in Peer, NEW n \in Npc, ClaimObserved(p, n) PROVE LeaseStep
  <2> DEFINE fresh == Engage(HandTo(NoRecord, p, nextEpoch, now), p)
             r == DrainPending(fresh, n)
  <2>0. nextEpoch \in Nat /\ now \in Nat
    BY DEF TypeOK
  <2>1. HandTo(NoRecord, p, nextEpoch, now) \in Record
        /\ HandTo(NoRecord, p, nextEpoch, now).owner = p
        /\ HandTo(NoRecord, p, nextEpoch, now).epoch = nextEpoch
    BY <2>0, NoRecordType DEF HandTo, Record, Owner
  <2>2. fresh \in Record /\ fresh.owner = p /\ fresh.epoch = nextEpoch
    BY <2>1, EngageRecord DEF SameLease, TypeOK
  <2>3. r.owner = p /\ r.epoch = nextEpoch
    BY <2>2, DrainRecord DEF SameLease, BufferNamesPeer
  <2>4. /\ ~Tracked(n) /\ relayed' = relayed
        /\ \/ /\ nextEpoch' = nextEpoch + 1
              /\ rec' = [rec EXCEPT ![n] = r]
              /\ phase2' = [phase2 EXCEPT ![n] = [owner |-> p, epoch |-> nextEpoch]]
           \/ /\ nextEpoch' = nextEpoch + 2
              /\ phase2' = [phase2 EXCEPT ![n] = [owner |-> NoPeer, epoch |-> nextEpoch + 1]]
              /\ UNCHANGED rec
    BY <1>3 DEF ClaimObserved, Claimable, PopPending
  <2> HIDE DEF r, fresh
  <2>5. Reassigned({n})
    BY <2>3, <2>4 DEF Reassigned, TypeOK, Tracked
  <2>. QED
    BY <2>5 DEF LeaseStep
<1>4. ASSUME NEW p \in Peer, NEW n \in Npc, RefreshObserved(p, n) PROVE LeaseStep
  <2>1. /\ Engage(rec[n], p).owner = rec[n].owner /\ Engage(rec[n], p).epoch = rec[n].epoch
    BY EngageRecord DEF TypeOK, SameLease
  <2>2. LeasesKept
    BY <1>4, <2>1, KeepOne DEF RefreshObserved
  <2>. QED
    BY <1>4, <2>2 DEF RefreshObserved, LeaseStep, RelayedOwnState
<1>5. ASSUME NEW p \in Peer, NEW n \in Npc, NEW e \in Issued, NpcUnload(p, n, e) PROVE LeaseStep
  BY <1>5, ReleaseStep DEF NpcUnload, LeaseStep
<1> DEFINE Leased(r, n) == r.owner = rec[n].owner /\ r.epoch = rec[n].epoch
<1>a. ASSUME NEW p \in Peer, NEW n \in Npc
      PROVE  Leased(Beat(rec[n]), n) /\ Leased(Engage(rec[n], p), n)
             /\ Leased(Engage(Beat(rec[n]), p), n)
  BY BeatRecord, EngageRecord DEF TypeOK, SameLease
<1>6. ASSUME NEW p \in Peer, NEW n \in Npc, NEW e \in Issued, NpcOwnerHeartbeat(p, n, e)
      PROVE LeaseStep
  BY <1>6, <1>a, KeepOne DEF NpcOwnerHeartbeat, LeaseStep, RelayedOwnState
<1>7. ASSUME NEW p \in Peer, NEW n \in Npc, NEW e \in Issued, NEW inCombat \in BOOLEAN,
             NpcStateFromOwner(p, n, e, inCombat)
      PROVE LeaseStep
  <2>1. LeasesKept
    BY <1>7, <1>a, KeepOne DEF NpcStateFromOwner
  <2>2. Tracked(n) /\ relayed' = [relayed EXCEPT ![n] = rec[n].epoch]
    BY <1>7 DEF NpcStateFromOwner, Holds, Tracked
  <2>. QED
    BY <2>1, <2>2 DEF LeaseStep, RelayedOwnState
<1>8. ASSUME NEW p \in Peer, NEW n \in Npc, NpcEngagementClaim(p, n) PROVE LeaseStep
  BY <1>8, <1>a, KeepOne DEF NpcEngagementClaim, LeaseStep, RelayedOwnState
<1>9. ASSUME NEW p \in Peer, NEW n \in Npc, NEW amount \in Amounts, NEW maxHp \in MaxHps,
             NpcDamageClaim(p, n, amount, maxHp)
      PROVE LeaseStep
  <2> DEFINE hit == RecordDamage(rec[n], p, amount)
             r == ApplyHpClaim(hit, p, amount, maxHp)
  <2>1. amount \in Nat /\ maxHp \in Nat /\ now \in Nat /\ rec[n] \in Record
    BY DEF TypeOK
  <2>2. hit \in Record /\ SameLease(hit, rec[n])
    BY <2>1, DamageRecord
  <2> HIDE DEF hit
  <2>3. SameLease(r, hit)
    BY <2>1, <2>2, HpClaimRecord
  <2>4. Leased(r, n)
    BY <2>2, <2>3 DEF SameLease
  <2>5. relayed' = relayed
    BY <1>9 DEF NpcDamageClaim
  <2>6. CASE Release({n})
    BY <2>5, <2>6, ReleaseStep DEF LeaseStep
  <2>7. CASE /\ rec' = [rec EXCEPT ![n] = r]
             /\ nextEpoch' = nextEpoch /\ phase2' = phase2
    BY <2>4, <2>5, <2>7, KeepOne DEF LeaseStep, RelayedOwnState
  <2>8. CASE StashPending(p, n, amount, maxHp)
    BY <2>5, <2>8 DEF StashPending, LeaseStep, LeasesKept, RelayedOwnState
  <2>. QED
    BY <1>9, <2>6, <2>7, <2>8 DEF NpcDamageClaim, ClaimTracked, hit
<1>10. ASSUME NEW p \in Peer, NEW n \in Npc, NpcDeathFromOwner(p, n) PROVE LeaseStep
  BY <1>10, ReleaseStep DEF NpcDeathFromOwner, LeaseStep
<1>11. ASSUME NEW fresh \in SUBSET session, NEW near \in [Npc -> SUBSET fresh],
              Tick(fresh, near)
       PROVE LeaseStep
  <2> DEFINE t == now + 1
             lost == Expired(t)
             moved == Contested(fresh, near, t)
             S == lost \cup moved
  <2>1. S \in SUBSET Npc /\ t \in Nat
    BY DEF Expired, Contested, TypeOK
  <2>2. PICK f \in Numberings(S), to \in [moved -> Peer] :
          /\ rec' = [n \in Npc |->
               IF n \in lost THEN NoRecord
               ELSE IF n \in moved
                    THEN HandTo(rec[n], to[n], f[n], t)
                    ELSE rec[n]]
          /\ Announce(S, [n \in S |-> IF n \in lost THEN NoPeer ELSE to[n]], f)
    BY <1>11 DEF Tick
  <2>3. /\ Cardinality(S) \in Nat
        /\ \A n \in S : f[n] \in Nat /\ nextEpoch <= f[n] /\ f[n] < nextEpoch + Cardinality(S)
        /\ \A m, n \in S : f[m] = f[n] => m = n
    BY <2>1, <2>2, NumberingsFresh DEF TypeOK
  <2>4. nextEpoch' = nextEpoch + Cardinality(S) /\ relayed' = relayed
    BY <1>11 DEF Tick
  <2> HIDE DEF lost, moved, t
  <2>5. \A n \in Npc : phase2'[n] =
          IF n \in S THEN [owner |-> IF n \in lost THEN NoPeer ELSE to[n], epoch |-> f[n]]
                     ELSE phase2[n]
    BY <2>2 DEF Announce
  <2>6. \A n \in lost : rec'[n] = NoRecord
    BY <2>1, <2>2
  <2>7. \A n \in moved \ lost : rec'[n].owner = to[n] /\ rec'[n].epoch = f[n]
    <3>1. ASSUME NEW n \in moved \ lost PROVE rec'[n].owner = to[n] /\ rec'[n].epoch = f[n]
      <4>1. n \in Npc /\ n \in S /\ rec[n] \in Record /\ to[n] \in Peer
        BY <2>1, <2>2 DEF TypeOK
      <4>2. rec'[n] = HandTo(rec[n], to[n], f[n], t)
        BY <2>2, <4>1
      <4>3. f[n] \in Nat /\ t \in Nat
        BY <2>1, <2>3, <4>1
      <4>4. /\ HandTo(rec[n], to[n], f[n], t).owner = to[n]
            /\ HandTo(rec[n], to[n], f[n], t).epoch = f[n]
        BY <4>1, <4>3 DEF HandTo, Record
      <4>. QED
        BY <4>2, <4>4
    <3>. QED
      BY <3>1
  <2>8. \A n \in Npc \ S : rec'[n] = rec[n]
    BY <2>2
  <2>9. nextEpoch <= nextEpoch'
    BY <2>3, <2>4 DEF TypeOK
  <2>10. \A n \in S : /\ phase2'[n].epoch = f[n] /\ phase2'[n].owner = rec'[n].owner
                      /\ rec'[n].owner # NoPeer => rec'[n].epoch = f[n]
    <3>1. ASSUME NEW n \in lost
          PROVE  /\ phase2'[n].epoch = f[n] /\ phase2'[n].owner = rec'[n].owner
                 /\ rec'[n].owner = NoPeer
      <4>1. n \in Npc /\ n \in S
        BY <2>1
      <4>2. phase2'[n] = [owner |-> NoPeer, epoch |-> f[n]] /\ rec'[n] = NoRecord
        BY <2>5, <2>6, <4>1
      <4>. QED
        BY <4>2, NoRecordType
    <3>2. ASSUME NEW n \in moved \ lost
          PROVE  /\ phase2'[n].epoch = f[n] /\ phase2'[n].owner = rec'[n].owner
                 /\ rec'[n].epoch = f[n]
      <4>1. n \in Npc /\ n \in S
        BY <2>1
      <4>2. phase2'[n] = [owner |-> to[n], epoch |-> f[n]]
        BY <2>5, <4>1
      <4>. QED
        BY <2>7, <4>2
    <3>. QED
      BY <3>1, <3>2
  <2> HIDE DEF S
  <2>11. \A n \in Npc \ S : phase2'[n] = phase2[n]
    BY <2>5
  <2>12. Reassigned(S)
    BY <2>1, <2>3, <2>4, <2>8, <2>9, <2>10, <2>11 DEF Reassigned
  <2>. QED
    BY <2>1, <2>12 DEF LeaseStep
<1>12. CASE UNCHANGED vars
  BY <1>12 DEF vars, LeaseStep, LeasesKept, RelayedOwnState
<1>. QED
  BY <1>1, <1>2, <1>3, <1>4, <1>5, <1>6, <1>7, <1>8, <1>9, <1>10, <1>11, <1>12
  DEF Next, NpcObserved

----------------------------------------------------------------------------
(* Fencing and refinement.                                                 *)

\* The table is announced, and what was announced last for the NPCs is
\* stamped with distinct epochs below the next one.
LeaseInv ==
  /\ TableAnnounced
  /\ \A n \in Npc : phase2[n].epoch < nextEpoch
  /\ \A n \in Npc : Tracked(n) => phase2[n].epoch > 0
  /\ \A m, n \in Npc : /\ phase2[m].epoch = phase2[n].epoch
                       /\ phase2[m].epoch > 0
                       => m = n

LEMMA LeaseInvInit == Init => LeaseInv
BY NoRecordType DEF Init, LeaseInv, TableAnnounced, Tracked

LEMMA LeaseInvStep ==
  ASSUME TypeOK, TypeOK', LeaseInv, LeaseStep
  PROVE  LeaseInv'
<1>1. CASE LeasesKept
  BY <1>1 DEF LeasesKept, LeaseInv, TableAnnounced, Tracked
<1>2. ASSUME NEW S \in SUBSET Npc, Reassigned(S) PROVE LeaseInv'
  <2>1. /\ nextEpoch \in Nat \ {0} /\ nextEpoch' \in Nat
        /\ \A n \in Npc : phase2[n].epoch \in Nat /\ phase2'[n].epoch \in Nat
    BY DEF TypeOK
  <2>2. \A n \in Npc \ S : phase2'[n].epoch < nextEpoch
    BY <1>2 DEF Reassigned, LeaseInv
  <2>3. \A n \in S : nextEpoch <= phase2'[n].epoch /\ phase2'[n].epoch < nextEpoch'
    BY <1>2, <2>1 DEF Reassigned
  <2>4. \A n \in Npc : phase2'[n].epoch < nextEpoch'
    BY <1>2, <2>1, <2>2, <2>3 DEF Reassigned
  <2>5. TableAnnounced'
    <3>1. ASSUME NEW n \in S
          PROVE  /\ phase2'[n].owner = rec'[n].owner
                 /\ rec'[n].owner # NoPeer => phase2'[n].epoch = rec'[n].epoch
      BY <1>2 DEF Reassigned
    <3>2. ASSUME NEW n \in Npc \ S
          PROVE  /\ phase2'[n].owner = rec'[n].owner
                 /\ rec'[n].owner # NoPeer => phase2'[n].epoch = rec'[n].epoch
      BY <1>2 DEF Reassigned, LeaseInv, TableAnnounced, Tracked
    <3>. QED
      BY <3>1, <3>2 DEF TableAnnounced, Tracked
  <2>6. \A n \in Npc : Tracked(n)' => phase2'[n].epoch > 0
    BY <1>2, <2>1, <2>3 DEF Reassigned, LeaseInv, Tracked
  <2>7. ASSUME NEW m \in Npc, NEW n \in Npc,
               phase2'[m].epoch = phase2'[n].epoch, phase2'[m].epoch > 0
        PROVE  m = n
    <3>1. m \in S <=> n \in S
      BY <2>1, <2>2, <2>3, <2>7
    <3>2. CASE m \in S
      BY <1>2, <2>7, <3>1, <3>2 DEF Reassigned
    <3>3. CASE m \notin S
      BY <1>2, <2>7, <3>1, <3>3 DEF Reassigned, LeaseInv
    <3>. QED
      BY <3>2, <3>3
  <2>. QED
    BY <2>4, <2>5, <2>6, <2>7 DEF LeaseInv
<1>. QED
  BY <1>1, <1>2 DEF LeaseStep

\* What the lemmas above establish of every reachable state and every step.
LEMMA LeaseAlways == Spec => [](Typed /\ LeaseInv)
<1>1. Init => Typed /\ LeaseInv
  BY TypedInit, LeaseInvInit
<1>2. (Typed /\ LeaseInv) /\ [Next]_vars => (Typed /\ LeaseInv)'
  BY TypedNext, EveryStep, LeaseInvStep DEF Typed
<1>. QED
  BY <1>1, <1>2, PTL DEF Spec

\* The epoch is a fencing token: two tracked NPCs never share one, and none is
\* handed out again.
THEOREM Fencing == Spec => []EpochsFresh
<1>1. Typed /\ LeaseInv => EpochsFresh
  BY DEF Typed, TypeOK, LeaseInv, TableAnnounced, EpochsFresh, Issued
<1>. QED
  BY <1>1, LeaseAlways, PTL

\* A client that mirrors the announcements in order knows the server's table.
THEOREM Announced == Spec => []TableAnnounced
BY LeaseAlways, PTL DEF LeaseInv

\* The registry implements the fenced lease.
THEOREM Refinement == Spec => ImplementsLease
<1>1. Init => Lease!LeaseInit
  BY NoRecordType DEF Init, Lease!LeaseInit
<1>2. ASSUME Typed, Typed', LeaseInv, LeaseStep
      PROVE  [Lease!LeaseNext]_(Lease!leaseVars)
  <2>0. TypeOK /\ TypeOK'
    BY <1>2 DEF Typed
  <2> DEFINE holder == [n \in Npc |-> rec[n].owner]
             token == [n \in Npc |-> phase2[n].epoch]
  <2>1. CASE LeasesKept /\ relayed' = relayed
    BY <2>1 DEF LeasesKept, Lease!leaseVars
  <2>2. ASSUME LeasesKept, NEW n \in Npc, Tracked(n),
               relayed' = [relayed EXCEPT ![n] = rec[n].epoch]
        PROVE  Lease!Accept(n)
    <3>1. rec[n].epoch = phase2[n].epoch
      BY <1>2, <2>2 DEF LeaseInv, TableAnnounced
    <3>. QED
      BY <2>2, <3>1 DEF LeasesKept, Lease!Accept, Tracked
  <2>3. ASSUME NEW S \in SUBSET Npc, Reassigned(S) PROVE Lease!Reassign(S)
    <3>1. /\ holder' \in [Npc -> Peer \cup {NoPeer}]
          /\ token' \in [Npc -> Nat]
          /\ nextEpoch' \in Nat
      BY <2>0 DEF TypeOK, Record, Owner
    <3>2. /\ nextEpoch' >= nextEpoch
          /\ \A n \in S : nextEpoch <= token'[n] /\ token'[n] < nextEpoch'
      BY <2>0, <2>3 DEF Reassigned, TypeOK
    <3>3. \A m, n \in S : token'[m] = token'[n] => m = n
      BY <2>3 DEF Reassigned
    <3>4. \A n \in Npc \ S : holder'[n] = holder[n] /\ token'[n] = token[n]
      BY <2>3 DEF Reassigned
    <3>5. relayed' = relayed
      BY <2>3 DEF Reassigned
    <3> HIDE DEF holder, token
    <3>. QED
      BY <3>1, <3>2, <3>3, <3>4, <3>5 DEF Lease!Reassign, holder, token
  <2>. QED
    BY <1>2, <2>1, <2>2, <2>3 DEF LeaseStep, RelayedOwnState, Lease!LeaseNext
<1>3. Typed /\ Typed' /\ LeaseInv /\ [Next]_vars => [Lease!LeaseNext]_(Lease!leaseVars)
  BY <1>2, EveryStep
<1>. QED
  BY <1>1, <1>3, LeaseAlways, PTL DEF Spec, ImplementsLease, Lease!LeaseSpec

----------------------------------------------------------------------------
(* Corpses and silent owners.  Both need to know, of one NPC at a time,    *)
(* how a step brings it into the table, the buffer or the list of corpses. *)

\* No claim waits for a tracked NPC: without it a kill could leave damage
\* behind that the next observer would drain.
NoneWaits == \A n \in Npc : Tracked(n) => pendingDmg[n] = NoPending

CorpseInv == NoneWaits /\ KilledStaysDead

\* Whatever enters the table or the buffer was claimable, and a corpse is
\* entered with neither a record nor a claim.
CorpseStep(n) ==
  /\ now' >= now
  /\ deadFids'[n] = deadFids[n] \/ (~Tracked(n)' /\ pendingDmg'[n] = NoPending)
  /\ Tracked(n)' =>
       \/ Tracked(n) /\ pendingDmg'[n] = pendingDmg[n]
       \/ Claimable(n) /\ now' = now /\ pendingDmg'[n] = NoPending
  /\ pendingDmg'[n] # NoPending =>
       \/ pendingDmg'[n] = pendingDmg[n]
       \/ Claimable(n) /\ now' = now /\ ~Tracked(n)'

\* Whoever owns the NPC gave proof of life in this step, while connected or by
\* being handed it, or keeps a lease that the step leaves within the timeout.
LifeStep(n) ==
  Tracked(n)' =>
    \/ /\ rec'[n].heartbeat = now'
       /\ rec'[n].since = now' \/ rec'[n].owner \in session'
    \/ /\ Tracked(n) /\ SameLease(rec'[n], rec[n])
       /\ now' - rec[n].heartbeat <= HeartbeatTimeout
       /\ rec[n].owner \in session => rec[n].owner \in session'

LEMMA CorpseInd ==
  ASSUME TypeOK, TypeOK', CorpseInv, \A n \in Npc : CorpseStep(n)
  PROVE  CorpseInv'
<1> SUFFICES ASSUME NEW n \in Npc
             PROVE  /\ Tracked(n)' => pendingDmg'[n] = NoPending
                    /\ RecentlyDead(n, now)' => ~Tracked(n)' /\ pendingDmg'[n] = NoPending
  BY DEF CorpseInv, NoneWaits, KilledStaysDead
<1>1. CorpseStep(n)
  OBVIOUS
<1>2. /\ Tracked(n) => pendingDmg[n] = NoPending
      /\ RecentlyDead(n, now) => ~Tracked(n) /\ pendingDmg[n] = NoPending
  BY DEF CorpseInv, NoneWaits, KilledStaysDead
<1>3. Tracked(n)' => pendingDmg'[n] = NoPending
  BY <1>1, <1>2 DEF CorpseStep
<1>4. CASE deadFids'[n] = deadFids[n]
  <2>1. RecentlyDead(n, now)' => RecentlyDead(n, now)
    BY <1>1, <1>4 DEF CorpseStep, RecentlyDead, TypeOK
  <2>. QED
    BY <1>1, <1>2, <1>3, <2>1 DEF CorpseStep, Claimable
<1>. QED
  BY <1>1, <1>3, <1>4 DEF CorpseStep

LEMMA LifeInd ==
  ASSUME TypeOK, TypeOK', SilentOwnerBounded, \A n \in Npc : LifeStep(n)
  PROVE  SilentOwnerBounded'
<1> SUFFICES ASSUME NEW n \in Npc, Tracked(n)'
             PROVE  /\ now' - rec'[n].heartbeat <= HeartbeatTimeout
                    /\ rec'[n].owner \notin session' => rec'[n].heartbeat = rec'[n].since
  BY DEF SilentOwnerBounded
<1>1. now' \in Nat /\ HeartbeatTimeout \in Nat
  BY DEF TypeOK
<1>. QED
  BY <1>1 DEF LifeStep, SilentOwnerBounded, SameLease

\* A step that rewrites one record without touching its lease is no danger.
LEMMA SameLeaseSteps ==
  ASSUME TypeOK, SilentOwnerBounded, NEW n \in Npc, NEW r, SameLease(r, rec[n]),
         rec' = [rec EXCEPT ![n] = r],
         UNCHANGED <<now, session, deadFids, pendingDmg>>
  PROVE  \A k \in Npc : CorpseStep(k) /\ LifeStep(k)
<1> SUFFICES ASSUME NEW k \in Npc PROVE CorpseStep(k) /\ LifeStep(k)
  OBVIOUS
<1>1. SameLease(rec'[k], rec[k])
  BY DEF TypeOK, SameLease
<1>. QED
  BY <1>1 DEF CorpseStep, LifeStep, SilentOwnerBounded, SameLease, Tracked, TypeOK

\* Nor is one in which the connected owner gives proof of life.
LEMMA BeatSteps ==
  ASSUME TypeOK, SilentOwnerBounded, NEW n \in Npc, NEW r,
         r.owner = rec[n].owner, r.heartbeat = now, rec[n].owner \in session,
         rec' = [rec EXCEPT ![n] = r],
         UNCHANGED <<now, session, deadFids, pendingDmg>>
  PROVE  \A k \in Npc : CorpseStep(k) /\ LifeStep(k)
<1> SUFFICES ASSUME NEW k \in Npc PROVE CorpseStep(k) /\ LifeStep(k)
  OBVIOUS
<1>1. rec'[k] = IF k = n THEN r ELSE rec[k]
  BY DEF TypeOK
<1>. QED
  BY <1>1 DEF CorpseStep, LifeStep, SilentOwnerBounded, SameLease, Tracked, TypeOK

\* Nor one that releases a set of NPCs and, for some of them, fires the death.
LEMMA ReleaseSteps ==
  ASSUME TypeOK, NoneWaits, SilentOwnerBounded, NEW S \in SUBSET Npc, Release(S),
         \A k \in Npc \ S : deadFids'[k] = deadFids[k],
         \A k \in S : deadFids'[k] = deadFids[k] \/ Tracked(k),
         \A k \in Npc \ S : rec[k].owner \in session => rec[k].owner \in session',
         UNCHANGED <<now, pendingDmg>>
  PROVE  \A k \in Npc : CorpseStep(k) /\ LifeStep(k)
<1> SUFFICES ASSUME NEW k \in Npc PROVE CorpseStep(k) /\ LifeStep(k)
  OBVIOUS
<1>1. rec'[k] = IF k \in S THEN NoRecord ELSE rec[k]
  BY DEF Release
<1>2. CASE k \in S
  BY <1>1, <1>2, NoRecordType DEF CorpseStep, LifeStep, NoneWaits, Tracked, TypeOK
<1>3. CASE k \notin S
  BY <1>1, <1>3 DEF CorpseStep, LifeStep, SilentOwnerBounded, SameLease, Tracked, TypeOK
<1>. QED
  BY <1>2, <1>3

LEMMA EveryNpc ==
  ASSUME Typed, CorpseInv, SilentOwnerBounded, [Next]_vars
  PROVE  \A k \in Npc : CorpseStep(k) /\ LifeStep(k)
<1> DEFINE Goal == \A k \in Npc : CorpseStep(k) /\ LifeStep(k)
<1>0. TypeOK /\ BufferNamesPeer /\ NoneWaits
  BY DEF Typed, CorpseInv
<1> USE <1>0
<1>1. ASSUME NEW p \in Peer, PeerJoin(p) PROVE Goal
  BY <1>1 DEF PeerJoin, CorpseStep, LifeStep, SilentOwnerBounded, SameLease, Tracked, TypeOK
<1>2. ASSUME NEW p \in Peer, PeerLeave(p) PROVE Goal
  <2> DEFINE S == {n \in Npc : rec[n].owner = p}
  <2>1. \A k \in Npc \ S : rec[k].owner \in session => rec[k].owner \in session'
    BY <1>2 DEF PeerLeave
  <2>. QED
    BY <1>2, <2>1, ReleaseSteps DEF PeerLeave
<1>3. ASSUME NEW p \in Peer, NEW n \in Npc, ClaimObserved(p, n) PROVE Goal
  <2> DEFINE fresh == Engage(HandTo(NoRecord, p, nextEpoch, now), p)
             r == DrainPending(fresh, n)
  <2>0. nextEpoch \in Nat /\ now \in Nat
    BY DEF TypeOK
  <2> DEFINE held == HandTo(NoRecord, p, nextEpoch, now)
  <2>a. held \in Record /\ held.heartbeat = now /\ held.since = now
    BY <2>0, NoRecordType DEF HandTo, Record, Owner
  <2>b. Engage(held, p) \in Record /\ SameLease(Engage(held, p), held)
    BY <2>0, <2>a, EngageRecord
  <2>1. fresh \in Record /\ fresh.heartbeat = now /\ fresh.since = now
    BY <2>a, <2>b DEF SameLease
  <2>2. r.heartbeat = now /\ r.since = now
    BY <2>1, DrainRecord DEF SameLease, BufferNamesPeer
  <2>3. /\ Claimable(n) /\ now' = now /\ session' = session
        /\ pendingDmg' = [pendingDmg EXCEPT ![n] = NoPending]
        /\ \/ rec' = [rec EXCEPT ![n] = r] /\ UNCHANGED deadFids
           \/ FireNpcDeath(n) /\ UNCHANGED rec
    BY <1>3 DEF ClaimObserved, PopPending
  <2> HIDE DEF r, fresh
  <2>4. ASSUME NEW k \in Npc PROVE CorpseStep(k) /\ LifeStep(k)
    <3>1. CASE k = n
      BY <2>0, <2>2, <2>3, <3>1
      DEF CorpseStep, LifeStep, Claimable, Tracked, TypeOK
    <3>2. CASE k # n
      <4>1. rec'[k] = rec[k] /\ pendingDmg'[k] = pendingDmg[k] /\ deadFids'[k] = deadFids[k]
        BY <2>3, <3>2 DEF TypeOK, FireNpcDeath
      <4>. QED
        BY <2>3, <4>1
        DEF CorpseStep, LifeStep, SilentOwnerBounded, SameLease, Tracked, TypeOK
    <3>. QED
      BY <3>1, <3>2
  <2>. QED
    BY <2>4
<1>4. ASSUME NEW p \in Peer, NEW n \in Npc, RefreshObserved(p, n) PROVE Goal
  <2>1. SameLease(Engage(rec[n], p), rec[n])
    BY EngageRecord DEF TypeOK
  <2>. QED
    BY <1>4, <2>1, SameLeaseSteps DEF RefreshObserved
<1>5. ASSUME NEW p \in Peer, NEW n \in Npc, NEW e \in Issued, NpcUnload(p, n, e) PROVE Goal
  BY <1>5, ReleaseSteps DEF NpcUnload
<1>a. ASSUME NEW p \in Peer, NEW n \in Npc
      PROVE  /\ Beat(rec[n]).owner = rec[n].owner /\ Beat(rec[n]).heartbeat = now
             /\ Engage(Beat(rec[n]), p).owner = rec[n].owner
             /\ Engage(Beat(rec[n]), p).heartbeat = now
             /\ SameLease(Engage(rec[n], p), rec[n])
  BY BeatRecord, EngageRecord DEF TypeOK, SameLease
<1>6. ASSUME NEW p \in Peer, NEW n \in Npc, NEW e \in Issued, NpcOwnerHeartbeat(p, n, e)
      PROVE Goal
  BY <1>6, <1>a, BeatSteps DEF NpcOwnerHeartbeat, Holds
<1>7. ASSUME NEW p \in Peer, NEW n \in Npc, NEW e \in Issued, NEW inCombat \in BOOLEAN,
             NpcStateFromOwner(p, n, e, inCombat)
      PROVE Goal
  BY <1>7, <1>a, BeatSteps DEF NpcStateFromOwner, Holds
<1>8. ASSUME NEW p \in Peer, NEW n \in Npc, NpcEngagementClaim(p, n) PROVE Goal
  <2>1. CASE rec[n].owner = p
    BY <1>8, <1>a, <2>1, BeatSteps DEF NpcEngagementClaim, TypeOK
  <2>2. CASE rec[n].owner # p
    BY <1>8, <1>a, <2>2, SameLeaseSteps DEF NpcEngagementClaim, TypeOK
  <2>. QED
    BY <2>1, <2>2
<1>9. ASSUME NEW p \in Peer, NEW n \in Npc, NEW amount \in Amounts, NEW maxHp \in MaxHps,
             NpcDamageClaim(p, n, amount, maxHp)
      PROVE Goal
  <2> DEFINE hit == RecordDamage(rec[n], p, amount)
             r == ApplyHpClaim(hit, p, amount, maxHp)
  <2>1. amount \in Nat /\ maxHp \in Nat /\ now \in Nat /\ rec[n] \in Record
    BY DEF TypeOK
  <2>2. hit \in Record /\ SameLease(hit, rec[n])
    BY <2>1, DamageRecord
  <2> HIDE DEF hit
  <2>3. SameLease(r, rec[n])
    BY <2>1, <2>2, HpClaimRecord DEF SameLease
  <2> HIDE DEF r
  <2>4. now' = now /\ session' = session
    BY <1>9 DEF NpcDamageClaim
  <2>5. CASE /\ rec' = [rec EXCEPT ![n] = r]
             /\ deadFids' = deadFids /\ pendingDmg' = pendingDmg
    BY <2>3, <2>4, <2>5, SameLeaseSteps
  <2>6. CASE Tracked(n) /\ FireNpcDeath(n) /\ Release({n}) /\ pendingDmg' = pendingDmg
    <3>1. \A k \in Npc \ {n} : deadFids'[k] = deadFids[k]
      BY <2>6 DEF FireNpcDeath, TypeOK
    <3>. QED
      BY <2>4, <2>6, <3>1, ReleaseSteps
  <2>7. CASE StashPending(p, n, amount, maxHp)
    <3>1. ASSUME NEW k \in Npc PROVE CorpseStep(k) /\ LifeStep(k)
      <4>1. /\ rec' = rec /\ deadFids' = deadFids
            /\ k = n => Claimable(k) /\ ~Tracked(k)'
            /\ k # n => pendingDmg'[k] = pendingDmg[k]
        BY <2>7 DEF StashPending, Claimable, Tracked, TypeOK
      <4>. QED
        BY <2>4, <4>1
        DEF CorpseStep, LifeStep, SilentOwnerBounded, SameLease, Tracked, TypeOK
    <3>. QED
      BY <3>1
  <2>. QED
    BY <1>9, <2>5, <2>6, <2>7 DEF NpcDamageClaim, ClaimTracked, r, hit
<1>10. ASSUME NEW p \in Peer, NEW n \in Npc, NpcDeathFromOwner(p, n) PROVE Goal
  BY <1>10, ReleaseSteps DEF NpcDeathFromOwner
<1>11. ASSUME NEW fresh \in SUBSET session, NEW near \in [Npc -> SUBSET fresh],
              Tick(fresh, near)
       PROVE Goal
  <2> DEFINE t == now + 1
             lost == Expired(t)
             moved == Contested(fresh, near, t)
  <2>0. t \in Nat /\ now' = t /\ t >= now
    BY <1>11 DEF Tick, TypeOK
  <2>1. UNCHANGED <<session, deadFids, pendingDmg>>
    BY <1>11 DEF Tick
  <2>2. PICK f \in Numberings(lost \cup moved), to \in [moved -> Peer] :
          rec' = [n \in Npc |-> IF n \in lost THEN NoRecord
                                ELSE IF n \in moved THEN HandTo(rec[n], to[n], f[n], t)
                                     ELSE rec[n]]
    BY <1>11 DEF Tick
  <2>3. \A k \in moved : k \in Npc /\ Tracked(k)
    BY DEF Contested
  <2>4. \A k \in Npc \ lost : Tracked(k) => t - rec[k].heartbeat <= HeartbeatTimeout
    BY <2>0 DEF Expired, TypeOK, Record
  <2> HIDE DEF lost, moved, t
  <2>5. ASSUME NEW k \in Npc PROVE CorpseStep(k) /\ LifeStep(k)
    <3>0. rec[k] \in Record /\ pendingDmg'[k] = pendingDmg[k] /\ deadFids'[k] = deadFids[k]
      BY <2>1 DEF TypeOK
    <3>1. CASE k \in lost
      <4>1. ~Tracked(k)'
        BY <2>2, <3>1, NoRecordType DEF Tracked
      <4>. QED
        BY <2>0, <3>0, <4>1 DEF CorpseStep, LifeStep
    <3>2. CASE k \notin lost /\ k \in moved
      <4>1. rec'[k] = HandTo(rec[k], to[k], f[k], t)
        BY <2>2, <3>2
      <4>2. rec'[k].heartbeat = t /\ rec'[k].since = t
        BY <3>0, <4>1 DEF HandTo, Record
      <4>. QED
        BY <2>0, <2>3, <3>0, <3>2, <4>2 DEF CorpseStep, LifeStep
    <3>3. CASE k \notin lost /\ k \notin moved
      <4>1. rec'[k] = rec[k]
        BY <2>2, <3>3
      <4>. QED
        BY <2>0, <2>1, <2>4, <3>0, <3>3, <4>1
        DEF CorpseStep, LifeStep, SameLease, Tracked
    <3>. QED
      BY <3>1, <3>2, <3>3
  <2>. QED
    BY <2>5
<1>12. CASE UNCHANGED vars
  BY <1>12
  DEF vars, CorpseStep, LifeStep, SilentOwnerBounded, SameLease, Tracked, TypeOK
<1>. QED
  BY <1>1, <1>2, <1>3, <1>4, <1>5, <1>6, <1>7, <1>8, <1>9, <1>10, <1>11, <1>12
  DEF Next, NpcObserved

LEMMA CorpseAlways == Spec => [](Typed /\ CorpseInv /\ SilentOwnerBounded)
<1>1. Init => Typed /\ CorpseInv /\ SilentOwnerBounded
  BY TypedInit, NoRecordType
  DEF Init, CorpseInv, NoneWaits, KilledStaysDead, SilentOwnerBounded, Tracked, RecentlyDead
<1>2. ASSUME Typed, CorpseInv, SilentOwnerBounded, [Next]_vars
      PROVE  (Typed /\ CorpseInv /\ SilentOwnerBounded)'
  <2>1. Typed' /\ TypeOK /\ TypeOK'
    BY <1>2, TypedNext DEF Typed
  <2>2. \A n \in Npc : CorpseStep(n) /\ LifeStep(n)
    BY <1>2, EveryNpc
  <2>. QED
    BY <1>2, <2>1, <2>2, CorpseInd, LifeInd
<1>. QED
  BY <1>1, <1>2, PTL DEF Spec

\* A pool kill is final for as long as the corpse lives: no observation, no
\* claim and no hand-over brings the NPC back before.
THEOREM Corpse == Spec => []KilledStaysDead
BY CorpseAlways, PTL DEF CorpseInv

\* Between ticks no owner was silent for longer than the timeout, and one that
\* is not connected was handed the NPC and never spoke since.
THEOREM Silence == Spec => []SilentOwnerBounded
BY CorpseAlways, PTL

----------------------------------------------------------------------------
(* The shared pool.  That it balances is inductive only with what is true  *)
(* of a pool that was never filled: nobody is on its books.                *)

Pooled(r) ==
  /\ ~r.hpDead
  /\ r.hpMax = 0 => \A p \in Peer : r.dealt[p] = 0
  /\ r.hpMax > 0 => r.hpCur > 0 /\ r.hpCur = r.hpMax - SumFunctionOnSet(r.dealt, Peer)

Pools == \A n \in Npc : Pooled(rec[n])

SamePool(s, r) ==
  s.hpMax = r.hpMax /\ s.hpCur = r.hpCur /\ s.hpDead = r.hpDead /\ s.dealt = r.dealt

\* A claim leaves the pool balanced or empties it.
LEMMA ClaimPooled ==
  ASSUME NEW r \in Record, Pooled(r), NEW p \in Peer, NEW amount \in Nat, NEW maxHp \in Nat,
         ~ApplyHpClaim(r, p, amount, maxHp).hpDead
  PROVE  Pooled(ApplyHpClaim(r, p, amount, maxHp))
<1> DEFINE b == Bootstrap(r, maxHp)
           c == Deplete(b, p, amount)
           Sum(f) == SumFunctionOnSet(f, Peer)
<1>1. b \in Record /\ b.dealt = r.dealt /\ ~b.hpDead
  BY DEF Bootstrap, Record, Pooled
<1>2. b.hpMax # 0 => b.hpCur > 0 /\ b.hpCur = b.hpMax - Sum(b.dealt)
  <2>1. CASE r.hpMax = 0
    <3>1. Sum(r.dealt) = Cardinality(Peer) * 0
      BY <2>1, OwnershipAssumption, SumConstant DEF Pooled
    <3>2. Cardinality(Peer) \in Nat
      BY OwnershipAssumption, FS_CardinalityType
    <3>3. Sum(r.dealt) = 0
      BY <3>1, <3>2
    <3>4. b.hpMax = maxHp /\ b.hpCur = maxHp
      BY <2>1 DEF Bootstrap, Record
    <3>. QED
      BY <1>1, <3>3, <3>4
  <2>2. CASE r.hpMax # 0
    BY <2>2 DEF Bootstrap, Pooled, Record
  <2>. QED
    BY <2>1, <2>2
<1>3. c = ApplyHpClaim(r, p, amount, maxHp)
  BY DEF ApplyHpClaim
<1> HIDE DEF b
<1>4. CASE b.hpMax = 0
  <2>1. c = b
    BY <1>4 DEF Deplete
  <2>2. r.hpMax = 0
    BY <1>4 DEF b, Bootstrap, Record
  <2>. QED
    BY <1>1, <1>3, <1>4, <2>1, <2>2 DEF Pooled
<1>5. CASE b.hpMax # 0
  <2>1. /\ c.hpMax = b.hpMax /\ c.hpCur = Less(b.hpCur, amount)
        /\ c.dealt = [b.dealt EXCEPT ![p] = @ + amount]
        /\ c.hpDead = (b.hpDead \/ (b.hpCur > 0 /\ b.hpCur <= amount))
    BY <1>1, <1>5 DEF Deplete, Record
  <2>2. b.dealt \in [Peer -> Nat] /\ b.hpCur \in Nat /\ b.hpMax \in Nat
    BY <1>1 DEF Record
  <2>3. Sum(c.dealt) + b.dealt[p] = Sum(b.dealt) + c.dealt[p]
    BY <2>1, <2>2, OwnershipAssumption, SumChange
  <2>4. Sum(c.dealt) \in Nat /\ Sum(b.dealt) \in Nat
    BY <2>1, <2>2, OwnershipAssumption, SumNat
  <2>5. Sum(c.dealt) = Sum(b.dealt) + amount
    BY <2>1, <2>2, <2>3, <2>4
  <2>6. amount < b.hpCur
    <3>1. ~(b.hpCur > 0 /\ b.hpCur <= amount)
      <4> HIDE DEF c
      <4>. QED
        BY <1>3, <2>1, Zenon
    <3>. QED
      BY <1>2, <1>5, <2>2, <3>1
  <2>7. c.hpCur = b.hpCur - amount /\ c.hpCur > 0
    BY <2>1, <2>2, <2>6 DEF Less
  <2> HIDE DEF c, Sum
  <2>8. c.hpCur = c.hpMax - Sum(c.dealt)
    BY <1>2, <1>5, <2>1, <2>2, <2>4, <2>5, <2>7
  <2>. QED
    BY <1>3, <1>5, <2>1, <2>7, <2>8 DEF Pooled, Sum
<1>. QED
  BY <1>4, <1>5

LEMMA SamePooled ==
  ASSUME NEW r, NEW s, SamePool(s, r), Pooled(r)
  PROVE  Pooled(s)
BY DEF SamePool, Pooled

\* What is no claim leaves the pool alone.
LEMMA PoolUntouched ==
  ASSUME NEW r \in Record, NEW p \in Peer, NEW amount \in Nat, NEW e, NEW t
  PROVE  /\ SamePool(Engage(r, p), r) /\ SamePool(Beat(r), r)
         /\ SamePool(RecordDamage(r, p, amount), r)
         /\ SamePool(HandTo(r, p, e, t), r)
BY DEF SamePool, Engage, Beat, RecordDamage, HandTo, Record

LEMMA NoRecordPooled == Pooled(NoRecord)
BY DEF Pooled, NoRecord

LEMMA EveryPool ==
  ASSUME Typed, Pools, [Next]_vars
  PROVE  Pools'
<1>0. TypeOK /\ BufferNamesPeer /\ Amounts \subseteq Nat /\ MaxHps \subseteq Nat
  BY OwnershipAssumption DEF Typed
<1>a. \A n \in Npc : rec[n] \in Record /\ Pooled(rec[n])
  BY <1>0 DEF TypeOK, Pools
<1>b. ASSUME NEW n \in Npc, NEW r, Pooled(r), rec' = [rec EXCEPT ![n] = r]
      PROVE  Pools'
  BY <1>0, <1>b DEF Pools, TypeOK
<1>c. ASSUME NEW S \in SUBSET Npc, Release(S) PROVE Pools'
  <2>1. rec' = [n \in Npc |-> IF n \in S THEN NoRecord ELSE rec[n]]
    BY <1>c DEF Release
  <2>. QED
    BY <2>1, <1>a, NoRecordPooled DEF Pools
<1>d. ASSUME rec' = rec PROVE Pools'
  BY <1>d DEF Pools
<1>2. ASSUME NEW p \in Peer, PeerJoin(p) \/ PeerLeave(p) PROVE Pools'
  BY <1>2, <1>c, <1>d DEF PeerJoin, PeerLeave
<1>3. ASSUME NEW p \in Peer, NEW n \in Npc, ClaimObserved(p, n) PROVE Pools'
  <2> DEFINE held == HandTo(NoRecord, p, nextEpoch, now)
             fresh == Engage(held, p)
             r == DrainPending(fresh, n)
             b == pendingDmg[n]
  <2>0. nextEpoch \in Nat /\ now \in Nat /\ b \in Pending
    BY <1>0 DEF TypeOK
  <2>1. held \in Record /\ Pooled(held)
    BY <2>0, NoRecordType, NoRecordPooled, PoolUntouched, SamePooled, HandToRecord
  <2>2. fresh \in Record /\ Pooled(fresh)
    <3> HIDE DEF held
    <3>. QED
      BY <2>0, <2>1, PoolUntouched, SamePooled, EngageRecord
  <2> HIDE DEF fresh
  <2>3. ~r.hpDead => Pooled(r)
    <3>1. CASE b.sum > 0 /\ now - b.ts <= PendingDmgTtl
      <4>1. b.peer \in Peer /\ b.sum \in Nat /\ b.maxHp \in Nat
        BY <1>0, <2>0, <3>1 DEF BufferNamesPeer, Pending
      <4>2. r = ApplyHpClaim(fresh, b.peer, b.sum, b.maxHp)
        BY <3>1 DEF DrainPending
      <4>. QED
        BY <2>2, <4>1, <4>2, ClaimPooled
    <3>2. CASE ~(b.sum > 0 /\ now - b.ts <= PendingDmgTtl)
      BY <2>2, <3>2 DEF DrainPending
    <3>. QED
      BY <3>1, <3>2
  <2>4. (~r.hpDead /\ rec' = [rec EXCEPT ![n] = r]) \/ UNCHANGED rec
    BY <1>3 DEF ClaimObserved, fresh
  <2> HIDE DEF r
  <2>. QED
    BY <1>b, <1>d, <2>3, <2>4
<1>4. ASSUME NEW p \in Peer, NEW n \in Npc
      PROVE  /\ Pooled(Engage(rec[n], p)) /\ Pooled(Beat(rec[n]))
             /\ Pooled(Engage(Beat(rec[n]), p))
  <2>1. Beat(rec[n]) \in Record /\ Pooled(Beat(rec[n]))
    BY <1>0, <1>a, BeatRecord, PoolUntouched, SamePooled DEF TypeOK
  <2>. QED
    BY <1>a, <2>1, PoolUntouched, SamePooled
<1>5. ASSUME NEW p \in Peer, NEW n \in Npc, RefreshObserved(p, n) PROVE Pools'
  BY <1>5, <1>4, <1>b DEF RefreshObserved
<1>6. ASSUME NEW p \in Peer, NEW n \in Npc, NEW e \in Issued,
             NpcUnload(p, n, e) \/ NpcOwnerHeartbeat(p, n, e)
      PROVE  Pools'
  BY <1>6, <1>4, <1>b, <1>c DEF NpcUnload, NpcOwnerHeartbeat
<1>7. ASSUME NEW p \in Peer, NEW n \in Npc, NEW e \in Issued, NEW inCombat \in BOOLEAN,
             NpcStateFromOwner(p, n, e, inCombat)
      PROVE  Pools'
  BY <1>7, <1>4, <1>b DEF NpcStateFromOwner
<1>8. ASSUME NEW p \in Peer, NEW n \in Npc, NpcEngagementClaim(p, n) PROVE Pools'
  BY <1>8, <1>4, <1>b DEF NpcEngagementClaim, TypeOK
<1>9. ASSUME NEW p \in Peer, NEW n \in Npc, NEW amount \in Amounts, NEW maxHp \in MaxHps,
             NpcDamageClaim(p, n, amount, maxHp)
      PROVE  Pools'
  <2> DEFINE hit == RecordDamage(rec[n], p, amount)
             r == ApplyHpClaim(hit, p, amount, maxHp)
  <2>1. amount \in Nat /\ maxHp \in Nat /\ now \in Nat
    BY <1>0 DEF TypeOK
  <2>2. hit \in Record /\ Pooled(hit)
    BY <1>a, <2>1, DamageRecord, PoolUntouched, SamePooled
  <2>3. ~r.hpDead => Pooled(r)
    <3> HIDE DEF hit
    <3>. QED
      BY <2>1, <2>2, ClaimPooled
  <2>4. (~r.hpDead /\ rec' = [rec EXCEPT ![n] = r]) \/ Release({n}) \/ rec' = rec
    BY <1>9 DEF NpcDamageClaim, ClaimTracked, StashPending
  <2> HIDE DEF r
  <2>. QED
    BY <1>b, <1>c, <1>d, <2>3, <2>4
<1>10. ASSUME NEW p \in Peer, NEW n \in Npc, NpcDeathFromOwner(p, n) PROVE Pools'
  BY <1>10, <1>c DEF NpcDeathFromOwner
<1>11. ASSUME NEW fresh \in SUBSET session, NEW near \in [Npc -> SUBSET fresh],
              Tick(fresh, near)
       PROVE Pools'
  <2> DEFINE t == now + 1
             lost == Expired(t)
             moved == Contested(fresh, near, t)
  <2>1. PICK f \in Numberings(lost \cup moved), to \in [moved -> Peer] :
          rec' = [n \in Npc |-> IF n \in lost THEN NoRecord
                                ELSE IF n \in moved THEN HandTo(rec[n], to[n], f[n], t)
                                     ELSE rec[n]]
    BY <1>11 DEF Tick
  <2> HIDE DEF lost, moved, t
  <2>2. ASSUME NEW n \in Npc, n \in moved PROVE Pooled(HandTo(rec[n], to[n], f[n], t))
    <3>1. to[n] \in Peer /\ rec[n] \in Record /\ 0 \in Nat
      BY <1>a, <2>1, <2>2
    <3>2. SamePool(HandTo(rec[n], to[n], f[n], t), rec[n])
      BY <3>1, PoolUntouched
    <3>. QED
      BY <1>a, <3>2, SamePooled
  <2>. QED
    BY <1>a, <2>1, <2>2, NoRecordPooled DEF Pools
<1>12. CASE UNCHANGED vars
  BY <1>12, <1>d DEF vars
<1>. QED
  BY <1>2, <1>3, <1>5, <1>6, <1>7, <1>8, <1>9, <1>10, <1>11, <1>12 DEF Next, NpcObserved

\* The shared hit points are conserved: what is left in the pool is what it
\* started with less what each peer is on the books for, an empty pool never
\* rests in the table, and no claim waits for an NPC that has a pool.
THEOREM Conservation == Spec => []PoolConserved
<1>1. Init => Pools
  BY NoRecordPooled DEF Init, Pools
<1>2. Typed /\ Pools /\ [Next]_vars => Pools'
  BY EveryPool
<1>3. Spec => []Pools
  BY <1>1, <1>2, CorpseAlways, PTL DEF Spec
<1>4. Pools /\ CorpseInv => PoolConserved
  BY DEF Pools, Pooled, CorpseInv, NoneWaits, PoolConserved
<1>. QED
  BY <1>3, <1>4, CorpseAlways, PTL

----------------------------------------------------------------------------
(* Who an NPC is handed to.  The threat table forgets damage before it     *)
(* forgets the engagement that came with it, so whoever leads by more than *)
(* proximity can give has fought the NPC.                                  *)

Fought(r) ==
  \A p \in Peer :
    /\ r.engaged[p] <= now /\ r.damage[p].last <= r.engaged[p]
    /\ r.damage[p].sum > 0 => r.damage[p].last > 0

Fights == \A n \in Npc : Fought(rec[n])

\* A product grows with its factors.
LEMMA TimesMonotone ==
  ASSUME NEW a \in Nat, NEW b \in Nat, NEW c \in Nat, a <= b
  PROVE  a * c <= b * c /\ c * a <= c * b
<1>1. b = a + (b - a) /\ b - a \in Nat
  OBVIOUS
<1>2. (b - a) * c \in Nat /\ a * c \in Nat
  BY <1>1, TimesNat
<1>3. b * c = a * c + (b - a) * c /\ c * a = a * c /\ c * b = b * c
  BY <1>1
<1>. QED
  BY <1>2, <1>3

LEMMA TimesStrict ==
  ASSUME NEW a \in Nat, NEW b \in Nat, NEW c \in Nat \ {0}, a < b
  PROVE  a * c < b * c
<1>1. (a + 1) * c <= b * c
  BY TimesMonotone
<1>2. (a + 1) * c = a * c + c
  OBVIOUS
<1>3. a * c \in Nat /\ b * c \in Nat
  BY TimesNat
<1>. QED
  BY <1>1, <1>2, <1>3

LEMMA ScaleNat == Scale \in Nat \ {0}
<1>1. \A a, b \in Nat \ {0} : a * b \in Nat \ {0}
  <2> SUFFICES ASSUME NEW a \in Nat \ {0}, NEW b \in Nat \ {0} PROVE a * b \in Nat \ {0}
    OBVIOUS
  <2>1. 0 * b < a * b
    BY TimesStrict
  <2>. QED
    BY <2>1, TimesNat
<1>2. EngageWindow * DamageWindow \in Nat \ {0}
  BY <1>1, OwnershipAssumption
<1>. QED
  BY <1>1, <1>2, OwnershipAssumption DEF Scale

\* The terms of a threat, and what it takes for them to be positive.
LEMMA EngageTermPositive ==
  ASSUME NEW r \in Record, NEW p \in Peer, NEW t \in Nat
  PROVE  /\ EngageTerm(r, p, t) \in Nat
         /\ EngageTerm(r, p, t) > 0 => r.engaged[p] > 0 /\ t - r.engaged[p] < EngageWindow
<1> DEFINE left == Less(EngageWindow, t - r.engaged[p])
<1>1. r.engaged[p] \in Nat
  BY DEF Record
<1>2. left \in Nat /\ (left > 0 => t - r.engaged[p] < EngageWindow)
  BY <1>1, OwnershipAssumption DEF Less
<1> HIDE DEF left
<1>3. /\ WEngage * left \in Nat
      /\ WEngage * left * DamageWindow \in Nat
      /\ WEngage * left * DamageWindow * DamageNorm \in Nat
  <2>1. WEngage * left \in Nat
    BY <1>2, OwnershipAssumption, TimesNat
  <2>2. WEngage * left * DamageWindow \in Nat
    BY <2>1, OwnershipAssumption, TimesNat
  <2>. QED
    BY <2>1, <2>2, OwnershipAssumption, TimesNat
<1>4. left = 0 => WEngage * left * DamageWindow * DamageNorm = 0
  BY OwnershipAssumption
<1>5. EngageTerm(r, p, t) = IF r.engaged[p] = 0 THEN 0
                            ELSE WEngage * left * DamageWindow * DamageNorm
  BY DEF EngageTerm, left
<1>. QED
  BY <1>1, <1>2, <1>3, <1>4, <1>5

LEMMA DamageTermPositive ==
  ASSUME NEW r \in Record, NEW p \in Peer, NEW t \in Nat
  PROVE  /\ DamageTerm(r, p, t) \in Nat
         /\ DamageTerm(r, p, t) > 0 =>
              r.damage[p].sum > 0 /\ t - r.damage[p].last < DamageWindow
<1> DEFINE left == Less(DamageWindow, t - r.damage[p].last)
           raw == r.damage[p].sum * left
           top == DamageCeiling * DamageNorm * DamageWindow
           kept == IF raw > top THEN top ELSE raw
<1>1. r.damage[p].sum \in Nat /\ r.damage[p].last \in Nat
  BY DEF Record
<1>2. left \in Nat /\ (left > 0 => t - r.damage[p].last < DamageWindow)
  BY <1>1, OwnershipAssumption DEF Less
<1>3. top \in Nat
  <2>1. DamageCeiling * DamageNorm \in Nat
    BY OwnershipAssumption, TimesNat
  <2>. QED
    BY <2>1, OwnershipAssumption, TimesNat
<1>4. DamageTerm(r, p, t) = WDamage * EngageWindow * kept
  BY DEF DamageTerm
<1> HIDE DEF left, top
<1>5. raw \in Nat /\ (raw > 0 => r.damage[p].sum > 0 /\ left > 0)
  <2>1. raw \in Nat
    BY <1>1, <1>2, TimesNat
  <2>2. r.damage[p].sum = 0 \/ left = 0 => raw = 0
    BY <1>1, <1>2
  <2> HIDE DEF raw
  <2>. QED
    BY <1>1, <1>2, <2>1, <2>2
<1> HIDE DEF raw
<1>6. kept \in Nat /\ (kept > 0 => raw > 0)
  BY <1>3, <1>5
<1> HIDE DEF kept
<1>7. WDamage * EngageWindow \in Nat
  BY OwnershipAssumption, TimesNat
<1>8. WDamage * EngageWindow * kept \in Nat
  BY <1>6, <1>7, TimesNat
<1>9. kept = 0 => WDamage * EngageWindow * kept = 0
  BY <1>7
<1>. QED
  BY <1>2, <1>4, <1>5, <1>6, <1>8, <1>9

\* Of two peers the one that engaged later has the higher engagement term.
LEMMA EngageTermLater ==
  ASSUME NEW r \in Record, NEW p \in Peer, NEW q \in Peer, NEW t \in Nat,
         r.engaged[p] <= r.engaged[q], r.engaged[q] > 0
  PROVE  EngageTerm(r, p, t) <= EngageTerm(r, q, t)
<1> DEFINE a == Less(EngageWindow, t - r.engaged[p])
           b == Less(EngageWindow, t - r.engaged[q])
<1>1. r.engaged[p] \in Nat /\ r.engaged[q] \in Nat
  BY DEF Record
<1>2. a \in Nat /\ b \in Nat /\ a <= b
  BY <1>1, OwnershipAssumption DEF Less
<1>3. EngageTerm(r, q, t) = WEngage * b * DamageWindow * DamageNorm
  BY DEF EngageTerm
<1>4. r.engaged[p] # 0 => EngageTerm(r, p, t) = WEngage * a * DamageWindow * DamageNorm
  BY DEF EngageTerm
<1>5. r.engaged[p] = 0 => EngageTerm(r, p, t) = 0
  BY DEF EngageTerm
<1> HIDE DEF a, b
<1>6. WEngage * a \in Nat /\ WEngage * b \in Nat /\ WEngage * a <= WEngage * b
  BY <1>2, OwnershipAssumption, TimesNat, TimesMonotone
<1>7. /\ WEngage * a * DamageWindow \in Nat /\ WEngage * b * DamageWindow \in Nat
      /\ WEngage * a * DamageWindow <= WEngage * b * DamageWindow
  BY <1>6, OwnershipAssumption, TimesNat, TimesMonotone
<1>8. WEngage * a * DamageWindow * DamageNorm <= WEngage * b * DamageWindow * DamageNorm
  BY <1>7, OwnershipAssumption, TimesMonotone
<1>9. EngageTerm(r, q, t) \in Nat
  BY EngageTermPositive
<1>. QED
  BY <1>3, <1>4, <1>5, <1>8, <1>9

\* Whoever wins an NPC fought it, and beats an owner that fights it with damage.
LEMMA ChallengerFought ==
  ASSUME now \in Nat \ {0}, NEW r \in Record, Fought(r), r.owner \in Peer,
         NEW fresh \in SUBSET Peer, NEW inRange \in SUBSET Peer,
         NEW p \in Challengers(r, fresh, inRange, now + 1)
  PROVE  /\ p \in Peer
         /\ r.engaged[p] > 0 /\ now + 1 - r.engaged[p] < EngageWindow
         /\ r.engaged[r.owner] = now => r.damage[p].sum > 0
<1> DEFINE t == now + 1
           cands == Candidates(r, fresh, inRange, t)
           best == Threat(r, p, inRange, t)
           mine == IF r.owner \in cands THEN Threat(r, r.owner, inRange, t) ELSE 0
           near(q) == IF q \in inRange THEN WDistance * Scale ELSE 0
<1>1. p \in cands /\ best - mine >= MinAbsDelta * Scale
  BY DEF Challengers, ClearsMargins
<1>2. p \in Peer /\ t \in Nat /\ t > 0 /\ t = now + 1
  BY <1>1 DEF Candidates
<1>3. /\ \A q \in Peer : EngageTerm(r, q, t) \in Nat /\ DamageTerm(r, q, t) \in Nat
      /\ WDistance * Scale \in Nat /\ MinAbsDelta * Scale \in Nat
      /\ WDistance * Scale < MinAbsDelta * Scale
  BY <1>2, EngageTermPositive, DamageTermPositive, ScaleNat, TimesNat, TimesStrict,
     OwnershipAssumption, ThreatAssumption
<1>4. \A q \in Peer : Threat(r, q, inRange, t) = EngageTerm(r, q, t) + DamageTerm(r, q, t) + near(q)
  BY DEF Threat
<1>5. /\ r.engaged \in [Peer -> Nat]
      /\ \A q \in Peer : r.damage[q].sum \in Nat /\ r.damage[q].last \in Nat
  BY DEF Record
<1>6. \A q \in Peer : near(q) \in Nat /\ near(q) <= WDistance * Scale
  BY <1>3
<1> HIDE DEF t, cands, best, near
<1>7. mine \in Nat
  BY <1>3, <1>4, <1>6
<1>8. best = EngageTerm(r, p, t) + DamageTerm(r, p, t) + near(p)
  BY <1>2, <1>4 DEF best
<1>9. r.engaged[p] > 0 /\ t - r.engaged[p] < EngageWindow
  <2>1. EngageTerm(r, p, t) > 0 \/ DamageTerm(r, p, t) > 0
    <3> HIDE DEF mine
    <3>. QED
      BY <1>1, <1>2, <1>3, <1>6, <1>7, <1>8
  <2>2. CASE EngageTerm(r, p, t) > 0
    BY <1>2, <2>2, EngageTermPositive
  <2>3. CASE DamageTerm(r, p, t) > 0
    <3>1. r.damage[p].sum > 0 /\ t - r.damage[p].last < DamageWindow
      BY <1>2, <2>3, DamageTermPositive
    <3>2. r.damage[p].last > 0 /\ r.damage[p].last <= r.engaged[p]
      BY <1>2, <3>1 DEF Fought
    <3>. QED
      BY <1>2, <1>5, <3>1, <3>2, OwnershipAssumption, ThreatAssumption
  <2>. QED
    BY <2>1, <2>2, <2>3
<1>10. ASSUME r.engaged[r.owner] = now PROVE r.damage[p].sum > 0
  <2>1. r.engaged[p] <= r.engaged[r.owner]
    BY <1>2, <1>10 DEF Fought
  <2>2. EngageTerm(r, p, t) <= EngageTerm(r, r.owner, t)
    BY <1>2, <1>10, <2>1, EngageTermLater
  <2>3. r.owner \in cands
    BY <1>10, OwnershipAssumption DEF cands, Candidates, t
  <2>4. mine >= EngageTerm(r, r.owner, t)
    BY <1>3, <1>4, <1>6, <2>3
  <2>5. DamageTerm(r, p, t) > 0
    <3> HIDE DEF mine
    <3>. QED
      BY <1>1, <1>2, <1>3, <1>6, <1>7, <1>8, <2>2, <2>4
  <2>. QED
    BY <1>2, <2>5, DamageTermPositive
<1> HIDE DEF mine
<1>11. t = now + 1
  BY DEF t
<1>12. now + 1 - r.engaged[p] < EngageWindow
  <2>1. r.engaged[p] \in Nat /\ EngageWindow \in Nat /\ now \in Nat
    BY <1>2, <1>5, OwnershipAssumption
  <2>. QED
    BY <1>9, <1>11, <2>1
<1>. QED
  BY <1>2, <1>9, <1>10, <1>12

\* No action changes who fought whom but by recording a fight of this moment.
LEMMA FoughtKept ==
  ASSUME now \in Nat \ {0}, NEW r \in Record, Fought(r), NEW p \in Peer, NEW amount \in Nat
  PROVE  Fought(Engage(r, p)) /\ Fought(Beat(r)) /\ Fought(RecordDamage(r, p, amount))
<1>0. /\ r.engaged \in [Peer -> Nat] /\ r.damage \in [Peer -> [sum : Nat, last : Nat]]
  BY DEF Record
<1>1. Fought(Beat(r))
  BY DEF Beat, Fought, Record
<1>2. ASSUME NEW s \in Record, Fought(s) PROVE Fought(Engage(s, p))
  <2>1. Engage(s, p).engaged = [s.engaged EXCEPT ![p] = now] /\ Engage(s, p).damage = s.damage
    BY DEF Engage, Record
  <2>2. s.engaged \in [Peer -> Nat] /\ \A q \in Peer : s.damage[q].last \in Nat
    BY DEF Record
  <2>3. ASSUME NEW q \in Peer
        PROVE  /\ Engage(s, p).engaged[q] <= now
               /\ s.damage[q].last <= Engage(s, p).engaged[q]
    <3>1. s.engaged[q] <= now /\ s.damage[q].last <= s.engaged[q]
      BY <1>2 DEF Fought
    <3>. QED
      BY <2>1, <2>2, <3>1
  <2>. QED
    BY <1>2, <2>1, <2>3 DEF Fought
<1>3. Fought(RecordDamage(r, p, amount))
  <2> DEFINE d == [sum |-> Decayed(r.damage[p], now) + amount, last |-> now]
             h == Engage([r EXCEPT !.damage[p] = d], p)
  <2>1. CASE amount = 0
    BY <2>1 DEF RecordDamage
  <2>2. CASE amount # 0
    <3>1. RecordDamage(r, p, amount) = h
      BY <2>2 DEF RecordDamage
    <3>2. /\ h.engaged = [r.engaged EXCEPT ![p] = now]
          /\ h.damage = [r.damage EXCEPT ![p] = d]
          /\ d.last = now
      BY DEF Engage, Record
    <3> HIDE DEF h, d
    <3>3. ASSUME NEW q \in Peer
          PROVE  /\ h.engaged[q] <= now /\ h.damage[q].last <= h.engaged[q]
                 /\ h.damage[q].sum > 0 => h.damage[q].last > 0
      <4>1. CASE q = p
        BY <1>0, <3>2, <4>1
      <4>2. CASE q # p
        BY <1>0, <3>2, <4>2 DEF Fought
      <4>. QED
        BY <4>1, <4>2
    <3>. QED
      BY <3>1, <3>3 DEF Fought
  <2>. QED
    BY <2>1, <2>2
<1>. QED
  BY <1>1, <1>2, <1>3

\* Neither does a claim on the pool, and a handoff keeps the fight's history.
LEMMA FoughtThrough ==
  ASSUME NEW r \in Record, Fought(r)
  PROVE  /\ \A p \in Peer, e, t \in Nat : Fought(HandTo(r, p, e, t))
         /\ \A p \in Peer, amount, maxHp \in Nat : Fought(ApplyHpClaim(r, p, amount, maxHp))
<1>1. ASSUME NEW p \in Peer, NEW e \in Nat, NEW t \in Nat PROVE Fought(HandTo(r, p, e, t))
  BY DEF HandTo, Fought, Record
<1>2. ASSUME NEW p \in Peer, NEW amount \in Nat, NEW maxHp \in Nat
      PROVE  Fought(ApplyHpClaim(r, p, amount, maxHp))
  <2> DEFINE b == Bootstrap(r, maxHp)
             c == Deplete(b, p, amount)
  <2>1. b \in Record /\ b.engaged = r.engaged /\ b.damage = r.damage
    BY DEF Bootstrap, Record
  <2> HIDE DEF b
  <2>2. c.engaged = b.engaged /\ c.damage = b.damage
    BY <2>1 DEF Deplete, Record
  <2> HIDE DEF c
  <2>3. Fought(c)
    BY <2>1, <2>2 DEF Fought
  <2>. QED
    BY <2>3 DEF ApplyHpClaim, b, c
<1>. QED
  BY <1>1, <1>2

LEMMA NoRecordFought == now \in Nat => Fought(NoRecord)
BY DEF Fought, NoRecord

Ticks == \E fresh \in SUBSET session : \E near \in [Npc -> SUBSET fresh] : Tick(fresh, near)

\* Every step keeps the history of the fights, and only the tick hands over.
LEMMA EveryFight ==
  ASSUME Typed, Fights, [Next]_vars
  PROVE  Fights' /\ (Ticks \/ \A n \in Npc : ~Handoff(n))
<1> DEFINE Goal == Fights' /\ (Ticks \/ \A n \in Npc : ~Handoff(n))
<1>0. /\ TypeOK /\ BufferNamesPeer /\ now \in Nat \ {0} /\ session \subseteq Peer
      /\ Amounts \subseteq Nat /\ MaxHps \subseteq Nat
  BY OwnershipAssumption DEF Typed, TypeOK
<1>a. \A n \in Npc : rec[n] \in Record /\ Fought(rec[n])
  BY <1>0 DEF TypeOK, Fights
<1>b. ASSUME NEW n \in Npc, NEW r, Fought(r), rec' = [rec EXCEPT ![n] = r], now' = now,
             r.owner = rec[n].owner \/ ~Tracked(n)
      PROVE  Goal
  BY <1>0, <1>b DEF Fights, Fought, Handoff, TypeOK
<1>c. ASSUME NEW S \in SUBSET Npc, Release(S), now' = now PROVE Goal
  <2>1. rec' = [n \in Npc |-> IF n \in S THEN NoRecord ELSE rec[n]]
    BY <1>c DEF Release
  <2>2. Fights'
    BY <1>0, <1>a, <1>c, <2>1, NoRecordFought DEF Fights, Fought
  <2>. QED
    BY <2>1, <2>2, NoRecordType DEF Handoff
<1>d. ASSUME rec' = rec, now' = now PROVE Goal
  BY <1>d DEF Fights, Fought, Handoff
<1>2. ASSUME NEW p \in Peer, PeerJoin(p) \/ PeerLeave(p) PROVE Goal
  BY <1>2, <1>c, <1>d DEF PeerJoin, PeerLeave
<1>3. ASSUME NEW p \in Peer, NEW n \in Npc, ClaimObserved(p, n) PROVE Goal
  <2> DEFINE held == HandTo(NoRecord, p, nextEpoch, now)
             fresh == Engage(held, p)
             r == DrainPending(fresh, n)
             b == pendingDmg[n]
  <2>0. nextEpoch \in Nat /\ now \in Nat /\ b \in Pending
    BY <1>0 DEF TypeOK
  <2>1. held \in Record /\ Fought(held)
    BY <2>0, NoRecordType, NoRecordFought, FoughtThrough, HandToRecord
  <2>2. fresh \in Record /\ Fought(fresh)
    <3> HIDE DEF held
    <3>1. 0 \in Nat
      OBVIOUS
    <3>. QED
      BY <1>0, <2>1, <3>1, FoughtKept, EngageRecord
  <2> HIDE DEF fresh
  <2>3. Fought(r)
    <3>1. CASE b.sum > 0 /\ now - b.ts <= PendingDmgTtl
      <4>1. b.peer \in Peer /\ b.sum \in Nat /\ b.maxHp \in Nat
        BY <1>0, <2>0, <3>1 DEF BufferNamesPeer, Pending
      <4>2. r = ApplyHpClaim(fresh, b.peer, b.sum, b.maxHp)
        BY <3>1 DEF DrainPending
      <4>. QED
        BY <2>2, <4>1, <4>2, FoughtThrough
    <3>2. CASE ~(b.sum > 0 /\ now - b.ts <= PendingDmgTtl)
      BY <2>2, <3>2 DEF DrainPending
    <3>. QED
      BY <3>1, <3>2
  <2>4. /\ ~Tracked(n) /\ now' = now
        /\ rec' = [rec EXCEPT ![n] = r] \/ UNCHANGED rec
    BY <1>3 DEF ClaimObserved, Claimable, fresh
  <2> HIDE DEF r
  <2>. QED
    BY <1>b, <1>d, <2>3, <2>4
<1>4. ASSUME NEW p \in Peer, NEW n \in Npc
      PROVE  /\ Fought(Engage(rec[n], p)) /\ Engage(rec[n], p).owner = rec[n].owner
             /\ Fought(Beat(rec[n])) /\ Beat(rec[n]).owner = rec[n].owner
             /\ Fought(Engage(Beat(rec[n]), p))
             /\ Engage(Beat(rec[n]), p).owner = rec[n].owner
  <2>0. 0 \in Nat
    OBVIOUS
  <2>1. /\ Beat(rec[n]) \in Record /\ Fought(Beat(rec[n]))
        /\ Beat(rec[n]).owner = rec[n].owner
    BY <1>0, <1>a, <2>0, BeatRecord, FoughtKept
  <2>. QED
    BY <1>0, <1>a, <2>0, <2>1, FoughtKept, EngageRecord DEF SameLease
<1>5. ASSUME NEW p \in Peer, NEW n \in Npc, RefreshObserved(p, n) PROVE Goal
  BY <1>5, <1>4, <1>b DEF RefreshObserved
<1>6. ASSUME NEW p \in Peer, NEW n \in Npc, NEW e \in Issued,
             NpcUnload(p, n, e) \/ NpcOwnerHeartbeat(p, n, e)
      PROVE  Goal
  BY <1>6, <1>4, <1>b, <1>c DEF NpcUnload, NpcOwnerHeartbeat
<1>7. ASSUME NEW p \in Peer, NEW n \in Npc, NEW e \in Issued, NEW inCombat \in BOOLEAN,
             NpcStateFromOwner(p, n, e, inCombat)
      PROVE  Goal
  BY <1>7, <1>4, <1>b DEF NpcStateFromOwner
<1>8. ASSUME NEW p \in Peer, NEW n \in Npc, NpcEngagementClaim(p, n) PROVE Goal
  BY <1>8, <1>4, <1>b DEF NpcEngagementClaim
<1>9. ASSUME NEW p \in Peer, NEW n \in Npc, NEW amount \in Amounts, NEW maxHp \in MaxHps,
             NpcDamageClaim(p, n, amount, maxHp)
      PROVE  Goal
  <2> DEFINE hit == RecordDamage(rec[n], p, amount)
             r == ApplyHpClaim(hit, p, amount, maxHp)
  <2>1. amount \in Nat /\ maxHp \in Nat
    BY <1>0
  <2>2. hit \in Record /\ Fought(hit) /\ SameLease(hit, rec[n])
    BY <1>0, <1>a, <2>1, DamageRecord, FoughtKept
  <2>3. Fought(r) /\ r.owner = rec[n].owner
    <3> HIDE DEF hit
    <3>. QED
      BY <2>1, <2>2, FoughtThrough, HpClaimRecord DEF SameLease
  <2>4. now' = now /\ (rec' = [rec EXCEPT ![n] = r] \/ Release({n}) \/ rec' = rec)
    BY <1>9 DEF NpcDamageClaim, ClaimTracked, StashPending
  <2> HIDE DEF r
  <2>. QED
    BY <1>b, <1>c, <1>d, <2>3, <2>4
<1>10. ASSUME NEW p \in Peer, NEW n \in Npc, NpcDeathFromOwner(p, n) PROVE Goal
  BY <1>10, <1>c DEF NpcDeathFromOwner
<1>11. ASSUME NEW fresh \in SUBSET session, NEW near \in [Npc -> SUBSET fresh],
              Tick(fresh, near)
       PROVE Goal
  <2> DEFINE t == now + 1
             lost == Expired(t)
             moved == Contested(fresh, near, t)
             S == lost \cup moved
  <2>0. t \in Nat /\ now' = t /\ now <= now'
    BY <1>0, <1>11 DEF Tick
  <2>1. PICK f \in Numberings(S), to \in [moved -> Peer] :
          rec' = [n \in Npc |-> IF n \in lost THEN NoRecord
                                ELSE IF n \in moved THEN HandTo(rec[n], to[n], f[n], t)
                                     ELSE rec[n]]
    BY <1>11 DEF Tick
  <2>2. S \in SUBSET Npc
    BY DEF Expired, Contested
  <2>3. \A n \in S : f[n] \in Nat
    BY <1>0, <2>1, <2>2, NumberingsFresh DEF TypeOK
  <2> HIDE DEF lost, moved, t
  <2>4. ASSUME NEW n \in Npc PROVE rec'[n] \in Record /\ Fought(rec'[n])
    <3>1. CASE n \in moved
      <4>1. to[n] \in Peer /\ f[n] \in Nat
        BY <2>1, <2>3, <3>1
      <4>2. HandTo(rec[n], to[n], f[n], t) \in Record /\ Fought(HandTo(rec[n], to[n], f[n], t))
        BY <1>a, <2>0, <4>1, FoughtThrough, HandToRecord
      <4>. QED
        BY <1>0, <2>1, <3>1, <4>2, NoRecordFought, NoRecordType
    <3>2. CASE n \notin moved
      BY <1>0, <1>a, <2>1, <3>2, NoRecordFought, NoRecordType
    <3>. QED
      BY <3>1, <3>2
  <2>5. Fights'
    <3> SUFFICES ASSUME NEW n \in Npc, NEW p \in Peer
                 PROVE  /\ rec'[n].engaged[p] <= now'
                        /\ rec'[n].damage[p].last <= rec'[n].engaged[p]
                        /\ rec'[n].damage[p].sum > 0 => rec'[n].damage[p].last > 0
      BY DEF Fights, Fought
    <3>1. rec'[n].engaged[p] \in Nat
      BY <2>4 DEF Record
    <3>2. /\ rec'[n].engaged[p] <= now
          /\ rec'[n].damage[p].last <= rec'[n].engaged[p]
          /\ rec'[n].damage[p].sum > 0 => rec'[n].damage[p].last > 0
      BY <2>4 DEF Fought
    <3>. QED
      BY <1>0, <2>0, <3>1, <3>2
  <2>6. Ticks
    BY <1>11 DEF Ticks
  <2>. QED
    BY <2>5, <2>6
<1>12. CASE UNCHANGED vars
  BY <1>12, <1>d DEF vars
<1>. QED
  BY <1>2, <1>3, <1>5, <1>6, <1>7, <1>8, <1>9, <1>10, <1>11, <1>12 DEF Next, NpcObserved

\* A handoff goes to a peer that fought the NPC, and past a fighting owner only
\* to one that did damage.
LEMMA HandoffStep ==
  ASSUME Typed, Fights, [Next]_vars, NEW n \in Npc, Handoff(n)
  PROVE  LET p == rec'[n].owner
         IN  /\ rec[n].engaged[p] > 0 /\ now' - rec[n].engaged[p] < EngageWindow
             /\ rec[n].engaged[rec[n].owner] = now => rec[n].damage[p].sum > 0
<1>0. /\ TypeOK /\ now \in Nat \ {0} /\ session \subseteq Peer
      /\ rec[n] \in Record /\ Fought(rec[n])
  BY DEF Typed, TypeOK, Fights
<1>1. Ticks
  BY EveryFight
<1>a. PICK fresh \in SUBSET session : \E near \in [Npc -> SUBSET fresh] : Tick(fresh, near)
  BY <1>1 DEF Ticks
<1>2. PICK near \in [Npc -> SUBSET fresh] : Tick(fresh, near)
  BY <1>a
<1> DEFINE t == now + 1
           lost == Expired(t)
           moved == Contested(fresh, near, t)
<1>3. now' = t
  BY <1>2 DEF Tick
<1>4. PICK f \in Numberings(lost \cup moved), to \in [moved -> Peer] :
        /\ \A k \in moved : to[k] \in Challengers(rec[k], fresh, near[k], t)
        /\ rec' = [k \in Npc |-> IF k \in lost THEN NoRecord
                                 ELSE IF k \in moved THEN HandTo(rec[k], to[k], f[k], t)
                                      ELSE rec[k]]
  BY <1>2 DEF Tick
<1> HIDE DEF lost, moved
<1>5. n \notin lost /\ n \in moved
  BY <1>4, NoRecordType DEF Handoff
<1>6. rec'[n].owner = to[n]
  BY <1>0, <1>4, <1>5 DEF HandTo, Record
<1>7. to[n] \in Challengers(rec[n], fresh, near[n], t)
  BY <1>4, <1>5
<1>8. /\ fresh \in SUBSET Peer /\ near[n] \in SUBSET Peer /\ rec[n].owner \in Peer
  BY <1>0 DEF Handoff, Tracked, Record, Owner
<1> DEFINE p == to[n]
           since == rec[n].engaged[p]
<1>9. p \in Challengers(rec[n], fresh, near[n], now + 1)
  BY <1>7
<1>10. /\ p \in Peer /\ since > 0 /\ now + 1 - since < EngageWindow
       /\ rec[n].engaged[rec[n].owner] = now => rec[n].damage[p].sum > 0
  <2> HIDE DEF p
  <2>. QED
    BY <1>0, <1>8, <1>9, ChallengerFought
<1>11. since \in Nat /\ EngageWindow \in Nat
  BY <1>0, <1>10, OwnershipAssumption DEF Record
<1> HIDE DEF p, since
<1>12. now' - since < EngageWindow
  BY <1>0, <1>3, <1>10, <1>11
<1>. QED
  BY <1>6, <1>10, <1>12 DEF p, since

LEMMA FightsAlways == Spec => [](Typed /\ Fights)
<1>1. Init => Typed /\ Fights
  <2>1. Init => now \in Nat
    BY DEF Init
  <2>. QED
    BY <2>1, TypedInit, NoRecordFought DEF Init, Fights
<1>2. Typed /\ Fights /\ [Next]_vars => (Typed /\ Fights)'
  BY TypedNext, EveryFight
<1>. QED
  BY <1>1, <1>2, PTL DEF Spec

\* Aggro follows the fight: "a delta >= 3 can only come from an engagement
\* difference", whatever the weights, as long as proximity stays below the
\* margin and damage is forgotten no later than engagement.
THEOREM Handed == Spec => HandoffOnlyToFighter
<1>1. Typed /\ Fights /\ [Next]_vars =>
        [\A n \in Npc : Handoff(n) =>
           LET p == rec'[n].owner
           IN  rec[n].engaged[p] > 0 /\ now' - rec[n].engaged[p] < EngageWindow]_vars
  BY HandoffStep
<1>. QED
  BY <1>1, FightsAlways, PTL DEF Spec, HandoffOnlyToFighter

\* An owner that fights the NPC as the tick comes loses it only to damage.
THEOREM Kept == Spec => FightingOwnerKept
<1>1. Typed /\ Fights /\ [Next]_vars =>
        [\A n \in Npc : Handoff(n) /\ rec[n].engaged[rec[n].owner] = now =>
           rec[n].damage[rec'[n].owner].sum > 0]_vars
  BY HandoffStep
<1>. QED
  BY <1>1, FightsAlways, PTL DEF Spec, FightingOwnerKept
=============================================================================
