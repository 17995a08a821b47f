----------------------- MODULE OwnershipMirrorProofs -----------------------
(***************************************************************************)
(* Proofs about the clients' copies, for any peers and NPCs.               *)
(*                                                                         *)
(* Every owner and epoch that is anywhere in the system, in the server's   *)
(* table, on the wire, in a copy or behind a relayed state, was announced; *)
(* and an NPC and an epoch name one announcement.  So two parties that     *)
(* agree on the epoch agree on the owner, in whatever order things came.   *)
(***************************************************************************)
EXTENDS OwnershipMirrorProps, FiniteSetTheorems, TLAPS

\* An epoch names one announcement of an NPC, made in the past.
SaidOnce ==
  /\ \A x, y \in said : x.npc = y.npc /\ x.epoch = y.epoch => x = y
  /\ \A x \in said : 0 < x.epoch /\ x.epoch < nextEpoch

RecSaid == \A n \in Npc : rec[n] = NoEntry \/ Said(n, rec[n]) \in said
WireSaid == \A m \in wire : \A n \in DOMAIN m.table : Said(n, m.table[n]) \in said
MirrorSaid == \A p \in Peer, n \in Npc : mirror[p][n] = NoEntry \/ Said(n, mirror[p][n]) \in said
StatesSaid == \A s \in states : Said(s.npc, [owner |-> s.from, epoch |-> s.epoch]) \in said

Inv == TypeOK /\ SaidOnce /\ RecSaid /\ WireSaid /\ MirrorSaid /\ StatesSaid

LEMMA InitInv == Init => Inv
<1> SUFFICES ASSUME Init PROVE Inv
  OBVIOUS
<1>1. NoEntry \in Entry /\ Well(NoEntry)
  BY DEF NoEntry, Entry, Owner, Well
<1>2. TypeOK
  BY <1>1 DEF Init, TypeOK, Link
<1>3. SaidOnce /\ RecSaid /\ WireSaid /\ MirrorSaid /\ StatesSaid
  BY DEF Init, SaidOnce, RecSaid, WireSaid, MirrorSaid, StatesSaid
<1>. QED
  BY <1>2, <1>3 DEF Inv

LEMMA NumberingsFresh ==
  ASSUME nextEpoch \in Nat, NEW S \in SUBSET Npc, NEW f \in Numberings(S)
  PROVE  /\ Cardinality(S) \in Nat
         /\ \A n \in S : f[n] \in Nat /\ nextEpoch <= f[n] /\ f[n] < nextEpoch + Cardinality(S)
<1>1. Cardinality(S) \in Nat
  BY MirrorAssumption, FS_Subset, FS_CardinalityType
<1>. QED
  BY <1>1 DEF Numberings

\* What a change of owner keeps true of the server and of the wire; whatever
\* was announced before stays announced.
LEMMA ChangeStep ==
  ASSUME Inv, NEW S \in SUBSET Npc, NEW o \in Owner, NEW dst \in SUBSET Peer,
         Change(S, o, dst)
  PROVE  /\ nextEpoch' \in Nat \ {0}
         /\ said \subseteq said'
         /\ said' \subseteq [npc : Npc, owner : Owner, epoch : Nat]
         /\ SaidOnce'
         /\ rec' \in [Npc -> Entry] /\ \A n \in Npc : Well(rec'[n])
         /\ RecSaid' /\ WireSaid'
         /\ \A m \in wire' : /\ m.to \in Peer
                             /\ DOMAIN m.table \subseteq Npc
                             /\ \A n \in DOMAIN m.table : m.table[n] \in Entry
<1>1. PICK f \in Numberings(S) :
        /\ nextEpoch' = nextEpoch + Cardinality(S)
        /\ said' = said \cup {Said(n, Granted(S, o, f)[n]) : n \in S}
        /\ rec' = [n \in Npc |-> IF n \notin S THEN rec[n]
                                 ELSE IF o = NoPeer THEN NoEntry ELSE Granted(S, o, f)[n]]
        /\ wire' = {m \in wire : m.to \in dst} \cup
                  UNION {ToAll(dst, Granted({n}, o, f)) : n \in S}
  BY DEF Change
<1> DEFINE new == Granted(S, o, f)
<1>2. /\ said' = said \cup {Said(n, new[n]) : n \in S}
      /\ rec' = [n \in Npc |-> IF n \notin S THEN rec[n]
                               ELSE IF o = NoPeer THEN NoEntry ELSE new[n]]
  BY <1>1
<1>3. nextEpoch \in Nat \ {0} /\ TypeOK /\ SaidOnce /\ RecSaid /\ WireSaid
  BY DEF Inv, TypeOK
<1>4. /\ Cardinality(S) \in Nat
      /\ \A n \in S : f[n] \in Nat /\ nextEpoch <= f[n] /\ f[n] < nextEpoch + Cardinality(S)
  BY <1>3, NumberingsFresh
<1>5. \A n \in S : /\ new[n] = [owner |-> o, epoch |-> f[n]]
                   /\ new[n] \in Entry
                   /\ Said(n, new[n]) = [npc |-> n, owner |-> o, epoch |-> f[n]]
                   /\ Said(n, new[n]) \in [npc : Npc, owner : Owner, epoch : Nat]
  BY <1>4 DEF Entry, Said, Granted
<1> HIDE DEF new
<1>6. nextEpoch' \in Nat \ {0} /\ nextEpoch <= nextEpoch'
  BY <1>1, <1>3, <1>4
<1>7. said \subseteq said'
  BY <1>2
<1>8. said' \subseteq [npc : Npc, owner : Owner, epoch : Nat]
  BY <1>2, <1>3, <1>5 DEF TypeOK
<1>9. SaidOnce'
  <2>1. \A x \in said' : x \in said \/ \E n \in S : x = [npc |-> n, owner |-> o, epoch |-> f[n]]
    BY <1>2, <1>5
  <2>2. ASSUME NEW x \in said' PROVE 0 < x.epoch /\ x.epoch < nextEpoch'
    <3>1. CASE x \in said
      <4>1. x.epoch \in Nat
        BY <3>1, <1>3 DEF TypeOK
      <4>. QED
        BY <3>1, <4>1, <1>3, <1>6 DEF SaidOnce
    <3>2. ASSUME NEW n \in S, x = [npc |-> n, owner |-> o, epoch |-> f[n]]
          PROVE 0 < x.epoch /\ x.epoch < nextEpoch'
      BY <3>2, <1>1, <1>3, <1>4
    <3>. QED
      BY <2>1, <3>1, <3>2
  <2>3. ASSUME NEW x \in said', NEW y \in said', x.npc = y.npc, x.epoch = y.epoch PROVE x = y
    <3>1. CASE x \in said /\ y \in said
      BY <2>3, <3>1, <1>3 DEF SaidOnce
    <3>2. CASE x \notin said /\ y \notin said
      BY <2>1, <2>3, <3>2
    <3>3. ASSUME NEW u \in said, NEW n \in S, u.epoch = f[n] PROVE FALSE
      <4>1. u.epoch \in Nat /\ u.epoch < nextEpoch
        BY <1>3 DEF TypeOK, SaidOnce
      <4>. QED
        BY <4>1, <3>3, <1>3, <1>4
    <3>4. CASE x \in said /\ y \notin said
      BY <2>1, <2>3, <3>3, <3>4
    <3>5. CASE x \notin said /\ y \in said
      BY <2>1, <2>3, <3>3, <3>5
    <3>. QED
      BY <3>1, <3>2, <3>4, <3>5
  <2>. QED
    BY <2>2, <2>3 DEF SaidOnce
<1>10. rec' \in [Npc -> Entry] /\ \A n \in Npc : Well(rec'[n])
  <2>1. ASSUME NEW n \in Npc PROVE Well(rec'[n])
    <3>1. CASE n \notin S
      BY <3>1, <1>2, <1>3 DEF TypeOK
    <3>2. CASE n \in S /\ o = NoPeer
      BY <3>2, <1>2 DEF Well, NoEntry, Entry, Owner
    <3>3. CASE n \in S /\ o # NoPeer
      <4>1. rec'[n] = new[n]
        BY <3>3, <1>2
      <4>2. new[n] = [owner |-> o, epoch |-> f[n]]
        BY <3>3, <1>5
      <4>3. f[n] # 0
        BY <3>3, <1>3, <1>4
      <4>4. new[n].owner # NoPeer /\ new[n].epoch # 0
        BY <3>3, <4>2, <4>3
      <4>. QED
        BY <4>1, <4>4, <3>3, <1>5 DEF Well
    <3>. QED
      BY <3>1, <3>2, <3>3
  <2>. QED
    BY <2>1, <1>2 DEF Well
<1>11. RecSaid'
  <2>1. ASSUME NEW n \in Npc PROVE rec'[n] = NoEntry \/ Said(n, rec'[n]) \in said'
    BY <1>2, <1>3, <1>7 DEF RecSaid
  <2>. QED
    BY <2>1 DEF RecSaid, Said
<1>12. ASSUME NEW m \in wire', m \notin wire
       PROVE  \E p \in dst, n \in S : m.to = p /\ m.table = Granted({n}, o, f)
  <2>1. PICK p \in dst, n \in S : m = Frame(p, Granted({n}, o, f))
    BY <1>1, <1>12 DEF ToAll
  <2>. QED
    BY <2>1 DEF Frame
<1>13. WireSaid'
  <2>1. ASSUME NEW m \in wire', NEW n \in DOMAIN m.table PROVE Said(n, m.table[n]) \in said'
    <3>1. CASE m \in wire
      BY <3>1, <2>1, <1>3, <1>7 DEF WireSaid
    <3>2. ASSUME NEW k \in S, m.table = Granted({k}, o, f) PROVE Said(n, m.table[n]) \in said'
      <4>1. n = k /\ m.table[n] = new[n]
        BY <3>2, <2>1, <1>5 DEF Granted
      <4>. QED
        BY <4>1, <1>2
    <3>. QED
      BY <3>1, <3>2, <1>12
  <2>. QED
    BY <2>1 DEF WireSaid, Said
<1>14. ASSUME NEW m \in wire'
       PROVE  /\ m.to \in Peer
              /\ DOMAIN m.table \subseteq Npc
              /\ \A n \in DOMAIN m.table : m.table[n] \in Entry
  <2>1. CASE m \in wire
    BY <2>1, <1>3 DEF TypeOK
  <2>2. ASSUME NEW p \in dst, NEW k \in S, m.to = p, m.table = Granted({k}, o, f)
        PROVE  /\ m.to \in Peer
               /\ DOMAIN m.table \subseteq Npc
               /\ \A n \in DOMAIN m.table : m.table[n] \in Entry
    <3>1. DOMAIN m.table = {k} /\ m.table[k] = new[k]
      BY <2>2, <1>5 DEF Granted
    <3>. QED
      BY <2>2, <3>1, <1>5
  <2>. QED
    BY <2>1, <2>2, <1>12
<1>. QED
  BY <1>6, <1>7, <1>8, <1>9, <1>10, <1>11, <1>13, <1>14

\* A change of owner keeps the invariant if the rest of the step does its part.
LEMMA ChangeInv ==
  ASSUME Inv, NEW S \in SUBSET Npc, NEW o \in Owner, NEW dst \in SUBSET Peer,
         Change(S, o, dst),
         alive' \subseteq Npc, dead' \subseteq Npc, link' \in [Peer -> Link], UNCHANGED client,
         sightings' \subseteq sightings, claims' \subseteq claims, reports' \subseteq reports, states' \subseteq states
  PROVE  Inv'
<1>1. /\ nextEpoch' \in Nat \ {0}
      /\ said \subseteq said'
      /\ said' \subseteq [npc : Npc, owner : Owner, epoch : Nat]
      /\ SaidOnce'
      /\ rec' \in [Npc -> Entry] /\ \A n \in Npc : Well(rec'[n])
      /\ RecSaid' /\ WireSaid'
      /\ \A m \in wire' : /\ m.to \in Peer
                          /\ DOMAIN m.table \subseteq Npc
                          /\ \A n \in DOMAIN m.table : m.table[n] \in Entry
  BY ChangeStep
<1>2. mirror' = mirror /\ observed' = observed /\ snap' = snap
  BY DEF client
<1>3. TypeOK'
  BY <1>1, <1>2 DEF Inv, TypeOK, Well
<1>4. MirrorSaid'
  BY <1>1, <1>2 DEF Inv, MirrorSaid, Said
<1>5. StatesSaid'
  BY <1>1 DEF Inv, StatesSaid, Said
<1>. QED
  BY <1>1, <1>3, <1>4, <1>5 DEF Inv

LEMMA NextInv == Inv /\ [Next]_vars => Inv'
<1> SUFFICES ASSUME Inv, [Next]_vars PROVE Inv'
  OBVIOUS
<1> USE MirrorAssumption
<1>0. TypeOK /\ SaidOnce /\ RecSaid /\ WireSaid /\ MirrorSaid /\ StatesSaid
  BY DEF Inv
<1>s. Session \subseteq Peer
  BY DEF Session
<1>1. ASSUME NEW p \in Peer, Join(p) PROVE Inv'
  <2> DEFINE known == {n \in Npc : Tracked(n)}
  <2>1. /\ link' = [link EXCEPT ![p] = "up"]
        /\ UNCHANGED <<server, client, sightings, claims, reports, states>>
    BY <1>1 DEF Join
  <2>2. ASSUME NEW m \in wire', m \notin wire
        PROVE  m.to = p /\ m.table = [n \in known |-> rec[n]]
    BY <2>2, <1>1 DEF Join, Frame
  <2>3. \A n \in known : rec[n] \in Entry /\ Said(n, rec[n]) \in said
    BY <1>0 DEF TypeOK, RecSaid, Tracked, NoEntry
  <2>4. WireSaid'
    BY <2>1, <2>2, <2>3, <1>0 DEF WireSaid, Said, server
  <2>5. ASSUME NEW m \in wire'
        PROVE  /\ m.to \in Peer
               /\ DOMAIN m.table \subseteq Npc
               /\ \A n \in DOMAIN m.table : m.table[n] \in Entry
    <3>1. CASE m \in wire
      BY <3>1, <1>0 DEF TypeOK
    <3>2. CASE m \notin wire
      <4>1. m.to = p /\ m.table = [n \in known |-> rec[n]]
        BY <3>2, <2>2
      <4>. QED
        BY <4>1, <2>3
    <3>. QED
      BY <3>1, <3>2
  <2>6. link' \in [Peer -> Link]
    BY <2>1, <1>0 DEF TypeOK, Link
  <2>7. TypeOK'
    BY <2>1, <2>5, <2>6, <1>0 DEF TypeOK, Well, server, client
  <2>8. (SaidOnce /\ RecSaid /\ MirrorSaid /\ StatesSaid)'
    BY <2>1, <1>0 DEF SaidOnce, RecSaid, MirrorSaid, StatesSaid, Said, server, client
  <2>. QED
    BY <2>4, <2>7, <2>8 DEF Inv
<1>2. ASSUME NEW p \in Peer, Drop(p) PROVE Inv'
  <2>1. Change({n \in Npc : rec[n].owner = p}, NoPeer, Session \ {p})
    BY <1>2 DEF Drop
  <2>2. /\ link' \in [Peer -> Link] /\ alive' \subseteq Npc /\ dead' \subseteq Npc
        /\ UNCHANGED client
        /\ sightings' \subseteq sightings /\ claims' \subseteq claims /\ reports' \subseteq reports /\ states' \subseteq states
    BY <1>2, <1>0 DEF Drop, TypeOK, Link
  <2>. QED
    BY <2>1, <2>2, <1>s, ChangeInv DEF Owner
<1>3. ASSUME NEW p \in Peer, Restart(p) PROVE Inv'
  <2>1. NoEntry \in Entry /\ Well(NoEntry)
    BY DEF NoEntry, Entry, Owner, Well
  <2>2. link' \in [Peer -> Link] /\ UNCHANGED <<server, wire, sightings, claims, reports, states>>
    BY <1>3, <1>0 DEF Restart, TypeOK, Link
  <2>3. /\ mirror' = [mirror EXCEPT ![p] = [n \in Npc |-> NoEntry]]
        /\ observed' \in [Peer -> SUBSET Npc] /\ snap' \in [Peer -> [Npc -> Nat]]
    BY <1>3, <1>0 DEF Restart, TypeOK
  <2>4. mirror' \in [Peer -> [Npc -> Entry]]
    BY <2>1, <2>3, <1>0 DEF TypeOK
  <2>5. \A q \in Peer, n \in Npc : mirror'[q][n] \in {NoEntry, mirror[q][n]}
    BY <2>3, <1>0 DEF TypeOK
  <2>6. \A q \in Peer, n \in Npc : Well(mirror'[q][n])
    BY <2>1, <2>5, <1>0 DEF TypeOK
  <2>7. TypeOK'
    BY <2>2, <2>3, <2>4, <2>6, <1>0 DEF TypeOK, Well, server
  <2>8. MirrorSaid'
    BY <2>2, <2>5, <1>0 DEF MirrorSaid, Said, server
  <2>9. (SaidOnce /\ RecSaid /\ WireSaid /\ StatesSaid)'
    BY <2>2, <1>0 DEF SaidOnce, RecSaid, WireSaid, StatesSaid, Said, server
  <2>. QED
    BY <2>7, <2>8, <2>9 DEF Inv
<1>4. ASSUME NEW p \in Peer, NEW stale \in SUBSET Npc, TickPeriodic(p, stale) PROVE Inv'
  <2> DEFINE kept == [n \in Npc |-> IF Believes(p, n) /\ n \notin stale THEN snap[p][n] ELSE 0]
  <2>1. /\ UNCHANGED <<server, link, mirror, observed, wire, sightings, claims, states>>
        /\ snap' = [snap EXCEPT ![p] = kept]
        /\ reports' \subseteq reports \cup {[from |-> p, npc |-> n, epoch |-> kept[n]] : n \in Npc}
    BY <1>4 DEF TickPeriodic
  <2>2. kept \in [Npc -> Nat]
    BY <1>0 DEF TypeOK
  <2>3. reports' \subseteq [from : Peer, npc : Npc, epoch : Nat]
    BY <2>1, <2>2, <1>0 DEF TypeOK
  <2>4. TypeOK'
    BY <2>1, <2>2, <2>3, <1>0 DEF TypeOK, Well, server
  <2>5. (SaidOnce /\ RecSaid /\ WireSaid /\ MirrorSaid /\ StatesSaid)'
    BY <2>1, <1>0 DEF SaidOnce, RecSaid, WireSaid, MirrorSaid, StatesSaid, Said, server
  <2>. QED
    BY <2>4, <2>5 DEF Inv
<1>5. ASSUME NEW p \in Peer, NEW n \in Npc, Notice(p, n) PROVE Inv'
  <2>1. UNCHANGED <<server, link, mirror, snap, wire, claims, reports, states>>
    BY <1>5 DEF Notice
  <2>2. observed' \in [Peer -> SUBSET Npc] /\ sightings' \subseteq [from : Peer, npc : Npc]
    BY <1>5, <1>0 DEF Notice, TypeOK
  <2>3. TypeOK'
    BY <2>1, <2>2, <1>0 DEF TypeOK, Well, server
  <2>4. (SaidOnce /\ RecSaid /\ WireSaid /\ MirrorSaid /\ StatesSaid)'
    BY <2>1, <1>0 DEF SaidOnce, RecSaid, WireSaid, MirrorSaid, StatesSaid, Said, server
  <2>. QED
    BY <2>3, <2>4 DEF Inv
<1>6. ASSUME NEW p \in Peer, NEW n \in Npc, Record(p, n) PROVE Inv'
  <2>1. UNCHANGED <<server, link, mirror, observed, wire, sightings, claims, reports, states>>
    BY <1>6 DEF Record
  <2>2. mirror[p][n].epoch \in Nat
    BY <1>0 DEF TypeOK, Entry
  <2>3. snap' \in [Peer -> [Npc -> Nat]]
    BY <2>2, <1>6, <1>0 DEF Record, TypeOK
  <2>4. TypeOK'
    BY <2>1, <2>3, <1>0 DEF TypeOK, Well, server
  <2>5. (SaidOnce /\ RecSaid /\ WireSaid /\ MirrorSaid /\ StatesSaid)'
    BY <2>1, <1>0 DEF SaidOnce, RecSaid, WireSaid, MirrorSaid, StatesSaid, Said, server
  <2>. QED
    BY <2>4, <2>5 DEF Inv
<1>7. ASSUME NEW p \in Peer, NEW n \in Npc, Handoff(n, p) PROVE Inv'
  <2>1. Change({n}, p, Session) /\ alive' = alive \cup {n}
        /\ UNCHANGED <<dead, link, client, sightings, claims, reports, states>>
    BY <1>7 DEF Handoff
  <2>2. alive' \subseteq Npc /\ dead' \subseteq Npc /\ link' \in [Peer -> Link]
    BY <2>1, <1>0 DEF TypeOK
  <2>. QED
    BY <2>1, <2>2, <1>s, ChangeInv DEF Owner
<1>8. ASSUME NEW n \in Npc, Release(n) PROVE Inv'
  <2>1. Change({n}, NoPeer, Session) /\ UNCHANGED <<alive, dead, link, client, sightings, claims, reports, states>>
    BY <1>8 DEF Release
  <2>2. alive' \subseteq Npc /\ dead' \subseteq Npc /\ link' \in [Peer -> Link]
    BY <2>1, <1>0 DEF TypeOK
  <2>. QED
    BY <2>1, <2>2, <1>s, ChangeInv DEF Owner
<1>9. ASSUME HealthGate PROVE Inv'
  <2>1. Change(Silent, NoPeer, Session) /\ alive' = {}
        /\ UNCHANGED <<dead, link, client, sightings, claims, reports, states>>
    BY <1>9 DEF HealthGate
  <2>2. Silent \subseteq Npc /\ dead' \subseteq Npc /\ link' \in [Peer -> Link]
    BY <2>1, <1>0 DEF TypeOK, Silent
  <2>. QED
    BY <2>1, <2>2, <1>s, ChangeInv DEF Owner
<1>10. ASSUME NEW m \in wire, ReceiveFrame(m) PROVE Inv'
  <2>1. /\ UNCHANGED <<server, link, snap, sightings, claims, reports, states>>
        /\ wire' = wire \ {m}
        /\ mirror' = [mirror EXCEPT ![m.to] = [n \in Npc |->
             IF n \in DOMAIN m.table THEN Stored(m.table[n]) ELSE mirror[m.to][n]]]
        /\ observed' = [observed EXCEPT ![m.to] = @ \ Forgets(m)]
    BY <1>10 DEF ReceiveFrame
  <2>2. /\ m.to \in Peer
        /\ \A n \in DOMAIN m.table : m.table[n] \in Entry /\ Said(n, m.table[n]) \in said
    BY <1>0 DEF TypeOK, WireSaid
  <2>3. ASSUME NEW n \in DOMAIN m.table
        PROVE  /\ Stored(m.table[n]) \in Entry /\ Well(Stored(m.table[n]))
               /\ Stored(m.table[n]) = NoEntry \/ Said(n, Stored(m.table[n])) \in said
    <3>1. CASE m.table[n].owner = NoPeer
      BY <3>1 DEF Stored, NoEntry, Entry, Owner, Well
    <3>2. CASE m.table[n].owner # NoPeer
      <4>1. Stored(m.table[n]) = m.table[n]
        BY <3>2 DEF Stored
      <4>2. Said(n, m.table[n]).epoch # 0
        BY <2>2, <1>0 DEF SaidOnce, TypeOK
      <4>3. m.table[n].epoch # 0
        BY <4>2 DEF Said
      <4>. QED
        BY <4>1, <4>3, <3>2, <2>2 DEF Well
    <3>. QED
      BY <3>1, <3>2
  <2>4. ASSUME NEW p \in Peer, NEW n \in Npc
        PROVE  /\ mirror'[p][n] \in Entry /\ Well(mirror'[p][n])
               /\ mirror'[p][n] = NoEntry \/ Said(n, mirror'[p][n]) \in said
    <3>1. CASE p = m.to /\ n \in DOMAIN m.table
      BY <3>1, <2>1, <2>2, <2>3, <1>0 DEF TypeOK
    <3>2. CASE ~(p = m.to /\ n \in DOMAIN m.table)
      <4>1. mirror'[p][n] = mirror[p][n]
        BY <3>2, <2>1, <2>2, <1>0 DEF TypeOK
      <4>. QED
        BY <4>1, <1>0 DEF TypeOK, MirrorSaid
    <3>. QED
      BY <3>1, <3>2
  <2>5. mirror' \in [Peer -> [Npc -> Entry]] /\ observed' \in [Peer -> SUBSET Npc]
    <3>1. \A n \in Npc : (IF n \in DOMAIN m.table THEN Stored(m.table[n])
                          ELSE mirror[m.to][n]) \in Entry
      BY <2>2, <2>3, <1>0 DEF TypeOK
    <3>. QED
      BY <3>1, <2>1, <2>2, <1>0 DEF TypeOK
  <2>6. TypeOK'
    BY <2>1, <2>4, <2>5, <1>0 DEF TypeOK, Well, server
  <2>7. MirrorSaid'
    BY <2>1, <2>4 DEF MirrorSaid, Said, server
  <2>8. (SaidOnce /\ RecSaid /\ WireSaid /\ StatesSaid)'
    BY <2>1, <1>0 DEF SaidOnce, RecSaid, WireSaid, StatesSaid, Said, server
  <2>. QED
    BY <2>6, <2>7, <2>8 DEF Inv
<1>11. ASSUME NEW s \in sightings, ServerObserved(s) PROVE Inv'
  <2>1. sightings' = sightings \ {s} /\ UNCHANGED <<dead, link, client, claims, reports, states>>
    BY <1>11 DEF ServerObserved
  <2>2. s.from \in Peer /\ s.npc \in Npc
    BY <1>0 DEF TypeOK
  <2>3. CASE Tracked(s.npc) \/ s.npc \in dead
    <3>1. UNCHANGED <<server, wire>>
      BY <1>11, <2>1, <2>3 DEF ServerObserved, server
    <3>2. TypeOK'
      BY <3>1, <2>1, <1>0 DEF TypeOK, Well, server, client
    <3>3. (SaidOnce /\ RecSaid /\ WireSaid /\ MirrorSaid /\ StatesSaid)'
      BY <3>1, <2>1, <1>0
         DEF SaidOnce, RecSaid, WireSaid, MirrorSaid, StatesSaid, Said, server, client
    <3>. QED
      BY <3>2, <3>3 DEF Inv
  <2>4. CASE ~(Tracked(s.npc) \/ s.npc \in dead)
    <3>1. Change({s.npc}, s.from, Session) /\ alive' = alive \cup {s.npc}
      BY <1>11, <2>4 DEF ServerObserved
    <3>2. alive' \subseteq Npc /\ dead' \subseteq Npc /\ link' \in [Peer -> Link]
      BY <3>1, <2>1, <2>2, <1>0 DEF TypeOK
    <3>. QED
      BY <3>1, <3>2, <2>1, <2>2, <1>s, ChangeInv DEF Owner
  <2>. QED
    BY <2>3, <2>4
<1>12. ASSUME NEW r \in reports, ServerReport(r) PROVE Inv'
  <2>1. UNCHANGED <<nextEpoch, said, rec, dead, link, client, wire, sightings, claims>> /\ reports' = reports \ {r}
    BY <1>12 DEF ServerReport
  <2>2. r.from \in Peer /\ r.npc \in Npc /\ r.epoch \in Nat
    BY <1>0 DEF TypeOK
  <2>3. alive' \subseteq Npc
    BY <1>12, <2>2, <1>0 DEF ServerReport, TypeOK
  <2>4. ASSUME NEW s \in states', s \notin states
        PROVE  /\ s \in [to : Peer, from : Peer, npc : Npc, epoch : Nat]
               /\ Said(s.npc, [owner |-> s.from, epoch |-> s.epoch]) \in said
    <3>1. Accepts(r) /\ \E q \in Session :
            s = [to |-> q, from |-> r.from, npc |-> r.npc, epoch |-> r.epoch]
      BY <1>12, <2>4 DEF ServerReport
    <3>2. Said(r.npc, rec[r.npc]) \in said
      BY <3>1, <2>2, <1>0 DEF Accepts, RecSaid, NoEntry
    <3>3. Said(r.npc, rec[r.npc]) = Said(s.npc, [owner |-> s.from, epoch |-> s.epoch])
      BY <3>1 DEF Said, Accepts
    <3>. QED
      BY <3>1, <3>2, <3>3, <2>2, <1>s
  <2>5. TypeOK'
    BY <2>1, <2>3, <2>4, <1>0 DEF TypeOK, Well, client
  <2>6. StatesSaid'
    BY <2>1, <2>4, <1>0 DEF StatesSaid, Said
  <2>7. (SaidOnce /\ RecSaid /\ WireSaid /\ MirrorSaid)'
    BY <2>1, <1>0 DEF SaidOnce, RecSaid, WireSaid, MirrorSaid, Said, client
  <2>. QED
    BY <2>5, <2>6, <2>7 DEF Inv
<1>13. ASSUME NEW s \in states, ReceiveState(s) PROVE Inv'
  <2>1. states' = states \ {s} /\ UNCHANGED <<server, link, client, wire, sightings, claims, reports>>
    BY <1>13 DEF ReceiveState
  <2>2. TypeOK'
    BY <2>1, <1>0 DEF TypeOK, Well, server, client
  <2>3. (SaidOnce /\ RecSaid /\ WireSaid /\ MirrorSaid /\ StatesSaid)'
    BY <2>1, <1>0
       DEF SaidOnce, RecSaid, WireSaid, MirrorSaid, StatesSaid, Said, server, client
  <2>. QED
    BY <2>2, <2>3 DEF Inv
<1>14. ASSUME NEW n \in Npc, FireDeath(n) PROVE Inv'
  <2>1. Change({n}, NoPeer, Session) /\ dead' = dead \cup {n}
        /\ UNCHANGED <<alive, link, client, sightings, claims, reports, states>>
    BY <1>14 DEF FireDeath
  <2>2. alive' \subseteq Npc /\ dead' \subseteq Npc /\ link' \in [Peer -> Link]
    BY <2>1, <1>0 DEF TypeOK
  <2>. QED
    BY <2>1, <2>2, <1>s, ChangeInv DEF Owner
<1>15. ASSUME \/ \E n \in Npc : DeadExpires(n)
              \/ \E c \in claims : ServerEngaged(c)
       PROVE  Inv'
  <2>1. /\ UNCHANGED <<nextEpoch, said, rec, link, client, wire, sightings, reports, states>>
        /\ alive' \subseteq Npc /\ dead' \subseteq Npc /\ claims' \subseteq claims
    BY <1>15, <1>0 DEF DeadExpires, ServerEngaged, TypeOK
  <2>2. TypeOK'
    BY <2>1, <1>0 DEF TypeOK, Well, client
  <2>3. (SaidOnce /\ RecSaid /\ WireSaid /\ MirrorSaid /\ StatesSaid)'
    BY <2>1, <1>0 DEF SaidOnce, RecSaid, WireSaid, MirrorSaid, StatesSaid, Said, client
  <2>. QED
    BY <2>2, <2>3 DEF Inv
<1>16. ASSUME NEW p \in Peer, NEW n \in Npc, Engage(p, n) PROVE Inv'
  <2>1. /\ UNCHANGED <<server, link, client, wire, sightings, reports, states>>
        /\ claims' = claims \cup {[from |-> p, npc |-> n]}
    BY <1>16 DEF Engage
  <2>2. TypeOK'
    BY <2>1, <1>0 DEF TypeOK, Well, server, client
  <2>3. (SaidOnce /\ RecSaid /\ WireSaid /\ MirrorSaid /\ StatesSaid)'
    BY <2>1, <1>0
       DEF SaidOnce, RecSaid, WireSaid, MirrorSaid, StatesSaid, Said, server, client
  <2>. QED
    BY <2>2, <2>3 DEF Inv
<1>17. CASE UNCHANGED vars
  <2>1. TypeOK'
    BY <1>17, <1>0 DEF TypeOK, Well, vars
  <2>2. (SaidOnce /\ RecSaid /\ WireSaid /\ MirrorSaid /\ StatesSaid)'
    BY <1>17, <1>0 DEF SaidOnce, RecSaid, WireSaid, MirrorSaid, StatesSaid, Said, vars
  <2>. QED
    BY <2>1, <2>2 DEF Inv
<1>. QED
  BY <1>1, <1>2, <1>3, <1>4, <1>5, <1>6, <1>7, <1>8, <1>9, <1>10, <1>11, <1>12, <1>13,
     <1>14, <1>15, <1>16, <1>17 DEF Next

LEMMA Always == Spec => []Inv
BY InitInv, NextInv, PTL DEF Spec

\* Every variable keeps its type, and a table entry names an owner exactly if
\* it has an epoch.
THEOREM TypeCorrect == Spec => []TypeOK
<1>1. Inv => TypeOK
  BY DEF Inv
<1>. QED
  BY <1>1, Always, PTL

\* A puppet is moved by the peer the client's own copy names: for any number
\* of peers and NPCs and any order of arrival.
THEOREM OneHand == Spec => []AppliedFromNamedOwner
<1>1. Inv => AppliedFromNamedOwner
  <2> SUFFICES ASSUME Inv, NEW s \in states, Applies(s)
               PROVE  s.from = mirror[s.to][s.npc].owner
    BY DEF AppliedFromNamedOwner
  <2> DEFINE x == Said(s.npc, [owner |-> s.from, epoch |-> s.epoch])
             y == Said(s.npc, mirror[s.to][s.npc])
  <2>1. s.to \in Peer /\ s.npc \in Npc /\ s.epoch = mirror[s.to][s.npc].epoch
    BY DEF Inv, TypeOK, Applies
  <2>2. x \in said /\ 0 < x.epoch
    BY DEF Inv, StatesSaid, SaidOnce
  <2>3. mirror[s.to][s.npc] # NoEntry
    BY <2>1, <2>2 DEF Said, NoEntry
  <2>4. y \in said
    BY <2>1, <2>3 DEF Inv, MirrorSaid
  <2>5. x = y
    <3>1. x.npc = y.npc /\ x.epoch = y.epoch
      BY <2>1 DEF Said
    <3>. QED
      BY <3>1, <2>2, <2>4 DEF Inv, SaidOnce
  <2>6. x.owner = s.from /\ y.owner = mirror[s.to][s.npc].owner
    BY DEF Said
  <2>. QED
    BY <2>5, <2>6
<1>. QED
  BY <1>1, Always, PTL
=============================================================================
