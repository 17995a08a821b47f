-------------------------- MODULE OwnershipMirror --------------------------
(***************************************************************************)
(* The client's copy of the NPC ownership table                            *)
(* (fw_native/src/hooks/ownership_manager.cpp), with the messages that     *)
(* feed it and the server handlers at their other end.                     *)
(*                                                                         *)
(* The server announces every change of owner with a PHASE_2 to each       *)
(* session and sends a joining peer the whole table in BCAST frames.  The  *)
(* channel delivers each once and in any order, and the client stores what *)
(* arrives last.  The engine's per-actor detour, on the game thread,       *)
(* reports the NPCs it sees fighting, claims those it fights that the copy *)
(* gives to somebody else and samples those the copy says it owns; the net *)
(* thread's tick turns the samples into reports the server relays.         *)
(*                                                                         *)
(* Abstractions.  Of the server only what is announced is kept: which NPC  *)
(* has which owner and epoch (module Ownership has the rest); when threat  *)
(* moves an NPC and when a death or an unload releases one is left open.   *)
(* HEARTBEAT and STATE are one report: both pass the same test at the      *)
(* server and both are relayed here.  A BCAST is one frame.  A claim, a    *)
(* report or a relayed state that is lost is one never sent.  The window   *)
(* between is_owner_of and epoch_for in the detour, and the one between    *)
(* the two locks of tick_periodic, are closed: the sample that could slip  *)
(* through carries an epoch the server's owner test refuses.               *)
(***************************************************************************)
EXTENDS Integers, FiniteSets

CONSTANTS
  Peer,        \* client ids
  Npc,         \* form ids
  NoPeer,      \* the all-zero peer id of a release
  MaxEpoch,    \* bound: epochs the server hands out
  MaxFlight    \* bound: claims, reports and relayed states on their way at once

ASSUME MirrorAssumption ==
  NoPeer \notin Peer /\ IsFiniteSet(Npc) /\ {MaxEpoch, MaxFlight} \subseteq Nat

VARIABLES
  nextEpoch, \* server: the next epoch it hands out
  said,      \* the changes of owner the server ever announced
  rec,       \* server: owner and epoch of each NPC
  alive,     \* server: NPCs whose owner was heard since the last health gate
  dead,      \* server: NPCs whose pool emptied less than the TTL ago
  link,      \* each client: not connected, in session, or dropped unawares
  mirror,    \* each client's copy of the table; epoch 0 is no entry
  observed,  \* each client's dedup set of NPCs it reported
  snap,      \* epoch of each owned sample, 0 is none
  wire,      \* PHASE_2 and BCAST frames on their way to a client
  sightings, \* NPC_OBSERVED on their way to the server
  claims,    \* NPC_ENGAGEMENT_CLAIM on their way to the server
  reports,   \* HEARTBEAT / STATE entries on their way to the server
  states     \* owner states relayed to the other clients

vars == <<nextEpoch, said, rec, alive, dead, link, mirror, observed, snap, wire,
          sightings, claims, reports, states>>
server == <<nextEpoch, said, rec, alive, dead>>
client == <<mirror, observed, snap>>

----------------------------------------------------------------------------
Owner == Peer \cup {NoPeer}
Entry == [owner : Owner, epoch : Nat]
NoEntry == [owner |-> NoPeer, epoch |-> 0]

Session == {p \in Peer : link[p] = "up"}
Tracked(n) == rec[n].owner # NoPeer
Exhausted == nextEpoch > MaxEpoch
Room == Cardinality(claims') + Cardinality(reports') + Cardinality(states') <= MaxFlight

Said(n, x) == [npc |-> n, owner |-> x.owner, epoch |-> x.epoch]
Frame(p, table) == [to |-> p, table |-> table]
ToAll(dst, table) == {Frame(p, table) : p \in dst}

\* is_owner_of
Believes(p, n) == mirror[p][n].owner = p

\* The NPCs of S, each under an epoch of its own.
Numberings(S) ==
  {f \in [S -> nextEpoch .. nextEpoch + Cardinality(S) - 1] :
     \A m, n \in S : f[m] = f[n] => m = n}

Granted(S, o, f) == [n \in S |-> [owner |-> o, epoch |-> f[n]]]

\* Every NPC n of S changes to owner o, or to nobody; the sessions in dst are
\* told, one frame per NPC.
Change(S, o, dst) ==
  \E f \in Numberings(S) :
    /\ nextEpoch + Cardinality(S) <= MaxEpoch + 1
    /\ nextEpoch' = nextEpoch + Cardinality(S)
    /\ said' = said \cup {Said(n, Granted(S, o, f)[n]) : n \in S}
    /\ rec' = [n \in Npc |-> IF n \notin S THEN rec[n]
                             ELSE IF o = NoPeer THEN NoEntry ELSE Granted(S, o, f)[n]]
    /\ wire' = {m \in wire : m.to \in dst} \cup
              UNION {ToAll(dst, Granted({n}, o, f)) : n \in S}

----------------------------------------------------------------------------
Init ==
  /\ nextEpoch = 1 /\ said = {}
  /\ rec = [n \in Npc |-> NoEntry]
  /\ alive = {} /\ dead = {}
  /\ link = [p \in Peer |-> "down"]
  /\ mirror = [p \in Peer |-> [n \in Npc |-> NoEntry]]
  /\ observed = [p \in Peer |-> {}]
  /\ snap = [p \in Peer |-> [n \in Npc |-> 0]]
  /\ wire = {} /\ sightings = {} /\ claims = {} /\ reports = {} /\ states = {}

(* The server.                                                             *)

\* HELLO of a client: the table goes out if there is one.
Join(p) ==
  LET known == {n \in Npc : Tracked(n)} IN
  /\ link[p] = "down"
  /\ link' = [link EXCEPT ![p] = "up"]
  /\ wire' = IF known = {} THEN wire
             ELSE wire \cup {Frame(p, [n \in known |-> rec[n]])}
  /\ UNCHANGED <<server, client, sightings, claims, reports, states>>

\* A session ends with its frames, both ways, and what the peer owned is
\* released.  The client is not told.
Drop(p) ==
  /\ link[p] = "up"
  /\ link' = [link EXCEPT ![p] = "stranded"]
  /\ sightings' = {s \in sightings : s.from # p}
  /\ claims' = {c \in claims : c.from # p}
  /\ reports' = {r \in reports : r.from # p}
  /\ states' = {s \in states : s.to # p}
  /\ Change({n \in Npc : rec[n].owner = p}, NoPeer, Session \ {p})
  /\ UNCHANGED <<alive, dead, client>>

\* NPC_OBSERVED: an untracked NPC is the observer's; a tracked one stays, and
\* one whose pool emptied lately is nobody's.
ServerObserved(s) ==
  /\ s \in sightings
  /\ sightings' = sightings \ {s}
  /\ IF Tracked(s.npc) \/ s.npc \in dead THEN UNCHANGED <<nextEpoch, said, rec, alive, wire>>
     ELSE Change({s.npc}, s.from, Session) /\ alive' = alive \cup {s.npc}
  /\ UNCHANGED <<dead, link, client, claims, reports, states>>

\* The threat table moves the NPC to another peer.
Handoff(n, p) ==
  /\ Tracked(n) /\ rec[n].owner # p
  /\ Change({n}, p, Session) /\ alive' = alive \cup {n}
  /\ UNCHANGED <<dead, link, client, sightings, claims, reports, states>>

\* NPC_UNLOAD, or a death a client reports.
Release(n) ==
  /\ Tracked(n)
  /\ Change({n}, NoPeer, Session)
  /\ UNCHANGED <<alive, dead, link, client, sightings, claims, reports, states>>

\* The pool emptied: the NPC is released too, and stays dead for the TTL.
FireDeath(n) ==
  /\ Tracked(n)
  /\ dead' = dead \cup {n}
  /\ Change({n}, NoPeer, Session)
  /\ UNCHANGED <<alive, link, client, sightings, claims, reports, states>>

\* The TTL runs out.
DeadExpires(n) ==
  /\ n \in dead /\ dead' = dead \ {n}
  /\ UNCHANGED <<nextEpoch, said, rec, alive, link, client, wire, sightings, claims,
                 reports, states>>

\* NPC_ENGAGEMENT_CLAIM: from the owner it is proof of life, whatever epoch
\* the owner goes by; from anybody else it only feeds the threat table.
ServerEngaged(c) ==
  /\ c \in claims
  /\ claims' = claims \ {c}
  /\ alive' = IF rec[c.npc].owner = c.from THEN alive \cup {c.npc} ELSE alive
  /\ UNCHANGED <<nextEpoch, said, rec, dead, link, client, wire, sightings, reports, states>>

\* The server's test of a report: the sender owns the NPC under that epoch.
Accepts(r) == rec[r.npc].owner = r.from /\ rec[r.npc].epoch = r.epoch

\* A report is proof of life and goes to the other sessions, or is dropped.
ServerReport(r) ==
  /\ r \in reports
  /\ reports' = reports \ {r}
  /\ IF Accepts(r)
     THEN /\ alive' = alive \cup {r.npc}
          /\ states' = states \cup
               {[to |-> q, from |-> r.from, npc |-> r.npc, epoch |-> r.epoch] :
                  q \in Session \ {r.from}}
     ELSE UNCHANGED <<alive, states>>
  /\ UNCHANGED <<nextEpoch, said, rec, dead, link, client, wire, sightings, claims>>

BugSilent == {n \in Npc : Tracked(n) /\ n \notin alive /\ rec[n].owner \notin Session}

Silent == {n \in Npc : Tracked(n) /\ n \notin alive}

\* The heartbeat timeout has passed: the silent owners lose their NPCs and the
\* next period begins.
HealthGate ==
  /\ Change(Silent, NoPeer, Session)
  /\ alive' = {}
  /\ UNCHANGED <<dead, link, client, sightings, claims, reports, states>>

----------------------------------------------------------------------------
(* The client.                                                             *)

\* The player restarts the game: a new process knows nothing.
Restart(p) ==
  /\ link[p] = "stranded"
  /\ link' = [link EXCEPT ![p] = "down"]
  /\ mirror' = [mirror EXCEPT ![p] = [n \in Npc |-> NoEntry]]
  /\ observed' = [observed EXCEPT ![p] = {}]
  /\ snap' = [snap EXCEPT ![p] = [n \in Npc |-> 0]]
  /\ UNCHANGED <<server, wire, sightings, claims, reports, states>>

BugForgets(m) == {}

\* A release makes the client report the NPC again when it sees it.
Forgets(m) == {n \in DOMAIN m.table : m.table[n].owner = NoPeer}

BugStored(new) == new

\* What becomes of an entry: whatever arrives last is stored, a release
\* erases; the epochs are not compared.
Stored(new) == IF new.owner = NoPeer THEN NoEntry ELSE new

\* on_phase2 and on_bcast, on the net thread.
ReceiveFrame(m) ==
  LET p == m.to IN
  /\ m \in wire
  /\ wire' = wire \ {m}
  /\ mirror' = [mirror EXCEPT ![p] = [n \in Npc |->
       IF n \in DOMAIN m.table THEN Stored(m.table[n]) ELSE mirror[p][n]]]
  /\ observed' = [observed EXCEPT ![p] = @ \ Forgets(m)]
  /\ UNCHANGED <<server, link, snap, sightings, claims, reports, states>>

\* notify_observation, before the engine's own update: once per NPC; a client
\* that is not connected marks it too and sends nothing.
Notice(p, n) ==
  /\ n \notin observed[p]
  /\ observed' = [observed EXCEPT ![p] = @ \cup {n}]
  /\ sightings' = IF link[p] = "up" THEN sightings \cup {[from |-> p, npc |-> n]} ELSE sightings
  /\ UNCHANGED <<server, link, mirror, snap, wire, claims, reports, states>>

\* enqueue_engagement_claim_dedup: the player fights an NPC that the copy
\* gives to somebody else.
Engage(p, n) ==
  /\ link[p] = "up" /\ mirror[p][n].owner \notin {NoPeer, p}
  /\ claims' = claims \cup {[from |-> p, npc |-> n]}
  /\ UNCHANGED <<server, link, client, wire, sightings, reports, states>>
  /\ Room

\* record_owned_state, after the engine's update: a sample of an NPC the
\* client takes for its own, under the epoch of its copy.
Record(p, n) ==
  /\ Believes(p, n)
  /\ snap' = [snap EXCEPT ![p][n] = mirror[p][n].epoch]
  /\ UNCHANGED <<server, link, mirror, observed, wire, sightings, claims, reports, states>>

\* tick_periodic: the samples of NPCs the client no longer owns are dropped,
\* and those of NPCs the engine no longer updates (stale); the others are sent
\* as they were taken.
TickPeriodic(p, stale) ==
  LET kept == [n \in Npc |-> IF Believes(p, n) /\ n \notin stale THEN snap[p][n] ELSE 0]
      entries == {[from |-> p, npc |-> n, epoch |-> kept[n]] :
                    n \in {k \in Npc : kept[k] # 0}} IN
  /\ snap' = [snap EXCEPT ![p] = kept]
  /\ reports' = IF link[p] = "up" THEN reports \cup entries ELSE reports
  /\ UNCHANGED <<server, link, mirror, observed, wire, sightings, claims, states>>
  /\ Room

BugApplies(s) == ~Believes(s.to, s.npc)

\* A relayed state is applied if the client knows the NPC under that epoch and
\* does not own it.
Applies(s) == mirror[s.to][s.npc].epoch = s.epoch /\ ~Believes(s.to, s.npc)

\* The NPC is moved, in the engine, or the entry is skipped.
ReceiveState(s) ==
  /\ s \in states
  /\ states' = states \ {s}
  /\ UNCHANGED <<server, link, client, wire, sightings, claims, reports>>

Next ==
  \/ \E p \in Peer : Join(p) \/ Drop(p) \/ Restart(p)
  \/ \E p \in Peer, n \in Npc : Notice(p, n) \/ Engage(p, n) \/ Record(p, n) \/ Handoff(n, p)
  \/ \E p \in Peer, stale \in SUBSET Npc : TickPeriodic(p, stale)
  \/ \E n \in Npc : Release(n) \/ FireDeath(n) \/ DeadExpires(n)
  \/ HealthGate
  \/ \E m \in wire : ReceiveFrame(m)
  \/ \E s \in sightings : ServerObserved(s)
  \/ \E c \in claims : ServerEngaged(c)
  \/ \E r \in reports : ServerReport(r)
  \/ \E s \in states : ReceiveState(s)

Spec == Init /\ [][Next]_vars

\* A sample that carries another epoch than the copy is one the engine took
\* before the copy changed: it is taken again, or goes stale.
Renews(p, n) ==
  /\ snap[p][n] \notin {0, mirror[p][n].epoch}
  /\ Record(p, n) \/ TickPeriodic(p, {n})

\* The channel delivers, the server's tick runs, a client keeps fighting what
\* it fights, and a claim does not travel for ever.  Nothing is asked of the
\* reports and the states.
Fairness ==
  /\ WF_vars(HealthGate)
  /\ \A p \in Peer :
       /\ WF_vars(\E m \in wire : m.to = p /\ ReceiveFrame(m))
       /\ WF_vars(\E s \in sightings : s.from = p /\ ServerObserved(s))
       /\ WF_vars(\E n \in Npc : Notice(p, n))
       /\ \A n \in Npc : /\ WF_vars(ServerEngaged([from |-> p, npc |-> n]))
                        /\ WF_vars(Renews(p, n))

FairSpec == Spec /\ Fairness
=============================================================================
