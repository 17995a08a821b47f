------------------------------- MODULE Death -------------------------------
(***************************************************************************)
(* The death of one NPC that every player sees                             *)
(* (fw_native/src/hooks/kill_hook.cpp, drain_npc_death_apply_queue of      *)
(* main_thread_dispatch.cpp, the handoff commit of                         *)
(* hooks/npc_ai_suppress.cpp; _handle_npc_death_from_owner and             *)
(* _fire_npc_death of net/server/main.py).                                 *)
(*                                                                         *)
(* A client that kills a tracked NPC reports it, and the server relays the *)
(* death to the others; when the shared hit points run out the server      *)
(* commands the death of every copy.  The net thread queues a death for    *)
(* the main thread and posts it a window message; the message makes the    *)
(* main thread take what waits, kill its copy of the NPC and mark it dying.*)
(* The frame hook, on the same thread, moves an NPC that came under the    *)
(* client's own control to where its owner had it, which brings a dead     *)
(* body back to life unless it is marked.                                  *)
(*                                                                         *)
(* Abstractions.  Who owns the NPC changes as Ownership has it (Reassign,  *)
(* Observed); the reasons are left out.  A run is a fight and its end,     *)
(* within the 600 s for which the server refuses the body of a pool kill.  *)
(* An observation may be on its way at any time.  The channel delivers     *)
(* each message once, in any order.  The clients are in session throughout.*)
(***************************************************************************)
EXTENDS Naturals, FiniteSets

CONSTANTS
  Peer,        \* clients
  NoPeer,      \* no owner
  MaxChanges,  \* bound: changes of owner
  MaxKills     \* bound: kills, by players or by the pool

ASSUME DeathAssumption ==
  IsFiniteSet(Peer) /\ NoPeer \notin Peer /\ MaxChanges \in Nat /\ MaxKills \in Nat

VARIABLES
  owner,      \* server: the owner in the NPC's record, NoPeer without a record
  noted,      \* server: the NPC is among the recently dead
  changes,    \* changes of owner so far
  kills,      \* kills so far
  phases,     \* PHASE_2 on their way
  deaths,     \* per client, NPC_DEATH_FROM_OWNER on their way to it
  reports,    \* per client, NPC_DEATH_FROM_OWNER on their way from it
  view,       \* per client, the owner it was told of
  copy,       \* per client, the NPC in its engine: "alive" or "dead"
  loaded,     \* clients whose engine has the NPC loaded
  applyQueue, \* per client, deaths waiting for the main thread
  posted,     \* per client, FW_MSG_NPC_DEATH_APPLY in its window's queue
  dying,      \* clients that marked the NPC dying
  killed,     \* clients that have the NPC among the killed
  armed,      \* clients with a pose to commit when the NPC becomes theirs
  lost        \* ghost: why some copy was not told of a death, or forgot it

server == <<owner, noted, changes>>
posts == <<phases, deaths, reports>>
game == <<copy, loaded, dying, killed, armed>>
inbox == <<applyQueue, posted>>
vars == <<server, kills, posts, view, game, inbox, lost>>

----------------------------------------------------------------------------
Tracked == owner # NoPeer

\* The client runs the NPC itself, as its owner or because nobody told it of one.
Puppet(p) == view[p] \notin {NoPeer, p}

BugAudience(p) == Peer \ {p, owner}
Audience(p) == Peer \ {p}

More(f, S) == [p \in Peer |-> IF p \in S THEN f[p] + 1 ELSE f[p]]

Init ==
  /\ owner = NoPeer /\ noted = FALSE /\ changes = 0 /\ kills = 0
  /\ phases = {}
  /\ deaths = [p \in Peer |-> 0] /\ reports = [p \in Peer |-> 0]
  /\ view = [p \in Peer |-> NoPeer]
  /\ copy = [p \in Peer |-> "alive"]
  /\ loaded = Peer
  /\ applyQueue = [p \in Peer |-> 0] /\ posted = [p \in Peer |-> 0]
  /\ dying = {} /\ killed = {} /\ armed = {}
  /\ lost = {}

----------------------------------------------------------------------------
(* The server.                                                             *)

\* The record changes hands and PHASE_2 goes to everybody.
BugChange(o) ==
  /\ owner' = o
  /\ changes' = changes
  /\ phases' = phases \cup {[to |-> p, owner |-> o, no |-> changes] : p \in Peer}
Change(o) ==
  /\ owner' = o
  /\ changes' = changes + 1
  /\ phases' = phases \cup {[to |-> p, owner |-> o, no |-> changes'] : p \in Peer}

\* assign_owner_by_threat: the first observation claims, unless the pool just
\* killed the NPC.
Observed(p) ==
  /\ changes < MaxChanges /\ ~Tracked /\ ~noted
  /\ Change(p)
  /\ UNCHANGED <<noted, kills, deaths, reports, view, game, inbox, lost>>

\* The tick hands the NPC to another, or it is released.
Reassign(o) ==
  /\ changes < MaxChanges /\ Tracked /\ o # owner
  /\ Change(o)
  /\ UNCHANGED <<noted, kills, deaths, reports, view, game, inbox, lost>>

\* _handle_npc_death_from_owner: anybody may report; only the owner's report
\* releases the record.
Report(p) ==
  /\ reports[p] > 0 /\ changes < MaxChanges
  /\ reports' = [reports EXCEPT ![p] = @ - 1]
  /\ \/ /\ Tracked
        /\ deaths' = More(deaths, Audience(p))
        /\ IF p = owner THEN Change(NoPeer) ELSE UNCHANGED <<owner, changes, phases>>
        /\ UNCHANGED lost
     \/ /\ ~Tracked
        /\ lost' = lost \cup {"no record"}
        /\ UNCHANGED <<owner, changes, phases, deaths>>
  /\ UNCHANGED <<noted, kills, view, game, inbox>>

\* _fire_npc_death: the pool is empty.
PoolEmpties ==
  /\ Tracked /\ changes < MaxChanges /\ kills < MaxKills
  /\ kills' = kills + 1
  /\ deaths' = More(deaths, Peer)
  /\ noted' = TRUE
  /\ Change(NoPeer)
  /\ UNCHANGED <<reports, view, game, inbox, lost>>

----------------------------------------------------------------------------
(* The net thread of a client.                                             *)

ReceivePhase(p) ==
  \E m \in phases :
    /\ m.to = p
    /\ phases' = phases \ {m}
    /\ view' = [view EXCEPT ![p] = m.owner]
    /\ UNCHANGED <<server, kills, deaths, reports, game, inbox, lost>>

\* post_wakeup_npc_death: nothing is posted while no window is known, or when
\* the one that is known is gone.
Wakes(p) == \E n \in {0, 1} : posted' = [posted EXCEPT ![p] = @ + n]

\* Queued also by a client that has become the owner meanwhile.
BugReceiveDeath(p) ==
  /\ deaths[p] > 0
  /\ deaths' = [deaths EXCEPT ![p] = @ - 1]
  /\ IF view[p] = p THEN UNCHANGED inbox
     ELSE applyQueue' = [applyQueue EXCEPT ![p] = @ + 1] /\ Wakes(p)
  /\ UNCHANGED <<server, kills, phases, reports, view, game, lost>>
ReceiveDeath(p) ==
  /\ deaths[p] > 0
  /\ deaths' = [deaths EXCEPT ![p] = @ - 1]
  /\ applyQueue' = [applyQueue EXCEPT ![p] = @ + 1]
  /\ Wakes(p)
  /\ UNCHANGED <<server, kills, phases, reports, view, game, lost>>

----------------------------------------------------------------------------
(* The main thread of a client.                                            *)

\* detour_kill: the engine kills the NPC.  Of one that is not tracked the
\* others learn by an ACTOR_EVENT (WorldValue), which makes it vanish instead.
LocalKill(p) ==
  /\ p \in loaded /\ copy[p] = "alive" /\ kills < MaxKills
  /\ kills' = kills + 1
  /\ copy' = [copy EXCEPT ![p] = "dead"]
  /\ IF view[p] # NoPeer
       THEN reports' = More(reports, {p}) /\ UNCHANGED lost
       ELSE lost' = lost \cup {"not tracked"} /\ UNCHANGED reports
  /\ UNCHANGED <<server, phases, deaths, view, loaded, dying, killed, armed, inbox>>

\* A posted message: drain_npc_death_apply_queue takes all that waits.
Drain(p) ==
  /\ posted[p] > 0
  /\ posted' = [posted EXCEPT ![p] = @ - 1]
  /\ applyQueue' = [applyQueue EXCEPT ![p] = 0]
  /\ \/ /\ applyQueue[p] > 0 /\ p \in loaded \ killed
        /\ dying' = dying \cup {p}
        /\ killed' = killed \cup {p}
        /\ copy' = [copy EXCEPT ![p] = "dead"]
        /\ UNCHANGED lost
     \/ /\ applyQueue[p] = 0 \/ p \in killed \/ p \notin loaded
        /\ lost' = lost \cup IF applyQueue[p] = 0 \/ p \in loaded THEN {} ELSE {"not loaded"}
        /\ UNCHANGED <<dying, killed, copy>>
  /\ UNCHANGED <<server, kills, posts, view, loaded, armed>>

\* The game makes its window anew: what was posted to the old one is gone.  The
\* client does not bind the new one.
WindowRecreated(p) ==
  /\ posted[p] > 0
  /\ posted' = [posted EXCEPT ![p] = 0]
  /\ UNCHANGED <<server, kills, posts, view, game, applyQueue, lost>>

\* detour_actor_update_perframe for a puppet whose owner sends poses: they are
\* kept for the day the NPC is handed over, those of a body too.
Follow(p) ==
  /\ p \in loaded \ armed /\ Puppet(p)
  /\ armed' = armed \cup {p}
  /\ UNCHANGED <<server, kills, posts, view, copy, loaded, dying, killed, inbox, lost>>

\* The same for any other NPC: a kept pose is committed once, not while a cell
\* streams in, and an owner starts clean, if the server's brain lists the NPC.
Commits(p, streaming) == p \in armed /\ ~streaming
Revives(p) == p \notin dying
StartsClean(p, listed) == listed /\ view[p] = p
Frame(p, streaming, listed) ==
  /\ p \in loaded /\ ~Puppet(p)
  /\ armed' = IF Commits(p, streaming) THEN armed \ {p} ELSE armed
  /\ copy' = IF Commits(p, streaming) /\ Revives(p) THEN [copy EXCEPT ![p] = "alive"] ELSE copy
  /\ dying' = IF StartsClean(p, listed) THEN dying \ {p} ELSE dying
  /\ lost' = lost \cup IF copy'[p] = copy[p] THEN {} ELSE {"revived"}
  /\ UNCHANGED <<server, kills, posts, view, loaded, killed, inbox>>

\* The cell unloads, or loads with the NPC as it was.
Stream(p) ==
  /\ loaded' = IF p \in loaded THEN loaded \ {p} ELSE loaded \cup {p}
  /\ UNCHANGED <<server, kills, posts, view, copy, dying, killed, armed, inbox, lost>>

----------------------------------------------------------------------------
Next ==
  \/ PoolEmpties
  \/ \E o \in Peer \cup {NoPeer} : Reassign(o)
  \/ \E p \in Peer :
       \/ Observed(p) \/ Report(p) \/ ReceivePhase(p) \/ ReceiveDeath(p)
       \/ LocalKill(p) \/ Drain(p) \/ WindowRecreated(p) \/ Follow(p) \/ Stream(p)
       \/ \E streaming, listed \in BOOLEAN : Frame(p, streaming, listed)

Spec == Init /\ [][Next]_vars

\* What the channel has to deliver arrives, and the main thread handles what is
\* posted to it.  That anything is posted is not assumed.
FairSpec ==
  /\ Spec
  /\ \A p \in Peer : WF_vars(ReceiveDeath(p)) /\ WF_vars(Drain(p))
=============================================================================
