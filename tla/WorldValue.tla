----------------------------- MODULE WorldValue -----------------------------
(***************************************************************************)
(* The values every player shares: quest stages, faction ranks, weather,   *)
(* companions, cleared cells, relationships, global variables, locks, and  *)
(* whether an actor is alive                                               *)
(* (net/server/main.py, the _handle_*_set family; net/server/state.py;     *)
(* fw_native/src/hooks/worldstate_hook.cpp and lock_hook.cpp).             *)
(*                                                                         *)
(* An engine detour sends each local change to the server; the server      *)
(* keeps the last value and relays it to the other sessions; a client puts *)
(* what it receives into its engine, under a guard that keeps the detour   *)
(* silent.  A joining client is sent what the server knows.  The kinds     *)
(* differ in what the server refuses, in the thread that applies, in       *)
(* whether the object must be loaded, and in what a joiner is told.        *)
(*                                                                         *)
(* A client names a lock or an actor by its form, the server files it by   *)
(* base and cell: two doors of one base in one cell share an entry, which  *)
(* is about the one that was changed last.                                 *)
(*                                                                         *)
(* Abstractions.  A key is a (kind, form) pair and starts in no state the  *)
(* server knows; references without a base or a cell, which the server     *)
(* does not file, are left out.  Why the engine turns a value down (not    *)
(* resolved, a temporary 0xFF form) is not told apart.                     *)
(* The channel delivers each message once, in any order;                   *)
(* two equal messages on their way between the same ends are one.  The     *)
(* detour's send and the engine's own store are one step.  A peer that is  *)
(* not in session has stopped or is about to: the client never reconnects, *)
(* and a new process starts from whatever its savefile holds.              *)
(***************************************************************************)
EXTENDS Integers, Sequences, SequencesExt

CONSTANTS
  Peer,      \* client ids
  Key,       \* shared values
  Val,       \* what they can be
  NoVal,     \* the server has no entry
  Locked,    \* the value of a lock that ForceLock reports
  Global,    \* the keys that are global variables
  Lock,      \* the keys that are locks
  Actor,     \* the keys that are actors
  Slot,      \* the entry a key is filed under, named by one of its keys
  Save,      \* the savefiles a game may start from
  MaxMoves   \* bound: local changes and joins in a run

ASSUME WorldAssumption ==
  /\ Save \subseteq [Key -> Val]
  /\ NoVal \notin Val /\ Locked \in Val /\ MaxMoves \in Nat
  /\ Global \cup Lock \cup Actor \subseteq Key
  /\ Global \cap (Lock \cup Actor) = {} /\ Lock \cap Actor = {}
  /\ Slot \in [Key -> Key]
  /\ \A j, k \in Key : Slot[j] = Slot[k] /\ j # k => {j, k} \subseteq Lock \/ {j, k} \subseteq Actor

VARIABLES
  server,    \* the server's table: the value of a key whose entry is about it
  session,   \* peers with a session
  local,     \* the value in each engine, NoVal where no game runs
  loaded,    \* per client, the locks and actors whose reference resolves
  up,        \* changes on their way to the server
  down,      \* relays and bootstrap entries on their way to a client
  queue,     \* per client, values waiting for the main thread
  moves,     \* local changes and joins so far
  missed,    \* ghost: keys a client and the server parted over for good
  contended  \* ghost: keys changed while a change of theirs was under way

vars == <<server, session, local, loaded, up, down, queue, moves, missed, contended>>

----------------------------------------------------------------------------
Loadable == Lock \cup Actor
\* Applied by the net thread on receipt; the others wait for the main thread.
Direct == Global \cup Actor

About(k, S) == \E m \in S : m.key = k
Waiting(p, k) == queue[p][k] # <<>>
Idle(k) == ~About(k, up) /\ ~About(k, down) /\ \A p \in Peer : ~Waiting(p, k)

Change(p, k, v) == [from |-> p, key |-> k, val |-> v]
Relay(p, k, v) == [to |-> p, key |-> k, val |-> v]

\* The entry k is filed under has the value v.
Filed(k, v) == \E j \in Key : Slot[j] = Slot[k] /\ server[j] = v

\* LOCK_OP of the state the entry has is not relayed, nor is the KILL of a
\* dead actor; a DISABLE of one is.
MayRefuse(k, v) == k \in Loadable /\ Filed(k, v)
MayAccept(k, v) == ~(k \in Lock /\ Filed(k, v))
\* ACTOR_EVENT beyond the rate limit, or against a ghost's base.
MayBar(k) == k \in Actor

\* The entry of k is about k from now on.
Recorded(k, v) ==
  [j \in Key |-> IF j = k THEN v ELSE IF Slot[j] = Slot[k] THEN NoVal ELSE server[j]]

BugOthers(p) == Peer \ {p}
Others(p) == session \ {p}
\* What a joiner is sent and has a handler for.
BugBooted == {k \in Key \ (Global \cup Lock) : server[k] # NoVal}
Booted == {k \in Key \ Global : server[k] # NoVal}

\* Whether a value put to the engine of p takes.
Resolves(p, k) == k \in Loadable => k \in loaded[p]

\* What a detour sends while tls_applying_remote is set: nothing.
BugEchoGuarded(p, k, v) == {Change(p, k, v)}
EchoGuarded(p, k, v) == {}

----------------------------------------------------------------------------
Init ==
  /\ server = [k \in Key |-> NoVal]
  /\ session = {}
  /\ local = [p \in Peer |-> [k \in Key |-> NoVal]]
  /\ loaded = [p \in Peer |-> {}]
  /\ up = {} /\ down = {}
  /\ queue = [p \in Peer |-> [k \in Key |-> <<>>]]
  /\ moves = 0
  /\ missed = [p \in Peer |-> {}]
  /\ contended = {}

\* A client starts, loads a save and says HELLO: the server answers with one
\* bootstrap after another.
Join(p, save) ==
  /\ p \notin session /\ moves < MaxMoves
  /\ moves' = moves + 1
  /\ session' = session \cup {p}
  /\ local' = [local EXCEPT ![p] = save]
  /\ down' = down \cup {Relay(p, k, server[k]) : k \in Booted}
  /\ missed' = [missed EXCEPT ![p] = {k \in Global : server[k] # NoVal}]
  /\ contended' = contended \cup {k \in Key : About(k, up)}
  /\ UNCHANGED <<server, loaded, up, queue>>

\* The session ends, with what is on its way in both directions.
Leave(p) ==
  /\ p \in session
  /\ session' = session \ {p}
  /\ up' = {m \in up : m.from # p}
  /\ down' = {m \in down : m.to # p}
  /\ queue' = [queue EXCEPT ![p] = [k \in Key |-> <<>>]]
  /\ local' = [local EXCEPT ![p] = [k \in Key |-> NoVal]]
  /\ loaded' = [loaded EXCEPT ![p] = {}]
  /\ missed' = [missed EXCEPT ![p] = {}]
  /\ UNCHANGED <<server, moves, contended>>

\* The engine of p changes k and the detour reports it.
Report(p, k, v) ==
  /\ moves < MaxMoves
  /\ moves' = moves + 1
  /\ up' = up \cup {Change(p, k, v)}
  /\ local' = [local EXCEPT ![p][k] = v]
  /\ missed' = [missed EXCEPT ![p] = @ \ {k}]
  /\ contended' = IF Idle(k) THEN contended ELSE contended \cup {k}

Write(p, k, v) ==
  /\ p \in session /\ Resolves(p, k)
  /\ Report(p, k, v)
  /\ UNCHANGED <<server, session, loaded, down, queue>>

\* The cell of k is loaded; ForceLock fires for a lock the save has locked,
\* whether or not it changed.
Load(p, k) ==
  /\ p \in session /\ k \in Loadable \ loaded[p]
  /\ loaded' = [loaded EXCEPT ![p] = @ \cup {k}]
  /\ IF k \in Lock /\ local[p][k] = Locked
     THEN Report(p, k, Locked)
     ELSE UNCHANGED <<local, up, moves, missed, contended>>
  /\ UNCHANGED <<server, session, down, queue>>

Unload(p, k) ==
  /\ p \in session /\ k \in loaded[p]
  /\ loaded' = [loaded EXCEPT ![p] = @ \ {k}]
  /\ UNCHANGED <<server, session, local, up, down, queue, moves, missed, contended>>

\* _handle_quest_stage_set and its siblings: record, then relay.
Handle(m) ==
  /\ m \in up
  /\ up' = up \ {m}
  /\ \/ /\ MayRefuse(m.key, m.val)
        /\ UNCHANGED <<server, down, missed>>
     \/ /\ MayBar(m.key)
        /\ missed' = [missed EXCEPT ![m.from] = @ \cup {m.key}]
        /\ UNCHANGED <<server, down>>
     \/ /\ MayAccept(m.key, m.val)
        /\ server' = Recorded(m.key, m.val)
        /\ down' = down \cup {Relay(p, m.key, m.val) : p \in Others(m.from)}
        /\ UNCHANGED missed
  /\ UNCHANGED <<session, local, loaded, queue, moves, contended>>

\* A remote value reaches the engine under ApplyingRemoteGuard: it takes if
\* the reference resolves, and is dropped for good otherwise.
Apply(p, k, v) ==
  /\ local' = IF Resolves(p, k) THEN [local EXCEPT ![p][k] = v] ELSE local
  /\ missed' = [missed EXCEPT ![p] = IF Resolves(p, k) THEN @ \ {k} ELSE @ \cup {k}]
  /\ up' = up \cup EchoGuarded(p, k, v)

\* Client::dispatch_delivered, net thread.
Receive(m) ==
  /\ m \in down
  /\ down' = down \ {m}
  /\ IF m.key \in Direct
     THEN Apply(m.to, m.key, m.val) /\ UNCHANGED queue
     ELSE /\ queue' = [queue EXCEPT ![m.to][m.key] = Append(@, m.val)]
          /\ UNCHANGED <<local, missed, up>>
  /\ UNCHANGED <<server, session, loaded, moves, contended>>

\* drain_*_apply_queue, main thread, on a posted message that may never come:
\* the whole queue is applied in order, the engine is left with the last value.
Drain(p, k) ==
  /\ Waiting(p, k)
  /\ queue' = [queue EXCEPT ![p][k] = <<>>]
  /\ Apply(p, k, Last(queue[p][k]))
  /\ UNCHANGED <<server, session, loaded, down, moves, contended>>

----------------------------------------------------------------------------
ServerStep == \E m \in up : Handle(m)
NetStep == \E m \in down : Receive(m)
MainStep == \E p \in Peer, k \in Key : Drain(p, k)

Next ==
  \/ \E p \in Peer, save \in Save : Join(p, save)
  \/ \E p \in Peer : Leave(p)
  \/ \E p \in Peer, k \in Key, v \in Val : Write(p, k, v)
  \/ \E p \in Peer, k \in Key : Load(p, k) \/ Unload(p, k)
  \/ ServerStep
  \/ NetStep
  \/ MainStep

Spec == Init /\ [][Next]_vars

\* The server and the net thread keep running.  Nothing is asked of the main
\* thread.
Fairness == WF_vars(ServerStep) /\ WF_vars(NetStep)
FairSpec == Spec /\ Fairness
=============================================================================
