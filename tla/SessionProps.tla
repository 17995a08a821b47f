---------------------------- MODULE SessionProps ----------------------------
(***************************************************************************)
(* What must hold of sessions, and of what players are told about them.    *)
(***************************************************************************)
EXTENDS Session

Addr == Peer \X Nat
Kind == {"welcome", "reject"} \cup Notices

TypeOK ==
  /\ run \in [Peer -> Nat]
  /\ link \in [Peer -> {"off", "hello", "in"}]
  /\ chan \in [Peer -> 0 .. sids]
  /\ ghosts \in [Peer -> SUBSET Peer]
  /\ hellos \cup byes \subseteq [peer : Peer, run : Nat, addr : Addr]
  /\ sids \in 0 .. MaxSids
  /\ sess \subseteq [sid : 1 .. sids, peer : Peer, run : Nat, addr : Addr]
  /\ heard \subseteq {s.sid : s \in sess}
  /\ post \subseteq [sid : 0 .. sids, addr : Addr, kind : Kind, about : Peer]
  /\ crossed \subseteq (1 .. sids) \X Peer

\* A player is in the world once: no two sessions have one id, one name or one
\* address, however often a game restarts and whatever frames of its earlier
\* processes are still about.
OnePlaceEach ==
  \A s, t \in sess : s.sid = t.sid \/ s.peer = t.peer \/ s.addr = t.addr => s = t

Present(q) == \E s \in sess : s.peer = q

\* Players see who is there: a client that has received all there is about q in
\* its own session has a ghost of q exactly if q has a session, unless a notice
\* of q was sent before an older one had arrived.
GhostsFaithful ==
  \A p \in Peer : \A s \in At(Here(p)) : \A q \in Peer \ {p} :
    (/\ link[p] = "in" /\ chan[p] = s.sid /\ s.run = run[p]
     /\ ~Meets(s, q) /\ <<s.sid, q>> \notin crossed)
    => (q \in ghosts[p] <=> Present(q))

\* A name is not kept by a session nobody is in: the game that has the name is
\* connected later, or the name is free again.
AbandonedEnds ==
  \A p \in Peer : (Present(p) /\ link[p] # "in") ~> (~Present(p) \/ link[p] = "in")
=============================================================================
