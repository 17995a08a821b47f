------------------------------ MODULE Session ------------------------------
(***************************************************************************)
(* Sessions: how a game gets one, loses it, and learns who else has one    *)
(* (net/server/main.py _handle_incoming, _handle_hello_initial, tick;      *)
(* net/server/state.py accept_peer, expire_stale;                          *)
(* fw_native/src/net/client.cpp do_handshake, run_loop).                   *)
(*                                                                         *)
(* The server knows a client by the address its datagrams come from.  A    *)
(* game reached directly has a new port in every process; one reached      *)
(* through the Steam bridge (fw_launcher/src/net/steam_bridge.cpp) has the *)
(* bridge's socket at the host for address, in every process.              *)
(*                                                                         *)
(* Abstractions.  HELLO is repeated by the channel, DISCONNECT goes out    *)
(* once; each copy arrives late or never, also after its process ended.    *)
(* What the server sends in a session is delivered once, in any order, and *)
(* is lost when the session ends.  Silence of five seconds is a choice,    *)
(* whatever was lost meanwhile.  A net thread that ended is a process that *)
(* ended: nothing restarts it.                                             *)
(***************************************************************************)
EXTENDS Integers

CONSTANTS
  Peer,       \* client ids
  Tunnelled,  \* those whose datagrams come through the Steam bridge
  MaxRuns,    \* bound: processes each client starts
  MaxSids     \* bound: sessions created

ASSUME SessionAssumption ==
  Tunnelled \subseteq Peer /\ MaxRuns \in [Peer -> Nat] /\ MaxSids \in Nat

VARIABLES
  run,      \* processes each client started; the number of the last
  link,     \* its net thread: off, in the handshake, or connected
  chan,     \* the session its receive window follows, 0 if none yet
  ghosts,   \* the peers it has a ghost slot for
  hellos,   \* copies of HELLO on the network
  byes,     \* copies of DISCONNECT on the network
  sids,     \* session ids handed out
  sess,     \* the server's sessions
  heard,    \* sessions heard from in the last five seconds
  post,     \* what the server sent and the client has not received
  crossed   \* ghost: pairs of a session and a peer two notices of which met

vars == <<run, link, chan, ghosts, hellos, byes, sids, sess, heard, post, crossed>>
process == <<run, link, chan, ghosts>>
net == <<hellos, byes>>
server == <<sids, sess, heard, post, crossed>>

----------------------------------------------------------------------------
Run(p) == 1 .. MaxRuns[p]
\* The address the server sees for a process.
AddrOf(p, r) == IF p \in Tunnelled THEN <<p, 0>> ELSE <<p, r>>
Here(p) == AddrOf(p, run[p])
Frame(p, r) == [peer |-> p, run |-> r, addr |-> AddrOf(p, r)]

At(a) == {s \in sess : s.addr = a}
Notice(s, kind, q) == [sid |-> s.sid, addr |-> s.addr, kind |-> kind, about |-> q]
Notices == {"join", "leave"}

\* s is told of q while an older notice of q is still on its way to s.
Meets(s, q) == \E m \in post : m.sid = s.sid /\ m.about = q /\ m.kind \in Notices
Crossing(S, q) == {<<s.sid, q>> : s \in {s \in S : Meets(s, q)}}

\* accept_peer refuses the id of a peer that has a session.
Taken(p) == \E s \in sess : s.peer = p

\* PEER_JOIN for each session that was there, sent to the new one.
BugIntroductions(n) == {}
Introductions(n) == {Notice(n, "join", s.peer) : s \in sess}

\* What is left of heard when s is removed.
BugAlive(s) == heard
Alive(s) == heard \ {s.sid}

\* Any datagram at an address counts as a sign of life of its session.
BugTouch(a) == {s.sid : s \in sess}
Touch(a) == {s.sid : s \in At(a)}

----------------------------------------------------------------------------
Init ==
  /\ run = [p \in Peer |-> 0]
  /\ link = [p \in Peer |-> "off"]
  /\ chan = [p \in Peer |-> 0]
  /\ ghosts = [p \in Peer |-> {}]
  /\ hellos = {} /\ byes = {}
  /\ sids = 0
  /\ sess = {} /\ heard = {} /\ post = {} /\ crossed = {}

(* The client.                                                             *)

\* The game starts and its net thread sends HELLO.
Start(p) ==
  /\ link[p] = "off" /\ run[p] < MaxRuns[p]
  /\ run' = [run EXCEPT ![p] = @ + 1]
  /\ link' = [link EXCEPT ![p] = "hello"]
  /\ hellos' = hellos \cup {Frame(p, run[p] + 1)}
  /\ UNCHANGED <<chan, ghosts, byes, server>>

\* The channel's tick retransmits the HELLO.
Resend(p) ==
  /\ link[p] = "hello"
  /\ hellos' = hellos \cup {Frame(p, run[p])}
  /\ UNCHANGED <<process, byes, server>>

\* The net thread ends; the next process starts with nothing.
End(p) ==
  /\ link' = [link EXCEPT ![p] = "off"]
  /\ chan' = [chan EXCEPT ![p] = 0]
  /\ ghosts' = [ghosts EXCEPT ![p] = {}]
  /\ UNCHANGED run

\* No WELCOME for five seconds.
Timeout(p) == link[p] = "hello" /\ End(p) /\ UNCHANGED <<net, server>>

\* stop(): DISCONNECT goes out once.
Quit(p) ==
  /\ link[p] = "in"
  /\ byes' = byes \cup {Frame(p, run[p])}
  /\ End(p)
  /\ UNCHANGED <<hellos, server>>

\* The process dies, or its channel does.
Crash(p) == link[p] # "off" /\ End(p) /\ UNCHANGED <<net, server>>

\* A frame of a session other than the one the receive window follows may be
\* taken for a repetition: the numbers start again.
Deaf(p, m) == chan[p] \notin {0, m.sid}

Hear(p, m) ==
  /\ chan' = [chan EXCEPT ![p] = IF @ = 0 THEN m.sid ELSE @]
  /\ link' = [link EXCEPT ![p] = IF m.kind = "welcome" THEN "in" ELSE @]
  /\ ghosts' = [ghosts EXCEPT ![p] = CASE m.kind = "join"  -> @ \cup {m.about}
                                       [] m.kind = "leave" -> @ \ {m.about}
                                       [] OTHER -> @]

Receive(p, m) ==
  /\ link[p] # "off" /\ m \in post /\ m.addr = Here(p) /\ m.kind # "reject"
  /\ post' = post \ {m}
  /\ \/ Hear(p, m)
     \/ Deaf(p, m) /\ UNCHANGED <<link, chan, ghosts>>
  /\ UNCHANGED <<run, net, sids, sess, heard, crossed>>

\* A refusal is not part of any session.  The handshake gives up at the first.
Refused(p, m) ==
  /\ link[p] # "off" /\ m \in post /\ m.addr = Here(p) /\ m.kind = "reject"
  /\ post' = post \ {m}
  /\ IF link[p] = "hello" THEN End(p) ELSE UNCHANGED process
  /\ UNCHANGED <<net, sids, sess, heard, crossed>>

\* HEARTBEAT, or anything else, from a connected client.
Heartbeat(p) ==
  /\ link[p] = "in"
  /\ heard' = heard \cup Touch(Here(p))
  /\ UNCHANGED <<process, net, sids, sess, post, crossed>>

(* The server.                                                             *)

\* HELLO from an address that has a session: the window knows number 1.
HelloAgain(h) ==
  /\ h \in hellos /\ At(h.addr) # {}
  /\ heard' = heard \cup Touch(h.addr)
  /\ hellos' = hellos \ {h}
  /\ UNCHANGED <<process, byes, sids, sess, post, crossed>>

\* The datagram is for whoever has the address, if anybody does.
HelloRefused(h) ==
  /\ h \in hellos /\ At(h.addr) = {} /\ Taken(h.peer)
  /\ link[h.peer] # "off" /\ Here(h.peer) = h.addr
  /\ post' = post \cup {[sid |-> 0, addr |-> h.addr, kind |-> "reject", about |-> h.peer]}
  /\ hellos' = hellos \ {h}
  /\ UNCHANGED <<process, byes, sids, sess, heard, crossed>>

Opened(h) == [sid |-> sids + 1, peer |-> h.peer, run |-> h.run, addr |-> h.addr]

\* WELCOME, PEER_JOIN to the others, PEER_JOIN of the others.
Admit(h) ==
  /\ h \in hellos /\ At(h.addr) = {} /\ ~Taken(h.peer) /\ sids < MaxSids
  /\ sids' = sids + 1
  /\ sess' = sess \cup {Opened(h)}
  /\ heard' = heard \cup {sids + 1}
  /\ post' = post \cup {Notice(Opened(h), "welcome", h.peer)} \cup Introductions(Opened(h))
                  \cup {Notice(s, "join", h.peer) : s \in sess}
  /\ crossed' = crossed \cup Crossing(sess, h.peer)
  /\ hellos' = hellos \ {h}
  /\ UNCHANGED <<process, byes>>

\* _remove_and_notify.
Remove(s) ==
  /\ sess' = sess \ {s}
  /\ heard' = Alive(s)
  /\ post' = {m \in post : m.sid # s.sid} \cup {Notice(t, "leave", s.peer) : t \in sess \ {s}}
  /\ crossed' = crossed \cup Crossing(sess \ {s}, s.peer)
  /\ UNCHANGED <<process, sids>>

\* A DISCONNECT reaches the session its address has, unless the window of a
\* later session takes its number for a repetition.
Disconnect(b) ==
  /\ b \in byes
  /\ \E s \in At(b.addr) : Remove(s) /\ byes' = byes \ {b} /\ UNCHANGED hellos

\* tick: five seconds of silence.
Silence(s) ==
  /\ s \in sess /\ s.sid \in heard
  /\ heard' = heard \ {s.sid}
  /\ UNCHANGED <<process, net, sids, sess, post, crossed>>

Expire(s) == s \in sess /\ s.sid \notin heard /\ Remove(s) /\ UNCHANGED net

\* tick: what was sent to s was retransmitted to the limit.
Kick(s) ==
  /\ s \in sess /\ \E m \in post : m.sid = s.sid
  /\ Remove(s) /\ UNCHANGED net

----------------------------------------------------------------------------
ClientStep(p) ==
  \/ Start(p) \/ Resend(p) \/ Quit(p) \/ Crash(p) \/ Heartbeat(p)
  \/ \E m \in post : Receive(p, m) \/ Refused(p, m)

Next ==
  \/ \E p \in Peer : ClientStep(p) \/ Timeout(p)
  \/ \E h \in hellos : HelloAgain(h) \/ HelloRefused(h) \/ Admit(h)
  \/ \E b \in byes : Disconnect(b)
  \/ \E s \in sess : Silence(s) \/ Expire(s) \/ Kick(s)

Spec == Init /\ [][Next]_vars

Of(p) == {s \in sess : s.peer = p}

\* Clocks run on, each session's for itself.
Fairness ==
  /\ WF_vars(\E p \in Peer : Timeout(p))
  /\ \A p \in Peer : WF_vars(\E s \in Of(p) : Silence(s))
  /\ WF_vars(\E s \in sess : Expire(s))
FairSpec == Spec /\ Fairness
=============================================================================
