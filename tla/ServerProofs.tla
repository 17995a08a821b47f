---------------------------- MODULE ServerProofs ----------------------------
(***************************************************************************)
(* Proofs about what the server keeps of its own: first the sessions, that *)
(* is types, one place for each player and ghosts that show who is there;  *)
(* then the snapshots on disk, that is types, the newest snapshot and the  *)
(* rolling history.  The two share no state; a name that starts with Disk  *)
(* is of the second part.                                                  *)
(***************************************************************************)
EXTENDS SessionProps, PersistenceProps, TLAPS

----------------------------------------------------------------------------
(* The inductive invariant.                                                *)

\* Every frame and session carries the address of the process it is of, and no
\* process that has not started yet.
Stamped ==
  /\ \A s \in sess : s.addr = AddrOf(s.peer, s.run) /\ s.run <= run[s.peer]
  /\ \A h \in hellos : h.addr = AddrOf(h.peer, h.run) /\ h.run <= run[h.peer]

\* What is on its way belongs to a session that is still there.
Posted ==
  \A m \in post :
    m.kind # "reject" => \E s \in sess : s.sid = m.sid /\ s.addr = m.addr

\* A client that has received nothing shows nobody.
Blank == \A p \in Peer : chan[p] = 0 => ghosts[p] = {}

\* s is the session of the process p runs, and p listens to it.
Attached(p, s) ==
  s.peer = p /\ s.run = run[p] /\ link[p] # "off" /\ chan[p] \in {0, s.sid}

Coming(s, kind, q) == \E m \in post : m.sid = s.sid /\ m.about = q /\ m.kind = kind

\* The last notice sent to s about q, if it did not meet an older one, tells
\* whether q has a session; once it is received the ghost does.
Told ==
  \A p \in Peer : \A s \in sess : \A q \in Peer \ {p} :
    Attached(p, s) /\ <<s.sid, q>> \notin crossed =>
      /\ Coming(s, "join", q) => Present(q)
      /\ Coming(s, "leave", q) => ~Present(q)
      /\ ~Meets(s, q) => (q \in ghosts[p] <=> Present(q))

IInv == TypeOK /\ Stamped /\ OnePlaceEach /\ Posted /\ Blank /\ Told

----------------------------------------------------------------------------
(* Types.                                                                  *)

LEMMA FrameType ==
  ASSUME SessionAssumption, NEW p \in Peer, NEW r \in Nat
  PROVE  /\ AddrOf(p, r) \in Addr /\ AddrOf(p, r)[1] = p
         /\ Frame(p, r) \in [peer : Peer, run : Nat, addr : Addr]
BY DEF AddrOf, Frame, Addr

LEMMA TypeInit == SessionAssumption /\ Init => TypeOK
BY DEF SessionAssumption, Init, TypeOK

\* A process that ends.
LEMMA TypeEnd ==
  ASSUME TypeOK, NEW p \in Peer, End(p), byes' \subseteq byes \cup {Frame(p, run[p])},
         Frame(p, run[p]) \in [peer : Peer, run : Nat, addr : Addr],
         UNCHANGED <<hellos, sids, sess, heard, crossed>>, post' \subseteq post
  PROVE  TypeOK'
<1>1. /\ run' \in [Peer -> Nat] /\ link' \in [Peer -> {"off", "hello", "in"}]
      /\ chan' \in [Peer -> 0 .. sids'] /\ ghosts' \in [Peer -> SUBSET Peer]
  BY DEF TypeOK, End
<1>2. hellos' \cup byes' \subseteq [peer : Peer, run : Nat, addr : Addr]
  BY DEF TypeOK
<1> QED BY <1>1, <1>2 DEF TypeOK

LEMMA TypeRemove ==
  ASSUME TypeOK, NEW s \in sess, Remove(s), hellos' = hellos, byes' \subseteq byes
  PROVE  TypeOK'
<1>1. sess' \subseteq [sid : 1 .. sids', peer : Peer, run : Nat, addr : Addr]
  BY DEF TypeOK, Remove
<1>2. heard' \subseteq {t.sid : t \in sess'}
  BY DEF TypeOK, Remove, Alive
<1>3. \A t \in sess : Notice(t, "leave", s.peer)
                      \in [sid : 0 .. sids, addr : Addr, kind : Kind, about : Peer]
  BY DEF TypeOK, Notice, Kind, Notices
<1>4. post' \subseteq [sid : 0 .. sids', addr : Addr, kind : Kind, about : Peer]
  BY <1>3 DEF TypeOK, Remove
<1>5. crossed' \subseteq (1 .. sids') \X Peer
  BY DEF TypeOK, Remove, Crossing
<1>6. /\ run' \in [Peer -> Nat] /\ link' \in [Peer -> {"off", "hello", "in"}]
      /\ chan' \in [Peer -> 0 .. sids'] /\ ghosts' \in [Peer -> SUBSET Peer]
      /\ sids' \in 0 .. MaxSids
  BY DEF TypeOK, Remove, process
<1>7. hellos' \cup byes' \subseteq [peer : Peer, run : Nat, addr : Addr]
  BY DEF TypeOK
<1> QED BY <1>1, <1>2, <1>4, <1>5, <1>6, <1>7 DEF TypeOK

LEMMA TypeAdmit ==
  ASSUME SessionAssumption, TypeOK, NEW h \in hellos, Admit(h)
  PROVE  TypeOK'
<1>0. /\ h \in [peer : Peer, run : Nat, addr : Addr]
      /\ sids \in Nat /\ sids' = sids + 1 /\ sids' \in 0 .. MaxSids
  BY DEF TypeOK, Admit, SessionAssumption
<1>1. Opened(h) \in [sid : 1 .. sids', peer : Peer, run : Nat, addr : Addr]
  BY <1>0 DEF Opened
<1>2. sess' \subseteq [sid : 1 .. sids', peer : Peer, run : Nat, addr : Addr]
  BY <1>0, <1>1 DEF TypeOK, Admit
<1>3. heard' \subseteq {t.sid : t \in sess'}
  BY DEF TypeOK, Admit, Opened
<1>4. \A t \in sess' : \A k \in Kind : \A q \in Peer :
        Notice(t, k, q) \in [sid : 0 .. sids', addr : Addr, kind : Kind, about : Peer]
  BY <1>0, <1>2 DEF Notice
<1>5. {Notice(Opened(h), "welcome", h.peer)} \cup Introductions(Opened(h))
        \subseteq [sid : 0 .. sids', addr : Addr, kind : Kind, about : Peer]
  <2>1. Opened(h) \in sess' /\ sess \subseteq sess' /\ h.peer \in Peer
    BY <1>0 DEF Admit
  <2>2. \A t \in sess : t.peer \in Peer
    BY DEF TypeOK
  <2> QED BY <1>4, <2>1, <2>2 DEF Introductions, Kind, Notices
<1>6. {Notice(s, "join", h.peer) : s \in sess}
        \subseteq [sid : 0 .. sids', addr : Addr, kind : Kind, about : Peer]
  BY <1>0, <1>4 DEF Admit, Kind, Notices
<1>7. post \subseteq [sid : 0 .. sids', addr : Addr, kind : Kind, about : Peer]
  BY <1>0 DEF TypeOK
<1>8. post' \subseteq [sid : 0 .. sids', addr : Addr, kind : Kind, about : Peer]
  BY <1>5, <1>6, <1>7 DEF Admit
<1>9. crossed' \subseteq (1 .. sids') \X Peer
  BY <1>0 DEF TypeOK, Admit, Crossing
<1>10. /\ run' \in [Peer -> Nat] /\ link' \in [Peer -> {"off", "hello", "in"}]
       /\ chan' \in [Peer -> 0 .. sids'] /\ ghosts' \in [Peer -> SUBSET Peer]
  BY <1>0 DEF TypeOK, Admit, process
<1>11. hellos' \cup byes' \subseteq [peer : Peer, run : Nat, addr : Addr]
  BY DEF TypeOK, Admit
<1> QED BY <1>0, <1>2, <1>3, <1>8, <1>9, <1>10, <1>11 DEF TypeOK

LEMMA TypeReceive ==
  ASSUME TypeOK, NEW p \in Peer, NEW m \in post, Receive(p, m)
  PROVE  TypeOK'
<1>1. /\ m.sid \in 0 .. sids /\ m.about \in Peer
      /\ UNCHANGED <<run, hellos, byes, sids, sess, heard, crossed>> /\ post' = post \ {m}
  BY DEF TypeOK, Receive, net
<1>2. /\ link' \in [Peer -> {"off", "hello", "in"}]
      /\ chan' \in [Peer -> 0 .. sids]
  BY <1>1 DEF TypeOK, Receive, Hear
<1>3. ghosts' \in [Peer -> SUBSET Peer]
  BY <1>1 DEF TypeOK, Receive, Hear
<1> QED BY <1>1, <1>2, <1>3 DEF TypeOK

LEMMA TypeStep == SessionAssumption /\ TypeOK /\ [Next]_vars => TypeOK'
<1> SUFFICES ASSUME SessionAssumption, TypeOK, [Next]_vars
             PROVE  TypeOK'
  OBVIOUS
<1>0. \A p \in Peer : run[p] \in Nat /\ Frame(p, run[p]) \in [peer : Peer, run : Nat, addr : Addr]
                     /\ Frame(p, run[p] + 1) \in [peer : Peer, run : Nat, addr : Addr]
  <2> SUFFICES ASSUME NEW p \in Peer
               PROVE  /\ run[p] \in Nat
                      /\ Frame(p, run[p]) \in [peer : Peer, run : Nat, addr : Addr]
                      /\ Frame(p, run[p] + 1) \in [peer : Peer, run : Nat, addr : Addr]
    OBVIOUS
  <2>1. run[p] \in Nat /\ run[p] + 1 \in Nat
    BY DEF TypeOK
  <2> QED BY <2>1, FrameType
<1>1. ASSUME NEW p \in Peer, Start(p) PROVE TypeOK'
  BY <1>0, <1>1 DEF TypeOK, Start, server
<1>2. ASSUME NEW p \in Peer, Resend(p) PROVE TypeOK'
  BY <1>0, <1>2 DEF TypeOK, Resend, process, server
<1>3. ASSUME NEW p \in Peer, Quit(p) PROVE TypeOK'
  BY <1>0, <1>3, TypeEnd DEF Quit, server
<1>4. ASSUME NEW p \in Peer, Crash(p) \/ Timeout(p) PROVE TypeOK'
  BY <1>0, <1>4, TypeEnd DEF Crash, Timeout, server, net
<1>5. ASSUME NEW p \in Peer, Heartbeat(p) PROVE TypeOK'
  BY <1>5 DEF TypeOK, Heartbeat, process, net, Touch, At
<1>6. ASSUME NEW p \in Peer, NEW m \in post, Receive(p, m) PROVE TypeOK'
  BY <1>6, TypeReceive
<1>7. ASSUME NEW p \in Peer, NEW m \in post, Refused(p, m) PROVE TypeOK'
  <2>1. CASE link[p] = "hello"
    BY <1>0, <1>7, <2>1, TypeEnd DEF Refused, net
  <2>2. CASE link[p] # "hello"
    BY <1>7, <2>2 DEF TypeOK, Refused, net, process
  <2> QED BY <2>1, <2>2
<1>8. ASSUME NEW h \in hellos, HelloAgain(h) PROVE TypeOK'
  BY <1>8 DEF TypeOK, HelloAgain, process, Touch, At
<1>9. ASSUME NEW h \in hellos, HelloRefused(h) PROVE TypeOK'
  <2>1. [sid |-> 0, addr |-> h.addr, kind |-> "reject", about |-> h.peer]
          \in [sid : 0 .. sids, addr : Addr, kind : Kind, about : Peer]
    BY DEF TypeOK, Kind
  <2> QED BY <1>9, <2>1 DEF TypeOK, HelloRefused, process
<1>10. ASSUME NEW h \in hellos, Admit(h) PROVE TypeOK'
  BY <1>10, TypeAdmit
<1>11. ASSUME NEW b \in byes, Disconnect(b) PROVE TypeOK'
  BY <1>11, TypeRemove DEF Disconnect, At
<1>12. ASSUME NEW s \in sess, Silence(s) PROVE TypeOK'
  BY <1>12 DEF TypeOK, Silence, process, net
<1>13. ASSUME NEW s \in sess, Expire(s) \/ Kick(s) PROVE TypeOK'
  BY <1>13, TypeRemove DEF Expire, Kick, net
<1>14. CASE UNCHANGED vars
  BY <1>14 DEF TypeOK, vars
<1> QED
  BY <1>1, <1>2, <1>3, <1>4, <1>5, <1>6, <1>7, <1>8, <1>9, <1>10, <1>11, <1>12, <1>13, <1>14
  DEF Next, ClientStep

\* Every variable keeps its type.
THEOREM TypeCorrect == Spec => []TypeOK
<1>1. Init => TypeOK
  BY SessionAssumption, TypeInit
<1>2. TypeOK /\ [Next]_vars => TypeOK'
  BY SessionAssumption, TypeStep
<1> QED BY <1>1, <1>2, PTL DEF Spec

----------------------------------------------------------------------------
(* One place for each player.                                              *)

\* What a step does to the server's sessions.
Quiet == UNCHANGED <<sids, sess>>
Opens == \E h \in hellos : Admit(h)
Closes == \E s \in sess : Remove(s) /\ UNCHANGED hellos

LEMMA ThreeWays == TypeOK /\ [Next]_vars => Quiet \/ Opens \/ Closes
BY DEF Next, ClientStep, vars, Quiet, Opens, Closes, Start, Resend, Quit, Crash, Timeout, End,
       Heartbeat, Receive, Refused, HelloAgain, HelloRefused, Disconnect, At, Silence, Expire,
       Kick, server, net

LEMMA PlaceStep == TypeOK /\ OnePlaceEach /\ [Next]_vars => OnePlaceEach'
<1> SUFFICES ASSUME TypeOK, OnePlaceEach, [Next]_vars
             PROVE  OnePlaceEach'
  OBVIOUS
<1>1. CASE Quiet
  BY <1>1 DEF Quiet, OnePlaceEach
<1>2. ASSUME NEW h \in hellos, Admit(h) PROVE OnePlaceEach'
  <2>1. sess' = sess \cup {Opened(h)} /\ sids \in Nat
    BY <1>2 DEF Admit, TypeOK
  <2>2. ASSUME NEW s \in sess
        PROVE  s.sid # Opened(h).sid /\ s.peer # Opened(h).peer /\ s.addr # Opened(h).addr
    <3>1. s.sid \in 1 .. sids
      BY DEF TypeOK
    <3>2. s.peer # h.peer /\ s.addr # h.addr
      BY <1>2 DEF Admit, Taken, At
    <3> QED BY <2>1, <3>1, <3>2 DEF Opened
  <2> QED BY <2>1, <2>2 DEF OnePlaceEach
<1>3. CASE Closes
  BY <1>3 DEF Closes, Remove, OnePlaceEach
<1> QED BY <1>1, <1>2, <1>3, ThreeWays DEF Opens

\* A player is in the world once.
THEOREM OnePlace == Spec => []OnePlaceEach
<1>1. Init => OnePlaceEach
  BY DEF Init, OnePlaceEach
<1>2. TypeOK /\ OnePlaceEach /\ [Next]_vars => OnePlaceEach'
  BY PlaceStep
<1> QED BY <1>1, <1>2, TypeCorrect, PTL DEF Spec

----------------------------------------------------------------------------
(* Frames, sessions and what is on its way.                                *)

LEMMA StampedStep == TypeOK /\ Stamped /\ [Next]_vars => Stamped'
<1> SUFFICES ASSUME TypeOK, Stamped, [Next]_vars
             PROVE  Stamped'
  OBVIOUS
<1>0. \A p \in Peer : run[p] \in Nat
  BY DEF TypeOK
<1>a. (\A s \in sess : s.peer \in Peer /\ s.run \in Nat) /\ (\A h \in hellos : h.peer \in Peer /\ h.run \in Nat)
  BY DEF TypeOK
<1>1. ASSUME NEW p \in Peer, Start(p) PROVE Stamped'
  <2>1. /\ sess' = sess /\ hellos' = hellos \cup {Frame(p, run[p] + 1)}
        /\ run' \in [Peer -> Nat] /\ run'[p] = run[p] + 1
        /\ \A q \in Peer : run[q] <= run'[q]
    BY <1>0, <1>1 DEF Start, server, TypeOK
  <2>2. \A s \in sess' : s.addr = AddrOf(s.peer, s.run) /\ s.run <= run'[s.peer]
    BY <1>0, <1>a, <2>1 DEF Stamped, TypeOK
  <2>3. \A h \in hellos' : h.addr = AddrOf(h.peer, h.run) /\ h.run <= run'[h.peer]
    BY <1>0, <1>a, <2>1 DEF Stamped, TypeOK, Frame
  <2> QED BY <2>2, <2>3 DEF Stamped, AddrOf
<1>2. ASSUME NEW p \in Peer, Resend(p) PROVE Stamped'
  BY <1>0, <1>2 DEF Resend, process, server, Stamped, Frame, AddrOf
<1>3. ASSUME NEW h \in hellos, Admit(h) PROVE Stamped'
  BY <1>3 DEF Admit, process, Opened, Stamped, AddrOf
<1>4. CASE run' = run /\ sess' \subseteq sess /\ hellos' \subseteq hellos
  BY <1>4 DEF Stamped, AddrOf
<1>5. ASSUME NEW p \in Peer, Quit(p) \/ Crash(p) \/ Timeout(p) PROVE Stamped'
  BY <1>4, <1>5 DEF Quit, Crash, Timeout, End, server, net
<1>6. ASSUME NEW p \in Peer, NEW m \in post, Receive(p, m) \/ Refused(p, m) PROVE Stamped'
  BY <1>4, <1>6 DEF Receive, Refused, End, net, process
<1>7. ASSUME NEW p \in Peer, Heartbeat(p) PROVE Stamped'
  BY <1>4, <1>7 DEF Heartbeat, process, net
<1>8. ASSUME NEW h \in hellos, HelloAgain(h) \/ HelloRefused(h) PROVE Stamped'
  BY <1>4, <1>8 DEF HelloAgain, HelloRefused, process
<1>9. ASSUME NEW s \in sess, Remove(s), hellos' = hellos PROVE Stamped'
  BY <1>4, <1>9 DEF Remove, process
<1>10. ASSUME NEW s \in sess, Silence(s) PROVE Stamped'
  BY <1>4, <1>10 DEF Silence, process, net
<1>11. CASE UNCHANGED vars
  BY <1>4, <1>11 DEF vars
<1> QED
  BY <1>1, <1>2, <1>3, <1>5, <1>6, <1>7, <1>8, <1>9, <1>10, <1>11
  DEF Next, ClientStep, Disconnect, At, Expire, Kick, net

LEMMA PostedStep == TypeOK /\ OnePlaceEach /\ Posted /\ [Next]_vars => Posted'
<1> SUFFICES ASSUME TypeOK, OnePlaceEach, Posted, [Next]_vars
             PROVE  Posted'
  OBVIOUS
<1>1. CASE sess' = sess /\ \A m \in post' : m \in post \/ m.kind = "reject"
  BY <1>1 DEF Posted
<1>2. ASSUME NEW h \in hellos, Admit(h) PROVE Posted'
  <2>1. ASSUME NEW m \in post', m.kind # "reject"
        PROVE  \E s \in sess' : s.sid = m.sid /\ s.addr = m.addr
    <3>1. sess' = sess \cup {Opened(h)}
      BY <1>2 DEF Admit
    <3>2. CASE m \in post
      BY <2>1, <3>1, <3>2 DEF Posted
    <3>3. CASE \E s \in sess', k \in Kind, q \in Peer : m = Notice(s, k, q)
      BY <3>3 DEF Notice
    <3>4. CASE m = Notice(Opened(h), "welcome", h.peer)
      BY <3>1, <3>4 DEF Notice
    <3>5. CASE m \in Introductions(Opened(h))
      BY <3>1, <3>5 DEF Introductions, Notice
    <3>6. CASE m \in {Notice(s, "join", h.peer) : s \in sess}
      BY <3>1, <3>6 DEF Notice
    <3> QED BY <1>2, <3>2, <3>4, <3>5, <3>6 DEF Admit
  <2> QED BY <2>1 DEF Posted
<1>3. ASSUME NEW s \in sess, Remove(s) PROVE Posted'
  <2>1. ASSUME NEW m \in post', m.kind # "reject"
        PROVE  \E t \in sess' : t.sid = m.sid /\ t.addr = m.addr
    <3>1. sess' = sess \ {s}
      BY <1>3 DEF Remove
    <3>2. CASE m \in post /\ m.sid # s.sid
      BY <2>1, <3>1, <3>2 DEF Posted
    <3>3. CASE m \in {Notice(t, "leave", s.peer) : t \in sess \ {s}}
      BY <3>1, <3>3 DEF Notice
    <3> QED BY <1>3, <3>2, <3>3 DEF Remove
  <2> QED BY <2>1 DEF Posted
<1>4. ASSUME NEW h \in hellos, HelloRefused(h) PROVE Posted'
  BY <1>1, <1>4 DEF HelloRefused
<1>5. CASE Quiet /\ post' \subseteq post
  BY <1>1, <1>5 DEF Quiet
<1> QED
  BY <1>2, <1>3, <1>4, <1>5
  DEF Next, ClientStep, vars, Quiet, Start, Resend, Quit, Crash, Timeout, End, Heartbeat, Receive,
      Refused, HelloAgain, Disconnect, At, Silence, Expire, Kick, server, net

LEMMA BlankStep == TypeOK /\ Posted /\ Blank /\ [Next]_vars => Blank'
<1> SUFFICES ASSUME TypeOK, Posted, Blank, [Next]_vars
             PROVE  Blank'
  OBVIOUS
<1>1. CASE UNCHANGED <<chan, ghosts>>
  BY <1>1 DEF Blank
<1>2. ASSUME NEW p \in Peer, End(p) PROVE Blank'
  BY <1>2 DEF End, Blank, TypeOK
<1>3. ASSUME NEW p \in Peer, NEW m \in post, Receive(p, m) PROVE Blank'
  <2>1. m.sid \in 1 .. sids
    BY <1>3 DEF Receive, Posted, TypeOK
  <2>2. \A q \in Peer : chan'[q] = 0 => chan[q] = 0 /\ ghosts'[q] = ghosts[q]
    BY <1>3, <2>1 DEF Receive, Hear, TypeOK
  <2> QED BY <2>2 DEF Blank
<1> QED
  BY <1>1, <1>2, <1>3
  DEF Next, ClientStep, vars, Start, Resend, Quit, Crash, Timeout, Heartbeat, Refused, HelloAgain,
      HelloRefused, Admit, Remove, Disconnect, At, Silence, Expire, Kick, process, server, net

----------------------------------------------------------------------------
(* Players see who is there.                                               *)

\* A step that neither sends nor delivers a notice.
LEMMA ToldKept ==
  ASSUME TypeOK, Told, UNCHANGED <<sess, crossed>>,
         \A m : m.kind \in Notices => (m \in post <=> m \in post'),
         \A p \in Peer : \A s \in sess : Attached(p, s)' => Attached(p, s) /\ ghosts'[p] = ghosts[p]
  PROVE  Told'
<1> SUFFICES ASSUME NEW p \in Peer, NEW s \in sess, NEW q \in Peer \ {p},
                    Attached(p, s)', <<s.sid, q>> \notin crossed
             PROVE  /\ Coming(s, "join", q)' => Present(q)'
                    /\ Coming(s, "leave", q)' => ~Present(q)'
                    /\ ~Meets(s, q)' => (q \in ghosts'[p] <=> Present(q)')
  BY DEF Told
<1>1. Present(q)' <=> Present(q)
  BY DEF Present
<1>2. (Coming(s, "join", q)' <=> Coming(s, "join", q)) /\ (Coming(s, "leave", q)' <=> Coming(s, "leave", q))
  BY DEF Coming, Notices
<1>3. Meets(s, q)' <=> Meets(s, q)
  BY DEF Meets
<1>4. ghosts'[p] = ghosts[p]
  OBVIOUS
<1> QED BY <1>1, <1>2, <1>3, <1>4 DEF Told

\* A notice is received.
LEMMA ToldReceive ==
  ASSUME TypeOK, Stamped, OnePlaceEach, Posted, Told,
         NEW o \in Peer, NEW m \in post, Receive(o, m)
  PROVE  Told'
<1> SUFFICES ASSUME NEW p \in Peer, NEW s \in sess, NEW q \in Peer \ {p},
                    Attached(p, s)', <<s.sid, q>> \notin crossed
             PROVE  /\ Coming(s, "join", q)' => Present(q)'
                    /\ Coming(s, "leave", q)' => ~Present(q)'
                    /\ ~Meets(s, q)' => (q \in ghosts'[p] <=> Present(q)')
  BY DEF Told, Receive
<1>1. /\ UNCHANGED <<sess, run, crossed>> /\ post' = post \ {m}
      /\ link[o] # "off" /\ m.kind # "reject" /\ m.addr = Here(o)
  BY DEF Receive
<1>2. PICK t \in sess : t.sid = m.sid /\ t.addr = m.addr
  BY <1>1 DEF Posted
<1>3. t.peer = o
  <2>1. t.addr = AddrOf(t.peer, t.run) /\ t.addr = AddrOf(o, run[o])
    BY <1>1, <1>2 DEF Stamped, Here
  <2>2. AddrOf(t.peer, t.run)[1] = t.peer /\ AddrOf(o, run[o])[1] = o
    BY DEF AddrOf
  <2> QED BY <2>1, <2>2
<1>4. (Coming(s, "join", q)' => Coming(s, "join", q)) /\ (Coming(s, "leave", q)' => Coming(s, "leave", q))
  BY <1>1 DEF Coming
<1>5. Present(q)' <=> Present(q)
  BY <1>1 DEF Present
<1>6. CASE p # o
  <2>1. Attached(p, s) /\ ghosts'[p] = ghosts[p]
    BY <1>6 DEF Attached, Receive, Hear, TypeOK
  <2>2. m.sid # s.sid
    BY <1>2, <1>3, <1>6 DEF OnePlaceEach, Attached
  <2>3. Meets(s, q)' <=> Meets(s, q)
    BY <1>1, <2>2 DEF Meets
  <2> QED BY <1>4, <1>5, <2>1, <2>3 DEF Told
<1>7. CASE p = o
  <2>1. s = t
    BY <1>3, <1>7 DEF OnePlaceEach, Attached
  <2>2. chan[p] \in {0, s.sid} /\ Hear(p, m)
    BY <1>2, <1>7, <2>1 DEF Receive, Hear, Deaf, Attached, TypeOK
  <2>3. Attached(p, s)
    BY <1>1, <1>7, <2>2 DEF Attached
  <2>4. /\ Coming(s, "join", q) => Present(q)
        /\ Coming(s, "leave", q) => ~Present(q)
        /\ ~Meets(s, q) => (q \in ghosts[p] <=> Present(q))
    BY <2>3 DEF Told
  <2>5. ghosts'[p] = CASE m.kind = "join"  -> ghosts[p] \cup {m.about}
                       [] m.kind = "leave" -> ghosts[p] \ {m.about}
                       [] OTHER -> ghosts[p]
    BY <2>2 DEF Hear, TypeOK
  <2>6. CASE m.kind \in Notices /\ m.about = q
    <3>1. m.kind = "join" => Present(q)
      BY <1>2, <2>1, <2>4, <2>6 DEF Coming
    <3>2. m.kind = "leave" => ~Present(q)
      BY <1>2, <2>1, <2>4, <2>6 DEF Coming
    <3>3. q \in ghosts'[p] <=> Present(q)
      BY <2>5, <2>6, <3>1, <3>2 DEF Notices
    <3> QED BY <1>4, <1>5, <2>4, <3>3
  <2>7. CASE ~(m.kind \in Notices /\ m.about = q)
    <3>1. Meets(s, q)' <=> Meets(s, q)
      BY <1>1, <2>7 DEF Meets
    <3>2. q \in ghosts'[p] <=> q \in ghosts[p]
      BY <2>5, <2>7 DEF Notices
    <3> QED BY <1>4, <1>5, <2>4, <3>1, <3>2
  <2> QED BY <2>6, <2>7
<1> QED BY <1>6, <1>7

\* A session opens.
LEMMA ToldAdmit ==
  ASSUME TypeOK, Stamped, OnePlaceEach, Posted, Blank, Told, NEW h \in hellos, Admit(h)
  PROVE  Told'
<1> SUFFICES ASSUME NEW p \in Peer, NEW s \in sess', NEW q \in Peer \ {p},
                    Attached(p, s)', <<s.sid, q>> \notin crossed'
             PROVE  /\ Coming(s, "join", q)' => Present(q)'
                    /\ Coming(s, "leave", q)' => ~Present(q)'
                    /\ ~Meets(s, q)' => (q \in ghosts'[p] <=> Present(q)')
  BY DEF Told
<1> DEFINE n == Opened(h)
           ws == {Notice(n, "welcome", h.peer)}
           js == {Notice(t, "join", h.peer) : t \in sess}
<1>1. /\ sess' = sess \cup {n} /\ post' = post \cup ws \cup Introductions(n) \cup js
      /\ UNCHANGED <<run, link, chan, ghosts>> /\ ~Taken(h.peer) /\ sids \in Nat
      /\ n.sid = sids + 1 /\ n.peer = h.peer
      /\ crossed' = crossed \cup Crossing(sess, h.peer)
  BY DEF Admit, process, Opened, TypeOK
<1>2. \A t \in sess : t.sid # n.sid /\ t.sid \in 1 .. sids
  BY <1>1 DEF TypeOK
<1>3. \A m \in ws : m.kind = "welcome"
  BY DEF Notice
<1>4. \A m \in Introductions(n) : m.kind = "join" /\ m.sid = n.sid /\ \E t \in sess : m.about = t.peer
  BY DEF Introductions, Notice
<1>5. \A m \in js : m.kind = "join" /\ m.about = h.peer /\ \E t \in sess : m.sid = t.sid
  BY DEF Notice
<1>6. Present(q)' <=> Present(q) \/ q = h.peer
  BY <1>1 DEF Present
<1>7. CASE s \in sess
  <2>1. Attached(p, s) /\ <<s.sid, q>> \notin crossed
    BY <1>1 DEF Attached
  <2>2. /\ Coming(s, "join", q) => Present(q)
        /\ Coming(s, "leave", q) => ~Present(q)
        /\ ~Meets(s, q) => (q \in ghosts[p] <=> Present(q))
    BY <1>7, <2>1 DEF Told
  <2>3. CASE q = h.peer
    <3>1. ~Meets(s, q)
      BY <1>1, <1>7, <2>3 DEF Crossing
    <3>2. \A m \in post' : m.sid = s.sid /\ m.about = q /\ m.kind \in Notices => m.kind = "join"
      <4> SUFFICES ASSUME NEW m \in post', m.sid = s.sid, m.about = q, m.kind \in Notices
                   PROVE  m.kind = "join"
        OBVIOUS
      <4>1. m \notin post
        BY <3>1 DEF Meets
      <4>2. m \in ws \/ m \in Introductions(n) \/ m \in js
        BY <1>1, <4>1
      <4>3. m \notin ws
        BY <1>3 DEF Notices
      <4> QED BY <1>4, <1>5, <4>2, <4>3
    <3>3. Notice(s, "join", q) \in post'
      BY <1>1, <1>7, <2>3
    <3>4. Meets(s, q)'
      BY <3>3 DEF Meets, Notice, Notices
    <3>5. ~Coming(s, "leave", q)'
      BY <3>2 DEF Coming, Notices
    <3> QED BY <1>6, <2>3, <3>4, <3>5
  <2>4. CASE q # h.peer
    <3>1. \A m \in post' : m.sid = s.sid /\ m.about = q /\ m.kind \in Notices => m \in post
      BY <1>1, <1>2, <1>3, <1>4, <1>5, <1>7, <2>4 DEF Notices
    <3>2. Meets(s, q)' <=> Meets(s, q)
      BY <1>1, <3>1 DEF Meets
    <3>3. (Coming(s, "join", q)' => Coming(s, "join", q)) /\ (Coming(s, "leave", q)' => Coming(s, "leave", q))
      BY <3>1 DEF Coming, Notices
    <3> QED BY <1>1, <1>6, <2>2, <2>4, <3>2, <3>3
  <2> QED BY <2>3, <2>4
<1>8. CASE s = n
  <2>1. chan[p] = 0 /\ ghosts[p] = {}
    BY <1>1, <1>8 DEF Attached, TypeOK, Blank
  <2>2. q # h.peer
    BY <1>1, <1>8 DEF Attached
  <2>3. \A m \in post : m.sid = n.sid => m.kind = "reject"
    BY <1>2 DEF Posted
  <2>4. \A m \in post' : m.sid = n.sid /\ m.kind \in Notices => m \in Introductions(n)
    BY <1>1, <1>2, <1>3, <1>5, <2>3 DEF Notices
  <2>5. \A m \in post' : m.sid = n.sid /\ m.kind \in Notices => m.kind = "join" /\ Present(m.about)
    BY <1>4, <2>4 DEF Present
  <2>6. Present(q) => Meets(s, q)'
    <3>1. ASSUME NEW t \in sess, t.peer = q
          PROVE  Meets(s, q)'
      <4>1. Notice(n, "join", t.peer) \in post'
        BY <1>1 DEF Introductions
      <4> QED BY <1>8, <3>1, <4>1 DEF Meets, Notice, Notices
    <3> QED BY <3>1 DEF Present
  <2>7. /\ Coming(s, "join", q)' => Present(q)
        /\ ~Coming(s, "leave", q)'
    BY <1>8, <2>5 DEF Coming, Notices
  <2> QED BY <1>1, <1>6, <2>1, <2>2, <2>6, <2>7
<1> QED BY <1>1, <1>7, <1>8

\* A session ends.
LEMMA ToldRemove ==
  ASSUME TypeOK, OnePlaceEach, Told, NEW x \in sess, Remove(x)
  PROVE  Told'
<1> SUFFICES ASSUME NEW p \in Peer, NEW s \in sess', NEW q \in Peer \ {p},
                    Attached(p, s)', <<s.sid, q>> \notin crossed'
             PROVE  /\ Coming(s, "join", q)' => Present(q)'
                    /\ Coming(s, "leave", q)' => ~Present(q)'
                    /\ ~Meets(s, q)' => (q \in ghosts'[p] <=> Present(q)')
  BY DEF Told
<1> DEFINE ls == {Notice(t, "leave", x.peer) : t \in sess \ {x}}
<1>1. /\ sess' = sess \ {x} /\ post' = {m \in post : m.sid # x.sid} \cup ls
      /\ UNCHANGED <<run, link, chan, ghosts>>
      /\ crossed' = crossed \cup Crossing(sess \ {x}, x.peer)
  BY DEF Remove, process
<1>2. \A m \in ls : m.kind = "leave" /\ m.about = x.peer
  BY DEF Notice
<1>3. s \in sess /\ s # x /\ s.sid # x.sid
  BY <1>1 DEF OnePlaceEach
<1>4. Attached(p, s) /\ <<s.sid, q>> \notin crossed
  BY <1>1 DEF Attached
<1>5. /\ Coming(s, "join", q) => Present(q)
      /\ Coming(s, "leave", q) => ~Present(q)
      /\ ~Meets(s, q) => (q \in ghosts[p] <=> Present(q))
  BY <1>3, <1>4 DEF Told
<1>6. CASE q = x.peer
  <2>1. ~Present(q)'
    BY <1>1, <1>6 DEF Present, OnePlaceEach
  <2>2. ~Meets(s, q)
    BY <1>1, <1>3, <1>6 DEF Crossing
  <2>3. ~Coming(s, "join", q)'
    BY <1>1, <1>2, <2>2 DEF Coming, Meets, Notices
  <2>4. Notice(s, "leave", q) \in post'
    BY <1>1, <1>3, <1>6
  <2>5. Meets(s, q)'
    BY <2>4 DEF Meets, Notice, Notices
  <2> QED BY <2>1, <2>3, <2>5
<1>7. CASE q # x.peer
  <2>1. Present(q)' <=> Present(q)
    BY <1>1, <1>7 DEF Present
  <2>2. \A m : m.sid = s.sid /\ m.about = q => (m \in post' <=> m \in post)
    BY <1>1, <1>2, <1>3, <1>7
  <2>3. Meets(s, q)' <=> Meets(s, q)
    BY <2>2 DEF Meets
  <2>4. (Coming(s, "join", q)' <=> Coming(s, "join", q)) /\ (Coming(s, "leave", q)' <=> Coming(s, "leave", q))
    BY <2>2 DEF Coming
  <2> QED BY <1>1, <1>5, <2>1, <2>3, <2>4
<1> QED BY <1>6, <1>7

LEMMA ToldStep == IInv /\ [Next]_vars => Told'
<1> SUFFICES ASSUME IInv, [Next]_vars
             PROVE  Told'
  OBVIOUS
<1> USE DEF IInv
<1>1. ASSUME NEW p \in Peer, Start(p) PROVE Told'
  <2>1. UNCHANGED <<sess, crossed, post, ghosts, chan>>
    BY <1>1 DEF Start, server
  <2>2. ASSUME NEW o \in Peer, NEW s \in sess, Attached(o, s)' PROVE Attached(o, s)
    <3>1. o # p => run'[o] = run[o] /\ link'[o] = link[o]
      BY <1>1 DEF Start, TypeOK
    <3>2. run'[p] = run[p] + 1 /\ run[p] \in Nat
      BY <1>1 DEF Start, TypeOK
    <3>3. s.run \in Nat /\ s.run <= run[s.peer]
      BY DEF Stamped, TypeOK
    <3>4. o # p
      BY <2>2, <3>2, <3>3 DEF Attached
    <3> QED BY <2>1, <2>2, <3>1, <3>4 DEF Attached
  <2> QED BY <2>1, <2>2, ToldKept
<1>2. ASSUME NEW p \in Peer, End(p), UNCHANGED <<sess, crossed>>,
             \A m : m.kind \in Notices => (m \in post <=> m \in post')
      PROVE  Told'
  <2>1. ASSUME NEW o \in Peer, NEW s \in sess, Attached(o, s)'
        PROVE  Attached(o, s) /\ ghosts'[o] = ghosts[o]
    <3>1. o # p
      BY <1>2, <2>1 DEF Attached, End, TypeOK
    <3>2. run'[o] = run[o] /\ link'[o] = link[o] /\ chan'[o] = chan[o] /\ ghosts'[o] = ghosts[o]
      BY <1>2, <3>1 DEF End, TypeOK
    <3> QED BY <2>1, <3>2 DEF Attached
  <2> QED BY <1>2, <2>1, ToldKept
<1>3. CASE /\ UNCHANGED <<sess, crossed, run, link, chan, ghosts>>
           /\ \A m : m.kind \in Notices => (m \in post <=> m \in post')
  BY <1>3, ToldKept DEF Attached
<1>4. ASSUME NEW p \in Peer, Quit(p) \/ Crash(p) \/ Timeout(p) PROVE Told'
  BY <1>2, <1>4 DEF Quit, Crash, Timeout, server
<1>5. ASSUME NEW p \in Peer, NEW m \in post, Refused(p, m) PROVE Told'
  <2>1. /\ UNCHANGED <<sess, crossed>>
        /\ \A n : n.kind \in Notices => (n \in post <=> n \in post')
    BY <1>5 DEF Refused, Notices
  <2> QED BY <1>2, <1>3, <1>5, <2>1 DEF Refused, process
<1>6. ASSUME NEW p \in Peer, Resend(p) \/ Heartbeat(p) PROVE Told'
  BY <1>3, <1>6 DEF Resend, Heartbeat, process, server
<1>7. ASSUME NEW h \in hellos, HelloAgain(h) PROVE Told'
  BY <1>3, <1>7 DEF HelloAgain, process
<1>8. ASSUME NEW h \in hellos, HelloRefused(h) PROVE Told'
  BY <1>3, <1>8 DEF HelloRefused, process, Notices
<1>9. ASSUME NEW s \in sess, Silence(s) PROVE Told'
  BY <1>3, <1>9 DEF Silence, process
<1>10. CASE UNCHANGED vars
  BY <1>3, <1>10 DEF vars
<1> QED
  BY <1>1, <1>4, <1>5, <1>6, <1>7, <1>8, <1>9, <1>10, ToldReceive, ToldAdmit, ToldRemove
  DEF Next, ClientStep, Disconnect, At, Expire, Kick

\* What players are told about each other and have received is true.
THEOREM GhostsTrue == Spec => []GhostsFaithful
<1>1. Init => IInv
  BY SessionAssumption, TypeInit DEF Init, IInv, Stamped, OnePlaceEach, Posted, Blank, Told
<1>2. IInv /\ [Next]_vars => IInv'
  BY SessionAssumption, TypeStep, StampedStep, PlaceStep, PostedStep, BlankStep, ToldStep DEF IInv
<1>3. IInv => GhostsFaithful
  <2> SUFFICES ASSUME IInv, NEW p \in Peer, NEW s \in At(Here(p)), NEW q \in Peer \ {p},
                      link[p] = "in", chan[p] = s.sid, s.run = run[p],
                      ~Meets(s, q), <<s.sid, q>> \notin crossed
               PROVE  q \in ghosts[p] <=> Present(q)
    BY DEF GhostsFaithful
  <2>1. s \in sess /\ s.addr = AddrOf(s.peer, s.run) /\ s.addr = AddrOf(p, run[p])
    BY DEF At, Here, IInv, Stamped
  <2>2. s.peer = p
    <3>1. AddrOf(s.peer, s.run)[1] = s.peer /\ AddrOf(p, run[p])[1] = p
      BY DEF AddrOf
    <3> QED BY <2>1, <3>1
  <2> QED BY <2>1, <2>2 DEF IInv, Told, Attached
<1> QED BY <1>1, <1>2, <1>3, PTL DEF Spec

----------------------------------------------------------------------------
(* The snapshots on disk: types.                                           *)

LEMMA DiskTypeInit == DiskInit => DiskTypeOK
BY PersistenceAssumption DEF DiskInit, DiskTypeOK, Snapshot, Absent

\* A step that puts snapshots there were, or the one of now, into the files.
LEMMA DiskTypeStep == DiskTypeOK /\ [DiskNext]_diskVars => DiskTypeOK'
<1> SUFFICES ASSUME DiskTypeOK, [DiskNext]_diskVars
             PROVE  DiskTypeOK'
  OBVIOUS
<1> USE PersistenceAssumption
<1>1. CASE Restore
  BY <1>1 DEF DiskTypeOK, Restore, Snapshot
<1>2. CASE Change
  BY <1>2 DEF DiskTypeOK, Change, Snapshot
<1>3. CASE Due
  BY <1>3 DEF DiskTypeOK, Due, Top, Snapshot
<1>4. CASE Unlink
  BY <1>4 DEF DiskTypeOK, Unlink, Snapshot, Absent
<1>5. CASE Shift
  <2>1. file[at] \in Snapshot /\ Absent \in Snapshot
    BY DEF DiskTypeOK, Snapshot, Absent
  <2>2. file' \in [0 .. Keep -> Snapshot]
    BY <1>5, <2>1 DEF DiskTypeOK, Shift
  <2>3. at' \in 0 .. Keep - 1 /\ pc' \in {"serve", "rotate", "write", "down"}
    BY <1>5 DEF DiskTypeOK, Shift, Onward
  <2>4. UNCHANGED <<world, worlds, first, stamp, streak>>
    BY <1>5 DEF Shift, Onward
  <2>5. Snapshot' = Snapshot
    BY <2>4 DEF Snapshot
  <2> QED BY <2>2, <2>3, <2>4, <2>5 DEF DiskTypeOK
<1>6. CASE Pass
  BY <1>6 DEF DiskTypeOK, Pass, Onward, Snapshot
<1>7. CASE Write
  <2>1. [stamp |-> stamp + 1, world |-> world] \in Snapshot'
    BY <1>7 DEF DiskTypeOK, Write, Snapshot
  <2>2. \A n \in 0 .. Keep : file[n] \in Snapshot'
    <3>1. stamp' = stamp + 1 /\ worlds' = worlds /\ stamp \in Nat
      BY <1>7 DEF DiskTypeOK, Write
    <3>2. \A n \in 0 .. Keep : file[n] \in Snapshot
      BY DEF DiskTypeOK
    <3> QED BY <3>1, <3>2 DEF Snapshot
  <2>3. file' \in [0 .. Keep -> Snapshot]'
    BY <1>7, <2>1, <2>2 DEF DiskTypeOK, Write
  <2>4. streak' \in 0 .. stamp' /\ stamp' \in Nat
    BY <1>7 DEF DiskTypeOK, Write
  <2> QED BY <1>7, <2>3, <2>4 DEF DiskTypeOK, Write
<1>8. CASE Fail \/ Stop \/ UNCHANGED diskVars
  BY <1>8 DEF DiskTypeOK, Fail, Stop, diskVars, Snapshot
<1> QED BY <1>1, <1>2, <1>3, <1>4, <1>5, <1>6, <1>7, <1>8 DEF DiskNext

\* Every variable keeps its type.
THEOREM DiskTypes == DiskSpec => []DiskTypeOK
BY DiskTypeInit, DiskTypeStep, PTL DEF DiskSpec

----------------------------------------------------------------------------
(* The inductive invariant of the rotation.                                *)

\* snapshot.json is moved away last.
BaseStays == pc = "rotate" => Exists(0)

\* How far the history has moved on while the copies are being shifted.
Shifting ==
  /\ pc = "rotate" =>
       /\ \A i \in 0 .. Keep : i < streak /\ i <= at => file[i].stamp = stamp - i
       /\ \A i \in 0 .. Keep - 1 : i < streak /\ i > at => file[i + 1].stamp = stamp - i
  /\ pc = "write" => \A i \in 0 .. Keep - 1 : i < streak => file[i + 1].stamp = stamp - i
  /\ pc = "serve" /\ streak > 0 => ~first

DiskInv == NewestFirst /\ BaseStays /\ RollingHistory /\ Shifting

LEMMA FileThere ==
  ASSUME DiskTypeOK, NEW n \in 0 .. Keep, file[n].stamp > 0
  PROVE  Exists(n)
BY DEF Exists, Absent, DiskTypeOK

LEMMA StillStep == DiskTypeOK /\ DiskInv /\ (Restore \/ Change \/ Fail \/ Stop \/ UNCHANGED diskVars) => DiskInv'
<1> SUFFICES ASSUME DiskTypeOK, DiskInv, Restore \/ Change \/ Fail \/ Stop \/ UNCHANGED diskVars
             PROVE  DiskInv'
  OBVIOUS
<1>1. UNCHANGED <<file, stamp>>
  BY DEF Restore, Change, Fail, Stop, diskVars
<1>2. NewestFirst'
  BY <1>1 DEF DiskInv, NewestFirst, Exists
<1>3. BaseStays' /\ RollingHistory' /\ Shifting'
  BY <1>1 DEF DiskInv, BaseStays, RollingHistory, Shifting, Exists, Restore, Change, Fail, Stop, diskVars,
              DiskTypeOK
<1> QED BY <1>2, <1>3 DEF DiskInv

LEMMA DueStep == DiskTypeOK /\ DiskInv /\ Due => DiskInv'
<1> SUFFICES ASSUME DiskTypeOK, DiskInv, Due
             PROVE  DiskInv'
  OBVIOUS
<1> USE PersistenceAssumption
<1>1. UNCHANGED <<file, stamp, streak, first>> /\ pc = "serve"
  BY DEF Due
<1>2. NewestFirst' /\ BaseStays' /\ RollingHistory'
  BY <1>1 DEF DiskInv, NewestFirst, BaseStays, RollingHistory, Exists, Due, Rotates
<1>3. CASE Rotates
  <2>1. pc' = "rotate" /\ at' = Keep - 1 /\ Keep \in Nat \ {0} /\ streak \in Nat
    BY <1>3 DEF Due, Top, DiskTypeOK
  <2>2. \A i \in 0 .. Keep : i < streak => file[i].stamp = stamp - i
    BY <1>1 DEF DiskInv, RollingHistory
  <2>3. \A i \in 0 .. Keep - 1 : ~(i > Keep - 1)
    BY <2>1
  <2>4. Shifting'
    BY <1>1, <2>1, <2>2, <2>3 DEF Shifting
  <2> QED BY <1>2, <2>4 DEF DiskInv
<1>4. CASE ~Rotates
  <2>1. streak = 0
    <3>1. 0 \in 0 .. Keep /\ stamp \in Nat /\ streak \in 0 .. stamp /\ stamp - 0 = stamp
      BY DEF DiskTypeOK
    <3>2. streak > 0 => ~first /\ file[0].stamp = stamp - 0
      BY <1>1, <3>1 DEF DiskInv, RollingHistory, Shifting
    <3>3. streak > 0 => file[0].stamp > 0
      BY <3>1, <3>2
    <3>4. streak > 0 => Exists(0)
      BY <3>1, <3>3, FileThere
    <3> QED BY <1>4, <3>1, <3>2, <3>4 DEF Rotates
  <2>2. pc' = "write"
    BY <1>4 DEF Due
  <2>3. Shifting'
    BY <1>1, <2>1, <2>2 DEF Shifting
  <2> QED BY <1>2, <2>3 DEF DiskInv
<1> QED BY <1>3, <1>4

LEMMA UnlinkStep == DiskTypeOK /\ DiskInv /\ Unlink => DiskInv'
<1> SUFFICES ASSUME DiskTypeOK, DiskInv, Unlink
             PROVE  DiskInv'
  OBVIOUS
<1>1. /\ UNCHANGED <<pc, at, first, stamp, streak>> /\ pc = "rotate"
      /\ Exists(at) /\ at \in 0 .. Keep - 1 /\ Keep \in Nat
      /\ file'[at + 1] = Absent
      /\ \A n \in 0 .. Keep : n # at + 1 => file'[n] = file[n]
  BY PersistenceAssumption DEF Unlink, DiskTypeOK
<1>2. \A n \in 0 .. Keep : Exists(n)' => Exists(n) /\ file'[n] = file[n]
  BY <1>1 DEF Exists
<1>3. Exists(0)' /\ file'[0] = file[0] /\ Exists(0)
  BY <1>1 DEF DiskInv, BaseStays, Exists
<1>4. NewestFirst'
  BY <1>1, <1>2, <1>3 DEF DiskInv, NewestFirst
<1>5. BaseStays' /\ RollingHistory'
  BY <1>1, <1>3 DEF BaseStays, RollingHistory
<1>6. Shifting'
  BY <1>1 DEF DiskInv, Shifting
<1> QED BY <1>4, <1>5, <1>6 DEF DiskInv

LEMMA ShiftStep == DiskTypeOK /\ DiskInv /\ (Shift \/ Pass) => DiskInv'
<1> SUFFICES ASSUME DiskTypeOK, DiskInv, Shift \/ Pass
             PROVE  DiskInv'
  OBVIOUS
<1>1. /\ UNCHANGED <<first, stamp, streak>> /\ pc = "rotate"
      /\ at \in 0 .. Keep - 1 /\ Keep \in Nat /\ stamp \in Nat /\ streak \in 0 .. stamp
      /\ pc' = IF at = 0 THEN "write" ELSE pc
      /\ at' = IF at = 0 THEN at ELSE at - 1
  BY PersistenceAssumption DEF Shift, Pass, Onward, DiskTypeOK
<1>2. /\ Exists(0) /\ file[0].stamp = stamp
  BY <1>1 DEF DiskInv, BaseStays, NewestFirst, Exists, Absent, DiskTypeOK, Snapshot
<1>3. CASE Shift
  <2>1. /\ file'[at + 1] = file[at] /\ file'[at] = Absent
        /\ \A n \in 0 .. Keep : n # at /\ n # at + 1 => file'[n] = file[n]
        /\ Exists(at) /\ ~Exists(at + 1)
    BY <1>1, <1>3 DEF Shift, DiskTypeOK
  <2>2. \A n \in 0 .. Keep : Exists(n)' =>
          \/ n = at + 1 /\ file'[n] = file[at]
          \/ n # at /\ n # at + 1 /\ Exists(n) /\ file'[n] = file[n]
    BY <2>1 DEF Exists
  <2>3. \A i, j \in 0 .. Keep : i < j /\ Exists(i)' /\ Exists(j)' => file'[i].stamp > file'[j].stamp
    BY <1>1, <2>1, <2>2 DEF DiskInv, NewestFirst
  <2>4. stamp > 0 => file'[IF Exists(0)' THEN 0 ELSE 1].stamp = stamp
    <3>1. CASE at = 0
      BY <1>2, <2>1, <3>1 DEF Exists
    <3>2. CASE at # 0
      BY <1>1, <1>2, <2>1, <3>2 DEF Exists
    <3> QED BY <3>1, <3>2
  <2>5. NewestFirst'
    BY <1>1, <2>3, <2>4 DEF NewestFirst, Exists
  <2>6. BaseStays' /\ RollingHistory'
    BY <1>1, <1>2, <2>1 DEF BaseStays, RollingHistory, Exists
  <2>7. Shifting'
    BY <1>1, <2>1 DEF DiskInv, Shifting
  <2> QED BY <2>5, <2>6, <2>7 DEF DiskInv
<1>4. CASE Pass
  <2>1. file' = file /\ at # 0 /\ ~Exists(at)
    BY <1>2, <1>4 DEF Pass
  <2>2. NewestFirst' /\ BaseStays' /\ RollingHistory'
    BY <1>1, <1>2, <2>1 DEF DiskInv, NewestFirst, BaseStays, RollingHistory, Exists
  <2>3. at >= streak
    <3>1. at < streak => file[at].stamp = stamp - at /\ stamp - at > 0
      BY <1>1 DEF DiskInv, Shifting
    <3> QED BY <1>1, <2>1, <3>1, FileThere
  <2>4. Shifting'
    BY <1>1, <2>1, <2>3 DEF DiskInv, Shifting
  <2> QED BY <2>2, <2>4 DEF DiskInv
<1> QED BY <1>3, <1>4

LEMMA WriteStep == DiskTypeOK /\ DiskInv /\ Write => DiskInv'
<1> SUFFICES ASSUME DiskTypeOK, DiskInv, Write
             PROVE  DiskInv'
  OBVIOUS
<1>1. /\ pc = "write" /\ pc' = "serve" /\ ~first' /\ stamp' = stamp + 1 /\ streak' = streak + 1
      /\ stamp \in Nat /\ streak \in Nat /\ Keep \in Nat
      /\ file'[0].stamp = stamp + 1
      /\ \A n \in 1 .. Keep : file'[n] = file[n]
      /\ \A n \in 0 .. Keep : file[n].stamp \in 0 .. stamp
  BY PersistenceAssumption DEF Write, DiskTypeOK, Snapshot
<1>2. Exists(0)'
  BY <1>1 DEF Exists, Absent
<1>3. NewestFirst'
  BY <1>1, <1>2 DEF DiskInv, NewestFirst, Exists
<1>4. BaseStays'
  BY <1>1 DEF BaseStays
<1>5. RollingHistory'
  <2> SUFFICES ASSUME NEW i \in 0 .. Keep, i < streak + 1
               PROVE  file'[i].stamp = stamp + 1 - i
    BY <1>1 DEF RollingHistory
  <2>1. CASE i = 0
    BY <1>1, <2>1
  <2>2. CASE i # 0
    <3>1. i - 1 \in 0 .. Keep - 1 /\ i - 1 < streak
      BY <1>1, <2>2
    <3>2. file[i - 1 + 1].stamp = stamp - (i - 1)
      BY <1>1, <3>1 DEF DiskInv, Shifting
    <3> QED BY <1>1, <2>2, <3>2
  <2> QED BY <2>1, <2>2
<1>6. Shifting'
  BY <1>1 DEF Shifting
<1> QED BY <1>3, <1>4, <1>5, <1>6 DEF DiskInv

LEMMA DiskInvariant == DiskSpec => []DiskInv
<1>1. DiskInit => DiskInv
  BY PersistenceAssumption DEF DiskInit, DiskInv, NewestFirst, BaseStays, RollingHistory, Shifting, Exists
<1>2. DiskTypeOK /\ DiskInv /\ [DiskNext]_diskVars => DiskInv'
  BY StillStep, DueStep, UnlinkStep, ShiftStep, WriteStep DEF DiskNext
<1> QED BY <1>1, <1>2, DiskTypes, PTL DEF DiskSpec

\* The newest snapshot is snapshot.json or its first copy.
THEOREM Newest == DiskSpec => []NewestFirst
BY DiskInvariant, PTL DEF DiskInv

\* While nothing fails the copies are the last snapshots.
THEOREM Rolling == DiskSpec => []RollingHistory
BY DiskInvariant, PTL DEF DiskInv
=============================================================================
