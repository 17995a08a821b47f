-------------------------- MODULE WorldValueProofs --------------------------
(***************************************************************************)
(* Proofs about the shared values, for any peers, keys and values.         *)
(*                                                                         *)
(* While a key is not contended its changes are one wave at a time: either *)
(* one change is on its way to the server and nothing else is about, or    *)
(* all that travels and waits is the server's value, while its entry is    *)
(* about the key at all.  A session that lacks the value is one of those   *)
(* the wave has not reached.                                               *)
(***************************************************************************)
EXTENDS WorldValueProps, TLAPS

PendingTo(p, k) == (\E m \in down : m.to = p /\ m.key = k) \/ Waiting(p, k)
SentBy(p, k) == \E m \in up : m.from = p /\ m.key = k

\* While the entry of k is about k, what travels down, and what waits, is the
\* server's value.
DownCurrent(k) == server[k] # NoVal => \A m \in down : m.key = k => m.val = server[k]
QueueCurrent(k) ==
  server[k] # NoVal => \A p \in Peer : \A i \in DOMAIN queue[p][k] : queue[p][k][i] = server[k]
\* A change on its way up is alone, and is what its sender has.
UpAlone(k) ==
  \A m \in up : m.key = k =>
    /\ ~About(k, down) /\ \A p \in Peer : ~Waiting(p, k)
    /\ \A x \in up : x.key = k => x = m
    /\ local[m.from][k] = m.val
\* A session has the server's value, or is about to, or made a newer one.
Covered(k) ==
  \A p \in session : server[k] # NoVal /\ k \notin missed[p] =>
    local[p][k] = server[k] \/ PendingTo(p, k) \/ SentBy(p, k)

Wave(k) == DownCurrent(k) /\ QueueCurrent(k) /\ UpAlone(k) /\ Covered(k)
Inv == TypeOK /\ \A k \in Key \ contended : Wave(k)

----------------------------------------------------------------------------
LEMMA InitInv == Init => Inv
<1> SUFFICES ASSUME Init PROVE Inv
  OBVIOUS
<1>1. TypeOK
  BY DEF Init, TypeOK, Waiting
<1>2. \A k \in Key : Wave(k)
  BY DEF Init, Wave, DownCurrent, QueueCurrent, UpAlone, Covered
<1>. QED
  BY <1>1, <1>2 DEF Inv

----------------------------------------------------------------------------
(* The types.                                                              *)

LEMMA ReportType ==
  ASSUME TypeOK, NEW p \in session, NEW k \in Key, NEW v \in Val, Report(p, k, v)
  PROVE  /\ moves' \in Nat /\ up' \subseteq [from : session, key : Key, val : Val]
         /\ local' \in [Peer -> [Key -> Val \cup {NoVal}]]
         /\ \A q \in session, j \in Key : local'[q][j] # NoVal
         /\ missed' \in [Peer -> SUBSET Key] /\ contended' \subseteq Key
  BY WorldAssumption DEF TypeOK, Report, Change

LEMMA ApplyType ==
  ASSUME TypeOK, NEW p \in session, NEW k \in Key, NEW v \in Val, Apply(p, k, v)
  PROVE  /\ up' = up
         /\ local' \in [Peer -> [Key -> Val \cup {NoVal}]]
         /\ \A q \in session, j \in Key : local'[q][j] # NoVal
         /\ missed' \in [Peer -> SUBSET Key]
  BY WorldAssumption DEF TypeOK, Apply, EchoGuarded

LEMMA JoinType ==
  ASSUME TypeOK, NEW p \in Peer, NEW save \in Save, Join(p, save)
  PROVE  TypeOK'
<1>1. {Relay(p, k, server[k]) : k \in Booted} \subseteq [to : session', key : Key, val : Val]
  BY DEF TypeOK, Join, Booted, Relay
<1>2. /\ up' \subseteq [from : session', key : Key, val : Val]
      /\ down' \subseteq [to : session', key : Key, val : Val]
      /\ session' \subseteq Peer
  BY <1>1 DEF TypeOK, Join
<1>3. /\ local' \in [Peer -> [Key -> Val \cup {NoVal}]]
      /\ \A q \in session', j \in Key : local'[q][j] # NoVal
  BY WorldAssumption DEF TypeOK, Join
<1>4. contended' \subseteq Key /\ moves' \in Nat
  BY DEF TypeOK, Join
<1>5. {k \in Global : server[k] # NoVal} \in SUBSET Key
  BY WorldAssumption
<1>6. missed' \in [Peer -> SUBSET Key]
  BY <1>5 DEF TypeOK, Join
<1>. QED
  BY <1>2, <1>3, <1>4, <1>6 DEF TypeOK, Join, Waiting

LEMMA LeaveType ==
  ASSUME TypeOK, NEW p \in Peer, Leave(p)
  PROVE  TypeOK'
<1>1. /\ up' \subseteq [from : session', key : Key, val : Val]
      /\ down' \subseteq [to : session', key : Key, val : Val]
      /\ session' \subseteq Peer
  BY DEF TypeOK, Leave
<1>2. /\ local' \in [Peer -> [Key -> Val \cup {NoVal}]]
      /\ \A q \in session', j \in Key : local'[q][j] # NoVal
      /\ loaded' \in [Peer -> SUBSET Loadable]
      /\ missed' \in [Peer -> SUBSET Key]
  BY DEF TypeOK, Leave
<1>3. /\ queue' \in [Peer -> [Key -> Seq(Val)]]
      /\ \A q \in Peer, k \in Key : queue'[q][k] # <<>> => q \in session' /\ k \notin Direct
  BY DEF TypeOK, Leave, Waiting
<1>. QED
  BY <1>1, <1>2, <1>3 DEF TypeOK, Leave, Waiting

\* The entry of k is about k, and no longer about a key it shares it with.
LEMMA RecordedType ==
  ASSUME TypeOK, NEW k \in Key, NEW v \in Val, server' = Recorded(k, v)
  PROVE  /\ server' \in [Key -> Val \cup {NoVal}] /\ server'[k] = v
         /\ \A j \in Key : j # k => server'[j] \in {server[j], NoVal}
         /\ \A i, j \in Key : Slot[i] = Slot[j] /\ NoVal \notin {server'[i], server'[j]} => i = j
<1>1. /\ server' \in [Key -> Val \cup {NoVal}] /\ server'[k] = v
      /\ \A j \in Key : j # k => server'[j] \in {server[j], NoVal}
  BY DEF TypeOK, Recorded
<1>2. \A j \in Key : j # k /\ Slot[j] = Slot[k] => server'[j] = NoVal
  BY DEF Recorded
<1>3. \A i, j \in Key : Slot[i] = Slot[j] /\ NoVal \notin {server[i], server[j]} => i = j
  BY DEF TypeOK
<1>4. ASSUME NEW i \in Key, NEW j \in Key, Slot[i] = Slot[j], NoVal \notin {server'[i], server'[j]}
      PROVE  i = j
  <2>1. CASE i = k \/ j = k
    BY <1>2, <1>4, <2>1
  <2>2. CASE i # k /\ j # k
    <3>1. server'[i] = server[i] /\ server'[j] = server[j]
      BY <1>1, <1>4, <2>2
    <3>. QED
      BY <1>3, <1>4, <3>1
  <2>. QED
    BY <2>1, <2>2
<1>. QED
  BY <1>1, <1>4

LEMMA ServerType ==
  ASSUME TypeOK, NEW m \in up, Handle(m)
  PROVE  TypeOK'
<1>1. m.from \in session /\ m.key \in Key /\ m.val \in Val
  BY DEF TypeOK
<1>2. {Relay(p, m.key, m.val) : p \in Others(m.from)} \subseteq [to : session, key : Key, val : Val]
  BY <1>1 DEF Others, Relay
<1>3. CASE server' = Recorded(m.key, m.val) /\ UNCHANGED missed
           /\ down' = down \cup {Relay(p, m.key, m.val) : p \in Others(m.from)}
  BY <1>1, <1>2, <1>3, RecordedType DEF TypeOK, Handle, Waiting
<1>4. CASE UNCHANGED <<server, down>>
  <2>1. missed' \in [Peer -> SUBSET Key]
    BY <1>1 DEF TypeOK, Handle
  <2>. QED
    BY <1>1, <1>4, <2>1 DEF TypeOK, Handle, Waiting
<1>. QED
  BY <1>3, <1>4 DEF Handle

LEMMA NetType ==
  ASSUME TypeOK, NEW m \in down, Receive(m)
  PROVE  TypeOK'
<1>1. m.to \in session /\ m.key \in Key /\ m.val \in Val
  BY DEF TypeOK
<1>2. CASE m.key \in Direct
  BY <1>1, <1>2, ApplyType DEF TypeOK, Receive, Waiting
<1>3. CASE m.key \notin Direct
  <2>1. queue' = [queue EXCEPT ![m.to][m.key] = Append(@, m.val)]
    BY <1>3 DEF Receive
  <2>2. queue' \in [Peer -> [Key -> Seq(Val)]]
    BY <1>1, <2>1 DEF TypeOK
  <2>3. \A p \in Peer, k \in Key : queue'[p][k] # <<>> => p \in session /\ k \notin Direct
    BY <1>1, <1>3, <2>1 DEF TypeOK, Waiting
  <2>. QED
    BY <1>3, <2>2, <2>3 DEF TypeOK, Receive, Waiting
<1>. QED
  BY <1>2, <1>3

LEMMA LastOf ==
  ASSUME TypeOK, NEW p \in Peer, NEW k \in Key, Waiting(p, k)
  PROVE  /\ Last(queue[p][k]) \in Val /\ p \in session
         /\ \E i \in DOMAIN queue[p][k] : Last(queue[p][k]) = queue[p][k][i]
<1>1. queue[p][k] \in Seq(Val) /\ queue[p][k] # <<>> /\ p \in session
  BY DEF TypeOK, Waiting
<1>2. Len(queue[p][k]) \in DOMAIN queue[p][k]
  BY <1>1
<1>. QED
  BY <1>1, <1>2 DEF Last

LEMMA MainType ==
  ASSUME TypeOK, NEW p \in Peer, NEW k \in Key, Drain(p, k)
  PROVE  TypeOK'
<1>1. Last(queue[p][k]) \in Val /\ p \in session
  BY LastOf DEF Drain
<1>2. /\ queue' \in [Peer -> [Key -> Seq(Val)]]
      /\ \A q \in Peer, j \in Key : queue'[q][j] # <<>> => q \in session /\ j \notin Direct
  BY DEF TypeOK, Drain, Waiting
<1>. QED
  BY <1>1, <1>2, ApplyType DEF TypeOK, Drain, Waiting

LEMMA GameType ==
  ASSUME TypeOK, NEW p \in Peer, NEW k \in Key,
         (\E v \in Val : Write(p, k, v)) \/ Load(p, k) \/ Unload(p, k)
  PROVE  TypeOK'
<1>1. CASE \E v \in Val : Write(p, k, v)
  BY <1>1, ReportType DEF TypeOK, Write, Waiting
<1>2. CASE Load(p, k)
  <2>1. loaded' \in [Peer -> SUBSET Loadable] /\ p \in session
    BY <1>2 DEF TypeOK, Load
  <2>2. CASE k \in Lock /\ local[p][k] = Locked
    BY <1>2, <2>1, <2>2, ReportType, WorldAssumption DEF TypeOK, Load, Waiting
  <2>3. CASE ~(k \in Lock /\ local[p][k] = Locked)
    BY <1>2, <2>1, <2>3 DEF TypeOK, Load, Waiting
  <2>. QED
    BY <2>2, <2>3
<1>3. CASE Unload(p, k)
  BY <1>3 DEF TypeOK, Unload, Waiting
<1>. QED
  BY <1>1, <1>2, <1>3

LEMMA TypeStep == ASSUME TypeOK, [Next]_vars PROVE TypeOK'
<1>1. CASE UNCHANGED vars
  BY <1>1 DEF TypeOK, vars, Waiting
<1>. QED
  BY <1>1, JoinType, LeaveType, GameType, ServerType, NetType, MainType
     DEF Next, ServerStep, NetStep, MainStep

\* Every variable keeps its type, in every order of changes, joins and drains.
THEOREM TypeCorrect == Spec => []TypeOK
<1>1. Init => TypeOK
  BY InitInv DEF Inv
<1>. QED
  BY <1>1, TypeStep, PTL DEF Spec

----------------------------------------------------------------------------
(* The wave, one action at a time.                                         *)

\* Who joins while no change of k is on its way up is sent what there is.
LEMMA JoinWave ==
  ASSUME TypeOK, NEW p \in Peer, NEW save \in Save, Join(p, save),
         NEW k \in Key \ contended', Wave(k)
  PROVE  Wave(k)'
<1>1. ~About(k, up)
  BY DEF Join
<1>2. \A m \in down' : m \in down \/ (m.val = server[m.key] /\ m.key \in Booted)
  BY DEF Join, Relay
<1>3. DownCurrent(k)'
  BY <1>2 DEF Wave, DownCurrent, Join
<1>4. QueueCurrent(k)'
  BY DEF Wave, QueueCurrent, Join
<1>5. UpAlone(k)'
  BY <1>1 DEF UpAlone, About, Join
<1>6. ASSUME NEW q \in session', server'[k] # NoVal, k \notin missed'[q]
      PROVE  local'[q][k] = server'[k] \/ PendingTo(q, k)' \/ SentBy(q, k)'
  <2>1. CASE q = p
    <3>1. k \in Booted
      BY <1>6, <2>1 DEF TypeOK, Join, Booted
    <3>2. Relay(p, k, server[k]) \in down'
      BY <3>1 DEF Join
    <3>. QED
      BY <2>1, <3>2 DEF PendingTo, Relay
  <2>2. CASE q # p
    <3>1. q \in session /\ local'[q] = local[q] /\ missed'[q] = missed[q]
      BY <1>6, <2>2 DEF TypeOK, Join
    <3>2. local[q][k] = server[k] \/ PendingTo(q, k) \/ SentBy(q, k)
      BY <1>6, <3>1 DEF Wave, Covered, Join
    <3>. QED
      BY <3>1, <3>2 DEF PendingTo, SentBy, Waiting, Join
  <2>. QED
    BY <2>1, <2>2
<1>. QED
  BY <1>3, <1>4, <1>5, <1>6 DEF Wave, Covered

LEMMA LeaveWave ==
  ASSUME TypeOK, NEW p \in Peer, Leave(p), NEW k \in Key \ contended', Wave(k)
  PROVE  Wave(k)'
<1>1. \A q \in Peer \ {p} : local'[q] = local[q] /\ missed'[q] = missed[q] /\ queue'[q] = queue[q]
  BY DEF TypeOK, Leave
<1>2. queue'[p][k] = <<>>
  BY DEF TypeOK, Leave
<1>3. DownCurrent(k)'
  BY DEF Wave, DownCurrent, Leave
<1>4. QueueCurrent(k)'
  BY <1>1, <1>2 DEF Wave, QueueCurrent, Leave
<1>5. UpAlone(k)'
  <2> SUFFICES ASSUME NEW m \in up', m.key = k
               PROVE  /\ ~About(k, down') /\ \A q \in Peer : ~Waiting(q, k)'
                      /\ \A x \in up' : x.key = k => x = m
                      /\ local'[m.from][k] = m.val
    BY DEF UpAlone, About
  <2>1. m \in up /\ m.from # p /\ m.from \in Peer
    BY DEF TypeOK, Leave
  <2>2. /\ ~About(k, down) /\ \A q \in Peer : ~Waiting(q, k)
        /\ \A x \in up : x.key = k => x = m
        /\ local[m.from][k] = m.val
    BY <2>1 DEF Wave, UpAlone
  <2>. QED
    BY <1>1, <1>2, <2>1, <2>2 DEF About, Waiting, Leave
<1>6. ASSUME NEW q \in session', server'[k] # NoVal, k \notin missed'[q]
      PROVE  local'[q][k] = server'[k] \/ PendingTo(q, k)' \/ SentBy(q, k)'
  <2>1. q \in session /\ q # p /\ q \in Peer
    BY DEF TypeOK, Leave
  <2>2. local[q][k] = server[k] \/ PendingTo(q, k) \/ SentBy(q, k)
    BY <1>1, <1>6, <2>1 DEF Wave, Covered, Leave
  <2>. QED
    BY <1>1, <2>1, <2>2 DEF PendingTo, SentBy, Waiting, Leave
<1>. QED
  BY <1>3, <1>4, <1>5, <1>6 DEF Wave, Covered

\* A local change: of k, while nothing about k is under way, or of another key.
LEMMA ReportWave ==
  ASSUME TypeOK, NEW p \in session, NEW j \in Key, NEW v \in Val, Report(p, j, v),
         UNCHANGED <<server, session, down, queue>>,
         NEW k \in Key \ contended', Wave(k)
  PROVE  Wave(k)'
<1>1. p \in Peer /\ up' = up \cup {Change(p, j, v)}
  BY DEF TypeOK, Report
<1>2. DownCurrent(k)' /\ QueueCurrent(k)'
  BY DEF Wave, DownCurrent, QueueCurrent
<1>3. \A q \in Peer : q # p \/ j # k => local'[q][k] = local[q][k]
  BY <1>1 DEF TypeOK, Report
<1>4. CASE j = k
  <2>1. Idle(k) /\ local'[p][k] = v
    BY <1>1, <1>4 DEF TypeOK, Report
  <2>2. UpAlone(k)'
    BY <1>1, <1>4, <2>1 DEF Idle, UpAlone, About, Waiting, Change
  <2>3. SentBy(p, k)'
    <3>1. Change(p, k, v) \in up' /\ Change(p, k, v).from = p /\ Change(p, k, v).key = k
      BY <1>1, <1>4 DEF Change
    <3>. QED
      BY <3>1 DEF SentBy
  <2>4. \A q \in session : q # p /\ server[k] # NoVal /\ k \notin missed'[q] => local'[q][k] = server[k]
    BY <1>1, <1>3, <1>4, <2>1 DEF TypeOK, Wave, Covered, PendingTo, SentBy, Idle, About, Report
  <2>. QED
    BY <1>2, <2>2, <2>3, <2>4 DEF Wave, Covered
<1>5. CASE j # k
  <2>1. UpAlone(k)'
    BY <1>1, <1>3, <1>5 DEF TypeOK, Wave, UpAlone, About, Waiting, Change
  <2>2. \A q \in session : k \notin missed'[q] => k \notin missed[q]
    BY <1>1, <1>5 DEF TypeOK, Report
  <2>3. Covered(k)'
    <3> SUFFICES ASSUME NEW q \in session, server[k] # NoVal, k \notin missed'[q]
                 PROVE  local'[q][k] = server[k] \/ PendingTo(q, k)' \/ SentBy(q, k)'
      BY DEF Covered
    <3>1. local[q][k] = server[k] \/ PendingTo(q, k) \/ SentBy(q, k)
      BY <2>2 DEF Wave, Covered
    <3>2. PendingTo(q, k) => PendingTo(q, k)'
      BY DEF PendingTo, Waiting
    <3>3. SentBy(q, k) => SentBy(q, k)'
      BY <1>1 DEF SentBy
    <3>4. local'[q][k] = local[q][k]
      BY <1>3, <1>5 DEF TypeOK
    <3>. QED
      BY <3>1, <3>2, <3>3, <3>4
  <2>. QED
    BY <1>2, <2>1, <2>3 DEF Wave
<1>. QED
  BY <1>4, <1>5

\* Nothing the wave depends on changes.
LEMMA SameWave ==
  ASSUME UNCHANGED <<server, session, local, up, down, queue, missed>>,
         NEW k \in Key, Wave(k)
  PROVE  Wave(k)'
  BY DEF Wave, DownCurrent, QueueCurrent, UpAlone, Covered, PendingTo, SentBy, About, Waiting

LEMMA GameWave ==
  ASSUME TypeOK, NEW p \in Peer, NEW j \in Key,
         (\E v \in Val : Write(p, j, v)) \/ Load(p, j) \/ Unload(p, j),
         NEW k \in Key \ contended', Wave(k)
  PROVE  Wave(k)'
<1>1. CASE \E v \in Val : Write(p, j, v)
  BY <1>1, ReportWave DEF Write
<1>2. CASE Load(p, j)
  <2>1. CASE j \in Lock /\ local[p][j] = Locked
    BY <1>2, <2>1, ReportWave, WorldAssumption DEF Load
  <2>2. CASE ~(j \in Lock /\ local[p][j] = Locked)
    BY <1>2, <2>2, SameWave DEF Load
  <2>. QED
    BY <2>1, <2>2
<1>3. CASE Unload(p, j)
  BY <1>3, SameWave DEF Unload
<1>. QED
  BY <1>1, <1>2, <1>3

\* The server's turn: what it relays is what it has.
LEMMA ServerWave ==
  ASSUME TypeOK, NEW m \in up, Handle(m), NEW k \in Key \ contended', Wave(k)
  PROVE  Wave(k)'
<1>1. m.from \in session /\ m.from \in Peer /\ m.key \in Key /\ m.val \in Val
  BY DEF TypeOK
<1>2. /\ up' = up \ {m}
      /\ UNCHANGED <<session, local, queue>>
      /\ \A q \in Peer : missed[q] \subseteq missed'[q]
  BY <1>1 DEF TypeOK, Handle
<1>r. \/ UNCHANGED <<server, down>> /\ (Filed(m.key, m.val) \/ m.key \in missed'[m.from])
      \/ /\ server' = Recorded(m.key, m.val)
         /\ down' = down \cup {Relay(p, m.key, m.val) : p \in Others(m.from)}
  BY <1>1 DEF TypeOK, Handle, MayRefuse
<1>3. CASE m.key # k
  <2>1. server'[k] \in {server[k], NoVal}
    BY <1>1, <1>r, <1>3, RecordedType
  <2>2. \A x \in down' : x.key = k => x \in down
    BY <1>r, <1>3 DEF Relay
  <2>3. down \subseteq down'
    BY <1>r
  <2>4. DownCurrent(k)' /\ QueueCurrent(k)'
    BY <1>2, <2>1, <2>2 DEF Wave, DownCurrent, QueueCurrent
  <2>5. UpAlone(k)'
    BY <1>2, <2>2 DEF Wave, UpAlone, About, Waiting
  <2>6. ASSUME NEW q \in session', server'[k] # NoVal, k \notin missed'[q]
        PROVE  local'[q][k] = server'[k] \/ PendingTo(q, k)' \/ SentBy(q, k)'
    <3>1. q \in session /\ q \in Peer /\ k \notin missed[q]
      BY <1>2, <2>6 DEF TypeOK
    <3>2. local[q][k] = server[k] \/ PendingTo(q, k) \/ SentBy(q, k)
      BY <2>1, <2>6, <3>1 DEF Wave, Covered
    <3>. QED
      BY <1>2, <1>3, <2>1, <2>3, <2>6, <3>2 DEF PendingTo, SentBy, Waiting
  <2>. QED
    BY <2>4, <2>5, <2>6 DEF Wave, Covered
<1>4. CASE m.key = k
  <2>1. /\ ~About(k, down) /\ \A p \in Peer : ~Waiting(p, k)
        /\ \A x \in up : x.key = k => x = m
        /\ local[m.from][k] = m.val
    BY <1>4 DEF Wave, UpAlone
  <2>2. UNCHANGED <<server, down>> \/ server'[k] = m.val
    BY <1>1, <1>r, <1>4, RecordedType
  <2>3. DownCurrent(k)'
    BY <1>r, <1>4, <2>1, <2>2 DEF DownCurrent, About, Relay
  <2>4. QueueCurrent(k)'
    <3>1. \A p \in Peer : queue'[p][k] = <<>>
      BY <1>2, <2>1 DEF Waiting
    <3>. QED
      BY <3>1 DEF QueueCurrent
  <2>5. UpAlone(k)'
    BY <1>2, <2>1 DEF UpAlone
  <2>6. ASSUME NEW q \in session', server'[k] # NoVal, k \notin missed'[q]
        PROVE  local'[q][k] = server'[k] \/ PendingTo(q, k)'
    <3>0. q \in session /\ q \in Peer /\ k \notin missed[q]
      BY <1>2, <2>6 DEF TypeOK
    <3>1. CASE UNCHANGED <<server, down>> /\ q = m.from
      <4>1. Filed(k, m.val)
        BY <1>1, <1>r, <1>4, <2>6, <3>1, RecordedType DEF TypeOK, Filed
      <4>2. server[k] = m.val
        BY <1>1, <2>6, <3>1, <4>1, WorldAssumption DEF TypeOK, Filed
      <4>. QED
        BY <1>2, <2>1, <3>1, <4>2
    <3>2. CASE UNCHANGED <<server, down>> /\ q # m.from
      <4>1. ~PendingTo(q, k) /\ ~SentBy(q, k)
        BY <2>1, <3>0, <3>2 DEF PendingTo, SentBy, About
      <4>2. local[q][k] = server[k]
        BY <2>6, <3>0, <3>2, <4>1 DEF Wave, Covered
      <4>. QED
        BY <1>2, <3>2, <4>2
    <3>3. CASE server'[k] = m.val /\ q = m.from
      BY <1>2, <2>1, <3>3
    <3>4. CASE q # m.from /\ down' = down \cup {Relay(p, m.key, m.val) : p \in Others(m.from)}
      <4>1. Relay(q, m.key, m.val) \in down'
        BY <3>0, <3>4 DEF Others
      <4>. QED
        BY <1>4, <4>1 DEF PendingTo, Relay
    <3>. QED
      BY <1>r, <2>2, <3>1, <3>2, <3>3, <3>4
  <2>. QED
    BY <2>3, <2>4, <2>5, <2>6 DEF Wave, Covered
<1>. QED
  BY <1>3, <1>4

\* A value that is applied is the server's, or is written off as missed.
LEMMA ApplyCovers ==
  ASSUME TypeOK, NEW p \in session, NEW j \in Key, Apply(p, j, server[j]),
         NEW k \in Key
  PROVE  /\ up' = up
         /\ \A q \in session : q # p \/ j # k =>
              /\ local'[q][k] = local[q][k]
              /\ k \in missed'[q] <=> k \in missed[q]
         /\ j = k => local'[p][k] = server[k] \/ k \in missed'[p]
<1>1. p \in Peer /\ session \subseteq Peer
  BY DEF TypeOK
<1>2. up' = up
  BY DEF Apply, EchoGuarded
<1>3. \A q \in session : q # p \/ j # k => local'[q][k] = local[q][k]
  BY <1>1 DEF TypeOK, Apply
<1>4. \A q \in session : q # p \/ j # k => (k \in missed'[q] <=> k \in missed[q])
  BY <1>1 DEF TypeOK, Apply
<1>5. j = k => local'[p][k] = server[k] \/ k \in missed'[p]
  BY <1>1 DEF TypeOK, Apply
<1>. QED
  BY <1>2, <1>3, <1>4, <1>5

LEMMA NetWave ==
  ASSUME TypeOK, NEW m \in down, Receive(m), NEW k \in Key \ contended', Wave(k)
  PROVE  Wave(k)'
<1>1. m.to \in session /\ m.to \in Peer /\ m.key \in Key /\ m.val \in Val
  BY DEF TypeOK
<1>2. down' = down \ {m} /\ UNCHANGED <<server, session, contended>>
  BY DEF Receive
<1>3. DownCurrent(k)'
  BY <1>2 DEF Wave, DownCurrent
<1>4. m.key = k /\ server[k] # NoVal => m.val = server[k]
  BY DEF Wave, DownCurrent
<1>5. m.key = k => ~About(k, up)
  BY DEF Wave, UpAlone, About
<1>6. CASE m.key \in Direct
  <2>1. Apply(m.to, m.key, m.val) /\ UNCHANGED queue
    BY <1>6 DEF Receive
  <2>2. up' = up /\ QueueCurrent(k)'
    BY <1>2, <2>1 DEF Apply, EchoGuarded, Wave, QueueCurrent
  <2>3. \A q \in session : q # m.to \/ m.key # k =>
          local'[q][k] = local[q][k] /\ (k \in missed'[q] <=> k \in missed[q])
    BY <1>1, <2>1 DEF TypeOK, Apply
  <2>4. m.key = k /\ server[k] # NoVal => local'[m.to][k] = server[k] \/ k \in missed'[m.to]
    BY <1>1, <1>4, <2>1, ApplyCovers
  <2>5. UpAlone(k)'
    <3>1. CASE m.key = k
      BY <1>5, <2>2, <3>1 DEF UpAlone, About
    <3>2. CASE m.key # k
      BY <1>2, <2>1, <2>2, <2>3, <3>2 DEF TypeOK, Wave, UpAlone, About, Waiting
    <3>. QED
      BY <3>1, <3>2
  <2>6. ASSUME NEW q \in session', server'[k] # NoVal, k \notin missed'[q]
        PROVE  local'[q][k] = server'[k] \/ PendingTo(q, k)' \/ SentBy(q, k)'
    <3>1. CASE q = m.to /\ m.key = k
      BY <1>2, <2>4, <2>6, <3>1
    <3>2. CASE q # m.to \/ m.key # k
      <4>1. local[q][k] = server[k] \/ PendingTo(q, k) \/ SentBy(q, k)
        BY <1>2, <2>3, <2>6, <3>2 DEF Wave, Covered
      <4>. QED
        BY <1>2, <2>1, <2>2, <2>3, <2>6, <3>2, <4>1 DEF PendingTo, SentBy, Waiting
    <3>. QED
      BY <3>1, <3>2
  <2>. QED
    BY <1>3, <2>2, <2>5, <2>6 DEF Wave, Covered
<1>7. CASE m.key \notin Direct
  <2>1. /\ queue' = [queue EXCEPT ![m.to][m.key] = Append(@, m.val)]
        /\ UNCHANGED <<local, missed, up>>
    BY <1>7 DEF Receive
  <2>2. \A q \in Peer : q # m.to \/ m.key # k => queue'[q][k] = queue[q][k]
    BY <1>1, <2>1 DEF TypeOK
  <2>3. m.key = k => queue'[m.to][k] = Append(queue[m.to][k], m.val)
    BY <1>1, <2>1 DEF TypeOK
  <2>4. QueueCurrent(k)'
    <3> SUFFICES ASSUME server[k] # NoVal, NEW q \in Peer, NEW i \in DOMAIN queue'[q][k]
                 PROVE  queue'[q][k][i] = server[k]
      BY <1>2 DEF QueueCurrent
    <3>1. CASE q = m.to /\ m.key = k
      <4>1. queue[m.to][k] \in Seq(Val)
        BY <1>1 DEF TypeOK
      <4>2. queue'[q][k] = Append(queue[m.to][k], m.val)
        BY <2>3, <3>1
      <4>3. i \in DOMAIN queue[m.to][k] \/ i = Len(queue[m.to][k]) + 1
        BY <1>1, <4>1, <4>2
      <4>4. CASE i \in DOMAIN queue[m.to][k]
        BY <1>1, <3>1, <4>1, <4>2, <4>4 DEF Wave, QueueCurrent
      <4>5. CASE i = Len(queue[m.to][k]) + 1
        BY <1>1, <1>4, <3>1, <4>1, <4>2, <4>5
      <4>. QED
        BY <4>3, <4>4, <4>5
    <3>2. CASE q # m.to \/ m.key # k
      BY <2>2, <3>2 DEF Wave, QueueCurrent
    <3>. QED
      BY <3>1, <3>2
  <2>5. UpAlone(k)'
    <3>1. CASE m.key = k
      BY <1>5, <2>1, <3>1 DEF UpAlone, About
    <3>2. CASE m.key # k
      BY <1>2, <2>1, <2>2, <3>2 DEF Wave, UpAlone, About, Waiting
    <3>. QED
      BY <3>1, <3>2
  <2>6. m.key = k => Waiting(m.to, k)'
    <3>1. queue[m.to][k] \in Seq(Val)
      BY <1>1 DEF TypeOK
    <3>. QED
      BY <1>1, <2>3, <3>1 DEF Waiting
  <2>7. Covered(k)'
    <3> SUFFICES ASSUME NEW q \in session, server[k] # NoVal, k \notin missed[q]
                 PROVE  local[q][k] = server[k] \/ PendingTo(q, k)' \/ SentBy(q, k)
      BY <1>2, <2>1 DEF Covered, SentBy
    <3>1. CASE q = m.to /\ m.key = k
      BY <2>6, <3>1 DEF PendingTo
    <3>2. CASE q # m.to \/ m.key # k
      <4>1. local[q][k] = server[k] \/ PendingTo(q, k) \/ SentBy(q, k)
        BY DEF Wave, Covered
      <4>2. q \in Peer
        BY DEF TypeOK
      <4>. QED
        BY <1>2, <2>2, <3>2, <4>1, <4>2 DEF PendingTo, Waiting
    <3>. QED
      BY <3>1, <3>2
  <2>. QED
    BY <1>3, <2>4, <2>5, <2>7 DEF Wave
<1>. QED
  BY <1>6, <1>7

LEMMA MainWave ==
  ASSUME TypeOK, NEW p \in Peer, NEW j \in Key, Drain(p, j),
         NEW k \in Key \ contended', Wave(k)
  PROVE  Wave(k)'
<1> DEFINE v == Last(queue[p][j])
<1>1. v \in Val /\ p \in session /\ \E i \in DOMAIN queue[p][j] : v = queue[p][j][i]
  BY LastOf DEF Drain
<1>2. Apply(p, j, v) /\ UNCHANGED <<server, session, down>>
  BY DEF Drain
<1>3. j = k /\ server[k] # NoVal => v = server[k]
  BY <1>1 DEF Wave, QueueCurrent
<1>4. j = k => ~About(k, up)
  BY DEF Wave, UpAlone, About, Drain
<1>5. \A q \in Peer : q # p \/ j # k => queue'[q][k] = queue[q][k]
  BY DEF TypeOK, Drain
<1>6. j = k => queue'[p][k] = <<>>
  BY DEF TypeOK, Drain
<1>7. up' = up
  BY <1>2 DEF Apply, EchoGuarded
<1>8. \A q \in session : q # p \/ j # k =>
        local'[q][k] = local[q][k] /\ (k \in missed'[q] <=> k \in missed[q])
  <2>1. session \subseteq Peer
    BY DEF TypeOK
  <2>2. \A q \in session : q # p \/ j # k => local'[q][k] = local[q][k]
    BY <1>1, <1>2, <2>1 DEF TypeOK, Apply
  <2>3. \A q \in session : q # p \/ j # k => (k \in missed'[q] <=> k \in missed[q])
    BY <1>1, <1>2, <2>1 DEF TypeOK, Apply
  <2>. QED
    BY <2>2, <2>3
<1>9. j = k /\ server[k] # NoVal => local'[p][k] = server[k] \/ k \in missed'[p]
  BY <1>1, <1>2, <1>3, ApplyCovers
<1>10. DownCurrent(k)'
  BY <1>2 DEF Wave, DownCurrent
<1>11. QueueCurrent(k)'
  BY <1>2, <1>5, <1>6 DEF Wave, QueueCurrent
<1>12. UpAlone(k)'
  <2>1. CASE j = k
    BY <1>4, <1>7, <2>1 DEF UpAlone, About
  <2>2. CASE j # k
    BY <1>2, <1>5, <1>7, <1>8, <2>2 DEF TypeOK, Wave, UpAlone, About, Waiting
  <2>. QED
    BY <2>1, <2>2
<1>13. ASSUME NEW q \in session', server'[k] # NoVal, k \notin missed'[q]
       PROVE  local'[q][k] = server'[k] \/ PendingTo(q, k)' \/ SentBy(q, k)'
  <2>1. CASE q = p /\ j = k
    BY <1>2, <1>9, <1>13, <2>1
  <2>2. CASE q # p \/ j # k
    <3>1. q \in session /\ q \in Peer
      BY <1>2 DEF TypeOK
    <3>2. local[q][k] = server[k] \/ PendingTo(q, k) \/ SentBy(q, k)
      BY <1>2, <1>8, <1>13, <2>2, <3>1 DEF Wave, Covered
    <3>. QED
      BY <1>2, <1>5, <1>7, <1>8, <2>2, <3>1, <3>2 DEF PendingTo, SentBy, Waiting
  <2>. QED
    BY <2>1, <2>2
<1>. QED
  BY <1>10, <1>11, <1>12, <1>13 DEF Wave, Covered

LEMMA InvStep == ASSUME Inv, [Next]_vars PROVE Inv'
<1>1. TypeOK /\ TypeOK'
  BY TypeStep DEF Inv
<1>2. contended \subseteq contended'
  BY DEF Next, vars, Join, Leave, Write, Load, Unload, Report, ServerStep, NetStep, MainStep,
         Handle, Receive, Drain
<1>3. ASSUME NEW k \in Key \ contended' PROVE Wave(k)'
  <2>1. Wave(k) /\ TypeOK
    BY <1>2 DEF Inv
  <2>2. CASE UNCHANGED vars
    BY <2>1, <2>2, SameWave DEF vars
  <2>3. CASE \E p \in Peer, save \in Save : Join(p, save)
    BY <2>1, <2>3, JoinWave
  <2>4. CASE \E p \in Peer : Leave(p)
    BY <2>1, <2>4, LeaveWave
  <2>5. CASE \/ \E p \in Peer, j \in Key, v \in Val : Write(p, j, v)
             \/ \E p \in Peer, j \in Key : Load(p, j) \/ Unload(p, j)
    BY <2>1, <2>5, GameWave
  <2>6. CASE ServerStep
    BY <2>1, <2>6, ServerWave DEF ServerStep
  <2>7. CASE NetStep
    BY <2>1, <2>7, NetWave DEF NetStep
  <2>8. CASE MainStep
    BY <2>1, <2>8, MainWave DEF MainStep
  <2>. QED
    BY <2>2, <2>3, <2>4, <2>5, <2>6, <2>7, <2>8 DEF Next
<1>. QED
  BY <1>1, <1>3 DEF Inv

\* The players agree on every value that was never changed twice at the same
\* time, whatever the order of joins, relays, bootstraps and drains.
THEOREM Agreement == Spec => []CalmConverges
<1>1. Inv => CalmConverges
  <2> SUFFICES ASSUME Inv, NEW k \in Key \ contended, Idle(k), NEW p \in session,
                      server[k] # NoVal, k \notin missed[p]
               PROVE  local[p][k] = server[k]
    BY DEF CalmConverges
  <2>1. p \in Peer /\ Wave(k)
    BY DEF Inv, TypeOK
  <2>2. ~PendingTo(p, k) /\ ~SentBy(p, k)
    BY <2>1 DEF PendingTo, SentBy, Idle, About
  <2>. QED
    BY <2>1, <2>2 DEF Wave, Covered
<1>. QED
  BY <1>1, InitInv, InvStep, PTL DEF Spec
=============================================================================
