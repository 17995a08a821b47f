------------------------ MODULE ContainerSyncProofs ------------------------
(***************************************************************************)
(* Proofs about the shared container, for any clients, items and bounds.   *)
(*                                                                         *)
(* The first invariant is about identities: a sender and an id name one    *)
(* move, wherever it is.  So an ACK can only wake the submission it        *)
(* answers, and a broadcast goes out once.                                 *)
(*                                                                         *)
(* The second is about amounts: the server's record is what it was opened  *)
(* or refilled with and what accepted moves brought and took, and what all *)
(* players carry is what they began with and what their engines carried    *)
(* out.  The two together count the copies of every item.                  *)
(***************************************************************************)
EXTENDS ContainerSyncProps, SumTheorems, TLAPS

\* The types the argument needs.
Types ==
  /\ nextOp \in [Client -> Nat \ {0}]
  /\ pending \in [Client -> Move \cup {NoOp}]
  /\ applyQ \in [Client -> Seq(Move)]
  /\ opMsgs \subseteq Move
  /\ accepted \subseteq Move
  /\ ackMsgs \subseteq [to : Client, id : Nat, ok : BOOLEAN]
  /\ bcasts \subseteq [to : Client, op : Move]

\* A move that waits is its client's own, with an id drawn before.
PendingDrawn ==
  \A c \in Client :
    pending[c] # NoOp => pending[c].from = c /\ pending[c].id \in 1 .. nextOp[c] - 1

\* Every move at the server has an id its sender drew.
IdsDrawn == \A op \in opMsgs \cup accepted : op.id \in 1 .. nextOp[op.from] - 1

\* A sender and an id name one move.
IdsName ==
  /\ \A a, b \in opMsgs \cup accepted : a.from = b.from /\ a.id = b.id => a = b
  /\ \A c \in Client, a \in opMsgs \cup accepted :
       pending[c] # NoOp /\ a.from = c /\ a.id = pending[c].id => a = pending[c]

\* A move is judged once.
JudgedOnce == opMsgs \cap accepted = {}

\* An ACCEPTED on its way is the answer to a move that was accepted.
AcksSound ==
  \A a \in ackMsgs :
    /\ a.id # 0
    /\ a.ok => \E op \in accepted : op.from = a.to /\ op.id = a.id

\* The three parts of NoEcho, without its local names.
Sent == \A b \in bcasts : b.op \in accepted /\ b.op.from # b.to
Queued ==
  \A c \in Client : \A k \in DOMAIN applyQ[c] :
    /\ applyQ[c][k] \in accepted /\ applyQ[c][k].from # c
    /\ \A b \in bcasts : b.to = c => b.op # applyQ[c][k]
Distinct ==
  \A c \in Client : \A j, k \in DOMAIN applyQ[c] : applyQ[c][j] = applyQ[c][k] => j = k

Inv ==
  /\ Types /\ PendingDrawn /\ IdsDrawn /\ IdsName /\ JudgedOnce /\ AcksSound
  /\ Sent /\ Queued /\ Distinct /\ VerdictFirst

\* No move has been made.
LEMMA InitInv == Init => Inv
<1> SUFFICES ASSUME Init PROVE Inv
  OBVIOUS
<1>1. Types
  BY DEF Init, Types
<1>2. PendingDrawn /\ IdsDrawn /\ IdsName /\ JudgedOnce /\ AcksSound
  BY DEF Init, PendingDrawn, IdsDrawn, IdsName, JudgedOnce, AcksSound
<1>3. Sent /\ Queued /\ Distinct /\ VerdictFirst
  BY DEF Init, Sent, Queued, Distinct, VerdictFirst
<1> QED BY <1>1, <1>2, <1>3 DEF Inv

\* Submitting a move, from either hook: its id is new.
LEMMA SubmitStep ==
  ASSUME Inv, NEW c \in Client, NEW k \in {"TAKE", "PUT"}, NEW i \in Item, NEW n \in Counts,
         Submit(c, k, i, n)
  PROVE  Inv'
<1> DEFINE op == [from |-> c, id |-> nextOp[c], kind |-> k, item |-> i, count |-> n]
<1>1. /\ pending[c] = NoOp /\ opMsgs' = opMsgs \cup {op}
      /\ UNCHANGED <<applyQ, ackMsgs, bcasts, accepted, applied>>
  BY DEF Submit, serverVars
<1>2. nextOp' = [nextOp EXCEPT ![c] = @ + 1] /\ pending' = [pending EXCEPT ![c] = op]
  BY DEF Submit
<1>3. n \in Nat
  BY ContainerAssumption
<1>4. nextOp \in [Client -> Nat \ {0}] /\ nextOp[c] \in Nat /\ nextOp[c] > 0
  BY DEF Inv, Types
<1>5. op \in Move /\ op.from = c /\ op.id = nextOp[c]
  BY <1>3, <1>4 DEF Move
<1>6. op # NoOp
  BY <1>4, <1>5 DEF NoOp
<1> HIDE DEF op
<1>7. \A m \in opMsgs \cup accepted : m \in Move /\ m.from \in Client
  BY DEF Inv, Types, Move
<1>8. \A m \in opMsgs \cup accepted : m.from = c => m.id # nextOp[c]
  BY <1>4 DEF Inv, IdsDrawn
<1>9. \A d \in Client : nextOp'[d] \in Nat /\ nextOp[d] \in Nat /\ nextOp'[d] >= nextOp[d]
  BY <1>2, <1>4
<1>10. Types'
  BY <1>1, <1>2, <1>4, <1>5 DEF Inv, Types
<1>11. PendingDrawn'
  BY <1>2, <1>4, <1>5, <1>9 DEF Inv, Types, PendingDrawn
<1>12. IdsDrawn'
  <2>1. op.id \in 1 .. nextOp'[op.from] - 1
    BY <1>2, <1>4, <1>5
  <2>2. \A m \in opMsgs \cup accepted : m.id \in 1 .. nextOp'[m.from] - 1
    BY <1>7, <1>9 DEF Inv, IdsDrawn
  <2> QED BY <1>1, <2>1, <2>2 DEF IdsDrawn
<1>13. IdsName'
  <2>1. \A a, b \in (opMsgs \cup accepted)' : a.from = b.from /\ a.id = b.id => a = b
    BY <1>1, <1>5, <1>8 DEF Inv, IdsName
  <2>2. \A d \in Client, a \in (opMsgs \cup accepted)' :
          pending'[d] # NoOp /\ a.from = d /\ a.id = pending'[d].id => a = pending'[d]
    <3> SUFFICES ASSUME NEW d \in Client, NEW a \in (opMsgs \cup accepted)',
                        pending'[d] # NoOp, a.from = d, a.id = pending'[d].id
                 PROVE  a = pending'[d]
      OBVIOUS
    <3>1. CASE d = c
      <4>1. pending'[d] = op
        BY <1>2, <3>1 DEF Inv, Types
      <4> QED BY <1>1, <1>5, <1>8, <3>1, <4>1
    <3>2. CASE d # c
      <4>1. pending'[d] = pending[d]
        BY <1>2, <3>2 DEF Inv, Types
      <4>2. a # op
        BY <1>5, <3>2
      <4> QED BY <1>1, <4>1, <4>2 DEF Inv, IdsName
    <3> QED BY <3>1, <3>2
  <2> QED BY <2>1, <2>2 DEF IdsName
<1>14. JudgedOnce'
  BY <1>1, <1>5, <1>8 DEF Inv, JudgedOnce
<1>15. AcksSound' /\ Sent' /\ VerdictFirst'
  BY <1>1 DEF Inv, AcksSound, Sent, VerdictFirst
<1>16. Queued' /\ Distinct'
  BY <1>1 DEF Inv, Queued, Distinct
<1> QED BY <1>10, <1>11, <1>12, <1>13, <1>14, <1>15, <1>16 DEF Inv

\* The server judges a move.
LEMMA JudgeStep ==
  ASSUME Inv, NEW op \in opMsgs, ReceiveOp(op)
  PROVE  Inv'
<1>1. opMsgs' = opMsgs \ {op} /\ UNCHANGED <<nextOp, pending, applyQ, applied>>
  BY DEF ReceiveOp, clientVars
<1>2. op \in Move /\ op.from \in Client /\ op.id \in Nat /\ op.id # 0 /\ op \notin accepted
  BY DEF Inv, Types, Move, IdsDrawn, JudgedOnce
<1>3. \/ /\ accepted' = accepted \cup {op}
         /\ ackMsgs' = ackMsgs \cup {[to |-> op.from, id |-> op.id, ok |-> TRUE]}
         /\ bcasts' = bcasts \cup {[to |-> c, op |-> op] : c \in Client \ {op.from}}
      \/ /\ ackMsgs' = ackMsgs \cup {[to |-> op.from, id |-> op.id, ok |-> FALSE]}
         /\ UNCHANGED <<accepted, bcasts>>
  BY DEF ReceiveOp, Audience
<1>4. accepted \subseteq accepted' /\ accepted' \subseteq accepted \cup {op}
  BY <1>3
<1>5. (opMsgs \cup accepted)' \subseteq opMsgs \cup accepted
  BY <1>1, <1>4
<1>6. Types'
  <2>1. accepted' \subseteq Move /\ opMsgs' \subseteq Move
    BY <1>1, <1>2, <1>4 DEF Inv, Types
  <2>2. ackMsgs' \subseteq [to : Client, id : Nat, ok : BOOLEAN]
    <3>1. ackMsgs \subseteq [to : Client, id : Nat, ok : BOOLEAN]
      BY DEF Inv, Types
    <3>2. \A v \in BOOLEAN : [to |-> op.from, id |-> op.id, ok |-> v]
                               \in [to : Client, id : Nat, ok : BOOLEAN]
      BY <1>2
    <3>3. \E v \in BOOLEAN : ackMsgs' = ackMsgs \cup {[to |-> op.from, id |-> op.id, ok |-> v]}
      BY <1>3
    <3> QED BY <3>1, <3>2, <3>3
  <2>3. bcasts' \subseteq [to : Client, op : Move]
    BY <1>2, <1>3 DEF Inv, Types
  <2> QED BY <1>1, <2>1, <2>2, <2>3 DEF Inv, Types
<1>7. PendingDrawn' /\ IdsDrawn'
  BY <1>1, <1>5 DEF Inv, PendingDrawn, IdsDrawn
<1>8. IdsName'
  BY <1>1, <1>5 DEF Inv, IdsName
<1>9. JudgedOnce'
  BY <1>1, <1>4 DEF Inv, JudgedOnce
<1>10. AcksSound'
  <2>1. ASSUME NEW a \in ackMsgs, a.ok
        PROVE  \E m \in accepted' : m.from = a.to /\ m.id = a.id
    BY <1>4, <2>1 DEF Inv, AcksSound
  <2>2. \A a \in ackMsgs : a.id # 0
    BY DEF Inv, AcksSound
  <2>3. CASE /\ accepted' = accepted \cup {op}
             /\ ackMsgs' = ackMsgs \cup {[to |-> op.from, id |-> op.id, ok |-> TRUE]}
    BY <1>2, <2>1, <2>2, <2>3 DEF AcksSound
  <2>4. CASE ackMsgs' = ackMsgs \cup {[to |-> op.from, id |-> op.id, ok |-> FALSE]}
    BY <1>2, <2>1, <2>2, <2>4 DEF AcksSound
  <2> QED BY <1>3, <2>3, <2>4
<1>11. Sent'
  BY <1>2, <1>3 DEF Inv, Sent
<1>12. Queued'
  <2> SUFFICES ASSUME NEW c \in Client, NEW k \in DOMAIN applyQ[c]
               PROVE  /\ applyQ[c][k] \in accepted' /\ applyQ[c][k].from # c
                      /\ \A b \in bcasts' : b.to = c => b.op # applyQ[c][k]
    BY <1>1 DEF Queued
  <2>1. applyQ[c][k] \in accepted /\ applyQ[c][k].from # c
    BY DEF Inv, Queued
  <2>2. \A b \in bcasts : b.to = c => b.op # applyQ[c][k]
    BY DEF Inv, Queued
  <2>3. \A b \in bcasts' : b \in bcasts \/ b.op = op
    BY <1>3
  <2> QED BY <1>2, <1>4, <2>1, <2>2, <2>3
<1>13. Distinct' /\ VerdictFirst'
  BY <1>1, <1>4 DEF Inv, Distinct, VerdictFirst
<1> QED BY <1>6, <1>7, <1>8, <1>9, <1>10, <1>11, <1>12, <1>13 DEF Inv

\* An ACK wakes the submission it answers, and no other.
LEMMA AckStep ==
  ASSUME Inv, NEW a \in ackMsgs, ReceiveAck(a)
  PROVE  Inv'
<1>1. /\ ackMsgs' = ackMsgs \ {a}
      /\ UNCHANGED <<nextOp, applyQ, opMsgs, bcasts, accepted>>
  BY DEF ReceiveAck, serverVars
<1>2. a.to \in Client /\ a.id \in Nat /\ a.id # 0
  BY DEF Inv, Types, AcksSound
<1>3. pending' = pending \/ pending' = [pending EXCEPT ![a.to] = NoOp]
  BY DEF ReceiveAck
<1>4. \A c \in Client : pending'[c] = pending[c] \/ pending'[c] = NoOp
  BY <1>2, <1>3 DEF Inv, Types
<1>5. pending' \in [Client -> Move \cup {NoOp}]
  BY <1>2, <1>3 DEF Inv, Types
<1>6. Types'
  BY <1>1, <1>5 DEF Inv, Types
<1>7. PendingDrawn' /\ IdsDrawn' /\ IdsName'
  BY <1>1, <1>4 DEF Inv, PendingDrawn, IdsDrawn, IdsName
<1>8. JudgedOnce' /\ AcksSound' /\ Sent'
  BY <1>1 DEF Inv, JudgedOnce, AcksSound, Sent
<1>9. Queued' /\ Distinct'
  BY <1>1 DEF Inv, Queued, Distinct
<1>10. VerdictFirst'
  <2>1. CASE Answers(a, a.to) /\ a.ok
    <3>1. applied' = applied \cup {pending[a.to]}
      BY <2>1 DEF ReceiveAck, Perform
    <3>2. PICK op \in accepted : op.from = a.to /\ op.id = a.id
      BY <2>1 DEF Inv, AcksSound
    <3>3. pending[a.to].id = a.id /\ pending[a.to] # NoOp
      BY <1>2, <2>1 DEF Answers, NoOp
    <3>4. op = pending[a.to]
      BY <1>2, <3>2, <3>3 DEF Inv, IdsName
    <3> QED BY <1>1, <3>1, <3>4 DEF Inv, VerdictFirst
  <2>2. CASE ~(Answers(a, a.to) /\ a.ok)
    <3>1. applied' = applied
      BY <2>2 DEF ReceiveAck
    <3> QED BY <1>1, <3>1 DEF Inv, VerdictFirst
  <2> QED BY <2>1, <2>2
<1> QED BY <1>6, <1>7, <1>8, <1>9, <1>10 DEF Inv

\* A broadcast moves from the network to the queue.
LEMMA BcastStep ==
  ASSUME Inv, NEW b \in bcasts, ReceiveBcast(b)
  PROVE  Inv'
<1>1. /\ bcasts' = bcasts \ {b}
      /\ applyQ' = [applyQ EXCEPT ![b.to] = Append(@, b.op)]
      /\ UNCHANGED <<nextOp, pending, opMsgs, ackMsgs, accepted, applied>>
  BY DEF ReceiveBcast, serverVars
<1>2. b.to \in Client /\ b.op \in Move /\ b = [to |-> b.to, op |-> b.op]
  BY DEF Inv, Types
<1>3. applyQ \in [Client -> Seq(Move)] /\ applyQ[b.to] \in Seq(Move)
  BY <1>2 DEF Inv, Types
<1>4. applyQ' \in [Client -> Seq(Move)]
  BY <1>1, <1>2, <1>3
<1>5. Types'
  BY <1>1, <1>4 DEF Inv, Types
<1>6. PendingDrawn' /\ IdsDrawn' /\ IdsName' /\ JudgedOnce' /\ AcksSound' /\ Sent' /\ VerdictFirst'
  BY <1>1 DEF Inv, PendingDrawn, IdsDrawn, IdsName, JudgedOnce, AcksSound, Sent, VerdictFirst
<1>7. \A x \in bcasts' : x.to = b.to => x.op # b.op
  BY <1>1, <1>2 DEF Inv, Types
<1>8. b.op \in accepted /\ b.op.from # b.to
  BY DEF Inv, Sent
<1>9. \A c \in Client : c # b.to => applyQ'[c] = applyQ[c]
  BY <1>1, <1>3
<1>10. applyQ'[b.to] = Append(applyQ[b.to], b.op)
  BY <1>1, <1>2, <1>3
<1>11. \A k \in DOMAIN applyQ'[b.to] :
         \/ k \in DOMAIN applyQ[b.to] /\ applyQ'[b.to][k] = applyQ[b.to][k]
         \/ k = Len(applyQ[b.to]) + 1 /\ applyQ'[b.to][k] = b.op
  BY <1>2, <1>3, <1>10
<1>12. \A k \in DOMAIN applyQ[b.to] : applyQ[b.to][k] # b.op
  BY <1>2 DEF Inv, Queued
<1>13. Queued'
  <2> SUFFICES ASSUME NEW c \in Client, NEW k \in DOMAIN applyQ'[c]
               PROVE  /\ applyQ'[c][k] \in accepted /\ applyQ'[c][k].from # c
                      /\ \A x \in bcasts' : x.to = c => x.op # applyQ'[c][k]
    BY <1>1 DEF Queued
  <2>1. CASE c # b.to
    BY <1>1, <1>9, <2>1 DEF Inv, Queued
  <2>2. CASE c = b.to
    BY <1>1, <1>7, <1>8, <1>11, <2>2 DEF Inv, Queued
  <2> QED BY <2>1, <2>2
<1>14. Distinct'
  <2> SUFFICES ASSUME NEW c \in Client, NEW j \in DOMAIN applyQ'[c], NEW k \in DOMAIN applyQ'[c],
                      applyQ'[c][j] = applyQ'[c][k]
               PROVE  j = k
    BY DEF Distinct
  <2>1. CASE c # b.to
    BY <1>9, <2>1 DEF Inv, Distinct
  <2>2. CASE c = b.to
    BY <1>11, <1>12, <2>2 DEF Inv, Distinct
  <2> QED BY <2>1, <2>2
<1> QED BY <1>5, <1>6, <1>13, <1>14 DEF Inv

\* The main thread gives up, or empties its queue.
LEMMA MainStep ==
  ASSUME Inv, NEW c \in Client, Timeout(c) \/ DrainApplyQueue(c)
  PROVE  Inv'
<1>1. UNCHANGED <<nextOp, opMsgs, ackMsgs, bcasts, accepted, applied>>
  BY DEF Timeout, DrainApplyQueue, serverVars
<1>2. pending' = pending \/ pending' = [pending EXCEPT ![c] = NoOp]
  BY DEF Timeout, DrainApplyQueue
<1>3. applyQ' = applyQ \/ applyQ' = [applyQ EXCEPT ![c] = << >>]
  BY DEF Timeout, DrainApplyQueue
<1>4. \A d \in Client : pending'[d] = pending[d] \/ pending'[d] = NoOp
  BY <1>2 DEF Inv, Types
<1>5. \A d \in Client : applyQ'[d] = applyQ[d] \/ applyQ'[d] = << >>
  BY <1>3 DEF Inv, Types
<1>6. pending' \in [Client -> Move \cup {NoOp}]
  BY <1>2 DEF Inv, Types
<1>7. applyQ' \in [Client -> Seq(Move)]
  <2>1. applyQ \in [Client -> Seq(Move)] /\ << >> \in Seq(Move)
    BY DEF Inv, Types
  <2> HIDE DEF Move
  <2> QED BY <1>3, <2>1, Zenon
<1>8. Types'
  BY <1>1, <1>6, <1>7 DEF Inv, Types
<1>9. PendingDrawn' /\ IdsDrawn' /\ IdsName'
  BY <1>1, <1>4 DEF Inv, PendingDrawn, IdsDrawn, IdsName
<1>10. JudgedOnce' /\ AcksSound' /\ Sent' /\ VerdictFirst'
  BY <1>1 DEF Inv, JudgedOnce, AcksSound, Sent, VerdictFirst
<1>11. Queued' /\ Distinct'
  BY <1>1, <1>5 DEF Inv, Queued, Distinct
<1> QED BY <1>8, <1>9, <1>10, <1>11 DEF Inv

\* Identities hold throughout.
LEMMA ContainerInv == Spec => []Inv
<1>1. ASSUME Inv, [Next]_vars PROVE Inv'
  <2>1. ASSUME NEW c \in Client, NEW i \in Item, NEW n \in Counts, Take(c, i, n) \/ Put(c, i, n)
        PROVE  Inv'
    BY <1>1, <2>1, SubmitStep DEF Take, Put
  <2>2. ASSUME NEW op \in opMsgs, ReceiveOp(op) PROVE Inv'
    BY <1>1, <2>2, JudgeStep
  <2>3. CASE (\E m \in seedMsgs : ReceiveSeed(m)) \/ UNCHANGED vars
    <3>1. UNCHANGED <<nextOp, pending, applyQ, opMsgs, ackMsgs, bcasts, accepted, applied>>
      BY <2>3 DEF ReceiveSeed, clientVars, vars
    <3> QED BY <1>1, <3>1 DEF Inv, Types, PendingDrawn, IdsDrawn, IdsName, JudgedOnce,
                             AcksSound, Sent, Queued, Distinct, VerdictFirst
  <2>4. ASSUME NEW a \in ackMsgs, ReceiveAck(a) PROVE Inv'
    BY <1>1, <2>4, AckStep
  <2>5. ASSUME NEW b \in bcasts, ReceiveBcast(b) PROVE Inv'
    BY <1>1, <2>5, BcastStep
  <2>6. ASSUME NEW c \in Client, Timeout(c) \/ DrainApplyQueue(c) PROVE Inv'
    BY <1>1, <2>6, MainStep
  <2> QED BY <1>1, <2>1, <2>2, <2>3, <2>4, <2>5, <2>6 DEF Next
<1> QED BY InitInv, <1>1, PTL DEF Spec

\* A player's engine moves items only after the server accepted that very move,
\* however late the verdicts of moves he gave up come in (client.cpp:2131).
THEOREM Verdicts == Spec => []VerdictFirst
<1>1. Inv => VerdictFirst
  BY DEF Inv
<1> QED BY ContainerInv, <1>1, PTL

\* The broadcasts a client has queued or will receive are moves of others that
\* the server accepted, each of them once (main.py:671-673).
THEOREM Broadcasts == Spec => []NoEcho
<1>1. Inv => NoEcho
  <2> SUFFICES ASSUME Inv, NEW c \in Client
               PROVE  LET queued == {applyQ[c][k] : k \in DOMAIN applyQ[c]}
                          coming == {b.op : b \in {x \in bcasts : x.to = c}}
                      IN  /\ queued \cap coming = {}
                          /\ \A j, k \in DOMAIN applyQ[c] : applyQ[c][j] = applyQ[c][k] => j = k
                          /\ \A op \in queued \cup coming : op \in accepted /\ op.from # c
    BY DEF NoEcho
  <2> DEFINE queued == {applyQ[c][k] : k \in DOMAIN applyQ[c]}
             coming == {b.op : b \in {x \in bcasts : x.to = c}}
  <2>1. queued \cap coming = {}
    BY DEF Inv, Queued
  <2>2. \A j, k \in DOMAIN applyQ[c] : applyQ[c][j] = applyQ[c][k] => j = k
    BY DEF Inv, Distinct
  <2>3. \A op \in queued : op \in accepted /\ op.from # c
    BY DEF Inv, Queued
  <2>4. \A op \in coming : op \in accepted /\ op.from # c
    BY DEF Inv, Sent
  <2> QED BY <2>1, <2>2, <2>3, <2>4
<1> QED BY ContainerInv, <1>1, PTL

\* A main thread has leave for a move only from the server's verdict on that
\* move: the wait of both hooks is the abstract call (client.cpp:1284-1335,
\* main.py:636-655).
THEOREM CallImplemented == Spec => ImplementsCall
<1> DEFINE Waiting == [c \in Client |-> IF pending[c] = NoOp THEN {} ELSE {<<c, pending[c].id>>}]
           Made == UNION {{<<c, k>> : k \in 1 .. nextOp[c] - 1} : c \in Client}
           Granted == CallsOf(accepted)
           Cleared == CallsOf(applied)
<1>1. Init => Call!CallInit
  <2> SUFFICES ASSUME Init PROVE Call!CallInit
    OBVIOUS
  <2>1. Waiting = [c \in Client |-> {}] /\ Granted = {} /\ Cleared = {}
    BY DEF Init, CallsOf
  <2>2. \A c \in Client : nextOp[c] = 1
    BY DEF Init
  <2>3. \A c \in Client : 1 .. nextOp[c] - 1 = {}
    BY <2>2
  <2>4. Made = {}
    BY <2>3
  <2>. QED
    BY <2>1, <2>4 DEF Call!CallInit
<1>2. ASSUME Inv, [Next]_vars PROVE [Call!CallNext]_(Call!callVars)
  <2>1. /\ nextOp \in [Client -> Nat \ {0}] /\ pending \in [Client -> Move \cup {NoOp}]
        /\ \A c \in Client : \A k : <<c, k>> \in Made <=> k \in 1 .. nextOp[c] - 1
    BY <1>2 DEF Inv, Types
  <2>2. ASSUME NEW c \in Client, NEW k \in {"TAKE", "PUT"}, NEW i \in Item, NEW n \in Counts,
               Submit(c, k, i, n)
        PROVE  Call!Ask(c)
    <3>1. /\ pending[c] = NoOp /\ nextOp' = [nextOp EXCEPT ![c] = @ + 1]
          /\ pending' = [pending EXCEPT ![c] = [from |-> c, id |-> nextOp[c], kind |-> k,
                                               item |-> i, count |-> n]]
          /\ UNCHANGED <<accepted, applied>>
      BY <2>2 DEF Submit, serverVars
    <3>2. nextOp[c] \in Nat /\ nextOp[c] > 0 /\ pending'[c] # NoOp /\ pending'[c].id = nextOp[c]
      BY <2>1, <3>1 DEF NoOp
    <3>3. Waiting[c] = {} /\ Waiting' = [Waiting EXCEPT ![c] = {<<c, nextOp[c]>>}]
      BY <2>1, <3>1, <3>2
    <3>4. <<c, nextOp[c]>> \notin Made
      BY <2>1, <3>2
    <3>5. Made' = Made \cup {<<c, nextOp[c]>>}
      <4>1. ASSUME NEW d \in Client, NEW j
            PROVE  j \in 1 .. nextOp'[d] - 1 <=> j \in 1 .. nextOp[d] - 1 \/ (d = c /\ j = nextOp[c])
        <5>1. CASE d = c
          <6>1. nextOp'[c] = nextOp[c] + 1
            BY <2>1, <3>1
          <6>. QED
            BY <3>2, <5>1, <6>1
        <5>2. CASE d # c
          <6>1. nextOp'[d] = nextOp[d]
            BY <2>1, <3>1, <5>2
          <6>. QED
            BY <5>2, <6>1
        <5>. QED
          BY <5>1, <5>2
      <4>2. ASSUME NEW d \in Client
            PROVE  {<<d, j>> : j \in 1 .. nextOp'[d] - 1}
                     = {<<d, j>> : j \in 1 .. nextOp[d] - 1}
                         \cup (IF d = c THEN {<<c, nextOp[c]>>} ELSE {})
        BY <4>1
      <4>. QED
        BY <4>2
    <3>6. UNCHANGED <<Granted, Cleared>>
      BY <3>1
    <3>7. \E x \in Waiting'[c] : x \notin Made /\ Made' = Made \cup {x}
                                  /\ Waiting' = [Waiting EXCEPT ![c] = {x}]
      BY <3>3, <3>4, <3>5
    <3>. QED
      BY <3>3, <3>6, <3>7 DEF Call!Ask
  <2>3. ASSUME NEW op \in opMsgs, ReceiveOp(op) PROVE Call!CallNext \/ UNCHANGED Call!callVars
    <3>1. UNCHANGED <<pending, nextOp, applied>> /\ accepted' \in {accepted, accepted \cup {op}}
      BY <2>3 DEF ReceiveOp, clientVars
    <3>2. <<op.from, op.id>> \in Made
      <4>1. op.from \in Client /\ op.id \in 1 .. nextOp[op.from] - 1
        BY <1>2 DEF Inv, Types, IdsDrawn, Move
      <4>. QED
        BY <2>1, <4>1
    <3>3. UNCHANGED <<Waiting, Made, Cleared>>
      BY <3>1
    <3>4. CASE accepted' = accepted
      BY <3>1, <3>4 DEF Call!callVars
    <3>5. CASE accepted' = accepted \cup {op}
      <4>1. Granted' = Granted \cup {<<op.from, op.id>>}
        BY <3>5 DEF CallsOf
      <4>2. Call!Grant(<<op.from, op.id>>)
        BY <3>2, <3>3, <4>1 DEF Call!Grant
      <4>. QED
        BY <3>2, <4>2 DEF Call!CallNext
    <3>. QED
      BY <3>1, <3>4, <3>5
  <2>4. ASSUME NEW a \in ackMsgs, ReceiveAck(a) PROVE Call!CallNext \/ UNCHANGED Call!callVars
    <3>1. a.to \in Client /\ a.id # 0 /\ UNCHANGED <<nextOp, accepted>>
      BY <1>2, <2>4 DEF Inv, Types, AcksSound, ReceiveAck, serverVars
    <3>2. UNCHANGED <<Made, Granted>>
      BY <3>1
    <3>3. CASE ~Answers(a, a.to)
      BY <2>4, <3>1, <3>3 DEF ReceiveAck, Call!callVars
    <3>4. CASE Answers(a, a.to)
      <4> DEFINE c == a.to
                 op == pending[c]
      <4>1. op # NoOp /\ op.id = a.id /\ op.from = c
        BY <1>2, <3>1, <3>4 DEF Answers, NoOp, Inv, PendingDrawn
      <4>2. pending' = [pending EXCEPT ![c] = NoOp]
        BY <2>4, <3>4 DEF ReceiveAck
      <4>3. Waiting[c] = {<<c, a.id>>} /\ Waiting' = [Waiting EXCEPT ![c] = {}]
        BY <2>1, <3>1, <4>1, <4>2
      <4>4. CASE a.ok
        <5>1. applied' = applied \cup {op}
          BY <2>4, <3>4, <4>4 DEF ReceiveAck, Perform
        <5>2. Cleared' = Cleared \cup {<<c, a.id>>}
          BY <4>1, <5>1 DEF CallsOf
        <5>3. <<c, a.id>> \in Granted
          BY <1>2, <4>4 DEF Inv, AcksSound, CallsOf
        <5>. QED
          BY <3>1, <3>2, <4>3, <5>2, <5>3 DEF Call!GoAhead, Call!CallNext
      <4>5. CASE ~a.ok
        <5>1. UNCHANGED Cleared
          BY <2>4, <3>4, <4>5 DEF ReceiveAck
        <5>. QED
          BY <3>1, <3>2, <4>3, <5>1 DEF Call!GiveUp, Call!CallNext
      <4>. QED
        BY <4>4, <4>5
    <3>. QED
      BY <3>3, <3>4
  <2>5. ASSUME NEW c \in Client, Timeout(c) PROVE Call!GiveUp(c)
    <3>1. /\ pending[c] # NoOp /\ pending' = [pending EXCEPT ![c] = NoOp]
          /\ UNCHANGED <<nextOp, accepted, applied>>
      BY <2>5 DEF Timeout, serverVars
    <3>2. Waiting[c] # {} /\ Waiting' = [Waiting EXCEPT ![c] = {}]
      BY <2>1, <3>1
    <3>. QED
      BY <3>1, <3>2 DEF Call!GiveUp
  <2>6. CASE \/ \E m \in seedMsgs : ReceiveSeed(m)
             \/ \E b \in bcasts : ReceiveBcast(b)
             \/ \E c \in Client : DrainApplyQueue(c)
             \/ UNCHANGED vars
    <3>1. UNCHANGED <<pending, nextOp, accepted, applied>>
      BY <2>6 DEF ReceiveSeed, ReceiveBcast, DrainApplyQueue, vars, clientVars, serverVars
    <3>. QED
      BY <3>1 DEF Call!callVars
  <2>. QED
    BY <1>2, <2>2, <2>3, <2>4, <2>5, <2>6 DEF Next, Take, Put, Call!CallNext
<1>. QED
  BY <1>1, <1>2, ContainerInv, PTL DEF Spec, ImplementsCall, Call!CallSpec

----------------------------------------------------------------------------
(* Types.  The queue a main thread applies is folded over its copy of the  *)
(* container: the fold stays a Bag whatever the length of the queue.       *)

\* g is the fold of the moves of s over bag b, for every set of positions.
Folds(g, b, s) ==
  g = [T \in SUBSET DOMAIN s |->
         IF T = {} THEN b ELSE Moved(g[T \ {Max(T)}], s[Max(T)])]

\* What FoldLeft stands for.
LEMMA FoldDef ==
  ASSUME NEW b, NEW s
  PROVE  FoldLeft(Moved, b, s) = (CHOOSE g : Folds(g, b, s))[DOMAIN s]
BY DEF FoldLeft, MapThenFoldSet, Folds

\* A set of positions that is not empty has a last one.
LEMMA MaxIn ==
  ASSUME NEW n \in Nat, NEW T \in SUBSET (1 .. n), T # {}
  PROVE  Max(T) \in T
<1> DEFINE G == {U \in SUBSET (1 .. n) : U = {} \/ \E x \in U : \A y \in U : x >= y}
<1>1. IsFiniteSet(1 .. n)
  BY FS_Interval
<1>2. ASSUME NEW U \in SUBSET (1 .. n), \A x \in U : U \ {x} \in G PROVE U \in G
  <2>1. CASE U = {}
    BY <2>1
  <2>2. ASSUME NEW e \in U PROVE U \in G
    <3>1. CASE U \ {e} = {}
      BY <3>1
    <3>2. CASE U \ {e} # {}
      <4>1. PICK x \in U \ {e} : \A y \in U \ {e} : x >= y
        BY <1>2, <3>2
      <4>2. CASE x >= e
        BY <4>1, <4>2
      <4>3. CASE ~(x >= e)
        <5>1. \A y \in U : e >= y
          BY <4>1, <4>3
        <5>. QED
          BY <5>1
      <4>. QED
        BY <4>2, <4>3
    <3>. QED
      BY <3>1, <3>2
  <2>. QED
    BY <2>1, <2>2
<1>3. SUBSET (1 .. n) \subseteq G
  <2> HIDE DEF G
  <2>. QED
    BY <1>1, <1>2, SubsetChain
<1>. QED
  BY <1>3 DEF Max

\* A move keeps a container a container.
LEMMA MovedBag ==
  ASSUME NEW b \in Bag, NEW op \in Move
  PROVE  Moved(b, op) \in Bag
<1>1. op.item \in Item /\ op.count \in Nat /\ b[op.item] \in Nat
  BY DEF Move, Bag
<1>2. Less(b[op.item], op.count) \in Nat /\ b[op.item] + op.count \in Nat
  BY <1>1 DEF Less
<1>. QED
  BY <1>1, <1>2 DEF Moved, Bag

\* The fold is defined: by stages, for sets of at most n positions.
LEMMA FoldExists ==
  ASSUME NEW b, NEW s \in Seq(Move)
  PROVE  \E g : Folds(g, b, s)
<1> DEFINE S == DOMAIN s
           Stage(g, T) == IF T = {} THEN b ELSE Moved(g[T \ {Max(T)}], s[Max(T)])
           Upto(g, n) == \A T \in SUBSET S : Cardinality(T) <= n => g[T] = Stage(g, T)
           G == {n \in Nat : \E g : g = [T \in SUBSET S |-> g[T]] /\ Upto(g, n)}
<1>1. S = 1 .. Len(s) /\ Len(s) \in Nat /\ IsFiniteSet(S)
  BY FS_Interval
<1>2. \A T \in SUBSET S : /\ Cardinality(T) \in Nat /\ IsFiniteSet(T)
                          /\ Cardinality(T) = 0 <=> T = {}
                          /\ Cardinality(T) <= Cardinality(S)
  BY <1>1, FS_Subset, FS_CardinalityType, FS_EmptySet
<1>3. \A T \in SUBSET S : T # {} => Max(T) \in T
  BY <1>1, MaxIn
<1> HIDE DEF S
<1>4. 0 \in G
  <2> DEFINE z == [T \in SUBSET S |-> b]
  <2>1. z = [T \in SUBSET S |-> z[T]] /\ Upto(z, 0)
    BY <1>2
  <2>. QED
    BY <2>1
<1>5. ASSUME NEW n \in G PROVE n + 1 \in G
  <2>1. PICK g : g = [T \in SUBSET S |-> g[T]] /\ Upto(g, n)
    OBVIOUS
  <2> DEFINE h == [T \in SUBSET S |-> IF Cardinality(T) <= n THEN g[T] ELSE Stage(g, T)]
  <2>2. ASSUME NEW T \in SUBSET S, Cardinality(T) <= n + 1 PROVE h[T] = Stage(h, T)
    <3>1. CASE T = {}
      BY <1>2, <2>1, <3>1
    <3>2. CASE T # {}
      <4>1. Max(T) \in T /\ T \ {Max(T)} \in SUBSET S
        BY <1>3, <3>2
      <4>2. Cardinality(T \ {Max(T)}) <= n
        BY <1>2, <2>2, <4>1, FS_RemoveElement
      <4>3. h[T \ {Max(T)}] = g[T \ {Max(T)}]
        BY <4>1, <4>2
      <4>4. h[T] = Stage(g, T)
        BY <2>1
      <4>. QED
        BY <3>2, <4>3, <4>4
    <3>. QED
      BY <3>1, <3>2
  <2>3. h = [T \in SUBSET S |-> h[T]]
    OBVIOUS
  <2>4. Upto(h, n + 1)
    BY <2>2
  <2>5. n + 1 \in Nat
    OBVIOUS
  <2> HIDE DEF h, Upto
  <2>. QED
    BY <2>3, <2>4, <2>5
<1>6. G = Nat
  <2>1. G \in SUBSET Nat
    OBVIOUS
  <2> HIDE DEF G
  <2>. QED
    BY <1>4, <1>5, <2>1, NatChain
<1>7. Cardinality(S) \in G
  BY <1>2, <1>6
<1>8. PICK g : g = [T \in SUBSET S |-> g[T]] /\ Upto(g, Cardinality(S))
  BY <1>7
<1>9. \A T \in SUBSET S : g[T] = Stage(g, T)
  BY <1>2, <1>8
<1>10. g = [T \in SUBSET S |-> Stage(g, T)]
  BY <1>8, <1>9
<1>. QED
  BY <1>10 DEF Folds, S

\* Applying a queue keeps a container a container.
LEMMA DrainedBag ==
  ASSUME NEW b \in Bag, NEW s \in Seq(Move)
  PROVE  FoldLeft(Moved, b, s) \in Bag
<1> DEFINE S == DOMAIN s
           g == CHOOSE h : Folds(h, b, s)
           G == {T \in SUBSET S : g[T] \in Bag}
<1>1. Folds(g, b, s)
  BY FoldExists
<1> HIDE DEF g
<1>2. \A T \in SUBSET S : g[T] = IF T = {} THEN b ELSE Moved(g[T \ {Max(T)}], s[Max(T)])
  BY <1>1 DEF Folds
<1>3. IsFiniteSet(S)
  BY FS_Interval
<1>4. \A T \in SUBSET S : T # {} => Max(T) \in T
  BY MaxIn
<1>5. \A x \in S : s[x] \in Move
  OBVIOUS
<1> HIDE DEF S
<1>6. ASSUME NEW T \in SUBSET S, \A x \in T : T \ {x} \in G PROVE T \in G
  <2>1. CASE T = {}
    BY <1>2, <2>1
  <2>2. CASE T # {}
    <3>1. Max(T) \in T
      BY <1>4, <2>2
    <3>2. g[T \ {Max(T)}] \in Bag
      BY <1>6, <3>1
    <3>3. s[Max(T)] \in Move
      BY <1>5, <3>1
    <3>. QED
      BY <1>2, <2>2, <3>2, <3>3, MovedBag
  <2>. QED
    BY <2>1, <2>2
<1>7. SUBSET S \subseteq G
  <2> HIDE DEF G
  <2>. QED
    BY <1>3, <1>6, SubsetChain
<1>8. g[S] \in Bag
  BY <1>7
<1>. QED
  BY <1>8, FoldDef DEF g, S

\* The chunks of a SEED report no more than the client's copy holds.
LEMMA ChunksTyped ==
  ASSUME view \in [Client -> Bag], NEW c \in Client, NEW S \in Scans(c),
         NEW chunks \in Chunkings(c, S)
  PROVE  /\ chunks \subseteq [from : Client, chunk : Nat, items : Bag]
         /\ \A m \in chunks : \A i \in Item : m.items[i] <= view[c][i]
<1> DEFINE total == (Cardinality(S) + ChunkCap - 1) \div ChunkCap
           part(f, k) == [i \in Item |-> IF i \in {j \in S : f[j] = k} THEN view[c][i] ELSE 0]
<1>1. IsFiniteSet(S) /\ Cardinality(S) \in Nat
  <2>1. S \in SUBSET Item
    BY DEF Scans, kSubset
  <2>. QED
    BY <2>1, ContainerAssumption, FS_Subset, FS_CardinalityType
<1>2. total \in Int
  BY <1>1, ContainerAssumption
<1>3. view[c] \in Bag /\ \A i \in Item : view[c][i] \in Nat
  BY DEF Bag
<1>4. \A f, k : part(f, k) \in Bag /\ \A i \in Item : part(f, k)[i] <= view[c][i]
  BY <1>3 DEF Bag
<1>5. PICK f : chunks = {[from |-> c, chunk |-> k, items |-> part(f, k)] : k \in 1 .. total}
  BY DEF Chunkings
<1> HIDE DEF total, part
<1>. QED
  BY <1>2, <1>4, <1>5

\* Starting a move, with its SEED, keeps the types.
LEMMA StartTyped ==
  ASSUME TypeOK, NEW c \in Client, NEW k \in {"TAKE", "PUT"}, NEW i \in Item, NEW n \in Counts,
         MaybeSeed(c) \/ UNCHANGED <<seeded, seedMsgs>>, Submit(c, k, i, n)
  PROVE  TypeOK'
<1> DEFINE op == [from |-> c, id |-> nextOp[c], kind |-> k, item |-> i, count |-> n]
<1>1. op \in Move
  BY ContainerAssumption DEF TypeOK, Move
<1>2. /\ nextOp' = [nextOp EXCEPT ![c] = @ + 1] /\ pending' = [pending EXCEPT ![c] = op]
      /\ opMsgs' = opMsgs \cup {op}
      /\ UNCHANGED <<view, inv, applyQ, ackMsgs, bcasts, known, items, accepted, trusted,
                     created, refilled, applied>>
  BY DEF Submit, serverVars
<1> HIDE DEF op
<1>3. seeded' \subseteq Client /\ seedMsgs' \subseteq [from : Client, chunk : Nat, items : Bag]
  BY ChunksTyped DEF TypeOK, MaybeSeed
<1>4. nextOp' \in [Client -> Nat] /\ pending' \in [Client -> Move \cup {NoOp}]
  BY <1>1, <1>2 DEF TypeOK
<1>. QED
  BY <1>1, <1>2, <1>3, <1>4 DEF TypeOK

\* A verdict keeps the types.
LEMMA JudgeTyped ==
  ASSUME TypeOK, NEW op \in opMsgs, ReceiveOp(op)
  PROVE  TypeOK'
<1>1. op \in Move /\ op.from \in Client /\ op.id \in Nat
  BY DEF TypeOK, Move
<1>2. /\ opMsgs' = opMsgs \ {op}
      /\ UNCHANGED <<view, inv, seeded, pending, nextOp, applyQ, seedMsgs, applied, created,
                     refilled>>
  BY DEF ReceiveOp, clientVars
<1>3. known' \in BOOLEAN /\ items' \in Bag
  BY <1>1, MovedBag DEF TypeOK, ReceiveOp, RecordOp
<1>4. accepted' \subseteq Move /\ trusted' \subseteq Move
  BY <1>1 DEF TypeOK, ReceiveOp, RecordOp
<1>5. bcasts' \subseteq [to : Client, op : Move]
  BY <1>1 DEF TypeOK, ReceiveOp, Audience
<1>6. ackMsgs' \subseteq [to : Client, id : Nat, ok : BOOLEAN]
  <2>1. \A v \in BOOLEAN : [to |-> op.from, id |-> op.id, ok |-> v]
                             \in [to : Client, id : Nat, ok : BOOLEAN]
    BY <1>1
  <2>2. \E v \in BOOLEAN : ackMsgs' = ackMsgs \cup {[to |-> op.from, id |-> op.id, ok |-> v]}
    BY DEF ReceiveOp
  <2>. QED
    BY <2>1, <2>2 DEF TypeOK
<1>. QED
  BY <1>2, <1>3, <1>4, <1>5, <1>6 DEF TypeOK

\* So does a SEED.
LEMMA SeedTyped ==
  ASSUME TypeOK, NEW m \in seedMsgs, ReceiveSeed(m)
  PROVE  TypeOK'
<1>1. m.items \in Bag
  BY DEF TypeOK
<1>2. /\ seedMsgs' = seedMsgs \ {m}
      /\ UNCHANGED <<view, inv, seeded, pending, nextOp, applyQ, opMsgs, ackMsgs, bcasts,
                     accepted, applied, trusted>>
  BY DEF ReceiveSeed, clientVars
<1>3. known' \in BOOLEAN /\ items' \in Bag /\ created' \in Bag
  BY <1>1 DEF TypeOK, ReceiveSeed
<1>4. refilled' \in Bag
  BY <1>1 DEF TypeOK, ReceiveSeed, Bag
<1>. QED
  BY <1>2, <1>3, <1>4 DEF TypeOK

\* The engine of a player moves items of its own.
LEMMA PerformTyped ==
  ASSUME TypeOK, NEW op \in Move, Perform(op)
  PROVE  view' \in [Client -> Bag] /\ inv' \in [Client -> Bag] /\ applied' \subseteq Move
<1>1. op.from \in Client /\ op.item \in Item /\ op.count \in Nat
  BY DEF Move
<1>2. view' \in [Client -> Bag]
  BY <1>1, MovedBag DEF TypeOK, Perform
<1>3. inv' \in [Client -> Bag]
  <2>1. inv[op.from] \in Bag /\ inv[op.from][op.item] \in Nat
    BY <1>1 DEF TypeOK, Bag
  <2>2. \A n \in Nat : [inv[op.from] EXCEPT ![op.item] = n] \in Bag
    BY <1>1, <2>1 DEF Bag
  <2> DEFINE n == IF op.kind = "TAKE" THEN inv[op.from][op.item] + op.count
                  ELSE Less(inv[op.from][op.item], op.count)
  <2>3. n \in Nat
    BY <1>1, <2>1 DEF Less
  <2>4. inv' = [inv EXCEPT ![op.from] = [@ EXCEPT ![op.item] = n]]
    BY <1>1 DEF TypeOK, Perform
  <2> HIDE DEF n
  <2>. QED
    BY <1>1, <2>2, <2>3, <2>4 DEF TypeOK
<1>4. applied' \subseteq Move
  BY DEF TypeOK, Perform
<1>. QED
  BY <1>2, <1>3, <1>4

\* And a verdict that reaches its client.
LEMMA AckTyped ==
  ASSUME TypeOK, Inv, NEW a \in ackMsgs, ReceiveAck(a)
  PROVE  TypeOK'
<1>1. /\ ackMsgs' = ackMsgs \ {a}
      /\ UNCHANGED <<seeded, nextOp, applyQ, opMsgs, seedMsgs, bcasts, known, items, accepted,
                     trusted, created, refilled>>
  BY DEF ReceiveAck, serverVars
<1>2. a.to \in Client /\ a.id \in Nat /\ a.id # 0
  BY DEF TypeOK, Inv, AcksSound
<1>3. pending' \in [Client -> Move \cup {NoOp}]
  BY <1>2 DEF TypeOK, ReceiveAck
<1>4. view' \in [Client -> Bag] /\ inv' \in [Client -> Bag] /\ applied' \subseteq Move
  <2>1. CASE Answers(a, a.to) /\ a.ok
    <3>1. pending[a.to] \in Move
      BY <1>2, <2>1 DEF TypeOK, Answers, NoOp
    <3>. QED
      BY <2>1, <3>1, PerformTyped DEF ReceiveAck
  <2>2. CASE ~(Answers(a, a.to) /\ a.ok)
    BY <2>2 DEF TypeOK, ReceiveAck
  <2>. QED
    BY <2>1, <2>2
<1>. QED
  BY <1>1, <1>3, <1>4 DEF TypeOK

\* And what a main thread does on its own: giving up, and applying its queue.
LEMMA MainTyped ==
  ASSUME TypeOK, Inv', NEW c \in Client, Timeout(c) \/ DrainApplyQueue(c)
  PROVE  TypeOK'
<1>1. UNCHANGED <<inv, seeded, nextOp, opMsgs, seedMsgs, ackMsgs, bcasts, known, items, accepted,
                  trusted, created, refilled, applied>>
  BY DEF Timeout, DrainApplyQueue, serverVars
<1>2. view' \in [Client -> Bag]
  <2>1. FoldLeft(Moved, view[c], applyQ[c]) \in Bag
    BY DrainedBag DEF TypeOK
  <2>2. view' = view \/ view' = [view EXCEPT ![c] = FoldLeft(Moved, @, applyQ[c])]
    BY DEF Timeout, DrainApplyQueue
  <2>. QED
    BY <2>1, <2>2 DEF TypeOK
<1>. QED
  BY <1>1, <1>2 DEF TypeOK, Inv, Types

\* And the types.
LEMMA ContainerTyped == Spec => [](Inv /\ TypeOK)
<1>1. Init => TypeOK
  BY ContainerAssumption DEF Init, TypeOK, Bag, Empty
<1>2. ASSUME Inv, Inv', TypeOK, [Next]_vars PROVE TypeOK'
  <2>1. ASSUME NEW c \in Client, NEW i \in Item, NEW n \in Counts, Take(c, i, n) \/ Put(c, i, n)
        PROVE  TypeOK'
    BY <1>2, <2>1, StartTyped DEF Take, Put
  <2>2. ASSUME NEW op \in opMsgs, ReceiveOp(op) PROVE TypeOK'
    BY <1>2, <2>2, JudgeTyped
  <2>3. ASSUME NEW m \in seedMsgs, ReceiveSeed(m) PROVE TypeOK'
    BY <1>2, <2>3, SeedTyped
  <2>4. ASSUME NEW a \in ackMsgs, ReceiveAck(a) PROVE TypeOK'
    BY <1>2, <2>4, AckTyped
  <2>5. ASSUME NEW b \in bcasts, ReceiveBcast(b) PROVE TypeOK'
    <3>1. UNCHANGED <<view, inv, seeded, seedMsgs, opMsgs, ackMsgs, known, items, accepted,
                      trusted, created, refilled, applied, nextOp, pending>>
      BY <2>5 DEF ReceiveBcast, serverVars
    <3>. QED
      BY <1>2, <3>1 DEF TypeOK, Inv, Types
  <2>6. ASSUME NEW c \in Client, Timeout(c) \/ DrainApplyQueue(c) PROVE TypeOK'
    BY <1>2, <2>6, MainTyped
  <2>7. CASE UNCHANGED vars
    BY <1>2, <2>7 DEF vars, TypeOK
  <2>. QED
    BY <1>2, <2>1, <2>2, <2>3, <2>4, <2>5, <2>6, <2>7 DEF Next
<1>. QED
  BY ContainerInv, <1>1, <1>2, PTL DEF Spec

\* Every copy, every inventory, the books and every message keep their types,
\* through clamps, folds and chunks (state.py:397-470, container_hook.cpp).
THEOREM TypeCorrect == Spec => []TypeOK
BY ContainerTyped, PTL

----------------------------------------------------------------------------
(* The books.  Three facts besides the two balances make the argument.     *)

\* As long as nobody reported the container, nothing has moved: what asks for
\* its items, and every scan on its way, is within the stock.
Unreported ==
  ~known =>
    /\ items = Empty /\ created = Empty /\ refilled = Empty /\ accepted = {}
    /\ view = [c \in Client |-> Stock] /\ inv = [c \in Client |-> Carried]
    /\ \A op \in opMsgs : op.kind = "TAKE" => op.count <= Stock[op.item]
    /\ \A m \in seedMsgs : \A i \in Item : m.items[i] <= Stock[i]

\* The moves that were trusted are some of those accepted.
Traced == IsFiniteSet(accepted) /\ trusted \subseteq accepted

\* A move that waits was not carried out, and who puts still has what he puts.
InHand ==
  \A c \in Client :
    pending[c] # NoOp =>
      /\ pending[c] \notin applied
      /\ pending[c].kind = "PUT" => inv[c][pending[c].item] >= pending[c].count

\* DuplicatesExplained, with the TAKEs that the server has accepted and no
\* engine has carried out: those are copies, too, that a player may yet get.
Account ==
  \A i \in Item :
    Copies(i) + Carry(accepted \ applied, "TAKE", i)
      <= Stock[i] + Cardinality(Client) * Carried[i]
           + refilled[i] + Carry(accepted \ applied, "PUT", i)

Books == Unreported /\ Traced /\ InHand /\ BooksBalance /\ Account

\* What moves carry is a natural number.
LEMMA CarryNat ==
  ASSUME NEW S \in SUBSET Move, IsFiniteSet(S), NEW k, NEW i
  PROVE  Carry(S, k, i) \in Nat
<1> DEFINE M == {m \in S : m.kind = k /\ m.item = i}
           f == [op \in M |-> op.count]
<1>1. IsFiniteSet(M)
  BY FS_Subset
<1>2. \A m \in M : f[m] \in Nat
  BY DEF Move
<1>3. Carry(S, k, i) = SumFunctionOnSet(f, M)
  BY DEF Carry, SumFunction
<1> HIDE DEF f, M
<1>. QED
  BY <1>1, <1>2, <1>3, SumNat

\* No moves carry nothing.
LEMMA CarryNone == \A k, i : Carry({}, k, i) = 0
<1> SUFFICES ASSUME NEW k, NEW i PROVE Carry({}, k, i) = 0
  OBVIOUS
<1> DEFINE f == [op \in {m \in {} : m.kind = k /\ m.item = i} |-> op.count]
<1>1. DOMAIN f = {}
  OBVIOUS
<1>2. Carry({}, k, i) = SumFunctionOnSet(f, DOMAIN f)
  BY DEF Carry, SumFunction
<1> HIDE DEF f
<1>. QED
  BY <1>1, <1>2, SumEmpty

\* One more move carries its count more, of its item, and nothing else.
LEMMA CarryAdd ==
  ASSUME NEW S \in SUBSET Move, IsFiniteSet(S), NEW op \in Move, op \notin S, NEW k, NEW i
  PROVE  Carry(S \cup {op}, k, i)
           = Carry(S, k, i) + (IF op.kind = k /\ op.item = i THEN op.count ELSE 0)
<1> DEFINE T == S \cup {op}
           M == {m \in S : m.kind = k /\ m.item = i}
           N == {m \in T : m.kind = k /\ m.item = i}
           f == [m \in M |-> m.count]
           g == [m \in N |-> m.count]
<1>1. IsFiniteSet(M)
  BY FS_Subset
<1>2. /\ \A m \in N : g[m] = m.count /\ g[m] \in Nat
      /\ \A m \in M : f[m] = m.count
      /\ M \subseteq N
  BY DEF Move
<1>3. Carry(S, k, i) = SumFunctionOnSet(f, M) /\ Carry(T, k, i) = SumFunctionOnSet(g, N)
  BY DEF Carry, SumFunction
<1>4. Carry(S, k, i) \in Nat
  BY CarryNat
<1>5. CASE op.kind = k /\ op.item = i
  <2>1. N = M \cup {op} /\ op \notin M
    BY <1>5
  <2>2. \A m \in M \cup {op} : g[m] \in Nat
    BY <1>2, <2>1
  <2> HIDE DEF M, N, f, g
  <2>3. SumFunctionOnSet(g, M \cup {op}) = SumFunctionOnSet(g, M) + g[op]
    BY <1>1, <2>1, <2>2, SumAdd
  <2>4. SumFunctionOnSet(g, M) = SumFunctionOnSet(f, M)
    BY <1>1, <1>2, SumSame
  <2>. QED
    BY <1>2, <1>3, <1>5, <2>1, <2>3, <2>4
<1>6. CASE ~(op.kind = k /\ op.item = i)
  <2>1. N = M
    BY <1>6
  <2> HIDE DEF M, N, f, g
  <2>2. SumFunctionOnSet(g, M) = SumFunctionOnSet(f, M)
    BY <1>1, <1>2, SumSame
  <2>. QED
    BY <1>3, <1>4, <1>6, <2>1, <2>2
<1>. QED
  BY <1>5, <1>6

\* What the players carry is a natural number, and changes with one pocket.
LEMMA PocketsNat ==
  ASSUME inv \in [Client -> Bag], NEW i \in Item
  PROVE  Pockets(i) \in Nat
<1> DEFINE f == [c \in Client |-> inv[c][i]]
<1>1. \A c \in Client : f[c] \in Nat
  BY DEF Bag
<1>2. Pockets(i) = SumFunctionOnSet(f, Client)
  BY DEF Pockets, SumFunction
<1> HIDE DEF f
<1>. QED
  BY <1>1, <1>2, ContainerAssumption, SumNat

\* Only one player's pocket changes at a time.
LEMMA PocketsChange ==
  ASSUME inv \in [Client -> Bag], inv' \in [Client -> Bag], NEW c \in Client, NEW i \in Item,
         \A d \in Client \ {c} : inv'[d][i] = inv[d][i]
  PROVE  Pockets(i)' + inv[c][i] = Pockets(i) + inv'[c][i]
<1> DEFINE f == [d \in Client |-> inv[d][i]]
           g == [d \in Client |-> inv'[d][i]]
<1>1. \A d \in Client : f[d] \in Nat /\ g[d] \in Nat
  BY DEF Bag
<1>2. \A d \in Client \ {c} : f[d] = g[d]
  OBVIOUS
<1>3. f[c] = inv[c][i] /\ g[c] = inv'[c][i]
  OBVIOUS
<1>4. Pockets(i) = SumFunctionOnSet(f, Client) /\ Pockets(i)' = SumFunctionOnSet(g, Client)
  BY DEF Pockets, SumFunction
<1>5. IsFiniteSet(Client)
  BY ContainerAssumption
<1> HIDE DEF f, g
<1>6. SumFunctionOnSet(g, Client) + f[c] = SumFunctionOnSet(f, Client) + g[c]
  BY <1>1, <1>2, <1>5, SumChange
<1>. QED
  BY <1>3, <1>4, <1>6

\* While nothing has moved the players carry what they started with.
LEMMA PocketsStart ==
  ASSUME inv = [c \in Client |-> Carried], NEW i \in Item
  PROVE  Pockets(i) = Cardinality(Client) * Carried[i]
<1> DEFINE f == [c \in Client |-> inv[c][i]]
<1>1. Carried[i] \in Nat /\ \A c \in Client : f[c] = Carried[i]
  BY ContainerAssumption
<1>2. Pockets(i) = SumFunctionOnSet(f, Client)
  BY DEF Pockets, SumFunction
<1> HIDE DEF f
<1>. QED
  BY <1>1, <1>2, ContainerAssumption, SumConstant

\* The books begin as they are opened, with nothing moved.
LEMMA InitBooks == Init => Books
<1> SUFFICES ASSUME Init PROVE Books
  OBVIOUS
<1>1. /\ inv = [c \in Client |-> Carried] /\ view = [c \in Client |-> Stock]
      /\ accepted = {} /\ applied = {} /\ trusted = {} /\ opMsgs = {} /\ seedMsgs = {}
      /\ created = items /\ refilled = Empty /\ pending = [c \in Client |-> NoOp]
      /\ known \in BOOLEAN /\ items = IF known THEN Stock ELSE Empty
  BY DEF Init
<1>2. Unreported /\ InHand
  BY <1>1 DEF Unreported, InHand
<1>3. Traced
  BY <1>1, FS_EmptySet DEF Traced
<1>4. ASSUME NEW i \in Item
      PROVE  /\ refilled[i] = 0 /\ items[i] \in Nat /\ items[i] <= Stock[i]
             /\ created[i] = items[i] /\ Stock[i] \in Nat /\ Carried[i] \in Nat
  BY <1>1, ContainerAssumption DEF Empty
<1>5. accepted \ trusted = {} /\ accepted \ applied = {}
  BY <1>1
<1>6. BooksBalance
  <2> SUFFICES ASSUME NEW i \in Item
               PROVE  items[i] = created[i] + refilled[i] + Carry(accepted, "PUT", i)
                                   - Carry(accepted \ trusted, "TAKE", i)
    BY DEF BooksBalance
  <2>1. Carry(accepted, "PUT", i) = 0 /\ Carry(accepted \ trusted, "TAKE", i) = 0
    BY <1>1, <1>5, CarryNone
  <2>. QED
    BY <1>4, <2>1
<1>7. Account
  <2> SUFFICES ASSUME NEW i \in Item
               PROVE  Copies(i) + Carry(accepted \ applied, "TAKE", i)
                        <= Stock[i] + Cardinality(Client) * Carried[i]
                             + refilled[i] + Carry(accepted \ applied, "PUT", i)
    BY DEF Account
  <2>1. Carry(accepted \ applied, "TAKE", i) = 0 /\ Carry(accepted \ applied, "PUT", i) = 0
    BY <1>5, CarryNone
  <2>2. Pockets(i) = Cardinality(Client) * Carried[i]
    BY <1>1, PocketsStart
  <2>3. Cardinality(Client) \in Nat
    BY ContainerAssumption, FS_CardinalityType
  <2>4. Cardinality(Client) * Carried[i] \in Nat
    BY <1>4, <2>3
  <2>. QED
    BY <1>4, <2>1, <2>2, <2>4 DEF Copies
<1>. QED
  BY <1>2, <1>3, <1>6, <1>7 DEF Books

\* Starting a move asks for what the client sees, or offers what he has.
LEMMA StartBooks ==
  ASSUME Inv, TypeOK, Books,
         NEW c \in Client, NEW k \in {"TAKE", "PUT"}, NEW i \in Item, NEW n \in Counts,
         k = "TAKE" => view[c][i] >= n, k = "PUT" => inv[c][i] >= n,
         MaybeSeed(c) \/ UNCHANGED <<seeded, seedMsgs>>, Submit(c, k, i, n)
  PROVE  Books'
<1> DEFINE op == [from |-> c, id |-> nextOp[c], kind |-> k, item |-> i, count |-> n]
<1>1. /\ pending' = [pending EXCEPT ![c] = op] /\ opMsgs' = opMsgs \cup {op}
      /\ UNCHANGED <<view, inv, known, items, accepted, trusted, created, refilled, applied>>
  BY DEF Submit, serverVars
<1>2. op.kind = k /\ op.item = i /\ op.count = n /\ op.from = c /\ op.id = nextOp[c]
  OBVIOUS
<1> HIDE DEF op
<1>3. Unreported'
  <2> SUFFICES ASSUME ~known
               PROVE  /\ \A o \in opMsgs' : o.kind = "TAKE" => o.count <= Stock[o.item]
                      /\ \A m \in seedMsgs' : \A j \in Item : m.items[j] <= Stock[j]
    BY <1>1 DEF Books, Unreported
  <2>1. view[c] = Stock
    BY DEF Books, Unreported
  <2>2. n \in Nat /\ Stock[i] \in Nat
    BY ContainerAssumption
  <2>3. op.kind = "TAKE" => op.count <= Stock[op.item]
    BY <1>2, <2>1, <2>2
  <2>4. \A o \in opMsgs' : o.kind = "TAKE" => o.count <= Stock[o.item]
    BY <1>1, <2>3 DEF Books, Unreported
  <2>5. \A m \in seedMsgs' : \A j \in Item : m.items[j] <= Stock[j]
    <3>1. \A m \in seedMsgs : \A j \in Item : m.items[j] <= Stock[j]
      BY DEF Books, Unreported
    <3>2. CASE UNCHANGED seedMsgs
      BY <3>1, <3>2
    <3>3. CASE \E S \in Scans(c) : \E chunks \in Chunkings(c, S) :
                 seedMsgs' = seedMsgs \cup chunks
      <4>1. PICK S \in Scans(c) : \E chunks \in Chunkings(c, S) :
              seedMsgs' = seedMsgs \cup chunks
        BY <3>3
      <4>2. PICK chunks \in Chunkings(c, S) : seedMsgs' = seedMsgs \cup chunks
        BY <4>1
      <4>3. \A m \in chunks : \A j \in Item : m.items[j] <= Stock[j]
        BY <2>1, ChunksTyped DEF TypeOK
      <4>. QED
        BY <3>1, <4>2, <4>3
    <3>. QED
      BY <3>2, <3>3 DEF MaybeSeed
  <2>. QED
    BY <2>4, <2>5
<1>4. InHand'
  <2> SUFFICES ASSUME NEW d \in Client, pending'[d] # NoOp
               PROVE  /\ pending'[d] \notin applied
                      /\ pending'[d].kind = "PUT" =>
                           inv[d][pending'[d].item] >= pending'[d].count
    BY <1>1 DEF InHand
  <2>1. CASE d = c
    <3>1. pending'[d] = op
      BY <1>1, <2>1 DEF TypeOK
    <3>2. op \notin accepted
      BY <1>2 DEF Inv, IdsDrawn, TypeOK
    <3>. QED
      BY <1>2, <2>1, <3>1, <3>2 DEF Inv, VerdictFirst
  <2>2. CASE d # c
    <3>1. pending'[d] = pending[d]
      BY <1>1, <2>2 DEF TypeOK
    <3>. QED
      BY <3>1 DEF Books, InHand
  <2>. QED
    BY <2>1, <2>2
<1>5. Traced' /\ BooksBalance'
  BY <1>1 DEF Books, Traced, BooksBalance
<1>6. Account'
  BY <1>1 DEF Books, Account, Copies, Pockets
<1>. QED
  BY <1>3, <1>4, <1>5, <1>6 DEF Books

\* What an accepted move does to the books, item by item.
LEMMA RecordedItems ==
  ASSUME TypeOK, Unreported, NEW op \in Move, Fits(op), RecordOp(op), NEW i \in Item
  PROVE  /\ op.kind = "PUT" =>
              items'[i] = items[i] + (IF op.item = i THEN op.count ELSE 0)
         /\ op.kind = "TAKE" /\ known =>
              items[i] = items'[i] + (IF op.item = i THEN op.count ELSE 0)
         /\ op.kind = "TAKE" /\ ~known => items'[i] = 0 /\ items[i] = 0
<1>1. items' = Moved(items, op)
  BY DEF RecordOp
<1>2. items \in Bag /\ items[i] \in Nat /\ op.item \in Item /\ op.count \in Nat
  BY DEF TypeOK, Bag, Move
<1>3. op.item # i => items'[i] = items[i]
  BY <1>1, <1>2 DEF Moved, Bag
<1>4. op.item = i => items'[i] = IF op.kind = "PUT" THEN items[i] + op.count
                                 ELSE Less(items[i], op.count)
  BY <1>1, <1>2 DEF Moved, Bag
<1>5. op.kind = "TAKE" /\ known /\ op.item = i => op.count <= items[i]
  BY DEF Fits
<1>6. ~known => items[i] = 0
  BY DEF Unreported, Empty
<1>. QED
  BY <1>2, <1>3, <1>4, <1>5, <1>6 DEF Less

\* The server accepts a move: its books and what is owed change alike.
LEMMA AcceptBooks ==
  ASSUME Inv, TypeOK, Books, NEW op \in opMsgs, ReceiveOp(op), Fits(op), RecordOp(op),
         accepted' = accepted \cup {op}
  PROVE  BooksBalance' /\ Account'
<1>1. UNCHANGED <<inv, applied, created, refilled>>
  BY DEF ReceiveOp, clientVars
<1>2. op \in Move /\ op \notin accepted /\ op \notin applied /\ op.count \in Nat
  BY DEF TypeOK, Inv, JudgedOnce, VerdictFirst, Move
<1>3. op.kind \in {"TAKE", "PUT"}
  BY <1>2 DEF Move
<1> SUFFICES ASSUME NEW i \in Item
             PROVE  /\ items'[i] = created[i] + refilled[i] + Carry(accepted', "PUT", i)
                                     - Carry(accepted' \ trusted', "TAKE", i)
                    /\ items'[i] + Pockets(i) + Carry(accepted' \ applied, "TAKE", i)
                         <= Stock[i] + Cardinality(Client) * Carried[i]
                              + refilled[i] + Carry(accepted' \ applied, "PUT", i)
  BY <1>1 DEF BooksBalance, Account, Copies, Pockets
<1> DEFINE w(k) == IF op.kind = k /\ op.item = i THEN op.count ELSE 0
           open == accepted \ applied
           untrusted == accepted \ trusted
           full == Cardinality(Client) * Carried[i]
           put == Carry(accepted, "PUT", i)
           take == Carry(untrusted, "TAKE", i)
           openPut == Carry(open, "PUT", i)
           openTake == Carry(open, "TAKE", i)
<1>4. /\ IsFiniteSet(accepted) /\ accepted \in SUBSET Move
      /\ IsFiniteSet(open) /\ open \in SUBSET Move
      /\ IsFiniteSet(untrusted) /\ untrusted \in SUBSET Move
  BY FS_Subset DEF Books, Traced, TypeOK
<1>5. accepted' \ applied = open \cup {op} /\ op \notin open
  BY <1>2
<1>6. /\ items[i] \in Nat /\ created[i] \in Nat /\ refilled[i] \in Nat
      /\ Stock[i] \in Nat /\ Pockets(i) \in Nat
  BY PocketsNat, ContainerAssumption DEF TypeOK, Bag
<1>7. items'[i] \in Nat
  <2>1. items' \in Bag
    BY <1>2, MovedBag DEF RecordOp, TypeOK
  <2>. QED
    BY <2>1 DEF Bag
<1>8. full \in Nat
  <2>1. Cardinality(Client) \in Nat /\ Carried[i] \in Nat
    BY ContainerAssumption, FS_CardinalityType
  <2>. QED
    BY <2>1
<1>9. put \in Nat /\ take \in Nat /\ openPut \in Nat /\ openTake \in Nat
  BY <1>4, CarryNat
<1>10. /\ items[i] = created[i] + refilled[i] + put - take
       /\ items[i] + Pockets(i) + openTake <= Stock[i] + full + refilled[i] + openPut
  BY DEF Books, BooksBalance, Account, Copies
<1>11. Unreported
  BY DEF Books
<1> SUFFICES
      /\ items'[i] = created[i] + refilled[i] + Carry(accepted', "PUT", i)
                       - Carry(accepted' \ trusted', "TAKE", i)
      /\ items'[i] + Pockets(i) + Carry(accepted' \ applied, "TAKE", i)
           <= Stock[i] + full + refilled[i] + Carry(accepted' \ applied, "PUT", i)
  OBVIOUS
<1>12. untrusted = accepted \ trusted /\ open = accepted \ applied
  OBVIOUS
<1>13. op.kind = "TAKE" /\ ~known => Pockets(i) = full /\ refilled[i] = 0
  BY PocketsStart DEF Books, Unreported, Empty
<1> HIDE DEF open, untrusted, full
<1>14. Carry(accepted', "PUT", i) = put + w("PUT")
  BY <1>2, <1>4, CarryAdd
<1>15. Carry(accepted' \ applied, "TAKE", i) = openTake + w("TAKE")
  BY <1>2, <1>4, <1>5, CarryAdd
<1>16. Carry(accepted' \ applied, "PUT", i) = openPut + w("PUT")
  BY <1>2, <1>4, <1>5, CarryAdd
<1>17. w("PUT") \in Nat /\ w("TAKE") \in Nat
  BY <1>2
<1>18. CASE op.kind = "PUT" \/ known
  <2>1. accepted' \ trusted' = untrusted \cup {op} /\ op \notin untrusted
    BY <1>2, <1>12, <1>18 DEF RecordOp, Books, Traced
  <2>2. Carry(accepted' \ trusted', "TAKE", i) = take + w("TAKE")
    BY <1>2, <1>4, <2>1, CarryAdd
  <2>3. items'[i] + w("TAKE") = items[i] + w("PUT")
    BY <1>2, <1>3, <1>6, <1>7, <1>11, <1>18, RecordedItems
  <2> HIDE DEF w, put, take, openPut, openTake
  <2>. QED
    BY <1>6, <1>7, <1>8, <1>9, <1>10, <1>14, <1>15, <1>16, <1>17, <2>2, <2>3
<1>19. CASE op.kind = "TAKE" /\ ~known
  <2>1. accepted' \ trusted' = untrusted
    BY <1>2, <1>12, <1>19 DEF RecordOp, Books, Traced
  <2>2. items'[i] = 0 /\ items[i] = 0
    BY <1>2, <1>11, <1>19, RecordedItems
  <2>3. w("PUT") = 0 /\ w("TAKE") <= Stock[i]
    BY <1>2, <1>6, <1>19 DEF Books, Unreported
  <2>4. accepted = {} /\ open = {}
    BY <1>12, <1>19 DEF Books, Unreported
  <2>5. openTake = 0 /\ openPut = 0
    BY <2>4, CarryNone
  <2> HIDE DEF w, put, take, openPut, openTake
  <2>6. Carry(accepted' \ trusted', "TAKE", i) = take
    BY <2>1 DEF take
  <2>7. items'[i] = created[i] + refilled[i] + Carry(accepted', "PUT", i)
                      - Carry(accepted' \ trusted', "TAKE", i)
    BY <1>6, <1>9, <1>10, <1>14, <2>2, <2>3, <2>6
  <2>8. Pockets(i) = full /\ refilled[i] = 0
    BY <1>13, <1>19
  <2>9. items'[i] + Pockets(i) + Carry(accepted' \ applied, "TAKE", i)
          <= Stock[i] + full + refilled[i] + Carry(accepted' \ applied, "PUT", i)
    <3>1. Carry(accepted' \ applied, "TAKE", i) = w("TAKE")
      BY <1>15, <1>17, <2>5
    <3>2. Carry(accepted' \ applied, "PUT", i) = 0
      BY <1>16, <2>3, <2>5
    <3>. QED
      BY <1>6, <1>8, <1>17, <2>2, <2>3, <2>8, <3>1, <3>2
  <2>. QED
    BY <2>7, <2>9
<1>. QED
  BY <1>3, <1>18, <1>19

\* A move that is refused leaves the books alone.
LEMMA JudgeBooks ==
  ASSUME Inv, TypeOK, Books, NEW op \in opMsgs, ReceiveOp(op)
  PROVE  Books'
<1>1. opMsgs' = opMsgs \ {op} /\ UNCHANGED <<view, inv, pending, seedMsgs, applied, created, refilled>>
  BY DEF ReceiveOp, clientVars
<1>2. InHand'
  BY <1>1 DEF Books, InHand
<1>3. CASE Fits(op) /\ RecordOp(op) /\ accepted' = accepted \cup {op}
  <2>1. Unreported'
    BY <1>3 DEF RecordOp, Unreported
  <2>2. Traced'
    BY <1>3, FS_AddElement DEF Books, Traced, RecordOp
  <2>. QED
    BY <1>2, <1>3, <2>1, <2>2, AcceptBooks DEF Books
<1>4. CASE UNCHANGED <<known, items, accepted, trusted>>
  <2>1. Unreported' /\ Traced'
    BY <1>1, <1>4 DEF Books, Unreported, Traced
  <2>2. BooksBalance' /\ Account'
    BY <1>1, <1>4 DEF Books, BooksBalance, Account, Copies, Pockets
  <2>. QED
    BY <1>2, <2>1, <2>2 DEF Books
<1>. QED
  BY <1>3, <1>4 DEF ReceiveOp

\* A SEED opens the books, refills a record that ran empty, or changes nothing.
LEMMA SeedBooks ==
  ASSUME TypeOK, Books, NEW m \in seedMsgs, ReceiveSeed(m)
  PROVE  Books'
<1>1. /\ seedMsgs' = seedMsgs \ {m}
      /\ UNCHANGED <<view, inv, pending, opMsgs, accepted, applied, trusted>>
  BY DEF ReceiveSeed, clientVars
<1>2. InHand' /\ Traced'
  BY <1>1 DEF Books, InHand, Traced
<1>3. Unreported'
  BY <1>1 DEF Books, Unreported, ReceiveSeed, Canonical
<1>4. CASE UNCHANGED <<items, created, refilled>>
  BY <1>1, <1>2, <1>3, <1>4 DEF Books, BooksBalance, Account, Copies, Pockets
<1>5. ASSUME NEW i \in Item
      PROVE  /\ items[i] \in Nat /\ m.items[i] \in Nat /\ created[i] \in Nat
             /\ refilled[i] \in Nat /\ Stock[i] \in Nat /\ Pockets(i) \in Nat
             /\ Cardinality(Client) * Carried[i] \in Nat
             /\ \A k : /\ Carry(accepted, k, i) \in Nat
                       /\ Carry(accepted \ trusted, k, i) \in Nat
                       /\ Carry(accepted \ applied, k, i) \in Nat
  <2>1. Cardinality(Client) \in Nat /\ Carried[i] \in Nat
    BY ContainerAssumption, FS_CardinalityType
  <2>2. Cardinality(Client) * Carried[i] \in Nat
    BY <2>1
  <2>3. /\ IsFiniteSet(accepted) /\ IsFiniteSet(accepted \ trusted)
        /\ IsFiniteSet(accepted \ applied) /\ accepted \in SUBSET Move
        /\ accepted \ trusted \in SUBSET Move /\ accepted \ applied \in SUBSET Move
    BY FS_Subset DEF Books, Traced, TypeOK
  <2>4. \A k : /\ Carry(accepted, k, i) \in Nat /\ Carry(accepted \ trusted, k, i) \in Nat
               /\ Carry(accepted \ applied, k, i) \in Nat
    BY <2>3, CarryNat
  <2>5. Pockets(i) \in Nat
    BY PocketsNat DEF TypeOK
  <2>. QED
    BY <2>2, <2>4, <2>5, ContainerAssumption DEF TypeOK, Bag
<1>6. CASE ~known /\ items' = m.items /\ created' = m.items /\ UNCHANGED refilled
  <2>1. ASSUME NEW i \in Item
        PROVE  /\ refilled[i] = 0 /\ m.items[i] <= Stock[i] /\ accepted = {}
               /\ Pockets(i) = Cardinality(Client) * Carried[i]
    BY <1>6, PocketsStart DEF Books, Unreported, Empty
  <2>2. BooksBalance'
    <3> SUFFICES ASSUME NEW i \in Item
                 PROVE  items'[i] = created'[i] + refilled'[i] + Carry(accepted, "PUT", i)
                                      - Carry(accepted \ trusted, "TAKE", i)
      BY <1>1 DEF BooksBalance
    <3>1. accepted = {} /\ accepted \ trusted = {}
      BY <2>1
    <3>2. Carry(accepted, "PUT", i) = 0 /\ Carry(accepted \ trusted, "TAKE", i) = 0
      BY <3>1, CarryNone
    <3>. QED
      BY <1>5, <1>6, <2>1, <3>2
  <2>3. Account'
    <3> SUFFICES ASSUME NEW i \in Item
                 PROVE  items'[i] + Pockets(i) + Carry(accepted \ applied, "TAKE", i)
                          <= Stock[i] + Cardinality(Client) * Carried[i]
                               + refilled'[i] + Carry(accepted \ applied, "PUT", i)
      BY <1>1 DEF Account, Copies, Pockets
    <3>1. accepted \ applied = {}
      BY <2>1
    <3>2. Carry(accepted \ applied, "TAKE", i) = 0 /\ Carry(accepted \ applied, "PUT", i) = 0
      BY <3>1, CarryNone
    <3>. QED
      BY <1>5, <1>6, <2>1, <3>2
  <2>. QED
    BY <1>2, <1>3, <2>2, <2>3 DEF Books
<1>7. CASE /\ known /\ ~Canonical /\ items' = m.items /\ UNCHANGED created
           /\ refilled' = [i \in Item |-> refilled[i] + m.items[i]]
  <2>1. \A i \in Item : items[i] = 0
    BY <1>7 DEF Canonical, Empty
  <2>2. BooksBalance'
    <3> SUFFICES ASSUME NEW i \in Item
                 PROVE  items'[i] = created'[i] + refilled'[i] + Carry(accepted, "PUT", i)
                                      - Carry(accepted \ trusted, "TAKE", i)
      BY <1>1 DEF BooksBalance
    <3>1. items[i] = created[i] + refilled[i] + Carry(accepted, "PUT", i)
                       - Carry(accepted \ trusted, "TAKE", i)
      BY DEF Books, BooksBalance
    <3>2. Carry(accepted, "PUT", i) \in Nat /\ Carry(accepted \ trusted, "TAKE", i) \in Nat
      BY <1>5
    <3>. QED
      BY <1>5, <1>7, <2>1, <3>1, <3>2
  <2>3. Account'
    <3> SUFFICES ASSUME NEW i \in Item
                 PROVE  items'[i] + Pockets(i) + Carry(accepted \ applied, "TAKE", i)
                          <= Stock[i] + Cardinality(Client) * Carried[i]
                               + refilled'[i] + Carry(accepted \ applied, "PUT", i)
      BY <1>1 DEF Account, Copies, Pockets
    <3>1. items[i] + Pockets(i) + Carry(accepted \ applied, "TAKE", i)
            <= Stock[i] + Cardinality(Client) * Carried[i]
                 + refilled[i] + Carry(accepted \ applied, "PUT", i)
      BY DEF Books, Account, Copies
    <3>2. /\ Carry(accepted \ applied, "TAKE", i) \in Nat
          /\ Carry(accepted \ applied, "PUT", i) \in Nat
      BY <1>5
    <3>. QED
      BY <1>5, <1>7, <2>1, <3>1, <3>2
  <2>. QED
    BY <1>2, <1>3, <2>2, <2>3 DEF Books
<1>. QED
  BY <1>4, <1>6, <1>7 DEF ReceiveSeed

\* A player's engine carries out a move that was accepted: what was owed to him
\* is his, what he owed is gone.
LEMMA PerformBooks ==
  ASSUME Inv, TypeOK, Books, NEW c \in Client, pending[c] # NoOp, pending[c] \in accepted,
         pending' = [pending EXCEPT ![c] = NoOp], Perform(pending[c]),
         UNCHANGED <<opMsgs, seedMsgs, known, items, accepted, trusted, created, refilled>>
  PROVE  Books'
<1> DEFINE op == pending[c]
<1>1. op \in Move /\ op \in accepted /\ op \notin applied /\ op.from = c
  BY DEF TypeOK, Books, InHand, Inv, PendingDrawn
<1>2. op.kind \in {"TAKE", "PUT"} /\ op.item \in Item /\ op.count \in Nat
  BY <1>1 DEF Move
<1>3. op.kind = "PUT" => inv[c][op.item] >= op.count
  BY DEF Books, InHand
<1>4. \A d \in Client : d # c /\ pending[d] # NoOp => pending[d] # op
  BY <1>1 DEF Inv, PendingDrawn
<1> HIDE DEF op
<1>5. /\ inv' = [inv EXCEPT ![c][op.item] = IF op.kind = "TAKE" THEN @ + op.count
                                            ELSE Less(@, op.count)]
      /\ applied' = applied \cup {op}
  BY <1>1 DEF Perform, op
<1>6. inv \in [Client -> Bag] /\ inv' \in [Client -> Bag]
  BY <1>1, PerformTyped DEF TypeOK, op
<1>7. \A d \in Client \ {c} : inv'[d] = inv[d]
  BY <1>5, <1>6
<1>8. Unreported' /\ Traced' /\ BooksBalance'
  BY <1>1 DEF Books, Unreported, Traced, BooksBalance
<1>9. InHand'
  <2> SUFFICES ASSUME NEW d \in Client, pending'[d] # NoOp
               PROVE  /\ pending'[d] \notin applied'
                      /\ pending'[d].kind = "PUT" =>
                           inv'[d][pending'[d].item] >= pending'[d].count
    BY DEF InHand
  <2>1. d # c /\ pending'[d] = pending[d]
    BY DEF TypeOK
  <2>. QED
    BY <1>4, <1>5, <1>7, <2>1 DEF Books, InHand
<1>10. Account'
  <2> SUFFICES ASSUME NEW i \in Item
               PROVE  items[i] + Pockets(i)' + Carry(accepted \ applied', "TAKE", i)
                        <= Stock[i] + Cardinality(Client) * Carried[i]
                             + refilled[i] + Carry(accepted \ applied', "PUT", i)
    BY DEF Account, Copies
  <2> DEFINE w(k) == IF op.kind = k /\ op.item = i THEN op.count ELSE 0
             rest == accepted \ applied'
             full == Cardinality(Client) * Carried[i]
             restPut == Carry(rest, "PUT", i)
             restTake == Carry(rest, "TAKE", i)
  <2>1. accepted \ applied = rest \cup {op} /\ op \notin rest
    BY <1>1, <1>5
  <2>2. rest \in SUBSET Move /\ IsFiniteSet(rest)
    BY FS_Subset DEF Books, Traced, TypeOK
  <2>3. full \in Nat
    <3>1. Cardinality(Client) \in Nat /\ Carried[i] \in Nat
      BY ContainerAssumption, FS_CardinalityType
    <3>. QED
      BY <3>1
  <2>4. /\ items[i] \in Nat /\ refilled[i] \in Nat /\ Stock[i] \in Nat
        /\ Pockets(i) \in Nat /\ inv[c][i] \in Nat /\ inv'[c][i] \in Nat
    <3>1. Pockets(i) \in Nat
      BY <1>6, PocketsNat
    <3>2. inv[c] \in Bag /\ inv'[c] \in Bag
      BY <1>6
    <3>. QED
      BY <3>1, <3>2, ContainerAssumption DEF TypeOK, Bag
  <2>5. Pockets(i)' \in Nat
    <3>1. (inv \in [Client -> Bag] => Pockets(i) \in Nat)'
      BY PocketsNat, PTL
    <3>. QED
      BY <1>6, <3>1
  <2>6. Pockets(i)' + inv[c][i] = Pockets(i) + inv'[c][i]
    BY <1>6, <1>7, PocketsChange
  <2>7. inv'[c][i] + w("PUT") = inv[c][i] + w("TAKE")
    BY <1>2, <1>3, <1>5, <1>6, <2>4 DEF Less, Bag
  <2>8. items[i] + Pockets(i) + Carry(accepted \ applied, "TAKE", i)
          <= Stock[i] + full + refilled[i] + Carry(accepted \ applied, "PUT", i)
    BY DEF Books, Account, Copies
  <2> HIDE DEF full, rest
  <2>9. Carry(accepted \ applied, "TAKE", i) = restTake + w("TAKE")
    BY <1>1, <2>1, <2>2, CarryAdd
  <2>10. Carry(accepted \ applied, "PUT", i) = restPut + w("PUT")
    BY <1>1, <2>1, <2>2, CarryAdd
  <2>11. restPut \in Nat /\ restTake \in Nat /\ w("PUT") \in Nat /\ w("TAKE") \in Nat
    BY <1>2, <2>2, CarryNat
  <2> HIDE DEF w, restPut, restTake
  <2>12. items[i] + Pockets(i)' + restTake <= Stock[i] + full + refilled[i] + restPut
    BY <2>3, <2>4, <2>5, <2>6, <2>7, <2>8, <2>9, <2>10, <2>11
  <2>. QED
    BY <2>12 DEF full, rest, restPut, restTake
<1>. QED
  BY <1>8, <1>9, <1>10 DEF Books

\* A verdict makes the engine move, or arrives too late to do so.
LEMMA AckBooks ==
  ASSUME Inv, Inv', TypeOK, Books, NEW a \in ackMsgs, ReceiveAck(a)
  PROVE  Books'
<1>1. UNCHANGED <<opMsgs, seedMsgs, known, items, accepted, trusted, created, refilled>>
  BY DEF ReceiveAck, serverVars
<1>2. a.to \in Client /\ a.id \in Nat /\ a.id # 0
  BY DEF TypeOK, Inv, AcksSound
<1>3. CASE Answers(a, a.to) /\ a.ok
  <2>1. pending[a.to] # NoOp
    BY <1>2, <1>3 DEF Answers, NoOp
  <2>2. Perform(pending[a.to]) /\ pending' = [pending EXCEPT ![a.to] = NoOp]
    BY <1>3 DEF ReceiveAck
  <2>3. pending[a.to] \in accepted
    BY <1>1, <2>2 DEF Inv, VerdictFirst, Perform
  <2>. QED
    BY <1>1, <1>2, <2>1, <2>2, <2>3, PerformBooks
<1>4. CASE ~(Answers(a, a.to) /\ a.ok)
  <2>1. UNCHANGED <<view, inv, applied>>
    BY <1>4 DEF ReceiveAck
  <2>2. pending' = pending \/ pending' = [pending EXCEPT ![a.to] = NoOp]
    BY DEF ReceiveAck
  <2>3. \A c \in Client : pending'[c] = pending[c] \/ pending'[c] = NoOp
    BY <1>2, <2>2 DEF TypeOK
  <2>4. InHand'
    BY <2>1, <2>3 DEF Books, InHand
  <2>5. Unreported' /\ Traced' /\ BooksBalance'
    BY <1>1, <2>1 DEF Books, Unreported, Traced, BooksBalance
  <2>6. Account'
    BY <1>1, <2>1 DEF Books, Account, Copies, Pockets
  <2>. QED
    BY <2>4, <2>5, <2>6 DEF Books
<1>. QED
  BY <1>3, <1>4

\* The main thread giving up or applying its queue, and the net thread filling
\* it, leave the books and the inventories alone.
LEMMA QuietBooks ==
  ASSUME Inv, TypeOK, Books, NEW c \in Client,
         Timeout(c) \/ DrainApplyQueue(c) \/ (\E b \in bcasts : ReceiveBcast(b))
  PROVE  Books'
<1>1. UNCHANGED <<inv, opMsgs, seedMsgs, known, items, accepted, trusted, created, refilled,
                  applied>>
  BY DEF Timeout, DrainApplyQueue, ReceiveBcast, serverVars
<1>2. \A d \in Client : pending'[d] = pending[d] \/ pending'[d] = NoOp
  BY DEF TypeOK, Timeout, DrainApplyQueue, ReceiveBcast
<1>3. InHand'
  BY <1>1, <1>2 DEF Books, InHand
<1>4. known \/ view' = view
  <2>1. CASE DrainApplyQueue(c)
    <3>1. 1 \in DOMAIN applyQ[c]
      BY <2>1 DEF TypeOK, DrainApplyQueue
    <3>2. accepted # {}
      BY <3>1 DEF Inv, Queued
    <3>. QED
      BY <3>2 DEF Books, Unreported
  <2>2. CASE Timeout(c) \/ (\E b \in bcasts : ReceiveBcast(b))
    BY <2>2 DEF Timeout, ReceiveBcast
  <2>. QED
    BY <2>1, <2>2
<1>5. Unreported' /\ Traced' /\ BooksBalance'
  BY <1>1, <1>4 DEF Books, Unreported, Traced, BooksBalance
<1>6. Account'
  BY <1>1 DEF Books, Account, Copies, Pockets
<1>. QED
  BY <1>3, <1>5, <1>6 DEF Books

\* The books are right throughout.
LEMMA ContainerBooks == Spec => []Books
<1>1. ASSUME Inv, Inv', TypeOK, Books, [Next]_vars PROVE Books'
  <2>1. ASSUME NEW c \in Client, NEW i \in Item, NEW n \in Counts, Take(c, i, n) \/ Put(c, i, n)
        PROVE  Books'
    BY <1>1, <2>1, StartBooks DEF Take, Put
  <2>2. ASSUME NEW op \in opMsgs, ReceiveOp(op) PROVE Books'
    BY <1>1, <2>2, JudgeBooks
  <2>3. ASSUME NEW m \in seedMsgs, ReceiveSeed(m) PROVE Books'
    BY <1>1, <2>3, SeedBooks
  <2>4. ASSUME NEW a \in ackMsgs, ReceiveAck(a) PROVE Books'
    BY <1>1, <2>4, AckBooks
  <2>5. ASSUME NEW b \in bcasts, ReceiveBcast(b) PROVE Books'
    <3>1. b.to \in Client
      BY <1>1 DEF TypeOK
    <3>. QED
      BY <1>1, <2>5, <3>1, QuietBooks
  <2>6. ASSUME NEW c \in Client, Timeout(c) \/ DrainApplyQueue(c) PROVE Books'
    BY <1>1, <2>6, QuietBooks
  <2>7. CASE UNCHANGED vars
    BY <1>1, <2>7 DEF vars, Books, Unreported, Traced, InHand, BooksBalance, Account, Copies,
                      Pockets
  <2>. QED
    BY <1>1, <2>1, <2>2, <2>3, <2>4, <2>5, <2>6, <2>7 DEF Next
<1>. QED
  BY ContainerTyped, InitBooks, <1>1, PTL DEF Spec

\* Whatever the clients, items, scans and time limits: what the server's record
\* holds is what SEEDs and PUTs brought minus what was taken, and the clamp at
\* zero of record_container_op (state.py:397-470) is never reached by a TAKE that
\* the validator (validator.py:214-262) compared with the record.
THEOREM Balance == Spec => []BooksBalance
<1>1. Books => BooksBalance
  BY DEF Books
<1>. QED
  BY ContainerBooks, <1>1, PTL

\* The only sources of extra copies are a SEED that refills a record that ran
\* empty (main.py:759) and a PUT that the server accepted and its sender gave
\* up: a TAKE he gave up destroys copies, and no race of two TAKEs makes any.
THEOREM Duplicates == Spec => []DuplicatesExplained
<1>1. TypeOK /\ Books => DuplicatesExplained
  <2> SUFFICES ASSUME TypeOK, Books, NEW i \in Item
               PROVE  Copies(i) <= Stock[i] + Cardinality(Client) * Carried[i]
                                     + refilled[i] + Carry(accepted \ applied, "PUT", i)
    BY DEF DuplicatesExplained
  <2> DEFINE full == Cardinality(Client) * Carried[i]
  <2>1. Copies(i) + Carry(accepted \ applied, "TAKE", i)
          <= Stock[i] + full + refilled[i] + Carry(accepted \ applied, "PUT", i)
    BY DEF Books, Account
  <2>2. accepted \ applied \in SUBSET Move /\ IsFiniteSet(accepted \ applied)
    BY FS_Subset DEF Books, Traced, TypeOK
  <2>3. /\ Carry(accepted \ applied, "TAKE", i) \in Nat
        /\ Carry(accepted \ applied, "PUT", i) \in Nat
    BY <2>2, CarryNat
  <2>4. Copies(i) \in Nat /\ Stock[i] \in Nat /\ refilled[i] \in Nat
    BY PocketsNat, ContainerAssumption DEF TypeOK, Bag, Copies
  <2>5. full \in Nat
    <3>1. Cardinality(Client) \in Nat /\ Carried[i] \in Nat
      BY ContainerAssumption, FS_CardinalityType
    <3>. QED
      BY <3>1
  <2> HIDE DEF full
  <2>6. Copies(i) <= Stock[i] + full + refilled[i] + Carry(accepted \ applied, "PUT", i)
    BY <2>1, <2>3, <2>4, <2>5
  <2>. QED
    BY <2>6 DEF full
<1>. QED
  BY ContainerTyped, ContainerBooks, <1>1, PTL
=============================================================================
