----------------------- MODULE ReliableChannelProofs -----------------------
(***************************************************************************)
(* Proofs about one direction of the reliable channel, for a run of the    *)
(* channel that does not wrap its sequence numbers (NoWrap): with 2^31     *)
(* messages as the bound, every session of the game.                       *)
(***************************************************************************)
EXTENDS ReliableChannelProps, TLAPS

\* While nothing wraps, the number of a message is its index.
Numbered ==
  /\ nextSeq = sent + 1
  /\ \A f \in inFlight \cup net : f.seq = f.msg /\ f.msg <= sent

\* The receive window lies inside what was sent and is compact: the number
\* that would move it on is never among the remembered ones.
WindowCompact ==
  /\ hc <= sent
  /\ \A s \in ooo : hc + 2 <= s /\ s <= hc + Window /\ s <= sent

\* The window is the record of what the application got.
Counted == \A m \in Msg : times[m] = IF m <= hc \/ m \in ooo THEN 1 ELSE 0

\* An ACK on the wire never claims more than the window has by now.
AcksTrue ==
  \A a \in acks : a.hc <= hc /\ \A s \in a.sack : s <= hc \/ s \in ooo

\* A live channel has not used up the retransmissions of any message.
TriesLeft == ~dead => \A m \in Msg : tries[m] <= MaxRetransmits

IInv == TypeOK /\ Numbered /\ WindowCompact /\ Counted /\ AcksTrue /\ TriesLeft
          /\ AckedWasDelivered

----------------------------------------------------------------------------
(* Sequence arithmetic without a wrap.                                     *)

\* Adding within the window does not wrap.
LEMMA PlusIsPlus ==
  ASSUME NoWrap, NEW a \in 0 .. MaxMsgs, NEW i \in 0 .. Window + 1
  PROVE  Plus(a, i) = a + i
<1>1. MaxMsgs \in Nat /\ Window \in Nat /\ HalfRange \in Nat
  BY ChannelAssumption
<1>2. MaxMsgs < HalfRange /\ Window < HalfRange
  BY ChannelAssumption DEF NoWrap
<1> QED
  BY <1>1, <1>2 DEF Plus, Modulus

\* The circular comparison is the plain one.
LEMMA SeqLeqIsLeq ==
  ASSUME NoWrap, NEW a \in 0 .. MaxMsgs, NEW b \in 0 .. MaxMsgs
  PROVE  SeqLeq(a, b) <=> a <= b
<1>1. MaxMsgs \in Nat /\ HalfRange \in Nat /\ MaxMsgs < HalfRange
  BY ChannelAssumption DEF NoWrap
<1> QED
  BY <1>1 DEF SeqLeq, Gap, Modulus

\* The receiver takes exactly the numbers of its window it has not yet.
LEMMA AcceptsWindow ==
  ASSUME NoWrap, hc \in 0 .. MaxMsgs, NEW s \in Msg
  PROVE  Accepts(s) <=> s > hc /\ s \notin ooo /\ s <= hc + Window
<1>1. MaxMsgs \in Nat /\ HalfRange \in Nat /\ Window \in Nat \ {0} /\ MaxMsgs < HalfRange
  BY ChannelAssumption DEF NoWrap
<1>2. s \in 0 .. MaxMsgs /\ s # 0
  BY <1>1 DEF Msg
<1>3. SeenBefore(s) <=> s <= hc \/ s \in ooo
  BY <1>2, SeqLeqIsLeq DEF SeenBefore
<1>4. Plus(hc, 1) = hc + 1
  BY <1>1, PlusIsPlus
<1>5. s > hc => (InWindow(s) <=> s <= hc + Window)
  BY <1>1, <1>2 DEF InWindow, Gap
<1> QED
  BY <1>1, <1>2, <1>3, <1>4, <1>5 DEF Accepts

\* An ACK confirms what lies below its cumulative part or in its bitmap.
LEMMA ConfirmsPlain ==
  ASSUME NoWrap, NEW a, a.hc \in 0 .. MaxMsgs, NEW s \in Msg
  PROVE  Confirms(a, s) <=> s <= a.hc \/ s \in a.sack
<1>1. s \in 0 .. MaxMsgs
  BY ChannelAssumption DEF Msg
<1> QED
  BY <1>1, SeqLeqIsLeq DEF Confirms

----------------------------------------------------------------------------
(* The receive window.                                                     *)

\* What accepting a number does to the window: it moves to newHc, everything
\* up to there was remembered or is the number itself, nothing is forgotten.
LEMMA RegisterMoves ==
  ASSUME NoWrap, IInv, NEW s \in Msg, s <= sent, Accepts(s), Register(s)
  PROVE  /\ hc' \in Nat /\ hc <= hc' /\ hc' <= sent
         /\ \A k \in ooo' : hc' + 2 <= k /\ k <= hc' + Window /\ k <= sent
         /\ ooo' \subseteq Seq32
         /\ \A m \in Msg : (m <= hc' \/ m \in ooo') <=> (m <= hc \/ m \in ooo \/ m = s)
<1>1. /\ MaxMsgs \in Nat /\ HalfRange \in Nat /\ Window \in Nat \ {0}
      /\ MaxMsgs < HalfRange /\ Window < HalfRange
  BY ChannelAssumption DEF NoWrap
<1>2. sent \in Nat /\ sent <= MaxMsgs
  BY <1>1 DEF IInv, TypeOK
<1>3. hc \in Nat /\ hc <= sent
  BY <1>1 DEF IInv, TypeOK, WindowCompact, Seq32
<1>4. s \in Nat /\ s > hc /\ s \notin ooo /\ s <= hc + Window
  BY <1>1, <1>2, <1>3, AcceptsWindow DEF Msg
<1>5. \A k \in ooo : k \in Nat /\ hc + 2 <= k /\ k <= hc + Window /\ k <= sent
  BY DEF IInv, TypeOK, WindowCompact, Seq32
<1>6. ooo \subseteq Seq32 /\ s \in Seq32
  BY <1>1, <1>2, <1>4 DEF IInv, TypeOK, Seq32, Modulus, Msg
<1>7. Plus(hc, 1) = hc + 1
  BY <1>1, <1>2, <1>3, PlusIsPlus
<1>8. CASE s = hc + 1
  <2>1. PICK run \in 0 .. Window :
          /\ \A i \in 1 .. run : Plus(s, i) \in ooo
          /\ Plus(s, run + 1) \notin ooo
          /\ hc' = Plus(s, run)
          /\ ooo' = ooo \ {Plus(s, i) : i \in 1 .. run}
    BY <1>7, <1>8 DEF Register
  <2>2. \A i \in 0 .. Window + 1 : Plus(s, i) = s + i
    BY <1>1, <1>2, <1>4, PlusIsPlus DEF Msg
  <2>3. \A i \in 1 .. run : s + i \in ooo
    BY <1>1, <2>1, <2>2
  <2>4. s + run + 1 \notin ooo
    BY <1>1, <1>4, <2>1, <2>2
  <2>5. hc' = s + run
    BY <1>1, <2>1, <2>2
  <2>6. hc' \in Nat /\ hc <= hc'
    BY <1>3, <1>4, <2>5
  <2>7. hc' <= sent
    <3>1. CASE run = 0
      BY <3>1, <2>5, <1>4
    <3>2. CASE run # 0
      <4>1. s + run \in ooo
        BY <3>2, <2>3
      <4> QED
        BY <4>1, <1>5, <2>5
    <3> QED
      BY <3>1, <3>2
  <2>8. ooo' = {k \in ooo : k > s + run}
    <3>1. \A k \in ooo : k <= s + run => \E i \in 1 .. run : k = Plus(s, i)
      <4>1. SUFFICES ASSUME NEW k \in ooo, k <= s + run
                     PROVE  \E i \in 1 .. run : k = Plus(s, i)
        OBVIOUS
      <4>2. k \in Nat /\ k > s
        BY <4>1, <1>3, <1>5, <1>8
      <4>3. k - s \in 1 .. run /\ k - s \in 0 .. Window + 1
        BY <4>1, <4>2, <1>1, <1>4
      <4>4. k = Plus(s, k - s)
        BY <4>2, <4>3, <2>2, <1>4
      <4> QED
        BY <4>3, <4>4
    <3>2. \A i \in 1 .. run : Plus(s, i) <= s + run
      BY <1>1, <1>4, <2>2
    <3> QED
      BY <2>1, <3>1, <3>2, <1>4, <1>5
  <2>9. \A k \in ooo' : hc' + 2 <= k /\ k <= hc' + Window /\ k <= sent
    BY <1>3, <1>4, <1>5, <2>4, <2>5, <2>6, <2>8, <1>1
  <2>10. \A m \in Msg : (m <= hc' \/ m \in ooo') <=> (m <= hc \/ m \in ooo \/ m = s)
    <3>1. SUFFICES ASSUME NEW m \in Msg
                   PROVE  (m <= hc' \/ m \in ooo') <=> (m <= hc \/ m \in ooo \/ m = s)
      OBVIOUS
    <3>2. m \in Nat
      BY DEF Msg
    <3>3. ASSUME m > s, m <= s + run PROVE m \in ooo
      <4>1. m - s \in 1 .. run
        BY <3>2, <3>3, <1>4
      <4>2. s + (m - s) \in ooo
        BY <4>1, <2>3
      <4> QED
        BY <4>2, <3>2, <1>4
    <3> QED
      BY <3>2, <3>3, <1>3, <1>4, <1>8, <2>5, <2>8
  <2> QED
    BY <2>6, <2>7, <2>9, <2>10, <1>6, <2>8
<1>9. CASE s # hc + 1
  <2>1. hc' = hc /\ ooo' = ooo \cup {s}
    BY <1>7, <1>9 DEF Register
  <2> QED
    BY <2>1, <1>3, <1>4, <1>5, <1>6, <1>9, <1>1
<1> QED
  BY <1>8, <1>9

----------------------------------------------------------------------------
(* The invariant holds initially and every handler keeps it.               *)

LEMMA InitIInv == Init => IInv
<1> USE ChannelAssumption
<1>1. 0 \in Seq32 /\ 1 \in Seq32
  BY DEF Seq32, Modulus
<1>2. \A m \in Msg : ~(m <= 0)
  BY DEF Msg
<1> SUFFICES ASSUME Init PROVE IInv
  OBVIOUS
<1>3. TypeOK
  <2>1. 0 \in 0 .. MaxMsgs /\ 0 \in 0 .. MaxRetransmits + 1
    OBVIOUS
  <2> QED
    BY <1>1, <2>1 DEF Init, TypeOK
<1>4. Counted
  BY <1>2 DEF Init, Counted
<1> QED
  BY <1>3, <1>4 DEF Init, IInv, Numbered, WindowCompact, AcksTrue, TriesLeft, AckedWasDelivered

\* Submitting a message: its frame gets the next number, which is its index.
LEMMA SendKeeps ==
  ASSUME NoWrap, IInv, SendReliable
  PROVE  IInv'
<1>1. MaxMsgs \in Nat /\ HalfRange \in Nat /\ MaxMsgs < HalfRange
  BY ChannelAssumption DEF NoWrap
<1>2. sent \in Nat /\ sent < MaxMsgs /\ sent' = sent + 1 /\ nextSeq = sent + 1
  BY <1>1 DEF IInv, TypeOK, Numbered, SendReliable
<1>3. nextSeq' = sent' + 1 /\ nextSeq' \in Seq32
  BY <1>1, <1>2 DEF SendReliable, SkipZero, Plus, Modulus, Seq32
<1> DEFINE f == [msg |-> sent + 1, seq |-> nextSeq]
<1>4. f \in Frame /\ f.seq = f.msg /\ f.msg <= sent'
  BY <1>1, <1>2 DEF Frame, Msg, Seq32, Modulus
<1>5. inFlight' = inFlight \cup {f} /\ net' = net \cup {f}
  BY DEF SendReliable
<1>6. UNCHANGED <<tries, dead, acked, acks, hc, ooo, unacked, times>>
  BY DEF SendReliable, recvVars
<1>7. TypeOK'
  BY <1>1, <1>2, <1>3, <1>4, <1>5, <1>6 DEF IInv, TypeOK
<1>8. Numbered'
  <2>1. \A g \in inFlight \cup net : g.seq = g.msg /\ g.msg \in Nat /\ g.msg <= sent
    BY DEF IInv, TypeOK, Numbered, Frame, Msg
  <2>2. \A g \in inFlight' \cup net' : g \in inFlight \cup net \/ g = f
    BY <1>5
  <2> QED
    BY <2>1, <2>2, <1>2, <1>3, <1>4 DEF Numbered
<1>9. WindowCompact'
  BY <1>2, <1>6, <1>1 DEF IInv, TypeOK, WindowCompact, Seq32
<1>10. Counted' /\ AcksTrue' /\ TriesLeft' /\ AckedWasDelivered'
  BY <1>6 DEF IInv, Counted, AcksTrue, TriesLeft, AckedWasDelivered
<1> QED
  BY <1>7, <1>8, <1>9, <1>10 DEF IInv

\* What an ACK that leaves now adds to the ACKs on the wire.
LEMMA EmittedAckTrue ==
  ASSUME EmitAck, hc' \in Seq32, ooo' \subseteq Seq32, acks \subseteq Ack,
         \A a \in acks : a.hc <= hc' /\ \A s \in a.sack : s <= hc' \/ s \in ooo'
  PROVE  acks' \subseteq Ack /\ AcksTrue'
<1> DEFINE b == [hc |-> hc', sack |-> ooo']
<1>1. acks' = acks \cup {b}
  BY DEF EmitAck
<1>2. b \in Ack
  BY DEF Ack
<1>3. b.hc = hc' /\ b.sack = ooo'
  OBVIOUS
<1>4. hc' <= hc'
  BY ChannelAssumption DEF Seq32, Modulus
<1> QED
  BY <1>1, <1>2, <1>3, <1>4 DEF AcksTrue

\* Receiving a frame: the window and the delivery count move together.
LEMMA ReceiveKeeps ==
  ASSUME NoWrap, IInv, NEW f \in net, NEW keep \in BOOLEAN, ReceiveFrame(f, keep)
  PROVE  IInv'
<1>1. MaxMsgs \in Nat /\ HalfRange \in Nat /\ MaxMsgs < HalfRange /\ Window \in Nat
  BY ChannelAssumption DEF NoWrap
<1>2. f \in Frame /\ f.msg \in Msg /\ f.seq = f.msg /\ f.msg <= sent
  BY DEF IInv, TypeOK, Numbered, Frame
<1>3. net' \subseteq net /\ UNCHANGED <<nextSeq, sent, inFlight, tries, dead, acked>>
  BY DEF ReceiveFrame, sendVars
<1>4. /\ hc' \in Nat /\ hc <= hc' /\ hc' <= sent
      /\ \A k \in ooo' : hc' + 2 <= k /\ k <= hc' + Window /\ k <= sent
      /\ ooo' \subseteq Seq32
      /\ \A m \in Msg : m <= hc \/ m \in ooo => m <= hc' \/ m \in ooo'
  <2>1. CASE Accepts(f.seq)
    BY <2>1, <1>2, RegisterMoves DEF ReceiveFrame
  <2>2. CASE ~Accepts(f.seq)
    <3>1. hc' = hc /\ ooo' = ooo
      BY <2>2 DEF ReceiveFrame
    <3>2. hc \in Nat
      BY ChannelAssumption DEF IInv, TypeOK, Seq32
    <3> QED
      BY <3>1, <3>2 DEF IInv, TypeOK, WindowCompact
  <2> QED
    BY <2>1, <2>2
<1>5. Counted' /\ times' \in [Msg -> Nat]
  <2>1. times \in [Msg -> Nat] /\ \A m \in Msg : times[m] = IF m <= hc \/ m \in ooo THEN 1 ELSE 0
    BY DEF IInv, TypeOK, Counted
  <2>2. CASE Accepts(f.seq)
    <3>1. \A m \in Msg : (m <= hc' \/ m \in ooo') <=> (m <= hc \/ m \in ooo \/ m = f.msg)
      BY <2>2, <1>2, RegisterMoves DEF ReceiveFrame
    <3>2. ~(f.msg <= hc) /\ f.msg \notin ooo
      <4>1. hc \in 0 .. MaxMsgs
        BY <1>1 DEF IInv, TypeOK, WindowCompact, Seq32
      <4>2. f.msg > hc /\ f.msg \notin ooo
        BY <2>2, <4>1, <1>2, AcceptsWindow
      <4> QED
        BY <4>1, <4>2, <1>1, <1>2 DEF Msg
    <3>3. times' = [times EXCEPT ![f.msg] = @ + 1]
      BY <2>2 DEF ReceiveFrame
    <3> QED
      BY <3>1, <3>2, <3>3, <2>1, <1>2 DEF Counted
  <2>3. CASE ~Accepts(f.seq)
    <3>1. UNCHANGED <<hc, ooo, times>>
      BY <2>3 DEF ReceiveFrame
    <3> QED
      BY <3>1, <2>1 DEF Counted
  <2> QED
    BY <2>2, <2>3
<1>6. hc' \in Seq32
  BY <1>1, <1>4 DEF IInv, TypeOK, Seq32, Modulus
<1>7. \A a \in acks : a.hc <= hc' /\ \A s \in a.sack : s <= hc' \/ s \in ooo'
  <2>1. SUFFICES ASSUME NEW a \in acks
                 PROVE  a.hc <= hc' /\ \A s \in a.sack : s <= hc' \/ s \in ooo'
    OBVIOUS
  <2>2. /\ a.hc \in Nat /\ a.hc <= hc
        /\ \A s \in a.sack : s \in Nat /\ (s <= hc \/ s \in ooo)
    BY ChannelAssumption DEF IInv, TypeOK, AcksTrue, Ack, Seq32
  <2>3. hc \in Nat
    BY ChannelAssumption DEF IInv, TypeOK, Seq32
  <2>4. \A s \in ooo : s \in Msg
    BY <1>1, <2>3 DEF IInv, TypeOK, WindowCompact, Seq32, Msg
  <2>5. \A s \in a.sack : s <= hc' \/ s \in ooo'
    BY <2>2, <2>3, <2>4, <1>4
  <2> QED
    BY <2>2, <2>3, <2>5, <1>4
<1>8. acks' \subseteq Ack /\ AcksTrue' /\ unacked' \in Nat
  <2>1. acks \subseteq Ack /\ unacked \in Nat
    BY DEF IInv, TypeOK
  <2>2. CASE EmitAck
    BY <2>1, <2>2, <1>4, <1>6, <1>7, EmittedAckTrue DEF EmitAck
  <2>3. CASE unacked' = unacked + 1 /\ UNCHANGED acks
    BY <2>1, <2>3, <1>7 DEF AcksTrue
  <2> QED
    BY <2>2, <2>3 DEF ReceiveFrame
<1>9. TypeOK'
  BY <1>3, <1>4, <1>5, <1>6, <1>8 DEF IInv, TypeOK
<1>10. Numbered'
  BY <1>3 DEF IInv, Numbered
<1>11. WindowCompact'
  BY <1>3, <1>4 DEF WindowCompact
<1>12. TriesLeft'
  BY <1>3 DEF IInv, TriesLeft
<1>13. AckedWasDelivered'
  <2>1. \A m \in acked : m \in Msg /\ times[m] = 1
    BY DEF IInv, TypeOK, AckedWasDelivered
  <2>2. \A m \in acked : m <= hc \/ m \in ooo
    BY <2>1 DEF IInv, Counted
  <2>3. \A m \in acked : times'[m] = 1
    BY <2>1, <2>2, <1>4, <1>5 DEF Counted
  <2> QED
    BY <2>3, <1>3 DEF AckedWasDelivered
<1> QED
  BY <1>5, <1>8, <1>9, <1>10, <1>11, <1>12, <1>13 DEF IInv

LEMMA AckTimerKeeps ==
  ASSUME IInv, AckTimer
  PROVE  IInv'
<1>1. UNCHANGED <<nextSeq, sent, inFlight, tries, dead, acked, net, hc, ooo, times>> /\ EmitAck
  BY DEF AckTimer, sendVars
<1>2. acks' \subseteq Ack /\ AcksTrue'
  BY <1>1, EmittedAckTrue DEF IInv, TypeOK, AcksTrue
<1>3. TypeOK'
  BY <1>1, <1>2 DEF IInv, TypeOK, EmitAck
<1> QED
  BY <1>1, <1>2, <1>3
     DEF IInv, Numbered, WindowCompact, Counted, TriesLeft, AckedWasDelivered

\* What an ACK strikes off the in-flight table was delivered.
LEMMA HitsDelivered ==
  ASSUME NoWrap, IInv, NEW a \in acks, NEW f \in inFlight, Confirms(a, f.seq)
  PROVE  f.msg \in Msg /\ times[f.msg] = 1
<1>1. MaxMsgs \in Nat
  BY ChannelAssumption
<1>2. f.msg \in Msg /\ f.seq = f.msg
  BY DEF IInv, TypeOK, Numbered, Frame
<1>3. a.hc \in Nat /\ a.hc <= hc /\ hc \in Nat /\ hc <= MaxMsgs
  BY <1>1, ChannelAssumption DEF IInv, TypeOK, AcksTrue, WindowCompact, Ack, Seq32
<1>4. f.msg <= a.hc \/ f.msg \in a.sack
  BY <1>1, <1>2, <1>3, ConfirmsPlain
<1>5. f.msg <= hc \/ f.msg \in ooo
  BY <1>2, <1>3, <1>4 DEF IInv, AcksTrue, Msg
<1> QED
  BY <1>2, <1>5 DEF IInv, Counted

LEMMA ReceiveAckKeeps ==
  ASSUME NoWrap, IInv, NEW a \in acks, NEW keep \in BOOLEAN, ReceiveAck(a, keep)
  PROVE  IInv'
<1> DEFINE hit == {f \in inFlight : Confirms(a, f.seq)}
<1>1. /\ acks' \subseteq acks /\ inFlight' \subseteq inFlight
      /\ acked' = acked \cup {f.msg : f \in hit}
      /\ UNCHANGED <<nextSeq, sent, tries, dead, net, hc, ooo, unacked, times>>
  BY DEF ReceiveAck, recvVars
<1>2. \A f \in hit : f.msg \in Msg /\ times[f.msg] = 1
  BY HitsDelivered
<1>3. acked' \subseteq Msg /\ AckedWasDelivered'
  BY <1>1, <1>2 DEF IInv, TypeOK, AckedWasDelivered
<1>4. TypeOK'
  BY <1>1, <1>3 DEF IInv, TypeOK
<1>5. Numbered' /\ AcksTrue'
  BY <1>1 DEF IInv, Numbered, AcksTrue
<1> QED
  BY <1>1, <1>3, <1>4, <1>5 DEF IInv, WindowCompact, Counted, TriesLeft

\* tick() only counts, sends again what it has, or gives up.
LEMMA SenderTickKeeps ==
  ASSUME IInv, NEW D \in SUBSET inFlight, SenderTick(D)
  PROVE  IInv'
<1>1. MaxRetransmits \in Nat
  BY ChannelAssumption
<1>2. /\ inFlight' \subseteq inFlight
      /\ net' \subseteq net \cup inFlight
      /\ UNCHANGED <<nextSeq, sent, acked, acks, hc, ooo, unacked, times>>
  BY DEF SenderTick, recvVars
<1>3. ~dead /\ dead \in BOOLEAN /\ tries \in [Msg -> Nat] /\ \A m \in Msg : tries[m] <= MaxRetransmits
  BY <1>1 DEF SenderTick, IInv, TypeOK, TriesLeft
<1>4. tries' \in [Msg -> 0 .. MaxRetransmits + 1] /\ dead' \in BOOLEAN /\ TriesLeft'
  <2>1. CASE /\ \A f \in D : ~Exhausted(f.msg)
             /\ tries' = [m \in Msg |-> IF \E f \in D : f.msg = m THEN tries[m] + 1 ELSE tries[m]]
             /\ UNCHANGED dead
    <3>1. \A m \in Msg : tries'[m] \in 0 .. MaxRetransmits
      BY <2>1, <1>1, <1>3 DEF Exhausted
    <3>2. tries' \in [Msg -> 0 .. MaxRetransmits + 1]
      BY <3>1, <2>1, <1>1
    <3>3. TriesLeft'
      BY <3>1, <1>1 DEF TriesLeft
    <3> QED
      BY <3>2, <3>3, <2>1, <1>3
  <2>2. CASE \E g \in D :
               /\ tries' = [m \in Msg |-> IF m <= g.msg /\ \E f \in D : f.msg = m
                                          THEN tries[m] + 1 ELSE tries[m]]
               /\ dead' = TRUE
    <3>1. tries' \in [Msg -> 0 .. MaxRetransmits + 1]
      BY <2>2, <1>1, <1>3
    <3>2. TriesLeft'
      BY <2>2 DEF TriesLeft
    <3> QED
      BY <3>1, <3>2, <2>2
  <2> QED
    BY <2>1, <2>2 DEF SenderTick
<1>5. TypeOK'
  BY <1>2, <1>4 DEF IInv, TypeOK
<1>6. Numbered'
  BY <1>2 DEF IInv, Numbered
<1> QED
  BY <1>2, <1>4, <1>5, <1>6 DEF IInv, WindowCompact, Counted, AcksTrue, AckedWasDelivered

\* The network loses a datagram.
LEMMA LossKeeps ==
  ASSUME IInv, (\E f \in net : LoseFrame(f)) \/ (\E a \in acks : LoseAck(a))
  PROVE  IInv'
<1>1. /\ net' \subseteq net /\ acks' \subseteq acks
      /\ UNCHANGED <<nextSeq, sent, inFlight, tries, dead, acked, hc, ooo, unacked, times>>
  BY DEF LoseFrame, LoseAck, sendVars, recvVars
<1> QED
  BY <1>1 DEF IInv, TypeOK, Numbered, WindowCompact, Counted, AcksTrue, TriesLeft,
              AckedWasDelivered

LEMMA NextKeeps ==
  ASSUME NoWrap, IInv, [Next]_vars
  PROVE  IInv'
<1>1. CASE SendReliable
  BY <1>1, SendKeeps
<1>2. CASE \E f \in net : \E keep \in BOOLEAN : ReceiveFrame(f, keep)
  BY <1>2, ReceiveKeeps
<1>3. CASE (\E f \in net : LoseFrame(f)) \/ (\E a \in acks : LoseAck(a))
  BY <1>3, LossKeeps
<1>4. CASE AckTimer
  BY <1>4, AckTimerKeeps
<1>5. CASE \E a \in acks : \E keep \in BOOLEAN : ReceiveAck(a, keep)
  BY <1>5, ReceiveAckKeeps
<1>6. CASE \E D \in SUBSET inFlight : SenderTick(D)
  BY <1>6, SenderTickKeeps
<1>7. CASE UNCHANGED vars
  BY <1>7 DEF vars, IInv, TypeOK, Numbered, WindowCompact, Counted, AcksTrue, TriesLeft,
              AckedWasDelivered
<1> QED
  BY <1>1, <1>2, <1>3, <1>4, <1>5, <1>6, <1>7 DEF Next

----------------------------------------------------------------------------
(* The theorems.                                                           *)

\* The inductive invariant holds throughout.
THEOREM ChannelInv == ASSUME NoWrap PROVE Spec => []IInv
<1>1. Init => IInv
  BY InitIInv
<1>2. IInv /\ [Next]_vars => IInv'
  BY NextKeeps
<1> QED
  BY <1>1, <1>2, PTL DEF Spec

\* Numbers, windows, counters and frames on the network keep their types.
THEOREM TypeCorrect == ASSUME NoWrap PROVE Spec => []TypeOK
<1>1. IInv => TypeOK
  BY DEF IInv
<1> QED
  BY <1>1, ChannelInv, PTL

\* No message reaches the application twice.
THEOREM Dedup == ASSUME NoWrap PROVE Spec => []AtMostOnce
<1>1. IInv => AtMostOnce
  BY DEF IInv, Counted, AtMostOnce
<1> QED
  BY <1>1, ChannelInv, PTL

\* What the sender takes for delivered was delivered.
THEOREM AckSound == ASSUME NoWrap PROVE Spec => []AckedWasDelivered
<1>1. IInv => AckedWasDelivered
  BY DEF IInv
<1> QED
  BY <1>1, ChannelInv, PTL

\* The window can always move on.
THEOREM NoStall == ASSUME NoWrap PROVE Spec => []OldestAccepted
<1>1. IInv => OldestAccepted
  <2>1. SUFFICES ASSUME IInv, NEW f \in inFlight, times[f.msg] = 0,
                        \A k \in 1 .. f.msg - 1 : times[k] > 0
                 PROVE  Accepts(f.seq)
    BY DEF OldestAccepted
  <2>2. /\ MaxMsgs \in Nat /\ Window \in Nat \ {0} /\ hc \in 0 .. MaxMsgs
        /\ f.msg \in Msg /\ f.seq = f.msg
    BY <2>1, ChannelAssumption DEF IInv, TypeOK, Numbered, WindowCompact, Frame, Seq32
  <2>3. f.msg > hc /\ f.msg \notin ooo
    BY <2>1, <2>2 DEF IInv, Counted, Msg
  <2>4. hc + 1 \notin ooo
    BY <2>1, <2>2 DEF IInv, WindowCompact
  <2>5. f.msg = hc + 1
    <3>1. ASSUME f.msg # hc + 1 PROVE FALSE
      <4>1. hc + 1 \in 1 .. f.msg - 1 /\ hc + 1 \in Msg
        BY <3>1, <2>2, <2>3 DEF Msg
      <4>2. times[hc + 1] > 0 /\ times[hc + 1] = 0
        BY <4>1, <2>1, <2>2, <2>4 DEF IInv, Counted
      <4> QED
        BY <4>2
    <3> QED
      BY <3>1
  <2> QED
    BY <2>1, <2>2, <2>3, <2>5, AcceptsWindow
<1> QED
  BY <1>1, ChannelInv, PTL

\* Every step of the channel is a step of the delivery service or a stutter.
LEMMA StepRefines ==
  ASSUME NoWrap, IInv, [Next]_vars
  PROVE  [Service!DeliveryNext]_(Service!deliveryVars)
<1> USE DEF Service!DeliveryNext, Service!deliveryVars
<1>1. CASE SendReliable
  <2>1. Service!Submit
    BY <1>1 DEF SendReliable, recvVars, Service!Submit
  <2> QED
    BY <2>1
<1>2. CASE \E f \in net : \E keep \in BOOLEAN : ReceiveFrame(f, keep)
  <2>1. PICK f \in net, keep \in BOOLEAN : ReceiveFrame(f, keep)
    BY <1>2
  <2>2. UNCHANGED <<sent, acked, dead>>
    BY <2>1 DEF ReceiveFrame, sendVars
  <2>3. CASE ~Accepts(f.seq)
    BY <2>1, <2>2, <2>3 DEF ReceiveFrame
  <2>4. CASE Accepts(f.seq)
    <3>1. f.msg \in Msg /\ f.seq = f.msg /\ f.msg <= sent
      BY DEF IInv, TypeOK, Numbered, Frame
    <3>2. MaxMsgs \in Nat /\ Window \in Nat \ {0} /\ hc \in 0 .. MaxMsgs
      BY ChannelAssumption DEF IInv, TypeOK, WindowCompact, Seq32
    <3>3. f.msg > hc /\ f.msg \notin ooo /\ f.msg <= hc + Window
      BY <2>4, <3>1, <3>2, AcceptsWindow
    <3>4. times[f.msg] = 0
      BY <3>1, <3>2, <3>3 DEF IInv, Counted, Msg
    <3>5. \A k \in 1 .. f.msg - Window : times[k] = 1
      <4>1. \A k \in 1 .. f.msg - Window : k \in Msg /\ k <= hc
        BY <3>1, <3>2, <3>3 DEF Msg
      <4> QED
        BY <4>1 DEF IInv, Counted
    <3>6. times' = [times EXCEPT ![f.msg] = 1]
      <4>1. times' = [times EXCEPT ![f.msg] = @ + 1]
        BY <2>1, <2>4 DEF ReceiveFrame
      <4> QED
        BY <4>1, <3>1, <3>4 DEF IInv, TypeOK
    <3>7. Service!Deliver(f.msg)
      BY <3>1, <3>4, <3>5, <3>6, <2>2 DEF Service!Deliver
    <3> QED
      BY <3>1, <3>7 DEF Msg
  <2> QED
    BY <2>3, <2>4
<1>3. CASE \E a \in acks : \E keep \in BOOLEAN : ReceiveAck(a, keep)
  <2>1. PICK a \in acks, keep \in BOOLEAN : ReceiveAck(a, keep)
    BY <1>3
  <2> DEFINE S == {f.msg : f \in {g \in inFlight : Confirms(a, g.seq)}}
  <2>2. acked' = acked \cup S /\ UNCHANGED <<sent, times, dead>>
    BY <2>1 DEF ReceiveAck, recvVars
  <2>3. \A m \in S : m \in Msg /\ times[m] = 1
    BY HitsDelivered
  <2>4. Service!Confirm(S)
    BY <2>2, <2>3 DEF Service!Confirm
  <2>5. S \in SUBSET (1 .. MaxMsgs)
    BY <2>3 DEF Msg
  <2> HIDE DEF S
  <2> QED
    BY <2>4, <2>5
<1>4. CASE \E D \in SUBSET inFlight : SenderTick(D)
  <2>1. UNCHANGED <<sent, times, acked>> /\ (UNCHANGED dead \/ dead' = TRUE)
    BY <1>4 DEF SenderTick, recvVars
  <2> QED
    BY <2>1 DEF Service!Break
<1>5. CASE AckTimer \/ (\E f \in net : LoseFrame(f)) \/ (\E a \in acks : LoseAck(a))
  BY <1>5 DEF AckTimer, LoseFrame, LoseAck, sendVars, recvVars
<1>6. CASE UNCHANGED vars
  BY <1>6 DEF vars
<1> QED
  BY <1>1, <1>2, <1>3, <1>4, <1>5, <1>6 DEF Next

\* The channel implements the delivery service.
THEOREM Implements == ASSUME NoWrap PROVE Spec => ImplementsDelivery
<1>1. Init => Service!DeliveryInit
  BY DEF Init, Service!DeliveryInit, Msg
<1>2. IInv /\ [Next]_vars => [Service!DeliveryNext]_(Service!deliveryVars)
  BY StepRefines
<1> QED
  BY <1>1, <1>2, ChannelInv, PTL DEF Spec, ImplementsDelivery, Service!DeliverySpec
=============================================================================
