-------------------------- MODULE ReliableChannel --------------------------
(***************************************************************************)
(* One direction of the reliable channel of net/reliable.py and            *)
(* net/channel.py, over UDP: the SendWindow of one end, the ReceiveWindow  *)
(* of the other, and the network between them, which loses, repeats and    *)
(* reorders datagrams.                                                     *)
(*                                                                         *)
(* Abstractions.  A payload is the index of the message in the order of    *)
(* sending.  Sequence numbers keep their modulus, 2 * HalfRange.  The RTO  *)
(* estimator and its back-off only decide which frames are due when tick() *)
(* runs: any set of frames may be due.  In the same way the 50 ms ACK      *)
(* timer may have elapsed whenever the code looks at it.                   *)
(*                                                                         *)
(* An operator whose name starts with Bug is a plausible mistake in the    *)
(* operator below it; no action uses it.                                   *)
(***************************************************************************)
EXTENDS Integers, FiniteSets

CONSTANTS
  HalfRange,        \* half the sequence space, 0x80000000 in the code
  Window,           \* SACK_WINDOW
  MaxRetransmits,   \* MAX_RETRANSMITS
  AckBatch,         \* ReliableChannel.ACK_BATCH
  MaxMsgs,          \* bound: messages the sender submits
  MaxOpen           \* bound: messages sent beyond the oldest one in flight

ASSUME ChannelAssumption ==
  /\ {HalfRange, Window, AckBatch} \subseteq Nat \ {0}
  /\ {MaxRetransmits, MaxMsgs, MaxOpen} \subseteq Nat
  /\ Window < HalfRange

VARIABLES
  nextSeq,    \* SendWindow.next_seq
  sent,       \* how many messages were submitted; message m is the m-th
  inFlight,   \* SendWindow.in_flight: frames not acknowledged yet
  tries,      \* InFlight.retransmit_count of each message
  dead,       \* ReliableChannel.dead
  acked,      \* the messages whose frame an ACK removed from in_flight
  net,        \* data frames on their way
  acks,       \* ACK frames on their way
  hc,         \* ReceiveWindow.highest_contiguous
  ooo,        \* ReceiveWindow._delivered_out_of_order, which is the bitmap
  unacked,    \* ReliableChannel._unacked_count of the receiving end
  times       \* how often each message was handed to the application

sendVars == <<nextSeq, sent, inFlight, tries, dead, acked>>
recvVars == <<hc, ooo, unacked, times>>
vars == <<nextSeq, sent, inFlight, tries, dead, acked, net, acks, hc, ooo, unacked, times>>

----------------------------------------------------------------------------
(* Arithmetic on sequence numbers, modulo 2 * HalfRange.                   *)

Modulus == 2 * HalfRange
Seq32 == 0 .. Modulus - 1

Msg == 1 .. MaxMsgs
Frame == [msg : Msg, seq : Seq32]
Ack == [hc : Seq32, sack : SUBSET Seq32]

\* (a + i) & 0xFFFFFFFF, for i up to the modulus
Plus(a, i) == IF a + i >= Modulus THEN a + i - Modulus ELSE a + i

\* (b - a) & 0xFFFFFFFF
Gap(a, b) == IF a <= b THEN b - a ELSE b - a + Modulus

SeqLeq(a, b) == Gap(a, b) < HalfRange

\* The number after s; 0 is reserved.
SkipZero(s) == IF Plus(s, 1) = 0 THEN 1 ELSE Plus(s, 1)

----------------------------------------------------------------------------
Init ==
  /\ nextSeq = 1
  /\ sent = 0
  /\ inFlight = {}
  /\ tries = [m \in Msg |-> 0]
  /\ dead = FALSE
  /\ acked = {}
  /\ net = {}
  /\ acks = {}
  /\ hc = 0
  /\ ooo = {}
  /\ unacked = 0
  /\ times = [m \in Msg |-> 0]

\* Half the sequence space away from the newest message nothing old is left:
\* no frame in flight or on the wire, no ACK that still speaks of its epoch.
\* With 2^31 messages in between this is the lifetime of a datagram.
Recent ==
  /\ \A f \in inFlight : sent - f.msg < MaxOpen
  /\ \A f \in net : sent - f.msg + 1 < HalfRange
  /\ \A a \in acks : Gap(a.hc, nextSeq) < HalfRange

SendReliable ==
  LET f == [msg |-> sent + 1, seq |-> nextSeq] IN
  /\ ~dead
  /\ sent < MaxMsgs /\ Recent
  /\ sent' = sent + 1
  /\ nextSeq' = SkipZero(nextSeq)
  /\ inFlight' = inFlight \cup {f}
  /\ net' = net \cup {f}
  /\ UNCHANGED <<tries, dead, acked, acks, recvVars>>

----------------------------------------------------------------------------
(* The receiving end.                                                      *)

BugSeenBefore(s) == SeqLeq(s, hc) /\ s # 0

\* Seen before: delivered in order, or remembered out of order.
SeenBefore(s) == (SeqLeq(s, hc) /\ s # 0) \/ s \in ooo

BugInWindow(s) == Gap(hc, s) # 0

InWindow(s) == Gap(hc, s) # 0 /\ Gap(hc, s) <= Window

\* on_receive takes the frame as new.
Accepts(s) == ~SeenBefore(s) /\ (s = Plus(hc, 1) \/ InWindow(s))

BugRegister(s) ==
  IF s = Plus(hc, 1) THEN hc' = Plus(s, 1) /\ ooo' = ooo \ {Plus(s, 1)}
  ELSE hc' = hc /\ ooo' = ooo \cup {s}

\* The next number in order pulls the remembered ones behind it along.
Register(s) ==
  IF s = Plus(hc, 1)
  THEN \E run \in 0 .. Window :
         /\ \A i \in 1 .. run : Plus(s, i) \in ooo
         /\ Plus(s, run + 1) \notin ooo
         /\ hc' = Plus(s, run)
         /\ ooo' = ooo \ {Plus(s, i) : i \in 1 .. run}
  ELSE hc' = hc /\ ooo' = ooo \cup {s}

\* An ACK shows the window as it is when the ACK leaves.
EmitAck == acks' = acks \cup {[hc |-> hc', sack |-> ooo']} /\ unacked' = 0

\* Every reliable frame is owed an ACK, a duplicate or a refused one too.  The
\* datagram may arrive again later (keep).
ReceiveFrame(f, keep) ==
  /\ f \in net
  /\ net' = IF keep THEN net ELSE net \ {f}
  /\ IF Accepts(f.seq)
     THEN Register(f.seq) /\ times' = [times EXCEPT ![f.msg] = @ + 1]
     ELSE UNCHANGED <<hc, ooo, times>>
  /\ \/ EmitAck
     \/ /\ unacked + 1 < AckBatch
        /\ unacked' = unacked + 1
        /\ UNCHANGED acks
  /\ UNCHANGED sendVars

\* tick() of the receiving end when the ACK timer has elapsed.
AckTimer ==
  /\ unacked > 0
  /\ UNCHANGED <<hc, ooo>>
  /\ EmitAck
  /\ UNCHANGED <<sendVars, net, times>>

----------------------------------------------------------------------------
(* The sending end again.                                                  *)

BugConfirms(a, s) == SeqLeq(s, Plus(a.hc, 1)) \/ s \in a.sack

\* The ACK covers the number.
Confirms(a, s) == SeqLeq(s, a.hc) \/ s \in a.sack

ReceiveAck(a, keep) ==
  LET hit == {f \in inFlight : Confirms(a, f.seq)} IN
  /\ a \in acks
  /\ acks' = IF keep THEN acks ELSE acks \ {a}
  /\ inFlight' = inFlight \ hit
  /\ acked' = acked \cup {f.msg : f \in hit}
  /\ UNCHANGED <<nextSeq, sent, tries, dead, net, recvVars>>

BugExhausted(m) == FALSE

\* One more retransmission of m is one too many.
Exhausted(m) == tries[m] + 1 > MaxRetransmits

\* tick() of the sending end: the frames of D are due.  The first one that
\* was retransmitted too often is dropped and kills the channel; the frames
\* before it were counted but are not sent either.
SenderTick(D) ==
  /\ ~dead
  /\ D # {} /\ D \subseteq inFlight
  /\ \/ /\ \A f \in D : ~Exhausted(f.msg)
        /\ tries' = [m \in Msg |-> IF \E f \in D : f.msg = m THEN tries[m] + 1 ELSE tries[m]]
        /\ net' = net \cup D
        /\ UNCHANGED <<inFlight, dead>>
     \/ \E g \in D :
        /\ Exhausted(g.msg)
        /\ \A f \in D : f.msg < g.msg => ~Exhausted(f.msg)
        /\ tries' = [m \in Msg |-> IF m <= g.msg /\ \E f \in D : f.msg = m
                                   THEN tries[m] + 1 ELSE tries[m]]
        /\ inFlight' = inFlight \ {g}
        /\ dead' = TRUE
        /\ UNCHANGED net
  /\ UNCHANGED <<nextSeq, sent, acked, acks, recvVars>>

\* The network loses datagrams.
LoseFrame(f) ==
  /\ f \in net
  /\ net' = net \ {f}
  /\ UNCHANGED <<sendVars, recvVars, acks>>

LoseAck(a) ==
  /\ a \in acks
  /\ acks' = acks \ {a}
  /\ UNCHANGED <<sendVars, recvVars, net>>

Next ==
  \/ SendReliable
  \/ \E f \in net : (\E keep \in BOOLEAN : ReceiveFrame(f, keep)) \/ LoseFrame(f)
  \/ AckTimer
  \/ \E a \in acks : (\E keep \in BOOLEAN : ReceiveAck(a, keep)) \/ LoseAck(a)
  \/ \E D \in SUBSET inFlight : SenderTick(D)

Spec == Init /\ [][Next]_vars

\* The run loop calls tick() again and again, and a frame that is not
\* acknowledged becomes due.
SomeTick == \E D \in SUBSET inFlight : SenderTick(D)
FairSpec == Spec /\ WF_vars(SomeTick)
=============================================================================
