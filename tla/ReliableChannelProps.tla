------------------------ MODULE ReliableChannelProps ------------------------
(***************************************************************************)
(* What must hold of one direction of the reliable channel.                *)
(***************************************************************************)
EXTENDS ReliableChannel

\* Fewer messages than half the sequence space, 2^31 in the code.
NoWrap == MaxMsgs < HalfRange

TypeOK ==
  /\ nextSeq \in Seq32
  /\ sent \in 0 .. MaxMsgs
  /\ inFlight \subseteq Frame
  /\ tries \in [Msg -> 0 .. MaxRetransmits + 1]
  /\ dead \in BOOLEAN
  /\ acked \subseteq Msg
  /\ net \subseteq Frame
  /\ acks \subseteq Ack
  /\ hc \in Seq32
  /\ ooo \subseteq Seq32
  /\ unacked \in Nat
  /\ times \in [Msg -> Nat]

\* The application never sees a message twice, however often the frame was
\* retransmitted or repeated by the network.
AtMostOnce == \A m \in Msg : times[m] <= 1

\* What the sender struck off its in-flight table was delivered: neither a
\* cumulative nor a selective ACK ever speaks for a frame the receiver refused.
AckedWasDelivered == \A m \in acked : times[m] = 1

\* The window can always move on: once everything before message m was
\* delivered, a frame of m that is still open is not refused.
OldestAccepted ==
  \A f \in inFlight :
    times[f.msg] = 0 /\ (\A k \in 1 .. f.msg - 1 : times[k] > 0) => Accepts(f.seq)

\* A submitted message is settled: delivered, or the channel is dead.  No
\* frame is retransmitted for ever and none is forgotten.
Settled == \A m \in Msg : (sent >= m) ~> (times[m] = 1 \/ dead)

\* The channel implements the delivery service.
Service == INSTANCE Delivery WITH
  submitted <- sent, delivered <- times, confirmed <- acked, broken <- dead
ImplementsDelivery == Service!DeliverySpec
=============================================================================
