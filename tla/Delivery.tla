------------------------------ MODULE Delivery ------------------------------
(***************************************************************************)
(* What the reliable channel promises the two applications: a message is   *)
(* delivered at most once, in any order within a window, and the sender    *)
(* takes it for delivered only when it was.  When the channel gives up,    *)
(* nothing new is sent and the fate of the open messages is unknown.       *)
(***************************************************************************)
EXTENDS Integers

CONSTANTS MaxMsgs, Window

VARIABLES submitted, delivered, confirmed, broken

deliveryVars == <<submitted, delivered, confirmed, broken>>

DeliveryInit ==
  /\ submitted = 0
  /\ delivered = [m \in 1 .. MaxMsgs |-> 0]
  /\ confirmed = {}
  /\ broken = FALSE

Submit ==
  /\ ~broken
  /\ submitted < MaxMsgs
  /\ submitted' = submitted + 1
  /\ UNCHANGED <<delivered, confirmed, broken>>

\* At most once, and fewer than Window messages ahead of an undelivered one.
Deliver(m) ==
  /\ m <= submitted
  /\ delivered[m] = 0
  /\ \A k \in 1 .. m - Window : delivered[k] = 1
  /\ delivered' = [delivered EXCEPT ![m] = 1]
  /\ UNCHANGED <<submitted, confirmed, broken>>

Confirm(S) ==
  /\ \A m \in S : delivered[m] = 1
  /\ confirmed' = confirmed \cup S
  /\ UNCHANGED <<submitted, delivered, broken>>

Break ==
  /\ broken' = TRUE
  /\ UNCHANGED <<submitted, delivered, confirmed>>

DeliveryNext ==
  \/ Submit
  \/ \E m \in 1 .. MaxMsgs : Deliver(m)
  \/ \E S \in SUBSET (1 .. MaxMsgs) : Confirm(S)
  \/ Break

DeliverySpec == DeliveryInit /\ [][DeliveryNext]_deliveryVars
=============================================================================
