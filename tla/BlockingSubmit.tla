--------------------------- MODULE BlockingSubmit ---------------------------
(***************************************************************************)
(* How a game thread waits for the server's verdict (client.cpp,           *)
(* submit_container_op_blocking) while the net thread delivers verdicts    *)
(* and, when its loop ends, wakes whoever still waits (run_loop).          *)
(*                                                                         *)
(* There are two kinds of locks: pending_ops_mutex_ over the table of      *)
(* waiters, and one mutex for each waiter.  A critical section that takes  *)
(* no other lock is one step, enabled when its lock is free.  Two places   *)
(* hold a lock while they take another: the submitter that unmaps its      *)
(* waiter after the wait, with the waiter's mutex in hand, and the net     *)
(* thread's last sweep, with pending_ops_mutex_ in hand.                   *)
(*                                                                         *)
(* The network and the server are external: a submitted move may be        *)
(* answered at any time, or never.  The 100 ms limit may run out at any    *)
(* time.                                                                   *)
(*                                                                         *)
(* An operator whose name starts with Bug is a plausible mistake in the    *)
(* operator below it; no action uses it.                                   *)
(***************************************************************************)
EXTENDS Naturals

CONSTANTS
  Thread,  \* game threads that run the hooks
  MaxOps   \* bound: submissions, together

ASSUME SubmitAssumption == MaxOps \in Nat

VARIABLES
  stage,     \* where each game thread is in the submit
  op,        \* the id of its submission (client_op_id)
  nextId,    \* next_op_id_
  table,     \* ids in pending_ops_
  ack,       \* the answer in each waiter, "none" until ready
  queue,     \* queue_: submissions the net thread has not sent
  wire,      \* submissions the server may answer
  replies,   \* CONTAINER_OP_ACK on their way
  connected, \* connected_
  net,       \* where the net thread is
  reply,     \* the ACK whose waiter it has found
  toWake,    \* waiters the last sweep has yet to wake
  \* history
  given,     \* verdicts the server gave
  returned   \* answers the game threads returned with

submitVars == <<stage, op, nextId, table, ack, queue, wire, replies, connected, net, reply,
                toWake, given, returned>>
netVars == <<connected, net, reply, toWake>>
serverVars == <<wire, replies, given>>

Id == 1 .. MaxOps
Verdict == {"accepted", "rejected"}
NoReply == [id |-> 0, answer |-> "none"]

\* The answer that wakes a waiter when the net thread ends: ACCEPTED is 0, the
\* value a waiter's acknowledgement has when nobody wrote it.
BugSentinel == "accepted"

Sentinel == "shutdown"

SubmitInit ==
  /\ stage = [t \in Thread |-> "idle"]
  /\ op = [t \in Thread |-> 0]
  /\ nextId = 1
  /\ table = {} /\ ack = [i \in Id |-> "none"]
  /\ queue = {} /\ wire = {} /\ replies = {}
  /\ connected = TRUE
  /\ net = "loop" /\ reply = NoReply /\ toWake = {}
  /\ given = {} /\ returned = {}

----------------------------------------------------------------------------
(* The locks.                                                              *)

BugTableFree == net \notin {"sweep", "deliver"}

\* Nobody holds pending_ops_mutex_: the lookup of an ACK gives it back before
\* it takes the waiter's mutex, the sweep does not.
TableFree == net # "sweep"

\* A game thread holds its waiter's mutex from the end of the wait until it
\* has unmapped the waiter.
WaiterFree(i) == \A t \in Thread : ~(stage[t] = "unmap" /\ op[t] = i)

----------------------------------------------------------------------------
(* A game thread.                                                          *)

BugFresh == nextId - 1

\* The id of a new submission; 0 is the id of one that wants no answer.
Fresh == nextId

\* The connection is checked and the id drawn before anything is locked.
Begin(t) ==
  /\ stage[t] = "idle"
  /\ connected
  /\ nextId \in Id
  /\ op' = [op EXCEPT ![t] = Fresh]
  /\ nextId' = nextId + 1
  /\ stage' = [stage EXCEPT ![t] = "register"]
  /\ UNCHANGED <<table, ack, queue, serverVars, netVars, returned>>

Register(t) ==
  /\ stage[t] = "register"
  /\ TableFree
  /\ table' = table \cup {op[t]}
  /\ stage' = [stage EXCEPT ![t] = "enqueue"]
  /\ UNCHANGED <<op, nextId, ack, queue, serverVars, netVars, returned>>

Enqueue(t) ==
  /\ stage[t] = "enqueue"
  /\ queue' = queue \cup {op[t]}
  /\ stage' = [stage EXCEPT ![t] = "wait"]
  /\ UNCHANGED <<op, nextId, table, ack, serverVars, netVars, returned>>

\* The wait ends with the answer or with the time limit.  Either way the
\* thread has the waiter's mutex again.
Wake(t) ==
  /\ stage[t] = "wait"
  /\ stage' = [stage EXCEPT ![t] = "unmap"]
  /\ UNCHANGED <<op, nextId, table, ack, queue, serverVars, netVars, returned>>

BugUnmapped(t) == IF ack[op[t]] = "none" THEN table ELSE table \ {op[t]}

\* The entry goes whether an answer came or not.
Unmapped(t) == table \ {op[t]}

Return(t) ==
  /\ stage[t] = "unmap"
  /\ TableFree
  /\ table' = Unmapped(t)
  /\ returned' = returned \cup {[id |-> op[t], answer |-> ack[op[t]]]}
  /\ stage' = [stage EXCEPT ![t] = "idle"]
  /\ UNCHANGED <<op, nextId, ack, queue, serverVars, netVars>>

----------------------------------------------------------------------------
(* The server.                                                             *)

Answer(i, v) ==
  /\ i \in wire
  /\ wire' = wire \ {i}
  /\ given' = given \cup {[id |-> i, answer |-> v]}
  /\ replies' = replies \cup {[id |-> i, answer |-> v]}
  /\ UNCHANGED <<stage, op, nextId, table, ack, queue, netVars, returned>>

----------------------------------------------------------------------------
(* The net thread.                                                         *)

Send ==
  /\ net = "loop"
  /\ queue # {}
  /\ wire' = wire \cup queue
  /\ queue' = {}
  /\ UNCHANGED <<stage, op, nextId, table, ack, replies, given, netVars, returned>>

\* A verdict finds its waiter, or is dropped when there is none any more.
Dispatch(r) ==
  /\ net = "loop"
  /\ r \in replies
  /\ replies' = replies \ {r}
  /\ IF r.id \in table
     THEN net' = "deliver" /\ reply' = r
     ELSE UNCHANGED <<net, reply>>
  /\ UNCHANGED <<stage, op, nextId, table, ack, queue, wire, given, connected, toWake, returned>>

\* The waiter lives on when its submitter has gone.
Deliver ==
  /\ net = "deliver"
  /\ WaiterFree(reply.id)
  /\ ack' = [ack EXCEPT ![reply.id] = reply.answer]
  /\ net' = "loop" /\ reply' = NoReply
  /\ UNCHANGED <<stage, op, nextId, table, queue, serverVars, connected, toWake, returned>>

\* The loop ends: stop() was called or the channel is dead.  Submissions go on
\* until connected_ is cleared.
Leave ==
  /\ net = "loop"
  /\ net' = "leave"
  /\ UNCHANGED <<stage, op, nextId, table, ack, queue, serverVars, connected, reply, toWake,
                 returned>>

StartSweep ==
  /\ net = "leave"
  /\ connected' = FALSE
  /\ net' = "sweep" /\ toWake' = table
  /\ UNCHANGED <<stage, op, nextId, table, ack, queue, serverVars, reply, returned>>

\* The answer of a waiter that is still in the table is overwritten.
WakeWaiter(i) ==
  /\ net = "sweep"
  /\ i \in toWake
  /\ WaiterFree(i)
  /\ ack' = [ack EXCEPT ![i] = Sentinel]
  /\ toWake' = toWake \ {i}
  /\ UNCHANGED <<stage, op, nextId, table, queue, serverVars, connected, net, reply, returned>>

EndSweep ==
  /\ net = "sweep"
  /\ toWake = {}
  /\ net' = "exited"
  /\ UNCHANGED <<stage, op, nextId, table, ack, queue, serverVars, connected, reply, toWake,
                 returned>>

----------------------------------------------------------------------------
Submitter(t) == Begin(t) \/ Register(t) \/ Enqueue(t) \/ Wake(t) \/ Return(t)

NetThread ==
  \/ Send
  \/ \E r \in replies : Dispatch(r)
  \/ Deliver
  \/ Leave
  \/ StartSweep
  \/ \E i \in toWake : WakeWaiter(i)
  \/ EndSweep

SubmitNext ==
  \/ \E t \in Thread : Submitter(t)
  \/ NetThread
  \/ \E i \in wire, v \in Verdict : Answer(i, v)

SubmitSpec == SubmitInit /\ [][SubmitNext]_submitVars

\* The scheduler runs every thread that can go on, and the time limit runs out.
\* Nothing makes the net thread leave, nor the server answer.
FairSubmitSpec ==
  /\ SubmitSpec
  /\ \A t \in Thread : WF_submitVars(Register(t) \/ Enqueue(t) \/ Wake(t) \/ Return(t))
  /\ WF_submitVars(Deliver)
  /\ WF_submitVars(StartSweep \/ EndSweep \/ \E i \in toWake : WakeWaiter(i))
=============================================================================
