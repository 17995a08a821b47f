---------------------------- MODULE ClientProofs ----------------------------
(***************************************************************************)
(* Proofs about two mechanisms of the client's DLL: the blocking submit,   *)
(* for any number of threads and submissions, and the shared death of an   *)
(* NPC, for any number of clients.  The two share no state; a name with    *)
(* Submit in it is of the first part, one with Death of the second.        *)
(*                                                                         *)
(* The inductive invariant of the submit follows an answer from the server *)
(* to the submitter: what is on its way, what the net thread has found a   *)
(* waiter for and what lies in a waiter was given for that id.             *)
(*                                                                         *)
(* That of the death says what a live copy is owed: once anybody knows of  *)
(* the death and nothing was lost, a death is queued for it, on its way to *)
(* it, or will be relayed to it.                                           *)
(***************************************************************************)
EXTENDS BlockingSubmitProps, DeathProps, SumTheorems, TLAPS

\* The id of a submission in progress is a real one.
OpDrawn == \A t \in Thread : stage[t] # "idle" => op[t] \in Id

\* A verdict on its way to a waiter was given.
ReplyGiven ==
  /\ replies \subseteq given
  /\ reply # NoReply => reply \in given
  /\ net = "deliver" => reply # NoReply

\* A verdict in a waiter was given for that waiter.
AckGiven == \A i \in Id : ack[i] \in Verdict => [id |-> i, answer |-> ack[i]] \in given

SubmitInv == SubmitTypeOK /\ OpDrawn /\ ReplyGiven /\ AckGiven /\ NoWaiterLeaks /\ AnswerIsOwn

\* Nothing was submitted yet.
LEMMA SubmitStart == SubmitInit => SubmitInv
<1> SUFFICES ASSUME SubmitInit PROVE SubmitInv
  OBVIOUS
<1> USE DEF SubmitInit
<1>1. SubmitTypeOK
  BY SubmitAssumption DEF SubmitTypeOK, Answers, Reply, Verdict, Id, NoReply
<1>2. OpDrawn
  BY DEF OpDrawn
<1>3. ReplyGiven
  BY DEF ReplyGiven
<1>4. AckGiven
  BY DEF AckGiven, Verdict
<1>5. NoWaiterLeaks /\ AnswerIsOwn
  BY DEF NoWaiterLeaks, AnswerIsOwn
<1> QED BY <1>1, <1>2, <1>3, <1>4, <1>5 DEF SubmitInv

\* The type invariant is preserved.
LEMMA SubmitTypeStep == SubmitInv /\ [SubmitNext]_submitVars => SubmitTypeOK'
<1> SUFFICES ASSUME SubmitInv, [SubmitNext]_submitVars PROVE SubmitTypeOK'
  OBVIOUS
<1> USE SubmitAssumption DEF SubmitInv, SubmitTypeOK, Answers, Reply, Verdict, Id, serverVars, netVars
<1>1. ASSUME NEW t \in Thread, Begin(t) PROVE SubmitTypeOK'
  BY <1>1 DEF Begin, Fresh
<1>2. ASSUME NEW t \in Thread, Register(t) PROVE SubmitTypeOK'
  BY <1>2 DEF Register, OpDrawn
<1>3. ASSUME NEW t \in Thread, Enqueue(t) PROVE SubmitTypeOK'
  BY <1>3 DEF Enqueue, OpDrawn
<1>4. ASSUME NEW t \in Thread, Wake(t) PROVE SubmitTypeOK'
  BY <1>4 DEF Wake
<1>5. ASSUME NEW t \in Thread, Return(t) PROVE SubmitTypeOK'
  <2>1. op[t] \in Id /\ ack[op[t]] \in Answers
    BY <1>5 DEF Return, OpDrawn
  <2>2. [id |-> op[t], answer |-> ack[op[t]]] \in [id : Id, answer : Answers]
    BY <2>1
  <2>3. returned' \subseteq [id : Id, answer : Answers] /\ table' \subseteq Id
    BY <1>5, <2>2 DEF Return, Unmapped
  <2> QED BY <1>5, <2>3 DEF Return
<1>6. CASE Send
  BY <1>6 DEF Send
<1>7. ASSUME NEW r \in replies, Dispatch(r) PROVE SubmitTypeOK'
  BY <1>7 DEF Dispatch
<1>8. CASE Deliver
  <2>1. reply \in Reply
    BY <1>8 DEF Deliver, ReplyGiven
  <2>2. reply.id \in Id /\ reply.answer \in Answers
    BY <2>1
  <2>3. ack' \in [Id -> Answers]
    BY <1>8, <2>2 DEF Deliver
  <2> QED BY <1>8, <2>3 DEF Deliver
<1>9. CASE Leave
  BY <1>9 DEF Leave
<1>10. CASE StartSweep
  BY <1>10 DEF StartSweep
<1>11. ASSUME NEW i \in toWake, WakeWaiter(i) PROVE SubmitTypeOK'
  BY <1>11 DEF WakeWaiter
<1>12. CASE EndSweep
  BY <1>12 DEF EndSweep
<1>13. ASSUME NEW i \in wire, NEW v \in Verdict, Answer(i, v) PROVE SubmitTypeOK'
  BY <1>13 DEF Answer
<1>14. CASE UNCHANGED submitVars
  BY <1>14 DEF submitVars
<1> QED
  BY <1>1, <1>2, <1>3, <1>4, <1>5, <1>6, <1>7, <1>8, <1>9, <1>10, <1>11, <1>12, <1>13, <1>14
  DEF SubmitNext, Submitter, NetThread

\* A submission in progress keeps its id.
LEMMA OpStep == SubmitInv /\ [SubmitNext]_submitVars => OpDrawn'
<1> SUFFICES ASSUME SubmitInv, [SubmitNext]_submitVars PROVE OpDrawn'
  OBVIOUS
<1> USE DEF SubmitInv, SubmitTypeOK, OpDrawn
<1>1. ASSUME NEW t \in Thread, Submitter(t) PROVE OpDrawn'
  BY <1>1 DEF Submitter, Begin, Fresh, Register, Enqueue, Wake, Return
<1>2. CASE NetThread
  BY <1>2 DEF NetThread, Send, Dispatch, Deliver, Leave, StartSweep, WakeWaiter, EndSweep
<1>3. ASSUME NEW i \in wire, NEW v \in Verdict, Answer(i, v) PROVE OpDrawn'
  BY <1>3 DEF Answer
<1>4. CASE UNCHANGED submitVars
  BY <1>4 DEF submitVars
<1> QED BY <1>1, <1>2, <1>3, <1>4 DEF SubmitNext

\* Answers reach waiters only from the server or the last sweep.
LEMMA AnswerStep == SubmitInv /\ [SubmitNext]_submitVars => ReplyGiven' /\ AckGiven'
<1> SUFFICES ASSUME SubmitInv, [SubmitNext]_submitVars PROVE ReplyGiven' /\ AckGiven'
  OBVIOUS
<1> USE DEF SubmitInv, SubmitTypeOK, ReplyGiven, AckGiven, serverVars, netVars
<1>1. ASSUME NEW t \in Thread, Submitter(t) PROVE ReplyGiven' /\ AckGiven'
  BY <1>1 DEF Submitter, Begin, Register, Enqueue, Wake, Return
<1>2. CASE Send
  BY <1>2 DEF Send
<1>3. ASSUME NEW r \in replies, Dispatch(r) PROVE ReplyGiven' /\ AckGiven'
  <2>1. r # NoReply
    BY DEF Reply, NoReply, Verdict
  <2> QED BY <1>3, <2>1 DEF Dispatch
<1>4. CASE Deliver
  <2>1. reply \in Reply /\ reply \in given
    BY <1>4 DEF Deliver
  <2>2. reply = [id |-> reply.id, answer |-> reply.answer]
    BY <2>1 DEF Reply
  <2>3. ReplyGiven'
    BY <1>4 DEF Deliver
  <2>4. AckGiven'
    BY <1>4, <2>1, <2>2 DEF Deliver
  <2> QED BY <2>3, <2>4
<1>5. CASE Leave \/ StartSweep \/ EndSweep
  BY <1>5 DEF Leave, StartSweep, EndSweep
<1>6. ASSUME NEW i \in toWake, WakeWaiter(i) PROVE ReplyGiven' /\ AckGiven'
  BY <1>6 DEF WakeWaiter, Sentinel, Verdict
<1>7. ASSUME NEW i \in wire, NEW v \in Verdict, Answer(i, v) PROVE ReplyGiven' /\ AckGiven'
  BY <1>7 DEF Answer
<1>8. CASE UNCHANGED submitVars
  BY <1>8 DEF submitVars
<1> QED BY <1>1, <1>2, <1>3, <1>4, <1>5, <1>6, <1>7, <1>8 DEF SubmitNext, NetThread

\* A thread takes its waiter out of the table before it leaves the submit.
LEMMA WaiterStep == SubmitInv /\ [SubmitNext]_submitVars => NoWaiterLeaks'
<1> SUFFICES ASSUME SubmitInv, [SubmitNext]_submitVars PROVE NoWaiterLeaks'
  OBVIOUS
<1> USE DEF SubmitInv, SubmitTypeOK, NoWaiterLeaks
<1>1. ASSUME NEW t \in Thread, Submitter(t) PROVE NoWaiterLeaks'
  BY <1>1 DEF Submitter, Begin, Register, Enqueue, Wake, Return, Unmapped
<1>2. CASE NetThread
  BY <1>2 DEF NetThread, Send, Dispatch, Deliver, Leave, StartSweep, WakeWaiter, EndSweep
<1>3. ASSUME NEW i \in wire, NEW v \in Verdict, Answer(i, v) PROVE NoWaiterLeaks'
  BY <1>3 DEF Answer
<1>4. CASE UNCHANGED submitVars
  BY <1>4 DEF submitVars
<1> QED BY <1>1, <1>2, <1>3, <1>4 DEF SubmitNext

\* What a thread returns with lay in its own waiter.
LEMMA OwnStep == SubmitInv /\ [SubmitNext]_submitVars => AnswerIsOwn'
<1> SUFFICES ASSUME SubmitInv, [SubmitNext]_submitVars PROVE AnswerIsOwn'
  OBVIOUS
<1> USE DEF SubmitInv, SubmitTypeOK, AnswerIsOwn, serverVars
<1>1. ASSUME NEW t \in Thread, Return(t) PROVE AnswerIsOwn'
  BY <1>1 DEF Return, OpDrawn, AckGiven
<1>2. ASSUME NEW t \in Thread, Begin(t) \/ Register(t) \/ Enqueue(t) \/ Wake(t)
      PROVE AnswerIsOwn'
  BY <1>2 DEF Begin, Register, Enqueue, Wake
<1>3. CASE NetThread
  BY <1>3 DEF NetThread, Send, Dispatch, Deliver, Leave, StartSweep, WakeWaiter, EndSweep
<1>4. ASSUME NEW i \in wire, NEW v \in Verdict, Answer(i, v) PROVE AnswerIsOwn'
  BY <1>4 DEF Answer
<1>5. CASE UNCHANGED submitVars
  BY <1>5 DEF submitVars
<1> QED BY <1>1, <1>2, <1>3, <1>4, <1>5 DEF SubmitNext, Submitter

\* The invariant of the submit holds throughout.
LEMMA SubmitAlways == SubmitSpec => []SubmitInv
<1>1. SubmitInv /\ [SubmitNext]_submitVars => SubmitInv'
  BY SubmitTypeStep, OpStep, AnswerStep, WaiterStep, OwnStep DEF SubmitInv
<1> QED BY SubmitStart, <1>1, PTL DEF SubmitSpec

\* Threads, waiters and messages keep their types.
THEOREM SubmitTypes == SubmitSpec => []SubmitTypeOK
<1>1. SubmitInv => SubmitTypeOK
  BY DEF SubmitInv
<1> QED BY SubmitAlways, <1>1, PTL

\* Whatever the timeouts, late verdicts and the end of the net thread do, a
\* submitter returns with a verdict only if the server gave it for its own
\* submission (submit_container_op_blocking, client.cpp:1334).
THEOREM OwnVerdict == SubmitSpec => []AnswerIsOwn
<1>1. SubmitInv => AnswerIsOwn
  BY DEF SubmitInv
<1> QED BY SubmitAlways, <1>1, PTL

\* No waiter stays in pending_ops_ when its submitter has returned
\* (client.cpp:1321-1325).
THEOREM TableDrained == SubmitSpec => []NoWaiterLeaks
<1>1. SubmitInv => NoWaiterLeaks
  BY DEF SubmitInv
<1> QED BY SubmitAlways, <1>1, PTL

\* What the server can grant was asked for: ids in the queue or at the server
\* were drawn.
Asked ==
  /\ nextId # 0
  /\ \A t \in Thread : op[t] < nextId
  /\ \A i \in queue \cup wire : i < nextId

\* Every step of the submit keeps it.
LEMMA AskedStep == SubmitInv /\ Asked /\ [SubmitNext]_submitVars => Asked'
<1> SUFFICES ASSUME SubmitInv, Asked, [SubmitNext]_submitVars PROVE Asked'
  OBVIOUS
<1> USE DEF SubmitInv, SubmitTypeOK, Id, Asked
<1>1. ASSUME NEW t \in Thread, Begin(t) PROVE Asked'
  BY <1>1 DEF Begin, Fresh, serverVars
<1>2. ASSUME NEW t \in Thread, Register(t) \/ Enqueue(t) \/ Wake(t) \/ Return(t)
      PROVE  Asked'
  BY <1>2 DEF Register, Enqueue, Wake, Return, serverVars
<1>3. CASE NetThread
  BY <1>3 DEF NetThread, Send, Dispatch, Deliver, Leave, StartSweep, WakeWaiter, EndSweep,
              serverVars, netVars
<1>4. ASSUME NEW i \in wire, NEW v \in Verdict, Answer(i, v) PROVE Asked'
  BY <1>4 DEF Answer
<1>5. CASE UNCHANGED submitVars
  BY <1>5 DEF submitVars
<1> QED
  BY <1>1, <1>2, <1>3, <1>4, <1>5 DEF SubmitNext, Submitter

\* The submit gives a hook leave only for the move that the server accepted, in
\* every interleaving of the threads (client.cpp:1284-1335, 1565-1599,
\* 2124-2146).
THEOREM SubmitImplements == SubmitSpec => ImplementsCall
<1> DEFINE Waiting == [t \in Thread |-> IF stage[t] = "idle" THEN {} ELSE {op[t]}]
           Made == 1 .. nextId - 1
           Granted == {i \in Id : [id |-> i, answer |-> "accepted"] \in given}
           Cleared == {i \in Id : [id |-> i, answer |-> "accepted"] \in returned}
<1>1. SubmitInit => Call!CallInit
  BY DEF SubmitInit, Call!CallInit
<1>2. SubmitInit => Asked
  BY DEF SubmitInit, Asked
<1>3. ASSUME SubmitInv, Asked, [SubmitNext]_submitVars
      PROVE  [Call!CallNext]_(Call!callVars)
  <2>1. /\ nextId \in Nat /\ nextId # 0 /\ stage \in [Thread -> {"idle", "register", "enqueue", "wait", "unmap"}]
        /\ op \in [Thread -> Id \cup {0}] /\ Id = 1 .. MaxOps /\ MaxOps \in Nat
    BY <1>3, SubmitAssumption DEF SubmitInv, SubmitTypeOK, Asked, Id
  <2>2. ASSUME NEW t \in Thread, Begin(t) PROVE Call!Ask(t)
    <3>1. /\ stage[t] = "idle" /\ op' = [op EXCEPT ![t] = nextId] /\ nextId' = nextId + 1
          /\ stage' = [stage EXCEPT ![t] = "register"] /\ UNCHANGED <<given, returned>>
      BY <2>2 DEF Begin, Fresh, serverVars
    <3>2. Waiting[t] = {}
      BY <3>1
    <3>3. Waiting' = [Waiting EXCEPT ![t] = {nextId}]
      BY <2>1, <3>1
    <3>4. nextId \notin Made /\ Made' = Made \cup {nextId}
      BY <2>1, <3>1
    <3>5. UNCHANGED <<Granted, Cleared>>
      BY <3>1
    <3>6. \E c \in Waiting'[t] : c \notin Made /\ Made' = Made \cup {c}
                                  /\ Waiting' = [Waiting EXCEPT ![t] = {c}]
      BY <3>3, <3>4
    <3>. QED
      BY <3>2, <3>5, <3>6 DEF Call!Ask
  <2>3. ASSUME NEW t \in Thread, Return(t)
        PROVE  Call!GoAhead(t) \/ Call!GiveUp(t)
    <3>1. /\ stage[t] = "unmap" /\ stage' = [stage EXCEPT ![t] = "idle"]
          /\ returned' = returned \cup {[id |-> op[t], answer |-> ack[op[t]]]}
          /\ UNCHANGED <<op, nextId, given>>
      BY <2>3 DEF Return, serverVars
    <3>2. op[t] \in Id
      BY <1>3, <3>1 DEF SubmitInv, OpDrawn
    <3>3. Waiting[t] = {op[t]} /\ Waiting' = [Waiting EXCEPT ![t] = {}]
      BY <2>1, <3>1
    <3>4. UNCHANGED <<Made, Granted>>
      BY <3>1
    <3>5. CASE ack[op[t]] = "accepted"
      <4>1. op[t] \in Granted
        BY <1>3, <3>2, <3>5 DEF SubmitInv, AckGiven, Verdict
      <4>2. Cleared' = Cleared \cup {op[t]}
        BY <3>1, <3>2, <3>5
      <4>. QED
        BY <3>3, <3>4, <4>1, <4>2 DEF Call!GoAhead
    <3>6. CASE ack[op[t]] # "accepted"
      <4>1. UNCHANGED Cleared
        BY <3>1, <3>6
      <4>. QED
        BY <3>3, <3>4, <4>1 DEF Call!GiveUp
    <3>. QED
      BY <3>5, <3>6
  <2>4. ASSUME NEW i \in wire, NEW v \in Verdict, Answer(i, v)
        PROVE  Call!CallNext \/ UNCHANGED Call!callVars
    <3>1. /\ given' = given \cup {[id |-> i, answer |-> v]}
          /\ UNCHANGED <<stage, op, nextId, returned>>
      BY <2>4 DEF Answer
    <3>2. i \in Id /\ i < nextId
      BY <1>3 DEF SubmitInv, SubmitTypeOK, Asked
    <3>3. UNCHANGED <<Waiting, Made, Cleared>>
      BY <3>1
    <3>4. CASE v = "accepted"
      <4>1. Granted' = Granted \cup {i}
        BY <3>1, <3>2, <3>4
      <4>2. i \in Made
        BY <2>1, <3>2
      <4>3. Call!Grant(i)
        BY <3>3, <4>1, <4>2 DEF Call!Grant
      <4>. QED
        BY <4>2, <4>3 DEF Call!CallNext
    <3>5. CASE v # "accepted"
      <4>1. UNCHANGED Granted
        BY <3>1, <3>5
      <4>. QED
        BY <3>3, <4>1 DEF Call!callVars
    <3>. QED
      BY <3>4, <3>5
  <2>5. ASSUME NEW t \in Thread, Register(t) \/ Enqueue(t) \/ Wake(t)
        PROVE  UNCHANGED Call!callVars
    <3>1. /\ UNCHANGED <<op, nextId, given, returned>> /\ stage[t] # "idle"
          /\ \E s \in {"enqueue", "wait", "unmap"} : stage' = [stage EXCEPT ![t] = s]
      BY <2>5 DEF Register, Enqueue, Wake, serverVars
    <3>2. UNCHANGED Waiting
      BY <2>1, <3>1
    <3>. QED
      BY <3>1, <3>2 DEF Call!callVars
  <2>6. CASE NetThread \/ UNCHANGED submitVars
    <3>1. UNCHANGED <<stage, op, nextId, given, returned>>
      BY <2>6 DEF NetThread, Send, Dispatch, Deliver, Leave, StartSweep, WakeWaiter, EndSweep,
                  serverVars, submitVars
    <3>. QED
      BY <3>1 DEF Call!callVars
  <2>. QED
    BY <1>3, <2>2, <2>3, <2>4, <2>5, <2>6 DEF SubmitNext, Submitter, Call!CallNext
<1>4. SubmitSpec => []Asked
  BY <1>2, AskedStep, SubmitAlways, PTL DEF SubmitSpec
<1>. QED
  BY <1>1, <1>3, <1>4, SubmitAlways, PTL DEF SubmitSpec, ImplementsCall, Call!CallSpec

----------------------------------------------------------------------------
(* The shared death.                                                       *)

\* The types, without the bounds of the counters per client.
DeathTypes ==
  /\ owner \in Peer \cup {NoPeer} /\ noted \in BOOLEAN
  /\ changes \in Nat /\ changes <= MaxChanges /\ kills \in Nat /\ kills <= MaxKills
  /\ phases \subseteq [to : Peer, owner : Peer \cup {NoPeer}, no : 1 .. changes]
  /\ deaths \in [Peer -> Nat] /\ reports \in [Peer -> Nat] /\ applyQueue \in [Peer -> Nat]
  /\ posted \in [Peer -> Nat]
  /\ view \in [Peer -> Peer \cup {NoPeer}]
  /\ copy \in [Peer -> {"alive", "dead"}]
  /\ dying \cup armed \cup loaded \cup killed \subseteq Peer
  /\ lost \subseteq {"no record", "not tracked", "not loaded", "revived"}

\* Every report or death on its way, and every queued death, goes back to a kill
\* of its own.
Unrelayed == SumFunctionOnSet(reports, Peer)
Supply == \A p \in Peer : deaths[p] + applyQueue[p] + Unrelayed <= kills

\* As long as nothing was lost, a copy that was killed is dead.
BodiesStay == lost = {} => \A p \in killed : copy[p] = "dead"

\* A client that the death has reached, or is about to, or that reported it.
Touched(p) == copy[p] = "dead" \/ deaths[p] > 0 \/ applyQueue[p] > 0 \/ reports[p] > 0

\* The NPC is dead at p, or p is owed its death: queued, on its way, or in a
\* report of another client.
Settled(p) ==
  \/ copy[p] = "dead" \/ deaths[p] > 0 \/ applyQueue[p] > 0
  \/ \E r \in Peer \ {p} : reports[r] > 0

\* As long as nothing was lost, a death that anybody knows of is settled with
\* everybody.
Owed == lost = {} /\ (\E p \in Peer : Touched(p)) => \A p \in Peer : Settled(p)

DeathInv == DeathTypes /\ Supply /\ BodiesStay /\ Owed

\* One more report is one more to be relayed, one less is one less.
LEMMA ReportsOne ==
  ASSUME reports \in [Peer -> Nat], reports' \in [Peer -> Nat], NEW p \in Peer,
         \A q \in Peer \ {p} : reports'[q] = reports[q]
  PROVE  Unrelayed' + reports[p] = Unrelayed + reports'[p]
<1>1. IsFiniteSet(Peer)
  BY DeathAssumption
<1>2. \A q \in Peer : reports[q] \in Nat /\ reports'[q] \in Nat
  OBVIOUS
<1>3. SumFunctionOnSet(reports', Peer) + reports[p] = SumFunctionOnSet(reports, Peer) + reports'[p]
  BY <1>1, <1>2, SumChange
<1>. QED
  BY <1>3 DEF Unrelayed

\* A client's own reports are some of those to be relayed.
LEMMA ReportsSome ==
  ASSUME reports \in [Peer -> Nat]
  PROVE  Unrelayed \in Nat /\ \A p \in Peer : reports[p] <= Unrelayed
<1>1. IsFiniteSet(Peer)
  BY DeathAssumption
<1>2. \A q \in Peer : reports[q] \in Nat
  OBVIOUS
<1>3. SumFunctionOnSet(reports, Peer) \in Nat
  BY <1>1, <1>2, SumNat
<1>4. ASSUME NEW p \in Peer PROVE reports[p] <= Unrelayed
  <2>1. SumFunctionOnSet(reports, Peer) = reports[p] + SumFunctionOnSet(reports, Peer \ {p})
    BY <1>1, <1>2, SumSplit
  <2>2. IsFiniteSet(Peer \ {p})
    BY <1>1, FS_RemoveElement
  <2>3. SumFunctionOnSet(reports, Peer \ {p}) \in Nat
    BY <1>2, <2>2, SumNat
  <2>. QED
    BY <1>2, <2>1, <2>3 DEF Unrelayed
<1>. QED
  BY <1>3, <1>4 DEF Unrelayed

\* The record changes hands: the counters and messages keep their types.
LEMMA ChangeTypes ==
  ASSUME DeathTypes, NEW o \in Peer \cup {NoPeer}, Change(o), changes < MaxChanges
  PROVE  /\ owner' \in Peer \cup {NoPeer} /\ changes' \in Nat /\ changes' <= MaxChanges
         /\ phases' \subseteq [to : Peer, owner : Peer \cup {NoPeer}, no : 1 .. changes']
<1>0. MaxChanges \in Nat
  BY DeathAssumption
<1>1. changes \in Nat /\ changes' = changes + 1 /\ owner' = o /\ changes' <= MaxChanges
  <2>1. changes \in Nat
    BY DEF DeathTypes
  <2>2. changes' = changes + 1 /\ owner' = o
    BY DEF Change
  <2>. QED
    BY <1>0, <2>1, <2>2
<1>2. phases \subseteq [to : Peer, owner : Peer \cup {NoPeer}, no : 1 .. changes']
  <2>1. 1 .. changes \subseteq 1 .. changes'
    BY <1>1
  <2>2. phases \subseteq [to : Peer, owner : Peer \cup {NoPeer}, no : 1 .. changes]
    BY DEF DeathTypes
  <2>. QED
    BY <2>1, <2>2
<1>3. \A p \in Peer : [to |-> p, owner |-> o, no |-> changes']
                        \in [to : Peer, owner : Peer \cup {NoPeer}, no : 1 .. changes']
  BY <1>1
<1>. QED
  BY <1>1, <1>2, <1>3 DEF Change

\* Nobody was killed yet.
LEMMA DeathInit == Init => DeathInv
<1> SUFFICES ASSUME Init PROVE DeathInv
  OBVIOUS
<1>1. DeathTypes
  <2>1. MaxChanges \in Nat /\ MaxKills \in Nat
    BY DeathAssumption
  <2>2. 0 <= MaxChanges /\ 0 <= MaxKills
    BY <2>1
  <2>3. owner \in Peer \cup {NoPeer} /\ noted \in BOOLEAN /\ phases = {} /\ lost = {}
    BY DEF Init
  <2>4. changes = 0 /\ kills = 0 /\ dying \cup armed \cup loaded \cup killed \subseteq Peer
    BY DEF Init
  <2>5. /\ deaths \in [Peer -> Nat] /\ reports \in [Peer -> Nat]
        /\ applyQueue \in [Peer -> Nat] /\ posted \in [Peer -> Nat]
        /\ view \in [Peer -> Peer \cup {NoPeer}]
        /\ copy \in [Peer -> {"alive", "dead"}]
    BY DEF Init
  <2>. QED
    BY <2>2, <2>3, <2>4, <2>5 DEF DeathTypes
<1>2. Unrelayed = 0
  <2>1. IsFiniteSet(Peer) /\ \A p \in Peer : reports[p] = 0
    BY DeathAssumption DEF Init
  <2>2. SumFunctionOnSet(reports, Peer) = Cardinality(Peer) * 0 /\ Cardinality(Peer) \in Nat
    BY <2>1, SumConstant, FS_CardinalityType
  <2>. QED
    BY <2>2 DEF Unrelayed
<1>3. Supply
  BY <1>2 DEF Init, Supply
<1>4. BodiesStay /\ Owed
  BY DEF Init, BodiesStay, Owed, Touched
<1>. QED
  BY <1>1, <1>3, <1>4 DEF DeathInv

\* The server: somebody claims or loses the NPC.
LEMMA OwnerStep ==
  ASSUME DeathInv, NEW o \in Peer \cup {NoPeer}, Observed(o) \/ Reassign(o)
  PROVE  DeathInv'
<1>1. /\ Change(o) /\ changes < MaxChanges
      /\ UNCHANGED <<noted, kills, deaths, reports, view, copy, loaded, dying, killed, armed,
                     applyQueue, posted, lost>>
  BY DEF Observed, Reassign, game, inbox
<1>2. DeathTypes'
  BY <1>1, ChangeTypes DEF DeathInv, DeathTypes
<1>3. Supply' /\ BodiesStay' /\ Owed'
  BY <1>1 DEF DeathInv, Supply, Unrelayed, BodiesStay, Owed, Touched, Settled
<1>. QED
  BY <1>2, <1>3 DEF DeathInv

\* A report is relayed to all others, or lost.
LEMMA ReportStep ==
  ASSUME DeathInv, NEW p \in Peer, Report(p)
  PROVE  DeathInv'
<1>1. /\ reports[p] > 0 /\ changes < MaxChanges
      /\ reports' = [reports EXCEPT ![p] = @ - 1]
      /\ UNCHANGED <<noted, kills, view, copy, loaded, dying, killed, armed, applyQueue, posted>>
  BY DEF Report, game, inbox
<1>2. /\ reports \in [Peer -> Nat] /\ deaths \in [Peer -> Nat] /\ applyQueue \in [Peer -> Nat]
      /\ kills \in Nat
  BY DEF DeathInv, DeathTypes
<1>3. reports' \in [Peer -> Nat] /\ reports'[p] = reports[p] - 1 /\ reports[p] \in Nat
  BY <1>1, <1>2
<1>4. \A q \in Peer \ {p} : reports'[q] = reports[q]
  BY <1>1, <1>2
<1>5. Unrelayed' = Unrelayed - 1 /\ Unrelayed \in Nat
  <2>1. Unrelayed \in Nat
    BY <1>2, ReportsSome
  <2>2. (reports \in [Peer -> Nat] => Unrelayed \in Nat)'
    BY ReportsSome, PTL
  <2>3. Unrelayed' + reports[p] = Unrelayed + reports'[p]
    BY <1>2, <1>3, <1>4, ReportsOne
  <2>. QED
    BY <1>3, <2>1, <2>2, <2>3
<1>6. CASE Tracked /\ UNCHANGED lost
  <2>1. deaths' = More(deaths, Audience(p))
    BY <1>6 DEF Report
  <2>2. /\ deaths' \in [Peer -> Nat]
        /\ \A q \in Peer : deaths'[q] = IF q = p THEN deaths[q] ELSE deaths[q] + 1
    BY <1>2, <2>1 DEF More, Audience
  <2>3. /\ owner' \in Peer \cup {NoPeer} /\ changes' \in Nat /\ changes' <= MaxChanges
        /\ phases' \subseteq [to : Peer, owner : Peer \cup {NoPeer}, no : 1 .. changes']
    <3>1. CASE Change(NoPeer)
      BY <1>1, <3>1, ChangeTypes DEF DeathInv
    <3>2. CASE UNCHANGED <<owner, changes, phases>>
      BY <3>2 DEF DeathInv, DeathTypes
    <3>. QED
      BY <1>6, <3>1, <3>2 DEF Report
  <2>4. DeathTypes'
    BY <1>1, <1>3, <1>6, <2>2, <2>3 DEF DeathInv, DeathTypes
  <2>5. Supply'
    <3> SUFFICES ASSUME NEW q \in Peer
                 PROVE  deaths'[q] + applyQueue[q] + Unrelayed' <= kills
      BY <1>1 DEF Supply
    <3>1. deaths[q] + applyQueue[q] + Unrelayed <= kills
      BY DEF DeathInv, Supply
    <3>2. deaths[q] \in Nat /\ applyQueue[q] \in Nat
      BY <1>2
    <3>. QED
      BY <1>2, <1>5, <2>2, <3>1, <3>2
  <2>6. BodiesStay'
    BY <1>1, <1>6 DEF DeathInv, BodiesStay
  <2>7. Owed'
    <3> SUFFICES ASSUME lost = {}, NEW q \in Peer PROVE Settled(q)'
      BY <1>1, <1>6 DEF Owed
    <3>1. Settled(q)
      BY <1>1 DEF DeathInv, Owed, Touched
    <3>2. deaths[q] \in Nat
      BY <1>2
    <3>. QED
      BY <1>1, <1>4, <2>2, <3>1, <3>2 DEF Settled
  <2>. QED
    BY <2>4, <2>5, <2>6, <2>7 DEF DeathInv
<1>7. CASE /\ lost' = lost \cup {"no record"}
           /\ UNCHANGED <<owner, changes, phases, deaths>>
  <2>1. DeathTypes'
    BY <1>1, <1>3, <1>7 DEF DeathInv, DeathTypes
  <2>2. Supply'
    <3> SUFFICES ASSUME NEW q \in Peer
                 PROVE  deaths[q] + applyQueue[q] + Unrelayed' <= kills
      BY <1>1, <1>7 DEF Supply
    <3>1. deaths[q] + applyQueue[q] + Unrelayed <= kills
      BY DEF DeathInv, Supply
    <3>2. deaths[q] \in Nat /\ applyQueue[q] \in Nat
      BY <1>2
    <3>. QED
      BY <1>2, <1>5, <3>1, <3>2
  <2>3. lost' # {}
    BY <1>7
  <2>. QED
    BY <2>1, <2>2, <2>3 DEF DeathInv, BodiesStay, Owed
<1>. QED
  BY <1>6, <1>7 DEF Report

\* The pool runs out: everybody is told.
LEMMA PoolStep ==
  ASSUME DeathInv, PoolEmpties
  PROVE  DeathInv'
<1>1. /\ Change(NoPeer) /\ changes < MaxChanges /\ kills < MaxKills
      /\ kills' = kills + 1 /\ deaths' = More(deaths, Peer) /\ noted' = TRUE
      /\ UNCHANGED <<reports, view, copy, loaded, dying, killed, armed, applyQueue, posted,
                     lost>>
  BY DEF PoolEmpties, game, inbox
<1>2. deaths \in [Peer -> Nat] /\ applyQueue \in [Peer -> Nat] /\ kills \in Nat
  BY DEF DeathInv, DeathTypes
<1>3. deaths' \in [Peer -> Nat] /\ \A q \in Peer : deaths'[q] = deaths[q] + 1
  BY <1>1, <1>2 DEF More
<1>4. kills' \in Nat /\ kills' <= MaxKills
  BY <1>1, <1>2, DeathAssumption
<1>5. DeathTypes'
  BY <1>1, <1>3, <1>4, ChangeTypes DEF DeathInv, DeathTypes
<1>6. Unrelayed' = Unrelayed /\ Unrelayed \in Nat
  BY <1>1, ReportsSome DEF Unrelayed, DeathInv, DeathTypes
<1>7. Supply'
  <2> SUFFICES ASSUME NEW q \in Peer
               PROVE  deaths'[q] + applyQueue[q] + Unrelayed <= kills + 1
    BY <1>1, <1>6 DEF Supply
  <2>1. deaths[q] + applyQueue[q] + Unrelayed <= kills
    BY DEF DeathInv, Supply
  <2>2. deaths[q] \in Nat /\ applyQueue[q] \in Nat /\ deaths'[q] = deaths[q] + 1
    BY <1>2, <1>3
  <2>. QED
    BY <1>2, <1>6, <2>1, <2>2
<1>8. BodiesStay'
  BY <1>1 DEF DeathInv, BodiesStay
<1>9. Owed'
  BY <1>2, <1>3 DEF Owed, Settled
<1>. QED
  BY <1>5, <1>7, <1>8, <1>9 DEF DeathInv

\* A client is told of an owner, or of a death, which it queues.
LEMMA NetStep ==
  ASSUME DeathInv, NEW p \in Peer, ReceivePhase(p) \/ ReceiveDeath(p)
  PROVE  DeathInv'
<1>1. /\ deaths \in [Peer -> Nat] /\ applyQueue \in [Peer -> Nat] /\ kills \in Nat
      /\ Unrelayed \in Nat
  BY ReportsSome DEF DeathInv, DeathTypes
<1>2. CASE ReceivePhase(p)
  <2>1. UNCHANGED <<owner, noted, changes, kills, deaths, reports, copy, loaded, dying, killed,
                    armed, applyQueue, posted, lost>>
    BY <1>2 DEF ReceivePhase, server, game, inbox
  <2>2. view' \in [Peer -> Peer \cup {NoPeer}] /\ phases' \subseteq phases
    BY <1>2 DEF ReceivePhase, DeathInv, DeathTypes
  <2>3. DeathTypes'
    BY <2>1, <2>2 DEF DeathInv, DeathTypes
  <2>. QED
    BY <2>1, <2>3 DEF DeathInv, Supply, Unrelayed, BodiesStay, Owed, Touched, Settled
<1>3. CASE ReceiveDeath(p)
  <2>1. /\ deaths[p] > 0 /\ deaths' = [deaths EXCEPT ![p] = @ - 1]
        /\ applyQueue' = [applyQueue EXCEPT ![p] = @ + 1] /\ Wakes(p)
        /\ UNCHANGED <<owner, noted, changes, kills, phases, reports, view, copy, loaded, dying,
                       killed, armed, lost>>
    BY <1>3 DEF ReceiveDeath, server, game
  <2>2. /\ deaths' \in [Peer -> Nat] /\ applyQueue' \in [Peer -> Nat]
        /\ \A q \in Peer : deaths'[q] + applyQueue'[q] = deaths[q] + applyQueue[q]
        /\ \A q \in Peer \ {p} : deaths'[q] = deaths[q] /\ applyQueue'[q] = applyQueue[q]
        /\ applyQueue'[p] > 0
    BY <1>1, <2>1
  <2>w. posted' \in [Peer -> Nat]
    <3>1. posted \in [Peer -> Nat]
      BY DEF DeathInv, DeathTypes
    <3>2. PICK n \in {0, 1} : posted' = [posted EXCEPT ![p] = @ + n]
      BY <2>1 DEF Wakes
    <3>3. posted[p] + n \in Nat
      BY <3>1
    <3>. QED
      BY <3>1, <3>2, <3>3
  <2>3. DeathTypes'
    BY <2>1, <2>2, <2>w DEF DeathInv, DeathTypes
  <2>4. Supply'
    BY <2>1, <2>2 DEF DeathInv, Supply, Unrelayed
  <2>5. BodiesStay'
    BY <2>1 DEF DeathInv, BodiesStay
  <2>6. Owed'
    <3>1. ASSUME NEW q \in Peer, Touched(q)' PROVE \E t \in Peer : Touched(t)
      BY <1>1, <2>1, <2>2, <3>1 DEF Touched
    <3>2. ASSUME NEW q \in Peer, Settled(q) PROVE Settled(q)'
      BY <1>1, <2>1, <2>2, <3>2 DEF Settled
    <3>. QED
      BY <2>1, <3>1, <3>2 DEF DeathInv, Owed
  <2>. QED
    BY <2>3, <2>4, <2>5, <2>6 DEF DeathInv
<1>. QED
  BY <1>2, <1>3

\* A player's engine kills the NPC: he reports it, or it is lost.
LEMMA KillStep ==
  ASSUME DeathInv, NEW p \in Peer, LocalKill(p)
  PROVE  DeathInv'
<1>1. /\ kills < MaxKills /\ kills' = kills + 1 /\ copy' = [copy EXCEPT ![p] = "dead"]
      /\ UNCHANGED <<owner, noted, changes, phases, deaths, view, loaded, dying, killed, armed,
                     applyQueue, posted>>
  BY DEF LocalKill, server, inbox
<1>2. /\ reports \in [Peer -> Nat] /\ deaths \in [Peer -> Nat] /\ applyQueue \in [Peer -> Nat]
      /\ kills \in Nat /\ copy \in [Peer -> {"alive", "dead"}] /\ killed \subseteq Peer
  BY DEF DeathInv, DeathTypes
<1>3. kills' \in Nat /\ kills' <= MaxKills
  BY <1>1, <1>2, DeathAssumption
<1>4. copy' \in [Peer -> {"alive", "dead"}] /\ \A q \in Peer : copy[q] = "dead" => copy'[q] = "dead"
  BY <1>1, <1>2
<1>5. Unrelayed \in Nat
  BY <1>2, ReportsSome
<1>6. CASE reports' = More(reports, {p}) /\ UNCHANGED lost
  <2>1. /\ reports' \in [Peer -> Nat] /\ reports'[p] = reports[p] + 1 /\ reports[p] \in Nat
        /\ \A q \in Peer \ {p} : reports'[q] = reports[q]
    BY <1>2, <1>6 DEF More
  <2>2. Unrelayed' = Unrelayed + 1
    <3>1. (reports \in [Peer -> Nat] => Unrelayed \in Nat)'
      BY ReportsSome, PTL
    <3>2. Unrelayed' + reports[p] = Unrelayed + reports'[p]
      BY <1>2, <2>1, ReportsOne
    <3>. QED
      BY <1>5, <2>1, <3>1, <3>2
  <2>3. DeathTypes'
    BY <1>1, <1>3, <1>4, <1>6, <2>1 DEF DeathInv, DeathTypes
  <2>4. Supply'
    <3> SUFFICES ASSUME NEW q \in Peer
                 PROVE  deaths[q] + applyQueue[q] + (Unrelayed + 1) <= kills + 1
      BY <1>1, <2>2 DEF Supply
    <3>1. deaths[q] + applyQueue[q] + Unrelayed <= kills
      BY DEF DeathInv, Supply
    <3>2. deaths[q] \in Nat /\ applyQueue[q] \in Nat
      BY <1>2
    <3>. QED
      BY <1>2, <1>5, <3>1, <3>2
  <2>5. BodiesStay'
    BY <1>1, <1>2, <1>4, <1>6 DEF DeathInv, BodiesStay
  <2>6. Owed'
    <3> SUFFICES ASSUME NEW q \in Peer PROVE Settled(q)'
      BY <1>1 DEF Owed
    <3>1. CASE q = p
      BY <1>1, <1>2, <3>1 DEF Settled
    <3>2. CASE q # p
      BY <2>1, <3>2 DEF Settled
    <3>. QED
      BY <3>1, <3>2
  <2>. QED
    BY <2>3, <2>4, <2>5, <2>6 DEF DeathInv
<1>7. CASE lost' = lost \cup {"not tracked"} /\ UNCHANGED reports
  <2>1. DeathTypes'
    BY <1>1, <1>3, <1>4, <1>7 DEF DeathInv, DeathTypes
  <2>2. Supply'
    <3> SUFFICES ASSUME NEW q \in Peer
                 PROVE  deaths[q] + applyQueue[q] + Unrelayed <= kills + 1
      BY <1>1, <1>7 DEF Supply, Unrelayed
    <3>1. deaths[q] + applyQueue[q] + Unrelayed <= kills
      BY DEF DeathInv, Supply
    <3>2. deaths[q] \in Nat /\ applyQueue[q] \in Nat
      BY <1>2
    <3>. QED
      BY <1>2, <1>5, <3>1, <3>2
  <2>3. lost' # {}
    BY <1>7
  <2>. QED
    BY <2>1, <2>2, <2>3 DEF DeathInv, BodiesStay, Owed
<1>. QED
  BY <1>6, <1>7 DEF LocalKill

\* The main thread carries out what it has queued.
LEMMA DrainStep ==
  ASSUME DeathInv, NEW p \in Peer, Drain(p)
  PROVE  DeathInv'
<1>0. posted' \in [Peer -> Nat]
  <2>1. posted \in [Peer -> Nat] /\ posted[p] > 0 /\ posted' = [posted EXCEPT ![p] = @ - 1]
    BY DEF Drain, DeathInv, DeathTypes
  <2>2. posted[p] - 1 \in Nat
    BY <2>1
  <2>. QED
    BY <2>1, <2>2
<1>1. /\ applyQueue' = [applyQueue EXCEPT ![p] = 0]
      /\ UNCHANGED <<owner, noted, changes, kills, phases, deaths, reports, view, loaded, armed>>
  BY DEF Drain, server, posts
<1>2. /\ deaths \in [Peer -> Nat] /\ applyQueue \in [Peer -> Nat] /\ kills \in Nat
      /\ copy \in [Peer -> {"alive", "dead"}] /\ killed \subseteq Peer /\ Unrelayed \in Nat
  BY ReportsSome DEF DeathInv, DeathTypes
<1>3. /\ applyQueue' \in [Peer -> Nat] /\ applyQueue'[p] = 0
      /\ \A q \in Peer \ {p} : applyQueue'[q] = applyQueue[q]
  BY <1>1, <1>2
<1>4. Supply'
  <2> SUFFICES ASSUME NEW q \in Peer
               PROVE  deaths[q] + applyQueue'[q] + Unrelayed <= kills
    BY <1>1 DEF Supply, Unrelayed
  <2>1. deaths[q] + applyQueue[q] + Unrelayed <= kills
    BY DEF DeathInv, Supply
  <2>2. deaths[q] \in Nat /\ applyQueue[q] \in Nat
    BY <1>2
  <2>. QED
    BY <1>2, <1>3, <2>1, <2>2
<1>5. CASE /\ applyQueue[p] > 0
           /\ dying' = dying \cup {p} /\ killed' = killed \cup {p}
           /\ copy' = [copy EXCEPT ![p] = "dead"] /\ UNCHANGED lost
  <2>1. /\ copy' \in [Peer -> {"alive", "dead"}] /\ copy'[p] = "dead"
        /\ \A q \in Peer \ {p} : copy'[q] = copy[q]
    BY <1>2, <1>5
  <2>2. DeathTypes'
    BY <1>0, <1>1, <1>3, <1>5, <2>1 DEF DeathInv, DeathTypes
  <2>3. BodiesStay'
    BY <1>2, <1>5, <2>1 DEF DeathInv, BodiesStay
  <2>4. Owed'
    <3> SUFFICES ASSUME lost = {}, NEW q \in Peer PROVE Settled(q)'
      BY <1>5 DEF Owed
    <3>1. Settled(q)
      BY <1>5 DEF DeathInv, Owed, Touched
    <3>2. CASE q = p
      BY <2>1, <3>2 DEF Settled
    <3>3. CASE q # p
      BY <1>1, <1>3, <2>1, <3>1, <3>3 DEF Settled
    <3>. QED
      BY <3>2, <3>3
  <2>. QED
    BY <1>4, <2>2, <2>3, <2>4 DEF DeathInv
<1>6. CASE /\ applyQueue[p] > 0
           /\ p \in killed \/ p \notin loaded
           /\ lost' = lost \cup IF p \in loaded THEN {} ELSE {"not loaded"}
           /\ UNCHANGED <<dying, killed, copy>>
  <2>1. DeathTypes'
    BY <1>0, <1>1, <1>3, <1>6 DEF DeathInv, DeathTypes
  <2>2. lost' = {} => lost = {} /\ p \in killed
    BY <1>6
  <2>3. BodiesStay'
    BY <1>6, <2>2 DEF DeathInv, BodiesStay
  <2>4. Owed'
    <3> SUFFICES ASSUME lost' = {}, NEW q \in Peer PROVE Settled(q)'
      BY DEF Owed
    <3>1. Settled(q)
      BY <1>6, <2>2 DEF DeathInv, Owed, Touched
    <3>2. CASE q = p
      BY <1>6, <2>2, <3>2 DEF DeathInv, BodiesStay, Settled
    <3>3. CASE q # p
      BY <1>1, <1>3, <1>6, <3>1, <3>3 DEF Settled
    <3>. QED
      BY <3>2, <3>3
  <2>. QED
    BY <1>4, <2>1, <2>3, <2>4 DEF DeathInv
<1>7. CASE applyQueue[p] = 0 /\ UNCHANGED <<dying, killed, copy, lost>>
  <2>1. applyQueue' = applyQueue
    BY <1>1, <1>2, <1>7
  <2>2. DeathTypes'
    BY <1>0, <1>1, <1>7, <2>1 DEF DeathInv, DeathTypes
  <2>. QED
    BY <1>1, <1>4, <1>7, <2>1, <2>2 DEF DeathInv, BodiesStay, Owed, Touched, Settled
<1>8. applyQueue[p] = 0 \/ applyQueue[p] > 0
  BY <1>2
<1>9. CASE applyQueue[p] = 0
  BY <1>1, <1>7, <1>9 DEF Drain
<1>. QED
  BY <1>5, <1>6, <1>8, <1>9 DEF Drain

\* The window is gone, and what was posted to it; the queue stays.
LEMMA WindowStep ==
  ASSUME DeathInv, NEW p \in Peer, WindowRecreated(p)
  PROVE  DeathInv'
<1>1. posted' \in [Peer -> Nat]
  BY DEF WindowRecreated, DeathInv, DeathTypes
<1>2. UNCHANGED <<server, kills, posts, view, game, applyQueue, lost>>
  BY DEF WindowRecreated
<1>. QED
  BY <1>1, <1>2 DEF server, posts, game, DeathInv, DeathTypes, Supply, Unrelayed, BodiesStay,
                    Owed, Touched, Settled

\* The frame hook: a pose is kept or committed; a body it revives is lost.
LEMMA FrameStep ==
  ASSUME DeathInv, NEW p \in Peer,
         Follow(p) \/ Stream(p) \/ \E streaming, listed \in BOOLEAN : Frame(p, streaming, listed)
  PROVE  DeathInv'
<1>1. UNCHANGED <<owner, noted, changes, kills, phases, deaths, reports, view, killed, applyQueue,
                posted>>
  BY DEF Follow, Stream, Frame, server, posts, inbox
<1>2. CASE Follow(p) \/ Stream(p)
  <2>1. UNCHANGED <<copy, dying, lost>> /\ armed' \cup loaded' \subseteq Peer
    BY <1>2 DEF Follow, Stream, DeathInv, DeathTypes
  <2>2. DeathTypes'
    BY <1>1, <2>1 DEF DeathInv, DeathTypes
  <2>. QED
    BY <1>1, <2>1, <2>2 DEF DeathInv, Supply, Unrelayed, BodiesStay, Owed, Touched, Settled
<1>3. ASSUME NEW streaming \in BOOLEAN, NEW listed \in BOOLEAN, Frame(p, streaming, listed)
      PROVE  DeathInv'
  <2>1. /\ armed' \subseteq armed /\ dying' \subseteq dying /\ loaded' = loaded
        /\ \/ copy' = copy
           \/ copy' = [copy EXCEPT ![p] = "alive"]
        /\ lost' = lost \cup IF copy'[p] = copy[p] THEN {} ELSE {"revived"}
    BY <1>3 DEF Frame
  <2>2. copy \in [Peer -> {"alive", "dead"}]
    BY DEF DeathInv, DeathTypes
  <2>3. copy' \in [Peer -> {"alive", "dead"}] /\ lost \subseteq lost'
    BY <2>1, <2>2
  <2>4. lost' = {} => copy' = copy /\ lost = {}
    BY <2>1, <2>2
  <2>5. DeathTypes'
    BY <1>1, <2>1, <2>3 DEF DeathInv, DeathTypes
  <2>. QED
    BY <1>1, <2>4, <2>5 DEF DeathInv, Supply, Unrelayed, BodiesStay, Owed, Touched, Settled
<1>. QED
  BY <1>2, <1>3

\* The invariant of the death holds throughout.
LEMMA DeathAlways == Spec => []DeathInv
<1>1. DeathInv /\ [Next]_vars => DeathInv'
  <2> SUFFICES ASSUME DeathInv, [Next]_vars PROVE DeathInv'
    OBVIOUS
  <2>1. CASE PoolEmpties
    BY <2>1, PoolStep
  <2>2. ASSUME NEW o \in Peer \cup {NoPeer}, Reassign(o) PROVE DeathInv'
    BY <2>2, OwnerStep
  <2>3. ASSUME NEW p \in Peer, Observed(p) PROVE DeathInv'
    BY <2>3, OwnerStep
  <2>4. ASSUME NEW p \in Peer, Report(p) PROVE DeathInv'
    BY <2>4, ReportStep
  <2>5. ASSUME NEW p \in Peer, ReceivePhase(p) \/ ReceiveDeath(p) PROVE DeathInv'
    BY <2>5, NetStep
  <2>6. ASSUME NEW p \in Peer, LocalKill(p) PROVE DeathInv'
    BY <2>6, KillStep
  <2>7. ASSUME NEW p \in Peer, Drain(p) PROVE DeathInv'
    BY <2>7, DrainStep
  <2>8. ASSUME NEW p \in Peer,
               \/ Follow(p) \/ Stream(p)
               \/ \E streaming, listed \in BOOLEAN : Frame(p, streaming, listed)
        PROVE  DeathInv'
    BY <2>8, FrameStep
  <2>9. CASE UNCHANGED vars
    BY <2>9 DEF vars, server, posts, game, inbox, DeathInv, DeathTypes, Supply, Unrelayed, BodiesStay,
                Owed, Touched, Settled
  <2>10. ASSUME NEW p \in Peer, WindowRecreated(p) PROVE DeathInv'
    BY <2>10, WindowStep
  <2>. QED
    BY <2>1, <2>2, <2>3, <2>4, <2>5, <2>6, <2>7, <2>8, <2>9, <2>10 DEF Next
<1>. QED
  BY DeathInit, <1>1, PTL DEF Spec

\* Each message and queue entry of a death goes back to a kill: no client is ever
\* sent, or queues, more deaths than there were kills
\* (npc_death_apply_q of main_thread_dispatch.cpp has no other limit).
THEOREM DeathTyped == Spec => []TypeOK
<1>1. DeathInv => TypeOK
  <2> SUFFICES ASSUME DeathInv PROVE TypeOK
    OBVIOUS
  <2>1. /\ deaths \in [Peer -> Nat] /\ reports \in [Peer -> Nat]
        /\ applyQueue \in [Peer -> Nat] /\ kills \in Nat
    BY DEF DeathInv, DeathTypes
  <2>2. Unrelayed \in Nat /\ \A p \in Peer : reports[p] <= Unrelayed
    BY <2>1, ReportsSome
  <2>3. \A p \in Peer : deaths[p] + applyQueue[p] + Unrelayed <= kills
    BY DEF DeathInv, Supply
  <2>4. \A p \in Peer : deaths[p] \in 0 .. kills /\ reports[p] \in 0 .. kills
                        /\ applyQueue[p] \in 0 .. kills
    <3> SUFFICES ASSUME NEW p \in Peer
                 PROVE  deaths[p] <= kills /\ reports[p] <= kills /\ applyQueue[p] <= kills
      BY <2>1
    <3>1. deaths[p] \in Nat /\ reports[p] \in Nat /\ applyQueue[p] \in Nat
      BY <2>1
    <3>2. reports[p] <= Unrelayed /\ deaths[p] + applyQueue[p] + Unrelayed <= kills
      BY <2>2, <2>3
    <3>. QED
      BY <2>1, <2>2, <3>1, <3>2
  <2>5. /\ deaths \in [Peer -> 0 .. kills] /\ reports \in [Peer -> 0 .. kills]
        /\ applyQueue \in [Peer -> 0 .. kills]
    BY <2>1, <2>4
  <2>6. changes \in 0 .. MaxChanges /\ kills \in 0 .. MaxKills
    <3>1. changes \in Nat /\ changes <= MaxChanges /\ kills <= MaxKills
      BY DEF DeathInv, DeathTypes
    <3>2. MaxChanges \in Nat /\ MaxKills \in Nat
      BY DeathAssumption
    <3>. QED
      BY <2>1, <3>1, <3>2
  <2>. QED
    BY <2>5, <2>6 DEF DeathInv, DeathTypes, TypeOK
<1>. QED
  BY DeathAlways, <1>1, PTL

\* The NPC dies for everybody or for nobody: whoever kills it, however the owner
\* changes meanwhile and in whatever order the messages arrive, once no death is
\* on its way all copies agree, unless a death fell through a hole of the code
\* (kill_hook.cpp, _handle_npc_death_from_owner and _fire_npc_death of main.py,
\* drain_npc_death_apply_queue).
THEOREM Agree == Spec => []DeathsAgree
<1>1. DeathInv => DeathsAgree
  <2> SUFFICES ASSUME DeathInv, Quiet, lost = {}, NEW p \in Peer, NEW q \in Peer
               PROVE  copy[p] = copy[q]
    BY DEF DeathsAgree
  <2>1. \A r \in Peer : copy[r] \in {"alive", "dead"}
    BY DEF DeathInv, DeathTypes
  <2>2. \A r \in Peer : Settled(r) => copy[r] = "dead"
    BY DEF Quiet, Settled
  <2>3. (\E r \in Peer : copy[r] = "dead") => \A r \in Peer : copy[r] = "dead"
    BY <2>2 DEF DeathInv, Owed, Touched
  <2>. QED
    BY <2>1, <2>3
<1>. QED
  BY DeathAlways, <1>1, PTL
=============================================================================
