------------------------ MODULE BlockingSubmitProps ------------------------
(***************************************************************************)
(* What must hold of the blocking submit.                                  *)
(***************************************************************************)
EXTENDS BlockingSubmit, FiniteSets

Answers == Verdict \cup {Sentinel, "none"}
Reply == [id : Id, answer : Verdict]

SubmitTypeOK ==
  /\ stage \in [Thread -> {"idle", "register", "enqueue", "wait", "unmap"}]
  /\ op \in [Thread -> Id \cup {0}]
  /\ nextId \in Nat
  /\ table \subseteq Id
  /\ ack \in [Id -> Answers]
  /\ queue \subseteq Id /\ wire \subseteq Id
  /\ replies \subseteq Reply /\ given \subseteq Reply
  /\ connected \in BOOLEAN
  /\ net \in {"loop", "deliver", "leave", "sweep", "exited"}
  /\ reply \in Reply \cup {NoReply}
  /\ toWake \subseteq Id
  /\ returned \subseteq [id : Id, answer : Answers]

\* A submitter returns with a verdict only if the server gave it for that very
\* submission: neither another thread's, nor the answer to an earlier, given up
\* one, nor one made up when the net thread ends.
AnswerIsOwn ==
  \A r \in returned : r.answer \in Verdict => r \in given

\* The submit as the hooks count on it (module SubmitCall): a call is an id, made
\* when the id is drawn, granted when the server accepts it, and the hook lets
\* the engine go on if the submit returns with ACCEPTED.
Call == INSTANCE SubmitCall WITH
  Caller <- Thread,
  waiting <- [t \in Thread |-> IF stage[t] = "idle" THEN {} ELSE {op[t]}],
  made <- 1 .. nextId - 1,
  granted <- {i \in Id : [id |-> i, answer |-> "accepted"] \in given},
  cleared <- {i \in Id : [id |-> i, answer |-> "accepted"] \in returned}

\* No interleaving of submitters, time limits, late verdicts and the last sweep
\* gives a hook leave for a move that the server did not accept, or for another.
ImplementsCall == Call!CallSpec

\* Every entry of the table belongs to a thread that is still in the submit:
\* timeouts, late verdicts and the last sweep leave no waiter behind.
NoWaiterLeaks ==
  \A i \in table : \E t \in Thread : op[t] = i /\ stage[t] \in {"enqueue", "wait", "unmap"}

\* As long as the net thread has not begun its last sweep, and again when it is
\* over, every submission returns: with a verdict, or after the time limit.
Returns ==
  \A t \in Thread : stage[t] # "idle" ~> stage[t] = "idle" \/ net = "sweep"

----------------------------------------------------------------------------
(* What comments of the code say and the code does not keep.               *)

\* "Wake all pending blocking submitters": the sweep, with pending_ops_mutex_,
\* never waits for the mutex of a submitter that waits for pending_ops_mutex_.
NoLockCycle ==
  ~ \E t \in Thread : net = "sweep" /\ stage[t] = "unmap" /\ op[t] \in toWake
=============================================================================
