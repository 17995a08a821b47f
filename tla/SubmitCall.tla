----------------------------- MODULE SubmitCall -----------------------------
(***************************************************************************)
(* What a game thread is promised when it asks the server for leave to     *)
(* move items and waits: a call is made once and by one thread, it returns *)
(* with leave only if the server granted that very call, and else the      *)
(* thread gives up and the engine does nothing.  A grant may come before   *)
(* or after the thread has given up, or never.                             *)
(***************************************************************************)

CONSTANT Caller

VARIABLES
  waiting,  \* the call each caller waits for: a set of one call, or none
  made,     \* calls made so far
  granted,  \* calls the server granted
  cleared   \* calls that returned with leave

callVars == <<waiting, made, granted, cleared>>

CallInit ==
  /\ waiting = [t \in Caller |-> {}]
  /\ made = {} /\ granted = {} /\ cleared = {}

\* A caller that waits for nothing makes a new call.
Ask(t) ==
  /\ waiting[t] = {}
  /\ \E c \in waiting'[t] :
       /\ c \notin made
       /\ made' = made \cup {c}
       /\ waiting' = [waiting EXCEPT ![t] = {c}]
  /\ UNCHANGED <<granted, cleared>>

Grant(c) ==
  /\ c \in made
  /\ granted' = granted \cup {c}
  /\ UNCHANGED <<waiting, made, cleared>>

GoAhead(t) ==
  /\ \E c \in waiting[t] : c \in granted /\ cleared' = cleared \cup {c}
  /\ waiting' = [waiting EXCEPT ![t] = {}]
  /\ UNCHANGED <<made, granted>>

GiveUp(t) ==
  /\ waiting[t] # {}
  /\ waiting' = [waiting EXCEPT ![t] = {}]
  /\ UNCHANGED <<made, granted, cleared>>

CallNext ==
  \/ \E t \in Caller : Ask(t) \/ GoAhead(t) \/ GiveUp(t)
  \/ \E c \in made : Grant(c)

CallSpec == CallInit /\ [][CallNext]_callVars
=============================================================================
