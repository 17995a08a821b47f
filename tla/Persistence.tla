---------------------------- MODULE Persistence ----------------------------
(***************************************************************************)
(* The server's snapshots: snapshot.json and its numbered copies           *)
(* (net/server/persistence.py snapshot, load_into, rotate_snapshots;       *)
(* net/server/main.py _periodic_snapshot, run_server).                     *)
(*                                                                         *)
(* Abstractions.  A world is a number, a new one for each change of actors,*)
(* containers or locks, the parts a snapshot holds; 0 is the empty world.  *)
(* The task runs on the event loop: between two of its steps nothing       *)
(* changes the world, but each can fail and the server can stop.  A file   *)
(* is replaced by a rename, so it is whole or not there.                   *)
(***************************************************************************)
EXTENDS Integers

CONSTANTS
  Keep,       \* rotate_keep
  MaxWorlds,  \* bound: changes of the world
  MaxStamps   \* bound: snapshots written

ASSUME PersistenceAssumption ==
  Keep \in Nat \ {0} /\ MaxWorlds \in Nat /\ MaxStamps \in Nat

VARIABLES
  world,   \* what the server holds
  worlds,  \* worlds there have been
  file,    \* file[0] is snapshot.json, file[n] is snapshot.json.n
  pc,      \* the server is down, serves, rotates or writes
  at,      \* the copy rotate_snapshots has come to
  first,   \* first_write
  stamp,   \* ghost: snapshots written
  streak   \* ghost: snapshots written since the last start or failure

diskVars == <<world, worlds, file, pc, at, first, stamp, streak>>

Absent == [stamp |-> 0, world |-> 0]
Exists(n) == file[n] # Absent

----------------------------------------------------------------------------
DiskInit ==
  /\ world = 0 /\ worlds = 0
  /\ file = [n \in 0 .. Keep |-> Absent]
  /\ pc = "down" /\ at = 0 /\ first = TRUE
  /\ stamp = 0 /\ streak = 0

\* run_server: only snapshot.json is tried.
Restore ==
  /\ pc = "down"
  /\ pc' = "serve"
  /\ world' = file[0].world
  /\ first' = TRUE /\ streak' = 0
  /\ UNCHANGED <<worlds, file, at, stamp>>

\* A handler changes an actor, a container or a lock.
Change ==
  /\ pc = "serve" /\ worlds < MaxWorlds
  /\ worlds' = worlds + 1
  /\ world' = worlds + 1
  /\ UNCHANGED <<file, pc, at, first, stamp, streak>>

\* rotate_snapshots starts with the second to last copy.
BugTop == Keep - 2
BugHighest == Keep
Top == Keep - 1

BugRotates == ~first
Rotates == ~first /\ Exists(0)

\* The interval is over.
Due ==
  /\ pc = "serve" /\ stamp < MaxStamps
  /\ pc' = IF Rotates THEN "rotate" ELSE "write"
  /\ at' = IF Rotates THEN Top ELSE at
  /\ UNCHANGED <<world, worlds, file, first, stamp, streak>>

Onward ==
  /\ pc' = IF at = 0 THEN "write" ELSE pc
  /\ at' = IF at = 0 THEN at ELSE at - 1
  /\ UNCHANGED <<world, worlds, first, stamp, streak>>

\* new.unlink()
Unlink ==
  /\ pc = "rotate" /\ Exists(at) /\ Exists(at + 1)
  /\ file' = [file EXCEPT ![at + 1] = Absent]
  /\ UNCHANGED <<world, worlds, pc, at, first, stamp, streak>>

\* old.rename(new), in the end base_path.rename(rotated)
Shift ==
  /\ pc = "rotate" /\ Exists(at) /\ ~Exists(at + 1)
  /\ file' = [file EXCEPT ![at + 1] = file[at], ![at] = Absent]
  /\ Onward

Pass == pc = "rotate" /\ ~Exists(at) /\ UNCHANGED file /\ Onward

\* snapshot: temporary file, then os.replace.
Write ==
  /\ pc = "write"
  /\ file' = [file EXCEPT ![0] = [stamp |-> stamp + 1, world |-> world]]
  /\ pc' = "serve" /\ first' = FALSE
  /\ stamp' = stamp + 1 /\ streak' = streak + 1
  /\ UNCHANGED <<world, worlds, at>>

\* An operation on a file raises, the task logs it and waits for the next turn.
Fail ==
  /\ pc \in {"rotate", "write"}
  /\ pc' = "serve" /\ streak' = 0
  /\ UNCHANGED <<world, worlds, file, at, first, stamp>>

\* The process dies or is stopped; nothing is written then.
Stop ==
  /\ pc # "down"
  /\ pc' = "down"
  /\ UNCHANGED <<world, worlds, file, at, first, stamp, streak>>

DiskNext == Restore \/ Change \/ Due \/ Unlink \/ Shift \/ Pass \/ Write \/ Fail \/ Stop

DiskSpec == DiskInit /\ [][DiskNext]_diskVars
=============================================================================
