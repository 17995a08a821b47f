-------------------------- MODULE PersistenceProps --------------------------
(***************************************************************************)
(* What must hold of the snapshots on disk.                                *)
(***************************************************************************)
EXTENDS Persistence

Snapshot == [stamp : 0 .. stamp, world : 0 .. worlds]

DiskTypeOK ==
  /\ world \in 0 .. worlds /\ worlds \in 0 .. MaxWorlds
  /\ file \in [0 .. Keep -> Snapshot]
  /\ pc \in {"down", "serve", "rotate", "write"}
  /\ at \in 0 .. Keep - 1
  /\ first \in BOOLEAN
  /\ stamp \in Nat /\ streak \in 0 .. stamp

\* Wherever the task failed or the server died, and however often: copies with
\* higher numbers are older, snapshot.json is the newest snapshot if it is there,
\* and otherwise the first copy is.
NewestFirst ==
  /\ \A i, j \in 0 .. Keep : i < j /\ Exists(i) /\ Exists(j) => file[i].stamp > file[j].stamp
  /\ stamp > 0 => file[IF Exists(0) THEN 0 ELSE 1].stamp = stamp

\* The rolling history: while nothing fails, the snapshots written since the
\* server started are all on disk, up to Keep copies, in the order written.
RollingHistory ==
  pc = "serve" => \A i \in 0 .. Keep : i < streak => file[i].stamp = stamp - i
=============================================================================
