-------------------------- MODULE WorldValueProps --------------------------
(***************************************************************************)
(* What must hold of the shared values.                                    *)
(***************************************************************************)
EXTENDS WorldValue

TypeOK ==
  /\ server \in [Key -> Val \cup {NoVal}]
  /\ \A j, k \in Key : Slot[j] = Slot[k] /\ NoVal \notin {server[j], server[k]} => j = k
  /\ session \subseteq Peer
  /\ local \in [Peer -> [Key -> Val \cup {NoVal}]]
  /\ \A p \in session, k \in Key : local[p][k] # NoVal
  /\ loaded \in [Peer -> SUBSET Loadable]
  /\ up \subseteq [from : session, key : Key, val : Val]
  /\ down \subseteq [to : session, key : Key, val : Val]
  /\ queue \in [Peer -> [Key -> Seq(Val)]]
  /\ \A p \in Peer, k \in Key : Waiting(p, k) => p \in session /\ k \notin Direct
  /\ moves \in Nat
  /\ missed \in [Peer -> SUBSET Key]
  /\ contended \subseteq Key

\* Players agree: when nothing about a value is under way any more and it was
\* never changed twice at the same time, every session has in its engine what
\* the server has, whatever joined, left, loaded and unloaded meanwhile, and
\* whatever became of others filed under the same base and cell.  Out of the
\* promise are the values whose entry is about such another by now, the relays
\* a client dropped because the reference was not loaded, the changes the
\* server barred, and the globals a joiner is never sent.
CalmConverges ==
  \A k \in Key \ contended : Idle(k) =>
    \A p \in session : server[k] # NoVal /\ k \notin missed[p] => local[p][k] = server[k]

\* A change stops travelling: applying a remote value does not send it back,
\* so after the last local change nothing is left between the players.
Settles == <>[](up = {} /\ down = {})
=============================================================================
