--------------------------- MODULE ContainerSync ---------------------------
(***************************************************************************)
(* One shared container: the AddObjectToContainer and TransferItem hooks   *)
(* of the clients (container_hook.cpp, put_hook.cpp), the blocking submit  *)
(* of client.cpp, the server's books (main.py, state.py, validator.py) and *)
(* the broadcasts that other clients apply to their own engine.            *)
(*                                                                         *)
(* A player moves items between his copy of the container and his          *)
(* inventory.  His main thread waits for the server's verdict first; the   *)
(* engine moves the items only on ACCEPTED.  The first touch of a client   *)
(* sends a SEED, its scan of the container before the move.                *)
(*                                                                         *)
(* Abstractions.  The reliable channel delivers every message once, in any *)
(* order (module ReliableChannel): a message is a member of a set until it *)
(* is received.  All clients stay connected, their copies of the container *)
(* are loaded and equal at the start.  The client's container_mirror_ is   *)
(* written and never read, and is left out.                                *)
(*                                                                         *)
(* An operator whose name starts with Bug is a plausible mistake in the    *)
(* operator below it; no action uses it.                                   *)
(***************************************************************************)
EXTENDS Integers, FiniteSets, Sequences, SequencesExt, FiniteSetsExt

CONSTANTS
  Client, Item,
  Stock,       \* what the container holds at the start: [Item -> Nat]
  Carried,     \* what every player carries of each item at the start
  ChunkCap,    \* entries per CONTAINER_SEED chunk, 87 in the code
  ScanMax,     \* entries a scan returns at most, 128 in the code
  Counts,      \* how many items a move may carry
  MaxOps       \* bound: moves the clients start, together

ASSUME ContainerAssumption ==
  /\ IsFiniteSet(Client) /\ IsFiniteSet(Item)
  /\ Stock \in [Item -> Nat] /\ Carried \in [Item -> Nat]
  /\ ChunkCap \in Nat \ {0} /\ ScanMax \in Nat /\ MaxOps \in Nat
  /\ Counts \subseteq Nat \ {0}

VARIABLES
  view,      \* each client's copy of the container, in its engine
  inv,       \* each player's inventory
  seeded,    \* clients that sent their SEED (g_seeded_keys)
  pending,   \* the move each main thread is waiting on (pending_ops_), or NoOp
  nextOp,    \* next_op_id_ of each client
  applyQ,    \* broadcasts the net thread queued for the main thread
  opMsgs,    \* CONTAINER_OP on their way
  seedMsgs,  \* CONTAINER_SEED chunks on their way
  ackMsgs,   \* CONTAINER_OP_ACK on their way
  bcasts,    \* CONTAINER_BCAST on their way
  known,     \* the server has a record of the container
  items,     \* the record's items, 0 for an absent key
  \* history: the server's verdicts and where its books come from
  accepted,  \* moves the server accepted
  applied,   \* moves the issuing client's engine carried out
  trusted,   \* the accepted TAKEs of a container nobody had reported
  created,   \* what the SEED that created the record brought
  refilled   \* what SEEDs brought into a record that had run empty

clientVars == <<view, inv, seeded, pending, nextOp, applyQ>>
serverVars == <<known, items, accepted, trusted, created, refilled>>
vars == <<view, inv, seeded, pending, nextOp, applyQ, opMsgs, seedMsgs, ackMsgs, bcasts,
          known, items, accepted, applied, trusted, created, refilled>>

----------------------------------------------------------------------------
Bag == [Item -> Nat]
Empty == [i \in Item |-> 0]
Move == [from : Client, id : Nat, kind : {"TAKE", "PUT"}, item : Item, count : Nat]
NoOp == [id |-> 0]

BugLess(a, b) == a - b

Less(a, b) == IF a > b THEN a - b ELSE 0

\* Apply a move to the contents of a container; taking never goes below zero.
Moved(bag, op) ==
  [bag EXCEPT ![op.item] = IF op.kind = "PUT" THEN @ + op.count ELSE Less(@, op.count)]

\* The server's snapshot may know the container already.
Init ==
  /\ view = [c \in Client |-> Stock]
  /\ inv = [c \in Client |-> Carried]
  /\ seeded = {}
  /\ pending = [c \in Client |-> NoOp]
  /\ nextOp = [c \in Client |-> 1]
  /\ applyQ = [c \in Client |-> << >>]
  /\ opMsgs = {} /\ seedMsgs = {} /\ ackMsgs = {} /\ bcasts = {}
  /\ known \in BOOLEAN
  /\ items = IF known THEN Stock ELSE Empty
  /\ accepted = {} /\ applied = {} /\ trusted = {}
  /\ created = items
  /\ refilled = Empty

----------------------------------------------------------------------------
(* A client starts a move.                                                 *)

\* The entries a scan of the container may return: all, or ScanMax of them.
Scans(c) ==
  LET present == {i \in Item : view[c][i] > 0}
      n == Min({Cardinality(present), ScanMax})
  IN  kSubset(n, present)

\* The chunks of a SEED that reports the items of S.
Chunkings(c, S) ==
  LET total == (Cardinality(S) + ChunkCap - 1) \div ChunkCap
      chunk(f, k) == {i \in S : f[i] = k}
  IN  {{[from |-> c, chunk |-> k,
         items |-> [i \in Item |-> IF i \in chunk(f, k) THEN view[c][i] ELSE 0]]
           : k \in 1 .. total}
        : f \in {g \in [S -> 1 .. total] : \A k \in 1 .. total :
                   Cardinality(chunk(g, k)) \in 1 .. ChunkCap}}

\* An empty scan sends nothing and leaves the container unseeded.
MaybeSeed(c) ==
  IF c \in seeded THEN UNCHANGED <<seeded, seedMsgs>>
  ELSE \E S \in Scans(c) :
         IF S = {} THEN UNCHANGED <<seeded, seedMsgs>>
         ELSE /\ seeded' = seeded \cup {c}
              /\ \E chunks \in Chunkings(c, S) : seedMsgs' = seedMsgs \cup chunks

\* The main thread submits the move and blocks.
Submit(c, kind, i, n) ==
  LET op == [from |-> c, id |-> nextOp[c], kind |-> kind, item |-> i, count |-> n] IN
  /\ pending[c] = NoOp
  /\ MapThenSumSet(LAMBDA d : nextOp[d] - 1, Client) < MaxOps
  /\ nextOp' = [nextOp EXCEPT ![c] = @ + 1]
  /\ pending' = [pending EXCEPT ![c] = op]
  /\ opMsgs' = opMsgs \cup {op}
  /\ UNCHANGED <<view, inv, applyQ, ackMsgs, bcasts, serverVars, applied>>

\* vt[0x7A]: take from the container, seeding it on the first touch.
Take(c, i, n) ==
  /\ view[c][i] >= n
  /\ MaybeSeed(c)
  /\ Submit(c, "TAKE", i, n)

\* vt[0x7A] with the container as destination also seeds, the menu's
\* TransferItem does not.
Put(c, i, n) ==
  /\ inv[c][i] >= n
  /\ MaybeSeed(c) \/ UNCHANGED <<seeded, seedMsgs>>
  /\ Submit(c, "PUT", i, n)

----------------------------------------------------------------------------
(* The server.                                                             *)

BugFits(op) == TRUE

\* Only a TAKE from a container on the books can ask for too much.
Fits(op) == op.kind = "TAKE" /\ known => op.count <= items[op.item]

\* record_container_op: a TAKE of an item that is not on the books leaves 0.
RecordOp(op) ==
  /\ known' = TRUE
  /\ items' = Moved(items, op)
  /\ trusted' = IF op.kind = "TAKE" /\ ~known THEN trusted \cup {op} ELSE trusted

BugAudience(op) == Client

\* Who hears of an accepted move: everybody but its sender.
Audience(op) == Client \ {op.from}

\* _handle_container_op: the verdict goes to the sender, an accepted move to
\* everybody else.  The rate limiter may refuse any move.
ReceiveOp(op) ==
  /\ op \in opMsgs
  /\ opMsgs' = opMsgs \ {op}
  /\ \/ /\ Fits(op)
        /\ RecordOp(op)
        /\ accepted' = accepted \cup {op}
        /\ ackMsgs' = ackMsgs \cup {[to |-> op.from, id |-> op.id, ok |-> TRUE]}
        /\ bcasts' = bcasts \cup {[to |-> c, op |-> op] : c \in Audience(op)}
     \/ /\ ackMsgs' = ackMsgs \cup {[to |-> op.from, id |-> op.id, ok |-> FALSE]}
        /\ UNCHANGED <<known, items, accepted, trusted, bcasts>>
  /\ UNCHANGED <<clientVars, seedMsgs, applied, created, refilled>>

BugCanonical == FALSE

\* The books count for more than any later scan: they hold something.
Canonical == known /\ items # Empty

\* _handle_container_seed, for each chunk: create, refill an empty record, or
\* refuse.
ReceiveSeed(m) ==
  /\ m \in seedMsgs
  /\ seedMsgs' = seedMsgs \ {m}
  /\ \/ /\ ~known
        /\ known' = TRUE /\ items' = m.items
        /\ created' = m.items
        /\ UNCHANGED refilled
     \/ /\ known /\ ~Canonical
        /\ items' = m.items
        /\ refilled' = [i \in Item |-> refilled[i] + m.items[i]]
        /\ UNCHANGED <<known, created>>
     \/ /\ Canonical
        /\ UNCHANGED <<known, items, created, refilled>>
  /\ UNCHANGED <<clientVars, opMsgs, ackMsgs, bcasts, accepted, applied, trusted>>

----------------------------------------------------------------------------
(* The verdict, the time limit and the broadcasts at a client.             *)

\* The engine carries out a move of its own player.
Perform(op) ==
  LET c == op.from IN
  /\ view' = [view EXCEPT ![c] = Moved(@, op)]
  /\ inv' = [inv EXCEPT ![c][op.item] = IF op.kind = "TAKE" THEN @ + op.count
                                        ELSE Less(@, op.count)]
  /\ applied' = applied \cup {op}

BugAnswers(a, c) == pending[c] # NoOp

\* The net thread finds the waiter by the id the ACK carries.
Answers(a, c) == pending[c].id = a.id

\* An ACK wakes its waiter; one that comes too late is dropped.
ReceiveAck(a) ==
  LET c == a.to IN
  /\ a \in ackMsgs
  /\ ackMsgs' = ackMsgs \ {a}
  /\ IF Answers(a, c)
     THEN /\ pending' = [pending EXCEPT ![c] = NoOp]
          /\ IF a.ok THEN Perform(pending[c]) ELSE UNCHANGED <<view, inv, applied>>
     ELSE UNCHANGED <<pending, view, inv, applied>>
  /\ UNCHANGED <<seeded, nextOp, applyQ, opMsgs, seedMsgs, bcasts, serverVars>>

\* No verdict within 100 ms: the move is skipped.
Timeout(c) ==
  /\ pending[c] # NoOp
  /\ pending' = [pending EXCEPT ![c] = NoOp]
  /\ UNCHANGED <<view, inv, seeded, nextOp, applyQ, opMsgs, seedMsgs, ackMsgs, bcasts,
                 serverVars, applied>>

\* The net thread queues a broadcast for the main thread.
ReceiveBcast(b) ==
  /\ b \in bcasts
  /\ bcasts' = bcasts \ {b}
  /\ applyQ' = [applyQ EXCEPT ![b.to] = Append(@, b.op)]
  /\ UNCHANGED <<view, inv, seeded, pending, nextOp, opMsgs, seedMsgs, ackMsgs, serverVars,
                 applied>>

\* The main thread, when it does not wait for a verdict, applies the queue.
DrainApplyQueue(c) ==
  /\ pending[c] = NoOp
  /\ applyQ[c] # << >>
  /\ view' = [view EXCEPT ![c] = FoldLeft(Moved, @, applyQ[c])]
  /\ applyQ' = [applyQ EXCEPT ![c] = << >>]
  /\ UNCHANGED <<inv, seeded, pending, nextOp, opMsgs, seedMsgs, ackMsgs, bcasts, serverVars,
                 applied>>

Next ==
  \/ \E c \in Client, i \in Item, n \in Counts : Take(c, i, n) \/ Put(c, i, n)
  \/ \E op \in opMsgs : ReceiveOp(op)
  \/ \E m \in seedMsgs : ReceiveSeed(m)
  \/ \E a \in ackMsgs : ReceiveAck(a)
  \/ \E b \in bcasts : ReceiveBcast(b)
  \/ \E c \in Client : Timeout(c) \/ DrainApplyQueue(c)

Spec == Init /\ [][Next]_vars
=============================================================================
