------------------------- MODULE ContainerSyncProps -------------------------
(***************************************************************************)
(* What must hold of a shared container.                                   *)
(***************************************************************************)
EXTENDS ContainerSync, Functions

TypeOK ==
  /\ view \in [Client -> Bag] /\ inv \in [Client -> Bag]
  /\ seeded \subseteq Client
  /\ pending \in [Client -> Move \cup {NoOp}]
  /\ nextOp \in [Client -> Nat]
  /\ applyQ \in [Client -> Seq(Move)]
  /\ opMsgs \subseteq Move
  /\ seedMsgs \subseteq [from : Client, chunk : Nat, items : Bag]
  /\ ackMsgs \subseteq [to : Client, id : Nat, ok : BOOLEAN]
  /\ bcasts \subseteq [to : Client, op : Move]
  /\ known \in BOOLEAN /\ items \in Bag
  /\ accepted \subseteq Move /\ applied \subseteq Move /\ trusted \subseteq Move
  /\ created \in Bag /\ refilled \in Bag

\* How many of item i the moves of kind k in S carry.
Carry(S, k, i) == SumFunction([op \in {m \in S : m.kind = k /\ m.item = i} |-> op.count])

\* The server's books balance: what they hold of an item is what SEEDs and
\* PUTs brought minus what was taken.  No TAKE ever ran into the clamp at 0
\* but the one it was told to trust.
BooksBalance ==
  \A i \in Item :
    items[i] = created[i] + refilled[i] + Carry(accepted, "PUT", i)
                 - Carry(accepted \ trusted, "TAKE", i)

\* A player's engine moves items only after the server accepted that very
\* move: a late verdict never passes for the verdict of a later move.
VerdictFirst == applied \subseteq accepted

\* The wait of a main thread for a verdict (module SubmitCall): a call is a
\* client and an id, and a call that returned with leave is a move that the
\* engine carried out.
CallsOf(moves) == {<<op.from, op.id>> : op \in moves}
Call == INSTANCE SubmitCall WITH
  Caller <- Client,
  waiting <- [c \in Client |-> IF pending[c] = NoOp THEN {} ELSE {<<c, pending[c].id>>}],
  made <- UNION {{<<c, k>> : k \in 1 .. nextOp[c] - 1} : c \in Client},
  granted <- CallsOf(accepted),
  cleared <- CallsOf(applied)

\* An engine carries out a move once, and only on leave that the server gave for
\* that very move: a late verdict never passes for that of a later move.
ImplementsCall == Call!CallSpec

\* The copies of an item that the players carry, and with them those that the
\* server may still give out.
Pockets(i) == SumFunction([c \in Client |-> inv[c][i]])
Copies(i) == items[i] + Pockets(i)

\* There are no more copies of an item than there were, except for what a SEED
\* put back into a record that had run empty and for PUTs that the server has
\* accepted and the player's engine has not carried out.
DuplicatesExplained ==
  \A i \in Item :
    Copies(i) <= Stock[i] + Cardinality(Client) * Carried[i]
                   + refilled[i] + Carry(accepted \ applied, "PUT", i)

\* Nobody is told of a move twice and nobody of his own: what a client has
\* queued and will still receive is, move by move, once, what the server
\* accepted from the others.
NoEcho ==
  \A c \in Client :
    LET queued == {applyQ[c][k] : k \in DOMAIN applyQ[c]}
        coming == {b.op : b \in {x \in bcasts : x.to = c}}
    IN  /\ queued \cap coming = {}
        /\ \A j, k \in DOMAIN applyQ[c] : applyQ[c][j] = applyQ[c][k] => j = k
        /\ \A op \in queued \cup coming : op \in accepted /\ op.from # c

----------------------------------------------------------------------------
(* What comments of the code say and the code does not keep.               *)

\* A move the client gave up on.
GivenUp(op) == op.id < nextOp[op.from] /\ pending[op.from] # op /\ op \notin applied

\* "two peers TAKEing the same item concurrently produce one ACCEPTED ... and
\* one REJ_INSUFFICIENT ... No duplication": when nobody waits and no move was
\* given up, players have no more than there was.
NoDuplication ==
  (\A c \in Client : pending[c] = NoOp) /\ (\A op \in accepted : ~GivenUp(op)) =>
  \A i \in Item :
    Pockets(i) <= Stock[i] + Cardinality(Client) * Carried[i]
=============================================================================
