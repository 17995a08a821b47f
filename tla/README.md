# Verification of the Fallout 4 multiplayer mod

TLA+ models of the distributed parts of this repository, the TLC runs that check them and the
TLAPS proofs of what matters most. The code lives under `src/FO4_Wrld/` (paths below are relative
to it): a Python server (`net/server`), its UDP channel (`net/`), a C++ library injected into the
game (`fw_native`) and a launcher that tunnels UDP through Steam (`fw_launcher`).

`tlc -config MCOwnership.cfg MCOwnership` runs one model, `tlapm OwnershipProofs.tla` one proof
module. `PROJECT.json` lists the runs, which lines every definition models, the hazards and the
findings.

## 1. The system

Each player runs the unmodified game with the native library. Hooks intercept engine calls on the
game's main thread; one net thread talks to the server over UDP. The server keeps the shared world
and relays. Nobody else talks to anybody: every message goes client to server or server to client,
over one reliable, *unordered* channel for each direction and peer.

| Component | State | Operations | Talks to |
|---|---|---|---|
| **Reliable channel** `net/reliable.py`, `net/channel.py`; C++ twin `fw_native/src/net/reliable.cpp` | `SendWindow`: `next_seq`, `in_flight`; `ReceiveWindow`: `highest_contiguous`, bitmap; ACK counter and timer, `dead` | send, receive, ACK, tick (retransmit, give up) | UDP below, every handler above |
| **Sessions** `net/server/state.py`, `main.py`; `client.cpp` `do_handshake`, `run_loop` | sessions by address and id, `last_seen`; client `connected_`, `dead_` | HELLO/WELCOME with bootstraps, DISCONNECT, expiry after 5 s, PEER_JOIN/LEAVE | channel, ownership registry, ghost registry |
| **NPC ownership registry** `net/server/ownership.py` with its handlers in `main.py` | `_records` (owner, epoch, heartbeat, threat tables, HP pool), `_next_epoch`, `_dead_fids`, `_pending_dmg` | observe, unload, heartbeat, state, engagement, damage, death, disconnect, tick | announces PHASE_2 to all; relays state and deaths |
| **Client ownership mirror** `hooks/ownership_manager.cpp` | map form id to (epoch, owner), observation de-duplication, emit timers | PHASE_2, snapshot, observe, periodic emit | registry; the AI gate of the engine |
| **Shared death** `hooks/kill_hook.cpp`, `hooks/npc_ai_suppress.cpp`, `main_thread_dispatch.cpp`, `main.py` | death queue, `g_killed_fids`, dying marks, armed handoff commits | report, relay, pool kill, drain, commit | registry, mirror, engine |
| **Container synchronisation** `hooks/container_hook.cpp`, `hooks/put_hook.cpp`, `client.cpp`, `main.py`, `state.py`, `validator.py` | client: `g_seeded_keys`, `pending_ops_`, apply queue; server: `_containers` | SEED, OP, ACK, BCAST, apply | engine inventory, channel |
| **Blocking submit** `client.cpp` `submit_container_op_blocking`, end of `run_loop` | `pending_ops_`, one mutex and condition variable per waiter, `queue_` | submit, dispatch of an ACK, time limit, wake-up at shutdown | main thread, net thread |
| **World values** `state.py`, `main.py`, `hooks/worldstate_hook.cpp`, `hooks/lock_hook.cpp` | quests, globals, factions, weather, companions, relations, cleared cells, locks, actors | last-write-wins set, relay to the others, bootstrap | channel, persistence |
| **Persistence** `net/server/persistence.py` | `snapshot.json` and rotated copies | rotate, write, load | server start, actors, containers, locks |
| **Dispatch queues** `main_thread_dispatch.cpp` | one queue for each kind of remote operation | enqueue on the net thread, drain on the main thread | engine |
| **Equipment, mesh blobs** `client.cpp`, `hooks/equip_cycle.cpp` | partial blobs by peer and sequence | chunk, reassemble, apply | engine |
| **Steam bridge, launcher** `fw_launcher/src` | a loopback socket per peer, the game's address | forward, learn address | Steam, UDP |

Hard behaviour, component by component, with what makes the component correct:

- *Channel.* Loss, repetition, reordering of frames and of ACKs; numbers that wrap; a bounded
  window. Correct: every message at most once, an acknowledged one was delivered, progress or death.
- *Registry.* Reports of several clients cross the server's own decisions: a heartbeat under an old
  epoch, damage before the observation, two reports of one death, a crashed owner, players who come
  and go between ticks. Correct: one owner whom everybody is told of, epochs that fence stale
  messages off, hit points that are counted once, a dead NPC stays dead, ownership follows the fight.
- *Mirror.* Announcements and the join snapshot overtake each other and carry no order the client
  looks at. Correct: a client moves an NPC only by the hand of the owner it knows of, a wrong map
  does not stay wrong while it matters, an abandoned NPC finds an owner.
- *Death.* A kill races the change of owner, the cell streaming and the pool's own kill. Correct:
  dead for all or for none, and no body gets up again.
- *Containers.* A verdict that races with a 100 ms limit, a SEED that is older than the state it
  replaces, broadcasts out of order. Correct: books balance, no item is copied, all copies converge.
- *Blocking submit.* Two threads and two kinds of locks. Correct: own verdict, no lost waiter, no
  deadlock.
- *Sessions.* Restarts behind an address that stays the same, copies of HELLO and DISCONNECT that
  arrive a process too late, notices that overtake each other. Correct: a player is there once,
  ghosts show who is there, nobody's name is kept by a session without a player.
- *World values.* Concurrent writers, a bootstrap that races with relays, hooks that see what the
  mod itself applies. Correct: the copies converge, a change does not travel for ever.
- *Persistence.* Failures and crashes between any two file operations. Correct: what is on disk is
  a rolling history, newest first, and nothing newer is lost behind something older.

`PROJECT.json` lists the hazards with the line where each bites and the properties that cover it.

## 2. Modules

| Module | Contents |
|---|---|
| `Ownership` | the registry: one action per handler plus the tick |
| `OwnershipLease` | abstract: holders, fresh tokens, state accepted only from the holder |
| `OwnershipMirror` | the clients' maps, their observations and state frames, and the messages between |
| `Death` | the death of one NPC, from the kill to the body at every client |
| `ReliableChannel` | one direction of the channel with its lossy network |
| `Delivery` | abstract: at-most-once delivery within a window |
| `ContainerSync` | one container: hooks, submit, server books, broadcasts |
| `BlockingSubmit` | the submit and the net thread, lock by lock |
| `SubmitCall` | abstract: a call for leave, made once, that returns with leave only if it was granted |
| `WorldValue` | the values that are set as a whole, of all kinds |
| `Session` | processes, handshakes, sessions and notices |
| `Persistence` | the snapshot files and the task that writes them |

Each of these but the three abstract ones has a module `...Props` with its properties and a module
`MC...` with the constants for TLC. Proofs are in `OwnershipProofs`, `OwnershipMirrorProofs`,
`ReliableChannelProofs`, `ContainerSyncProofs` and `WorldValueProofs`, in `ServerProofs` (the sessions
and the snapshots: two parts of the server that share no state) and in `ClientProofs` (the blocking
submit and the shared death: two parts of the client's library that share no state either).
`SumTheorems` has what the proofs need to know of sums over finite sets. So that two models can be
proved about in one module, `BlockingSubmit` calls its specification `SubmitSpec` and `Persistence`
its own `DiskSpec`.

The models compose by promise. `ReliableChannel` is shown to implement `Delivery`; every other
model uses only what `Delivery` promises, messages that arrive once, in any order (`Session`, where
the channel itself begins and ends, has HELLO and DISCONNECT arrive late or never). `Ownership` is
shown to implement `OwnershipLease`; `OwnershipMirror` and `Death` have the server change owners
when it likes, each time under a fresh epoch with an announcement, which is what the lease allows.
`ContainerSync` takes a wait for a verdict as one step and a time limit; `BlockingSubmit` opens that
step up, lock by lock. Both are shown to implement `SubmitCall`: the steps `ContainerSync` takes for a
wait are steps a call may take, and what the locks do allows no other. `Ownership`, `WorldValue` and
`OwnershipMirror` take a session for granted that `Session` establishes.

Operators named `Bug...` are plausible mistakes in the operator below them. No action uses them;
`PROJECT.json` pairs each property with one that breaks it.

### Ownership

`rec[n]` is the entry of `_records` (`NoRecord` when absent), with `owner`, `epoch`, `heartbeat`
(`last_heartbeat_ms`), `since` (`since_ms`), `engaged` (`threat_engaged`), `damage`
(`threat_damage`) and the pool (`hp_max`, `hp_cur`, `hp_dead`, `hp_by_peer`). `phase2` and `relayed`
keep the last message of each kind that left the server. Actions and code:

| Action | Code |
|---|---|
| `NpcObserved` | `on_observed`, called by `_handle_npc_observed`, with the drain of buffered damage and the kill it may cause |
| `NpcUnload`, `NpcOwnerHeartbeat` | `on_unload`, `on_heartbeat` |
| `NpcStateFromOwner` | `_handle_npc_state_from_owner` for one entry |
| `NpcEngagementClaim` | `on_engagement_claim` |
| `NpcDamageClaim` | `_handle_npc_damage_claim`, `_apply_hp_pool_claim`, `_fire_npc_death`, `stash_pending_damage` |
| `NpcDeathFromOwner` | the release in `_handle_npc_death_from_owner`; the relay is in `Death` |
| `PeerJoin`, `PeerLeave` | session accepted; `_remove_and_notify` with `on_peer_disconnect` |
| `Tick` | `tick` with `periodic_tick` and `reeval_threat_owners` |

Time is in units of one tick. The position stream is an input of the tick: which sessions have a
fresh position and which stand in range. The proximity score is 1 in range and 0 out of it; damage
is a natural number and a decayed sum is rounded down. The closeness and RNG modes are dead code
while `THREAT_OWNERSHIP = True` and are left out.

### OwnershipMirror

`mirror[p]` is `State::map` of client p, `observed` and `snap` its `TxState`; `rec`, `nextEpoch` and
`alive` are what of the registry is announced. `ReceiveFrame` is `on_phase2` and `on_bcast`: the last
to arrive is stored, epochs are not compared. `Notice`, `Record` and `TickPeriodic` are
`notify_observation`, `record_owned_state` and `tick_periodic`, whose samples go stale after 5 s;
`Engage` is the claim of a client that fights an NPC its map gives to another. `ServerReport`,
`ServerObserved` and `ServerEngaged` are the handlers at the other end; `HealthGate` is
`periodic_tick`, for which a report, an observation and a claim of the owner are signs of life, the
claim whatever epoch the owner goes by. `Release` is an unload or a reported death, `FireDeath` the
death by the pool, after which the NPC stays in `dead` (`_dead_fids`) and nobody's until
`DeadExpires`. A client dropped by the server is `stranded`: it goes on in the belief that it is
connected until the player restarts the game.

### Death

`LocalKill` is the kill hook, `Report` and `PoolEmpties` the server's two ways to kill,
`ReceiveDeath` and `Drain` the queue between net and main thread. The main thread takes what waits
only when a posted message (`posted`) says so, and `Wakes` may post none: no window is known yet, or
the game has made it anew (`WindowRecreated`), for nothing binds the new one. `Follow` and `Frame`
are the frame hook for a puppet and for any other NPC. `armed` is the pose kept for the handoff,
`dying` the mark that forbids to commit it, `killed` is `g_killed_fids`. `listed` says whether the
server's brain lists the NPC, a condition of the branch that erases the mark. `lost` records which
of four holes a copy fell through: a report without a record, a kill the client did not know to be
tracked, a death for an NPC that is not loaded, a body revived. That `MoveTo` brings a body back to
life is taken from the comments at `npc_ai_suppress.cpp:1556`. The run ends within the 600 s of
`_DEAD_FID_TTL`.

### ReliableChannel

One end's `SendWindow`, the other's `ReceiveWindow`, and two sets of datagrams. A datagram in the
set may be received again (repetition), in any order, or disappear. Sequence numbers keep their
modulus, `2 * HalfRange`. The RTO estimator only decides which frames are due at a tick: any set
may be. `MaxOpen` bounds how far the sender runs ahead of its oldest open frame and so which old
frames may still be in the network (`Recent`): datagrams do not live long enough to be taken for a
new frame one lap later.

### ContainerSync

`view` and `inv` are what each client's engine holds, `pending` the move its main thread waits for,
`applyQ` the queue of `main_thread_dispatch.cpp`; `known` and `items` the server's record. A move is
submitted (`Take`, `Put`), judged (`ReceiveOp`), answered (`ReceiveAck`) or given up (`Timeout`);
`ReceiveSeed` creates, refills or refuses; `ReceiveBcast` and `DrainApplyQueue` carry an accepted
move to the others. `accepted`, `applied`, `trusted`, `created` and `refilled` are history. The
rate limiter and the checks of malformed input are a rejection that may hit any move.

### BlockingSubmit

`stage` is the program counter of a game thread, `net` that of the net thread. A critical section
that takes no further lock is one step. `stage = "unmap"` means that the thread holds its waiter's
mutex, `net = "sweep"` that the net thread holds `pending_ops_mutex_`. The answer of the server is
external and may never come.

### WorldValue

A key is a kind and a form. A lock or an actor is filed by base and cell: keys of one `Slot` share an
entry, and `server[k]` has a value for the key the entry is about, the one changed last (`Recorded`).
The kinds differ in what the server refuses (`MayRefuse`, `MayAccept`: a lock whose entry says so
already, a kill when the entry is dead, whichever reference it is about; `MayBar`: an actor event
beyond the rate limit or against a ghost's base), in the thread that applies (`Direct`: globals
and actors on the net thread, the rest from a queue on the main thread), in whether the object must
be loaded (`Loadable`) and in what a joiner is sent that it has a handler for (`Booted`: all but
globals). `Write` is a detour: the report and the engine's own store are one step. `Load` is the
engine's ForceLock while a cell comes in. `EchoGuarded` is what leaves a detour while the mod itself
applies a value: nothing. `missed` and `contended` are history: the keys over which a client and the
server parted, because the client could not put a relay to use or the server barred its change, and
those changed twice at the same time.

### Session

`run` counts the processes of each client, `AddrOf` is the address the server sees: a port of its
own for each process, but always the same behind the Steam bridge. `sess` and `heard` are the
server's sessions and their signs of life, `post` what it sent, `chan` which session the client's
receive window follows: frames of another one may be taken for repetitions (`Deaf`). `crossed` is
history: the notices that were sent while an older one of the same peer was on its way.

### Persistence

`file[0]` is `snapshot.json`, `file[n]` its n-th copy. `Unlink`, `Shift` and `Pass` are the
iterations of `rotate_snapshots`, `Write` is `snapshot` with its atomic replace; `Fail` is an
exception in any of them, `Stop` the end of the process at any point.

## 3. Runs

| Run | Instance | What it shows |
|---|---|---|
| `registry` | 2 players, 1 NPC, 6 time units, 4 epochs | types, epochs, announcements, pool, corpses, silence, who may take over, refinement of the lease |
| `mirror` | 2 clients, 1 NPC, 3 epochs, 1 claim, report or state on its way | one hand moves a puppet; a released NPC is elected again unless its pool emptied; an owner's wrong map heals unless it keeps claiming |
| `channel` | window 2, 3 messages, 1 retransmission, ACK batch 2 | at most once, ACKs are true, the window can move, every message is delivered or the channel dead, refinement of the delivery service |
| `container` | 2 clients, 1 stimpak, a cap each, chunks of one entry, 3 moves | balance, refinement of the call for leave, explained duplicates, no echo |
| `submit` | 2 threads, 3 submissions | refinement of the call for leave, no leak, every submission returns |
| `world` | 2 clients, one key of each of 4 kinds and a second door under the first one's entry, 2 values, 4 moves | agreement without overlapping writes; rest in the end |
| `session` | host and bridged guest, the guest comes back once, 3 sessions | ghosts, abandoned sessions |
| `persistence` | 3 copies, 2 worlds, 6 snapshots | newest first, rolling history |
| `death` | 2 clients, 3 changes of owner, 2 kills | dead for all or none; a death on its way is carried out unless its wake-up was dropped |

Three more runs (`container_dup`, `submit_cycle`, `death_revive`) end in a violation and belong to
the findings of section 6.

Why the bounds are enough. *registry*: each duration is smaller than the horizon of 6 units, so
every window opens and closes; four epochs are a claim, a handoff, a release and a claim again; a
pool of 3 with damage of 1 or 2 is emptied exactly, overshot and shared by two players; two players
are all that a lead, a handoff or a disagreement needs. That epochs differ when one step moves
several NPCs says nothing in a run with one NPC; it is proved for every number of them (`Fencing`).
`_DEAD_FID_TTL` is shortened from 600 s to 2 units so that it can run out within the run, the other
durations are the source's in units of 1.5 s. *mirror*: three epochs are a claim, a handoff and a
release in any order of arrival, with a join, a drop and a restart between them, and a claim or a
death by the pool at any point. *channel*: more messages than the window holds, so the receiver
meets frames behind, in and beyond its window; one retransmission is exhausted; the properties other
than liveness are proved for all bounds. *container*: a race of two moves and a retry after it; one
item is the smallest stock two players can dispute; a container and a pocket are more than one
chunk, and `known` may be either at the start. *submit*: one thread submits again while the verdict
of its first submission is late and the other thread waits. *world*: two joins and two writes, or
one join and three; two doors are all an entry needs to be shared. That more keys, sharers and
writers add nothing is the theorem `Agreement`. *session*: one return is enough for a frame of one
process to meet the next, three sessions for an address to be reused twice. *persistence*: six
snapshots fill and shift three copies twice. *death*: a claim, a handoff and a release around two
kills. Deadlock is checked for the registry and for persistence. The other systems may really stop:
a finite number of messages was sent, or moves made, and nothing is left to do.

## 4. Fairness

Safety needs none. What liveness assumes, and why the code justifies it:

- *channel*: the sender's tick keeps finding each open frame due. The server's 20 Hz tick and the
  client's loop call it unconditionally, and the back-off of the time-out is capped. Nothing is
  assumed of the network, which may lose every frame: then the retransmission limit ends the channel.
- *submit*: the operating system runs each thread that can go on, which includes that the 100 ms
  limit runs out; neither an answer of the server nor the end of the net thread is assumed.
- *mirror*: the channel delivers the announcements and observations it has for each peer, a claim
  arrives or is lost (a claim on its way is one that will arrive), the health gate runs (a step of
  the tick) and a client that fights an NPC keeps noticing it (its detour runs each frame). A sample
  under another epoch than the map's was taken before the map changed: it is taken again within
  frames or dropped as stale within 5 s (`Renews`). Nothing is assumed of heartbeats or states.
- *world*: the server handles what arrives and the net threads handle what arrives. Nothing is asked
  of the main threads, which run only on a posted message that may never come.
- *death*: the deaths on their way to a client arrive, and its main thread handles the window messages
  it was posted. That any is posted is not assumed; owners may change and cells stream without end.
- *session*: clocks run on. The handshake's time limit, five seconds of silence of each peer's session
  and its expiry come about; no frame need ever arrive.

## 5. Proofs

All proofs hold for every value of the constants that meets the named assumptions
(`OwnershipAssumption`, `MirrorAssumption`, `ChannelAssumption`, `ContainerAssumption`,
`SubmitAssumption`, `DeathAssumption`, `WorldAssumption`, `SessionAssumption`,
`PersistenceAssumption`). They type the constants and say that there are finitely many peers, NPCs,
clients and items. One more is about the tuning: `ThreatAssumption`, that damage is forgotten no later
than engagement (4000 ms and 4500 ms, `ownership.py:190` and `:196`) and that standing near gives less
than the absolute margin (1 and 3, `ownership.py:174` and `:219`). Only `Handed` and `Kept` rest on
it.

- **`SumTheorems`.** The hit points, the contents of a container and the reports of a death are sums,
  `SumFunctionOnSet`, which the library defines by recursion over subsets. `SumExists` and
  `SumUnique` show that the recursion has one solution; `SumNat`, `SumSplit`, `SumAdd`, `SumSame`,
  `SumChange` and `SumConstant` say how a sum moves when a value or the set does. Induction goes by
  the least counterexample (`SubsetChain`): the strict subsets of a finite set are well-founded.
- **`OwnershipProofs`.** `TypeCorrect`. `Fencing` (`EpochsFresh`), `Announced` (`TableAnnounced`)
  and `Refinement` (`ImplementsLease`). `TypeOK` alone is not inductive: a buffered claim enters a
  record under its peer's name, so `Typed` adds that a non-empty buffer names a peer. `EveryStep`
  reduces the registry's actions to two kinds of lease steps: some set of NPCs changes hands, each
  under a fresh epoch with its announcement, or nobody does and at most one owner's state is
  accepted. `LeaseInv`, which joins the fresh epochs to the announced table, is preserved by both
  kinds, and the refinement reads off the same reduction. `Corpse` (`KilledStaysDead`) and `Silence`
  (`SilentOwnerBounded`): the first is inductive only together with `NoneWaits`, no claim waits for
  a tracked NPC, for a kill would leave such a claim to the next observer; `CorpseStep` and
  `LifeStep` say of one NPC how a step may bring it into the table, the buffer or the list of
  corpses, and what proof of life it gives.
  `Conservation` (`PoolConserved`): `Pooled` adds that a pool never filled has nobody on its books, for
  such a record is filled by the first claim that carries the hit points; `ClaimPooled` is the
  arithmetic of one claim. `Handed` (`HandoffOnlyToFighter`) and `Kept` (`FightingOwnerKept`): a
  challenger who leads by the margin has a term besides proximity (`ChallengerFought`). If it is
  damage it is recent damage, and `Fought`, damage is never younger than the engagement of the same
  player, makes it a recent engagement; with an owner at full engagement only damage can lead.
- **`OwnershipMirrorProofs`.** `TypeCorrect`, `OneHand` (`AppliedFromNamedOwner`). An epoch names one
  announcement (`SaidOnce`), and the table, the frames, the maps and the relayed states hold nothing
  but announcements. So a state that passes the client's test of the epoch is of the owner in its
  map, however old both may be.
- **`ReliableChannelProofs`**, each under `NoWrap`, fewer messages than half the sequence space
  (2^31; beyond it the code is wrong, section 6). `TypeCorrect`, `Dedup`, `AckSound`, `NoStall`,
  `Implements`. The invariant `IInv`: a frame of message m carries number m (`Numbered`); the
  receive window holds only numbers in the window ahead and never the next one (`WindowCompact`);
  a message was delivered exactly when its number is behind the window or in the bitmap
  (`Counted`); what an ACK on its way claims was delivered (`AcksTrue`). `PlusIsPlus` and
  `SeqLeqIsLeq` bring the modular arithmetic down to plain arithmetic, `RegisterMoves` says where
  the window goes when a frame is taken in.
- **`ContainerSyncProofs`.** `Verdicts` (`VerdictFirst`, an engine moves only what was accepted),
  `Broadcasts` (`NoEcho`) and `CallImplemented` (`ImplementsCall`), which reads off the same invariant
  that a wait ends with leave only for a call that was granted. Inductive
  because a sender and an id name one move wherever it is (`IdsDrawn`, `IdsName`), a move is judged
  once (`JudgedOnce`) and an ACCEPTED on its way answers an accepted move (`AcksSound`): a late
  verdict finds no waiter or its own. `TypeCorrect`: a queue is applied by a fold, which `FoldExists`
  shows to be defined by stages and `DrainedBag` to leave a container a container. `Balance`
  (`BooksBalance`) and `Duplicates` (`DuplicatesExplained`) come from one invariant, `Books`. Before
  the container is reported every copy is as it was at the start and no TAKE or SEED on its way
  says more than it held (`Unreported`); a move that waits was not carried out, and who puts still has
  what he puts (`InHand`); and `Account` counts the copies of an item together with what the server
  has granted in TAKEs that no engine has carried out: without those the bound would break when the
  verdict arrives.
- **`ClientProofs`, the submit.** `SubmitTypes`, `OwnVerdict` (`AnswerIsOwn`, a verdict is returned
  only to the submission it was given for), `TableDrained` (`NoWaiterLeaks`) and `SubmitImplements`
  (`ImplementsCall`), for which `Asked` says that the server has seen only ids that were drawn. The
  invariant follows an answer from the server (`given`) through the network and the net thread's
  hands (`ReplyGiven`) into the waiter (`AckGiven`).
- **`ClientProofs`, the death.** `DeathTyped` (`TypeOK`) and `Agree` (`DeathsAgree`). That no client is
  sent more deaths than there were kills is inductive with the sum of the reports not yet relayed
  (`Supply`), each of which is a death for every other client. `DeathsAgree` speaks of the end only;
  a dropped wake-up loses no death, it leaves one waiting, and one that waits is on its way.
  Before the end, as long as nothing was lost, a death that anybody knows of is settled with
  everybody (`Owed`): the copy is dead, or a death is queued for it, on its way to it, or in a report
  of another client. "Knows of" has to include a death that is only queued: with dead copies alone
  the step in which the first copy dies would owe the others nothing. `BodiesStay`, a copy that was
  killed is dead, covers the deaths that the queue skips because they were applied before.
- **`WorldValueProofs`.** `TypeCorrect`, `Agreement` (`CalmConverges`), for every way `Slot` files
  locks and actors under shared entries. A change of another key of the slot only takes the entry
  away from a key (`server[k]` becomes `NoVal`), about which nothing is promised until it is changed
  again. As long as writes of a key do not overlap there is one wave at a time: what is on its way
  down or waits in a queue is the server's value (`DownCurrent`, `QueueCurrent`), a change on its
  way up is alone (`UpAlone`), and each session has the value, is about to get it or has missed it
  (`Covered`).
- **`ServerProofs`, the sessions.** `TypeCorrect`, `OnePlace` (`OnePlaceEach`), `GhostsTrue`
  (`GhostsFaithful`). Frames and sessions carry the address of the process they are of (`Stamped`),
  what is on its way belongs to a session that exists (`Posted`), and `Told`: the one notice on its
  way about a peer, or with none the ghost, says whether that peer has a session.
- **`ServerProofs`, the snapshots.** `DiskTypes`, `Newest` (`NewestFirst`), `Rolling`
  (`RollingHistory`). The invariant says how far the history has moved on while the copies are being
  shifted (`Shifting`) and that `snapshot.json` is moved away last (`BaseStays`).

Every invariant and every action property of a passing run is proved, the four refinements included.
Only model-checked: liveness (`Settled`, `Returns`, `OwnerViewHeals`, `ReleasedIsReelected`,
`Settles`, `AbandonedEnds`, `DeathCarriedOut`), which is out of the prover's reach.

## 6. Findings

Each of these is a run in which TLC shows what a comment promises and the code does not keep.

1. `container_dup`: a SEED refills a record that a TAKE has just emptied, and the item exists twice.
2. `submit_cycle`: shutdown wake-up and a timed-out submitter take two mutexes in opposite orders.
3. `death_revive`: a body gets up again. It takes no reordering: a client follows the NPC as a puppet
   (pose armed), is handed the NPC, a cell streams in, the death is drained, the frame hook of the
   new owner erases the dying mark while the commit is put off, and the first frame after the window
   commits.

The models, and reading for them, show more of the kind, which have no run of their own. Where a
property covers what is left of the promise it is named.

Ownership and death:

- `main.py:1967`: a death reported by the owner leaves no entry in `_dead_fids`; the next observation
  of the corpse elects an owner again, against `ownership.py:499`. The pool's kill does it right
  (`KilledStaysDead`).
- `main.py:1968`: a death reported by another peer than the owner is relayed, the record stays;
  `main.py:1955` says "Releases ownership on death".
- `main.py:1480`, `protocol.h:1138`: PHASE_2s that overtake each other leave an older owner in a
  client's map; the epoch is not compared. If the owner itself is mistaken and does not fight the
  NPC, the health gate takes it from it and the release sets its map right (`OwnerViewHeals`). If it
  does fight it, it claims what it takes for another's every 2 s (`npc_ai_suppress.cpp:590`,
  `client.cpp:827`), the claim renews its heartbeat without a look at epochs (`ownership.py:1189`)
  and the gate, at 2.5 s, never fires: nobody runs the NPC while the fight lasts. Another client's
  map may stay wrong until the next change in any case.
- `ownership.py:883`: for 600 s after a death by the pool an observation of the body is refused, as it
  should be, but the client that sent it keeps the NPC in its de-duplication set: if the NPC is there
  again after that time, that client does not report it unless somebody's release comes by
  (`ReleasedIsReelected` promises nothing of an NPC that died by the pool).
- `ownership_manager.cpp:281`: a client that sees an NPC before it is connected puts it into the
  de-duplication set and sends nothing; it never reports that NPC unless somebody's release comes by.
- `ownership.py:963`: the tick may hand an NPC to a player that fought it and left, because the
  threat tables are not purged and the election does not look at sessions; `ownership.py:4` speaks
  of "a connected peer". The health gate takes the NPC back after 2.5 s (`SilentOwnerBounded`).
- `ownership.py:440`: a second early damage claim makes an expired one fresh again; `ownership.py:454`
  says "the aggro burst is stale; ignore it". It is still counted once (`PoolConserved`).
- `ownership.py:991`: `THREAT_COMMIT_WINDOW_MS` and `THREAT_COMMIT_ABS_DELTA`, described at
  `ownership.py:222`, are never read.
- `main.py:1953`: a kill reported just after a release is dropped (`"no record"` in `Death`);
  `kill_hook.cpp:116` says "any tracked-side kill propagates".
- `main_thread_dispatch.cpp:310`: a queue is drained only when a posted message says so, and nothing
  is posted while no window is known. `main_thread_dispatch.cpp:172` says "the queue will flush on
  next post after set_target_hwnd"; for deaths, weather, companions, cleared cells and relations
  `set_target_hwnd` posts nothing, so what came too early waits for the next of its kind. When the
  game has made its window anew, `main_thread_dispatch.cpp:342` forgets the old one, and
  `main_thread_dispatch.cpp:337` says "main_menu_hook will call set_target_hwnd again"; but
  `main_menu_hook.cpp:382` returns early once it is installed, so the queues are not drained any
  more, and without `auto_load_save` in the configuration no window is ever bound. `DeathCarriedOut`
  excuses a death whose wake-up was dropped (`Stranded`).
- `main_thread_dispatch.cpp:1855`: a death for an NPC that is not loaded is skipped and not replayed.
- `npc_ai_suppress.cpp:1556`: a client's own kill never marks the NPC dying, so a later handoff
  commit revives that body too; `main_thread_dispatch.cpp:93`: the set of killed NPCs is never pruned,
  so the next death of a revived one is skipped.

Containers and the submit:

- `client.cpp:2194`: broadcasts of different players are applied in the order they arrive, and taking
  clamps at zero; `main.py:696` counts on convergence. One copy may keep an item too many.
- `client.cpp:1327`: a move that the client gave up is accepted, booked and broadcast, though
  `client.h:382` calls the time limit a "conservative REJECT". `DuplicatesExplained` bounds the
  effect to the abandoned moves.
- `main.py:769`: of a SEED in several chunks only the first to arrive counts; `main.py:701` says "all
  chunks merge into the initial seed". The books balance (`BooksBalance`).
- `container_hook.cpp:177`: a move into or out of a container without a base or a cell, and one in
  whose inspection the hook faults (`container_hook.cpp:214`), goes ahead in the engine without a
  word to the server. Neither is in the model.
- `put_hook.cpp:312`: a PUT through the menu starts a record without the container's contents, which
  can then not be taken.
- `client.cpp:1287`: a waiter registered after the wake-up at shutdown is not woken and waits out its
  100 ms; it does return (`Returns`).

World values, sessions, channel, snapshots:

- `main.py:821`: two players who set a value at the same time may each keep the other's for good, and
  two settings by one player may overtake each other; only uncontended values converge
  (`CalmConverges`).
- `main.py:2030`, `state.py:366`: locks and actors are filed by base and cell, though `main.py:1267`
  says "each entry is independent (different REFR identity)" and `state.py:156` "authoritative lock
  state for one REFR". Two doors of one base in one cell share an entry: to unlock the second after
  the first is taken for no change and not relayed, the kill of a second raider likewise
  (`validator.py:293`), and a joiner is told only of the reference that was changed last. No two
  writes need overlap. `CalmConverges` speaks only of the reference the entry is about.
- `validator.py:266`, `validator.py:272`: an actor event beyond the rate limit or against a ghost's base
  is refused after the engine has carried it out; nothing takes it back (`MayBar`).
- `engine_calls.cpp:3474`: a lock change for a door that is not loaded is dropped, because "the
  bootstrap snapshot replays the latest state" when the cell loads; the bootstrap is sent at HELLO only.
- `lock_hook.cpp:73`: while a cell loads, ForceLock fires for a lock the save has locked and is taken
  for a change; an old save overwrites what the players did.
- `main.py:1256`: the server sends a joiner the global variables, the native client has no case for
  that message.
- `state.py:293` says a client that restarts on the same address replaces its session, but
  `main.py:221` never calls `accept_peer` for an address it knows: the new process talks to the old
  session until that expires (`AbandonedEnds`).
- `reliable.py:98`, `reliable.py:184`: after 2^32 - 1 messages the sender skips 0 and the receiver
  waits for it.
- `main.py:2754`: between the rotation and the write there is no `snapshot.json`; a crash there, or a
  write that fails and then a restart, starts an empty world although a copy exists
  (`persistence.py:2` promises crash recovery). After such a start the good copy moves down and is
  dropped after as many rotations as there are copies. What is on disk stays in order (`NewestFirst`).
- `main.py:2748`: the first write after a start replaces `snapshot.json` without rotating it;
  `main.py:2868`: nothing is written at shutdown, so up to one interval is lost. Only actors,
  containers and locks are saved, nothing is flushed to the disk, and a file with a bad field leaves
  what was loaded before it.

## 7. What is not modelled, and why

Most lines of the repository read and patch the memory of the game, draw and animate:
`engine_calls.cpp`, `scene_inject.cpp`, `offsets.h`, the crash guards, most hooks. They keep no
protocol state, and a model of them would be a model of an engine whose source is not here. The share
of lines the models cover is therefore small and will stay so; the protocol and its state are what
the modules above cover.

- *Reliable channel, C++ end*: a variant of the Python end (plain comparison instead of the modular
  one, a limit of 32, an immediate ACK for frames out of the window). `ReliableChannel` models the
  Python end only.
- *Dispatch queues*: those of containers, world values and deaths are in their modules; those of
  poses, hit points and drawing carry nothing but the latest value.
- *Steam bridge*: the addresses are part of `Session`; Steam's own transport and process start-up are
  I/O.
- *Equipment, mesh blobs*: the sender of the blobs is compiled out (`weapon_capture.cpp:278`), so their
  reassembly is dead code, and the equip cycle is switched off (`main_menu_hook.cpp:138`), though
  `main.py:2070` still counts on it. The relay of equip changes keeps no state.
- *World values*: the deltas (party warp, passing of time, item grants, experience) and the spawn of
  actors are left out, as is a quest fragment that runs on a VM thread without the guard. References
  without a base or a cell, whose events the server relays but does not file (`state.py:364`), and
  the temporary forms (0xFF) a client refuses to disable (`engine_calls.cpp:2530`), are left out too.
- *NPC brains*: single-threaded geometry that the owner-driven mode replaces.
- *Wire protocol*: fixed-layout records; a message is a record in every module.
- *Python client, Frida bridge*: test tools. `re/`, `tools/`, `assets/`: not part of the program.

In `ContainerSync` clients do not join or leave during the run and the container bootstrap is left
out; containers are filed by base and cell like locks, and the model has one container, the only one
of its base in its cell. In `Death` the clients stay in session. In `OwnershipMirror` one frame
carries what a snapshot carries, and the registry's reasons for a change of owner are left open.

What would come next, in this order: the C++ end of the channel against the Python end; joining and
leaving in `ContainerSync`, and the same in `Death`.
