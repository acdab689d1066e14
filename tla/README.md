# SocketWire-Examples: a TLA+ development

This directory models the programs of `src/socketwire-examples` in TLA+, checks
the models with TLC on small instances and proves theorems about them with TLAPS.
The SocketWire library the examples are built on (sockets, `ReliableConnection`,
`BitStream`, `ThreadPool`, `TaskQueue`, `ShardedConnectionManager`, crypto) and
raylib are not part of the repository: they enter the models through what the
examples rely on, and the definitions that stand for them are marked external in
`PROJECT.json`.

## 1. The system

The repository holds independent client/server programs. Nearly all are one
thread running a loop: drain the socket, run timers, simulate, broadcast. What
is hard in them is not parallelism within a process but everything around the
loop: peers that arrive, vanish and come back; records freed and reallocated
while the program keeps raw pointers to them; messages that are reliable and
ordered, or unreliable, or unsequenced, and so lost, repeated and overtaken;
timers and clocks; small pieces of state on both sides that must agree.

| Component | State it keeps | Operations | Interacts through | Hard behaviour | What makes it correct |
| --- | --- | --- | --- | --- | --- |
| server connection hub (`common/server_connection_hub.hpp`) | `clients_` (owned records), `clientMap_` (endpoint to record) | `Poll`, `Update`, three callbacks | callbacks to every raylib server and the bench server; handles `Client&` kept by them | records closed in `Poll`, erased in `Update`; revived in between; told twice of a timeout; addresses reused | list and map agree; the application is told exactly of the open connections; closed records go |
| math-duel server and client (`simple-examples/math-duel`) | `clients`, `duel_queue`, `active_duels` | `/mathduel`, `/ans`, chat | raw UDP datagrams | repeated, reordered datagrams of clients who wait, play or answer at once | one opponent each, one duel each, one winner per duel |
| lobby-dots lobby (`raylib-examples/lobby-dots/lobby.cpp`) | `connected_clients` (raw pointers), `sessionStarted` | connect, disconnect, `Start!` | tells clients where the game server is | arrivals before and after the start; one-shot datagrams | pointers live; nobody in the lobby untold; the session starts |
| lobby-dots game server (`game_server.cpp`) | `players`, `next_id` | connect, disconnect, `POS`, three broadcasts | unsequenced lists, positions, pings | lists and positions overtaking each other, handle reuse | one player per session; clients converge to the roster |
| lobby-dots client (`client.cpp`) | lobby and game connection, `players`, `myPlayerId` | retry, Enter, connect to the game, messages | both servers | late, repeated `WELCOME`; reconnects | takes itself only for a player it has been |
| entity-eater server and client | entities and scores, `controlled_map`, clock; a copy of it per client | join, input, tick, collision, verdict | one reliable ordered channel per session, unreliable snapshots | joins racing broadcasts, lost sessions, end of the game racing bites | leaderboards exact up to transit, control exclusive, verdict agrees with leaderboard |
| projectile-arena server and client | `players` by handle, `projectiles`, ids, tick; last snapshot per client | join, input, fire, hits, snapshot | reliable join and welcome, unsequenced fire, unreliable snapshots | old snapshots after new ones, welcome after or before them, handle reuse | live handles, own player visible, damage paid for, world does not move back unnoticed |
| thread-pool demo (`simple-examples/thread-pool-demo`) | results, latch, owner queue on the main thread's stack | submit, count down, post, wait, stop, drain, check | threads | rejected submissions, posts that fail, a worker still in the latch after the wait | the wait ends, nothing outlives `Stop`, the self-check is right |
| prediction-ships server and client | entities, frames, accumulated time; snapshot and input history | join, input, fixed steps, snapshots, reconciliation | reliable ids, unreliable snapshots and input | frame matching against a history that is pruned | ids distinct, frames monotone, history matches |
| ship-swarm server and client | entities and AI, `controlled_map`; per client a vector of ships, `index_map`, `my_entity`, two bandwidth windows | join, input, world step, snapshot; connection attempts; bandwidth display | as above, inputs and snapshots in packed floats without a number | old snapshots and inputs after new ones, packed floats with no code for 0, ships told twice, addresses that do not answer | ships do what their players press; each ship once, where the map says; pictures converge; a client gets to steer |
| network bench (`network-bench`) | per-stream sequence, counters, deadline schedule | paced sending, echo, stats, sharded server | reliable and unreliable streams | counters across shards, echo outside the lock, catching up with missed deadlines | counters conserved, schedule neither stalls nor bursts |
| socket helpers (`common/socketwire_example_utils.hpp`) | index of the next address | read a port, bind, resolve, connect to the next address | used by every program | address rotated while a handshake is under way | every address is tried, the one that answers is found |
| benchmark metrics (`common/benchmark_utils.hpp`) | options, `measuring_`, times, counters, the file | parse the options; record, sample, finish | called by the raylib programs; `ActiveCollector` | measurement that starts with whatever call comes first, last partial sample, finish twice | every event after the warm-up counted once, lines in time |
| message demos, websocket demo, library tours | a script's position | send, receive, print | one connection | see section 7 | the demo ends with its verdict |

`PROJECT.json` lists the components with their status and every hazard at the
line where it bites, with the property that would catch it, or why none does.

## 2. The modules

| Module | Models | On top of |
| --- | --- | --- |
| `SessionRegistry` | abstract: what a server relies on when it keeps a `Client*` | |
| `ServerConnectionHub` | the hub; implements `SessionRegistry` | |
| `MatchMaking` | abstract: waiting, matched, decided once | |
| `MathDuel` | the math-duel server; implements `MatchMaking` | |
| `LobbyDots` | the lobby and the lobby half of its client | `SessionRegistry` |
| `DotsGame` | the game server and the game half of the client | `SessionRegistry` |
| `EntityEater` | entity-eater, server and clients | `SessionRegistry` |
| `ProjectileArena` | projectile-arena, server and clients | `SessionRegistry` |
| `PredictionShips` | prediction-ships, server and clients | `SessionRegistry` |
| `Reconciliation` | operators: how its client corrects its own ship by replaying inputs | |
| `Quantisation` | operators: the packed floats of ship-swarm and the messages made of them | |
| `ShipSwarm` | ship-swarm, server and clients, with the attempts of `ConnectNextAddress` | `SessionRegistry`, `Quantisation` |
| `CommandLine` | operators: the options of every raylib program, the host and port of ship-swarm | |
| `MetricsCollector` | operators: the collector after each call it is given | `CommandLine` |
| `SwarmClientLoop` | the main loop of the ship-swarm client with its collector and bandwidth display | `MetricsCollector` |
| `NetworkBench` | the bench client and both servers of network-bench | |
| `ThreadPoolDemo` | the two demos with their workers | |
| `OperatorProofs` | theorems: sequences, sets of numbers, the packed floats | `Quantisation` |
| `SimpleExamplesAndBenchProofs` | theorems about the math-duel server, the thread-pool demo and the network bench | `MathDuel`, `ThreadPoolDemo`, `NetworkBench`, `OperatorProofs` |
| `CommonProofs` | theorems about what `common/` gives the programs | `ServerConnectionHub`, `SwarmClientLoop`, `OperatorProofs` |
| `LobbyDotsProofs`, `EntityEaterProofs`, `ProjectileArenaProofs`, `PredictionShipsProofs`, `ShipSwarmProofs` | theorems | the module of that name, `OperatorProofs`; `LobbyDotsProofs` extends `DotsGame` too |
| `MC...` | the instances TLC checks | the module of that name |

The composition is by layers. The hub is modelled alone, with every record, map
entry and address, and shown (by TLC and by proof) to implement the registry of
sessions. The game servers are then modelled on the registry (`EXTENDS
SessionRegistry`): `OpenSession` and `CloseSession` are what the hub's connected
and disconnected callbacks tell them. A handle that is free may be handed out
again at once, to anybody, as the allocator may; that is where the stale-pointer
hazards of the servers come from.

Each `VARIABLE` names the field or local it stands for, and each action the
handler; `PROJECT.json` ("map") gives the lines. Variables marked *history* exist
for the properties only, those marked *network* are the messages under way.
Operators whose comment begins with *Fault:* are not part of any specification:
each is a plausible bug of the definition that follows it, kept so that a
property can be seen to catch it.

### ServerConnectionHub

A record's address is a `Pointer`. `Poll` is one action per packet (accept of a
new endpoint, refusal, a connect packet that revives a record closed since the
last `Update`, a disconnect) and `PollDone`; `Update` visits every record
(`UpdateTimeout`, `UpdateQuiet`) and then `UpdateErase` frees the closed ones
and erases their keys. `sessions` is what the application has been told.
`OnTimeout` and `OnDisconnected` of one timeout both call the application's
callback, one right after the other. The hub keeps nothing of the calls, so `sessions`
has both as one, and nothing said of the hub or the registry is about the second call.
What it does is modelled where an application acts on it by position: `LobbyDots` and
`DotsGame` erase from their lists once or twice. The other servers erase by key or
clear fields, with the same outcome the second time.

### MathDuel

`HandlePacket` registers the sender first and then reads the text: `/mathduel`
(`RefuseMathduel`, `WaitForOpponent`, `MeetOpponent`, `ReplaceInQueue`), `/ans`
(`AnswerRight`, `AnswerWrong`, `AnswerOutsideDuel`) or anything else. There is no
network variable: UDP and a person typing can produce any datagram at any time,
so every handler is always enabled. The arithmetic problem is reduced to its
answer. `DrainServerSocket`'s loop has no state.

### LobbyDots and DotsGame

`LobbyDots` has the lobby's three callbacks and the client's lobby handler and
loop: connect retries, Enter, `GAMESERVER`, opening the game connection, failing
to, losing it. `Start!` and `GAMESERVER` are unsequenced datagrams: lost,
repeated, late. `DotsGame` has the roster and all broadcasts; a datagram carries
the ids it tells of. Coordinates are reduced to who set them last, ping values
to their presence, and the client's connected flag is left out (a client that is
not connected for a while receives later).

### EntityEater

One reliable ordered channel per session carries new entities, control, scores
and the verdict, and dies with the session. Positions, sizes and unreliable
snapshots are left out, so any two entities may collide at any time; a bite
gives up to `MaxGain` points. `SendReliable` to an open session is assumed to
succeed: the code ignores a refusal, which is recorded as a hazard.

### ProjectileArena

Players by handle, projectiles by the number of their shot, the damage of a pass
over all hits. A snapshot is its tick and the health of each player; the network
keeps every snapshot a client was ever sent, and the client may receive any of
them, in any order, any number of times, or never. Movement is left out, so in a
pass any projectile may hit any player but its owner, or leave the arena.

### PredictionShips

Where a ship is, is abstracted to *when* the server had it there: a snapshot is an
id, a frame and a moment, and a place between two snapshots is the moment between
them. So the client's history (insertion with its sort, pruning from the front,
the three cases of the interpolation) is modelled as written, and what it draws
can be compared with the clock. One clock serves all processes, as on one
machine. Left out: the inputs, the correction that replays them and the server's
time message, since what they compute is overwritten before it is drawn (see
`PredictionIsDrawn`); the correction is in `Reconciliation`. `Seen` names the client and the ship whose snapshots arrive;
all others are lost, which unreliable delivery allows.

### Reconciliation

The client of prediction-ships as a record (ship, frame counter, inputs, states,
last snapshot of its own ship, pending correction) and its two handlers as
operators on it, along one axis, without the edge of the world. Two statements
about them are assumptions of `MCPredictionShips`, which TLC evaluates on every
history of three inputs from four places: a correction from the newest snapshot
heard of puts the ship where the server's will be (`CorrectionIsExact`), and one
from an older snapshot that arrives late may not (`OlderSnapshotMisleads`): nothing
in `OnSnapshot` compares frame numbers, and the inputs since are gone. Both take
it that client and server count frames alike; in the code they are started apart
and inputs carry no frame, which is a listed hazard.

### Quantisation and ShipSwarm

A float is an integer in some unit and an unpacked float is told in units of
1/range of it, so both are exact and the truncation of `PackFloat` is a `\div`.
What they keep is proved (`OperatorProofs`), and for the messages of a snapshot
with their widths TLC evaluates it, as assumptions of `MCShipSwarm`: a place comes
back less than one step below where it was, one outside the world at its edge.

`ShipSwarm` has both sides. On the server `OnJoin`, `OnInput`, `SimulateWorld`
with its broadcast and the disconnect callback, which frees the ship but leaves it
its last input; on the client the connection attempts, the join sent once in its
life, the vector of ships with its map, and the inputs. Reliable messages are a
queue per session that dies with it; inputs and snapshots are sets, of which any
may arrive at any time, again, or never. The session begins on both sides at
once, and ends on the server's; the client may learn of that late or not at all.
A position is the number of moves of the world it was sent after (`world`): that
is what tells an old snapshot from a new one. The AI's pedals, the physics and
the server's time are left out. Every pass of the server sends every ship, moved
or not, which is what `PictureConverges` rests on.

### CommandLine, MetricsCollector and SwarmClientLoop

`CommandLine` has the two scanners of a command line, that of
`benchmark_utils.hpp` (a recursive function, the state after each argument) and
that of the ship-swarm client (a fold over the arguments), and how options, environment and positionals make an endpoint. The
assumptions of `MCSwarmClientLoop` compare them over all command lines of up to
four arguments (`ScannersAgree`: both take the same arguments for values;
`ParsersAgree`), with the forms the examples' README documents
(`DocumentedForms`), and check that an endpoint is always usable.

`MetricsCollector` gives the collector after each call at a moment `t`. A line keeps
what it counts. The bandwidth display is modelled up to the number of bytes
`GetDeltaData` finds; what `DrawWorld` makes of it is in section 3. `SwarmClientLoop` is `main` of the ship-swarm client, one action per
call that looks at the clock, with a `Tick` between any two. With `--bench` it runs
for the time given, without it `MaxPasses` passes or until the window is closed.
Received packets only count; `ShipSwarm` has what they say.

### NetworkBench

The client's loop has two steps, because it looks at the clock twice:
`ResetStreams` (drain, look, reset the streams once measuring has begun) and
`SendDue` (look again, send up to a burst of what each stream is due). A payload
is its header, and what is under way is a bag of headers: how many there are is
all the counters tell. `sharded` is chosen in `BenchInit`; the callback of the server
of one thread is one action, that of a shard is three (echo, lock and count what
was received, count what was sent and unlock), with the main thread's samples
and last line in between if the lock is free. A line is written from
`server_stats` as it is when `lastSample` or `main_loop` changes. Left out:
contents, checksums and byte counts of payloads, timings, the transport's
statistics, connection attempts.

### ThreadPoolDemo

The main thread (submit, wait, stop, drain, check) and the workers of the pool.
The pool may refuse a task, the owner queue may refuse a closure. Both demos,
with and without the owner queue, are the same module: a task works low-level
(writes its result and counts down) or high-level (posts a closure). The main thread
may wake up from the latch as soon as it is down, while the worker that counted is
still in `count_down()` (at "leave"): that the latch outlives it is the work of `Stop`,
which waits for the workers, and the properties say what holds between the two.

## 3. The runs

| Run | Question | Instance and why it is enough |
| --- | --- | --- |
| `math_duel` | Do queue, duels and results stay consistent under any datagrams, and does the server implement `MatchMaking`? | 4 clients (two duels open at once), 3 duels (someone plays again), 2 answers (right and wrong); symmetric in the clients, which no formula names |
| `connection_hub` | Do list, map and callbacks agree, does the hub implement `SessionRegistry`, are closed records erased? | 3 endpoints, 4 addresses: a freed address is reused by another endpoint while others live |
| `lobby_dots` | Are the lobby's pointers live, is everybody told, does Enter start the session? | 2 players, 3 handles: each can come back at its old handle, the other's, or a fresh one |
| `dots_game` | One player per session, own identity, convergence of the lists | 2 clients, 2 ids, 2 handles, 2 datagrams in flight to each: enough for one to overtake another and for a client to return under the other's handle |
| `entity_eater` | Are leaderboards exact, control exclusive, verdict and leaderboard in agreement? | 2 players, 1 AI entity, a clock of 1 s, 2 bites of up to 1 point: someone with points can be eaten, before or after the end |
| `projectile_arena` | Live handles, own player visible, damage paid for, health only falls unless the reordering was noticed | 2 clients, 2 handles, health 3, damage 2, 2 shots (more damage than health), 3 snapshots (an older one arrives after a newer one) |
| `prediction_ships` | Are ids and control exclusive, does everybody who has joined hear of every ship, does a ship ever move back in time? | 2 clients, 2 handles, ids of two bits' worth (0, 1, none), a moment of 200 ms, 5 moments, 3 frames, a history of 3: one frame arrives late and one is pruned; the snapshots of the first ship reach the first client, whose own it is in some behaviours and not in others |
| `prediction_ships_drawn` | Is the predicted ship drawn, as the README of the examples says? It is not | the same |
| `network_bench` | Is no client faster than its profile, do the counters of both sides and every line add up? | 2 clients (two shards and the main thread at one lock), a stream of one mode and the stream whose modes take turns, bursts of 2, 4 moments of which 2 are measured; the server counts one echo while another is in hand; one payload refused or one connection lost |
| `thread_pool_demo` | Does the demo return, is every task through after the wait and every worker idle after `Stop`, is the self-check right? | 4 tasks, 2 workers: a task waits while both are busy, and one worker may take the last task while the other leaves |
| `swarm_client` | Is the difference the bandwidth display takes the bytes of the window, do the lines of the metrics account for what happened and when? | a moment is half a second, samples two moments apart, a window of 2, frames of 0 to 3 (longer than the window), counters of 3 values that wrap, 3 packets, 4 passes without `--bench` and 6 moments with it; started with a window, with samples from the start or after a warm-up, and with a summary |
| `ship_swarm` | Does a ship do what its own player presses, has a picture each ship once and where it is at last, does a client get to steer? | 2 clients, 2 handles, an AI ship, ids of 0 to 2, a host of three addresses (refused, silent, the server's), one input with a 0 and a -1, one move of the world; the first client may lose sessions and its handle go to the other; the snapshots of the AI ship reach it |

Every bound is a named constant (`MaxDuels`, `MaxId`, `MaxInFlight`, `MaxBites`,
`MaxGain`, `MaxShots`, `MaxTicks`,
`MaxTime`, `MaxFrames`, `MaxHistory`, `MaxEchoes`, `MaxFaults`, `MaxPackets`,
`MaxPasses`, `MaxWorld`, `Leaving`) that appears as a guard and nowhere else (and in
the type invariant). The exception is `MaxInFlight`: datagrams of `DotsGame` that would
exceed it are lost when they are sent, as unsequenced datagrams may be. `Seen` selects messages that are not lost, `Inputs` what players
press, `FrameTimes` what a frame may take.
Each property of a passing run has a mutant in `PROJECT.json`: a named fault,
put in place of a definition, under which TLC finds the property violated.

Runs of a program that ends (`network_bench`, `swarm_client`) do not check for
deadlock. A property of two parts, such as `DuelsAreExclusive`, `AccountsAgree`,
`EverybodyIsTold`, `PlayersAreTheirs`, `FleetIsAgreed`, `StopIsComplete`, `ScoresAreTrue`,
`ScreensCatchUp` or `LinesAreTrue`, is the conjunction of definitions that each say one
thing; its comment and theirs say what.

### Where texts and code disagree

* `PredictionIsDrawn`, which the run `prediction_ships_drawn` refutes:
  `raylib-examples/README.md:11` promises client prediction.
  `prediction-ships/main.cpp:457` steps the client's own ship, and then
  `ProcessSnapshotHistory` (`main.cpp:464`, the loop at 136) puts every ship with a
  history where a snapshot had it 200 ms ago, the client's own not excepted.

The others need no run, since one line shows them:

* The bandwidth of the ship-swarm client (`ship-swarm/main.cpp:286-291`) is a number of
  bytes divided by 1024, under the label "kbit/s". With the window of one second it is
  kilobytes a second, an eighth of the rate it names: nothing multiplies by 8. What
  `DeltaIsOfTheWindow` says is about the bytes. It also says from where they are
  counted: from the first pass no older than the window, which after a frame longer
  than the window is the last one, and then the display shows 0 whatever came in.
* `raylib-examples/README.md:13` speaks of reliable fire events, and
  `projectile-arena/client.cpp:289` sends each shot once with `SendUnsequenced`. A
  shot may be lost, or taken twice; no property says otherwise.
* `raylib-examples/README.md:65` tells the player to press Enter to start the game
  session, and the lobby sends the address of the game server once per session of a
  player, unsequenced (`lobby.cpp:106`).

## 4. Fairness

Liveness is checked under no more than this:

* `ServerConnectionHub`: weak fairness of leaving `Poll`, of visiting each record
  and of the erasure. The loop of every server calls `Poll` and `Update` for
  ever, and `Update` has no early exit. That the socket is drained at last is an
  assumption on the load; the code does not bound `Poll` (a listed hazard).
* `LobbyDots`: weak fairness of pressing Enter (the property is about a player
  who does it again and again) and strong fairness of receiving `Start!`: a
  datagram that is sent again and again gets through.
* `DotsGame`: weak fairness of the 500 ms timer, strong fairness of receiving the
  current list. Nothing is assumed of positions and welcomes.
* `ShipSwarm`: weak fairness of the loops (the server's pass, the client's attempts
  to connect and its join) and of the delivery of joins and of reliable messages,
  which the library repeats until they arrive; strong fairness of the handshake and
  of the newest snapshot of a ship, which is sent in every pass; and weak fairness
  of losing a snapshot that is not the newest, since no datagram is under way for
  ever. Nothing is assumed of inputs, of sessions ending or of a client's learning
  of it. The handshake is only fair at the address being tried: `trying` moves on
  every 250 ms, so it is strong fairness that says that some attempt gets through.
* `ThreadPoolDemo`: weak fairness of the main thread and of each worker, which
  the operating system provides.

## 5. What is proved

TLAPS checks the following for every value of the constants, from the
assumptions named in the modules: bounds are natural numbers
(`MaxDuelsAssumption`, `BoundsAssumption`, `EaterAssumption`, `TaskAssumption`,
`LoopAssumption`), a sample takes time (`CollectorAssumption`), what a text stands
for is a number (`CommandLineAssumption`), the null pointer is not
the address of a record (`NullAssumption`, `NoClientAssumption`), the
invalid id is not 0 and one address of ship-swarm's host answers (`SwarmAssumption`). Two theorems need
that there are finitely many clients: `ArenaAssumption` says so, since the arena
hands out an id per join out of as many as there are clients, and `EnoughIds` is a
hypothesis of the theorems about `ShipSwarm` and `PredictionShips`: their servers never
take an id back, so sixteen bits must be enough for the server's own ships and one join
of each client. The code
does not check it: beyond 65535 joins the counter comes round to
`kInvalidEntity` and to ids in use, and the theorems say nothing.

Each state property is proved along the same line: an inductive invariant `IInv`
(a conjunction of named parts, each with a comment), `Init => IInv`, one lemma per
action that it is kept, and the property as a consequence. TLC found each `IInv` true
on the instance of the component's run before it was proved.

`SimpleExamplesAndBenchProofs`, about `MathDuel`: `TypeOK`, `QueuedClientIsFree` and
`OneDuelPerClient` (together `DuelsAreExclusive`), `OneWinnerPerDuel`,
`PlayersSawTheProblem`; and
`Spec => ImplementsMatchMaking`. The inductive invariant is the conjunction of
the five. None is inductive alone: a match keeps `OneDuelPerClient` only because
the popped client is not playing (`QueuedClientIsFree`); a right answer keeps
`QueuedClientIsFree` and closes *the* duel of its sender only because there is
one (`OneDuelPerClient`); it has one winner because the duel it closes had been
open, which `OneWinnerPerDuel` ties to not having been announced. The lemmas give
the effect of the two packets that change a duel (`MeetOpponentEffect`,
`AnswerRightEffect`), then one lemma per action. The refinement maps each action
to the abstract one or to a stutter; it needs the invariant because the abstract
set of matches would hide two open duels between the same two players.

`CommonProofs`, about `ServerConnectionHub`: `TypeOK`,
`MapAndListAgree` and `SessionsAreLive` (together `AccountsAgree`); and
`Spec => ImplementsRegistry`. The
inductive invariant is again their conjunction: the erasure by key is right only
if every record is found under its own key, and `SessionsAreLive` needs to know
that a found record is a live one. The refinement turns on the mapping's
`clientMap_[e] \in sessions`: an endpoint's session is the record the map finds,
if the application knows of it.

The same module proves `LoopTypeOK`, `DeltaIsOfTheWindow` and `LinesAreTrue` of
`SwarmClientLoop`. The invariant `LoopInv` has two halves that share only the loop's
stage. For the bandwidth, the entries of the window are the last passes, with their
totals cut to the counter's width, and exactly those not older than the window
(`Windowed`); they are in order of time, though several may be of one moment, so
erasing from the front erases all that are too old (`ErasedEntries`); and the number
of bytes is right because a difference of two
remainders, cut again, is the difference of the numbers (`CutDifference`). For the
lines, the collector's counters and the sums over its lines together follow what has
happened after the warm-up (`LinesAddUp`), which needs to be known between any two
calls: whether the measurement has begun, that its moments are in order and that the
last line is of the moment of the last sample (`Collected`), and when the game's
metrics are those of the moment (`GameIsSet`). No line is written in the call that
begins the measurement, because a sample takes time. The sum over the lines and the scan
of the command line are recursive functions; `SumExists` and `ScanExists` show that
their equations have a solution, `SumAppended` what a line adds.

`LobbyDotsProofs`: `TypeOK` and `EverybodyIsTold`. The list the lobby goes through
holds the handle of each open session once and no other (`HandlesAreOpen`), and since
the start the players told are exactly those of the open sessions (`ToldIsExact`); a
handle is freed and handed out again without harm because no two open sessions share
one. `Erase`, which removes by value, is a recursive function: `EraseRecursion` shows
that its defining equation has a solution, `ErasedElements` what is left.

The same module proves `GameTypeOK` and `PlayersAreTheirs` of `DotsGame`, the program
the lobby sends its players to. The two servers have a hub each; the module states
nothing of both at once, and in the theorems about `GameSpec` `session` stands for the
sessions of the game. That one session has one player is not inductive without the
registry's promise that open sessions never share a handle (`SessionsAreDistinct`):
with it, removing the first player of a handle that is given up removes the only one
(`PlayerIsErased`), and a second call for the same handle finds none. The lobby's list
is likewise shown exact whether its callback comes once or twice. A client takes
itself only for a player it has been because a welcome, however late, names an id
that was handed out to its receiver (`IdsAreHandedOut`), and an id is handed out once.
The invariant `GameInv` is proved in three parts that disturb each other little: the
server's (`Roster`), what is in flight (`Messages`) and the `Clients`.

`EntityEaterProofs` has two layers. `IInv` gives `TypeOK` and `ControlIsExclusive`:
what a client controls it was told to control, in a message it has read or will
read, so exclusiveness must be stated of all that has been *given*, read or under
way (`GivenOnce`), and a client is given one entity because its one join is handled
once (`OneJoin`). On top of it `SInv` gives `ScoresAreTrue`, that is
`LeaderboardIsExact` and, as a property of steps, `VerdictMatchesLeaderboard`. Its
first part (`Exact`) says of each client in its first session that its copy, once it
has read all that is on its way, is the server's scores, and complete if it has
joined; that holds through the list a join is sent followed by the entity that is
new, and through two score updates per bite (`ListingIsLearnt`, `TwoAreRead`). The
verdict needs more: whenever a `GameOver` will be read, the copy *as it will be then*
must confirm it, whatever has been sent after it (`Verdicts`). The copy after each
message of a channel is a recursive function, `Reading`; `ReadingOn` and
`ReadingTheRest` say how it goes on when something is sent or read.

`ProjectileArenaProofs`: `TypeOK`, `RosterIsSafe`, `OwnPlayerIsShown`, `DamageIsPaid`
and, as a property of steps, `HealthOnlyFalls`. For the client's own player the
invariant follows the id from the welcome under way to the client and into every
snapshot the client was ever sent (`IdsAreShown`); before a join there is none
(`NothingBefore`). For the last, `HealthIsSpent` says that who is in a snapshot had
no less health than now, and `MoreHealthIsOlder` compares any two snapshots sent to
one client. `DamageIsPaid` claims an assignment of spent projectiles to the health
that is missing; a pass over the hits extends the one there was.

`ShipSwarmProofs`, for `EnoughIds`: `TypeOK`, `SteeringIsOnesOwn` and
`PicturesAreTheirs`. The server obeys an input for whatever ship it names: the
safety is in the client and in the ids, which are given to one client for ever
(`Owners`). So every input under way names a ship of its sender and holds what it
pressed (`InputsAreOwn`), every control message is the owner's (`Channels`), and what
is packed comes back (`OperatorProofs!InputComesBack`). For the picture, vector and
map must agree at each step of a message that adds a ship (`Pictures`).

`PredictionShipsProofs`, for `EnoughIds`: `TypeOK`, `FleetIsAgreed` and, as a property of
steps, `ShownTimeNeverRunsBack`. Ids are counted, so a ship that has joined has one of
the first, and nobody else's (`IdsAreCounted`); a client hears of each ship and of its
control through one ordered channel, so what it will know once all is read, and in
which order, is what must be stated (`Channels`, `Controls`). Then `Fleet` says that who
has joined and kept its session is on its way to know every ship. For the drawing, the
history of a ship is sorted by frame, and a later frame was taken at a later moment
(`Times`, `Histories`); what is drawn lies between two moments of it, and insertion,
pruning and interpolation each leave the place drawn where it was or later (`Drawn`).
It may run back only while the ship is drawn ahead of the moment aimed at, which the
property excepts: a client that has heard of newer snapshots only shows the oldest of
them.

`SimpleExamplesAndBenchProofs`, about `ThreadPoolDemo`: `DemoTypeOK` and `StopIsComplete`, for any number of tasks and
any set of workers. The invariant says where each task is: in one place at a time
(`OnePlaceEach`), written once (`WritersAreRight`); the latch counts exactly the
tasks nobody has counted down (`LatchCounts`), so past the wait no worker has more to
do than to leave its closure, and past `Stop` none has that (`PastTheLatch`); and none is missing precisely if
neither a submission nor a post has failed (`NoneIsMissing`), which is what the
self-check concludes from its counters.

`SimpleExamplesAndBenchProofs`, about `NetworkBench`: `BenchTypeOK`, `PacingIsKept`
and `CountersAddUp`, for any finite set of clients, any intervals, burst and times.
`BenchTypeOK` needs that the counter of the deadline modes is cut off to its width and that whoever holds the
lock has an echo to count. `PacingIsKept` says nothing of the clock's marks, so its
invariant does (`Pace`): the payloads a client has numbered are those of its streams
(`Numbered`), and a stream whose marks have been reset has sent one for every interval
between the start of measuring and its mark, and at most a burst besides, while the mark
is at most one interval ahead of the clock (`Paced`). Before the reset a client has sent
in one pass at most (`OnePassBefore`), so a burst of each stream. That the marks move by
as many intervals as payloads are sent rests on a pass sending, of each stream, the
first few without a gap (`DueInOrder`). For the turns of the deadline modes (`Turns`) the payloads
of the fifth stream ever numbered are a finite set of pairs, a client and a number
(`Given`), whose turn is the number modulo four; that the counter is cut off does not
change a turn, for its range is a multiple of four (`CutCounter`). A payload of one turn
is followed, of the same client, by one of any other turn within four numbers, or else
is among that client's last (`RoundsAreFair`), and a payload that is not sent is a
failure: hence the bound by clients and failures, from a map of one turn's payloads to
another's that sends no two to the same, without a sum over clients.

`CountersAddUp` compares sums over modes and clients, and its invariant (`Counters`)
says what the sums are of. Every payload a client has numbered is counted as sent, in
its bucket, or as a failure (`NumbersAddUp`). What the server has received is what it has
sent back and failed to, and one more exactly while a shard holds the lock between its
two counts (`EchoesAddUp`); so whoever takes the lock to write a line finds them equal.
For a mode whose payloads arrive once, those received and those on their way or in a
shard's hand are no more than were sent (`ReceivedOnce`), and the same of the way back,
less the echoes sent and not yet counted (`ReturnedOnce`). That a step moves one unit
between the terms, or a pass of the clients a payload for each one due, needs the value
of the fold `SumFunction` for any finite domain: `SumsExist` and `SumIs` give it, by an
induction over the number of elements (`AllNumbers` of `OperatorProofs`), `SumChanges`
and `SumOfTwo` say what a change and an addition do to it, and `SumOfCounts` that the
elements of a set, counted by a key, are all counted.

`OperatorProofs`: the inputs -1, 0 and 1 come back exactly (`InputComesBack`, from
the three codes they are packed to); a packed float comes back no higher than it was
and less than a step lower, for every interval and number of bits
(`ErrorIsBelowAStep`, from the division that cuts off); `TileVal` puts a ship that is
out by no more than the world's width back into it (`ShipStaysInTheWorld`). All three
are about exact arithmetic: the rounding of `float` is outside the model. The other
lemmas are what the components share: the elements and the distinctness of a
sequence that is appended to, taken from or joined, and two facts that stand in for
induction. The library's induction theorems take an operator as a parameter, which
the provers cannot instantiate; but well-foundedness can be stated of a *set*:
every set of numbers that is not empty has a least one (`LeastNumber`), and so one
that holds 0 and, with a number, the next, holds all (`AllNumbers`). An induction is
a proof about the set of numbers for which the claim holds.

## 6. What is only model-checked

* Liveness under fairness (`ClosedIsReaped`, `EnterStartsTheSession`,
  `ScreensCatchUp`, `Returns`, `PictureConverges`, `ClientComesToSteer`) and
  anything with `ENABLED`: out of the prover's reach.
* What is evaluated as assumptions of the MC modules: the replay of
  `Reconciliation`, the messages of `Quantisation`, the scanners of `CommandLine`.
* No module declares a `RECURSIVE` operator, so that theorems remain possible in
  each.

## 7. What is not modelled, and why

* The library: not in the repository. Of `ReliableConnection` the models take
  that a session begins with at most one accepted connect, that reliable
  messages arrive once and in order while it lasts, that unreliable and
  unsequenced ones may be lost, repeated and overtaken, and that a timeout may
  be told twice.
* Rendering, input devices, positions, velocities, colours, float arithmetic.
* CSV and JSON writers, log lines, the command lines of the programs that are not
  in `CommandLine`: formatting.
* `CreateUdpSocket` and `ResolveEndpoint`: system calls; of an address the models
  take that it refuses, stays silent or answers.
* The AI of ship-swarm's server, which steers by positions.
* `channels-demo`, `packet-stream`, `large-message-demo`, `echo`, header and
  bitstream demos, `crypto-handshake-demo`, `address-demo`: a fixed script over one
  connection of the library, or straight-line calls of it.
* Integer widths: ids of 16 bits wrap in `PredictionShips` and `ShipSwarm`, whose
  width is a constant, and byte counters in `SwarmClientLoop`. In `DotsGame`,
  `EntityEater` and `ProjectileArena` ids are counted without wrapping: a wrap needs
  65535 joins or shots, after which ids name somebody else.

## 8. Plan

Done, in this order, the most central first: `MathDuel` with `MatchMaking` and its
proofs; `SessionRegistry`, `ServerConnectionHub` and their proofs; `LobbyDots`;
`DotsGame`; `EntityEater`; `ProjectileArena`; `PredictionShips`; `NetworkBench`;
`ThreadPoolDemo`; `CommandLine`, `MetricsCollector` and `SwarmClientLoop`;
`Quantisation` and `ShipSwarm`; `Reconciliation`.

Proved since: the type invariant, the safety invariants and the safety properties of
steps of every module that has a run (section 5).

The websocket client (`Tick`, `DrainIncoming`, `Finish`) and the window of
`stats-window-demo` are small and might follow.
