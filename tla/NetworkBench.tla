---------------------------- MODULE NetworkBench ----------------------------
(***************************************************************************)
(* The network bench: one process of clients that send payloads at the     *)
(* rates of a profile, and a server that echoes them, in one thread or in  *)
(* several that share the counters under a lock (chosen in BenchInit).     *)
(*                                                                         *)
(* A payload is its header; what counts is how many there are.  Contents,  *)
(* sizes, timings of updates and the transport's statistics are left out.  *)
(* The sharded server serves each client in a thread of its own, which is  *)
(* the most that can happen at a time.                                     *)
(***************************************************************************)
EXTENDS Integers, FiniteSets, FiniteSetsExt, Functions, Bags

CONSTANTS
  BenchClient,
  Nobody,       \* who holds the lock when it is free; not a client
  Interval,     \* of each stream of the profile, 0: the stream is off
  MaxBurst,     \* the most a stream sends in one pass
  ModeCounter,  \* the numbers nextDeadlineMode has
  Warmup, Duration, DrainTime,
  SampleTime,   \* between two samples
  ClientStart,  \* how much later than the server the clients are started
  MaxTime,      \* bound of the model: the last moment of the clock
  MaxEchoes,    \* bound of the model: payloads either side receives
  MaxFaults     \* bound of the model: payloads the clients cannot send and
                \* connections they lose

Stream == 1..5
DeliveryMode == 1..8
Bucket == 0..7
kData == 1
kEcho == 2
kReliable == 1
DeadlineModes == 5..8

\* The modes whose payloads arrive at most once.
OnceModes == {1, 5}

ASSUME BenchAssumption ==
  /\ IsFiniteSet(BenchClient) /\ Nobody \notin BenchClient
  /\ Interval \in [Stream -> Nat]
  /\ MaxBurst \in Nat \ {0}
  /\ ModeCounter \in Nat \ {0} /\ ModeCounter % 4 = 0
  /\ {Warmup, Duration, DrainTime, ClientStart, MaxEchoes, MaxFaults} \subseteq Nat
  /\ {SampleTime, MaxTime} \subseteq Nat \ {0}
  /\ ClientStart <= MaxTime

VARIABLES
  now,                   \* Clock
  sharded,               \* options.serverWorkers > 1
  loop,                  \* clients: where their loop is
  reset_at_measurement,  \* clients
  connected,             \* clients: handler.connected
  losses,                \* history: how many connections have been lost
  streams,               \* clients: nextUs of each stream
  nextSequence,          \* clients
  nextDeadlineMode,      \* clients
  client_stats,          \* clients: one AppStats for all of them
  server_stats,          \* server
  stats_mutex,           \* server: the client whose thread holds it
  echo,                  \* server: per client, what SendEcho has returned
  main_loop,             \* server: running, finished, stopped
  lastSample,            \* server: when it has last written a line
  toServer, toClient     \* network: the payloads under way, per client

sends == <<streams, nextSequence, nextDeadlineMode>>
bench == <<loop, reset_at_measurement, sends, client_stats>>
links == <<connected, losses>>
lines == <<main_loop, lastSample>>
counting == <<server_stats, stats_mutex, echo>>
benchVars == <<now, sharded, bench, links, counting, lines, toServer,
          toClient>>

NoEcho == [header |-> "none"]

AppStats == [sent |-> [b \in Bucket |-> 0], echoed |-> [b \in Bucket |-> 0],
             sendFailures |-> 0, malformedPackets |-> 0]

BenchInit ==
  /\ now = ClientStart
  /\ sharded \in BOOLEAN
  /\ loop = "drain"
  /\ reset_at_measurement = FALSE
  /\ connected = {}
  /\ losses = 0
  /\ streams = [c \in BenchClient |-> [i \in Stream |-> ClientStart]]
  /\ nextSequence = [c \in BenchClient |-> 0]
  /\ nextDeadlineMode = [c \in BenchClient |-> 0]
  /\ client_stats = AppStats
  /\ server_stats = AppStats
  /\ stats_mutex = Nobody
  /\ echo = [c \in BenchClient |-> NoEcho]
  /\ main_loop = "running"
  /\ lastSample = 0
  /\ toServer = [c \in BenchClient |-> EmptyBag]
  /\ toClient = [c \in BenchClient |-> EmptyBag]

-----------------------------------------------------------------------------
(* Payloads and counters *)

BucketForMode(mode) == mode - 1

ChannelForMode(mode) == mode - 1

MakePayload(kind, mode) ==
  [kind |-> kind, mode |-> mode, channel |-> ChannelForMode(mode)]

ParseHeader(header) ==
  /\ header.kind \in {kData, kEcho}
  /\ header.mode \in DeliveryMode
  /\ header.channel = ChannelForMode(header.mode)

NoteSent(stats, mode) == [stats EXCEPT !.sent[BucketForMode(mode)] = @ + 1]

NoteEchoed(stats, mode) == [stats EXCEPT !.echoed[BucketForMode(mode)] = @ + 1]

NoteFailures(stats, n) == [stats EXCEPT !.sendFailures = @ + n]

NoteMalformed(stats) == [stats EXCEPT !.malformedPackets = @ + 1]

\* What is under way once a payload has arrived: one that is not reliable may
\* arrive again.
Arrived(bag, header) ==
  IF header.mode \in OnceModes THEN bag (-) SetToBag({header}) ELSE bag

Received(stats) == SumFunction(stats.echoed)

-----------------------------------------------------------------------------
(* The clients *)

Elapsed == now - ClientStart

Measuring == Warmup <= Elapsed /\ Elapsed < Warmup + Duration

ClientsDone == Elapsed >= Warmup + Duration + DrainTime

\* DrainSocket, of one packet.
Receive(c, header) ==
  /\ loop = "drain"
  /\ c \in connected
  /\ BagIn(header, toClient[c])
  /\ Received(client_stats) < MaxEchoes
  /\ toClient' = [toClient EXCEPT ![c] = Arrived(@, header)]
  /\ client_stats' = IF ParseHeader(header) /\ header.kind = kEcho
                     THEN NoteEchoed(client_stats, header.mode)
                     ELSE NoteMalformed(client_stats)
  /\ UNCHANGED <<now, sharded, loop, reset_at_measurement, sends, links,
                 counting, lines, toServer>>

\* Fault: the streams are reset in every pass.
ResetEveryPass ==
  /\ loop = "drain"
  /\ ~ClientsDone
  /\ loop' = "send"
  /\ IF Measuring
     THEN /\ streams' = [c \in BenchClient |-> [i \in Stream |-> now]]
          /\ reset_at_measurement' = TRUE
     ELSE UNCHANGED <<streams, reset_at_measurement>>
  /\ UNCHANGED <<now, sharded, nextSequence, nextDeadlineMode, client_stats,
                 links, counting, lines, toServer, toClient>>

\* All is received; the first pass that finds that measuring has begun resets
\* the streams.
ResetStreams ==
  /\ loop = "drain"
  /\ ~ClientsDone
  /\ loop' = "send"
  /\ IF Measuring /\ ~reset_at_measurement
     THEN /\ streams' = [c \in BenchClient |-> [i \in Stream |-> now]]
          /\ reset_at_measurement' = TRUE
     ELSE UNCHANGED <<streams, reset_at_measurement>>
  /\ UNCHANGED <<now, sharded, nextSequence, nextDeadlineMode, client_stats,
                 links, counting, lines, toServer, toClient>>

\* The payloads of a pass, the k-th of stream i of client c; the clock is read
\* a second time, and may have moved on.
DuePayloads ==
  {p \in connected \X {i \in Stream : Interval[i] > 0} \X (1..MaxBurst) :
     /\ Measuring
     /\ now >= streams[p[1]][p[2]] + (p[3] - 1) * Interval[p[2]]}

\* Fault: the counter is as wide as it needs to be.
UncutMode(n) == n

\* nextDeadlineMode after n more payloads, an integer of its width.
NextDeadlineMode(n) == n % ModeCounter

\* The first four streams have a mode each, the modes of the fifth take turns.
ModeOf(p) ==
  IF p[2] < 5 THEN p[2]
  ELSE 5 + (NextDeadlineMode(nextDeadlineMode[p[1]] + p[3] - 1) % 4)

\* The headers of due payloads, each as often as there are payloads of it.
Payloads(due) ==
  LET Header(p) == MakePayload(kData, ModeOf(p))
  IN [h \in {Header(p) : p \in due} |-> Cardinality({p \in due : Header(p) = h})]

\* SendDue and SendDeadlineDue of every stream of every connected client, with
\* SendPayload in them: of the payloads that are due, the connection may refuse
\* any.
SendDue(due, refused) ==
  LET Of(c, i) == {p \in due : p[1] = c /\ p[2] = i}
      sent == due \ refused
  IN /\ loop = "send"
     /\ losses + client_stats.sendFailures + Cardinality(refused) <= MaxFaults
     /\ loop' = "drain"
     /\ streams' = [c \in BenchClient |-> [i \in Stream |->
                      streams[c][i] + Cardinality(Of(c, i)) * Interval[i]]]
     /\ nextSequence' = [c \in BenchClient |->
          nextSequence[c] + Cardinality({p \in due : p[1] = c})]
     /\ nextDeadlineMode' = [c \in BenchClient |->
          NextDeadlineMode(nextDeadlineMode[c] + Cardinality(Of(c, 5)))]
     /\ client_stats' = [NoteFailures(client_stats, Cardinality(refused)) EXCEPT
          !.sent = [b \in Bucket |->
             client_stats.sent[b]
               + Cardinality({p \in sent : BucketForMode(ModeOf(p)) = b})]]
     /\ toServer' = [c \in BenchClient |->
          toServer[c] (+) Payloads({p \in sent : p[1] = c})]
     /\ UNCHANGED <<now, sharded, reset_at_measurement, links, counting,
                    lines, toClient>>

ClientsFinish ==
  /\ loop = "drain"
  /\ ClientsDone
  /\ loop' = "finished"
  /\ UNCHANGED <<now, sharded, reset_at_measurement, sends, client_stats,
                 links, counting, lines, toServer, toClient>>

-----------------------------------------------------------------------------
(* Connections, which the library opens and closes; what a server sends or is
   sent that has lost the connection does not arrive *)

\* The server takes a client in, for the first time or again, and the client
\* hears of it; whatever was under way is of another connection.
OnConnected(c) ==
  /\ loop = "drain"
  /\ c \notin connected
  /\ main_loop # "stopped"
  /\ echo[c] = NoEcho
  /\ connected' = connected \cup {c}
  /\ toServer' = [toServer EXCEPT ![c] = EmptyBag]
  /\ toClient' = [toClient EXCEPT ![c] = EmptyBag]
  /\ UNCHANGED <<now, sharded, bench, losses, counting, lines>>

OnDisconnected(c) ==
  /\ loop = "drain"
  /\ c \in connected
  /\ losses + client_stats.sendFailures < MaxFaults
  /\ losses' = losses + 1
  /\ connected' = connected \ {c}
  /\ toClient' = [toClient EXCEPT ![c] = EmptyBag]
  /\ UNCHANGED <<now, sharded, bench, counting, lines, toServer>>

-----------------------------------------------------------------------------
(* The server *)

Arrives(c, header) ==
  /\ BagIn(header, toServer[c])
  /\ Received(server_stats) < MaxEchoes
  /\ toServer' = [toServer EXCEPT ![c] = Arrived(@, header)]

\* The payload, made an echo, in the mode and channel it came in.
SendEcho(c, header, sent) ==
  toClient' = IF sent /\ c \in connected
              THEN [toClient EXCEPT
                      ![c] = @ (+) SetToBag({[header EXCEPT !.kind = kEcho]})]
              ELSE toClient

\* After NoteEchoed.
NoteResult(stats, header, sent) ==
  IF sent THEN NoteSent(stats, header.mode) ELSE NoteFailures(stats, 1)

\* The packet callback of the server of one thread.
PacketCallback(c, header, sent) ==
  /\ ~sharded
  /\ main_loop = "running"
  /\ Arrives(c, header)
  /\ IF ParseHeader(header)
     THEN /\ SendEcho(c, header, sent)
          /\ server_stats' =
               NoteResult(NoteEchoed(server_stats, header.mode), header, sent)
     ELSE /\ server_stats' = NoteMalformed(server_stats)
          /\ UNCHANGED toClient
  /\ UNCHANGED <<now, sharded, bench, links, stats_mutex, echo, lines>>

\* The packet callback of a shard, before it takes the lock; it runs until the
\* shards are stopped.
ShardCallback(c, header, sent) ==
  /\ sharded
  /\ main_loop # "stopped"
  /\ echo[c] = NoEcho
  /\ Arrives(c, header)
  /\ IF ParseHeader(header)
     THEN /\ SendEcho(c, header, sent)
          /\ echo' = [echo EXCEPT ![c] = [header |-> header, sent |-> sent]]
          /\ UNCHANGED server_stats
     ELSE /\ stats_mutex = Nobody
          /\ server_stats' = NoteMalformed(server_stats)
          /\ UNCHANGED <<toClient, echo>>
  /\ UNCHANGED <<now, sharded, bench, links, stats_mutex, lines>>

\* It takes the lock and counts what it has received,
ShardNoteEchoed(c) ==
  /\ echo[c] # NoEcho
  /\ stats_mutex = Nobody
  /\ stats_mutex' = c
  /\ server_stats' = NoteEchoed(server_stats, echo[c].header.mode)
  /\ UNCHANGED <<now, sharded, bench, links, echo, lines, toServer,
                 toClient>>

\* and then what it has sent.
ShardNoteSent(c) ==
  /\ stats_mutex = c
  /\ stats_mutex' = Nobody
  /\ echo' = [echo EXCEPT ![c] = NoEcho]
  /\ server_stats' = NoteResult(server_stats, echo[c].header, echo[c].sent)
  /\ UNCHANGED <<now, sharded, bench, links, lines, toServer, toClient>>

\* Fault: the sample is taken without the lock.
SampleUnlocked ==
  /\ main_loop = "running"
  /\ now >= Warmup
  /\ now - lastSample >= SampleTime
  /\ lastSample' = now
  /\ UNCHANGED <<now, sharded, bench, links, counting, main_loop,
                 toServer, toClient>>

MaybeWriteSample ==
  /\ main_loop = "running"
  /\ stats_mutex = Nobody
  /\ now >= Warmup
  /\ now - lastSample >= SampleTime
  /\ lastSample' = now
  /\ UNCHANGED <<now, sharded, bench, links, counting, main_loop,
                 toServer, toClient>>

\* The shards run on while the last line is written, if there are any.
Finish ==
  /\ main_loop = "running"
  /\ now >= Warmup + Duration + DrainTime
  /\ stats_mutex = Nobody
  /\ main_loop' = IF sharded THEN "finished" ELSE "stopped"
  /\ UNCHANGED <<now, sharded, bench, links, counting, lastSample,
                 toServer, toClient>>

\* Stop returns when every shard has ended.
StopShards ==
  /\ main_loop = "finished"
  /\ \A c \in BenchClient : echo[c] = NoEcho
  /\ main_loop' = "stopped"
  /\ UNCHANGED <<now, sharded, bench, links, counting, lastSample,
                 toServer, toClient>>

-----------------------------------------------------------------------------
Tick ==
  /\ now < MaxTime
  /\ now' = now + 1
  /\ UNCHANGED <<sharded, bench, links, counting, lines, toServer,
                 toClient>>

BenchNext ==
  \/ \E c \in BenchClient :
       \/ \E header \in BagToSet(toClient[c]) : Receive(c, header)
       \/ OnConnected(c)
       \/ OnDisconnected(c)
       \/ \E header \in BagToSet(toServer[c]), sent \in BOOLEAN :
            \/ PacketCallback(c, header, sent)
            \/ ShardCallback(c, header, sent)
       \/ ShardNoteEchoed(c)
       \/ ShardNoteSent(c)
  \/ ResetStreams
  \/ \E refused \in SUBSET DuePayloads : SendDue(DuePayloads, refused)
  \/ ClientsFinish
  \/ MaybeWriteSample
  \/ Finish
  \/ StopShards
  \/ Tick

BenchSpec == BenchInit /\ [][BenchNext]_benchVars

-----------------------------------------------------------------------------
(* Properties *)

Stats == [sent : [Bucket -> Nat], echoed : [Bucket -> Nat],
          sendFailures : Nat, malformedPackets : Nat]

\* Every variable has its type; the lock is held by a thread that has something
\* to count.
BenchTypeOK ==
  /\ now \in ClientStart..MaxTime
  /\ sharded \in BOOLEAN
  /\ loop \in {"drain", "send", "finished"}
  /\ reset_at_measurement \in BOOLEAN
  /\ connected \subseteq BenchClient
  /\ losses \in 0..MaxFaults
  /\ streams \in [BenchClient -> [Stream -> Nat]]
  /\ nextSequence \in [BenchClient -> Nat]
  /\ nextDeadlineMode \in [BenchClient -> 0..(ModeCounter - 1)]
  /\ {client_stats, server_stats} \subseteq Stats
  /\ stats_mutex \in BenchClient \cup {Nobody}
  /\ stats_mutex # Nobody => echo[stats_mutex] # NoEcho
  /\ main_loop \in {"running", "finished", "stopped"}
  /\ lastSample \in 0..now
  /\ \A c \in BenchClient : IsABag(toServer[c]) /\ IsABag(toClient[c])

\* The clients whose payload of a mode a shard has sent back and not yet counted.
SentUncounted(mode) ==
  {c \in BenchClient : /\ echo[c] # NoEcho
                       /\ echo[c].sent
                       /\ echo[c].header.mode = mode}

\* The clients count each payload they number once, neither side takes a
\* payload of the other for malformed, and of the payloads that arrive at most
\* once nobody counts more received than were sent, but for those a shard has
\* sent and not yet counted.
CountersAgree ==
  /\ SumFunction(nextSequence) =
       SumFunction(client_stats.sent) + client_stats.sendFailures
  /\ client_stats.malformedPackets = 0
  /\ server_stats.malformedPackets = 0
  /\ \A mode \in OnceModes :
       LET b == BucketForMode(mode)
       IN /\ server_stats.echoed[b] <= client_stats.sent[b]
          /\ client_stats.echoed[b] <=
               server_stats.sent[b] + Cardinality(SentUncounted(mode))

\* The counters agree.  And a line the server writes is of one moment: it has
\* every payload that it has as received as sent back or failed too, though
\* shards go on counting while it is written.
CountersAddUp ==
  /\ []CountersAgree
  /\ [][lastSample' # lastSample \/ main_loop' # main_loop =>
          SumFunction(server_stats.echoed) =
            SumFunction(server_stats.sent) + server_stats.sendFailures]_benchVars

\* What stream i may have numbered: what is due of the time measured, and a burst.
Allowed(i) ==
  IF Interval[i] = 0 \/ Elapsed < Warmup THEN 0
  ELSE MaxBurst + 1 + (Elapsed - Warmup) \div Interval[i]

\* However late a client connects, however often it loses its connection and
\* however slow the loop is, it sends no more than its profile says for the
\* time that has been measured, and once a burst of each stream: the pass that
\* finds that measuring has begun between its two looks at the clock sends
\* before the streams are reset.  The deadline modes take turns.
PacingIsKept ==
  /\ \A c \in BenchClient :
       nextSequence[c] <=
         Allowed(1) + Allowed(2) + Allowed(3) + Allowed(4) + Allowed(5)
  /\ \A m, n \in DeadlineModes :
       client_stats.sent[BucketForMode(m)] <=
         client_stats.sent[BucketForMode(n)] + Cardinality(BenchClient)
           + client_stats.sendFailures
=============================================================================
