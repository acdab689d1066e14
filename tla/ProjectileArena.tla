-------------------------- MODULE ProjectileArena --------------------------
(***************************************************************************)
(* The projectile arena (raylib-examples/projectile-arena): the server     *)
(* keeps one player per client that has joined, and the projectiles; each  *)
(* client shows the last world snapshot it was sent.  Join and welcome are *)
(* reliable, shots unsequenced, snapshots unreliable: a snapshot may be    *)
(* lost, repeated and overtaken.                                           *)
(*                                                                         *)
(* Positions and inputs are left out, and the projectiles of a snapshot: a *)
(* projectile may hit any player but its owner, or leave the arena, in any *)
(* pass.  So is the flag of a client that says it is connected: a client   *)
(* whose session is over, or was for a moment, may not know it.  A client  *)
(* process has an endpoint of its own, and SendReliable to an open session *)
(* does not fail.                                                          *)
(***************************************************************************)
EXTENDS SessionRegistry, Naturals, FiniteSets, Sequences

CONSTANTS
  kKMaxHealth,
  kKProjectileDamage,
  MaxShots,  \* bound of the model: projectiles in one run of the server
  MaxTicks   \* bound of the model: snapshots in one run of the server

ASSUME ArenaAssumption ==
  /\ IsFiniteSet(Endpoint)
  /\ kKMaxHealth \in Nat \ {0}
  /\ kKProjectileDamage \in Nat \ {0}
  /\ MaxShots \in Nat
  /\ MaxTicks \in Nat

VARIABLES
  players,              \* server: std::unordered_map<Client*, PlayerState>
  next_player_id,       \* server
  projectiles,          \* server: the ids of those in flight
  shots,                \* server: the ownerId of every projectile so far
  server_tick,          \* server
  joins,                \* network: clients whose Join is on its way
  welcomes,             \* network: the id a Welcome on its way tells, or 0
  fires,                \* network: clients a shot of which is on its way
  snapshots,            \* network: the snapshots each client was sent
  join_sent,            \* client
  playerId,             \* client: 0 until it is welcomed
  snapshot              \* client: the last snapshot, NoSnapshot at first

server == <<players, next_player_id, projectiles, shots, server_tick>>
network == <<joins, welcomes, fires, snapshots>>
client == <<join_sent, playerId, snapshot>>
vars == <<session, server, network, client>>

Id == 1..Cardinality(Endpoint)

PlayerState == [id : Id, health : 0..kKMaxHealth]

\* A snapshot: the health of each player.
NoSnapshot == [tick |-> 0, health |-> <<>>]

TypeOK ==
  /\ SessionTypeOK
  /\ DOMAIN players \subseteq Pointer
  /\ \A p \in DOMAIN players : players[p] \in PlayerState
  /\ next_player_id \in 1..Cardinality(Endpoint) + 1
  /\ shots \in Seq(Id)
  /\ projectiles \subseteq DOMAIN shots
  /\ server_tick \in 0..MaxTicks
  /\ joins \subseteq Endpoint
  /\ welcomes \in [Endpoint -> Id \cup {0}]
  /\ fires \subseteq Endpoint
  /\ \A e \in Endpoint : \A s \in snapshots[e] \cup {snapshot[e]} :
       /\ s.tick \in 0..MaxTicks
       /\ \A id \in DOMAIN s.health : s.health[id] \in 0..kKMaxHealth
  /\ join_sent \in [Endpoint -> BOOLEAN]
  /\ playerId \in [Endpoint -> Id \cup {0}]

Init ==
  /\ SessionInit
  /\ players = <<>>
  /\ next_player_id = 1
  /\ projectiles = {}
  /\ shots = <<>>
  /\ server_tick = 0
  /\ joins = {}
  /\ welcomes = [e \in Endpoint |-> 0]
  /\ fires = {}
  /\ snapshots = [e \in Endpoint |-> {}]
  /\ join_sent = [e \in Endpoint |-> FALSE]
  /\ playerId = [e \in Endpoint |-> 0]
  /\ snapshot = [e \in Endpoint |-> NoSnapshot]

-----------------------------------------------------------------------------
(* The server: the callbacks of its hub *)

OnConnected(e, p) ==
  /\ OpenSession(e, p)
  /\ UNCHANGED <<server, network, client>>

\* Fault: the player of a lost session is kept.
KeepPlayer(p) == players

WithoutPlayer(p) == [q \in DOMAIN players \ {p} |-> players[q]]

\* What is on its way on the reliable channel dies with the session.
OnDisconnected(e) ==
  /\ CloseSession(e)
  /\ players' = WithoutPlayer(session[e])
  /\ joins' = joins \ {e}
  /\ welcomes' = [welcomes EXCEPT ![e] = 0]
  /\ UNCHANGED <<next_player_id, projectiles, shots, server_tick, fires,
                 snapshots, client>>

\* EnsurePlayer, for a handle that has no player yet.
NewPlayer(p) ==
  /\ players' = [q \in DOMAIN players \cup {p} |->
                   IF q = p THEN [id |-> next_player_id, health |-> kKMaxHealth]
                            ELSE players[q]]
  /\ next_player_id' = next_player_id + 1

OnJoin(e) ==
  /\ IsOpen(e)
  /\ e \in joins
  /\ joins' = joins \ {e}
  /\ \/ /\ session[e] \in DOMAIN players
        /\ UNCHANGED <<players, next_player_id, welcomes>>
     \/ /\ session[e] \notin DOMAIN players
        /\ NewPlayer(session[e])
        /\ welcomes' = [welcomes EXCEPT ![e] = next_player_id]
  /\ UNCHANGED <<session, projectiles, shots, server_tick, fires, snapshots,
                 client>>

\* A shot of a client that has not joined in this session is ignored; one
\* that is delivered may be delivered again.
OnFire(e) ==
  /\ IsOpen(e)
  /\ e \in fires
  /\ session[e] \in DOMAIN players
  /\ LET id == players[session[e]].id
     IN /\ Len(shots) < MaxShots
        /\ shots' = Append(shots, id)
        /\ projectiles' = projectiles \cup {Len(shots) + 1}
  /\ fires' \in {fires, fires \ {e}}
  /\ UNCHANGED <<session, players, next_player_id, server_tick, joins,
                 welcomes, snapshots, client>>

-----------------------------------------------------------------------------
(* The server: its loop *)

\* Fault: the projectile that has hit goes on.
SpareProjectiles(hit, gone) == projectiles \ gone

\* Those that hit are erased, and then those that have left the arena.
Erased(hit, gone) == projectiles \ (DOMAIN hit \cup gone)

\* Fault: no floor.
DamagedBelowZero(health, hits) == health - hits * kKProjectileDamage

Damaged(health, hits) ==
  IF health > hits * kKProjectileDamage
  THEN health - hits * kKProjectileDamage
  ELSE 0

\* The projectiles in hit hit a player each, those in gone leave the arena.
ResolveProjectileHits(hit, gone) ==
  /\ players' = [p \in DOMAIN players |->
                   [players[p] EXCEPT
                      !.health = Damaged(@, Cardinality({k \in DOMAIN hit :
                                                           hit[k] = p}))]]
  /\ projectiles' = Erased(hit, gone)

\* No owner is hit by its own projectile.
UpdateWorld ==
  \E struck \in SUBSET projectiles :
    \E hit \in [struck -> DOMAIN players], gone \in SUBSET (projectiles \ struck) :
      /\ \A k \in struck : players[hit[k]].id # shots[k]
      /\ ResolveProjectileHits(hit, gone)
      /\ UNCHANGED <<session, next_player_id, shots, server_tick, network,
                     client>>

\* Fault: the tick is not counted.
SameTick == UNCHANGED server_tick

NextTick == server_tick' = server_tick + 1

MakeSnapshot ==
  [tick   |-> server_tick,
   health |-> [id \in {players[p].id : p \in DOMAIN players} |->
                 players[CHOOSE p \in DOMAIN players : players[p].id = id].health]]

\* Fault: everybody connected is sent the snapshot, also who has not joined.
Everybody == OpenHandles

\* BroadcastSnapshot goes through the players.
Audience == DOMAIN players

BroadcastSnapshot ==
  /\ server_tick < MaxTicks
  /\ NextTick
  /\ snapshots' = [e \in Endpoint |-> IF session[e] \in Audience
                                     THEN snapshots[e] \cup {MakeSnapshot}
                                     ELSE snapshots[e]]
  /\ UNCHANGED <<session, players, next_player_id, projectiles, shots, joins,
                 welcomes, fires, client>>

-----------------------------------------------------------------------------
(* A client *)

\* Once in the life of the client; its session may be over without it knowing.
SendJoin(e) ==
  /\ ~join_sent[e]
  /\ join_sent' = [join_sent EXCEPT ![e] = TRUE]
  /\ joins' = IF IsOpen(e) THEN joins \cup {e} ELSE joins
  /\ UNCHANGED <<session, server, welcomes, fires, snapshots, playerId,
                 snapshot>>

Fire(e) ==
  /\ playerId[e] # 0
  /\ fires' = fires \cup {e}
  /\ UNCHANGED <<session, server, joins, welcomes, snapshots, client>>

OnWelcome(e) ==
  /\ welcomes[e] # 0
  /\ playerId' = [playerId EXCEPT ![e] = welcomes[e]]
  /\ welcomes' = [welcomes EXCEPT ![e] = 0]
  /\ UNCHANGED <<session, server, joins, fires, snapshots, join_sent, snapshot>>

\* NoteSnapshot counts the snapshot s as reordered.
Reordered(e, s) == s.tick < snapshot[e].tick

\* Any snapshot the client was sent, however old, and any number of times; one
\* that is lost never comes.  It is shown whatever NoteSnapshot has found.
OnSnapshot(e, s) ==
  /\ s \in snapshots[e]
  /\ snapshot' = [snapshot EXCEPT ![e] = s]
  /\ UNCHANGED <<session, server, network, join_sent, playerId>>

-----------------------------------------------------------------------------
(* The network *)

LoseFire(e) ==
  /\ e \in fires
  /\ fires' = fires \ {e}
  /\ UNCHANGED <<session, server, joins, welcomes, snapshots, client>>

-----------------------------------------------------------------------------
Next ==
  \/ \E e \in Endpoint :
       \/ \E p \in Pointer : OnConnected(e, p)
       \/ OnDisconnected(e)
       \/ OnJoin(e)
       \/ OnFire(e)
       \/ SendJoin(e)
       \/ Fire(e)
       \/ OnWelcome(e)
       \/ LoseFire(e)
       \/ \E s \in snapshots[e] : OnSnapshot(e, s)
  \/ UpdateWorld
  \/ BroadcastSnapshot

Spec == Init /\ [][Next]_vars

-----------------------------------------------------------------------------
(* Properties *)

\* Every handle BroadcastSnapshot follows is that of an open session, and no
\* two players have one id, whoever left and whoever got the handle after.
RosterIsSafe ==
  /\ DOMAIN players \subseteq OpenHandles
  /\ \A p, q \in DOMAIN players : players[p].id = players[q].id => p = q
  /\ \A p \in DOMAIN players : players[p].id < next_player_id

\* A client that has been welcomed and shows a world finds itself in it,
\* however welcome and snapshots overtake each other; the position its aim
\* starts from is never the default.
OwnPlayerIsShown ==
  \A e \in Endpoint :
    playerId[e] # 0 /\ snapshot[e] # NoSnapshot =>
      playerId[e] \in DOMAIN snapshot[e].health

\* A player is only hurt by projectiles of others, and no projectile hurts
\* twice: the health the players have lost is paid for by projectiles that
\* are spent, each of which counts for one player.
DamageIsPaid ==
  \E paid \in [DOMAIN players -> SUBSET (DOMAIN shots \ projectiles)] :
    /\ \A p \in DOMAIN players :
         /\ kKMaxHealth - players[p].health <=
              kKProjectileDamage * Cardinality(paid[p])
         /\ \A k \in paid[p] : shots[k] # players[p].id
    /\ \A p, q \in DOMAIN players : paid[p] \cap paid[q] # {} => p = q

\* Nobody sees a wound heal, but for a snapshot that the client has noticed
\* to be out of order.
HealthOnlyFalls ==
  [][\A e \in Endpoint :
       \A id \in DOMAIN snapshot[e].health \cap DOMAIN snapshot'[e].health :
         snapshot'[e].health[id] > snapshot[e].health[id] =>
           Reordered(e, snapshot'[e])]_vars
=============================================================================
