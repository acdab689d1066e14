----------------------------- MODULE ShipSwarm -----------------------------
(***************************************************************************)
(* The ship swarm (raylib-examples/ship-swarm): the server steers some     *)
(* ships itself and gives one to each client that joins; it steps them all *)
(* and sends a snapshot of each to everybody connected.  Ships and control *)
(* travel on one reliable ordered channel per session, inputs and          *)
(* snapshots are unreliable and carry no number.  A client tries the       *)
(* addresses of its host in turn until it is connected, and keeps the      *)
(* ships in a vector which a map from ids points into.                     *)
(*                                                                         *)
(* Where the ships are is reduced to the number of times anything has      *)
(* moved (world): a position is the world it was sent from.  The server's  *)
(* time, which no client reads, is left out, and so is what it steers its  *)
(* own ships with.  SendReliable to an open session does not fail.         *)
(***************************************************************************)
EXTENDS SessionRegistry, Quantisation, Sequences, SequencesExt, FiniteSets,
        FiniteSetsExt

CONSTANTS
  kInvalidEntity,  \* the largest id, which stands for none
  NumShips,        \* num_ships, those the server steers
  Addresses,       \* of the host, in the order they are tried: what becomes of
                   \* a connection there
  Inputs,          \* thrust and steer a player may give
  Leaving,         \* bound of the model: clients whose sessions may end
  MaxWorld,        \* bound of the model: times anything moves
  Seen             \* bound of the model: the client and the id of the ships
                   \* whose snapshots are not all lost

Server == "server"    \* the server answers
Deaf == "deaf"        \* nobody answers
Refused == "refused"  \* Connect fails: not of the family of the socket

ASSUME SwarmAssumption ==
  /\ kInvalidEntity \in Nat \ {0}
  /\ NumShips \in 0..kInvalidEntity
  /\ Addresses \in Seq({Server, Deaf, Refused})
  /\ Server \in ToSet(Addresses)
  /\ Inputs \subseteq (-1..1) \X (-1..1)
  /\ MaxWorld \in Nat
  /\ Leaving \subseteq Endpoint

VARIABLES
  entities,        \* server: of each entity only its id
  controlled_map,  \* server: the handle that controls each entity
  thr_steer,       \* server: what inputs have set of each entity, in 1/15
  world,           \* server: how many times anything has moved
  channel,         \* network: reliable messages to each client, in order
  joins,           \* network: clients whose Join is on its way
  inputs,          \* network: of each client
  snapshots,       \* network: to each client
  connected,       \* client: what its handler has been told last
  nextAddress,     \* client: ResolvedEndpoint
  trying,          \* client: the address it was last told to connect to, or 0
  sent_join,       \* client
  ships,           \* client: its vector entities
  index_map,       \* client
  my_entity,       \* client: kInvalidEntity until it is told
  owner,           \* history: the client whose Join has brought the entity
  missed           \* history: clients that have lost a session

server == <<entities, controlled_map, thr_steer, world>>
network == <<channel, joins, inputs, snapshots>>
connecting == <<connected, nextAddress, trying>>
picture == <<ships, index_map>>
client == <<connecting, sent_join, picture, my_entity>>
history == <<owner, missed>>
vars == <<session, server, network, client, history>>

Eid == 0..kInvalidEntity

\* A ship of the vector: its id, the id the position was sent for, and when.
Ship == [eid : Eid, of : Eid, at : 0..MaxWorld]

TypeOK ==
  /\ SessionTypeOK
  /\ entities \in Seq(Eid \ {kInvalidEntity})
  /\ DOMAIN controlled_map = ToSet(entities)
  /\ \A eid \in ToSet(entities) :
       /\ controlled_map[eid] \in OpenHandles \cup {NoClient}
       /\ thr_steer[eid] \in (-15..15) \X (-15..15)
  /\ world \in 0..MaxWorld
  /\ joins \subseteq Endpoint
  /\ \A e \in Endpoint :
       /\ connected[e] \in BOOLEAN /\ sent_join[e] \in BOOLEAN
       /\ nextAddress[e] \in DOMAIN Addresses
       /\ trying[e] \in {0} \cup DOMAIN Addresses
       /\ \A m \in inputs[e] : m.eid \in ToSet(entities) /\ m.packed \in 0..255
       /\ \A s \in snapshots[e] : s.eid \in ToSet(entities) /\ s.at \in 0..world
       /\ ships[e] \in Seq(Ship)
       /\ my_entity[e] \in ToSet(entities) \cup {kInvalidEntity}
  /\ missed \subseteq Endpoint

-----------------------------------------------------------------------------
(* The server *)

\* One more than the largest in as many bits, kInvalidEntity when there is none.
NextEntityId(eids) ==
  LET max_eid == IF eids = <<>> THEN kInvalidEntity ELSE Max(ToSet(eids))
  IN (max_eid + 1) % (kInvalidEntity + 1)

\* The loop of CreateServerEntity at the start, when nobody is connected.
ServerEntities ==
  LET created[n \in 0..NumShips] ==
        IF n = 0 THEN <<>>
        ELSE Append(created[n - 1], NextEntityId(created[n - 1]))
  IN created[NumShips]

ServerControlled(eid) == eid \in ToSet(ServerEntities)

Init ==
  /\ SessionInit
  /\ entities = ServerEntities
  /\ controlled_map = [eid \in ToSet(ServerEntities) |-> NoClient]
  /\ thr_steer = [eid \in ToSet(ServerEntities) |-> <<0, 0>>]
  /\ world = 0
  /\ channel = [e \in Endpoint |-> <<>>]
  /\ joins = {}
  /\ inputs = [e \in Endpoint |-> {}]
  /\ snapshots = [e \in Endpoint |-> {}]
  /\ connected = [e \in Endpoint |-> FALSE]
  /\ nextAddress = [e \in Endpoint |-> 1]
  /\ trying = [e \in Endpoint |-> 0]
  /\ sent_join = [e \in Endpoint |-> FALSE]
  /\ ships = [e \in Endpoint |-> <<>>]
  /\ index_map = [e \in Endpoint |-> <<>>]
  /\ my_entity = [e \in Endpoint |-> kInvalidEntity]
  /\ owner = <<>>
  /\ missed = {}

NewEntity(eid) == [type |-> "NewEntity", eid |-> eid, at |-> world]
SetControlledEntity(eid) == [type |-> "SetControlledEntity", eid |-> eid]

\* The handshake with the server ends, on both sides.
OnConnected(e, p) ==
  /\ trying[e] # 0 /\ ~connected[e]
  /\ Addresses[trying[e]] = Server
  /\ OpenSession(e, p)
  /\ connected' = [connected EXCEPT ![e] = TRUE]
  /\ UNCHANGED <<server, network, nextAddress, trying, sent_join, picture,
                 my_entity, history>>

\* Fault: the handle stays with the ship.
OnDisconnectedKeeps(e) ==
  /\ e \in Leaving
  /\ CloseSession(e)
  /\ channel' = [channel EXCEPT ![e] = <<>>]
  /\ joins' = joins \ {e}
  /\ missed' = missed \cup {e}
  /\ UNCHANGED <<entities, controlled_map, thr_steer, world, inputs, snapshots,
                 client, owner>>

\* The ship of a client that leaves flies on as it was steered last.
OnDisconnected(e) ==
  /\ e \in Leaving
  /\ CloseSession(e)
  /\ controlled_map' = [eid \in DOMAIN controlled_map |->
                          IF controlled_map[eid] = session[e] THEN NoClient
                          ELSE controlled_map[eid]]
  /\ channel' = [channel EXCEPT ![e] = <<>>]
  /\ joins' = joins \ {e}
  /\ missed' = missed \cup {e}
  /\ UNCHANGED <<entities, thr_steer, world, inputs, snapshots, client, owner>>

\* BroadcastEntity, after the newcomer was sent what there was before; the
\* newcomer is told last which one it controls.
Welcome(e, eid) ==
  [f \in Endpoint |->
     IF f = e THEN channel[f] \o [i \in DOMAIN entities |-> NewEntity(entities[i])]
                              \o <<NewEntity(eid), SetControlledEntity(eid)>>
     ELSE IF IsOpen(f) THEN Append(channel[f], NewEntity(eid))
     ELSE channel[f]]

OnJoin(e) ==
  LET new_eid == NextEntityId(entities)
  IN /\ IsOpen(e)
     /\ e \in joins
     /\ joins' = joins \ {e}
     /\ entities' = Append(entities, new_eid)
     /\ controlled_map' = [eid \in DOMAIN controlled_map \cup {new_eid} |->
                             IF eid = new_eid THEN session[e]
                                              ELSE controlled_map[eid]]
     /\ thr_steer' = [eid \in DOMAIN thr_steer \cup {new_eid} |->
                        IF eid = new_eid THEN <<0, 0>> ELSE thr_steer[eid]]
     /\ channel' = Welcome(e, new_eid)
     /\ owner' = [eid \in DOMAIN owner \cup {new_eid} |->
                    IF eid = new_eid THEN e ELSE owner[eid]]
     /\ UNCHANGED <<session, world, inputs, snapshots, client, missed>>

\* Of whatever entity the message names, and however old it is.  It stays on its
\* way: it may come again, and one that is never taken is lost.
OnInput(e, m) ==
  /\ IsOpen(e)
  /\ m \in inputs[e]
  /\ thr_steer' = [eid \in DOMAIN thr_steer |->
                     IF eid = m.eid THEN DeserializeEntityInput(m.packed)
                                    ELSE thr_steer[eid]]
  /\ UNCHANGED <<session, entities, controlled_map, world, network, client,
                 history>>

WithSnapshots(e, w) ==
  snapshots[e] \cup
    {[eid |-> eid, at |-> w] : eid \in {i \in ToSet(entities) : <<e, i>> \in Seen}}

\* Fault: nothing is sent when nothing has moved.
SendWhatMoved(w) ==
  [e \in Endpoint |-> IF IsOpen(e) /\ w # world THEN WithSnapshots(e, w)
                                                ELSE snapshots[e]]

SendSnapshots(w) ==
  [e \in Endpoint |-> IF IsOpen(e) THEN WithSnapshots(e, w) ELSE snapshots[e]]

\* One pass; while all ships rest nothing moves.
SimulateWorld ==
  \E w \in {world, world + 1} \cap 0..MaxWorld :
    /\ world' = w
    /\ snapshots' = SendSnapshots(w)
    /\ UNCHANGED <<session, entities, controlled_map, thr_steer, channel, joins,
                   inputs, client, history>>

-----------------------------------------------------------------------------
(* The clients: their connection *)

\* The indices of the addresses, the next first.
InTurn(e) ==
  [i \in DOMAIN Addresses |-> 1 + ((nextAddress[e] + i - 2) % Len(Addresses))]

After(i) == 1 + (i % Len(Addresses))

\* Fault: on to the next only when this one is refused.
ConnectWhileRefused(e) ==
  LET turn == InTurn(e)
      i == turn[Min({j \in DOMAIN turn : Addresses[turn[j]] # Refused})]
  IN /\ ~connected[e]
     /\ trying' = [trying EXCEPT ![e] = i]
     /\ nextAddress' = [nextAddress EXCEPT ![e] = i]
     /\ UNCHANGED <<session, server, network, connected, sent_join, picture,
                    my_entity, history>>

\* At the start, and again every 250 ms: the first that is not refused.
ConnectNextAddress(e) ==
  LET turn == InTurn(e)
      i == turn[Min({j \in DOMAIN turn : Addresses[turn[j]] # Refused})]
  IN /\ ~connected[e]
     /\ trying' = [trying EXCEPT ![e] = i]
     /\ nextAddress' = [nextAddress EXCEPT ![e] = After(i)]
     /\ UNCHANGED <<session, server, network, connected, sent_join, picture,
                    my_entity, history>>

\* A client that is not told goes on as if it were connected.
OnClientDisconnected(e) ==
  /\ connected[e] /\ ~IsOpen(e)
  /\ connected' = [connected EXCEPT ![e] = FALSE]
  /\ UNCHANGED <<session, server, network, nextAddress, trying, sent_join,
                 picture, my_entity, history>>

\* Once in the life of the client.
SendJoin(e) ==
  /\ connected[e] /\ ~sent_join[e]
  /\ sent_join' = [sent_join EXCEPT ![e] = TRUE]
  /\ joins' = IF IsOpen(e) THEN joins \cup {e} ELSE joins
  /\ UNCHANGED <<session, server, channel, inputs, snapshots, connecting,
                 picture, my_entity, history>>

-----------------------------------------------------------------------------
(* The clients: their picture of the world *)

Known(e) == DOMAIN index_map[e]

\* The next message of a session that is still open.
Delivered(e, type) ==
  /\ IsOpen(e)
  /\ channel[e] # <<>>
  /\ Head(channel[e]).type = type
  /\ channel' = [channel EXCEPT ![e] = Tail(@)]
  /\ UNCHANGED <<session, server, joins, inputs, snapshots, connecting,
                 sent_join, history>>

PutShip(e, m) ==
  /\ index_map' = [index_map EXCEPT ![e] =
                     [eid \in Known(e) \cup {m.eid} |->
                        IF eid = m.eid THEN Len(ships[e]) + 1
                                       ELSE index_map[e][eid]]]
  /\ ships' = [ships EXCEPT ![e] =
                 Append(@, [eid |-> m.eid, of |-> m.eid, at |-> m.at])]

\* Fault: a ship that is known is put into the vector again.
TakeEveryEntity(e) ==
  /\ Delivered(e, "NewEntity")
  /\ PutShip(e, Head(channel[e]))
  /\ UNCHANGED my_entity

OnNewEntity(e) ==
  LET m == Head(channel[e])
  IN /\ Delivered(e, "NewEntity")
     /\ IF m.eid \in Known(e) THEN UNCHANGED picture ELSE PutShip(e, m)
     /\ UNCHANGED my_entity

OnSetControlledEntity(e) ==
  /\ Delivered(e, "SetControlledEntity")
  /\ my_entity' = [my_entity EXCEPT ![e] = Head(channel[e]).eid]
  /\ UNCHANGED picture

\* Of whatever age it is; of a ship that is not known it is dropped.
OnSnapshot(e, s) ==
  /\ connected[e]
  /\ s \in snapshots[e]
  /\ ships' = IF s.eid \in Known(e)
              THEN [ships EXCEPT ![e][index_map[e][s.eid]] =
                      [@ EXCEPT !.of = s.eid, !.at = s.at]]
              ELSE ships
  /\ UNCHANGED <<session, server, network, connecting, sent_join, index_map,
                 my_entity, history>>

LoseSnapshot(e, s) ==
  /\ s \in snapshots[e]
  /\ snapshots' = [snapshots EXCEPT ![e] = @ \ {s}]
  /\ UNCHANGED <<session, server, channel, joins, inputs, client, history>>

\* The client's own SimulateWorld.  The server gets it if there is a session.
SendInput(e) ==
  \E i \in Inputs :
    LET m == [eid |-> my_entity[e], packed |-> SendEntityInput(i[1], i[2])]
    IN /\ my_entity[e] \in Known(e)
       /\ inputs' = [inputs EXCEPT ![e] = IF IsOpen(e) THEN @ \cup {m} ELSE @]
       /\ UNCHANGED <<session, server, channel, joins, snapshots, client,
                      history>>

-----------------------------------------------------------------------------
Newest(eid) == [eid |-> eid, at |-> world]

Old(e) == {s \in snapshots[e] : s.at # world}

Next ==
  \/ SimulateWorld
  \/ \E e \in Endpoint :
       \/ \E p \in Pointer : OnConnected(e, p)
       \/ OnDisconnected(e)
       \/ OnJoin(e)
       \/ \E m \in inputs[e] : OnInput(e, m)
       \/ ConnectNextAddress(e)
       \/ OnClientDisconnected(e)
       \/ SendJoin(e)
       \/ OnNewEntity(e)
       \/ OnSetControlledEntity(e)
       \/ \E s \in snapshots[e] : OnSnapshot(e, s) \/ LoseSnapshot(e, s)
       \/ SendInput(e)

\* Loops go round, and reliable messages of a session that stays open arrive.
\* An attempt at the server's address gets through some time, and so does the
\* newest snapshot of a ship, and an old one is not on its way for ever.
\* Nothing makes a session end, or a client learn that it has.
Fairness ==
  /\ WF_vars(SimulateWorld)
  /\ \A e \in Endpoint :
       /\ SF_vars(\E p \in Pointer : OnConnected(e, p))
       /\ WF_vars(OnJoin(e))
       /\ WF_vars(ConnectNextAddress(e))
       /\ WF_vars(SendJoin(e))
       /\ WF_vars(OnNewEntity(e) \/ OnSetControlledEntity(e))
       /\ WF_vars(\E s \in Old(e) : LoseSnapshot(e, s))
  /\ \A es \in Seen : SF_vars(OnSnapshot(es[1], Newest(es[2])))

Spec == Init /\ [][Next]_vars /\ Fairness

-----------------------------------------------------------------------------
(* Properties *)

\* The pedals that were sent for a ship from its owner, as they were pressed.
Pressed(eid) ==
  {<<15 * i[1], 15 * i[2]>> : i \in
     {i \in Inputs :
        [eid |-> eid, packed |-> SendEntityInput(i[1], i[2])] \in inputs[owner[eid]]}}

\* The server takes an input for the ship it names, whoever sends it and however
\* late, and four bits have no code for 0: still a player's ship only does what
\* its own player has pressed, exactly, or nothing, and no input reaches a ship
\* the server steers.
SteeringIsOnesOwn ==
  \A eid \in ToSet(entities) :
    IF eid \in DOMAIN owner
    THEN thr_steer[eid] \in {<<0, 0>>} \cup Pressed(eid)
    ELSE thr_steer[eid] \in {<<0, 0>>}

\* A client hears of a ship that was there before it joined twice if it was
\* connected when the ship came: still its vector has each ship once, where the
\* map points, with a position that was sent for that ship, and the ship it
\* takes for its own was given to it.
PicturesAreTheirs ==
  \A e \in Endpoint :
    /\ \A i, j \in DOMAIN ships[e] : ships[e][i].eid = ships[e][j].eid => i = j
    /\ \A i \in DOMAIN ships[e] :
         /\ ships[e][i].of = ships[e][i].eid
         /\ index_map[e][ships[e][i].eid] = i
    /\ Known(e) \subseteq ToSet(entities)
    /\ my_entity[e] # kInvalidEntity => owner[my_entity[e]] = e

\* A snapshot has no number and an old one overwrites a new one; because a pass
\* sends every ship whether it moves or not, a client that stays connected ends
\* up with each ship where it is, once ships no longer move.
Settles(e, eid) ==
  <>[](IsOpen(e) /\ eid \in Known(e))
    => <>[](\E i \in DOMAIN ships[e] :
              ships[e][i].eid = eid /\ ships[e][i].at = world)

PictureConverges == \A es \in Seen : Settles(es[1], es[2])

\* A client whose host has other addresses too, that refuse or never answer, gets
\* to steer a ship, unless a session of its ends.
ClientComesToSteer ==
  \A e \in Endpoint : [](e \notin missed) => <>(my_entity[e] \in Known(e))
=============================================================================
