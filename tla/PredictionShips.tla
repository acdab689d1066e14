-------------------------- MODULE PredictionShips --------------------------
(***************************************************************************)
(* The prediction ships (raylib-examples/prediction-ships): the server     *)
(* steps its ships and sends a snapshot of each to every client; a client  *)
(* keeps a history of snapshots per ship, draws the ships 200 ms in the    *)
(* past, and steps its own ship itself.  Ships and control travel on one   *)
(* reliable ordered channel per session, snapshots are unreliable.         *)
(*                                                                         *)
(* Where a ship is, is left out: what stands for a position is the time at *)
(* which the server had the ship there, and a position between two         *)
(* snapshots is the time between them.  So are the inputs, the corrections *)
(* they are replayed in, and the server's time, which no client reads.     *)
(* Server and clients read one clock, as processes of one machine do.      *)
(***************************************************************************)
EXTENDS SessionRegistry, Integers, Sequences, SequencesExt, FiniteSets, FiniteSetsExt

CONSTANTS
  kInvalidEntity,      \* the largest id, which stands for none
  kInterpolationTime,  \* how far in the past the ships are drawn
  ServerSleep,         \* the sleep of the server's loop
  MaxTime,             \* bound of the model: the last moment of the clock
  MaxFrames,           \* bound of the model: steps of the server's world
  MaxHistory,          \* bound of the model: snapshots of one ship in a history
  Seen                 \* bound of the model: the client and the id of the ships
                       \* whose snapshots are not all lost

ASSUME ShipsAssumption ==
  /\ kInvalidEntity \in Nat \ {0}
  /\ kInterpolationTime \in Nat
  /\ ServerSleep \in Nat \ {0}
  /\ MaxTime \in Nat \ {0}
  /\ MaxFrames \in Nat
  /\ MaxHistory \in Nat
  /\ Seen \subseteq Endpoint \X Nat

VARIABLES
  now,               \* std::chrono::steady_clock
  entities,          \* server: of each entity only its id
  controlled_map,    \* server: the handle that controls each entity
  frame_counter,     \* server
  last_time,         \* server: when it has last stepped
  channel,           \* network: reliable messages to each client, in order
  joins,             \* network: clients whose Join is on its way
  snapshots,         \* network: the snapshots each client was sent
  sent_join,         \* client
  known,             \* client: the ids in index_map
  my_entity,         \* client: kInvalidEntity until it is told
  snapshot_history,  \* client: of each id
  shown,             \* client: the moment each ship is drawn at, 0: none yet
  predicted,         \* client: its own ship is drawn where it has stepped it
  joined,            \* history: clients whose Join the server has handled
  missed             \* history: clients that have lost a session

server == <<entities, controlled_map, frame_counter, last_time>>
network == <<channel, joins, snapshots>>
picture == <<snapshot_history, shown, predicted>>
client == <<sent_join, known, my_entity, picture>>
vars == <<session, now, server, network, client, joined, missed>>

Eid == 0..kInvalidEntity

Snapshot == [eid : Eid, frameNumber : 0..MaxFrames, timestamp : 1..MaxTime]

TypeOK ==
  /\ SessionTypeOK
  /\ now \in 1..MaxTime
  /\ entities \in Seq(Eid \ {kInvalidEntity})
  /\ DOMAIN controlled_map = ToSet(entities)
  /\ \A eid \in ToSet(entities) : controlled_map[eid] \in Pointer \cup {NoClient}
  /\ last_time \in 1..now
  /\ frame_counter \in 0..MaxFrames
  /\ joins \subseteq Endpoint
  /\ sent_join \in [Endpoint -> BOOLEAN]
  /\ \A e \in Endpoint :
       /\ snapshots[e] \subseteq Snapshot
       /\ known[e] \subseteq ToSet(entities)
       /\ my_entity[e] \in ToSet(entities) \cup {kInvalidEntity}
       /\ \A eid \in Eid : \A s \in ToSet(snapshot_history[e][eid]) :
            s \in snapshots[e] /\ s.eid = eid
       /\ shown[e] \in [Eid -> 0..now]
  /\ predicted \in [Endpoint -> BOOLEAN]
  /\ joined \subseteq Endpoint
  /\ missed \subseteq Endpoint

Init ==
  /\ SessionInit
  /\ now = 1
  /\ entities = <<>>
  /\ controlled_map = <<>>
  /\ frame_counter = 0
  /\ last_time = 1
  /\ channel = [e \in Endpoint |-> <<>>]
  /\ joins = {}
  /\ snapshots = [e \in Endpoint |-> {}]
  /\ sent_join = [e \in Endpoint |-> FALSE]
  /\ known = [e \in Endpoint |-> {}]
  /\ my_entity = [e \in Endpoint |-> kInvalidEntity]
  /\ snapshot_history = [e \in Endpoint |-> [eid \in Eid |-> <<>>]]
  /\ shown = [e \in Endpoint |-> [eid \in Eid |-> 0]]
  /\ predicted = [e \in Endpoint |-> FALSE]
  /\ joined = {}
  /\ missed = {}

-----------------------------------------------------------------------------
(* The server: the callbacks of its hub *)

NewEntity(eid) == [type |-> "NewEntity", eid |-> eid]
SetControlledEntity(eid) == [type |-> "SetControlledEntity", eid |-> eid]

OnConnected(e, p) ==
  /\ OpenSession(e, p)
  /\ UNCHANGED <<now, server, network, client, joined, missed>>

\* Ships are never removed; that of a client that leaves is controlled by
\* nobody.
OnDisconnected(e) ==
  /\ CloseSession(e)
  /\ controlled_map' = [eid \in DOMAIN controlled_map |->
                          IF controlled_map[eid] = session[e] THEN NoClient
                          ELSE controlled_map[eid]]
  /\ channel' = [channel EXCEPT ![e] = <<>>]
  /\ joins' = joins \ {e}
  /\ missed' = missed \cup {e}
  /\ UNCHANGED <<now, entities, frame_counter, last_time, snapshots, client,
                 joined>>

\* Fault: the sum is not cut to the width of an id.
UncutId ==
  (IF entities = <<>> THEN kInvalidEntity ELSE Max(ToSet(entities))) + 1

\* Fault: the number of ships under control.
CountControlled ==
  Cardinality({eid \in DOMAIN controlled_map : controlled_map[eid] # NoClient})

\* One more than the largest, in as many bits; kInvalidEntity when there is
\* none, so that the first is 0.
NextEntityId ==
  LET max_eid == IF entities = <<>> THEN kInvalidEntity
                                    ELSE Max(ToSet(entities))
  IN (max_eid + 1) % (kInvalidEntity + 1)

\* The newcomer e is sent what there is, everybody the new ship, and the
\* newcomer which one it controls.
Welcome(e, eid) ==
  [f \in Endpoint |->
     IF f = e THEN channel[f] \o [i \in DOMAIN entities |-> NewEntity(entities[i])]
                              \o <<NewEntity(eid), SetControlledEntity(eid)>>
     ELSE IF IsOpen(f) THEN Append(channel[f], NewEntity(eid))
     ELSE channel[f]]

OnJoin(e) ==
  LET new_eid == NextEntityId
  IN /\ IsOpen(e)
     /\ e \in joins
     /\ joins' = joins \ {e}
     /\ entities' = Append(entities, new_eid)
     /\ controlled_map' = [eid \in DOMAIN controlled_map \cup {new_eid} |->
                             IF eid = new_eid THEN session[e]
                                              ELSE controlled_map[eid]]
     /\ channel' = Welcome(e, new_eid)
     /\ joined' = joined \cup {e}
     /\ UNCHANGED <<session, now, frame_counter, last_time, snapshots, client,
                    missed>>

\* One pass of the loop, a sleep or more after the last: a sleep is longer
\* than a fixed step, so every pass steps the world, once.
SimulateWorld ==
  /\ now - last_time >= ServerSleep
  /\ frame_counter < MaxFrames
  /\ last_time' = now
  /\ frame_counter' = frame_counter + 1
  /\ snapshots' = [e \in Endpoint |->
                     IF IsOpen(e)
                     THEN snapshots[e] \cup
                            {[eid |-> eid, frameNumber |-> frame_counter,
                              timestamp |-> now] :
                               eid \in {id \in ToSet(entities) :
                                          <<e, id>> \in Seen}}
                     ELSE snapshots[e]]
  /\ UNCHANGED <<session, now, entities, controlled_map, channel, joins, client,
                 joined, missed>>

-----------------------------------------------------------------------------
(* A client *)

\* Once in the life of the client, whatever becomes of it: a client that has
\* not noticed that its session ended sends its Join to nobody.
SendJoin(e) ==
  /\ IsOpen(e) \/ e \in missed
  /\ ~sent_join[e]
  /\ sent_join' = [sent_join EXCEPT ![e] = TRUE]
  /\ \/ IsOpen(e) /\ joins' = joins \cup {e}
     \/ e \in missed /\ UNCHANGED joins
  /\ UNCHANGED <<session, now, server, channel, snapshots, known, my_entity,
                 picture, joined, missed>>

OnNewEntityPacket(e) ==
  /\ channel[e] # <<>>
  /\ Head(channel[e]).type = "NewEntity"
  /\ channel' = [channel EXCEPT ![e] = Tail(@)]
  /\ known' = [known EXCEPT ![e] = @ \cup {Head(channel[e]).eid}]
  /\ UNCHANGED <<session, now, server, joins, snapshots, sent_join, my_entity,
                 picture, joined, missed>>

OnSetControlledEntity(e) ==
  /\ channel[e] # <<>>
  /\ Head(channel[e]).type = "SetControlledEntity"
  /\ channel' = [channel EXCEPT ![e] = Tail(@)]
  /\ my_entity' = [my_entity EXCEPT ![e] = Head(channel[e]).eid]
  /\ UNCHANGED <<session, now, server, joins, snapshots, sent_join, known,
                 picture, joined, missed>>

\* Fault: the newest to arrive is taken for the newest.
Arrived(history, s) == Append(history, s)

\* What std::sort makes of a history: its snapshots by their frames.
Sorted(history) ==
  LET order == CHOOSE p \in Bijection(DOMAIN history, DOMAIN history) :
                 \A i, j \in DOMAIN history :
                   i < j => history[p[i]].frameNumber <= history[p[j]].frameNumber
  IN [i \in DOMAIN history |-> history[order[i]]]

\* The history sorted by frame, if the newest to arrive is not the newest.
Inserted(history, s) ==
  IF history # <<>> /\ s.frameNumber < Last(history).frameNumber
  THEN Sorted(Append(history, s))
  ELSE Append(history, s)

\* Any snapshot the client was sent, however old, and any number of times; one
\* that is lost never comes.  The ship need not be known yet.
OnSnapshot(e, s) ==
  /\ s \in snapshots[e]
  /\ Len(snapshot_history[e][s.eid]) < MaxHistory
  /\ snapshot_history' = [snapshot_history EXCEPT ![e][s.eid] = Inserted(@, s)]
  /\ UNCHANGED <<session, now, server, network, sent_join, known, my_entity,
                 shown, predicted, joined, missed>>

\* Snapshots are dropped from the front as long as the second of more than two
\* is before the target.
Kept(history, target) ==
  LET dropped == Min({k \in 0..Len(history) :
                        \/ Len(history) - k <= 2
                        \/ history[k + 2].timestamp >= target})
  IN SubSeq(history, dropped + 1, Len(history))

\* Where a history that is not empty puts its ship at the target: on its first
\* snapshot, on its last, or between two.
Interpolated(history, target) ==
  IF Len(history) < 2 \/ target <= history[1].timestamp
    THEN history[1].timestamp
  ELSE IF Last(history).timestamp <= target
    THEN Last(history).timestamp
  ELSE target

\* ProcessSnapshotHistory, after any fixed steps of the client's own ship: it
\* puts every ship that has a history where that says, also the client's own.
ProcessSnapshotHistory(e, stepped) ==
  LET target == now - kInterpolationTime
      history == [eid \in Eid |-> Kept(snapshot_history[e][eid], target)]
      own == my_entity[e]
  IN /\ snapshot_history' = [snapshot_history EXCEPT ![e] = history]
     /\ shown' = [shown EXCEPT
                    ![e] = [eid \in Eid |->
                              IF eid \in known[e] /\ history[eid] # <<>>
                              THEN Interpolated(history[eid], target)
                              ELSE @[eid]]]
     /\ predicted' = [predicted EXCEPT
                        ![e] = /\ history[own] = <<>>
                               /\ @ \/ (stepped /\ own \in known[e])]
     /\ UNCHANGED <<session, now, server, network, sent_join, known, my_entity,
                    joined, missed>>

-----------------------------------------------------------------------------
Tick ==
  /\ now < MaxTime
  /\ now' = now + 1
  /\ UNCHANGED <<session, server, network, client, joined, missed>>

Next ==
  \/ \E e \in Endpoint :
       \/ \E p \in Pointer : OnConnected(e, p)
       \/ OnDisconnected(e)
       \/ OnJoin(e)
       \/ SendJoin(e)
       \/ OnNewEntityPacket(e)
       \/ OnSetControlledEntity(e)
       \/ \E s \in snapshots[e] : OnSnapshot(e, s)
       \/ \E stepped \in BOOLEAN : ProcessSnapshotHistory(e, stepped)
  \/ SimulateWorld
  \/ Tick

Spec == Init /\ [][Next]_vars

-----------------------------------------------------------------------------
(* Properties *)

FirstSession(e) == IsOpen(e) /\ e \notin missed

\* Ships keep ids of their own though ids are never looked up for reuse and
\* the first comes from adding one to the largest number; no two clients steer
\* one ship; and the server's map names open sessions only, for each client in
\* its first session the one that the client steers.
ShipsAreDistinct ==
  /\ IsInjective(entities)
  /\ \A e, f \in Endpoint :
       e # f /\ my_entity[e] = my_entity[f] => my_entity[e] = kInvalidEntity
  /\ \A eid \in DOMAIN controlled_map :
       controlled_map[eid] \in OpenHandles \cup {NoClient}
  /\ \A e \in Endpoint :
       FirstSession(e) /\ my_entity[e] # kInvalidEntity =>
         controlled_map[my_entity[e]] = session[e]

\* With the messages of its channel applied, a client in its first session
\* that has joined knows every ship there is; and a client that knows which
\* ship it steers knows that ship, or its inputs would move nothing it draws.
FleetIsKnown ==
  \A e \in Endpoint :
    /\ FirstSession(e) /\ e \in joined =>
         ToSet(entities) = known[e] \cup
           {m.eid : m \in {x \in ToSet(channel[e]) : x.type = "NewEntity"}}
    /\ my_entity[e] # kInvalidEntity => my_entity[e] \in known[e]

\* Server and clients agree on which ships there are and who steers them.
FleetIsAgreed == ShipsAreDistinct /\ FleetIsKnown

\* However snapshots are lost, repeated and reordered, a ship is not seen to
\* move back in time, once it is no longer drawn ahead of the moment aimed at,
\* as it is as long as only newer snapshots have come.
ShownTimeNeverRunsBack ==
  [][\A e \in Endpoint : \A eid \in known[e] :
       shown[e][eid] <= now - kInterpolationTime =>
         shown'[e][eid] >= shown[e][eid]]_vars

\* What the README says of the client (raylib-examples/README.md:11): client
\* prediction.  A client that has stepped its own ship draws it where it has
\* stepped it.  The code does not keep it.
PredictionIsDrawn ==
  [][\A e \in Endpoint :
       ProcessSnapshotHistory(e, TRUE) /\ my_entity[e] \in known[e] =>
         predicted'[e]]_vars
=============================================================================
