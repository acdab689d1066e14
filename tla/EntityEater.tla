---------------------------- MODULE EntityEater ----------------------------
(***************************************************************************)
(* The entity-eater game (raylib-examples/entity-eater): the server owns   *)
(* every entity and its score and runs the clock; each client keeps a copy *)
(* of the entities it has heard of, a leaderboard of their scores and the  *)
(* result.  Copy, score, time and result travel on one reliable ordered    *)
(* channel per session, which dies with the session.                       *)
(*                                                                         *)
(* Positions and sizes are left out: they come with unreliable snapshots,  *)
(* each of which overwrites the one before, and any two entities may       *)
(* collide.  So are the seconds a client shows.  Entity ids are counted    *)
(* from 1, the server's from 0.                                            *)
(*                                                                         *)
(* What a client holds does not depend on whether it thinks it is connected*)
(* but for when it sends its Join, so that flag is left out too: the delay *)
(* of the channel stands for the time a client takes to notice.            *)
(***************************************************************************)
EXTENDS SessionRegistry, Integers, Sequences

CONSTANTS
  NumAi,         \* num_ai
  GameDuration,  \* game_duration, in seconds
  MaxGain,       \* bound of the model: points for one bite
  MaxBites       \* bound of the model: bites in one run of the server

ASSUME EaterAssumption ==
  /\ NumAi \in Nat \ {0}
  /\ GameDuration \in Nat \ {0}
  /\ MaxGain \in Nat
  /\ MaxBites \in Nat

VARIABLES
  scores,               \* server: entities, of which only the score
  controlled_map,       \* server: the handle that controls each entity
  created_ai_entities,  \* server
  game_time_remaining,  \* server
  game_over,            \* server
  bites,                \* bound of the model: bites so far
  channel,              \* network: reliable messages to each client, in order
  joins,                \* network: clients whose Join is on its way
  sent_join,            \* client
  my_entity,            \* client: 0 for kInvalidEntity
  leaderboard,          \* client: the score of each entity in its copy
  result,               \* client: what GameOver said, NoResult before
  joined,               \* history: clients whose Join the server has handled
  missed                \* history: clients that have lost a session

server == <<scores, controlled_map, created_ai_entities, game_time_remaining,
            game_over, bites>>
client == <<my_entity, leaderboard, result>>
vars == <<session, server, channel, joins, sent_join, client, joined, missed>>

NoResult == [winner |-> 0, score |-> -1]

Score == 0..MaxBites * MaxGain

TypeOK ==
  /\ SessionTypeOK
  /\ scores \in Seq(Score)
  /\ DOMAIN controlled_map = DOMAIN scores
  /\ \A eid \in DOMAIN scores : controlled_map[eid] \in Pointer \cup {NoClient}
  /\ created_ai_entities \in BOOLEAN
  /\ game_time_remaining \in 0..GameDuration
  /\ game_over \in BOOLEAN
  /\ bites \in 0..MaxBites
  /\ joins \subseteq Endpoint
  /\ sent_join \in [Endpoint -> BOOLEAN]
  /\ \A e \in Endpoint :
       /\ my_entity[e] \in DOMAIN scores \cup {0}
       /\ DOMAIN leaderboard[e] \subseteq DOMAIN scores
       /\ result[e] = NoResult \/ result[e].winner \in DOMAIN scores
  /\ joined \subseteq Endpoint
  /\ missed \subseteq Endpoint

Init ==
  /\ SessionInit
  /\ scores = <<>>
  /\ controlled_map = <<>>
  /\ created_ai_entities = FALSE
  /\ game_time_remaining = GameDuration
  /\ game_over = FALSE
  /\ bites = 0
  /\ channel = [e \in Endpoint |-> <<>>]
  /\ joins = {}
  /\ sent_join = [e \in Endpoint |-> FALSE]
  /\ my_entity = [e \in Endpoint |-> 0]
  /\ leaderboard = [e \in Endpoint |-> <<>>]
  /\ result = [e \in Endpoint |-> NoResult]
  /\ joined = {}
  /\ missed = {}

-----------------------------------------------------------------------------
(* Messages.  SendReliable to a session that is open does not fail here. *)

NewEntity(eid, score) == [type |-> "NewEntity", eid |-> eid, score |-> score]
SetControlledEntity(eid) == [type |-> "SetControlledEntity", eid |-> eid]
ScoreUpdate(eid, score) == [type |-> "ScoreUpdate", eid |-> eid, score |-> score]

\* Fault: the winner is counted from zero.
WinnerFromZero(eid, score) == [type |-> "GameOver", eid |-> eid - 1, score |-> score]

GameOver(eid, score) == [type |-> "GameOver", eid |-> eid, score |-> score]

\* To every connection that is open, which need not have joined.
SendToAll(messages) ==
  channel' = [e \in Endpoint |->
                IF IsOpen(e) THEN channel[e] \o messages ELSE channel[e]]

-----------------------------------------------------------------------------
(* The server: the callbacks of its hub *)

OnConnected(e, p) ==
  /\ OpenSession(e, p)
  /\ UNCHANGED <<server, channel, joins, sent_join, client, joined, missed>>

\* Fault: the map keeps the handle of who has left.
LeaveInMap(p) == controlled_map

\* The entity of a client that leaves stays, controlled by nobody.
ReleaseControl(p) ==
  [eid \in DOMAIN controlled_map |->
     IF controlled_map[eid] = p THEN NoClient ELSE controlled_map[eid]]

OnDisconnected(e) ==
  /\ CloseSession(e)
  /\ controlled_map' = ReleaseControl(session[e])
  /\ channel' = [channel EXCEPT ![e] = <<>>]
  /\ joins' = joins \ {e}
  /\ missed' = missed \cup {e}
  /\ UNCHANGED <<scores, created_ai_entities, game_time_remaining, game_over,
                 bites, sent_join, client, joined>>

\* The first Join creates the AI entities, which are not broadcast.
Existing ==
  IF created_ai_entities THEN scores ELSE [eid \in 1..NumAi |-> 0]

Listing(list) == [eid \in DOMAIN list |-> NewEntity(eid, list[eid])]

\* The newcomer e is sent what there is, everybody the new entity, and the
\* newcomer which one it controls.
Welcome(e, eid) ==
  channel' = [f \in Endpoint |->
                IF f = e THEN channel[f] \o Listing(Existing)
                                         \o <<NewEntity(eid, 0),
                                              SetControlledEntity(eid)>>
                ELSE IF IsOpen(f) THEN Append(channel[f], NewEntity(eid, 0))
                ELSE channel[f]]

OnJoin(e) ==
  LET new_eid == Len(Existing) + 1
  IN /\ IsOpen(e)
     /\ e \in joins
     /\ joins' = joins \ {e}
     /\ created_ai_entities' = TRUE
     /\ scores' = Append(Existing, 0)
     /\ controlled_map' = [eid \in 1..new_eid |->
                             IF eid = new_eid THEN session[e]
                             ELSE IF created_ai_entities THEN controlled_map[eid]
                             ELSE NoClient]
     /\ Welcome(e, new_eid)
     /\ joined' = joined \cup {e}
     /\ UNCHANGED <<session, game_time_remaining, game_over, bites,
                    sent_join, client, missed>>

-----------------------------------------------------------------------------
(* The server: its loop *)

\* Fault: the lowest score wins.
LastOfAll ==
  CHOOSE eid \in DOMAIN scores :
    \A other \in DOMAIN scores : scores[other] >= scores[eid]

\* The first entity, in the order of the vector, with the highest score.
Leader ==
  CHOOSE eid \in DOMAIN scores :
    /\ \A other \in DOMAIN scores : scores[other] <= scores[eid]
    /\ \A other \in 1..eid - 1 : scores[other] < scores[eid]

\* A second has passed; the game is over when none is left.
ClockTicks ==
  /\ ~game_over
  /\ created_ai_entities
  /\ game_time_remaining' = game_time_remaining - 1
  /\ game_over' = (game_time_remaining' <= 0)
  /\ SendToAll(IF game_over' THEN <<GameOver(Leader, scores[Leader])>> ELSE <<>>)
  /\ UNCHANGED <<session, scores, controlled_map, created_ai_entities, bites,
                 joins, sent_join, client, joined, missed>>

Bite(devourer, devoured, gain) ==
  /\ scores' = [scores EXCEPT ![devourer] = @ + gain, ![devoured] = 0]
  /\ SendToAll(<<ScoreUpdate(devourer, scores'[devourer]),
                 ScoreUpdate(devoured, 0)>>)

\* Two entities collide; also after the game is over.  The smallest is worth
\* a point at least.
Collision ==
  \E devourer, devoured \in DOMAIN scores, gain \in 1..MaxGain :
    /\ devourer # devoured
    /\ bites < MaxBites
    /\ bites' = bites + 1
    /\ Bite(devourer, devoured, gain)
    /\ UNCHANGED <<session, controlled_map, created_ai_entities,
                   game_time_remaining, game_over, joins, sent_join, client,
                   joined, missed>>

-----------------------------------------------------------------------------
(* A client *)

\* Once in the life of the client, whatever becomes of it: a client that has
\* not noticed that its session ended sends its Join to nobody.
SendJoin(e) ==
  /\ IsOpen(e) \/ e \in missed
  /\ ~sent_join[e]
  /\ sent_join' = [sent_join EXCEPT ![e] = TRUE]
  /\ \/ IsOpen(e) /\ joins' = joins \cup {e}
     \/ e \in missed /\ UNCHANGED joins
  /\ UNCHANGED <<session, server, channel, client, joined, missed>>

\* An entity the client knows already keeps the score it has.
WithEntity(copy, eid, score) ==
  IF eid \in DOMAIN copy THEN copy
  ELSE [k \in DOMAIN copy \cup {eid} |-> IF k = eid THEN score ELSE copy[k]]

WithScore(copy, eid, score) ==
  IF eid \in DOMAIN copy THEN [copy EXCEPT ![eid] = score] ELSE copy

Scored(copy, m) ==
  CASE m.type = "NewEntity"   -> WithEntity(copy, m.eid, m.score)
    [] m.type = "ScoreUpdate" -> WithScore(copy, m.eid, m.score)
    [] OTHER                  -> copy

\* ProcessPacket: the next message of the channel.
ProcessPacket(e) ==
  LET m == Head(channel[e])
  IN /\ channel[e] # <<>>
     /\ channel' = [channel EXCEPT ![e] = Tail(@)]
     /\ leaderboard' = [leaderboard EXCEPT ![e] = Scored(@, m)]
     /\ my_entity' = [my_entity EXCEPT
                        ![e] = IF m.type = "SetControlledEntity" THEN m.eid ELSE @]
     /\ result' = [result EXCEPT
                     ![e] = IF m.type = "GameOver"
                            THEN [winner |-> m.eid, score |-> m.score] ELSE @]
     /\ UNCHANGED <<session, server, joins, sent_join, joined, missed>>

-----------------------------------------------------------------------------
Next ==
  \/ \E e \in Endpoint :
       \/ \E p \in Pointer : OnConnected(e, p)
       \/ OnDisconnected(e)
       \/ OnJoin(e)
       \/ SendJoin(e)
       \/ ProcessPacket(e)
  \/ ClockTicks
  \/ Collision

Spec == Init /\ [][Next]_vars

-----------------------------------------------------------------------------
(* Properties *)

FirstSession(e) == IsOpen(e) /\ e \notin missed

\* A copy as it is after each of a list of messages, the first being none.
Reading(copy, messages) ==
  LET read[i \in 0..Len(messages)] ==
        IF i = 0 THEN copy ELSE Scored(read[i - 1], messages[i])
  IN read

\* A client still in its first session is never wrong about a score but for
\* what is on its way: with the messages of its channel applied, its copy has
\* the server's score of every entity it knows, and once it has joined it
\* knows them all, AI entities and those of earlier players included.
LeaderboardIsExact ==
  \A e \in Endpoint : FirstSession(e) =>
    LET copy == Reading(leaderboard[e], channel[e])[Len(channel[e])]
    IN /\ \A eid \in DOMAIN copy : copy[eid] = scores[eid]
       /\ e \in joined => DOMAIN copy = DOMAIN scores

\* Who plays in its first session and is told the result sees it confirmed by
\* its own leaderboard at that moment: the scores it shows do not lag behind
\* the verdict.
VerdictMatchesLeaderboard ==
  [][\A e \in Endpoint :
       /\ result'[e] # result[e]
       /\ FirstSession(e)
       /\ my_entity[e] # 0
       => LET board == leaderboard[e]
              verdict == result'[e]
          IN /\ board[verdict.winner] = verdict.score
             /\ \A eid \in DOMAIN board : board[eid] <= verdict.score]_vars

\* What a client shows of the scores is the truth, all along and at the end.
ScoresAreTrue == []LeaderboardIsExact /\ VerdictMatchesLeaderboard

\* No two clients steer one entity, whoever left and came back meanwhile; the
\* server's map names an open session or nobody, and never two for a client.
ControlIsExclusive ==
  /\ \A e, f \in Endpoint : my_entity[e] = my_entity[f] /\ e # f => my_entity[e] = 0
  /\ \A eid \in DOMAIN controlled_map :
       controlled_map[eid] # NoClient =>
         \E e \in Endpoint :
           /\ session[e] = controlled_map[eid]
           /\ my_entity[e] \in {0, eid}
           /\ \A other \in DOMAIN controlled_map :
                controlled_map[other] = controlled_map[eid] => other = eid
=============================================================================
