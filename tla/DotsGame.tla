------------------------------ MODULE DotsGame ------------------------------
(***************************************************************************)
(* The game of lobby-dots (raylib-examples/lobby-dots/game_server.cpp and  *)
(* the game half of client.cpp): the server keeps one player per session   *)
(* and every client keeps the list of players it draws, built from         *)
(* unsequenced datagrams only, so a list may be overtaken by an older one, *)
(* and a position by the list that no longer has its player.               *)
(*                                                                         *)
(* Coordinates and pings are left out but for who set a position last; a   *)
(* client is taken to receive whenever a datagram for it is in flight,     *)
(* since being disconnected for a while only delays it.                    *)
(***************************************************************************)
EXTENDS SessionRegistry, Naturals, FiniteSets, Sequences, SequencesExt

CONSTANTS
  MaxId,       \* bound of the model: player ids handed out
  MaxInFlight  \* bound of the model: datagrams in flight to one client, or
               \* as many as it is sent at once

ASSUME BoundsAssumption == MaxId \in Nat /\ MaxInFlight \in Nat \ {0}

VARIABLES
  players,     \* server: std::vector<Player>
  next_id,     \* server: GeneratePlayerId's counter
  owner,       \* history: the endpoint each id was handed out to
  net,         \* network: the datagrams in flight to each client
  myPlayerId,  \* client: 0 for the -1 it starts with
  shown        \* client: the ids of state.players, the dots it draws

gameVars == <<session, players, next_id, owner, net, myPlayerId, shown>>

Id == 1..MaxId

Player == [id : Id, client : Pointer, movedBy : Endpoint \cup {NoClient}]

Message == [kind : {"WELCOME", "PLAYERS", "POS", "PINGS"}, ids : SUBSET Id]

GameTypeOK ==
  /\ SessionTypeOK
  /\ players \in Seq(Player)
  /\ next_id \in 1..MaxId + 1
  /\ owner \in [1..next_id - 1 -> Endpoint]
  /\ net \in [Endpoint -> SUBSET Message]
  /\ myPlayerId \in [Endpoint -> Id \cup {0}]
  /\ shown \in [Endpoint -> SUBSET Id]

GameInit ==
  /\ SessionInit
  /\ players = <<>>
  /\ next_id = 1
  /\ owner = <<>>
  /\ net = [e \in Endpoint |-> {}]
  /\ myPlayerId = [e \in Endpoint |-> 0]
  /\ shown = [e \in Endpoint |-> {}]

-----------------------------------------------------------------------------
(* The server *)

Ids(list) == {list[i].id : i \in DOMAIN list}

\* The endpoints the handles of the list send to.
Receivers(list) ==
  {e \in Endpoint : \E i \in DOMAIN list : list[i].client = session'[e]}

\* Every client e is sent the datagrams in batch[e]; those in flight are lost
\* if there would be too many (fewer may be lost before, by Lose).
Send(batch) ==
  net' = [e \in Endpoint |->
            IF Cardinality(net[e] \cup batch[e]) <= MaxInFlight
            THEN net[e] \cup batch[e]
            ELSE batch[e]]

PlayerList(list) == [kind |-> "PLAYERS", ids |-> Ids(list)]

\* Fault: the welcome is broadcast.
WelcomeEverybody(f, e, id) == {[kind |-> "WELCOME", ids |-> {id}]}

\* What f is sent when e is welcomed as player id.
Welcome(f, e, id) ==
  IF f = e THEN {[kind |-> "WELCOME", ids |-> {id}]} ELSE {}

\* Fault: the counter stays.
SameIdAgain(e) ==
  /\ next_id <= MaxId
  /\ next_id' = next_id
  /\ owner' = Append(owner, e)

GeneratePlayerId(e) ==
  /\ next_id <= MaxId
  /\ next_id' = next_id + 1
  /\ owner' = Append(owner, e)

OnPlayerConnected(e, p) ==
  /\ OpenSession(e, p)
  /\ GeneratePlayerId(e)
  /\ players' = Append(players, [id |-> next_id, client |-> p,
                                 movedBy |-> NoClient])
  /\ Send([f \in Endpoint |->
             (IF f \in Receivers(players') THEN {PlayerList(players')} ELSE {})
             \cup Welcome(f, e, next_id)])
  /\ UNCHANGED <<myPlayerId, shown>>

WithoutClient(list, p) ==
  RemoveFirstMatch(list, LAMBDA player : player.client = p)

\* The hub may call twice for one handle; the second call finds no player.
OnPlayerDisconnected(e) ==
  LET once == WithoutClient(players, session[e])
  IN /\ CloseSession(e)
     /\ players' \in {once, WithoutClient(once, session[e])}
     /\ Send([f \in Endpoint |->
                IF f \in Receivers(players') THEN {PlayerList(players')} ELSE {}])
     /\ UNCHANGED <<next_id, owner, myPlayerId, shown>>

\* "POS x y" of a client moves the player found by the client's handle.
OnPosition(e) ==
  /\ IsOpen(e)
  /\ \E i \in DOMAIN players :
       /\ players[i].client = session[e]
       /\ players' = [players EXCEPT ![i].movedBy = e]
  /\ UNCHANGED <<session, next_id, owner, net, myPlayerId, shown>>

\* Every 50 ms: everybody is sent the position of everybody else.  With no
\* players this sends nothing, as the guard in the loop has it.
BroadcastPositions ==
  /\ UNCHANGED <<session, players, next_id, owner, myPlayerId, shown>>
  /\ Send([e \in Endpoint |->
             IF e \in Receivers(players)
             THEN {[kind |-> "POS", ids |-> {players[i].id}] :
                     i \in {j \in DOMAIN players :
                              players[j].client # session[e]}}
             ELSE {}])

\* Every 500 ms: the list and the pings.
BroadcastListAndPings ==
  /\ UNCHANGED <<session, players, next_id, owner, myPlayerId, shown>>
  /\ Send([e \in Endpoint |->
             IF e \in Receivers(players)
             THEN {PlayerList(players),
                   [kind |-> "PINGS", ids |-> Ids(players)]}
             ELSE {}])

-----------------------------------------------------------------------------
(* A client *)

\* A datagram arrives; another copy of it may come later.
Receive(e, m) ==
  /\ m \in net[e]
  /\ net' \in {net, [net EXCEPT ![e] = @ \ {m}]}
  /\ UNCHANGED <<session, players, next_id, owner>>

OnWelcome(e, m) ==
  /\ m.kind = "WELCOME"
  /\ Receive(e, m)
  /\ \E id \in m.ids : myPlayerId' = [myPlayerId EXCEPT ![e] = id]
  /\ UNCHANGED shown

\* Fault: the list is added to what was there.
AddPlayers(e, m) ==
  /\ m.kind = "PLAYERS"
  /\ Receive(e, m)
  /\ shown' = [shown EXCEPT ![e] = @ \cup m.ids]
  /\ UNCHANGED myPlayerId

\* The list replaces what was there.
OnPlayers(e, m) ==
  /\ m.kind = "PLAYERS"
  /\ Receive(e, m)
  /\ shown' = [shown EXCEPT ![e] = m.ids]
  /\ UNCHANGED myPlayerId

\* A position or a ping of a player the client does not know adds it.
OnPosOrPings(e, m) ==
  /\ m.kind \in {"POS", "PINGS"}
  /\ Receive(e, m)
  /\ shown' = [shown EXCEPT ![e] = @ \cup (m.ids \ {myPlayerId[e]})]
  /\ UNCHANGED myPlayerId

\* The end of every frame puts the client itself in its list.
UpdateLocalPlayer(e) ==
  /\ myPlayerId[e] # 0
  /\ shown' = [shown EXCEPT ![e] = @ \cup {myPlayerId[e]}]
  /\ UNCHANGED <<session, players, next_id, owner, net, myPlayerId>>

Lose(e, m) ==
  /\ m \in net[e]
  /\ net' = [net EXCEPT ![e] = @ \ {m}]
  /\ UNCHANGED <<session, players, next_id, owner, myPlayerId, shown>>

Deliver(e, m) == OnWelcome(e, m) \/ OnPlayers(e, m) \/ OnPosOrPings(e, m)

-----------------------------------------------------------------------------
GameNext ==
  \/ \E e \in Endpoint :
       \/ \E p \in Pointer : OnPlayerConnected(e, p)
       \/ OnPlayerDisconnected(e)
       \/ OnPosition(e)
       \/ \E m \in net[e] :
            \/ OnWelcome(e, m)
            \/ OnPlayers(e, m)
            \/ OnPosOrPings(e, m)
            \/ Lose(e, m)
       \/ UpdateLocalPlayer(e)
  \/ BroadcastPositions
  \/ BroadcastListAndPings

GameSpec == GameInit /\ [][GameNext]_gameVars

\* The timer fires, and a list that is sent again and again arrives again and
\* again.
GameFairness ==
  /\ WF_gameVars(BroadcastListAndPings)
  /\ \A e \in Endpoint :
       /\ SF_gameVars(OnPlayers(e, PlayerList(players)))

GameFairSpec == GameSpec /\ GameFairness

-----------------------------------------------------------------------------
(* Properties *)

\* One player per open session and none besides, each with an id of its own:
\* no broadcast follows the handle of a session that has ended, no session is
\* left without a player, and a dot is only ever moved by whom it stands for.
RosterIsSessions ==
  /\ {players[i].client : i \in DOMAIN players} = OpenHandles
  /\ \A i, j \in DOMAIN players :
       players[i].client = players[j].client \/ players[i].id = players[j].id
         => i = j
  /\ \A i \in DOMAIN players :
       /\ session[owner[players[i].id]] = players[i].client
       /\ players[i].movedBy \in {NoClient, owner[players[i].id]}

\* Whatever is lost, late or repeated, a client only ever takes itself for a
\* player it has been: two clients never claim one dot.
IdentityIsOnesOwn ==
  \A e \in Endpoint : myPlayerId[e] # 0 => owner[myPlayerId[e]] = e

\* From the server's roster to a client's idea of itself a player belongs to
\* one session.
PlayersAreTheirs == RosterIsSessions /\ IdentityIsOnesOwn

IdOf(e) == players[CHOOSE i \in DOMAIN players : players[i].client = session[e]].id

\* Two clients that stay see each other again and again.
EveryoneIsShown ==
  \A e, f \in Endpoint :
    <>[](IsOpen(e) /\ IsOpen(f)) => []<>(IsOpen(f) /\ IdOf(f) \in shown[e])

\* A player who has left does not stay on a screen for ever, resurrected by
\* its own late positions or pings; the one ghost the code allows is the
\* client's own former self, after a WELCOME that was lost.
GhostsVanish ==
  \A e \in Endpoint :
    <>[]IsOpen(e) => []<>(shown[e] \subseteq Ids(players) \cup {myPlayerId[e]})

\* Who stays is shown and who has left is not, again and again, though every
\* message may be lost.
ScreensCatchUp == EveryoneIsShown /\ GhostsVanish
=============================================================================
