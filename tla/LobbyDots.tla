----------------------------- MODULE LobbyDots -----------------------------
(***************************************************************************)
(* The lobby of lobby-dots and the part of its clients that talks to it    *)
(* (raylib-examples/lobby-dots/lobby.cpp and client.cpp).  A client        *)
(* connects to the lobby, somebody presses Enter, and the lobby tells      *)
(* every player where the game server is, once, in a datagram that nothing *)
(* repeats: SendUnsequenced may lose it, duplicate it and overtake it.     *)
(*                                                                         *)
(* The lobby's connections are the sessions of SessionRegistry, which the  *)
(* connection hub implements.                                              *)
(***************************************************************************)
EXTENDS SessionRegistry, Naturals, Sequences, SequencesExt

VARIABLES
  connected_clients,      \* lobby: std::vector<Client*>
  sessionStarted,         \* lobby: somebody has pressed Enter
  told,                   \* history: sent the address in this session
  accepts,                \* network: connects of the lobby on their way
  starts,                 \* network: clients whose "Start!" is on its way
  gameservers,            \* network: clients a "GAMESERVER" is on its way to
  connectedToLobby,       \* client: OnConnected and not yet OnDisconnected
  pendingGameHost,        \* client: whether the string is not empty
  gameConnection          \* client: game_connection, and if it is connected

lobby == <<session, connected_clients, sessionStarted, told>>
network == <<accepts, starts, gameservers>>
client == <<connectedToLobby, pendingGameHost, gameConnection>>
vars == <<lobby, network, client>>

TypeOK ==
  /\ SessionTypeOK
  /\ connected_clients \in Seq(Pointer)
  /\ sessionStarted \in BOOLEAN
  /\ told \subseteq Endpoint
  /\ accepts \subseteq Endpoint
  /\ starts \subseteq Endpoint
  /\ gameservers \subseteq Endpoint
  /\ connectedToLobby \in [Endpoint -> BOOLEAN]
  /\ pendingGameHost \in [Endpoint -> BOOLEAN]
  /\ gameConnection \in [Endpoint -> {"nullptr", "connecting", "connected"}]

Init ==
  /\ SessionInit
  /\ connected_clients = <<>>
  /\ sessionStarted = FALSE
  /\ told = {}
  /\ accepts = {}
  /\ starts = {}
  /\ gameservers = {}
  /\ connectedToLobby = [e \in Endpoint |-> FALSE]
  /\ pendingGameHost = [e \in Endpoint |-> FALSE]
  /\ gameConnection = [e \in Endpoint |-> "nullptr"]

-----------------------------------------------------------------------------
(* The lobby: the three callbacks of its hub *)

SendGameServer(S) ==
  /\ gameservers' = gameservers \cup S
  /\ told' = told \cup S

\* Fault: who arrives late is not told.
WelcomeSilently(e) ==
  /\ told' = told \ {e}
  /\ UNCHANGED gameservers

\* A player who arrives after the start is told at once.
WelcomeNewcomer(e) ==
  \/ sessionStarted /\ SendGameServer({e})
  \/ ~sessionStarted /\ UNCHANGED <<gameservers, told>>

\* Fault: the vector gets the handle the endpoint had before.
PushOldHandle(e, p) ==
  /\ OpenSession(e, p)
  /\ connected_clients' = Append(connected_clients, session[e])
  /\ WelcomeNewcomer(e)
  /\ accepts' = accepts \cup {e}
  /\ UNCHANGED <<sessionStarted, starts, client>>

OnConnected(e, p) ==
  /\ OpenSession(e, p)
  /\ connected_clients' = Append(connected_clients, p)
  /\ WelcomeNewcomer(e)
  /\ accepts' = accepts \cup {e}
  /\ UNCHANGED <<sessionStarted, starts, client>>

\* std::erase: one handle after the other is kept, or is the one to erase.
Erase(clients, handle) ==
  LET kept[i \in 0..Len(clients)] ==
        IF i = 0 THEN <<>>
        ELSE IF clients[i] = handle THEN kept[i - 1]
        ELSE Append(kept[i - 1], clients[i])
  IN kept[Len(clients)]

\* The hub may call twice for one handle.
OnDisconnected(e) ==
  LET once == Erase(connected_clients, session[e])
  IN /\ CloseSession(e)
     /\ connected_clients' \in {once, Erase(once, session[e])}
     /\ told' = told \ {e}
     /\ UNCHANGED <<sessionStarted, network, client>>

\* The endpoints behind the handles of the vector that are connected.
Peers == {e \in Endpoint : IsOpen(e) /\ Contains(connected_clients, session[e])}

\* A datagram that has been delivered may come a second time.
Delivered(e, inFlight) == {inFlight, inFlight \ {e}}

\* Fault: the peers are told, the start is not remembered.
ForgetStart(e) ==
  /\ IsOpen(e)
  /\ e \in starts
  /\ ~sessionStarted
  /\ SendGameServer(Peers)
  /\ starts' \in Delivered(e, starts)
  /\ UNCHANGED <<session, connected_clients, sessionStarted, accepts, client>>

\* The first "Start!" of all: every connected peer is sent the address.
OnStart(e) ==
  /\ IsOpen(e)
  /\ e \in starts
  /\ ~sessionStarted
  /\ sessionStarted' = TRUE
  /\ SendGameServer(Peers)
  /\ starts' \in Delivered(e, starts)
  /\ UNCHANGED <<session, connected_clients, accepts, client>>

\* A later one changes nothing.
OnStartAgain(e) ==
  /\ IsOpen(e)
  /\ e \in starts
  /\ sessionStarted
  /\ starts' = starts \ {e}
  /\ UNCHANGED <<lobby, accepts, gameservers, client>>

-----------------------------------------------------------------------------
(* A client: its lobby handler and its main loop *)

ClientConnected(e) ==
  /\ ~connectedToLobby[e]
  /\ e \in accepts
  /\ connectedToLobby' = [connectedToLobby EXCEPT ![e] = TRUE]
  /\ accepts' = accepts \ {e}
  /\ UNCHANGED <<lobby, starts, gameservers, pendingGameHost, gameConnection>>

ClientDisconnected(e) ==
  /\ connectedToLobby[e]
  /\ connectedToLobby' = [connectedToLobby EXCEPT ![e] = FALSE]
  /\ UNCHANGED <<lobby, network, pendingGameHost, gameConnection>>

\* ConnectNextAddress, every 250 ms while not connected; a lobby that still
\* has a session of this client accepts once more.
RetryConnect(e) ==
  /\ ~connectedToLobby[e]
  /\ IsOpen(e)
  /\ accepts' = accepts \cup {e}
  /\ UNCHANGED <<lobby, starts, gameservers, client>>

PressEnter(e) ==
  /\ connectedToLobby[e]
  /\ starts' = starts \cup {e}
  /\ UNCHANGED <<lobby, accepts, gameservers, client>>

\* "GAMESERVER" counts until the game server has answered.
OnGameServer(e) ==
  /\ connectedToLobby[e]
  /\ e \in gameservers
  /\ pendingGameHost' = [pendingGameHost EXCEPT
                           ![e] = @ \/ gameConnection[e] # "connected"]
  /\ gameservers' \in Delivered(e, gameservers)
  /\ UNCHANGED <<lobby, accepts, starts, connectedToLobby, gameConnection>>

\* The loop finds a game host and has no game connection: it makes one, or
\* it has no socket or cannot resolve the host, and forgets the host.
OpenGameConnection(e) ==
  /\ pendingGameHost[e]
  /\ gameConnection[e] = "nullptr"
  /\ pendingGameHost' = [pendingGameHost EXCEPT ![e] = FALSE]
  /\ gameConnection' \in {[gameConnection EXCEPT ![e] = "connecting"],
                          gameConnection}
  /\ UNCHANGED <<lobby, network, connectedToLobby>>

GameConnected(e) ==
  /\ gameConnection[e] = "connecting"
  /\ gameConnection' = [gameConnection EXCEPT ![e] = "connected"]
  /\ UNCHANGED <<lobby, network, connectedToLobby, pendingGameHost>>

GameDisconnected(e) ==
  /\ gameConnection[e] = "connected"
  /\ gameConnection' = [gameConnection EXCEPT ![e] = "connecting"]
  /\ UNCHANGED <<lobby, network, connectedToLobby, pendingGameHost>>

-----------------------------------------------------------------------------
(* The network loses what it likes, and what finds no session or no client. *)

LoseStart(e) ==
  /\ e \in starts
  /\ starts' = starts \ {e}
  /\ UNCHANGED <<lobby, accepts, gameservers, client>>

LoseGameServer(e) ==
  /\ e \in gameservers
  /\ gameservers' = gameservers \ {e}
  /\ UNCHANGED <<lobby, accepts, starts, client>>

LoseAccept(e) ==
  /\ e \in accepts
  /\ accepts' = accepts \ {e}
  /\ UNCHANGED <<lobby, starts, gameservers, client>>

-----------------------------------------------------------------------------
Next ==
  \E e \in Endpoint :
    \/ \E p \in Pointer : OnConnected(e, p)
    \/ OnDisconnected(e)
    \/ OnStart(e)
    \/ OnStartAgain(e)
    \/ ClientConnected(e)
    \/ ClientDisconnected(e)
    \/ RetryConnect(e)
    \/ PressEnter(e)
    \/ OnGameServer(e)
    \/ OpenGameConnection(e)
    \/ GameConnected(e)
    \/ GameDisconnected(e)
    \/ LoseStart(e)
    \/ LoseGameServer(e)
    \/ LoseAccept(e)

Spec == Init /\ [][Next]_vars

\* The players press Enter again and again; a datagram sent again and again
\* gets through.
Fairness ==
  \A e \in Endpoint :
    /\ WF_vars(PressEnter(e))
    /\ SF_vars(OnStart(e))

FairSpec == Spec /\ Fairness

-----------------------------------------------------------------------------
(* Properties *)

\* The lobby's vector holds every open session's handle, once, and nothing
\* else: the loop that sends "GAMESERVER" (lobby.cpp 113) neither follows a
\* handle the hub has freed or given to somebody else nor misses a player.
HandlesAreOpen ==
  /\ ToSet(connected_clients) = OpenHandles
  /\ IsInjective(connected_clients)

\* Once the session has started, every player in the lobby has been sent the
\* address of the game server in the session it is in, whether it was there
\* at the start or came later, or came back.
NobodyUntold == sessionStarted => told = {e \in Endpoint : IsOpen(e)}

\* The loop over the vector reaches everybody it should and nobody else, and
\* nobody falls between the loop at the start and the message to a newcomer.
EverybodyIsTold == HandlesAreOpen /\ NobodyUntold

StaysConnected(e) == IsOpen(e) /\ connectedToLobby[e]

\* A player who stays in the lobby and keeps pressing Enter starts the game
\* session, however many of the "Start!" datagrams are lost.
EnterStartsTheSession ==
  (\E e \in Endpoint : <>[]StaysConnected(e)) => <>sessionStarted
=============================================================================
