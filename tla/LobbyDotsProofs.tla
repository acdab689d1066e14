--------------------------- MODULE LobbyDotsProofs ---------------------------
(***************************************************************************)
(* Every player of the lobby is told where the game server is, whatever    *)
(* the order of arrivals, departures and the start, and the list the lobby *)
(* goes through holds the handles of its open sessions; and in the game    *)
(* that follows every dot is moved by, and taken for its own by, the one   *)
(* client it was made for.  Both for any number of players.                *)
(***************************************************************************)
EXTENDS LobbyDots, DotsGame, OperatorProofs, TLAPS

USE NoClientAssumption

-----------------------------------------------------------------------------
(* std::erase *)

\* The recursion of Erase defines a function: one value for each prefix.
LEMMA EraseRecursion ==
  ASSUME NEW S, NEW clients \in Seq(S), NEW handle
  PROVE  \E kept :
           /\ Erase(clients, handle) = kept[Len(clients)]
           /\ kept[0] = <<>>
           /\ \A i \in 1..Len(clients) :
                kept[i] = IF clients[i] = handle THEN kept[i - 1]
                          ELSE Append(kept[i - 1], clients[i])
<1> DEFINE n == Len(clients)
           Value(f, i) == IF i = 0 THEN <<>>
                          ELSE IF clients[i] = handle THEN f[i - 1]
                          ELSE Append(f[i - 1], clients[i])
           Solved == {m \in 0..n : \E f : f = [i \in 0..m |-> Value(f, i)]}
<1>1. n \in Nat
  BY LenProperties
<1>2. 0 \in Solved
  <2> DEFINE f == [i \in 0..0 |-> <<>>]
  <2>1. f = [i \in 0..0 |-> Value(f, i)]
    OBVIOUS
  <2>2. 0 \in 0..n
    BY <1>1
  <2> QED
    BY <2>1, <2>2
<1>3. ASSUME NEW m \in 0..n - 1, m \in Solved PROVE m + 1 \in Solved
  <2>1. PICK f : f = [i \in 0..m |-> Value(f, i)]
    BY <1>3
  <2> DEFINE g == [i \in 0..m + 1 |-> IF i <= m THEN f[i] ELSE Value(f, i)]
  <2>2. m \in Nat /\ m + 1 \in 0..n
    BY <1>1
  <2>3. ASSUME NEW i \in 0..m + 1 PROVE g[i] = Value(g, i)
    <3>1. \A k \in 0..m : f[k] = Value(f, k)
      BY <2>1
    <3>2. i <= m => i \in 0..m
      BY <2>2
    <3>3. g[i] = Value(f, i)
      BY <3>1, <3>2
    <3>4. i # 0 => i - 1 \in 0..m + 1 /\ i - 1 <= m
      BY <2>2
    <3>5. i # 0 => g[i - 1] = f[i - 1]
      BY <3>4
    <3> HIDE DEF g
    <3> QED
      BY <3>3, <3>5
  <2>4. g = [i \in 0..m + 1 |-> g[i]]
    OBVIOUS
  <2> HIDE DEF g
  <2>5. g = [i \in 0..m + 1 |-> Value(g, i)]
    BY <2>3, <2>4
  <2> QED
    BY <2>2, <2>5
<1>4. n \in Solved
  <2>1. n \in 0..n
    BY <1>1
  <2> HIDE DEF Solved, n
  <2> QED
    BY <1>1, <1>2, <1>3, <2>1, AllNumbers
<1>5. PICK f : f = [i \in 0..n |-> Value(f, i)]
  BY <1>4, SMTT(40)
<1> DEFINE kept == CHOOSE g : g = [i \in 0..n |-> Value(g, i)]
<1>6. kept = [i \in 0..n |-> Value(kept, i)]
  BY <1>5
<1>7. Erase(clients, handle) = kept[n]
  BY DEF Erase
<1> HIDE DEF kept
<1>8. \A i \in 0..n : kept[i] = Value(kept, i)
  BY <1>6
<1>9. kept[0] = <<>>
  BY <1>1, <1>8
<1>10. \A i \in 1..n : i \in 0..n /\ i # 0
  BY <1>1
<1> QED
  BY <1>7, <1>8, <1>9, <1>10

\* What is left is what was there without the handle, once if it was there
\* once.
LEMMA ErasedElements ==
  ASSUME NEW S, NEW clients \in Seq(S), NEW handle
  PROVE  /\ Erase(clients, handle) \in Seq(S)
         /\ ToSet(Erase(clients, handle)) = ToSet(clients) \ {handle}
         /\ IsInjective(clients) => IsInjective(Erase(clients, handle))
<1>1. PICK kept :
        /\ Erase(clients, handle) = kept[Len(clients)]
        /\ kept[0] = <<>>
        /\ \A i \in 1..Len(clients) :
             kept[i] = IF clients[i] = handle THEN kept[i - 1]
                       ELSE Append(kept[i - 1], clients[i])
  BY EraseRecursion
<1>2. PICK n \in Nat : n = Len(clients) /\ DOMAIN clients = 1..n
  BY LenProperties
<1> DEFINE First(m) == {clients[j] : j \in 1..m}
           Right == {m \in 0..n :
                       /\ kept[m] \in Seq(S)
                       /\ ToSet(kept[m]) = First(m) \ {handle}
                       /\ IsInjective(clients) => IsInjective(kept[m])}
<1>3. 0 \in Right
  <2>1. <<>> \in Seq(S) /\ First(0) = {} /\ 0 \in 0..n
    BY <1>2, EmptySeq
  <2> QED
    BY <1>1, <2>1, NoElements
<1>4. ASSUME NEW m \in 0..n - 1, m \in Right PROVE m + 1 \in Right
  <2>1. /\ m \in Nat /\ m + 1 \in 1..n /\ m + 1 \in 0..n /\ (m + 1) - 1 = m
        /\ m + 1 \notin 1..m /\ 1..m + 1 = 1..m \cup {m + 1}
        /\ 1..m \subseteq 1..n
    BY <1>2
  <2>2. clients[m + 1] \in S
    BY <1>2, <2>1, ElementOfSeq
  <2>3. First(m + 1) = First(m) \cup {clients[m + 1]}
    BY <2>1
  <2>4. kept[m] \in Seq(S) /\ ToSet(kept[m]) = First(m) \ {handle}
    BY <1>4
  <2>5. CASE clients[m + 1] = handle
    <3>1. kept[m + 1] = kept[m]
      BY <1>1, <1>2, <2>1, <2>5
    <3> QED
      BY <1>4, <2>1, <2>3, <2>5, <3>1
  <2>6. CASE clients[m + 1] # handle
    <3>1. kept[m + 1] = Append(kept[m], clients[m + 1])
      BY <1>1, <1>2, <2>1, <2>6
    <3>2. /\ kept[m + 1] \in Seq(S)
          /\ ToSet(kept[m + 1]) = ToSet(kept[m]) \cup {clients[m + 1]}
      BY <2>2, <2>4, <3>1, AppendedElements, AppendProperties
    <3>3. ASSUME IsInjective(clients) PROVE IsInjective(kept[m + 1])
      <4>1. \A j \in 1..m : clients[j] # clients[m + 1]
        BY <1>2, <2>1, <3>3 DEF IsInjective
      <4>2. clients[m + 1] \notin ToSet(kept[m])
        BY <2>4, <4>1
      <4> QED
        BY <1>4, <2>2, <2>4, <3>1, <3>3, <4>2, AppendedElements
    <3>4. ToSet(kept[m + 1]) = First(m + 1) \ {handle}
      BY <2>3, <2>4, <2>6, <3>2
    <3> QED
      BY <2>1, <3>2, <3>3, <3>4
  <2> QED
    BY <2>5, <2>6
<1>5. n \in Right
  <2>1. n \in 0..n
    BY <1>2
  <2> HIDE DEF Right
  <2> QED
    BY <1>2, <1>3, <1>4, <2>1, AllNumbers
<1>6. First(n) = ToSet(clients)
  BY <1>2 DEF ToSet
<1> QED
  BY <1>1, <1>2, <1>5, <1>6

-----------------------------------------------------------------------------
(* The inductive invariant *)

\* No two open sessions share a handle.
SessionsAreDistinct ==
  \A e, f \in Endpoint : IsOpen(e) /\ session[e] = session[f] => e = f

\* Before the start nobody is told, after it everybody: what a departure
\* takes from told is what it takes from the open sessions.
ToldIsExact ==
  told = IF sessionStarted THEN {e \in Endpoint : IsOpen(e)} ELSE {}

IInv ==
  /\ TypeOK
  /\ SessionsAreDistinct
  /\ HandlesAreOpen
  /\ ToldIsExact

LEMMA InitIInv == Init => IInv
<1> SUFFICES ASSUME Init PROVE IInv
  OBVIOUS
<1>1. \A e \in Endpoint : session[e] = NoClient
  BY DEF Init, SessionInit
<1>2. TypeOK
  <2>1. connected_clients \in Seq(Pointer)
    BY EmptySeq DEF Init
  <2> QED
    BY <2>1 DEF Init, SessionInit, TypeOK, SessionTypeOK
<1>3. SessionsAreDistinct
  BY <1>1 DEF SessionsAreDistinct, IsOpen
<1>4. HandlesAreOpen
  BY <1>1, NoElements DEF Init, HandlesAreOpen, OpenHandles
<1>5. ToldIsExact
  BY DEF Init, ToldIsExact
<1> QED
  BY <1>2, <1>3, <1>4, <1>5 DEF IInv

-----------------------------------------------------------------------------
(* The callbacks of the lobby *)

\* A newcomer is appended, and told if the session has started.
LEMMA OnConnectedStep ==
  ASSUME IInv, NEW e \in Endpoint, NEW p \in Pointer, OnConnected(e, p)
  PROVE  IInv'
<1>1. /\ session[e] = NoClient /\ p \notin OpenHandles /\ p # NoClient
      /\ session' = [session EXCEPT ![e] = p]
      /\ connected_clients' = Append(connected_clients, p)
      /\ WelcomeNewcomer(e)
      /\ accepts' = accepts \cup {e}
      /\ UNCHANGED <<sessionStarted, starts, client>>
  BY DEF OnConnected, OpenSession, IsOpen
<1>2. /\ session' \in [Endpoint -> Pointer \cup {NoClient}] /\ session'[e] = p
      /\ \A f \in Endpoint \ {e} : session'[f] = session[f]
  BY <1>1 DEF IInv, TypeOK, SessionTypeOK
<1>3. told' = (IF sessionStarted THEN told \cup {e} ELSE told)
      /\ gameservers' \subseteq gameservers \cup {e}
  BY <1>1 DEF WelcomeNewcomer, SendGameServer
<1>4. connected_clients \in Seq(Pointer)
  BY DEF IInv, TypeOK
<1>5. TypeOK'
  <2>1. connected_clients' \in Seq(Pointer)
    BY <1>1, <1>4, AppendProperties
  <2> QED
    BY <1>1, <1>2, <1>3, <2>1 DEF IInv, TypeOK, SessionTypeOK, client
<1>6. SessionsAreDistinct'
  BY <1>1, <1>2 DEF IInv, SessionsAreDistinct, IsOpen, OpenHandles
<1>7. HandlesAreOpen'
  <2>1. /\ ToSet(connected_clients') = ToSet(connected_clients) \cup {p}
        /\ p \notin ToSet(connected_clients) /\ IsInjective(connected_clients)
             => IsInjective(connected_clients')
    BY <1>1, <1>4, AppendedElements
  <2>2. OpenHandles' = OpenHandles \cup {p}
    BY <1>1, <1>2 DEF OpenHandles
  <2> QED
    BY <1>1, <2>1, <2>2 DEF IInv, HandlesAreOpen
<1>8. ToldIsExact'
  BY <1>1, <1>2, <1>3, ZenonT(40) DEF IInv, ToldIsExact, IsOpen
<1> QED
  BY <1>5, <1>6, <1>7, <1>8 DEF IInv

\* The handle is erased, and nobody else's, also when it is erased twice.
LEMMA OnDisconnectedStep ==
  ASSUME IInv, NEW e \in Endpoint, OnDisconnected(e)
  PROVE  IInv'
<1>1. /\ session[e] # NoClient
      /\ session' = [session EXCEPT ![e] = NoClient]
      /\ \/ connected_clients' = Erase(connected_clients, session[e])
         \/ connected_clients' = Erase(Erase(connected_clients, session[e]), session[e])
      /\ told' = told \ {e}
      /\ UNCHANGED <<sessionStarted, network, client>>
  BY DEF OnDisconnected, CloseSession, IsOpen
<1>2. /\ session' \in [Endpoint -> Pointer \cup {NoClient}] /\ session'[e] = NoClient
      /\ \A f \in Endpoint \ {e} : session'[f] = session[f]
  BY <1>1 DEF IInv, TypeOK, SessionTypeOK
<1>3. /\ connected_clients' \in Seq(Pointer)
      /\ ToSet(connected_clients') = ToSet(connected_clients) \ {session[e]}
      /\ IsInjective(connected_clients) => IsInjective(connected_clients')
  <2>1. connected_clients \in Seq(Pointer)
    BY DEF IInv, TypeOK
  <2>2. PICK once : once = Erase(connected_clients, session[e])
    OBVIOUS
  <2>3. /\ once \in Seq(Pointer)
        /\ ToSet(once) = ToSet(connected_clients) \ {session[e]}
        /\ IsInjective(connected_clients) => IsInjective(once)
    BY <2>1, <2>2, ErasedElements
  <2>4. PICK twice : twice = Erase(once, session[e])
    OBVIOUS
  <2>5. /\ twice \in Seq(Pointer)
        /\ ToSet(twice) = ToSet(once) \ {session[e]}
        /\ IsInjective(once) => IsInjective(twice)
    BY <2>3, <2>4, ErasedElements
  <2>6. connected_clients' = once \/ connected_clients' = twice
    BY <1>1, <2>2, <2>4
  <2> QED
    BY <2>3, <2>5, <2>6
<1>4. TypeOK'
  BY <1>1, <1>2, <1>3 DEF IInv, TypeOK, SessionTypeOK, network, client
<1>5. SessionsAreDistinct'
  BY <1>2 DEF IInv, SessionsAreDistinct, IsOpen
<1>6. HandlesAreOpen'
  <2>1. \A f \in Endpoint \ {e} : session[f] # session[e]
    BY <1>1 DEF IInv, SessionsAreDistinct, IsOpen
  <2>2. OpenHandles' = OpenHandles \ {session[e]}
    BY <1>2, <2>1 DEF OpenHandles
  <2> QED
    BY <1>3, <2>2 DEF IInv, HandlesAreOpen
<1>7. ToldIsExact'
  BY <1>1, <1>2 DEF IInv, ToldIsExact, IsOpen
<1> QED
  BY <1>4, <1>5, <1>6, <1>7 DEF IInv

\* The loop at the start reaches every open session.
LEMMA OnStartStep ==
  ASSUME IInv, NEW e \in Endpoint, OnStart(e)
  PROVE  IInv'
<1>1. /\ ~sessionStarted
      /\ sessionStarted' = TRUE
      /\ gameservers' = gameservers \cup Peers
      /\ told' = told \cup Peers
      /\ starts' \subseteq starts
      /\ UNCHANGED <<session, connected_clients, accepts, client>>
  BY DEF OnStart, SendGameServer, Delivered
<1>2. Peers = {f \in Endpoint : IsOpen(f)}
  <2>1. connected_clients \in Seq(Pointer)
    BY DEF IInv, TypeOK
  <2>2. DOMAIN connected_clients = 1..Len(connected_clients)
    BY <2>1, LenProperties
  <2>3. \A f \in Endpoint : IsOpen(f) => session[f] \in ToSet(connected_clients)
    BY DEF IInv, HandlesAreOpen, OpenHandles, IsOpen
  <2>4. \A f \in Endpoint : IsOpen(f) => Contains(connected_clients, session[f])
    BY <2>2, <2>3 DEF ToSet, Contains
  <2> QED
    BY <2>4 DEF Peers
<1>3. TypeOK'
  BY <1>1, <1>2 DEF IInv, TypeOK, SessionTypeOK, client
<1>4. SessionsAreDistinct' /\ HandlesAreOpen'
  BY <1>1 DEF IInv, SessionsAreDistinct, HandlesAreOpen, OpenHandles, IsOpen
<1>5. ToldIsExact'
  BY <1>1, <1>2 DEF IInv, ToldIsExact, IsOpen
<1> QED
  BY <1>3, <1>4, <1>5 DEF IInv

-----------------------------------------------------------------------------
(* The rest leaves the lobby as it is. *)

LEMMA LobbyIsLeft ==
  ASSUME IInv, TypeOK', UNCHANGED lobby
  PROVE  IInv'
BY DEF IInv, lobby, SessionsAreDistinct, HandlesAreOpen, OpenHandles,
       ToldIsExact, IsOpen

LEMMA NetworkStep ==
  ASSUME IInv, NEW e \in Endpoint,
         OnStartAgain(e) \/ PressEnter(e) \/ RetryConnect(e)
           \/ LoseStart(e) \/ LoseGameServer(e) \/ LoseAccept(e)
  PROVE  IInv'
<1>1. /\ starts' \subseteq starts \cup {e} /\ accepts' \subseteq accepts \cup {e}
      /\ gameservers' \subseteq gameservers
      /\ UNCHANGED <<lobby, client>>
  BY DEF OnStartAgain, PressEnter, RetryConnect, LoseStart, LoseGameServer, LoseAccept
<1>2. TypeOK'
  BY <1>1 DEF IInv, TypeOK, SessionTypeOK, lobby, client
<1> QED
  BY <1>1, <1>2, LobbyIsLeft

LEMMA ClientStep ==
  ASSUME IInv, NEW e \in Endpoint,
         ClientConnected(e) \/ ClientDisconnected(e) \/ OnGameServer(e)
           \/ OpenGameConnection(e) \/ GameConnected(e) \/ GameDisconnected(e)
  PROVE  IInv'
<1>1. /\ starts' \subseteq starts /\ accepts' \subseteq accepts
      /\ gameservers' \subseteq gameservers
      /\ UNCHANGED lobby
  BY DEF ClientConnected, ClientDisconnected, OnGameServer, OpenGameConnection,
         GameConnected, GameDisconnected, Delivered, network
<1>2. connectedToLobby' \in [Endpoint -> BOOLEAN]
  BY DEF IInv, TypeOK, ClientConnected, ClientDisconnected, OnGameServer,
         OpenGameConnection, GameConnected, GameDisconnected
<1>3. pendingGameHost' \in [Endpoint -> BOOLEAN]
  BY DEF IInv, TypeOK, ClientConnected, ClientDisconnected, OnGameServer,
         OpenGameConnection, GameConnected, GameDisconnected
<1>4. gameConnection' \in [Endpoint -> {"nullptr", "connecting", "connected"}]
  BY DEF IInv, TypeOK, ClientConnected, ClientDisconnected, OnGameServer,
         OpenGameConnection, GameConnected, GameDisconnected
<1>5. TypeOK'
  BY <1>1, <1>2, <1>3, <1>4 DEF IInv, TypeOK, SessionTypeOK, lobby
<1> QED
  BY <1>1, <1>5, LobbyIsLeft

LEMMA NextIInv == IInv /\ [Next]_vars => IInv'
<1> SUFFICES ASSUME IInv, [Next]_vars PROVE IInv'
  OBVIOUS
<1>1. CASE UNCHANGED vars
  <2>1. UNCHANGED lobby /\ UNCHANGED <<network, client>>
    BY <1>1 DEF vars
  <2>2. TypeOK'
    BY <2>1 DEF IInv, TypeOK, SessionTypeOK, lobby, network, client
  <2> QED
    BY <2>1, <2>2, LobbyIsLeft
<1>2. ASSUME NEW e \in Endpoint, NEW p \in Pointer, OnConnected(e, p) PROVE IInv'
  BY <1>2, OnConnectedStep
<1>3. ASSUME NEW e \in Endpoint, OnDisconnected(e) PROVE IInv'
  BY <1>3, OnDisconnectedStep
<1>4. ASSUME NEW e \in Endpoint, OnStart(e) PROVE IInv'
  BY <1>4, OnStartStep
<1>5. ASSUME NEW e \in Endpoint,
             OnStartAgain(e) \/ PressEnter(e) \/ RetryConnect(e)
               \/ LoseStart(e) \/ LoseGameServer(e) \/ LoseAccept(e)
      PROVE  IInv'
  BY <1>5, NetworkStep
<1>6. ASSUME NEW e \in Endpoint,
             ClientConnected(e) \/ ClientDisconnected(e) \/ OnGameServer(e)
               \/ OpenGameConnection(e) \/ GameConnected(e) \/ GameDisconnected(e)
      PROVE  IInv'
  BY <1>6, ClientStep
<1> QED
  BY <1>1, <1>2, <1>3, <1>4, <1>5, <1>6 DEF Next

\* Lobby, network and clients keep the states the code declares for them.
THEOREM TypeIsKept == Spec => []TypeOK
<1>1. IInv => TypeOK
  BY DEF IInv
<1> QED
  BY <1>1, InitIInv, NextIInv, PTL DEF Spec

\* However players come, go and come back around the start, the loop of the
\* lobby reaches every open session and no other handle
\* (raylib-examples/lobby-dots/lobby.cpp, connected_clients), and after the
\* start every player has been sent the address in the session it is in, by
\* the loop or by the message to a newcomer.
THEOREM EverybodyStaysTold == Spec => []EverybodyIsTold
<1>1. IInv => EverybodyIsTold
  BY DEF IInv, EverybodyIsTold, NobodyUntold, ToldIsExact
<1> QED
  BY <1>1, InitIInv, NextIInv, PTL DEF Spec

-----------------------------------------------------------------------------
(* The game server and its clients: a program of its own, with a hub of its  *)
(* own.  What follows is about GameSpec only, in which session stands for    *)
(* the sessions of that hub; nothing is stated of both programs at once.     *)

USE BoundsAssumption

\* What names a player, on the server, in a welcome or at a client, is an id
\* that was handed out, and in a welcome it is the receiver's.
IdsAreHandedOut ==
  /\ \A i \in DOMAIN players : players[i].id < next_id
  /\ \A e \in Endpoint : myPlayerId[e] < next_id
  /\ \A e \in Endpoint : \A m \in net[e] :
       m.kind = "WELCOME" => \A id \in m.ids : id < next_id /\ owner[id] = e

GameInv ==
  /\ GameTypeOK
  /\ SessionsAreDistinct
  /\ IdsAreHandedOut
  /\ RosterIsSessions
  /\ IdentityIsOnesOwn

LEMMA InitGameInv == GameInit => GameInv
<1> SUFFICES ASSUME GameInit PROVE GameInv
  OBVIOUS
<1>1. /\ \A e \in Endpoint : session[e] = NoClient
      /\ \A e \in Endpoint : net[e] = {} /\ myPlayerId[e] = 0
      /\ players = <<>> /\ owner = <<>> /\ next_id = 1
  BY DEF GameInit, SessionInit
<1>2. DOMAIN players = {}
  BY <1>1
<1>3. GameTypeOK
  <2>1. players \in Seq(Player)
    BY <1>1, EmptySeq
  <2>2. owner \in [1..next_id - 1 -> Endpoint]
    BY <1>1
  <2> QED
    BY <1>1, <2>1, <2>2
       DEF GameInit, SessionInit, GameTypeOK, SessionTypeOK, Message, Id
<1>4. SessionsAreDistinct
  BY <1>1 DEF SessionsAreDistinct, IsOpen
<1>5. IdsAreHandedOut
  BY <1>1, <1>2 DEF IdsAreHandedOut
<1>6. RosterIsSessions
  <2>1. OpenHandles = {}
    BY <1>1 DEF OpenHandles
  <2> QED
    BY <1>2, <2>1 DEF RosterIsSessions
<1>7. IdentityIsOnesOwn
  BY <1>1 DEF IdentityIsOnesOwn
<1> QED
  BY <1>3, <1>4, <1>5, <1>6, <1>7 DEF GameInv

\* What is sent is added to what is in flight, or takes its place.
LEMMA SentOrLost ==
  ASSUME NEW batch, Send(batch), NEW f \in Endpoint, NEW m \in net'[f]
  PROVE  m \in net[f] \/ m \in batch[f]
BY DEF Send

\* One element taken out of a list.
LEMMA OneIsTakenOut ==
  ASSUME NEW S, NEW s \in Seq(S), NEW k \in 1..Len(s)
  PROVE  LET rest == RemoveAt(s, k)
         IN /\ rest \in Seq(S)
            /\ Len(rest) = Len(s) - 1
            /\ \A i \in 1..Len(s) - 1 : rest[i] = s[IF i < k THEN i ELSE i + 1]
<1>1. PICK n \in Nat : n = Len(s) /\ DOMAIN s = 1..n /\ \A i \in 1..n : s[i] \in S
  BY LenProperties
<1>2. k \in 1..n
  BY <1>1
<1>3. PICK a \in Seq(S) : /\ a = SubSeq(s, 1, k - 1) /\ Len(a) = k - 1
                          /\ \A i \in 1..k - 1 : a[i] = s[i]
  <2>1. \A i \in 1..k - 1 : s[i] \in S
    BY <1>1, <1>2
  <2>2. 1 \in Int /\ k - 1 \in Int
    BY <1>2
  <2>3. /\ SubSeq(s, 1, k - 1) \in Seq(S)
        /\ Len(SubSeq(s, 1, k - 1)) = IF 1 <= k - 1 THEN (k - 1) - 1 + 1 ELSE 0
        /\ \A i \in 1..(k - 1) - 1 + 1 : SubSeq(s, 1, k - 1)[i] = s[1 + i - 1]
    BY <2>1, <2>2, SubSeqProperties
  <2>4. (IF 1 <= k - 1 THEN (k - 1) - 1 + 1 ELSE 0) = k - 1
    BY <1>2
  <2>5. \A i \in 1..k - 1 : i \in 1..(k - 1) - 1 + 1 /\ 1 + i - 1 = i
    BY <1>2
  <2>6. Len(SubSeq(s, 1, k - 1)) = k - 1
    BY <2>3, <2>4
  <2>7. \A i \in 1..k - 1 : SubSeq(s, 1, k - 1)[i] = s[i]
    BY <2>3, <2>5, ZenonT(40)
  <2> QED
    BY <2>3, <2>6, <2>7
<1>4. PICK b \in Seq(S) : /\ b = SubSeq(s, k + 1, n) /\ Len(b) = n - k
                          /\ \A i \in 1..n - k : b[i] = s[k + i]
  <2>1. \A i \in k + 1..n : s[i] \in S
    BY <1>1, <1>2
  <2>2. k + 1 \in Int /\ n \in Int
    BY <1>1, <1>2
  <2>3. /\ SubSeq(s, k + 1, n) \in Seq(S)
        /\ Len(SubSeq(s, k + 1, n)) = IF k + 1 <= n THEN n - (k + 1) + 1 ELSE 0
        /\ \A i \in 1..n - (k + 1) + 1 : SubSeq(s, k + 1, n)[i] = s[(k + 1) + i - 1]
    BY <2>1, <2>2, SubSeqProperties, SMTT(40)
  <2>4. (IF k + 1 <= n THEN n - (k + 1) + 1 ELSE 0) = n - k
    BY <1>2
  <2>5. \A i \in 1..n - k : i \in 1..n - (k + 1) + 1 /\ (k + 1) + i - 1 = k + i
    BY <1>2
  <2>6. Len(SubSeq(s, k + 1, n)) = n - k
    BY <2>3, <2>4
  <2>7. \A i \in 1..n - k : SubSeq(s, k + 1, n)[i] = s[k + i]
    BY <2>3, <2>5, ZenonT(40)
  <2> QED
    BY <2>3, <2>6, <2>7
<1>5. RemoveAt(s, k) = a \o b
  BY <1>1, <1>3, <1>4 DEF RemoveAt
<1>6. PICK rest \in Seq(S) : rest = a \o b
  BY ConcatProperties
<1>7. /\ Len(rest) = Len(a) + Len(b)
      /\ \A i \in 1..Len(a) : rest[i] = a[i]
      /\ \A i \in 1..Len(b) : rest[Len(a) + i] = b[i]
  BY <1>6, ConcatIndices
<1>8. Len(rest) = n - 1
  BY <1>2, <1>3, <1>4, <1>7
<1>9. ASSUME NEW i \in 1..n - 1 PROVE rest[i] = s[IF i < k THEN i ELSE i + 1]
  <2>1. CASE i < k
    <3>1. i \in 1..k - 1
      BY <1>2, <2>1
    <3> QED
      BY <1>3, <1>7, <2>1, <3>1
  <2>2. CASE i >= k
    <3>1. PICK j \in 1..n - k : i = k - 1 + j
      <4>1. i - (k - 1) \in 1..n - k /\ i = k - 1 + (i - (k - 1))
        BY <1>2, <2>2
      <4> QED
        BY <4>1
    <3>2. rest[k - 1 + j] = s[k + j]
      BY <1>3, <1>4, <1>7, <3>1, ZenonT(40)
    <3>3. i + 1 = k + j /\ ~(i < k)
      BY <1>2, <2>2, <3>1
    <3> QED
      BY <3>1, <3>2, <3>3
  <2> QED
    BY <1>2, <2>1, <2>2
<1> QED
  BY <1>1, <1>6, <1>8, <1>9, <1>5

\* What is left of the list: its players in order but those of p, each from
\* the place that at says.
Left(rest, list, p, at) ==
  /\ \A i \in DOMAIN rest : /\ at[i] \in DOMAIN list
                            /\ list[at[i]].client # p
                            /\ rest[i] = list[at[i]]
  /\ \A i, j \in DOMAIN rest : at[i] = at[j] => i = j
  /\ \A k \in DOMAIN list :
       list[k].client # p => \E i \in DOMAIN rest : at[i] = k

LEMMA NoneIsErased ==
  ASSUME NEW S, NEW list \in Seq(S), NEW p,
         \A i \in DOMAIN list : list[i].client # p
  PROVE  WithoutClient(list, p) = list
<1>1. ~ \E i \in 1..Len(list) : list[i].client = p
  BY LenProperties
<1> QED
  BY <1>1 DEF WithoutClient, RemoveFirstMatch

LEMMA PlayerIsErased ==
  ASSUME NEW S, NEW list \in Seq(S), NEW p,
         \A i, j \in DOMAIN list : list[i].client = list[j].client => i = j
  PROVE  /\ WithoutClient(list, p) \in Seq(S)
         /\ \E at : Left(WithoutClient(list, p), list, p, at)
<1>1. PICK n \in Nat : n = Len(list) /\ DOMAIN list = 1..n
  BY LenProperties
<1>2. CASE \A i \in DOMAIN list : list[i].client # p
  <2>1. WithoutClient(list, p) = list
    BY <1>2, NoneIsErased
  <2>2. Left(list, list, p, [i \in DOMAIN list |-> i])
    BY <1>2 DEF Left
  <2> QED
    BY <2>1, <2>2
<1>3. CASE \E i \in DOMAIN list : list[i].client = p
  <2>1. PICK k \in 1..n : list[k].client = p
    BY <1>1, <1>3
  <2>2. {i \in 1..n : list[i].client = p} = {k}
    BY <1>1, <2>1
  <2>3. Min({k}) = k
    <3>1. \A x : x \in {k} /\ (\A y \in {k} : x <= y) <=> x = k
      BY <2>1
    <3> QED
      BY <3>1 DEF Min
  <2>4. SelectInSeq(list, LAMBDA player : player.client = p) = k
    BY <1>1, <2>2, <2>3 DEF SelectInSeq
  <2>5. WithoutClient(list, p) = RemoveAt(list, k)
    BY <1>1, <1>3, <2>4 DEF WithoutClient, RemoveFirstMatch
  <2>6. PICK rest \in Seq(S) :
          /\ rest = RemoveAt(list, k)
          /\ Len(rest) = n - 1
          /\ \A i \in 1..n - 1 : rest[i] = list[IF i < k THEN i ELSE i + 1]
    BY <1>1, <2>1, OneIsTakenOut
  <2>7. DOMAIN rest = 1..n - 1
    BY <2>6, LenProperties
  <2>8. PICK at : at = [i \in 1..n - 1 |-> IF i < k THEN i ELSE i + 1]
    OBVIOUS
  <2>9. Left(rest, list, p, at)
    <3>1. \A i \in 1..n - 1 : at[i] \in 1..n /\ at[i] # k
      BY <2>1, <2>8
    <3>2. \A i \in 1..n - 1 : rest[i] = list[at[i]]
      BY <2>6, <2>8
    <3>3. \A i, j \in 1..n - 1 : at[i] = at[j] => i = j
      BY <2>1, <2>8
    <3>4. ASSUME NEW j \in 1..n, j # k PROVE \E i \in 1..n - 1 : at[i] = j
      <4>1. CASE j < k
        <5>1. j \in 1..n - 1 /\ at[j] = j
          BY <2>1, <2>8, <4>1
        <5> QED
          BY <5>1
      <4>2. CASE j > k
        <5>1. j - 1 \in 1..n - 1 /\ ~(j - 1 < k) /\ (j - 1) + 1 = j
          BY <2>1, <4>2
        <5>2. at[j - 1] = j
          BY <2>8, <5>1
        <5> QED
          BY <5>1, <5>2
      <4> QED
        BY <2>1, <3>4, <4>1, <4>2
    <3>5. \A i \in 1..n : i # k => list[i].client # p
      BY <1>1, <2>1
    <3> QED
      BY <1>1, <2>1, <2>7, <3>1, <3>2, <3>3, <3>4, <3>5 DEF Left
  <2> QED
    BY <2>5, <2>6, <2>9
<1> QED
  BY <1>2, <1>3

-----------------------------------------------------------------------------
(* The steps of the game *)

\* The parts of the invariant a message that is lost or received leaves alone.
Roster ==
  /\ SessionTypeOK
  /\ players \in Seq(Player)
  /\ next_id \in 1..MaxId + 1
  /\ owner \in [1..next_id - 1 -> Endpoint]
  /\ SessionsAreDistinct
  /\ \A i \in DOMAIN players : players[i].id < next_id
  /\ RosterIsSessions

\* The network and the clients.
Messages ==
  /\ net \in [Endpoint -> SUBSET Message]
  /\ \A e \in Endpoint : \A m \in net[e] :
       m.kind = "WELCOME" => \A id \in m.ids : id < next_id /\ owner[id] = e

Clients ==
  /\ myPlayerId \in [Endpoint -> Id \cup {0}]
  /\ shown \in [Endpoint -> SUBSET Id]
  /\ \A e \in Endpoint : myPlayerId[e] < next_id
  /\ IdentityIsOnesOwn

LEMMA PartsOfGameInv == GameInv <=> Roster /\ Messages /\ Clients
BY DEF GameInv, Roster, Messages, Clients, GameTypeOK, IdsAreHandedOut

\* A list of players names ids.
LEMMA ListIsMessage ==
  ASSUME NEW list \in Seq(Player)
  PROVE  /\ Ids(list) \subseteq Id
         /\ PlayerList(list) \in Message
         /\ PlayerList(list).kind = "PLAYERS"
<1>1. \A i \in DOMAIN list : list[i] \in Player
  BY LenProperties
<1>2. Ids(list) \subseteq Id
  BY <1>1 DEF Ids, Player
<1> QED
  BY <1>2 DEF PlayerList, Message

\* What is sent besides welcomes keeps the network in order.
LEMMA SentIsKnown ==
  ASSUME Messages, NEW batch, Send(batch), UNCHANGED <<next_id, owner>>,
         \A f \in Endpoint : \A m \in batch[f] :
           m \in Message /\ m.kind # "WELCOME"
  PROVE  Messages'
<1>1. \A f \in Endpoint : \A m \in net'[f] : m \in net[f] \/ m \in batch[f]
  BY SentOrLost
<1>2. \A f \in Endpoint : net'[f] \in SUBSET Message
  BY <1>1 DEF Messages
<1>3. net' = [f \in Endpoint |-> net'[f]]
  BY DEF Send
<1>4. net' \in [Endpoint -> SUBSET Message]
  BY <1>2, <1>3
<1> QED
  BY <1>1, <1>4 DEF Messages

\* Connecting: a new player, with a new id, for a new session.
LEMMA PlayerConnects ==
  ASSUME GameInv, NEW e \in Endpoint, NEW p \in Pointer, OnPlayerConnected(e, p)
  PROVE  GameInv'
<1> USE DEF GameInv
<1>1. /\ session[e] = NoClient /\ p \notin OpenHandles
      /\ session' = [session EXCEPT ![e] = p]
      /\ next_id <= MaxId /\ next_id' = next_id + 1
      /\ owner' = Append(owner, e)
      /\ UNCHANGED <<myPlayerId, shown>>
  BY DEF OnPlayerConnected, OpenSession, GeneratePlayerId, IsOpen
<1> DEFINE born == [id |-> next_id, client |-> p, movedBy |-> NoClient]
           n == Len(players)
<1>2. players' = Append(players, born)
  BY DEF OnPlayerConnected
<1>3. next_id \in 1..MaxId /\ MaxId \in Nat
  BY <1>1 DEF GameTypeOK
<1>4. born \in Player
  BY <1>3 DEF Player, Id
<1>5. players \in Seq(Player)
  BY DEF GameTypeOK
<1>6. /\ players' \in Seq(Player) /\ n \in Nat
      /\ DOMAIN players = 1..n /\ DOMAIN players' = 1..n + 1
      /\ \A i \in 1..n : players'[i] = players[i]
      /\ players'[n + 1] = born
  <2> HIDE DEF born
  <2> QED
    BY <1>2, <1>4, <1>5, AppendProperties, LenProperties
<1>7. owner' \in [1..next_id' - 1 -> Endpoint] /\ owner'[next_id] = e
      /\ \A id \in 1..next_id - 1 : owner'[id] = owner[id]
  <2>1. owner \in Seq(Endpoint) /\ Len(owner) = next_id - 1
    <3>1. owner \in [1..next_id - 1 -> Endpoint] /\ next_id - 1 \in Nat
      BY <1>3 DEF GameTypeOK
    <3>2. owner \in Seq(Endpoint)
      BY <3>1, SeqDef
    <3>3. DOMAIN owner = 1..next_id - 1 /\ DOMAIN owner = 1..Len(owner) /\ Len(owner) \in Nat
      BY <3>1, <3>2, LenProperties
    <3> QED
      BY <3>1, <3>2, <3>3
  <2>2. /\ Append(owner, e) \in Seq(Endpoint)
        /\ Len(Append(owner, e)) = Len(owner) + 1
        /\ \A i \in 1..Len(owner) : Append(owner, e)[i] = owner[i]
        /\ Append(owner, e)[Len(owner) + 1] = e
    BY <2>1, AppendProperties
  <2>3. Append(owner, e) \in [1..Len(owner) + 1 -> Endpoint]
    BY <2>2, LenProperties
  <2>4. next_id' - 1 = next_id /\ next_id - 1 + 1 = next_id
    BY <1>1, <1>3
  <2> QED
    BY <1>1, <2>1, <2>2, <2>3, <2>4
<1>8. \A i \in 1..n : players[i].id \in 1..next_id - 1 /\ players[i].client \in Pointer
  <2>1. \A i \in 1..n : players[i] \in Player
    BY <1>5, <1>6, LenProperties
  <2>2. \A i \in 1..n : players[i].id \in 1..MaxId /\ players[i].client \in Pointer
    BY <2>1 DEF Player, Id
  <2>3. \A i \in 1..n : players[i].id < next_id
    BY <1>6 DEF IdsAreHandedOut
  <2> QED
    BY <1>3, <2>2, <2>3
<1>9. \A i \in 1..n : players[i].client \in OpenHandles
  BY <1>6 DEF RosterIsSessions
<1>10. session \in [Endpoint -> Pointer \cup {NoClient}]
  BY DEF GameTypeOK, SessionTypeOK
<1>11. session' \in [Endpoint -> Pointer \cup {NoClient}]
  BY <1>1, <1>10
<1>12. OpenHandles' = OpenHandles \cup {p}
  BY <1>1, <1>10 DEF OpenHandles
<1>13. SessionsAreDistinct'
  BY <1>1, <1>10 DEF SessionsAreDistinct, IsOpen, OpenHandles
<1> HIDE DEF n
<1>14. \A i \in 1..n + 1 : i \in 1..n \/ i = n + 1
  BY <1>6
<1>15. born.id = next_id /\ born.client = p /\ born.movedBy = NoClient
  OBVIOUS
<1> HIDE DEF born
<1>16. RosterIsSessions'
  <2>1. {players'[i].client : i \in DOMAIN players'} = OpenHandles'
    <3>1. {players[i].client : i \in 1..n} = OpenHandles
      BY <1>6 DEF RosterIsSessions
    <3>2. ASSUME NEW c PROVE (\E i \in 1..n + 1 : players'[i].client = c)
                               <=> c \in OpenHandles \/ c = p
      <4>1. (\E i \in 1..n : players[i].client = c) <=> c \in OpenHandles
        BY <3>1
      <4>2. n + 1 \in 1..n + 1 /\ 1..n \subseteq 1..n + 1
        BY <1>6
      <4> QED
        BY <1>6, <1>14, <1>15, <4>1, <4>2
    <3>3. \A c : c \in {players'[i].client : i \in 1..n + 1} <=> c \in OpenHandles \cup {p}
      BY <3>2
    <3> QED
      BY <1>6, <1>12, <3>3
  <2>2. ASSUME NEW i \in 1..n + 1, NEW j \in 1..n + 1,
               players'[i].client = players'[j].client \/ players'[i].id = players'[j].id
        PROVE  i = j
    <3>1. CASE i \in 1..n /\ j \in 1..n
      BY <1>6, <2>2, <3>1 DEF RosterIsSessions
    <3>2. ASSUME NEW k \in 1..n
          PROVE  players'[k].client # p /\ players'[k].id # next_id
      <4>1. players'[k] = players[k]
        BY <1>6
      <4>2. players[k].client # p
        BY <1>1, <1>9
      <4>3. players[k].id # next_id
        <5>1. PICK id : id = players[k].id /\ id \in 1..next_id - 1
          BY <1>8
        <5>2. id # next_id
          BY <1>3, <5>1
        <5> QED
          BY <5>1, <5>2
      <4> QED
        BY <4>1, <4>2, <4>3
    <3>3. players'[n + 1].client = p /\ players'[n + 1].id = next_id
      BY <1>6, <1>15
    <3> QED
      BY <1>14, <2>2, <3>1, <3>2, <3>3
  <2>3. ASSUME NEW i \in 1..n + 1
        PROVE  /\ session'[owner'[players'[i].id]] = players'[i].client
               /\ players'[i].movedBy \in {NoClient, owner'[players'[i].id]}
    <3>1. CASE i \in 1..n
      <4>1. PICK f : f = owner[players[i].id] /\ f \in Endpoint
        BY <1>8, <3>1 DEF GameTypeOK
      <4>2. session[f] = players[i].client /\ players[i].movedBy \in {NoClient, f}
        BY <1>6, <3>1, <4>1 DEF RosterIsSessions
      <4>3. f # e
        BY <1>1, <1>8, <3>1, <4>2
      <4>4. owner'[players[i].id] = f /\ session'[f] = session[f]
        BY <1>1, <1>7, <1>8, <1>10, <3>1, <4>1, <4>3
      <4> QED
        BY <1>6, <3>1, <4>2, <4>4
    <3>2. CASE i = n + 1
      <4>1. owner'[next_id] = e /\ session'[e] = p
        BY <1>1, <1>7, <1>10
      <4> QED
        BY <1>6, <1>15, <3>2, <4>1
    <3> QED
      BY <1>14, <3>1, <3>2
  <2> QED
    BY <1>6, <2>1, <2>2, <2>3 DEF RosterIsSessions
<1>17. Roster'
  <2>1. \A i \in 1..n + 1 : players'[i].id < next_id'
    BY <1>1, <1>3, <1>6, <1>8, <1>14, <1>15, SMTT(40)
  <2>2. next_id' \in 1..MaxId + 1
    BY <1>1, <1>3
  <2> QED
    BY <1>6, <1>7, <1>11, <1>13, <1>16, <2>1, <2>2
       DEF Roster, SessionTypeOK
<1>18. Messages /\ Clients
  BY PartsOfGameInv
<1>19. \A id \in Nat : id < next_id => id < next_id'
  BY <1>1, <1>3
<1>20. Messages'
  <2> DEFINE batch == [f \in Endpoint |->
               (IF f \in Receivers(players') THEN {PlayerList(players')} ELSE {})
                 \cup Welcome(f, e, next_id)]
  <2>1. Send(batch)
    BY DEF OnPlayerConnected
  <2>2. PlayerList(players') \in Message
        /\ PlayerList(players').kind = "PLAYERS"
    BY <1>6, ListIsMessage
  <2>3. ASSUME NEW f \in Endpoint, NEW m \in batch[f]
        PROVE  /\ m \in Message
               /\ m.kind = "WELCOME" => \A id \in m.ids : id < next_id' /\ owner'[id] = f
    <3>1. CASE m = PlayerList(players')
      BY <2>2, <3>1
    <3>2. CASE f = e /\ m = [kind |-> "WELCOME", ids |-> {next_id}]
      <4>1. m.ids = {next_id} /\ m \in Message
        BY <1>3, <3>2 DEF Message, Id
      <4> QED
        BY <1>1, <1>3, <1>7, <3>2, <4>1
    <3> QED
      BY <2>3, <3>1, <3>2 DEF Welcome
  <2>4. ASSUME NEW f \in Endpoint, NEW m \in net[f]
        PROVE  /\ m \in Message
               /\ m.kind = "WELCOME" => \A id \in m.ids : id < next_id' /\ owner'[id] = f
    <3>1. m \in Message
      BY <1>18, <2>4 DEF Messages
    <3>2. ASSUME m.kind = "WELCOME", NEW id \in m.ids
          PROVE  id < next_id' /\ owner'[id] = f
      <4>1. id \in 1..MaxId
        BY <3>1, <3>2 DEF Message, Id
      <4>2. id < next_id /\ owner[id] = f
        BY <1>18, <2>4, <3>2 DEF Messages
      <4>3. id \in 1..next_id - 1
        BY <1>3, <4>1, <4>2
      <4> QED
        BY <1>7, <1>19, <4>1, <4>2, <4>3
    <3> QED
      BY <3>1, <3>2
  <2> HIDE DEF batch
  <2>5. ASSUME NEW f \in Endpoint, NEW m \in net'[f]
        PROVE  /\ m \in Message
               /\ m.kind = "WELCOME" => \A id \in m.ids : id < next_id' /\ owner'[id] = f
    <3>1. m \in net[f] \/ m \in batch[f]
      BY <2>1, <2>5, SentOrLost
    <3> QED
      BY <2>3, <2>4, <3>1
  <2>6. net' = [f \in Endpoint |-> net'[f]]
    BY <2>1 DEF Send
  <2>7. net' \in [Endpoint -> SUBSET Message]
    BY <2>5, <2>6
  <2> QED
    BY <2>5, <2>7 DEF Messages
<1>21. Clients'
  <2>1. ASSUME NEW f \in Endpoint
        PROVE  /\ myPlayerId[f] < next_id'
               /\ myPlayerId[f] # 0 => owner'[myPlayerId[f]] = f
    <3>1. myPlayerId[f] \in Nat /\ myPlayerId[f] < next_id
      BY <1>18 DEF Clients, Id
    <3>2. myPlayerId[f] # 0 => myPlayerId[f] \in 1..next_id - 1
      BY <1>3, <3>1
    <3> QED
      BY <1>7, <1>18, <1>19, <3>1, <3>2 DEF Clients, IdentityIsOnesOwn
  <2> QED
    BY <1>1, <1>18, <2>1 DEF Clients, Id, IdentityIsOnesOwn
<1> HIDE DEF GameInv
<1>22. (Roster /\ Messages /\ Clients)'
  BY <1>17, <1>20, <1>21
<1> QED
  BY <1>22, PartsOfGameInv, PTL

\* What the clients know stays when nobody is handed an id.
LEMMA ClientsStay ==
  ASSUME Clients, UNCHANGED <<next_id, owner, myPlayerId, shown>>
  PROVE  Clients'
BY DEF Clients, IdentityIsOnesOwn

\* Disconnecting: the player of the session that ends goes with it, however
\* often the hub calls.
LEMMA PlayerDisconnects ==
  ASSUME GameInv, NEW e \in Endpoint, OnPlayerDisconnected(e)
  PROVE  GameInv'
<1>1. Roster /\ Messages /\ Clients
  BY PartsOfGameInv
<1>2. /\ session[e] # NoClient
      /\ session' = [session EXCEPT ![e] = NoClient]
      /\ UNCHANGED <<next_id, owner, myPlayerId, shown>>
  BY DEF OnPlayerDisconnected, CloseSession, IsOpen
<1>3. PICK p : p = session[e]
  OBVIOUS
<1>4. /\ players \in Seq(Player)
      /\ \A i, j \in DOMAIN players :
           players[i].client = players[j].client \/ players[i].id = players[j].id
             => i = j
  BY <1>1 DEF Roster, RosterIsSessions
<1>5. PICK once \in Seq(Player) :
        /\ once = WithoutClient(players, p)
        /\ \E at : Left(once, players, p, at)
  BY <1>4, PlayerIsErased
<1>6. PICK at : Left(once, players, p, at)
  BY <1>5
<1>7. players' = once
  <2>1. WithoutClient(once, p) = once
    <3>1. \A i \in DOMAIN once : once[i].client # p
      BY <1>6 DEF Left
    <3> QED
      BY <3>1, NoneIsErased
  <2>2. players' \in {WithoutClient(players, p),
                      WithoutClient(WithoutClient(players, p), p)}
    BY <1>3 DEF OnPlayerDisconnected
  <2> QED
    BY <1>5, <2>1, <2>2
<1>8. \A i \in DOMAIN once : /\ at[i] \in DOMAIN players
                             /\ players[at[i]].client # p
                             /\ once[i] = players[at[i]]
  BY <1>6 DEF Left
<1>9. session \in [Endpoint -> Pointer \cup {NoClient}]
  BY <1>1 DEF Roster, SessionTypeOK
<1>10. \A f \in Endpoint : f # e => session'[f] = session[f] /\ session[f] # p
  BY <1>1, <1>2, <1>3, <1>9 DEF Roster, SessionsAreDistinct, IsOpen
<1>11. SessionTypeOK' /\ SessionsAreDistinct'
  BY <1>1, <1>2, <1>9
     DEF Roster, SessionsAreDistinct, SessionTypeOK, IsOpen
<1>12. \A c : c \in OpenHandles' <=> c \in OpenHandles /\ c # p
  BY <1>2, <1>3, <1>9, <1>10 DEF OpenHandles
<1>13. RosterIsSessions'
  <2>1. {once[i].client : i \in DOMAIN once} = OpenHandles'
    <3>1. {players[i].client : i \in DOMAIN players} = OpenHandles
      BY <1>1 DEF Roster, RosterIsSessions
    <3>2. ASSUME NEW k \in DOMAIN players, players[k].client # p
          PROVE  \E i \in DOMAIN once : once[i].client = players[k].client
      BY <1>6, <3>2 DEF Left
    <3>3. ASSUME NEW c
          PROVE  (\E i \in DOMAIN once : once[i].client = c) <=> c \in OpenHandles'
      BY <1>8, <1>12, <3>1, <3>2
    <3> QED
      BY <3>3
  <2>2. ASSUME NEW i \in DOMAIN once, NEW j \in DOMAIN once,
               once[i].client = once[j].client \/ once[i].id = once[j].id
        PROVE  i = j
    <3>1. at[i] = at[j]
      BY <1>4, <1>8, <2>2
    <3> QED
      BY <1>6, <3>1 DEF Left
  <2>3. ASSUME NEW i \in DOMAIN once
        PROVE  /\ session'[owner[once[i].id]] = once[i].client
               /\ once[i].movedBy \in {NoClient, owner[once[i].id]}
    <3>1. PICK k \in DOMAIN players : players[k].client # p /\ once[i] = players[k]
      BY <1>8
    <3>2. PICK f : f = owner[players[k].id]
      OBVIOUS
    <3>3. f \in Endpoint
      <4>1. players[k].id \in Id /\ players[k].id < next_id
        <5>1. players[k] \in Player
          BY <1>4, LenProperties
        <5> QED
          BY <1>1, <5>1 DEF Roster, Player
      <4>2. players[k].id \in 1..next_id - 1
        BY <1>1, <4>1 DEF Roster, Id
      <4> QED
        BY <1>1, <3>2, <4>2 DEF Roster
    <3>4. session[f] = players[k].client /\ players[k].movedBy \in {NoClient, f}
      BY <1>1, <3>2 DEF Roster, RosterIsSessions
    <3>5. session'[f] = session[f]
      BY <1>3, <1>10, <3>1, <3>3, <3>4
    <3> QED
      BY <3>1, <3>2, <3>4, <3>5
  <2> QED
    BY <1>2, <1>7, <2>1, <2>2, <2>3 DEF RosterIsSessions
<1>14. \A i \in DOMAIN once : once[i].id < next_id
  BY <1>1, <1>8 DEF Roster
<1>15. Roster'
  BY <1>1, <1>2, <1>7, <1>11, <1>13, <1>14 DEF Roster
<1>16. Messages'
  <2> DEFINE batch == [f \in Endpoint |->
               IF f \in Receivers(players') THEN {PlayerList(players')} ELSE {}]
  <2>1. Send(batch)
    BY DEF OnPlayerDisconnected
  <2>2. PlayerList(players') \in Message
        /\ PlayerList(players').kind = "PLAYERS"
    BY <1>7, ListIsMessage
  <2>3. \A f \in Endpoint : \A m \in batch[f] :
          m \in Message /\ m.kind # "WELCOME"
    BY <2>2
  <2> HIDE DEF batch
  <2> QED
    BY <1>1, <1>2, <2>1, <2>3, SentIsKnown
<1>17. (Roster /\ Messages /\ Clients)'
  BY <1>1, <1>2, <1>15, <1>16, ClientsStay
<1> QED
  BY <1>17, PartsOfGameInv, PTL

\* A position moves the dot of the session it came in by.
LEMMA PlayerMoves ==
  ASSUME GameInv, NEW e \in Endpoint, OnPosition(e)
  PROVE  GameInv'
<1>1. Roster /\ Messages /\ Clients
  BY PartsOfGameInv
<1>2. /\ session[e] # NoClient
      /\ UNCHANGED <<session, next_id, owner, net, myPlayerId, shown>>
  BY DEF OnPosition, IsOpen
<1>3. PICK k \in DOMAIN players :
        /\ players[k].client = session[e]
        /\ players' = [players EXCEPT ![k].movedBy = e]
  BY DEF OnPosition
<1>4. PICK n \in Nat : /\ DOMAIN players = 1..n
                       /\ \A i \in 1..n : players[i] \in Player
  BY <1>1, LenProperties DEF Roster
<1>5. /\ DOMAIN players' = 1..n
      /\ \A i \in 1..n : /\ players'[i] \in Player
                         /\ players'[i].id = players[i].id
                         /\ players'[i].client = players[i].client
                         /\ players'[i].movedBy = IF i = k THEN e ELSE players[i].movedBy
  <2>1. players' = [players EXCEPT ![k] = [players[k] EXCEPT !.movedBy = e]]
    BY <1>3
  <2>2. PICK moved : moved = [players[k] EXCEPT !.movedBy = e]
    OBVIOUS
  <2>3. /\ moved \in Player
        /\ moved.id = players[k].id /\ moved.client = players[k].client
        /\ moved.movedBy = e
    BY <1>3, <1>4, <2>2 DEF Player
  <2>4. players' = [i \in 1..n |-> IF i = k THEN moved ELSE players[i]]
    BY <1>4, <2>1, <2>2
  <2> QED
    BY <1>4, <2>3, <2>4
<1>6. players' \in Seq(Player)
  <2>1. players' = [i \in 1..n |-> players'[i]]
    BY <1>3, <1>4
  <2>2. players' \in [1..n -> Player]
    BY <1>5, <2>1
  <2> QED
    BY <2>2, SeqDef
<1>7. owner[players[k].id] = e
  <2>1. players[k].id \in 1..next_id - 1
    <3>1. players[k].id \in Id /\ players[k].id < next_id
      BY <1>1, <1>3, <1>4 DEF Roster, Player
    <3> QED
      BY <1>1, <3>1 DEF Roster, Id
  <2>2. PICK f \in Endpoint : f = owner[players[k].id]
    BY <1>1, <2>1 DEF Roster
  <2>3. session[f] = session[e]
    BY <1>1, <1>3, <2>2 DEF Roster, RosterIsSessions
  <2> QED
    BY <1>1, <1>2, <2>2, <2>3 DEF Roster, SessionsAreDistinct, IsOpen
<1>8. RosterIsSessions'
  <2>1. {players'[i].client : i \in DOMAIN players'} = OpenHandles'
    <3>1. {players[i].client : i \in 1..n} = OpenHandles
      BY <1>1, <1>4 DEF Roster, RosterIsSessions
    <3>2. OpenHandles' = OpenHandles
      BY <1>2 DEF OpenHandles
    <3> QED
      BY <1>5, <3>1, <3>2
  <2>2. \A i, j \in 1..n :
          players'[i].client = players'[j].client \/ players'[i].id = players'[j].id
            => i = j
    <3>1. \A i, j \in 1..n :
            players[i].client = players[j].client \/ players[i].id = players[j].id
              => i = j
      BY <1>1, <1>4 DEF Roster, RosterIsSessions
    <3> QED
      BY <1>5, <3>1, ZenonT(40)
  <2>3. ASSUME NEW i \in 1..n
        PROVE  /\ session'[owner'[players'[i].id]] = players'[i].client
               /\ players'[i].movedBy \in {NoClient, owner'[players'[i].id]}
    <3>1. /\ session[owner[players[i].id]] = players[i].client
          /\ players[i].movedBy \in {NoClient, owner[players[i].id]}
      BY <1>1, <1>4 DEF Roster, RosterIsSessions
    <3>2. /\ players'[i].id = players[i].id
          /\ players'[i].client = players[i].client
      BY <1>5
    <3>3. players'[i].movedBy \in {NoClient, owner[players[i].id]}
      <4>1. CASE i = k
        BY <1>5, <1>7, <4>1
      <4>2. CASE i # k
        BY <1>5, <3>1, <4>2
      <4> QED
        BY <4>1, <4>2
    <3> QED
      BY <1>2, <3>1, <3>2, <3>3
  <2> QED
    BY <1>5, <2>1, <2>2, <2>3 DEF RosterIsSessions
<1>9. \A i \in 1..n : players'[i].id < next_id
  BY <1>1, <1>4, <1>5 DEF Roster
<1>10. Roster'
  BY <1>1, <1>2, <1>5, <1>6, <1>8, <1>9
     DEF Roster, SessionsAreDistinct, SessionTypeOK,
         IsOpen
<1>11. Messages'
  BY <1>1, <1>2 DEF Messages
<1>12. (Roster /\ Messages /\ Clients)'
  BY <1>1, <1>2, <1>10, <1>11, ClientsStay
<1> QED
  BY <1>12, PartsOfGameInv, PTL

\* The broadcasts only tell.
LEMMA RosterStays ==
  ASSUME Roster, UNCHANGED <<session, players, next_id, owner>>
  PROVE  Roster'
<1>1. OpenHandles' = OpenHandles
  BY DEF OpenHandles
<1> QED
  BY <1>1 DEF Roster, SessionsAreDistinct, SessionTypeOK,
              IsOpen, RosterIsSessions

LEMMA PositionsAreBroadcast ==
  ASSUME GameInv, BroadcastPositions
  PROVE  GameInv'
<1>1. Roster /\ Messages /\ Clients
  BY PartsOfGameInv
<1>2. UNCHANGED <<session, players, next_id, owner, myPlayerId, shown>>
  BY DEF BroadcastPositions
<1>3. \A i \in DOMAIN players : players[i].id \in Id
  <2>1. \A i \in DOMAIN players : players[i] \in Player
    BY <1>1, LenProperties DEF Roster
  <2> QED
    BY <2>1 DEF Player
<1> DEFINE batch == [e \in Endpoint |->
             IF e \in Receivers(players)
             THEN {[kind |-> "POS", ids |-> {players[i].id}] :
                     i \in {j \in DOMAIN players :
                              players[j].client # session[e]}}
             ELSE {}]
<1>4. Send(batch)
  BY DEF BroadcastPositions
<1>5. ASSUME NEW f \in Endpoint, NEW m \in batch[f]
      PROVE  m \in Message /\ m.kind # "WELCOME"
  <2>1. PICK i \in DOMAIN players : m = [kind |-> "POS", ids |-> {players[i].id}]
    BY <1>5
  <2> HIDE DEF batch
  <2> QED
    BY <1>3, <2>1 DEF Message
<1> HIDE DEF batch
<1>6. Messages'
  BY <1>1, <1>2, <1>4, <1>5, SentIsKnown
<1>7. (Roster /\ Messages /\ Clients)'
  BY <1>1, <1>2, <1>6, RosterStays, ClientsStay
<1> QED
  BY <1>7, PartsOfGameInv, PTL

LEMMA ListAndPingsAreBroadcast ==
  ASSUME GameInv, BroadcastListAndPings
  PROVE  GameInv'
<1>1. Roster /\ Messages /\ Clients
  BY PartsOfGameInv
<1>2. UNCHANGED <<session, players, next_id, owner, myPlayerId, shown>>
  BY DEF BroadcastListAndPings
<1>3. /\ Ids(players) \subseteq Id
      /\ PlayerList(players) \in Message
      /\ PlayerList(players).kind = "PLAYERS"
  BY <1>1, ListIsMessage DEF Roster
<1> DEFINE pings == [kind |-> "PINGS", ids |-> Ids(players)]
           batch == [e \in Endpoint |->
             IF e \in Receivers(players)
             THEN {PlayerList(players), pings} ELSE {}]
<1>4. Send(batch)
  BY DEF BroadcastListAndPings
<1>5. pings \in Message /\ pings.kind # "WELCOME"
  BY <1>3 DEF Message
<1> HIDE DEF pings
<1>6. \A f \in Endpoint : \A m \in batch[f] : m \in Message /\ m.kind # "WELCOME"
  BY <1>3, <1>5
<1> HIDE DEF batch
<1>7. Messages'
  BY <1>1, <1>2, <1>4, <1>6, SentIsKnown
<1>8. (Roster /\ Messages /\ Clients)'
  BY <1>1, <1>2, <1>7, RosterStays, ClientsStay
<1> QED
  BY <1>8, PartsOfGameInv, PTL

\* The network loses or delivers what is in it, and nothing else.
LEMMA MessagesDwindle ==
  ASSUME Messages, UNCHANGED <<next_id, owner>>, NEW e \in Endpoint, NEW m,
         net' \in {net, [net EXCEPT ![e] = @ \ {m}]}
  PROVE  Messages'
<1>1. net' \in [Endpoint -> SUBSET Message]
  BY DEF Messages
<1>2. \A f \in Endpoint : \A o \in net'[f] : o \in net[f]
  BY DEF Messages
<1> QED
  BY <1>1, <1>2 DEF Messages

\* A client is told who it is, who is there and who is where.
LEMMA ClientIsTold ==
  ASSUME GameInv, NEW e \in Endpoint, NEW m \in net[e], Deliver(e, m)
  PROVE  GameInv'
<1>1. Roster /\ Messages /\ Clients
  BY PartsOfGameInv
<1>2. Receive(e, m)
  BY DEF Deliver, OnWelcome, OnPlayers, OnPosOrPings
<1>3. UNCHANGED <<session, players, next_id, owner>>
  BY <1>2 DEF Receive
<1>4. Messages'
  <2>1. net' \in {net, [net EXCEPT ![e] = @ \ {m}]}
    BY <1>2 DEF Receive
  <2> QED
    BY <1>1, <1>3, <2>1, MessagesDwindle
<1>5. m.ids \subseteq Id
  BY <1>1 DEF Messages, Message
<1>6. Clients'
  <2>1. CASE OnWelcome(e, m)
    <3>1. PICK id \in m.ids : myPlayerId' = [myPlayerId EXCEPT ![e] = id]
      BY <2>1 DEF OnWelcome
    <3>2. id < next_id /\ owner[id] = e
      BY <1>1, <2>1 DEF Messages, OnWelcome
    <3>3. shown' = shown
      BY <2>1 DEF OnWelcome
    <3> QED
      BY <1>1, <1>3, <1>5, <3>1, <3>2, <3>3 DEF Clients, IdentityIsOnesOwn
  <2>2. CASE OnPlayers(e, m)
    <3>1. /\ shown' = [shown EXCEPT ![e] = m.ids]
          /\ UNCHANGED myPlayerId
      BY <2>2 DEF OnPlayers
    <3> QED
      BY <1>1, <1>3, <1>5, <3>1 DEF Clients, IdentityIsOnesOwn
  <2>3. CASE OnPosOrPings(e, m)
    <3>1. /\ shown' = [shown EXCEPT ![e] = @ \cup (m.ids \ {myPlayerId[e]})]
          /\ UNCHANGED myPlayerId
      BY <2>3 DEF OnPosOrPings
    <3>2. shown' \in [Endpoint -> SUBSET Id]
      BY <1>1, <1>5, <3>1 DEF Clients
    <3> QED
      BY <1>1, <1>3, <3>1, <3>2 DEF Clients, IdentityIsOnesOwn
  <2> QED
    BY <2>1, <2>2, <2>3 DEF Deliver
<1>7. (Roster /\ Messages /\ Clients)'
  BY <1>1, <1>3, <1>4, <1>6, RosterStays
<1> QED
  BY <1>7, PartsOfGameInv, PTL

LEMMA MessageIsLost ==
  ASSUME GameInv, NEW e \in Endpoint, NEW m \in net[e], Lose(e, m)
  PROVE  GameInv'
<1>1. Roster /\ Messages /\ Clients
  BY PartsOfGameInv
<1>2. /\ UNCHANGED <<session, players, next_id, owner, myPlayerId, shown>>
      /\ net' \in {net, [net EXCEPT ![e] = @ \ {m}]}
  BY DEF Lose
<1>3. (Roster /\ Messages /\ Clients)'
  BY <1>1, <1>2, RosterStays, MessagesDwindle, ClientsStay
<1> QED
  BY <1>3, PartsOfGameInv, PTL

\* A client draws itself.
LEMMA ClientDrawsItself ==
  ASSUME GameInv, NEW e \in Endpoint, UpdateLocalPlayer(e)
  PROVE  GameInv'
<1>1. Roster /\ Messages /\ Clients
  BY PartsOfGameInv
<1>2. /\ UNCHANGED <<session, players, next_id, owner, net, myPlayerId>>
      /\ myPlayerId[e] # 0
      /\ shown' = [shown EXCEPT ![e] = @ \cup {myPlayerId[e]}]
  BY DEF UpdateLocalPlayer
<1>3. myPlayerId[e] \in Id
  BY <1>1, <1>2 DEF Clients
<1>4. shown' \in [Endpoint -> SUBSET Id]
  BY <1>1, <1>2, <1>3 DEF Clients
<1>5. Clients'
  BY <1>1, <1>2, <1>4 DEF Clients, IdentityIsOnesOwn
<1>6. Messages'
  BY <1>1, <1>2 DEF Messages
<1>7. (Roster /\ Messages /\ Clients)'
  BY <1>1, <1>2, <1>5, <1>6, RosterStays
<1> QED
  BY <1>7, PartsOfGameInv, PTL

LEMMA NextGameInv == GameInv /\ [GameNext]_gameVars => GameInv'
<1> SUFFICES ASSUME GameInv, [GameNext]_gameVars PROVE GameInv'
  OBVIOUS
<1>1. CASE UNCHANGED gameVars
  <2>1. Roster /\ Messages /\ Clients
    BY PartsOfGameInv
  <2>2. UNCHANGED <<session, players, next_id, owner, net, myPlayerId, shown>>
    BY <1>1 DEF gameVars
  <2>3. Messages'
    BY <2>1, <2>2 DEF Messages
  <2>4. (Roster /\ Messages /\ Clients)'
    BY <2>1, <2>2, <2>3, RosterStays, ClientsStay
  <2> QED
    BY <2>4, PartsOfGameInv, PTL
<1>2. ASSUME NEW e \in Endpoint, NEW p \in Pointer, OnPlayerConnected(e, p)
      PROVE  GameInv'
  BY <1>2, PlayerConnects
<1>3. ASSUME NEW e \in Endpoint, OnPlayerDisconnected(e) PROVE GameInv'
  BY <1>3, PlayerDisconnects
<1>4. ASSUME NEW e \in Endpoint, OnPosition(e) PROVE GameInv'
  BY <1>4, PlayerMoves
<1>5. ASSUME NEW e \in Endpoint, NEW m \in net[e],
             \/ OnWelcome(e, m)
             \/ OnPlayers(e, m)
             \/ OnPosOrPings(e, m)
      PROVE  GameInv'
  BY <1>5, ClientIsTold DEF Deliver
<1>6. ASSUME NEW e \in Endpoint, NEW m \in net[e], Lose(e, m)
      PROVE  GameInv'
  BY <1>6, MessageIsLost
<1>7. ASSUME NEW e \in Endpoint, UpdateLocalPlayer(e) PROVE GameInv'
  BY <1>7, ClientDrawsItself
<1>8. CASE BroadcastPositions
  BY <1>8, PositionsAreBroadcast
<1>9. CASE BroadcastListAndPings
  BY <1>9, ListAndPingsAreBroadcast
<1> QED
  BY <1>1, <1>2, <1>3, <1>4, <1>5, <1>6, <1>7, <1>8, <1>9 DEF GameNext

-----------------------------------------------------------------------------
(* What follows of the game *)

\* Whatever is lost, late or repeated, the server's players and a client's
\* idea of itself only hold ids that were handed out.
THEOREM GameTypeIsKept == GameSpec => []GameTypeOK
<1>1. GameInit => GameInv
  BY InitGameInv
<1>2. GameInv => GameTypeOK
  BY DEF GameInv
<1> QED
  BY <1>1, <1>2, NextGameInv, PTL DEF GameSpec

\* One player for each open session and none besides, however sessions come
\* and go (OnClientConnected, OnClientDisconnected, also called twice), each
\* moved by nobody but the client it stands for; and a client only ever takes
\* itself for a player it has been, whatever the network loses, repeats or
\* overtakes.
THEOREM PlayersStayTheirs ==
  GameSpec => []PlayersAreTheirs
<1>1. GameInit => GameInv
  BY InitGameInv
<1>2. GameInv => PlayersAreTheirs
  BY DEF GameInv, PlayersAreTheirs
<1> QED
  BY <1>1, <1>2, NextGameInv, PTL DEF GameSpec
=============================================================================
