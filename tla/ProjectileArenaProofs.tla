------------------------ MODULE ProjectileArenaProofs ------------------------
(***************************************************************************)
(* The projectile arena for any number of clients, of shots and of         *)
(* snapshots: the roster never holds the handle of a session that is over, *)
(* a client finds itself in the world it shows, damage is done by what is  *)
(* spent on it, and nobody sees a wound heal in snapshots that are in      *)
(* order.                                                                  *)
(***************************************************************************)
EXTENDS ProjectileArena, OperatorProofs, TLAPS

USE NoClientAssumption, ArenaAssumption

-----------------------------------------------------------------------------
(* The inductive invariant *)

\* No two open sessions share a handle.
SessionsAreDistinct ==
  \A e, f \in Endpoint : IsOpen(e) /\ session[e] = session[f] => e = f

\* What a client has been sent or shows.
Known(e) == snapshots[e] \cup {snapshot[e]}

\* The shape of what TypeOK says only the members of.
Shapes ==
  /\ DOMAIN snapshots = Endpoint
  /\ DOMAIN snapshot = Endpoint

\* The Join of e has been handled, or is lost and will never be.
Used(e) == join_sent[e] /\ e \notin joins

\* A Join on its way was sent, and is the client's only one.
JoinsAreSent == \A e \in joins : join_sent[e]

\* A client is in no world before its Join is handled.
NothingBefore ==
  \A e \in Endpoint : ~Used(e) =>
    /\ session[e] \notin DOMAIN players
    /\ playerId[e] = 0
    /\ welcomes[e] = 0
    /\ Known(e) = {NoSnapshot}

\* A Join is handled once in the life of a client: the ids suffice.
IdsAreCounted == next_player_id <= Cardinality({e \in Endpoint : Used(e)}) + 1

\* The id a client has, or is about to be told.
IdsOf(e) == {playerId[e], welcomes[e]} \ {0}

\* It is that of its player, if it still has one, and in every snapshot the
\* client was ever sent.
IdsAreShown ==
  \A e \in Endpoint : \A id \in IdsOf(e) :
    /\ session[e] \in DOMAIN players => players[session[e]].id = id
    /\ \A s \in Known(e) : s # NoSnapshot => id \in DOMAIN s.health

\* A snapshot is of an earlier tick and tells of ids handed out before it.
SnapshotsAreOld ==
  \A e \in Endpoint : \A s \in Known(e) :
    /\ s = NoSnapshot \/ s.tick < server_tick
    /\ \A id \in DOMAIN s.health : id \in Nat /\ id < next_player_id

\* Who is in a snapshot had at least the health it has now.
HealthIsSpent ==
  \A e \in Endpoint : \A s \in Known(e) : \A p \in DOMAIN players :
    players[p].id \in DOMAIN s.health => players[p].health <= s.health[players[p].id]

\* Of two snapshots the one with more health is the older one.
MoreHealthIsOlder ==
  \A e \in Endpoint : \A s, t \in Known(e) :
    \A id \in DOMAIN s.health \cap DOMAIN t.health :
      t.health[id] > s.health[id] => t.tick < s.tick

IInv ==
  /\ TypeOK
  /\ SessionsAreDistinct
  /\ Shapes
  /\ RosterIsSafe
  /\ JoinsAreSent
  /\ NothingBefore
  /\ IdsAreCounted
  /\ IdsAreShown
  /\ SnapshotsAreOld
  /\ HealthIsSpent
  /\ MoreHealthIsOlder
  /\ DamageIsPaid

-----------------------------------------------------------------------------
(* Types *)

LEMMA EndpointsAreCounted ==
  /\ Cardinality(Endpoint) \in Nat
  /\ \A U \in SUBSET Endpoint :
       /\ IsFiniteSet(U) /\ Cardinality(U) \in Nat
       /\ Cardinality(U) <= Cardinality(Endpoint)
BY FS_CardinalityType, FS_Subset

\* What TypeOK says of the numbers of a player and of a snapshot.
LEMMA NumbersInRange ==
  ASSUME TypeOK
  PROVE  /\ server_tick \in Nat /\ next_player_id \in Nat
         /\ \A p \in DOMAIN players :
              /\ players[p] \in PlayerState
              /\ players[p].id \in Nat /\ players[p].health \in 0..kKMaxHealth
         /\ \A e \in Endpoint : \A s \in Known(e) :
              /\ s.tick \in Nat
              /\ \A id \in DOMAIN s.health : s.health[id] \in Nat
<1>1. server_tick \in Nat
  BY DEF TypeOK
<1>2. next_player_id \in Nat
  BY EndpointsAreCounted DEF TypeOK
<1>3. \A p \in DOMAIN players : players[p] \in PlayerState
  BY DEF TypeOK
<1>4. Id \subseteq Nat
  BY EndpointsAreCounted DEF Id
<1>5. \A e \in Endpoint : \A s \in Known(e) :
        /\ s.tick \in 0..MaxTicks
        /\ \A id \in DOMAIN s.health : s.health[id] \in 0..kKMaxHealth
  BY DEF TypeOK, Known
<1>6. \A p \in DOMAIN players :
        players[p].id \in Nat /\ players[p].health \in 0..kKMaxHealth
  BY <1>3, <1>4 DEF PlayerState
<1>7. 0..MaxTicks \subseteq Nat /\ 0..kKMaxHealth \subseteq Nat
  OBVIOUS
<1>8. \A e \in Endpoint : \A s \in Known(e) :
        /\ s.tick \in Nat
        /\ \A id \in DOMAIN s.health : s.health[id] \in Nat
  BY <1>5, <1>7
<1> QED
  BY <1>1, <1>2, <1>3, <1>6, <1>8

\* The shots are numbered from 1.
LEMMA ShotsAreNumbered ==
  ASSUME TypeOK
  PROVE  /\ shots \in Seq(Id) /\ Len(shots) \in Nat
         /\ DOMAIN shots = 1..Len(shots) /\ IsFiniteSet(DOMAIN shots)
         /\ projectiles \subseteq DOMAIN shots
<1>1. shots \in Seq(Id) /\ projectiles \subseteq DOMAIN shots
  BY DEF TypeOK
<1>2. Len(shots) \in Nat /\ DOMAIN shots = 1..Len(shots)
  BY <1>1, LenProperties
<1> QED
  BY <1>1, <1>2, FS_Interval

LEMMA InitIInv == Init => IInv
<1> SUFFICES ASSUME Init PROVE IInv
  OBVIOUS
<1>1. /\ \A e \in Endpoint : /\ session[e] = NoClient /\ Known(e) = {NoSnapshot}
                             /\ IdsOf(e) = {} /\ ~Used(e)
      /\ DOMAIN players = {} /\ next_player_id = 1 /\ shots = <<>>
      /\ DOMAIN NoSnapshot.health = {} /\ NoSnapshot.tick = 0
  BY NoElements DEF Init, SessionInit, Known, IdsOf, Used, NoSnapshot
<1>2. TypeOK
  <2>1. 1 \in 1..Cardinality(Endpoint) + 1
    BY EndpointsAreCounted
  <2>2. <<>> \in Seq(Id)
    BY EmptySeq
  <2>3. \A e \in Endpoint : \A s \in snapshots[e] \cup {snapshot[e]} : s = NoSnapshot
    BY <1>1 DEF Known
  <2>4. 0 \in 0..MaxTicks
    OBVIOUS
  <2> QED
    BY <1>1, <2>1, <2>2, <2>3, <2>4 DEF Init, TypeOK, SessionInit, SessionTypeOK
<1>3. SessionsAreDistinct /\ RosterIsSafe /\ JoinsAreSent /\ Shapes
  BY <1>1 DEF Init, SessionsAreDistinct, IsOpen, RosterIsSafe, JoinsAreSent, Shapes
<1>4. NothingBefore /\ IdsAreShown
  BY <1>1 DEF Init, NothingBefore, IdsAreShown
<1>5. IdsAreCounted
  <2>1. {e \in Endpoint : Used(e)} \in SUBSET Endpoint
    OBVIOUS
  <2>2. Cardinality({e \in Endpoint : Used(e)}) \in Nat
    BY <2>1, EndpointsAreCounted
  <2> QED
    BY <1>1, <2>2 DEF IdsAreCounted
<1>6. SnapshotsAreOld /\ HealthIsSpent /\ MoreHealthIsOlder
  BY <1>1 DEF SnapshotsAreOld, HealthIsSpent, MoreHealthIsOlder
<1>7. DamageIsPaid
  <2> DEFINE paid == [p \in DOMAIN players |-> {}]
  <2>1. paid \in [DOMAIN players -> SUBSET (DOMAIN shots \ projectiles)]
    OBVIOUS
  <2> QED
    BY <1>1, <2>1 DEF DamageIsPaid
<1> QED
  BY <1>2, <1>3, <1>4, <1>5, <1>6, <1>7 DEF IInv

-----------------------------------------------------------------------------
(* Who has paid for what *)

\* A player that is new has lost nothing; the others keep what they paid.
LEMMA PaidIsKept ==
  ASSUME IInv, TypeOK',
         \A p \in DOMAIN players' :
           \/ p \in DOMAIN players /\ players'[p] = players[p]
           \/ p \notin DOMAIN players /\ players'[p].health = kKMaxHealth,
         DOMAIN shots \ projectiles \subseteq DOMAIN shots' \ projectiles',
         \A k \in DOMAIN shots \ projectiles : shots'[k] = shots[k]
  PROVE  DamageIsPaid'
<1>1. PICK paid \in [DOMAIN players -> SUBSET (DOMAIN shots \ projectiles)] :
        /\ \A p \in DOMAIN players :
             /\ kKMaxHealth - players[p].health <=
                  kKProjectileDamage * Cardinality(paid[p])
             /\ \A k \in paid[p] : shots[k] # players[p].id
        /\ \A p, q \in DOMAIN players : paid[p] \cap paid[q] # {} => p = q
  BY DEF IInv, DamageIsPaid
<1>2. PICK paid2 : paid2 = [p \in DOMAIN players' |->
                             IF p \in DOMAIN players THEN paid[p] ELSE {}]
  OBVIOUS
<1>3. paid2 \in [DOMAIN players' -> SUBSET (DOMAIN shots' \ projectiles')]
  BY <1>2
<1>4. ASSUME NEW p \in DOMAIN players'
      PROVE  /\ kKMaxHealth - players'[p].health <=
                  kKProjectileDamage * Cardinality(paid2[p])
             /\ \A k \in paid2[p] : shots'[k] # players'[p].id
  <2>1. CASE p \in DOMAIN players
    <3>1. paid2[p] = paid[p] /\ players'[p] = players[p]
      BY <1>2, <2>1
    <3>2. \A k \in paid[p] : shots'[k] = shots[k]
      BY <2>1
    <3> QED
      BY <1>1, <2>1, <3>1, <3>2
  <2>2. CASE p \notin DOMAIN players
    <3>1. paid2[p] = {} /\ players'[p].health = kKMaxHealth
      BY <1>2, <2>2
    <3>2. Cardinality({}) = 0
      BY FS_EmptySet
    <3> QED
      BY <3>1, <3>2
  <2> QED
    BY <2>1, <2>2
<1>5. \A p, q \in DOMAIN players' : paid2[p] \cap paid2[q] # {} => p = q
  BY <1>1, <1>2
<1> QED
  BY <1>3, <1>4, <1>5 DEF DamageIsPaid

-----------------------------------------------------------------------------
(* Most steps bring no client a new id, a new snapshot or a new player. *)

LEMMA NoNews ==
  ASSUME IInv, TypeOK', Shapes', SessionsAreDistinct', JoinsAreSent', DamageIsPaid',
         DOMAIN players' \subseteq DOMAIN players,
         DOMAIN players' \subseteq OpenHandles',
         \A p \in DOMAIN players' :
           players'[p].id = players[p].id /\ players'[p].health <= players[p].health,
         \A e \in Endpoint :
           /\ Known(e)' \subseteq Known(e)
           /\ IdsOf(e)' \subseteq IdsOf(e)
           /\ Used(e) => Used(e)'
           /\ session'[e] \in DOMAIN players' => session'[e] = session[e],
         UNCHANGED <<next_player_id, server_tick>>
  PROVE  IInv'
<1>1. RosterIsSafe'
  BY DEF IInv, RosterIsSafe
<1>2. NothingBefore'
  <2> SUFFICES ASSUME NEW e \in Endpoint, ~Used(e)'
               PROVE  /\ session'[e] \notin DOMAIN players'
                      /\ playerId'[e] = 0 /\ welcomes'[e] = 0
                      /\ Known(e)' = {NoSnapshot}
    BY DEF NothingBefore
  <2>1. /\ session[e] \notin DOMAIN players /\ IdsOf(e) = {}
        /\ Known(e) = {NoSnapshot}
    BY DEF IInv, NothingBefore, IdsOf
  <2>2. IdsOf(e)' = {} /\ Known(e)' # {}
    BY <2>1 DEF Known
  <2> QED
    BY <2>1, <2>2 DEF IdsOf
<1>3. IdsAreCounted'
  <2> DEFINE U == {e \in Endpoint : Used(e)}
             V == {e \in Endpoint : Used(e)'}
  <2>1. U \in SUBSET V /\ V \in SUBSET Endpoint
    OBVIOUS
  <2>2. IsFiniteSet(V) /\ Cardinality(V) \in Nat
    BY <2>1, EndpointsAreCounted
  <2>3. Cardinality(U) \in Nat /\ Cardinality(U) <= Cardinality(V)
    <3> HIDE DEF U, V
    <3> QED
      BY <2>1, <2>2, FS_Subset, FS_CardinalityType
  <2>4. next_player_id <= Cardinality(U) + 1 /\ next_player_id \in Nat
    BY NumbersInRange DEF IInv, IdsAreCounted
  <2>5. next_player_id <= Cardinality(V) + 1
    <3> HIDE DEF U, V
    <3> QED
      BY <2>2, <2>3, <2>4
  <2> QED
    BY <2>5 DEF IdsAreCounted
<1>4. IdsAreShown'
  <2> SUFFICES ASSUME NEW e \in Endpoint, NEW id \in IdsOf(e)'
               PROVE  /\ session'[e] \in DOMAIN players' => players'[session'[e]].id = id
                      /\ \A s \in Known(e)' : s # NoSnapshot => id \in DOMAIN s.health
    BY DEF IdsAreShown
  <2>1. /\ session[e] \in DOMAIN players => players[session[e]].id = id
        /\ \A s \in Known(e) : s # NoSnapshot => id \in DOMAIN s.health
    BY DEF IInv, IdsAreShown
  <2> QED
    BY <2>1
<1>5. SnapshotsAreOld'
  BY DEF IInv, SnapshotsAreOld
<1>6. HealthIsSpent'
  <2> SUFFICES ASSUME NEW e \in Endpoint, NEW s \in Known(e)', NEW p \in DOMAIN players',
                      players'[p].id \in DOMAIN s.health
               PROVE  players'[p].health <= s.health[players'[p].id]
    BY DEF HealthIsSpent
  <2>1. /\ players[p].health <= s.health[players[p].id]
        /\ players'[p].health <= players[p].health
        /\ players'[p].id = players[p].id
    BY DEF IInv, HealthIsSpent
  <2>2. players[p].health \in Nat /\ s.health[players[p].id] \in Nat
    BY <2>1, NumbersInRange DEF IInv
  <2>3. players'[p].health \in Nat
    <3>1. players'[p] \in PlayerState
      BY DEF TypeOK
    <3> QED
      BY <3>1 DEF PlayerState
  <2> QED
    BY <2>1, <2>2, <2>3
<1>7. MoreHealthIsOlder'
  BY DEF IInv, MoreHealthIsOlder
<1> QED
  BY <1>1, <1>2, <1>3, <1>4, <1>5, <1>6, <1>7 DEF IInv

-----------------------------------------------------------------------------
(* The server *)

LEMMA OnConnectedStep ==
  ASSUME IInv, NEW e \in Endpoint, NEW p \in Pointer, OnConnected(e, p)
  PROVE  IInv'
<1>1. /\ session[e] = NoClient /\ p \notin OpenHandles /\ p # NoClient
      /\ session' = [session EXCEPT ![e] = p]
      /\ UNCHANGED <<players, next_player_id, projectiles, shots, server_tick>>
      /\ UNCHANGED <<joins, welcomes, fires, snapshots, join_sent, playerId, snapshot>>
  BY DEF OnConnected, OpenSession, IsOpen, server, network, client
<1>2. /\ session' \in [Endpoint -> Pointer \cup {NoClient}] /\ session'[e] = p
      /\ \A f \in Endpoint \ {e} : session'[f] = session[f]
  BY <1>1 DEF IInv, TypeOK, SessionTypeOK
<1>3. TypeOK'
  BY <1>1, <1>2 DEF IInv, TypeOK, SessionTypeOK
<1>4. Shapes' /\ JoinsAreSent'
  BY <1>1 DEF IInv, Shapes, JoinsAreSent
<1>5. SessionsAreDistinct'
  BY <1>1, <1>2 DEF IInv, SessionsAreDistinct, IsOpen, OpenHandles
<1>6. DOMAIN players \subseteq OpenHandles /\ OpenHandles \subseteq OpenHandles'
  BY <1>1, <1>2 DEF IInv, RosterIsSafe, OpenHandles
<1>7. DamageIsPaid'
  BY <1>1 DEF IInv, DamageIsPaid
<1>8. \A f \in Endpoint :
        /\ Known(f)' = Known(f) /\ IdsOf(f)' = IdsOf(f) /\ Used(f)' = Used(f)
        /\ session'[f] \in DOMAIN players' => session'[f] = session[f]
  BY <1>1, <1>2, <1>6 DEF Known, IdsOf, Used
<1>9. \A q \in DOMAIN players' :
        players'[q].id = players[q].id /\ players'[q].health <= players[q].health
  BY <1>1, NumbersInRange DEF IInv
<1> QED
  BY <1>1, <1>3, <1>4, <1>5, <1>6, <1>7, <1>8, <1>9, NoNews

\* The player of a session goes with it.
LEMMA OnDisconnectedStep ==
  ASSUME IInv, NEW e \in Endpoint, OnDisconnected(e)
  PROVE  IInv'
<1>1. /\ session[e] # NoClient
      /\ session' = [session EXCEPT ![e] = NoClient]
      /\ players' = [q \in DOMAIN players \ {session[e]} |-> players[q]]
      /\ joins' = joins \ {e}
      /\ welcomes' = [welcomes EXCEPT ![e] = 0]
      /\ UNCHANGED <<next_player_id, projectiles, shots, server_tick, fires,
                     snapshots, join_sent, playerId, snapshot>>
  BY DEF OnDisconnected, CloseSession, IsOpen, WithoutPlayer, client
<1>2. /\ session' \in [Endpoint -> Pointer \cup {NoClient}] /\ session'[e] = NoClient
      /\ \A f \in Endpoint \ {e} : session'[f] = session[f]
  BY <1>1 DEF IInv, TypeOK, SessionTypeOK
<1>3. /\ welcomes' \in [Endpoint -> Id \cup {0}] /\ welcomes'[e] = 0
      /\ \A f \in Endpoint \ {e} : welcomes'[f] = welcomes[f]
  BY <1>1 DEF IInv, TypeOK
<1>4. /\ DOMAIN players' = DOMAIN players \ {session[e]}
      /\ \A q \in DOMAIN players' : players'[q] = players[q]
  BY <1>1
<1>5. TypeOK'
  BY <1>1, <1>2, <1>3, <1>4 DEF IInv, TypeOK, SessionTypeOK
<1>6. Shapes' /\ JoinsAreSent'
  BY <1>1 DEF IInv, Shapes, JoinsAreSent
<1>7. SessionsAreDistinct'
  BY <1>2 DEF IInv, SessionsAreDistinct, IsOpen
<1>8. DOMAIN players' \subseteq OpenHandles'
  BY <1>2, <1>4 DEF IInv, RosterIsSafe, OpenHandles
<1>9. DamageIsPaid'
  BY <1>1, <1>4, <1>5, PaidIsKept
<1>10. \A f \in Endpoint :
         /\ Known(f)' = Known(f) /\ IdsOf(f)' \subseteq IdsOf(f)
         /\ Used(f) => Used(f)'
         /\ session'[f] \in DOMAIN players' => session'[f] = session[f]
  <2>1. NoClient \notin DOMAIN players'
    BY <1>8 DEF OpenHandles
  <2>2. \A f \in Endpoint : IdsOf(f)' \subseteq IdsOf(f)
    BY <1>1, <1>3 DEF IdsOf
  <2>3. \A f \in Endpoint : Known(f)' = Known(f)
    BY <1>1 DEF Known
  <2>4. \A f \in Endpoint : Used(f) => Used(f)'
    BY <1>1 DEF Used
  <2> QED
    BY <1>2, <2>1, <2>2, <2>3, <2>4
<1>11. \A q \in DOMAIN players' :
         players'[q].id = players[q].id /\ players'[q].health <= players[q].health
  BY <1>4, NumbersInRange DEF IInv
<1>12. DOMAIN players' \subseteq DOMAIN players
       /\ UNCHANGED <<next_player_id, server_tick>>
  BY <1>1, <1>4
<1> QED
  BY <1>5, <1>6, <1>7, <1>8, <1>9, <1>10, <1>11, <1>12, NoNews

\* The Join is the client's only one: it has no player yet, is told its id and
\* was never sent a snapshot.
LEMMA OnJoinStep ==
  ASSUME IInv, NEW e \in Endpoint, OnJoin(e)
  PROVE  IInv'
<1> DEFINE p == session[e]
           n == next_player_id
<1>1. /\ IsOpen(e) /\ e \in joins /\ ~Used(e) /\ join_sent[e]
      /\ p \notin DOMAIN players /\ p \in Pointer /\ p # NoClient
      /\ playerId[e] = 0 /\ Known(e) = {NoSnapshot}
  <2>1. IsOpen(e) /\ e \in joins
    BY DEF OnJoin
  <2>2. ~Used(e) /\ join_sent[e]
    BY <2>1 DEF Used, IInv, JoinsAreSent
  <2> QED
    BY <2>1, <2>2 DEF IInv, NothingBefore, TypeOK, SessionTypeOK, IsOpen
<1>2. /\ joins' = joins \ {e}
      /\ players' = [q \in DOMAIN players \cup {p} |->
                       IF q = p THEN [id |-> n, health |-> kKMaxHealth] ELSE players[q]]
      /\ next_player_id' = n + 1
      /\ welcomes' = [welcomes EXCEPT ![e] = n]
      /\ UNCHANGED <<session, projectiles, shots, server_tick, fires, snapshots,
                     join_sent, playerId, snapshot>>
  BY <1>1 DEF OnJoin, NewPlayer, client
<1>3. /\ DOMAIN players' = DOMAIN players \cup {p}
      /\ players'[p].id = n /\ players'[p].health = kKMaxHealth
      /\ players'[p] = [id |-> n, health |-> kKMaxHealth]
      /\ \A q \in DOMAIN players : players'[q] = players[q]
  BY <1>1, <1>2
<1>4. \A f \in Endpoint : Known(f)' = Known(f)
  BY <1>2 DEF Known
<1>5. Used(e)' /\ \A f \in Endpoint \ {e} : Used(f)' <=> Used(f)
  BY <1>1, <1>2 DEF Used
<1>6. /\ IdsAreCounted' /\ n \in Id
      /\ next_player_id' \in 1..Cardinality(Endpoint) + 1
  <2> DEFINE U == {f \in Endpoint : Used(f)}
             V == {f \in Endpoint : Used(f)'}
  <2>1. V = U \cup {e} /\ e \notin U /\ U \in SUBSET Endpoint /\ V \in SUBSET Endpoint
    BY <1>1, <1>5
  <2>2. /\ IsFiniteSet(U) /\ Cardinality(U) \in Nat
        /\ Cardinality(V) \in Nat /\ Cardinality(V) <= Cardinality(Endpoint)
    BY <2>1, EndpointsAreCounted
  <2>3. n \in 1..Cardinality(Endpoint) + 1 /\ n <= Cardinality(U) + 1
    BY DEF IInv, TypeOK, IdsAreCounted
  <2> HIDE DEF U, V
  <2>4. Cardinality(V) = Cardinality(U) + 1
    BY <2>1, <2>2, FS_AddElement
  <2>5. /\ n + 1 <= Cardinality(V) + 1 /\ n \in 1..Cardinality(Endpoint)
        /\ n + 1 \in 1..Cardinality(Endpoint) + 1
    BY <2>2, <2>3, <2>4, EndpointsAreCounted
  <2> USE DEF V
  <2> QED
    BY <1>2, <2>5 DEF IdsAreCounted, Id
<1>7. TypeOK'
  <2>1. welcomes' \in [Endpoint -> Id \cup {0}]
    BY <1>2, <1>6 DEF IInv, TypeOK
  <2>2. [id |-> n, health |-> kKMaxHealth] \in PlayerState
    BY <1>6 DEF PlayerState
  <2>3. DOMAIN players' \subseteq Pointer
    BY <1>1, <1>3 DEF IInv, TypeOK
  <2>4. \A q \in DOMAIN players' : players'[q] \in PlayerState
    BY <1>3, <2>2 DEF IInv, TypeOK
  <2> QED
    BY <1>2, <1>6, <2>1, <2>3, <2>4 DEF IInv, TypeOK, SessionTypeOK
<1>8. Shapes' /\ JoinsAreSent' /\ SessionsAreDistinct'
  BY <1>2 DEF IInv, Shapes, JoinsAreSent, SessionsAreDistinct, IsOpen
<1>9. n \in Nat /\ \A q \in DOMAIN players : players[q].id < n /\ players[q].id \in Nat
  BY NumbersInRange DEF IInv, RosterIsSafe
<1>10. RosterIsSafe'
  <2>1. DOMAIN players' \subseteq OpenHandles'
    BY <1>1, <1>2, <1>3 DEF IInv, RosterIsSafe, OpenHandles
  <2>2. \A q \in DOMAIN players : players[q].id # n
    BY <1>9
  <2>3. \A q, r \in DOMAIN players' : players'[q].id = players'[r].id => q = r
    BY <1>3, <2>2 DEF IInv, RosterIsSafe
  <2>4. \A q \in DOMAIN players' : players'[q].id < next_player_id'
    <3> SUFFICES ASSUME NEW q \in DOMAIN players' PROVE players'[q].id < n + 1
      BY <1>2
    <3>1. CASE q = p
      BY <1>3, <1>9, <3>1
    <3>2. CASE q # p
      <4>1. q \in DOMAIN players /\ players'[q].id = players[q].id
        BY <1>3, <3>2
      <4> QED
        BY <1>9, <4>1
    <3> QED
      BY <3>1, <3>2
  <2> QED
    BY <2>1, <2>3, <2>4 DEF RosterIsSafe
<1>11. \A f \in Endpoint \ {e} : session[f] # p
  BY <1>1 DEF IInv, SessionsAreDistinct, IsOpen
<1>12. /\ IdsOf(e)' \subseteq {n}
       /\ \A f \in Endpoint \ {e} : IdsOf(f)' = IdsOf(f)
  <2>1. welcomes \in [Endpoint -> Id \cup {0}]
    BY DEF IInv, TypeOK
  <2> QED
    BY <1>1, <1>2, <2>1 DEF IdsOf
<1>13. NothingBefore'
  <2> SUFFICES ASSUME NEW f \in Endpoint, ~Used(f)'
               PROVE  /\ session'[f] \notin DOMAIN players'
                      /\ playerId'[f] = 0 /\ welcomes'[f] = 0
                      /\ Known(f)' = {NoSnapshot}
    BY DEF NothingBefore
  <2>1. f # e /\ ~Used(f)
    BY <1>5
  <2>2. /\ session[f] \notin DOMAIN players /\ playerId[f] = 0 /\ welcomes[f] = 0
        /\ Known(f) = {NoSnapshot}
    BY <2>1 DEF IInv, NothingBefore
  <2>3. welcomes'[f] = welcomes[f]
    BY <1>2, <2>1 DEF IInv, TypeOK
  <2> QED
    BY <1>2, <1>3, <1>4, <1>11, <2>1, <2>2, <2>3
<1>14. IdsAreShown'
  <2> SUFFICES ASSUME NEW f \in Endpoint, NEW id \in IdsOf(f)'
               PROVE  /\ session'[f] \in DOMAIN players' => players'[session'[f]].id = id
                      /\ \A s \in Known(f)' : s # NoSnapshot => id \in DOMAIN s.health
    BY DEF IdsAreShown
  <2>1. CASE f = e
    BY <1>1, <1>2, <1>3, <1>4, <1>12, <2>1
  <2>2. CASE f # e
    <3>1. /\ session[f] \in DOMAIN players => players[session[f]].id = id
          /\ \A s \in Known(f) : s # NoSnapshot => id \in DOMAIN s.health
      BY <1>12, <2>2 DEF IInv, IdsAreShown
    <3> QED
      BY <1>2, <1>3, <1>4, <1>11, <2>2, <3>1
  <2> QED
    BY <2>1, <2>2
<1>15. \A f \in Endpoint : \A s \in Known(f) : \A id \in DOMAIN s.health :
         id \in Nat /\ id < n /\ id # n
  <2>1. \A f \in Endpoint : \A s \in Known(f) : \A id \in DOMAIN s.health :
          id \in Nat /\ id < n
    BY DEF IInv, SnapshotsAreOld
  <2>2. ~(n < n)
    BY <1>9
  <2> QED
    BY <2>1, <2>2
<1>16. SnapshotsAreOld'
  <2> SUFFICES ASSUME NEW f \in Endpoint, NEW s \in Known(f)
               PROVE  /\ s = NoSnapshot \/ s.tick < server_tick
                      /\ \A id \in DOMAIN s.health : id \in Nat /\ id < n + 1
    BY <1>2, <1>4 DEF SnapshotsAreOld
  <2>1. s = NoSnapshot \/ s.tick < server_tick
    BY DEF IInv, SnapshotsAreOld
  <2>2. ASSUME NEW id \in DOMAIN s.health PROVE id \in Nat /\ id < n + 1
    <3>1. id < n /\ id \in Nat
      BY <1>15
    <3> QED
      BY <1>9, <3>1
  <2> QED
    BY <2>1, <2>2
<1>17. HealthIsSpent'
  <2> SUFFICES ASSUME NEW f \in Endpoint, NEW s \in Known(f), NEW q \in DOMAIN players',
                      players'[q].id \in DOMAIN s.health
               PROVE  players'[q].health <= s.health[players'[q].id]
    BY <1>4 DEF HealthIsSpent
  <2>1. q # p
    BY <1>3, <1>15
  <2>2. q \in DOMAIN players /\ players'[q] = players[q]
    BY <1>3, <2>1
  <2> QED
    BY <2>2 DEF IInv, HealthIsSpent
<1>18. MoreHealthIsOlder'
  BY <1>4 DEF IInv, MoreHealthIsOlder
<1>19. DamageIsPaid'
  <2>1. \A q \in DOMAIN players' :
          \/ q \in DOMAIN players /\ players'[q] = players[q]
          \/ q \notin DOMAIN players /\ players'[q].health = kKMaxHealth
    BY <1>1, <1>3
  <2> QED
    BY <1>2, <1>7, <2>1, PaidIsKept
<1> QED
  BY <1>6, <1>7, <1>8, <1>10, <1>13, <1>14, <1>16, <1>17, <1>18, <1>19 DEF IInv

\* A shot adds a projectile to those that are not spent.
LEMMA OnFireStep ==
  ASSUME IInv, NEW e \in Endpoint, OnFire(e)
  PROVE  IInv'
<1>1. PICK id : /\ session[e] \in DOMAIN players
                /\ id = players[session[e]].id
                /\ shots' = Append(shots, id)
                /\ projectiles' = projectiles \cup {Len(shots) + 1}
                /\ fires' \subseteq fires
  BY DEF OnFire
<1>2. /\ UNCHANGED <<session, players, next_player_id, server_tick>>
      /\ UNCHANGED <<joins, welcomes, snapshots, join_sent, playerId, snapshot>>
  BY DEF OnFire, client
<1>3. /\ shots' \in Seq(Id)
      /\ DOMAIN shots' = DOMAIN shots \cup {Len(shots) + 1}
      /\ Len(shots) + 1 \notin DOMAIN shots
      /\ \A k \in DOMAIN shots : shots'[k] = shots[k]
  <2>1. id \in Id
    BY <1>1 DEF IInv, TypeOK, PlayerState
  <2>2. /\ shots \in Seq(Id) /\ Len(shots) \in Nat /\ DOMAIN shots = 1..Len(shots)
    BY ShotsAreNumbered DEF IInv
  <2>3. /\ shots' \in Seq(Id) /\ Len(shots') = Len(shots) + 1
        /\ \A k \in 1..Len(shots) : shots'[k] = shots[k]
    BY <1>1, <2>1, <2>2, AppendProperties
  <2>4. DOMAIN shots' = 1..Len(shots) + 1
    BY <2>3, LenProperties
  <2>5. /\ 1..Len(shots) + 1 = 1..Len(shots) \cup {Len(shots) + 1}
        /\ Len(shots) + 1 \notin 1..Len(shots)
    BY <2>2
  <2> QED
    BY <2>2, <2>3, <2>4, <2>5
<1>4. projectiles' \subseteq DOMAIN shots'
  BY <1>1, <1>3 DEF IInv, TypeOK
<1>5. TypeOK'
  BY <1>1, <1>2, <1>3, <1>4 DEF IInv, TypeOK, SessionTypeOK
<1>6. Shapes' /\ JoinsAreSent' /\ SessionsAreDistinct'
  BY <1>2 DEF IInv, Shapes, JoinsAreSent, SessionsAreDistinct, IsOpen
<1>7. DamageIsPaid'
  <2>1. DOMAIN shots \ projectiles \subseteq DOMAIN shots' \ projectiles'
    BY <1>1, <1>3
  <2> QED
    BY <1>2, <1>3, <1>5, <2>1, PaidIsKept
<1>8. \A f \in Endpoint :
        Known(f)' = Known(f) /\ IdsOf(f)' = IdsOf(f) /\ Used(f)' = Used(f)
  BY <1>2 DEF Known, IdsOf, Used
<1>9. DOMAIN players' \subseteq OpenHandles'
  BY <1>2 DEF IInv, RosterIsSafe, OpenHandles
<1>10. \A q \in DOMAIN players' :
         players'[q].id = players[q].id /\ players'[q].health <= players[q].health
  BY <1>2, NumbersInRange DEF IInv
<1> QED
  BY <1>2, <1>5, <1>6, <1>7, <1>8, <1>9, <1>10, NoNews

\* Hits are arithmetic: n of them take n times the damage, or all there is.
LEMMA DamageBound ==
  ASSUME NEW health \in 0..kKMaxHealth, NEW n \in Nat, NEW c \in Nat,
         kKMaxHealth - health <= kKProjectileDamage * c
  PROVE  /\ Damaged(health, n) \in 0..kKMaxHealth
         /\ Damaged(health, n) <= health
         /\ kKMaxHealth - Damaged(health, n) <= kKProjectileDamage * (c + n)
<1>1. PICK d \in Nat : d = n * kKProjectileDamage
  OBVIOUS
<1>2. PICK b \in Nat : b = kKProjectileDamage * c
  OBVIOUS
<1>3. kKProjectileDamage * (c + n) = b + d
  BY <1>1, <1>2
<1>4. Damaged(health, n) = IF health > d THEN health - d ELSE 0
  BY <1>1 DEF Damaged
<1>5. kKMaxHealth - health <= b
  BY <1>2
<1>6. health \in Nat /\ health <= kKMaxHealth
  OBVIOUS
<1>7. PICK h : h = IF health > d THEN health - d ELSE 0
  OBVIOUS
<1>8. h \in 0..kKMaxHealth /\ h <= health /\ kKMaxHealth - h <= b + d
  BY <1>5, <1>6, <1>7
<1> QED
  BY <1>3, <1>4, <1>7, <1>8

\* Every hit is paid for by a projectile that flew until now.
LEMMA UpdateWorldStep ==
  ASSUME IInv, UpdateWorld
  PROVE  IInv'
<1>1. PICK struck \in SUBSET projectiles :
        \E hit \in [struck -> DOMAIN players], gone \in SUBSET (projectiles \ struck) :
          /\ \A k \in struck : players[hit[k]].id # shots[k]
          /\ ResolveProjectileHits(hit, gone)
          /\ UNCHANGED <<session, next_player_id, shots, server_tick, network, client>>
  BY DEF UpdateWorld
<1>2. PICK hit \in [struck -> DOMAIN players], gone \in SUBSET (projectiles \ struck) :
        /\ \A k \in struck : players[hit[k]].id # shots[k]
        /\ ResolveProjectileHits(hit, gone)
        /\ UNCHANGED <<session, next_player_id, shots, server_tick, network, client>>
  BY <1>1
<1> DEFINE Hits(p) == {k \in struck : hit[k] = p}
<1>3. /\ UNCHANGED <<session, next_player_id, shots, server_tick>>
      /\ UNCHANGED <<joins, welcomes, fires, snapshots, join_sent, playerId, snapshot>>
      /\ projectiles' = projectiles \ (struck \cup gone)
      /\ players' = [p \in DOMAIN players |->
                       [players[p] EXCEPT !.health = Damaged(@, Cardinality(Hits(p)))]]
  BY <1>2 DEF ResolveProjectileHits, Erased, network, client
<1>4. /\ DOMAIN players' = DOMAIN players
      /\ \A p \in DOMAIN players :
           players'[p] = [players[p] EXCEPT !.health = Damaged(@, Cardinality(Hits(p)))]
  BY <1>3
<1>5. \A p \in DOMAIN players :
        /\ players'[p].id = players[p].id
        /\ players'[p].health = Damaged(players[p].health, Cardinality(Hits(p)))
        /\ Damaged(players[p].health, Cardinality(Hits(p))) \in 0..kKMaxHealth
             => players'[p] \in PlayerState
  BY <1>4, NumbersInRange DEF IInv, PlayerState
<1>6. /\ projectiles \subseteq DOMAIN shots /\ IsFiniteSet(DOMAIN shots)
      /\ \A S \in SUBSET DOMAIN shots : IsFiniteSet(S) /\ Cardinality(S) \in Nat
  BY ShotsAreNumbered, FS_Subset, FS_CardinalityType DEF IInv
<1>7. PICK paid \in [DOMAIN players -> SUBSET (DOMAIN shots \ projectiles)] :
        /\ \A p \in DOMAIN players :
             /\ kKMaxHealth - players[p].health <=
                  kKProjectileDamage * Cardinality(paid[p])
             /\ \A k \in paid[p] : shots[k] # players[p].id
        /\ \A p, q \in DOMAIN players : paid[p] \cap paid[q] # {} => p = q
  BY DEF IInv, DamageIsPaid
<1>8. ASSUME NEW p \in DOMAIN players
      PROVE  /\ players'[p].health \in 0..kKMaxHealth
             /\ players'[p].health <= players[p].health
             /\ kKMaxHealth - players'[p].health <=
                  kKProjectileDamage * Cardinality(paid[p] \cup Hits(p))
  <2>1. PICK c \in Nat : c = Cardinality(paid[p])
    BY <1>6
  <2>2. PICK n \in Nat : n = Cardinality(Hits(p))
    BY <1>6
  <2>3. Cardinality(paid[p] \cup Hits(p)) = c + n
    <3>1. paid[p] \in SUBSET DOMAIN shots /\ Hits(p) \in SUBSET DOMAIN shots
      BY <1>6
    <3>2. paid[p] \cap Hits(p) = {}
      BY <1>7
    <3>3. IsFiniteSet(paid[p]) /\ IsFiniteSet(Hits(p))
      BY <1>6, <3>1
    <3>4. Cardinality(paid[p] \cup Hits(p)) =
            Cardinality(paid[p]) + Cardinality(Hits(p)) - Cardinality(paid[p] \cap Hits(p))
      <4> HIDE DEF Hits
      <4> QED
        BY <3>3, FS_Union, Zenon
    <3>5. Cardinality(paid[p] \cap Hits(p)) = 0
      BY <3>2, FS_EmptySet
    <3> HIDE DEF Hits
    <3> QED
      BY <2>1, <2>2, <3>4, <3>5
  <2>4. players[p].health \in 0..kKMaxHealth
    BY NumbersInRange DEF IInv
  <2>5. kKMaxHealth - players[p].health <= kKProjectileDamage * c
    BY <1>7, <2>1
  <2>6. players'[p].health = Damaged(players[p].health, n)
    BY <1>5, <2>2
  <2> HIDE DEF Hits
  <2> QED
    BY <2>3, <2>4, <2>5, <2>6, DamageBound
<1>9. TypeOK'
  <2>1. \A p \in DOMAIN players' : players'[p] \in PlayerState
    <3> SUFFICES ASSUME NEW p \in DOMAIN players PROVE players'[p] \in PlayerState
      BY <1>4
    <3>1. players'[p].health \in 0..kKMaxHealth
      BY <1>8
    <3> HIDE DEF Hits
    <3> QED
      BY <1>5, <3>1
  <2>2. projectiles' \subseteq DOMAIN shots'
    BY <1>3, <1>6
  <2> HIDE DEF Hits
  <2> QED
    BY <1>3, <1>4, <2>1, <2>2 DEF IInv, TypeOK, SessionTypeOK
<1>10. DamageIsPaid'
  <2>1. PICK paid2 : paid2 = [p \in DOMAIN players |-> paid[p] \cup Hits(p)]
    OBVIOUS
  <2>2. paid2 \in [DOMAIN players -> SUBSET (DOMAIN shots \ projectiles')]
    BY <1>3, <1>6, <2>1
  <2>3. ASSUME NEW p \in DOMAIN players
        PROVE  /\ kKMaxHealth - players'[p].health <=
                    kKProjectileDamage * Cardinality(paid2[p])
               /\ \A k \in paid2[p] : shots[k] # players'[p].id
    <3>1. paid2[p] = paid[p] \cup Hits(p)
      BY <2>1
    <3>2. \A k \in paid2[p] : shots[k] # players[p].id
      BY <1>2, <1>7, <3>1
    <3> HIDE DEF Hits
    <3> QED
      BY <1>5, <1>8, <3>1, <3>2
  <2>4. \A p, q \in DOMAIN players : paid2[p] \cap paid2[q] # {} => p = q
    <3>1. \A p \in DOMAIN players :
            /\ paid2[p] = paid[p] \cup Hits(p)
            /\ paid[p] \cap projectiles = {} /\ Hits(p) \subseteq projectiles
      BY <1>7, <2>1
    <3>2. \A p, q \in DOMAIN players : Hits(p) \cap Hits(q) # {} => p = q
      OBVIOUS
    <3> HIDE DEF Hits
    <3> QED
      BY <1>7, <3>1, <3>2
  <2> HIDE DEF Hits
  <2>5. DOMAIN players' = DOMAIN players /\ shots' = shots
    BY <1>3, <1>4
  <2>6. paid2 \in [DOMAIN players' -> SUBSET (DOMAIN shots' \ projectiles')]
    BY <2>2, <2>5
  <2>7. \A p \in DOMAIN players' :
          /\ kKMaxHealth - players'[p].health <=
               kKProjectileDamage * Cardinality(paid2[p])
          /\ \A k \in paid2[p] : shots'[k] # players'[p].id
    BY <2>3, <2>5
  <2>8. \A p, q \in DOMAIN players' : paid2[p] \cap paid2[q] # {} => p = q
    BY <2>4, <2>5
  <2> QED
    BY <2>6, <2>7, <2>8 DEF DamageIsPaid
<1> HIDE DEF Hits
<1>11. Shapes' /\ JoinsAreSent' /\ SessionsAreDistinct'
  BY <1>3 DEF IInv, Shapes, JoinsAreSent, SessionsAreDistinct, IsOpen
<1>12. \A f \in Endpoint :
         Known(f)' = Known(f) /\ IdsOf(f)' = IdsOf(f) /\ Used(f)' = Used(f)
  BY <1>3 DEF Known, IdsOf, Used
<1>13. DOMAIN players' \subseteq OpenHandles'
  BY <1>3, <1>4 DEF IInv, RosterIsSafe, OpenHandles
<1>14. \A p \in DOMAIN players' :
         players'[p].id = players[p].id /\ players'[p].health <= players[p].health
  BY <1>4, <1>5, <1>8
<1>15. /\ DOMAIN players' \subseteq DOMAIN players
       /\ UNCHANGED <<session, next_player_id, server_tick>>
  BY <1>3, <1>4
<1> QED
  BY <1>9, <1>10, <1>11, <1>12, <1>13, <1>14, <1>15, NoNews

\* A snapshot has the health of each player.
LEMMA SnapshotIsRight ==
  ASSUME IInv
  PROVE  /\ MakeSnapshot.tick = server_tick
         /\ \A p \in DOMAIN players :
              /\ players[p].id \in DOMAIN MakeSnapshot.health
              /\ MakeSnapshot.health[players[p].id] = players[p].health
         /\ \A id \in DOMAIN MakeSnapshot.health :
              \E p \in DOMAIN players : players[p].id = id
<1> DEFINE ids == {players[p].id : p \in DOMAIN players}
           Of(id) == CHOOSE p \in DOMAIN players : players[p].id = id
<1>1. /\ MakeSnapshot.tick = server_tick
      /\ MakeSnapshot.health = [id \in ids |-> players[Of(id)].health]
  BY DEF MakeSnapshot
<1>2. ASSUME NEW p \in DOMAIN players
      PROVE  Of(players[p].id) = p
  <2>1. \A q \in DOMAIN players : players[q].id = players[p].id => q = p
    BY DEF IInv, RosterIsSafe
  <2> QED
    BY <2>1
<1>3. \A p \in DOMAIN players :
        players[p].id \in ids /\ players[Of(players[p].id)].health = players[p].health
  BY <1>2, Zenon
<1> HIDE DEF Of
<1>4. \A id \in ids : \E p \in DOMAIN players : players[p].id = id
  OBVIOUS
<1> HIDE DEF ids
<1> QED
  BY <1>1, <1>3, <1>4

\* The snapshot goes to those who have a player, and is newer than any other.
LEMMA BroadcastSnapshotStep ==
  ASSUME IInv, BroadcastSnapshot
  PROVE  IInv'
<1> DEFINE M == MakeSnapshot
<1>1. /\ server_tick < MaxTicks
      /\ server_tick' = server_tick + 1
      /\ snapshots' = [e \in Endpoint |-> IF session[e] \in DOMAIN players
                                          THEN snapshots[e] \cup {M}
                                          ELSE snapshots[e]]
      /\ UNCHANGED <<session, players, next_player_id, projectiles, shots>>
      /\ UNCHANGED <<joins, welcomes, fires, join_sent, playerId, snapshot>>
  BY DEF BroadcastSnapshot, NextTick, Audience, client
<1>2. /\ M.tick = server_tick /\ server_tick \in Nat
      /\ \A p \in DOMAIN players :
           /\ players[p].id \in DOMAIN M.health
           /\ M.health[players[p].id] = players[p].health
      /\ \A id \in DOMAIN M.health : \E p \in DOMAIN players : players[p].id = id
  BY SnapshotIsRight, NumbersInRange DEF IInv
<1> HIDE DEF M
<1>3. \A e \in Endpoint :
        /\ session[e] \in DOMAIN players => Known(e)' = Known(e) \cup {M}
        /\ session[e] \notin DOMAIN players => Known(e)' = Known(e)
        /\ Known(e)' \subseteq Known(e) \cup {M}
        /\ IdsOf(e)' = IdsOf(e)
        /\ Used(e)' = Used(e)
  BY <1>1 DEF Known, IdsOf, Used
<1>4. M.tick \in 0..MaxTicks /\ server_tick' \in 0..MaxTicks
  BY <1>1, <1>2
<1>5. \A id \in DOMAIN M.health : M.health[id] \in 0..kKMaxHealth
  BY <1>2, NumbersInRange DEF IInv
<1>6. TypeOK'
  <2>1. \A e \in Endpoint : \A s \in Known(e) :
          /\ s.tick \in 0..MaxTicks
          /\ \A id \in DOMAIN s.health : s.health[id] \in 0..kKMaxHealth
    BY DEF IInv, TypeOK, Known
  <2>2. \A e \in Endpoint : \A s \in Known(e)' :
          /\ s.tick \in 0..MaxTicks
          /\ \A id \in DOMAIN s.health : s.health[id] \in 0..kKMaxHealth
    BY <1>3, <1>4, <1>5, <2>1
  <2> QED
    BY <1>1, <1>4, <2>2 DEF IInv, TypeOK, SessionTypeOK, Known
<1>7. Shapes' /\ JoinsAreSent' /\ SessionsAreDistinct' /\ RosterIsSafe'
  BY <1>1 DEF IInv, Shapes, JoinsAreSent, SessionsAreDistinct, IsOpen, RosterIsSafe,
              OpenHandles
<1>8. NothingBefore'
  BY <1>1, <1>3 DEF IInv, NothingBefore
<1>9. IdsAreCounted'
  <2>1. {e \in Endpoint : Used(e)'} = {e \in Endpoint : Used(e)}
    BY <1>3
  <2> QED
    BY <1>1, <2>1 DEF IInv, IdsAreCounted
<1>10. IdsAreShown'
  <2> SUFFICES ASSUME NEW e \in Endpoint, NEW id \in IdsOf(e)
               PROVE  /\ session[e] \in DOMAIN players => players[session[e]].id = id
                      /\ \A s \in Known(e)' : s # NoSnapshot => id \in DOMAIN s.health
    BY <1>1, <1>3 DEF IdsAreShown
  <2>1. /\ session[e] \in DOMAIN players => players[session[e]].id = id
        /\ \A s \in Known(e) : s # NoSnapshot => id \in DOMAIN s.health
    BY DEF IInv, IdsAreShown
  <2> QED
    BY <1>2, <1>3, <2>1
<1>11. \A e \in Endpoint : \A s \in Known(e) :
         /\ s = NoSnapshot \/ s.tick < server_tick
         /\ s.tick \in Nat
         /\ \A id \in DOMAIN s.health : id \in Nat /\ id < next_player_id
  BY NumbersInRange DEF IInv, SnapshotsAreOld
<1>12. SnapshotsAreOld'
  <2> SUFFICES ASSUME NEW e \in Endpoint, NEW s \in Known(e)'
               PROVE  /\ s = NoSnapshot \/ s.tick < server_tick + 1
                      /\ \A id \in DOMAIN s.health : id \in Nat /\ id < next_player_id
    BY <1>1 DEF SnapshotsAreOld
  <2>1. CASE s \in Known(e)
    <3>1. /\ s = NoSnapshot \/ s.tick < server_tick
          /\ s.tick \in Nat
          /\ \A id \in DOMAIN s.health : id \in Nat /\ id < next_player_id
      BY <1>11, <2>1
    <3>2. s.tick < server_tick => s.tick < server_tick + 1
      BY <1>2, <3>1
    <3> QED
      BY <3>1, <3>2
  <2>2. CASE s = M
    <3>1. s.tick < server_tick + 1
      BY <1>2, <2>2
    <3>2. \A p \in DOMAIN players : players[p].id \in Nat /\ players[p].id < next_player_id
      BY NumbersInRange DEF IInv, RosterIsSafe
    <3> QED
      BY <1>2, <2>2, <3>1, <3>2
  <2> QED
    BY <1>3, <2>1, <2>2
<1>13. HealthIsSpent'
  <2> SUFFICES ASSUME NEW e \in Endpoint, NEW s \in Known(e)', NEW p \in DOMAIN players,
                      players[p].id \in DOMAIN s.health
               PROVE  players[p].health <= s.health[players[p].id]
    BY <1>1 DEF HealthIsSpent
  <2>1. CASE s \in Known(e)
    BY <2>1 DEF IInv, HealthIsSpent
  <2>2. CASE s = M
    <3>1. s.health[players[p].id] = players[p].health /\ players[p].health \in Nat
      BY <1>2, <2>2, NumbersInRange DEF IInv
    <3> QED
      BY <3>1
  <2> QED
    BY <1>3, <2>1, <2>2
<1>14. MoreHealthIsOlder'
  <2> SUFFICES ASSUME NEW e \in Endpoint, NEW s \in Known(e)', NEW t \in Known(e)',
                      NEW id \in DOMAIN s.health \cap DOMAIN t.health,
                      t.health[id] > s.health[id]
               PROVE  t.tick < s.tick
    BY DEF MoreHealthIsOlder
  <2>1. CASE s \in Known(e) /\ t \in Known(e)
    BY <2>1 DEF IInv, MoreHealthIsOlder
  <2>2. CASE s = M /\ t \in Known(e)
    <3>1. t # NoSnapshot
      BY NoElements DEF NoSnapshot
    <3> QED
      BY <1>2, <1>11, <2>2, <3>1
  <2>3. CASE s \in Known(e) /\ t = M
    <3>1. PICK p \in DOMAIN players : players[p].id = id
      BY <1>2, <2>3
    <3>2. t.health[id] = players[p].health
      BY <1>2, <2>3, <3>1
    <3>3. players[p].health <= s.health[id]
      BY <2>3, <3>1 DEF IInv, HealthIsSpent
    <3>4. players[p].health \in Nat /\ s.health[id] \in Nat
      BY <2>3, NumbersInRange DEF IInv
    <3> QED
      BY <3>2, <3>3, <3>4
  <2>4. CASE s = M /\ t = M
    <3>1. M.health[id] \in 0..kKMaxHealth
      BY <1>5, <2>4
    <3> QED
      BY <2>4, <3>1
  <2> QED
    BY <1>3, <2>1, <2>2, <2>3, <2>4
<1>15. DamageIsPaid'
  BY <1>1 DEF IInv, DamageIsPaid
<1> QED
  BY <1>6, <1>7, <1>8, <1>9, <1>10, <1>12, <1>13, <1>14, <1>15 DEF IInv

-----------------------------------------------------------------------------
(* The clients and the network *)

LEMMA ServerIsLeft ==
  ASSUME IInv, TypeOK', Shapes', JoinsAreSent',
         \A e \in Endpoint :
           /\ Known(e)' \subseteq Known(e)
           /\ IdsOf(e)' \subseteq IdsOf(e)
           /\ Used(e) => Used(e)',
         UNCHANGED <<session, server>>
  PROVE  IInv'
<1>1. UNCHANGED <<session, players, next_player_id, projectiles, shots, server_tick>>
  BY DEF server
<1>2. SessionsAreDistinct' /\ DOMAIN players' \subseteq OpenHandles'
  BY <1>1 DEF IInv, SessionsAreDistinct, IsOpen, RosterIsSafe, OpenHandles
<1>3. DamageIsPaid'
  BY <1>1 DEF IInv, DamageIsPaid
<1>4. \A p \in DOMAIN players' :
        players'[p].id = players[p].id /\ players'[p].health <= players[p].health
  BY <1>1, NumbersInRange DEF IInv
<1> QED
  BY <1>1, <1>2, <1>3, <1>4, NoNews

LEMMA SendJoinStep ==
  ASSUME IInv, NEW e \in Endpoint, SendJoin(e)
  PROVE  IInv'
<1>1. /\ ~join_sent[e]
      /\ join_sent' = [join_sent EXCEPT ![e] = TRUE]
      /\ joins' \subseteq joins \cup {e} /\ joins \subseteq joins'
      /\ UNCHANGED <<session, server>>
      /\ UNCHANGED <<welcomes, fires, snapshots, playerId, snapshot>>
  BY DEF SendJoin
<1>2. join_sent'[e] /\ \A f \in Endpoint \ {e} : join_sent'[f] = join_sent[f]
  BY <1>1 DEF IInv, TypeOK
<1>3. TypeOK'
  BY <1>1 DEF IInv, TypeOK, SessionTypeOK, server
<1>4. Shapes'
  BY <1>1 DEF IInv, Shapes
<1>5. JoinsAreSent'
  BY <1>1, <1>2 DEF IInv, JoinsAreSent, TypeOK
<1>6. \A f \in Endpoint :
        /\ Known(f)' = Known(f) /\ IdsOf(f)' = IdsOf(f)
        /\ Used(f) => Used(f)'
  BY <1>1, <1>2 DEF Known, IdsOf, Used
<1> QED
  BY <1>1, <1>3, <1>4, <1>5, <1>6, ServerIsLeft

LEMMA FiresStep ==
  ASSUME IInv, NEW e \in Endpoint, Fire(e) \/ LoseFire(e)
  PROVE  IInv'
<1>1. /\ fires' \subseteq fires \cup {e}
      /\ UNCHANGED <<session, server>>
      /\ UNCHANGED <<joins, welcomes, snapshots, join_sent, playerId, snapshot>>
  BY DEF Fire, LoseFire, client
<1>2. TypeOK'
  BY <1>1 DEF IInv, TypeOK, SessionTypeOK, server
<1>3. Shapes' /\ JoinsAreSent'
  BY <1>1 DEF IInv, Shapes, JoinsAreSent
<1>4. \A f \in Endpoint :
        Known(f)' = Known(f) /\ IdsOf(f)' = IdsOf(f) /\ Used(f)' = Used(f)
  BY <1>1 DEF Known, IdsOf, Used
<1> QED
  BY <1>1, <1>2, <1>3, <1>4, ServerIsLeft

LEMMA OnWelcomeStep ==
  ASSUME IInv, NEW e \in Endpoint, OnWelcome(e)
  PROVE  IInv'
<1>1. /\ welcomes[e] # 0
      /\ playerId' = [playerId EXCEPT ![e] = welcomes[e]]
      /\ welcomes' = [welcomes EXCEPT ![e] = 0]
      /\ UNCHANGED <<session, server>>
      /\ UNCHANGED <<joins, fires, snapshots, join_sent, snapshot>>
  BY DEF OnWelcome
<1>2. /\ playerId \in [Endpoint -> Id \cup {0}]
      /\ welcomes \in [Endpoint -> Id \cup {0}]
  BY DEF IInv, TypeOK
<1>3. /\ playerId' \in [Endpoint -> Id \cup {0}] /\ playerId'[e] = welcomes[e]
      /\ welcomes' \in [Endpoint -> Id \cup {0}] /\ welcomes'[e] = 0
      /\ \A f \in Endpoint \ {e} : playerId'[f] = playerId[f] /\ welcomes'[f] = welcomes[f]
  BY <1>1, <1>2
<1>4. TypeOK'
  BY <1>1, <1>3 DEF IInv, TypeOK, SessionTypeOK, server
<1>5. Shapes' /\ JoinsAreSent'
  BY <1>1 DEF IInv, Shapes, JoinsAreSent
<1>6. \A f \in Endpoint : IdsOf(f)' \subseteq IdsOf(f)
  BY <1>3 DEF IdsOf
<1>7. \A f \in Endpoint : Known(f)' = Known(f) /\ Used(f)' = Used(f)
  BY <1>1 DEF Known, Used
<1> QED
  BY <1>1, <1>4, <1>5, <1>6, <1>7, ServerIsLeft

LEMMA OnSnapshotStep ==
  ASSUME IInv, NEW e \in Endpoint, NEW s \in snapshots[e], OnSnapshot(e, s)
  PROVE  IInv'
<1>1. /\ snapshot' = [snapshot EXCEPT ![e] = s]
      /\ UNCHANGED <<session, server>>
      /\ UNCHANGED <<joins, welcomes, fires, snapshots, join_sent, playerId>>
  BY DEF OnSnapshot, network
<1>2. Shapes' /\ JoinsAreSent'
  BY <1>1 DEF IInv, Shapes, JoinsAreSent
<1>3. snapshot'[e] = s /\ \A f \in Endpoint \ {e} : snapshot'[f] = snapshot[f]
  BY <1>1 DEF IInv, Shapes
<1>4. \A f \in Endpoint : Known(f)' \subseteq Known(f)
  BY <1>1, <1>3 DEF Known
<1>5. TypeOK'
  <2>1. \A f \in Endpoint : \A t \in Known(f)' :
          /\ t.tick \in 0..MaxTicks
          /\ \A id \in DOMAIN t.health : t.health[id] \in 0..kKMaxHealth
    BY <1>4 DEF IInv, TypeOK, Known
  <2> QED
    BY <1>1, <2>1 DEF IInv, TypeOK, SessionTypeOK, server, Known
<1>6. \A f \in Endpoint : IdsOf(f)' = IdsOf(f) /\ Used(f)' = Used(f)
  BY <1>1 DEF IdsOf, Used
<1> QED
  BY <1>1, <1>2, <1>4, <1>5, <1>6, ServerIsLeft

-----------------------------------------------------------------------------
LEMMA NextIInv == IInv /\ [Next]_vars => IInv'
<1> SUFFICES ASSUME IInv, [Next]_vars PROVE IInv'
  OBVIOUS
<1>1. ASSUME NEW e \in Endpoint, NEW p \in Pointer, OnConnected(e, p) PROVE IInv'
  BY <1>1, OnConnectedStep
<1>2. ASSUME NEW e \in Endpoint, OnDisconnected(e) PROVE IInv'
  BY <1>2, OnDisconnectedStep
<1>3. ASSUME NEW e \in Endpoint, OnJoin(e) PROVE IInv'
  BY <1>3, OnJoinStep
<1>4. ASSUME NEW e \in Endpoint, OnFire(e) PROVE IInv'
  BY <1>4, OnFireStep
<1>5. ASSUME NEW e \in Endpoint, SendJoin(e) PROVE IInv'
  BY <1>5, SendJoinStep
<1>6. ASSUME NEW e \in Endpoint, Fire(e) \/ LoseFire(e) PROVE IInv'
  BY <1>6, FiresStep
<1>7. ASSUME NEW e \in Endpoint, OnWelcome(e) PROVE IInv'
  BY <1>7, OnWelcomeStep
<1>8. ASSUME NEW e \in Endpoint, NEW s \in snapshots[e], OnSnapshot(e, s) PROVE IInv'
  BY <1>8, OnSnapshotStep
<1>9. CASE UpdateWorld
  BY <1>9, UpdateWorldStep
<1>10. CASE BroadcastSnapshot
  BY <1>10, BroadcastSnapshotStep
<1>11. CASE UNCHANGED vars
  <2>1. /\ UNCHANGED <<session, server>>
        /\ UNCHANGED <<joins, welcomes, fires, snapshots, join_sent, playerId, snapshot>>
    BY <1>11 DEF vars, network, client
  <2>2. TypeOK'
    BY <2>1 DEF IInv, TypeOK, SessionTypeOK, server
  <2>3. Shapes' /\ JoinsAreSent'
    BY <2>1 DEF IInv, Shapes, JoinsAreSent
  <2>4. \A f \in Endpoint :
          Known(f)' = Known(f) /\ IdsOf(f)' = IdsOf(f) /\ Used(f)' = Used(f)
    BY <2>1 DEF Known, IdsOf, Used
  <2> QED
    BY <2>1, <2>2, <2>3, <2>4, ServerIsLeft
<1> QED
  BY <1>1, <1>2, <1>3, <1>4, <1>5, <1>6, <1>7, <1>8, <1>9, <1>10, <1>11 DEF Next

\* Roster, ids, shots and what clients hold keep the types the code declares:
\* in particular no health is below zero and no id beyond the number of
\* clients, each of which joins once (raylib-examples/projectile-arena).
THEOREM TypeIsKept == Spec => []TypeOK
<1>1. IInv => TypeOK
  BY DEF IInv
<1> QED
  BY <1>1, InitIInv, NextIInv, PTL DEF Spec

\* The roster of the server, a map from Client* to players, holds handles of
\* open sessions only and gives no id twice, whoever left and whoever got the
\* handle after (server.cpp, players and EnsurePlayer).
THEOREM RosterStaysSafe == Spec => []RosterIsSafe
<1>1. IInv => RosterIsSafe
  BY DEF IInv
<1> QED
  BY <1>1, InitIInv, NextIInv, PTL DEF Spec

\* A client that has its id finds itself in whatever snapshot it shows, though
\* the Welcome is reliable and the snapshots are not, and either may come
\* first (server.cpp, BroadcastSnapshot; client.cpp, the world it draws).
THEOREM OwnPlayerStaysShown == Spec => []OwnPlayerIsShown
<1>1. IInv => OwnPlayerIsShown
  BY DEF IInv, IdsAreShown, OwnPlayerIsShown, IdsOf, Known
<1> QED
  BY <1>1, InitIInv, NextIInv, PTL DEF Spec

\* Health is lost to projectiles of others only, each of which is spent on one
\* player, however many hit whom in one pass (server.cpp,
\* ResolveProjectileHits).
THEOREM DamageStaysPaid == Spec => []DamageIsPaid
<1>1. IInv => DamageIsPaid
  BY DEF IInv
<1> QED
  BY <1>1, InitIInv, NextIInv, PTL DEF Spec

\* What a client shows after a step it was sent before it, or has shown.
LEMMA ShownIsKnown ==
  ASSUME IInv, [Next]_vars, NEW e \in Endpoint
  PROVE  snapshot'[e] \in Known(e)
<1>1. ASSUME NEW f \in Endpoint, NEW s \in snapshots[f], OnSnapshot(f, s)
      PROVE  snapshot'[e] \in Known(e)
  <2>1. snapshot' = [snapshot EXCEPT ![f] = s] /\ DOMAIN snapshot = Endpoint
    BY <1>1 DEF OnSnapshot, IInv, Shapes
  <2> QED
    BY <2>1 DEF Known
<1>2. CASE UNCHANGED snapshot
  BY <1>2 DEF Known
<1>3. ASSUME NEW f \in Endpoint, NEW p \in Pointer, OnConnected(f, p)
      PROVE  UNCHANGED snapshot
  BY <1>3 DEF OnConnected, client
<1>4. ASSUME NEW f \in Endpoint,
             OnDisconnected(f) \/ OnJoin(f) \/ OnFire(f) \/ SendJoin(f) \/ Fire(f)
               \/ OnWelcome(f) \/ LoseFire(f)
      PROVE  UNCHANGED snapshot
  BY <1>4 DEF OnDisconnected, OnJoin, OnFire, SendJoin, Fire, OnWelcome, LoseFire, client
<1>5. UpdateWorld \/ BroadcastSnapshot \/ UNCHANGED vars => UNCHANGED snapshot
  BY DEF UpdateWorld, BroadcastSnapshot, vars, client
<1> QED
  BY <1>1, <1>2, <1>3, <1>4, <1>5 DEF Next

\* No step makes a client show a player with more health than it had, unless
\* what it shows next is older than what it showed and NoteSnapshot has
\* counted it as reordered (client.cpp): the order of ticks is the order of
\* health, whatever the network does to the snapshots.
THEOREM HealthKeepsFalling == Spec => HealthOnlyFalls
<1>1. ASSUME IInv, [Next]_vars, NEW e \in Endpoint,
             NEW id \in DOMAIN snapshot[e].health \cap DOMAIN snapshot'[e].health,
             snapshot'[e].health[id] > snapshot[e].health[id]
      PROVE  Reordered(e, snapshot'[e])
  <2>1. snapshot'[e] \in Known(e) /\ snapshot[e] \in Known(e)
    BY <1>1, ShownIsKnown DEF Known
  <2> QED
    BY <1>1, <2>1 DEF IInv, MoreHealthIsOlder, Reordered
<1>2. IInv /\ [Next]_vars =>
        [\A e \in Endpoint :
           \A id \in DOMAIN snapshot[e].health \cap DOMAIN snapshot'[e].health :
             snapshot'[e].health[id] > snapshot[e].health[id] =>
               Reordered(e, snapshot'[e])]_vars
  BY <1>1
<1> QED
  BY <1>2, InitIInv, NextIInv, PTL DEF Spec, HealthOnlyFalls
=============================================================================
