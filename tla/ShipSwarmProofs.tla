--------------------------- MODULE ShipSwarmProofs ---------------------------
(***************************************************************************)
(* The ship swarm for any number of clients, however their sessions end    *)
(* and however often and late inputs and snapshots arrive: a ship does     *)
(* what its own player has pressed and nothing else, and the picture of    *)
(* each client has every ship it knows once, where its map points.         *)
(***************************************************************************)
EXTENDS ShipSwarm, OperatorProofs, TLAPS

USE NoClientAssumption, SwarmAssumption

\* An id is never taken back: sixteen bits are enough for the server's own ships
\* and for one Join of every client there will ever be.
EnoughIds ==
  /\ IsFiniteSet(Endpoint)
  /\ NumShips + Cardinality(Endpoint) <= kInvalidEntity

-----------------------------------------------------------------------------
(* The inductive invariant *)

\* The Join of e has been handled, or is lost and will never be.
Used(e) == sent_join[e] /\ e \notin joins

\* What e has been given.
IsOwn(e, eid) == eid \in DOMAIN owner /\ owner[eid] = e

Message ==
  [type : {"NewEntity"}, eid : Eid, at : 0..MaxWorld]
    \cup [type : {"SetControlledEntity"}, eid : Eid]

\* No ship is left to a handle whose session is over.
Handles ==
  /\ SessionTypeOK
  /\ DOMAIN controlled_map = ToSet(entities)
  /\ \A eid \in ToSet(entities) : controlled_map[eid] \in OpenHandles \cup {NoClient}

\* A Join is handled once in the life of a client, and each takes the next id.
IdsAreCounted ==
  /\ entities \in Seq(Nat)
  /\ ToSet(entities) = 0..Len(entities) - 1
  /\ NumShips <= Len(entities)
  /\ Len(entities) <= NumShips + Cardinality({e \in Endpoint : Used(e)})
  /\ sent_join \in [Endpoint -> BOOLEAN]
  /\ joins \subseteq Endpoint
  /\ \A e \in joins : sent_join[e]

\* Every ship but the server's has come with the Join of a client.
Owners == owner \in [NumShips..Len(entities) - 1 -> Endpoint]

\* An input is one its sender has pressed, for its own ship.
InputsAreOwn ==
  /\ DOMAIN inputs = Endpoint
  /\ \A e \in Endpoint : \A m \in inputs[e] :
       /\ IsOwn(e, m.eid)
       /\ \E i \in Inputs : m = [eid |-> m.eid, packed |-> SendEntityInput(i[1], i[2])]

Steering == DOMAIN thr_steer = ToSet(entities) /\ SteeringIsOnesOwn

\* A client is told of ships there are, and to steer only what it was given.
Channels ==
  /\ channel \in [Endpoint -> Seq(Message)]
  /\ \A e \in Endpoint : \A m \in ToSet(channel[e]) :
       /\ m.eid \in ToSet(entities)
       /\ m.type = "SetControlledEntity" => IsOwn(e, m.eid)

Snapshots ==
  /\ world \in 0..MaxWorld
  /\ DOMAIN snapshots = Endpoint
  /\ \A e \in Endpoint : \A s \in snapshots[e] :
       s.eid \in ToSet(entities) /\ s.at \in 0..world

\* The map knows the ships of the vector, each at its place.
Pictures ==
  /\ ships \in [Endpoint -> Seq(Ship)]
  /\ DOMAIN index_map = Endpoint
  /\ \A e \in Endpoint :
       /\ Known(e) = {ships[e][i].eid : i \in DOMAIN ships[e]}
       /\ Known(e) \subseteq ToSet(entities)
       /\ \A i \in DOMAIN ships[e] :
            /\ ships[e][i].of = ships[e][i].eid
            /\ index_map[e][ships[e][i].eid] = i

Mine ==
  /\ my_entity \in [Endpoint -> Eid]
  /\ \A e \in Endpoint : my_entity[e] # kInvalidEntity => IsOwn(e, my_entity[e])

Connections ==
  /\ connected \in [Endpoint -> BOOLEAN]
  /\ nextAddress \in [Endpoint -> DOMAIN Addresses]
  /\ trying \in [Endpoint -> {0} \cup DOMAIN Addresses]
  /\ missed \subseteq Endpoint

IInv ==
  /\ EnoughIds
  /\ Handles
  /\ IdsAreCounted
  /\ Owners
  /\ InputsAreOwn
  /\ Steering
  /\ Channels
  /\ Snapshots
  /\ Pictures
  /\ Mine
  /\ Connections

-----------------------------------------------------------------------------
(* Ids *)

\* A counter that has not come round, and one that has once.
LEMMA Wraps ==
  ASSUME NEW n \in Nat \ {0}, NEW a \in Nat, a < n
  PROVE  a % n = a /\ (a + n) % n = a
<1>1. a % n = a
  OBVIOUS
<1>2. (a + n) % n = a
  OBVIOUS
<1> QED
  BY <1>1, <1>2

\* While ids have come without a gap, the next is their number.
LEMMA NextIdIsTheCount ==
  ASSUME NEW eids \in Seq(Nat), ToSet(eids) = 0..Len(eids) - 1,
         Len(eids) <= kInvalidEntity
  PROVE  NextEntityId(eids) = Len(eids)
<1> DEFINE n == Len(eids)
           b == kInvalidEntity + 1
<1>1. n \in Nat /\ b \in Nat \ {0} /\ n < b
  BY LenProperties
<1>2. n % b = n /\ b % b = 0
  <2> HIDE DEF n, b
  <2>1. n % b = n
    BY <1>1, Wraps
  <2>2. 0 \in Nat /\ 0 < b /\ 0 + b = b
    BY <1>1
  <2>3. (0 + b) % b = 0
    BY <1>1, <2>2, Wraps
  <2> QED
    BY <2>1, <2>2, <2>3
<1>3. CASE eids = <<>>
  <2>1. n = 0
    BY <1>3, SMTT(40)
  <2> QED
    BY <1>2, <1>3, <2>1 DEF NextEntityId
<1>4. CASE eids # <<>>
  <2>1. n # 0
    BY <1>4, EmptySeq
  <2>2. n - 1 \in 0..n - 1 /\ \A y \in 0..n - 1 : n - 1 >= y
    BY <1>1, <2>1
  <2>3. \A x \in 0..n - 1 : (\A y \in 0..n - 1 : x >= y) => x = n - 1
    BY <1>1, <2>2
  <2>4. Max(0..n - 1) = n - 1
    BY <2>2, <2>3 DEF Max
  <2>5. NextEntityId(eids) = ((n - 1) + 1) % b
    BY <1>4, <2>4 DEF NextEntityId
  <2>6. (n - 1) + 1 = n
    BY <1>1
  <2> QED
    BY <1>2, <2>5, <2>6
<1> QED
  BY <1>3, <1>4

\* The numbers below n in order.
FirstIds(n) == [i \in 1..n |-> i - 1]

LEMMA FirstIdsAreIds ==
  ASSUME NEW n \in Nat
  PROVE  /\ FirstIds(n) \in Seq(Nat)
         /\ Len(FirstIds(n)) = n
         /\ ToSet(FirstIds(n)) = 0..n - 1
<1>1. FirstIds(n) \in [1..n -> Nat]
  BY DEF FirstIds
<1>2. FirstIds(n) \in Seq(Nat)
  BY <1>1, SeqDef
<1>3. Len(FirstIds(n)) = n
  BY <1>1, <1>2, LenProperties DEF FirstIds
<1>4. ToSet(FirstIds(n)) = {i - 1 : i \in 1..n}
  BY DEF FirstIds, ToSet
<1>5. \A x \in 0..n - 1 : x + 1 \in 1..n /\ x = (x + 1) - 1
  OBVIOUS
<1>6. {i - 1 : i \in 1..n} = 0..n - 1
  BY <1>5
<1> QED
  BY <1>2, <1>3, <1>4, <1>6

LEMMA OneMoreId ==
  ASSUME NEW n \in 1..kInvalidEntity
  PROVE  FirstIds(n) = Append(FirstIds(n - 1), NextEntityId(FirstIds(n - 1)))
<1>1. n - 1 \in Nat /\ n - 1 <= kInvalidEntity
  OBVIOUS
<1>2. /\ FirstIds(n - 1) \in Seq(Nat) /\ Len(FirstIds(n - 1)) = n - 1
      /\ ToSet(FirstIds(n - 1)) = 0..(n - 1) - 1
  BY <1>1, FirstIdsAreIds
<1>3. NextEntityId(FirstIds(n - 1)) = n - 1
  BY <1>1, <1>2, NextIdIsTheCount
<1>4. PICK t \in Seq(Nat) : t = Append(FirstIds(n - 1), n - 1)
  BY <1>1, <1>2, AppendProperties
<1>5. /\ Len(t) = (n - 1) + 1 /\ t[(n - 1) + 1] = n - 1
      /\ \A i \in 1..n - 1 : t[i] = FirstIds(n - 1)[i]
  BY <1>1, <1>2, <1>4, AppendProperties
<1>6. \A i \in 1..n : t[i] = i - 1
  <2>1. \A i \in 1..n - 1 : t[i] = i - 1
    BY <1>5 DEF FirstIds
  <2>2. t[n] = n - 1
    BY <1>5
  <2>3. \A i \in 1..n : i \in 1..n - 1 \/ i = n
    OBVIOUS
  <2> QED
    BY <2>1, <2>2, <2>3
<1>7. t = [i \in 1..n |-> t[i]]
  <2>1. Len(t) = n
    BY <1>5
  <2> QED
    BY <1>4, <2>1, LenProperties
<1> QED
  BY <1>3, <1>4, <1>6, <1>7 DEF FirstIds

\* The recursion of ServerEntities: the ids of the server's ships.
LEMMA ServerEntitiesAreFirst == ServerEntities = FirstIds(NumShips)
<1> DEFINE n == NumShips
           Value(f, m) == IF m = 0 THEN <<>>
                          ELSE Append(f[m - 1], NextEntityId(f[m - 1]))
           g == [m \in 0..n |-> FirstIds(m)]
           created == CHOOSE f : f = [m \in 0..n |-> Value(f, m)]
<1>1. n \in Nat /\ n <= kInvalidEntity
  OBVIOUS
<1>2. FirstIds(0) = <<>>
  <2>1. FirstIds(0) \in Seq(Nat) /\ Len(FirstIds(0)) = 0
    BY FirstIdsAreIds
  <2> QED
    BY <2>1, EmptySeq
<1>3. ASSUME NEW m \in 0..n PROVE g[m] = Value(g, m)
  <2>1. CASE m = 0
    BY <1>2, <2>1
  <2>2. CASE m # 0
    <3>1. m - 1 \in 0..n /\ m \in 1..kInvalidEntity
      BY <1>1, <2>2
    <3>2. g[m] = FirstIds(m) /\ g[m - 1] = FirstIds(m - 1)
      BY <3>1
    <3> QED
      BY <2>2, <3>1, <3>2, OneMoreId
  <2> QED
    BY <2>1, <2>2
<1>4. g = [m \in 0..n |-> g[m]]
  OBVIOUS
<1>5. g = [m \in 0..n |-> Value(g, m)]
  <2> HIDE DEF g
  <2> QED
    BY <1>3, <1>4, SMTT(40)
<1>6. created = [m \in 0..n |-> Value(created, m)]
  BY <1>5
<1>7. ServerEntities = created[n]
  BY DEF ServerEntities
<1> HIDE DEF created, g
<1>8. \A m \in 0..n : created[m] = Value(created, m)
  BY <1>6
<1> DEFINE Right == {m \in 0..n : created[m] = FirstIds(m)}
<1>9. 0 \in Right
  BY <1>1, <1>2, <1>8
<1>10. ASSUME NEW m \in 0..n - 1, m \in Right PROVE m + 1 \in Right
  <2>1. /\ m + 1 \in 0..n /\ m + 1 \in 1..kInvalidEntity
        /\ m + 1 # 0 /\ (m + 1) - 1 = m
    BY <1>1
  <2>2. created[m + 1] = Append(created[m], NextEntityId(created[m]))
    BY <1>8, <2>1
  <2>3. FirstIds(m + 1) = Append(FirstIds(m), NextEntityId(FirstIds(m)))
    BY <2>1, OneMoreId
  <2> QED
    BY <1>10, <2>1, <2>2, <2>3
<1>11. n \in Right
  <2>1. n \in 0..n
    BY <1>1
  <2> HIDE DEF Right, n
  <2> QED
    BY <1>1, <1>9, <1>10, <2>1, AllNumbers
<1> QED
  BY <1>7, <1>11

-----------------------------------------------------------------------------
(* Addresses and inputs *)

\* From wherever a client starts, its turn comes to an address that is not
\* refused, and to which it points after it is one of them too.
LEMMA TurnsComeToAnAddress ==
  ASSUME NEW e \in Endpoint, Connections
  PROVE  LET turn == InTurn(e)
             i == turn[Min({j \in DOMAIN turn : Addresses[turn[j]] # Refused})]
         IN i \in DOMAIN Addresses /\ After(i) \in DOMAIN Addresses
<1> DEFINE turn == InTurn(e)
           Open == {j \in DOMAIN turn : Addresses[turn[j]] # Refused}
           i == turn[Min(Open)]
           next == nextAddress[e]
<1>1. PICK n \in Nat : n = Len(Addresses) /\ DOMAIN Addresses = 1..n
  BY LenProperties DEF SwarmAssumption
<1>2. PICK k \in 1..n : Addresses[k] = Server
  BY <1>1 DEF SwarmAssumption, ToSet
<1>3. n \in Nat \ {0} /\ next \in 1..n
  BY <1>1, <1>2 DEF Connections
<1>4. DOMAIN turn = 1..n /\ \A j \in 1..n : turn[j] = 1 + ((next + j - 2) % n)
  BY <1>1 DEF InTurn
<1>5. \A a \in Nat : a % n \in 0..n - 1
  BY <1>3
<1>6. \A j \in 1..n : turn[j] \in 1..n
  <2>1. \A j \in 1..n : next + j - 2 \in Nat
    BY <1>3
  <2>2. \A r \in 0..n - 1 : 1 + r \in 1..n
    BY <1>3
  <2> QED
    BY <1>4, <1>5, <2>1, <2>2
<1>7. Open # {}
  <2>1. PICK j \in 1..n : next + j - 2 = k - 1 \/ next + j - 2 = (k - 1) + n
    <3>1. CASE k >= next
      <4>1. k - next + 1 \in 1..n /\ next + (k - next + 1) - 2 = k - 1
        BY <1>2, <1>3, <3>1, SMTT(40)
      <4> QED
        BY <4>1
    <3>2. CASE k < next
      <4>1. k - next + 1 + n \in 1..n /\ next + (k - next + 1 + n) - 2 = (k - 1) + n
        BY <1>2, <1>3, <3>2, SMTT(40)
      <4> QED
        BY <4>1
    <3> QED
      BY <1>2, <1>3, <3>1, <3>2
  <2>2. (k - 1) % n = k - 1 /\ ((k - 1) + n) % n = k - 1
    <3>1. k - 1 \in Nat /\ k - 1 < n
      BY <1>2
    <3> QED
      BY <1>3, <3>1, Wraps
  <2>3. (next + j - 2) % n = k - 1
    BY <2>1, <2>2
  <2>4. turn[j] = 1 + (k - 1)
    BY <1>4, <2>3
  <2>5. turn[j] = k
    BY <1>2, <2>4
  <2>6. Addresses[turn[j]] # Refused
    BY <1>2, <2>5 DEF Server, Refused
  <2> QED
    BY <1>4, <2>6
<1>8. Min(Open) \in Open
  <2>1. Open \subseteq Nat
    BY <1>4
  <2>2. \E x \in Open : \A y \in Open : x <= y
    <3> HIDE DEF Open
    <3> QED
      BY <1>7, <2>1, LeastNumber
  <2> HIDE DEF Open
  <2> QED
    BY <2>2 DEF Min
<1>9. i \in 1..n
  <2>1. Min(Open) \in 1..n
    BY <1>4, <1>8
  <2> QED
    BY <1>6, <2>1
<1>10. After(i) \in 1..n
  <2> HIDE DEF i
  <2>1. i \in Nat
    BY <1>9
  <2>2. i % n \in 0..n - 1
    BY <1>5, <2>1
  <2>3. 1 + (i % n) \in 1..n
    BY <1>3, <2>2
  <2> QED
    BY <1>1, <2>3 DEF After
<1> QED
  BY <1>1, <1>9, <1>10

\* Four bits are enough for each pedal, and it arrives as it was pressed.
LEMMA InputsArePacked ==
  ASSUME NEW i \in Inputs
  PROVE  /\ SendEntityInput(i[1], i[2]) \in 0..255
         /\ DeserializeEntityInput(SendEntityInput(i[1], i[2])) = <<15 * i[1], 15 * i[2]>>
         /\ <<15 * i[1], 15 * i[2]>> \in (-15..15) \X (-15..15)
<1>1. i[1] \in -1..1 /\ i[2] \in -1..1
  BY DEF SwarmAssumption
<1>2. \A v \in -1..1 : v \in {-1, 0, 1}
  OBVIOUS
<1>3. \A v \in -1..1 : PackInput(v) \in 0..15
  BY <1>2, PackedInputs
<1>4. \A h, l \in 0..15 : h * 16 + l \in 0..255
  OBVIOUS
<1>5. SendEntityInput(i[1], i[2]) \in 0..255
  BY <1>1, <1>3, <1>4 DEF SendEntityInput
<1>6. 15 * i[1] \in -15..15 /\ 15 * i[2] \in -15..15
  <2>1. \A v \in {-1, 0, 1} : 15 * v \in -15..15
    OBVIOUS
  <2> QED
    BY <1>1, <1>2, <2>1
<1> QED
  BY <1>1, <1>5, <1>6, InputComesBack

-----------------------------------------------------------------------------
(* What the invariant says *)

LEMMA EndpointsAreCounted ==
  ASSUME EnoughIds
  PROVE  /\ Cardinality(Endpoint) \in Nat
         /\ \A U \in SUBSET Endpoint :
              /\ IsFiniteSet(U) /\ Cardinality(U) \in Nat
              /\ Cardinality(U) <= Cardinality(Endpoint)
BY FS_CardinalityType, FS_Subset DEF EnoughIds

\* No id is kInvalidEntity, and while a Join is to be handled there is one more.
LEMMA IdsAreEnough ==
  ASSUME IInv
  PROVE  /\ Len(entities) \in Nat /\ Len(entities) <= kInvalidEntity
         /\ ToSet(entities) \subseteq Eid \ {kInvalidEntity}
         /\ DOMAIN owner \subseteq ToSet(entities)
         /\ \A e \in Endpoint : ~Used(e) => Len(entities) < kInvalidEntity
<1> DEFINE U == {e \in Endpoint : Used(e)}
<1>1. Len(entities) \in Nat /\ Len(entities) <= NumShips + Cardinality(U)
  BY LenProperties DEF IInv, IdsAreCounted
<1>2. /\ IsFiniteSet(U) /\ Cardinality(U) \in Nat
      /\ Cardinality(U) <= Cardinality(Endpoint) /\ Cardinality(Endpoint) \in Nat
      /\ NumShips + Cardinality(Endpoint) <= kInvalidEntity
  <2>1. U \in SUBSET Endpoint
    OBVIOUS
  <2> HIDE DEF U
  <2> QED
    BY <2>1, EndpointsAreCounted DEF IInv, EnoughIds
<1>3. Len(entities) <= kInvalidEntity
  <2> HIDE DEF U
  <2> QED
    BY <1>1, <1>2
<1>4. ToSet(entities) = 0..Len(entities) - 1
  BY DEF IInv, IdsAreCounted
<1>5. 0..Len(entities) - 1 \subseteq Eid \ {kInvalidEntity}
  BY <1>1, <1>3 DEF Eid
<1>6. DOMAIN owner \subseteq 0..Len(entities) - 1
  <2>1. DOMAIN owner = NumShips..Len(entities) - 1
    BY DEF IInv, Owners
  <2> QED
    BY <1>1, <2>1
<1>7. ASSUME NEW e \in Endpoint, ~Used(e) PROVE Len(entities) < kInvalidEntity
  <2>1. e \notin U /\ U \in SUBSET Endpoint
    BY <1>7
  <2>2. Cardinality(U \cup {e}) = Cardinality(U) + 1 /\ U \cup {e} \in SUBSET Endpoint
    <3> HIDE DEF U
    <3> QED
      BY <1>2, <2>1, FS_AddElement, Zenon
  <2>3. Cardinality(U) + 1 <= Cardinality(Endpoint)
    <3> HIDE DEF U
    <3> QED
      BY <2>2, EndpointsAreCounted DEF IInv
  <2> HIDE DEF U
  <2> QED
    BY <1>1, <1>2, <2>3
<1> QED
  BY <1>1, <1>3, <1>4, <1>5, <1>6, <1>7

\* The properties of the runs follow.
LEMMA InvariantSaysAll ==
  ASSUME IInv
  PROVE  TypeOK /\ SteeringIsOnesOwn /\ PicturesAreTheirs
<1>1. entities \in Seq(Eid \ {kInvalidEntity})
  <2>1. entities \in Seq(Nat)
    BY DEF IInv, IdsAreCounted
  <2>2. PICK n \in Nat : entities \in [1..n -> Nat]
    BY <2>1, SeqDef
  <2>3. \A i \in 1..n : entities[i] \in ToSet(entities)
    BY <2>2 DEF ToSet
  <2>4. entities \in [1..n -> Eid \ {kInvalidEntity}]
    BY <2>2, <2>3, IdsAreEnough
  <2> QED
    BY <2>4, SeqDef
<1>2. SteeringIsOnesOwn
  BY DEF IInv, Steering
<1>3. \A eid \in ToSet(entities) : thr_steer[eid] \in (-15..15) \X (-15..15)
  <2> SUFFICES ASSUME NEW eid \in ToSet(entities)
               PROVE  thr_steer[eid] \in (-15..15) \X (-15..15)
    OBVIOUS
  <2>1. CASE thr_steer[eid] = <<0, 0>>
    BY <2>1
  <2>2. CASE \E i \in Inputs : thr_steer[eid] = <<15 * i[1], 15 * i[2]>>
    <3>1. PICK i \in Inputs : thr_steer[eid] = <<15 * i[1], 15 * i[2]>>
      BY <2>2
    <3>2. <<15 * i[1], 15 * i[2]>> \in (-15..15) \X (-15..15)
      BY InputsArePacked
    <3> QED
      BY <3>1, <3>2, Zenon
  <2> QED
    BY <1>2, <2>1, <2>2 DEF SteeringIsOnesOwn, Pressed
<1>4. \A e \in Endpoint : \A m \in inputs[e] : m.eid \in ToSet(entities) /\ m.packed \in 0..255
  <2> SUFFICES ASSUME NEW e \in Endpoint, NEW m \in inputs[e]
               PROVE  m.eid \in ToSet(entities) /\ m.packed \in 0..255
    OBVIOUS
  <2>1. PICK i \in Inputs : m = [eid |-> m.eid, packed |-> SendEntityInput(i[1], i[2])]
    BY DEF IInv, InputsAreOwn
  <2>2. m.packed = SendEntityInput(i[1], i[2])
    BY <2>1
  <2>3. m.eid \in ToSet(entities)
    BY IdsAreEnough DEF IInv, InputsAreOwn, IsOwn
  <2>4. SendEntityInput(i[1], i[2]) \in 0..255
    BY InputsArePacked
  <2> QED
    BY <2>2, <2>3, <2>4, ZenonT(40)
<1>5. \A e \in Endpoint : my_entity[e] \in ToSet(entities) \cup {kInvalidEntity}
  BY IdsAreEnough DEF IInv, Mine, IsOwn
<1>6. TypeOK
  BY <1>1, <1>3, <1>4, <1>5, SMTT(40)
     DEF IInv, TypeOK, Handles, IdsAreCounted, Snapshots, Pictures, Connections
<1>7. PicturesAreTheirs
  <2> SUFFICES ASSUME NEW e \in Endpoint
               PROVE  /\ \A i, j \in DOMAIN ships[e] : ships[e][i].eid = ships[e][j].eid => i = j
                      /\ \A i \in DOMAIN ships[e] :
                           /\ ships[e][i].of = ships[e][i].eid
                           /\ index_map[e][ships[e][i].eid] = i
                      /\ Known(e) \subseteq ToSet(entities)
                      /\ my_entity[e] # kInvalidEntity => owner[my_entity[e]] = e
    BY DEF PicturesAreTheirs
  <2>1. /\ Known(e) \subseteq ToSet(entities)
        /\ \A i \in DOMAIN ships[e] :
             /\ ships[e][i].of = ships[e][i].eid
             /\ index_map[e][ships[e][i].eid] = i
    BY DEF IInv, Pictures
  <2>2. \A i, j \in DOMAIN ships[e] : ships[e][i].eid = ships[e][j].eid => i = j
    BY <2>1
  <2>3. my_entity[e] # kInvalidEntity => owner[my_entity[e]] = e
    BY DEF IInv, Mine, IsOwn
  <2> QED
    BY <2>1, <2>2, <2>3
<1> QED
  BY <1>2, <1>6, <1>7

LEMMA InitIInv == EnoughIds /\ Init => IInv
<1> SUFFICES ASSUME EnoughIds, Init PROVE IInv
  OBVIOUS
<1>1. /\ entities \in Seq(Nat) /\ Len(entities) = NumShips
      /\ ToSet(entities) = 0..NumShips - 1
      /\ ToSet(entities) = ToSet(ServerEntities)
  BY ServerEntitiesAreFirst, FirstIdsAreIds DEF Init
<1>2. Handles
  BY <1>1 DEF Init, Handles, SessionInit, SessionTypeOK
<1>3. IdsAreCounted
  <2>1. Cardinality({e \in Endpoint : Used(e)}) \in Nat
    BY EndpointsAreCounted
  <2>2. NumShips <= NumShips + Cardinality({e \in Endpoint : Used(e)})
    BY <2>1
  <2> QED
    BY <1>1, <2>2 DEF Init, IdsAreCounted
<1>4. Owners
  <2>1. NumShips..Len(entities) - 1 = {}
    BY <1>1
  <2>2. owner = <<>> /\ DOMAIN <<>> = {}
    BY NoElements DEF Init
  <2> QED
    BY <2>1, <2>2 DEF Owners
<1>5. InputsAreOwn /\ Snapshots /\ Mine
  BY DEF Init, InputsAreOwn, Snapshots, Mine, Eid
<1>6. Steering
  <2>1. owner = <<>> /\ DOMAIN <<>> = {}
    BY NoElements DEF Init
  <2> QED
    BY <1>1, <2>1 DEF Init, Steering, SteeringIsOnesOwn
<1>7. Channels
  BY EmptySeq, NoElements DEF Init, Channels
<1>8. Pictures
  <2>1. \A e \in Endpoint : /\ ships[e] = <<>> /\ DOMAIN ships[e] = {}
                            /\ Known(e) = {} /\ ships[e] \in Seq(Ship)
    BY EmptySeq, NoElements DEF Init, Known
  <2>2. ships \in [Endpoint -> Seq(Ship)] /\ DOMAIN index_map = Endpoint
    BY <2>1 DEF Init
  <2> QED
    BY <2>1, <2>2 DEF Pictures
<1>9. Connections
  <2>1. 1 \in DOMAIN Addresses
    <3>1. PICK k \in DOMAIN Addresses : TRUE
      BY DEF SwarmAssumption, ToSet
    <3>2. DOMAIN Addresses = 1..Len(Addresses) /\ Len(Addresses) \in Nat
      BY LenProperties DEF SwarmAssumption
    <3> QED
      BY <3>1, <3>2
  <2> QED
    BY <2>1 DEF Init, Connections
<1> QED
  BY <1>2, <1>3, <1>4, <1>5, <1>6, <1>7, <1>8, <1>9 DEF IInv

-----------------------------------------------------------------------------
(* Steps *)

\* Most steps bring no ship.
LEMMA NoShipComes ==
  ASSUME IInv, UNCHANGED entities,
         sent_join' \in [Endpoint -> BOOLEAN], joins' \subseteq Endpoint,
         \A e \in joins' : sent_join'[e],
         \A e \in Endpoint : Used(e) => Used(e)'
  PROVE  IdsAreCounted'
<1> DEFINE U == {e \in Endpoint : Used(e)}
           V == {e \in Endpoint : Used(e)'}
<1>1. U \in SUBSET V /\ V \in SUBSET Endpoint
  OBVIOUS
<1>2. IsFiniteSet(V) /\ Cardinality(V) \in Nat
  BY <1>1, EndpointsAreCounted DEF IInv
<1>3. Cardinality(U) \in Nat /\ Cardinality(U) <= Cardinality(V)
  <2> HIDE DEF U, V
  <2> QED
    BY <1>1, <1>2, FS_Subset, FS_CardinalityType
<1>4. Len(entities) <= NumShips + Cardinality(U) /\ Len(entities) \in Nat
  BY IdsAreEnough DEF IInv, IdsAreCounted
<1>5. Len(entities) <= NumShips + Cardinality(V)
  <2> HIDE DEF U, V
  <2> QED
    BY <1>2, <1>3, <1>4
<1> QED
  BY <1>5 DEF IInv, IdsAreCounted

\* The channel of a session that ends is gone, and of one that is read it is
\* the rest that is left.
LEMMA ChannelsShrink ==
  ASSUME IInv, UNCHANGED <<entities, owner>>,
         channel' \in [Endpoint -> Seq(Message)],
         \A e \in Endpoint : ToSet(channel'[e]) \subseteq ToSet(channel[e])
  PROVE  Channels'
BY DEF IInv, Channels, IsOwn

LEMMA OnConnectedStep ==
  ASSUME IInv, NEW e \in Endpoint, NEW p \in Pointer, OnConnected(e, p)
  PROVE  IInv'
<1>1. /\ session[e] = NoClient /\ session' = [session EXCEPT ![e] = p]
      /\ connected' = [connected EXCEPT ![e] = TRUE]
      /\ UNCHANGED <<entities, controlled_map, thr_steer, world, channel, joins,
                     inputs, snapshots, nextAddress, trying, sent_join, ships,
                     index_map, my_entity, owner, missed>>
  BY DEF OnConnected, OpenSession, IsOpen, server, network, picture, history
<1>2. Handles'
  <2>1. SessionTypeOK' /\ OpenHandles \subseteq OpenHandles'
    BY <1>1 DEF IInv, Handles, SessionTypeOK, OpenHandles
  <2> QED
    BY <1>1, <2>1 DEF IInv, Handles
<1>3. IdsAreCounted'
  BY <1>1, NoShipComes DEF IInv, IdsAreCounted, Used
<1>4. Owners' /\ InputsAreOwn' /\ Mine'
  BY <1>1 DEF IInv, Owners, InputsAreOwn, Mine, IsOwn
<1>5. Steering'
  BY <1>1 DEF IInv, Steering, SteeringIsOnesOwn, Pressed
<1>6. Channels'
  BY <1>1 DEF IInv, Channels, IsOwn
<1>7. Snapshots' /\ Pictures'
  BY <1>1 DEF IInv, Snapshots, Pictures, Known
<1>8. Connections'
  BY <1>1 DEF IInv, Connections
<1> QED
  BY <1>2, <1>3, <1>4, <1>5, <1>6, <1>7, <1>8 DEF IInv

LEMMA OnDisconnectedStep ==
  ASSUME IInv, NEW e \in Endpoint, OnDisconnected(e)
  PROVE  IInv'
<1>1. /\ session' = [session EXCEPT ![e] = NoClient]
      /\ controlled_map' = [eid \in DOMAIN controlled_map |->
                              IF controlled_map[eid] = session[e] THEN NoClient
                              ELSE controlled_map[eid]]
      /\ channel' = [channel EXCEPT ![e] = <<>>]
      /\ joins' = joins \ {e}
      /\ missed' = missed \cup {e}
      /\ UNCHANGED <<entities, thr_steer, world, inputs, snapshots, connected,
                     nextAddress, trying, sent_join, ships, index_map, my_entity,
                     owner>>
  BY DEF OnDisconnected, CloseSession, client, connecting, picture
<1>2. Handles'
  <2>1. SessionTypeOK' /\ OpenHandles \ {session[e]} \subseteq OpenHandles'
    BY <1>1 DEF IInv, Handles, SessionTypeOK, OpenHandles
  <2>2. DOMAIN controlled_map' = ToSet(entities)'
    BY <1>1 DEF IInv, Handles
  <2>3. ASSUME NEW eid \in ToSet(entities)
        PROVE  controlled_map'[eid] \in OpenHandles' \cup {NoClient}
    <3>1. controlled_map[eid] \in OpenHandles \cup {NoClient}
      BY DEF IInv, Handles
    <3>2. controlled_map'[eid] = IF controlled_map[eid] = session[e] THEN NoClient
                                 ELSE controlled_map[eid]
      BY <1>1 DEF IInv, Handles
    <3> QED
      BY <2>1, <3>1, <3>2
  <2> QED
    BY <1>1, <2>1, <2>2, <2>3 DEF Handles
<1>3. IdsAreCounted'
  BY <1>1, NoShipComes DEF IInv, IdsAreCounted, Used
<1>4. Owners' /\ InputsAreOwn' /\ Mine'
  BY <1>1 DEF IInv, Owners, InputsAreOwn, Mine, IsOwn
<1>5. Steering'
  BY <1>1 DEF IInv, Steering, SteeringIsOnesOwn, Pressed
<1>6. Channels'
  <2>1. channel' \in [Endpoint -> Seq(Message)]
    BY <1>1, EmptySeq DEF IInv, Channels
  <2>2. \A f \in Endpoint : channel'[f] = IF f = e THEN <<>> ELSE channel[f]
    BY <1>1 DEF IInv, Channels
  <2>3. \A f \in Endpoint : ToSet(channel'[f]) \subseteq ToSet(channel[f])
    BY <2>2, NoElements
  <2> QED
    BY <1>1, <2>1, <2>3, ChannelsShrink
<1>7. Snapshots' /\ Pictures'
  BY <1>1 DEF IInv, Snapshots, Pictures, Known
<1>8. Connections'
  BY <1>1 DEF IInv, Connections
<1> QED
  BY <1>2, <1>3, <1>4, <1>5, <1>6, <1>7, <1>8 DEF IInv

\* Whatever ship the input names is its sender's.
LEMMA OnInputStep ==
  ASSUME IInv, NEW e \in Endpoint, NEW m \in inputs[e], OnInput(e, m)
  PROVE  IInv'
<1>1. /\ thr_steer' = [eid \in DOMAIN thr_steer |->
                         IF eid = m.eid THEN DeserializeEntityInput(m.packed)
                                        ELSE thr_steer[eid]]
      /\ UNCHANGED <<session, entities, controlled_map, world, channel, joins,
                     inputs, snapshots, connected, nextAddress, trying,
                     sent_join, ships, index_map, my_entity, owner, missed>>
  BY DEF OnInput, network, client, connecting, picture, history
<1>2. Handles'
  BY <1>1 DEF IInv, Handles, SessionTypeOK, OpenHandles
<1>3. IdsAreCounted'
  BY <1>1, NoShipComes DEF IInv, IdsAreCounted, Used
<1>4. Owners' /\ InputsAreOwn' /\ Mine'
  BY <1>1 DEF IInv, Owners, InputsAreOwn, Mine, IsOwn
<1>5. Steering'
  <2>1. IsOwn(e, m.eid)
    BY DEF IInv, InputsAreOwn
  <2>2. PICK i \in Inputs : m = [eid |-> m.eid, packed |-> SendEntityInput(i[1], i[2])]
    BY DEF IInv, InputsAreOwn
  <2>3. DeserializeEntityInput(m.packed) = <<15 * i[1], 15 * i[2]>>
    <3>1. m.packed = SendEntityInput(i[1], i[2])
      BY <2>2
    <3> QED
      BY <3>1, InputsArePacked
  <2>4. <<15 * i[1], 15 * i[2]>> \in Pressed(m.eid)
    BY <2>1, <2>2 DEF Pressed, IsOwn
  <2>5. \A eid : Pressed(eid)' = Pressed(eid)
    BY <1>1 DEF Pressed
  <2>6. DOMAIN thr_steer' = ToSet(entities)'
    BY <1>1 DEF IInv, Steering
  <2>7. ASSUME NEW eid \in ToSet(entities)
        PROVE  IF eid \in DOMAIN owner
               THEN thr_steer'[eid] \in {<<0, 0>>} \cup Pressed(eid)
               ELSE thr_steer'[eid] \in {<<0, 0>>}
    <3>1. IF eid \in DOMAIN owner
          THEN thr_steer[eid] \in {<<0, 0>>} \cup Pressed(eid)
          ELSE thr_steer[eid] \in {<<0, 0>>}
      BY DEF IInv, Steering, SteeringIsOnesOwn
    <3>2. thr_steer'[eid] = IF eid = m.eid THEN <<15 * i[1], 15 * i[2]>>
                                           ELSE thr_steer[eid]
      BY <1>1, <2>3 DEF IInv, Steering
    <3> QED
      BY <2>1, <2>4, <3>1, <3>2, Zenon DEF IsOwn
  <2> QED
    BY <1>1, <2>5, <2>6, <2>7 DEF Steering, SteeringIsOnesOwn
<1>6. Channels'
  BY <1>1 DEF IInv, Channels, IsOwn
<1>7. Snapshots' /\ Pictures'
  BY <1>1 DEF IInv, Snapshots, Pictures, Known
<1>8. Connections'
  BY <1>1 DEF IInv, Connections
<1> QED
  BY <1>2, <1>3, <1>4, <1>5, <1>6, <1>7, <1>8 DEF IInv

LEMMA SimulateWorldStep ==
  ASSUME IInv, SimulateWorld
  PROVE  IInv'
<1>1. PICK w \in {world, world + 1} \cap 0..MaxWorld :
        /\ world' = w
        /\ snapshots' = SendSnapshots(w)
        /\ UNCHANGED <<session, entities, controlled_map, thr_steer, channel,
                       joins, inputs, connected, nextAddress, trying, sent_join,
                       ships, index_map, my_entity, owner, missed>>
  BY DEF SimulateWorld, client, connecting, picture, history
<1>2. Handles'
  BY <1>1 DEF IInv, Handles, SessionTypeOK, OpenHandles
<1>3. IdsAreCounted'
  BY <1>1, NoShipComes DEF IInv, IdsAreCounted, Used
<1>4. Owners' /\ InputsAreOwn' /\ Mine'
  BY <1>1 DEF IInv, Owners, InputsAreOwn, Mine, IsOwn
<1>5. Steering'
  BY <1>1 DEF IInv, Steering, SteeringIsOnesOwn, Pressed
<1>6. Channels'
  BY <1>1 DEF IInv, Channels, IsOwn
<1>7. Snapshots'
  <2>1. world \in 0..MaxWorld /\ w \in 0..MaxWorld /\ 0..world \subseteq 0..w /\ w \in 0..w
    BY <1>1 DEF IInv, Snapshots
  <2>2. DOMAIN snapshots' = Endpoint
    BY <1>1 DEF SendSnapshots
  <2>3. ASSUME NEW e \in Endpoint, NEW s \in snapshots'[e]
        PROVE  s.eid \in ToSet(entities) /\ s.at \in 0..w
    <3>1. \/ s \in snapshots[e]
          \/ \E eid \in ToSet(entities) : s = [eid |-> eid, at |-> w]
      BY <1>1, <2>3 DEF SendSnapshots, WithSnapshots
    <3>2. CASE s \in snapshots[e]
      <4>1. s.eid \in ToSet(entities) /\ s.at \in 0..world
        BY <3>2 DEF IInv, Snapshots
      <4> QED
        BY <2>1, <4>1
    <3>3. CASE \E eid \in ToSet(entities) : s = [eid |-> eid, at |-> w]
      BY <2>1, <3>3
    <3> QED
      BY <3>1, <3>2, <3>3
  <2> QED
    BY <1>1, <2>1, <2>2, <2>3 DEF Snapshots
<1>8. Pictures' /\ Connections'
  BY <1>1 DEF IInv, Pictures, Known, Connections
<1> QED
  BY <1>2, <1>3, <1>4, <1>5, <1>6, <1>7, <1>8 DEF IInv

LEMMA ConnectNextAddressStep ==
  ASSUME IInv, NEW e \in Endpoint, ConnectNextAddress(e)
  PROVE  IInv'
<1>1. PICK i \in DOMAIN Addresses :
        /\ After(i) \in DOMAIN Addresses
        /\ trying' = [trying EXCEPT ![e] = i]
        /\ nextAddress' = [nextAddress EXCEPT ![e] = After(i)]
        /\ UNCHANGED <<session, entities, controlled_map, thr_steer, world,
                       channel, joins, inputs, snapshots, connected, sent_join,
                       ships, index_map, my_entity, owner, missed>>
  BY TurnsComeToAnAddress
     DEF IInv, ConnectNextAddress, server, network, picture, history
<1>2. Handles'
  BY <1>1 DEF IInv, Handles, SessionTypeOK, OpenHandles
<1>3. IdsAreCounted'
  BY <1>1, NoShipComes DEF IInv, IdsAreCounted, Used
<1>4. Owners' /\ InputsAreOwn' /\ Mine'
  BY <1>1 DEF IInv, Owners, InputsAreOwn, Mine, IsOwn
<1>5. Steering'
  BY <1>1 DEF IInv, Steering, SteeringIsOnesOwn, Pressed
<1>6. Channels'
  BY <1>1 DEF IInv, Channels, IsOwn
<1>7. Snapshots' /\ Pictures'
  BY <1>1 DEF IInv, Snapshots, Pictures, Known
<1>8. Connections'
  BY <1>1 DEF IInv, Connections
<1> QED
  BY <1>2, <1>3, <1>4, <1>5, <1>6, <1>7, <1>8 DEF IInv

LEMMA OnClientDisconnectedStep ==
  ASSUME IInv, NEW e \in Endpoint, OnClientDisconnected(e)
  PROVE  IInv'
<1>1. /\ connected' = [connected EXCEPT ![e] = FALSE]
      /\ UNCHANGED <<session, entities, controlled_map, thr_steer, world,
                     channel, joins, inputs, snapshots, nextAddress, trying,
                     sent_join, ships, index_map, my_entity, owner, missed>>
  BY DEF OnClientDisconnected, server, network, picture, history
<1>2. Handles'
  BY <1>1 DEF IInv, Handles, SessionTypeOK, OpenHandles
<1>3. IdsAreCounted'
  BY <1>1, NoShipComes DEF IInv, IdsAreCounted, Used
<1>4. Owners' /\ InputsAreOwn' /\ Mine'
  BY <1>1 DEF IInv, Owners, InputsAreOwn, Mine, IsOwn
<1>5. Steering'
  BY <1>1 DEF IInv, Steering, SteeringIsOnesOwn, Pressed
<1>6. Channels'
  BY <1>1 DEF IInv, Channels, IsOwn
<1>7. Snapshots' /\ Pictures'
  BY <1>1 DEF IInv, Snapshots, Pictures, Known
<1>8. Connections'
  BY <1>1 DEF IInv, Connections
<1> QED
  BY <1>2, <1>3, <1>4, <1>5, <1>6, <1>7, <1>8 DEF IInv

LEMMA SendJoinStep ==
  ASSUME IInv, NEW e \in Endpoint, SendJoin(e)
  PROVE  IInv'
<1>1. /\ ~sent_join[e]
      /\ sent_join' = [sent_join EXCEPT ![e] = TRUE]
      /\ joins' = IF IsOpen(e) THEN joins \cup {e} ELSE joins
      /\ UNCHANGED <<session, entities, controlled_map, thr_steer, world,
                     channel, inputs, snapshots, connected, nextAddress, trying,
                     ships, index_map, my_entity, owner, missed>>
  BY DEF SendJoin, server, connecting, picture, history
<1>2. Handles'
  BY <1>1 DEF IInv, Handles, SessionTypeOK, OpenHandles
<1>3. IdsAreCounted'
  <2>1. sent_join' \in [Endpoint -> BOOLEAN] /\ joins' \subseteq Endpoint
    BY <1>1 DEF IInv, IdsAreCounted
  <2>2. \A f \in Endpoint : sent_join'[f] = (f = e \/ sent_join[f])
    BY <1>1 DEF IInv, IdsAreCounted
  <2>3. \A f \in joins' : f = e \/ f \in joins
    BY <1>1
  <2>4. \A f \in joins' : sent_join'[f]
    BY <2>1, <2>2, <2>3 DEF IInv, IdsAreCounted
  <2>5. \A f \in Endpoint : Used(f) => Used(f)'
    BY <1>1, <2>2, <2>3 DEF Used
  <2> QED
    BY <1>1, <2>1, <2>4, <2>5, NoShipComes
<1>4. Owners' /\ InputsAreOwn' /\ Mine'
  BY <1>1 DEF IInv, Owners, InputsAreOwn, Mine, IsOwn
<1>5. Steering'
  BY <1>1 DEF IInv, Steering, SteeringIsOnesOwn, Pressed
<1>6. Channels'
  BY <1>1 DEF IInv, Channels, IsOwn
<1>7. Snapshots' /\ Pictures'
  BY <1>1 DEF IInv, Snapshots, Pictures, Known
<1>8. Connections'
  BY <1>1 DEF IInv, Connections
<1> QED
  BY <1>2, <1>3, <1>4, <1>5, <1>6, <1>7, <1>8 DEF IInv

LEMMA LoseSnapshotStep ==
  ASSUME IInv, NEW e \in Endpoint, NEW s \in snapshots[e], LoseSnapshot(e, s)
  PROVE  IInv'
<1>1. /\ snapshots' = [snapshots EXCEPT ![e] = snapshots[e] \ {s}]
      /\ UNCHANGED <<session, entities, controlled_map, thr_steer, world,
                     channel, joins, inputs, connected, nextAddress, trying,
                     sent_join, ships, index_map, my_entity, owner, missed>>
  BY DEF LoseSnapshot, server, client, connecting, picture, history
<1>2. Handles'
  BY <1>1 DEF IInv, Handles, SessionTypeOK, OpenHandles
<1>3. IdsAreCounted'
  BY <1>1, NoShipComes DEF IInv, IdsAreCounted, Used
<1>4. Owners' /\ InputsAreOwn' /\ Mine'
  BY <1>1 DEF IInv, Owners, InputsAreOwn, Mine, IsOwn
<1>5. Steering'
  BY <1>1 DEF IInv, Steering, SteeringIsOnesOwn, Pressed
<1>6. Channels'
  BY <1>1 DEF IInv, Channels, IsOwn
<1>7. Snapshots'
  <2>1. \A f \in Endpoint : snapshots'[f] \subseteq snapshots[f]
    BY <1>1 DEF IInv, Snapshots
  <2>2. DOMAIN snapshots' = Endpoint
    BY <1>1 DEF IInv, Snapshots
  <2> QED
    BY <1>1, <2>1, <2>2 DEF IInv, Snapshots
<1>8. Pictures' /\ Connections'
  BY <1>1 DEF IInv, Pictures, Known, Connections
<1> QED
  BY <1>2, <1>3, <1>4, <1>5, <1>6, <1>7, <1>8 DEF IInv

\* A client sends what is pressed for the ship it was given, or nothing.
LEMMA SendInputStep ==
  ASSUME IInv, NEW e \in Endpoint, SendInput(e)
  PROVE  IInv'
<1>1. PICK i \in Inputs :
        /\ my_entity[e] \in Known(e)
        /\ inputs' = [inputs EXCEPT ![e] =
                        IF IsOpen(e)
                        THEN inputs[e] \cup {[eid |-> my_entity[e],
                                              packed |-> SendEntityInput(i[1], i[2])]}
                        ELSE inputs[e]]
        /\ UNCHANGED <<session, entities, controlled_map, thr_steer, world,
                       channel, joins, snapshots, connected, nextAddress, trying,
                       sent_join, ships, index_map, my_entity, owner, missed>>
  BY DEF SendInput, server, client, connecting, picture, history
<1>2. Handles'
  BY <1>1 DEF IInv, Handles, SessionTypeOK, OpenHandles
<1>3. IdsAreCounted'
  BY <1>1, NoShipComes DEF IInv, IdsAreCounted, Used
<1>4. Owners' /\ Mine'
  BY <1>1 DEF IInv, Owners, Mine, IsOwn
<1>5. IsOwn(e, my_entity[e])
  <2>1. my_entity[e] \in ToSet(entities)
    BY <1>1 DEF IInv, Pictures
  <2> QED
    BY <2>1, IdsAreEnough DEF IInv, Mine
<1>6. /\ DOMAIN inputs' = Endpoint
      /\ \A f \in Endpoint : inputs[f] \subseteq inputs'[f]
      /\ \A f \in Endpoint : \A m \in inputs'[f] :
           \/ m \in inputs[f]
           \/ f = e /\ m = [eid |-> my_entity[e], packed |-> SendEntityInput(i[1], i[2])]
  BY <1>1 DEF IInv, InputsAreOwn
<1>7. InputsAreOwn'
  <2> SUFFICES ASSUME NEW f \in Endpoint, NEW m \in inputs'[f]
               PROVE  /\ IsOwn(f, m.eid)'
                      /\ \E k \in Inputs :
                           m = [eid |-> m.eid, packed |-> SendEntityInput(k[1], k[2])]
    BY <1>6 DEF InputsAreOwn
  <2>1. CASE m \in inputs[f]
    BY <1>1, <2>1 DEF IInv, InputsAreOwn, IsOwn
  <2>2. CASE f = e /\ m = [eid |-> my_entity[e], packed |-> SendEntityInput(i[1], i[2])]
    BY <1>1, <1>5, <2>2 DEF IsOwn
  <2> QED
    BY <1>6, <2>1, <2>2
<1>8. Steering'
  <2>1. \A eid \in DOMAIN owner : owner[eid] \in Endpoint
    BY DEF IInv, Owners
  <2>2. \A eid \in DOMAIN owner : Pressed(eid) \subseteq Pressed(eid)'
    BY <1>1, <1>6, <2>1 DEF Pressed
  <2> QED
    BY <1>1, <2>2 DEF IInv, Steering, SteeringIsOnesOwn
<1>9. Channels'
  BY <1>1 DEF IInv, Channels, IsOwn
<1>10. Snapshots' /\ Pictures'
  BY <1>1 DEF IInv, Snapshots, Pictures, Known
<1>11. Connections'
  BY <1>1 DEF IInv, Connections
<1> QED
  BY <1>2, <1>3, <1>4, <1>7, <1>8, <1>9, <1>10, <1>11 DEF IInv

\* What the head of a channel is, and that the rest of it was there before.
LEMMA DeliveredMessage ==
  ASSUME IInv, NEW e \in Endpoint, NEW type, Delivered(e, type)
  PROVE  /\ Head(channel[e]) \in Message /\ Head(channel[e]).type = type
         /\ Head(channel[e]).eid \in ToSet(entities)
         /\ type = "SetControlledEntity" => IsOwn(e, Head(channel[e]).eid)
         /\ Channels'
         /\ UNCHANGED <<session, entities, controlled_map, thr_steer, world,
                        joins, inputs, snapshots, connected, nextAddress, trying,
                        sent_join, owner, missed>>
<1>1. /\ channel[e] # <<>> /\ Head(channel[e]).type = type
      /\ channel' = [channel EXCEPT ![e] = Tail(channel[e])]
      /\ UNCHANGED <<session, entities, controlled_map, thr_steer, world,
                     joins, inputs, snapshots, connected, nextAddress, trying,
                     sent_join, owner, missed>>
  BY DEF Delivered, server, connecting, history
<1>2. channel[e] \in Seq(Message)
  BY DEF IInv, Channels
<1>3. /\ Head(channel[e]) \in ToSet(channel[e])
      /\ ToSet(Tail(channel[e])) \subseteq ToSet(channel[e])
  BY <1>1, <1>2, TailElements
<1>4. Head(channel[e]) \in Message /\ Tail(channel[e]) \in Seq(Message)
  BY <1>1, <1>2, HeadTailProperties
<1>5. Channels'
  <2>1. channel' \in [Endpoint -> Seq(Message)]
    BY <1>1, <1>4 DEF IInv, Channels
  <2>2. \A f \in Endpoint : channel'[f] = IF f = e THEN Tail(channel[e]) ELSE channel[f]
    BY <1>1 DEF IInv, Channels
  <2>3. \A f \in Endpoint : ToSet(channel'[f]) \subseteq ToSet(channel[f])
    BY <1>3, <2>2
  <2> QED
    BY <1>1, <2>1, <2>3, ChannelsShrink
<1> QED
  BY <1>1, <1>3, <1>4, <1>5 DEF IInv, Channels

LEMMA OnSetControlledEntityStep ==
  ASSUME IInv, NEW e \in Endpoint, OnSetControlledEntity(e)
  PROVE  IInv'
<1>1. /\ my_entity' = [my_entity EXCEPT ![e] = Head(channel[e]).eid]
      /\ UNCHANGED <<ships, index_map>>
      /\ Delivered(e, "SetControlledEntity")
  BY DEF OnSetControlledEntity, picture
<1>2. /\ Head(channel[e]).eid \in ToSet(entities) /\ IsOwn(e, Head(channel[e]).eid)
      /\ Channels'
      /\ UNCHANGED <<session, entities, controlled_map, thr_steer, world,
                     joins, inputs, snapshots, connected, nextAddress, trying,
                     sent_join, owner, missed>>
  BY <1>1, DeliveredMessage
<1>3. Handles'
  BY <1>2 DEF IInv, Handles, SessionTypeOK, OpenHandles
<1>4. IdsAreCounted'
  BY <1>2, NoShipComes DEF IInv, IdsAreCounted, Used
<1>5. Owners' /\ InputsAreOwn'
  BY <1>2 DEF IInv, Owners, InputsAreOwn, IsOwn
<1>6. Steering'
  BY <1>2 DEF IInv, Steering, SteeringIsOnesOwn, Pressed
<1>7. Snapshots' /\ Pictures'
  BY <1>1, <1>2 DEF IInv, Snapshots, Pictures, Known
<1>8. Mine'
  <2>1. Head(channel[e]).eid \in Eid
    BY <1>2, IdsAreEnough
  <2> QED
    BY <1>1, <1>2, <2>1 DEF IInv, Mine, IsOwn
<1>9. Connections'
  BY <1>2 DEF IInv, Connections
<1> QED
  BY <1>2, <1>3, <1>4, <1>5, <1>6, <1>7, <1>8, <1>9 DEF IInv

\* A ship that is not known is put behind the others, and the map points there.
LEMMA PutShipKeepsPictures ==
  ASSUME IInv, NEW e \in Endpoint, NEW m, m.eid \in ToSet(entities) \ Known(e),
         m.at \in 0..MaxWorld, PutShip(e, m), UNCHANGED entities
  PROVE  Pictures'
<1> DEFINE old == ships[e]
           n == Len(ships[e])
           new == [eid |-> m.eid, of |-> m.eid, at |-> m.at]
           t == Append(ships[e], new)
<1>1. old \in Seq(Ship) /\ n \in Nat /\ DOMAIN old = 1..n
  BY LenProperties DEF IInv, Pictures
<1>2. new \in Ship
  BY IdsAreEnough DEF Ship
<1>3. /\ t \in Seq(Ship) /\ DOMAIN t = 1..n + 1
      /\ t[n + 1] = new /\ \A i \in 1..n : t[i] = old[i]
  <2>1. t \in Seq(Ship) /\ Len(t) = n + 1
    BY <1>1, <1>2, AppendProperties
  <2>2. DOMAIN t = 1..Len(t)
    BY <2>1, LenProperties
  <2>3. t[n + 1] = new /\ \A i \in 1..n : t[i] = old[i]
    BY <1>1, <1>2, AppendProperties
  <2> QED
    BY <2>1, <2>2, <2>3
<1>4. ships' = [ships EXCEPT ![e] = t]
  BY DEF PutShip
<1>5. /\ ships' \in [Endpoint -> Seq(Ship)] /\ ships'[e] = t
      /\ \A f \in Endpoint \ {e} : ships'[f] = ships[f]
  BY <1>3, <1>4 DEF IInv, Pictures
<1>6. /\ DOMAIN index_map' = Endpoint
      /\ index_map'[e] = [eid \in Known(e) \cup {m.eid} |->
                            IF eid = m.eid THEN n + 1 ELSE index_map[e][eid]]
      /\ \A f \in Endpoint \ {e} : index_map'[f] = index_map[f]
  BY DEF IInv, Pictures, PutShip
<1>7. /\ Known(e) = {old[i].eid : i \in 1..n}
      /\ Known(e) \subseteq ToSet(entities)
      /\ \A i \in 1..n : old[i].of = old[i].eid /\ index_map[e][old[i].eid] = i
  BY <1>1, Zenon DEF IInv, Pictures
<1>8. Known(e)' = Known(e) \cup {m.eid}
  BY <1>6 DEF Known
<1>9. \A i \in 1..n + 1 : i \in 1..n \/ i = n + 1
  BY <1>1
<1>10. 1..n \subseteq 1..n + 1 /\ n + 1 \in 1..n + 1
  BY <1>1
<1> HIDE DEF old, n, t
<1>11. Known(e)' = {t[i].eid : i \in 1..n + 1}
  <2>1. \A i \in 1..n + 1 : t[i].eid \in Known(e) \cup {m.eid}
    BY <1>3, <1>7, <1>9
  <2>2. \A x \in Known(e) \cup {m.eid} : \E i \in 1..n + 1 : x = t[i].eid
    BY <1>3, <1>7, <1>10
  <2> QED
    BY <1>8, <2>1, <2>2
<1>12. ASSUME NEW i \in 1..n + 1
       PROVE  t[i].of = t[i].eid /\ index_map'[e][t[i].eid] = i
  <2>1. CASE i = n + 1
    BY <1>3, <1>6, <2>1
  <2>2. CASE i \in 1..n
    <3>1. t[i] = old[i] /\ old[i].eid \in Known(e) /\ old[i].eid # m.eid
      BY <1>3, <1>7, <2>2
    <3>2. index_map'[e][old[i].eid] = index_map[e][old[i].eid]
      BY <1>6, <3>1
    <3> QED
      BY <1>7, <2>2, <3>1, <3>2
  <2> QED
    BY <1>9, <2>1, <2>2
<1>13. ASSUME NEW f \in Endpoint
       PROVE  /\ Known(f)' = {ships'[f][i].eid : i \in DOMAIN ships'[f]}
              /\ Known(f)' \subseteq ToSet(entities)'
              /\ \A i \in DOMAIN ships'[f] :
                   /\ ships'[f][i].of = ships'[f][i].eid
                   /\ index_map'[f][ships'[f][i].eid] = i
  <2>1. CASE f = e
    <3>1. ships'[f] = t /\ DOMAIN t = 1..n + 1
      BY <1>3, <1>5, <2>1
    <3>2. Known(f)' = {ships'[f][i].eid : i \in DOMAIN ships'[f]}
      BY <1>11, <2>1, <3>1
    <3>3. Known(f)' \subseteq ToSet(entities)'
      BY <1>7, <1>8, <2>1
    <3>4. \A i \in DOMAIN ships'[f] :
            /\ ships'[f][i].of = ships'[f][i].eid
            /\ index_map'[f][ships'[f][i].eid] = i
      BY <1>12, <2>1, <3>1
    <3> QED
      BY <3>2, <3>3, <3>4
  <2>2. CASE f # e
    <3>1. ships'[f] = ships[f] /\ index_map'[f] = index_map[f] /\ Known(f)' = Known(f)
      BY <1>5, <1>6, <2>2 DEF Known
    <3> QED
      BY <3>1 DEF IInv, Pictures
  <2> QED
    BY <2>1, <2>2
<1> QED
  BY <1>5, <1>6, <1>13 DEF Pictures

LEMMA OnNewEntityStep ==
  ASSUME IInv, NEW e \in Endpoint, OnNewEntity(e)
  PROVE  IInv'
<1>1. PICK m : m = Head(channel[e])
  OBVIOUS
<1>2. /\ Delivered(e, "NewEntity")
      /\ IF m.eid \in Known(e) THEN UNCHANGED <<ships, index_map>> ELSE PutShip(e, m)
      /\ UNCHANGED my_entity
  BY <1>1 DEF OnNewEntity, picture
<1>3. /\ m \in Message /\ m.type = "NewEntity" /\ m.eid \in ToSet(entities)
      /\ Channels'
      /\ UNCHANGED <<session, entities, controlled_map, thr_steer, world,
                     joins, inputs, snapshots, connected, nextAddress, trying,
                     sent_join, owner, missed>>
  BY <1>1, <1>2, DeliveredMessage
<1>4. m.at \in 0..MaxWorld
  BY <1>3 DEF Message
<1>5. Pictures'
  <2>1. CASE m.eid \in Known(e)
    BY <1>2, <1>3, <2>1 DEF IInv, Pictures, Known
  <2>2. CASE m.eid \notin Known(e)
    BY <1>2, <1>3, <1>4, <2>2, PutShipKeepsPictures
  <2> QED
    BY <2>1, <2>2
<1>6. Handles'
  BY <1>3 DEF IInv, Handles, SessionTypeOK, OpenHandles
<1>7. IdsAreCounted'
  BY <1>3, NoShipComes DEF IInv, IdsAreCounted, Used
<1>8. Owners' /\ InputsAreOwn' /\ Mine'
  BY <1>2, <1>3 DEF IInv, Owners, InputsAreOwn, Mine, IsOwn
<1>9. Steering'
  BY <1>3 DEF IInv, Steering, SteeringIsOnesOwn, Pressed
<1>10. Snapshots' /\ Connections'
  BY <1>3 DEF IInv, Snapshots, Connections
<1> QED
  BY <1>3, <1>5, <1>6, <1>7, <1>8, <1>9, <1>10 DEF IInv

\* The map points to the ship that the snapshot is of.
LEMMA OnSnapshotStep ==
  ASSUME IInv, NEW e \in Endpoint, NEW s \in snapshots[e], OnSnapshot(e, s)
  PROVE  IInv'
<1>1. /\ ships' = IF s.eid \in Known(e)
                  THEN [ships EXCEPT ![e][index_map[e][s.eid]] =
                          [@ EXCEPT !.of = s.eid, !.at = s.at]]
                  ELSE ships
      /\ UNCHANGED <<session, entities, controlled_map, thr_steer, world,
                     channel, joins, inputs, snapshots, connected, nextAddress,
                     trying, sent_join, index_map, my_entity, owner, missed>>
  BY DEF OnSnapshot, server, network, connecting, history
<1>2. Pictures'
  <2>1. CASE s.eid \notin Known(e)
    BY <1>1, <2>1 DEF IInv, Pictures, Known
  <2>2. CASE s.eid \in Known(e)
    <3>1. PICK k \in DOMAIN ships[e] : s.eid = ships[e][k].eid /\ index_map[e][s.eid] = k
      BY <2>2 DEF IInv, Pictures
    <3>2. PICK n \in Nat : ships[e] \in [1..n -> Ship]
      BY SeqDef DEF IInv, Pictures
    <3>3. PICK new : new = [ships[e][k] EXCEPT !.of = s.eid, !.at = s.at]
      OBVIOUS
    <3>4. new \in Ship /\ new.eid = s.eid /\ new.of = s.eid
      <4>1. s.at \in 0..MaxWorld
        <5>1. s.at \in 0..world /\ world \in 0..MaxWorld
          BY DEF IInv, Snapshots
        <5> QED
          BY <5>1
      <4>2. s.eid \in Eid /\ ships[e][k] \in Ship
        BY <3>2, IdsAreEnough DEF IInv, Snapshots
      <4> QED
        BY <3>1, <3>3, <4>1, <4>2 DEF Ship
    <3>5. PICK t : t = [ships[e] EXCEPT ![k] = new]
      OBVIOUS
    <3>6. t \in [1..n -> Ship] /\ \A i \in 1..n : t[i] = IF i = k THEN new ELSE ships[e][i]
      BY <3>2, <3>4, <3>5
    <3>7. ships' = [ships EXCEPT ![e] = t]
      BY <1>1, <2>2, <3>1, <3>3, <3>5
    <3>8. t \in Seq(Ship)
      BY <3>6, SeqDef
    <3>9. /\ ships' \in [Endpoint -> Seq(Ship)] /\ ships'[e] = t
          /\ \A f \in Endpoint \ {e} : ships'[f] = ships[f]
      BY <3>7, <3>8 DEF IInv, Pictures
    <3>10. DOMAIN t = DOMAIN ships[e] /\ \A i \in DOMAIN t : t[i].eid = ships[e][i].eid
      BY <3>1, <3>2, <3>4, <3>6
    <3>11. \A i \in DOMAIN t : t[i].of = t[i].eid /\ index_map[e][t[i].eid] = i
      <4>1. \A i \in DOMAIN ships[e] :
              /\ ships[e][i].of = ships[e][i].eid
              /\ index_map[e][ships[e][i].eid] = i
        BY DEF IInv, Pictures
      <4>2. \A i \in DOMAIN t : i # k => t[i] = ships[e][i]
        BY <3>6
      <4>3. t[k] = new
        BY <3>1, <3>2, <3>6
      <4> QED
        BY <3>1, <3>4, <3>10, <4>1, <4>2, <4>3
    <3>12. {t[i].eid : i \in DOMAIN t} = {ships[e][i].eid : i \in DOMAIN ships[e]}
      BY <3>10
    <3>13. ASSUME NEW f \in Endpoint
           PROVE  /\ Known(f)' = {ships'[f][i].eid : i \in DOMAIN ships'[f]}
                  /\ Known(f)' \subseteq ToSet(entities)'
                  /\ \A i \in DOMAIN ships'[f] :
                       /\ ships'[f][i].of = ships'[f][i].eid
                       /\ index_map'[f][ships'[f][i].eid] = i
      <4>1. /\ Known(f)' = Known(f) /\ ToSet(entities)' = ToSet(entities)
            /\ index_map' = index_map
        BY <1>1 DEF Known
      <4>2. /\ Known(f) = {ships[f][i].eid : i \in DOMAIN ships[f]}
            /\ Known(f) \subseteq ToSet(entities)
            /\ \A i \in DOMAIN ships[f] :
                 /\ ships[f][i].of = ships[f][i].eid
                 /\ index_map[f][ships[f][i].eid] = i
        BY DEF IInv, Pictures
      <4>3. CASE f = e
        <5>1. ships'[e] = t /\ DOMAIN t = DOMAIN ships[e]
          BY <3>9, <3>10
        <5>2. Known(e)' = {t[i].eid : i \in DOMAIN t}
          <6>1. Known(e)' = {ships[e][i].eid : i \in DOMAIN ships[e]}
            BY <4>1, <4>2, <4>3
          <6> QED
            BY <3>12, <6>1, Zenon
        <5>3. Known(e)' = {ships'[e][i].eid : i \in DOMAIN ships'[e]}
          BY <5>1, <5>2
        <5>4. \A i \in DOMAIN ships'[e] :
                /\ ships'[e][i].of = ships'[e][i].eid
                /\ index_map'[e][ships'[e][i].eid] = i
          BY <3>11, <4>1, <5>1
        <5>5. Known(e)' \subseteq ToSet(entities)'
          BY <4>1, <4>2, <4>3
        <5> QED
          BY <4>3, <5>3, <5>4, <5>5
      <4>4. CASE f # e
        <5>1. ships'[f] = ships[f]
          BY <3>9, <4>4
        <5>2. Known(f)' = {ships'[f][i].eid : i \in DOMAIN ships'[f]}
          BY <4>1, <4>2, <5>1
        <5> QED
          BY <4>1, <4>2, <5>1, <5>2
      <4> QED
        BY <4>3, <4>4
    <3>14. DOMAIN index_map' = Endpoint
      BY <1>1 DEF IInv, Pictures
    <3> QED
      BY <3>9, <3>13, <3>14 DEF Pictures
  <2> QED
    BY <2>1, <2>2
<1>3. Handles'
  BY <1>1 DEF IInv, Handles, SessionTypeOK, OpenHandles
<1>4. IdsAreCounted'
  BY <1>1, NoShipComes DEF IInv, IdsAreCounted, Used
<1>5. Owners' /\ InputsAreOwn' /\ Mine'
  BY <1>1 DEF IInv, Owners, InputsAreOwn, Mine, IsOwn
<1>6. Steering'
  BY <1>1 DEF IInv, Steering, SteeringIsOnesOwn, Pressed
<1>7. Channels'
  BY <1>1 DEF IInv, Channels, IsOwn
<1>8. Snapshots' /\ Connections'
  BY <1>1 DEF IInv, Snapshots, Connections
<1> QED
  BY <1>2, <1>3, <1>4, <1>5, <1>6, <1>7, <1>8 DEF IInv

\* What the newcomer and the others are told is of ships there are.
LEMMA WelcomesAreTrue ==
  ASSUME IInv, NEW e \in Endpoint, NEW eid \in Eid, NEW f \in Endpoint
  PROVE  /\ Welcome(e, eid)[f] \in Seq(Message)
         /\ \A m \in ToSet(Welcome(e, eid)[f]) :
              \/ m \in ToSet(channel[f])
              \/ m.type = "NewEntity" /\ m.eid \in ToSet(entities) \cup {eid}
              \/ f = e /\ m = SetControlledEntity(eid)
<1> DEFINE there == [i \in DOMAIN entities |-> NewEntity(entities[i])]
           last == <<NewEntity(eid), SetControlledEntity(eid)>>
<1>1. channel[f] \in Seq(Message)
  BY DEF IInv, Channels
<1>2. world \in 0..MaxWorld
  BY DEF IInv, Snapshots
<1>3. \A x \in Eid : /\ NewEntity(x) \in Message /\ SetControlledEntity(x) \in Message
                     /\ NewEntity(x).type = "NewEntity" /\ NewEntity(x).eid = x
  BY <1>2 DEF NewEntity, SetControlledEntity, Message
<1>4. \A i \in DOMAIN entities : entities[i] \in ToSet(entities) /\ entities[i] \in Eid
  BY IdsAreEnough DEF ToSet
<1>5. there \in Seq(Message)
  <2>1. PICK n \in Nat : DOMAIN entities = 1..n
    BY LenProperties DEF IInv, IdsAreCounted
  <2>2. there \in [1..n -> Message]
    BY <1>3, <1>4, <2>1
  <2> QED
    BY <2>2, SeqDef
<1>6. \A m \in ToSet(there) : m.type = "NewEntity" /\ m.eid \in ToSet(entities)
  <2>1. ToSet(there) = {NewEntity(entities[i]) : i \in DOMAIN entities}
    BY DEF ToSet
  <2> QED
    BY <1>3, <1>4, <2>1
<1>7. /\ last \in Seq(Message)
      /\ ToSet(last) = {NewEntity(eid), SetControlledEntity(eid)}
  <2>1. last \in [1..2 -> Message] /\ DOMAIN last = 1..2
    BY <1>3
  <2>2. last \in Seq(Message)
    BY <2>1, SeqDef
  <2>3. 1..2 = {1, 2} /\ last[1] = NewEntity(eid) /\ last[2] = SetControlledEntity(eid)
    OBVIOUS
  <2>4. ToSet(last) = {last[i] : i \in {1, 2}}
    BY <2>1, <2>3 DEF ToSet
  <2> QED
    BY <2>2, <2>3, <2>4
<1> HIDE DEF there, last
<1>8. CASE f = e
  <2>1. Welcome(e, eid)[f] = (channel[f] \o there) \o last
    BY <1>8 DEF Welcome, there, last
  <2>2. PICK front \in Seq(Message) : front = channel[f] \o there
    BY <1>1, <1>5, ConcatProperties
  <2>3. ToSet(front) = ToSet(channel[f]) \cup ToSet(there)
    BY <1>1, <1>5, <2>2, ConcatElements
  <2>4. Welcome(e, eid)[f] = front \o last
    BY <2>1, <2>2
  <2>5. front \o last \in Seq(Message)
    BY <1>7, ConcatProperties
  <2>6. ToSet(front \o last) = ToSet(front) \cup ToSet(last)
    BY <1>7, ConcatElements
  <2> QED
    BY <1>3, <1>6, <1>7, <1>8, <2>3, <2>4, <2>5, <2>6
<1>9. CASE f # e /\ IsOpen(f)
  <2>1. Welcome(e, eid)[f] = Append(channel[f], NewEntity(eid))
    BY <1>9 DEF Welcome
  <2>2. /\ Append(channel[f], NewEntity(eid)) \in Seq(Message)
        /\ ToSet(Append(channel[f], NewEntity(eid)))
             = ToSet(channel[f]) \cup {NewEntity(eid)}
    BY <1>1, <1>3, AppendedElements, AppendProperties
  <2> QED
    BY <1>3, <2>1, <2>2
<1>10. CASE f # e /\ ~IsOpen(f)
  BY <1>1, <1>10 DEF Welcome
<1> QED
  BY <1>8, <1>9, <1>10

\* A Join is the client's only one: there is an id left for its ship.
LEMMA OnJoinStep ==
  ASSUME IInv, NEW e \in Endpoint, OnJoin(e)
  PROVE  IInv'
<1>0. PICK n : n = Len(entities)
  OBVIOUS
<1>1. e \in joins /\ sent_join[e] /\ ~Used(e) /\ IsOpen(e)
  BY DEF OnJoin, IInv, IdsAreCounted, Used
<1>2. /\ n \in Nat /\ n < kInvalidEntity /\ n \in Eid
      /\ entities \in Seq(Nat) /\ ToSet(entities) = 0..n - 1 /\ NumShips <= n
  <2>1. n \in Nat /\ n < kInvalidEntity
    BY <1>0, <1>1, IdsAreEnough
  <2> QED
    BY <1>0, <2>1 DEF Eid, IInv, IdsAreCounted
<1>3. NextEntityId(entities) = n
  BY <1>0, <1>2, NextIdIsTheCount
<1>4. /\ joins' = joins \ {e}
      /\ entities' = Append(entities, n)
      /\ controlled_map' = [eid \in DOMAIN controlled_map \cup {n} |->
                              IF eid = n THEN session[e] ELSE controlled_map[eid]]
      /\ thr_steer' = [eid \in DOMAIN thr_steer \cup {n} |->
                         IF eid = n THEN <<0, 0>> ELSE thr_steer[eid]]
      /\ channel' = Welcome(e, n)
      /\ owner' = [eid \in DOMAIN owner \cup {n} |-> IF eid = n THEN e ELSE owner[eid]]
      /\ UNCHANGED <<session, world, inputs, snapshots, connected, nextAddress,
                     trying, sent_join, ships, index_map, my_entity, missed>>
  BY <1>3 DEF OnJoin, client, connecting, picture
<1>5. /\ entities' \in Seq(Nat) /\ Len(entities') = n + 1
      /\ ToSet(entities') = ToSet(entities) \cup {n}
      /\ n \notin ToSet(entities)
  <2>1. n \notin 0..n - 1
    BY <1>2
  <2>2. ToSet(entities') = ToSet(entities) \cup {n}
    BY <1>2, <1>4, AppendedElements, SMTT(40)
  <2>3. entities' \in Seq(Nat) /\ Len(entities') = n + 1
    BY <1>0, <1>2, <1>4, AppendProperties
  <2> QED
    BY <1>2, <2>1, <2>2, <2>3
<1>6. n \notin DOMAIN owner /\ DOMAIN owner = NumShips..n - 1
  BY <1>0, <1>2 DEF IInv, Owners
<1>7. /\ \A f, eid : IsOwn(f, eid) => IsOwn(f, eid)'
      /\ IsOwn(e, n)'
  <2>1. /\ DOMAIN owner' = DOMAIN owner \cup {n} /\ owner'[n] = e
        /\ \A eid \in DOMAIN owner : owner'[eid] = owner[eid]
    BY <1>4, <1>6
  <2> QED
    BY <2>1 DEF IsOwn
<1>8. Handles'
  <2>1. DOMAIN controlled_map' = ToSet(entities)'
    BY <1>4, <1>5 DEF IInv, Handles
  <2>2. session[e] \in OpenHandles
    BY <1>1 DEF OpenHandles, IsOpen
  <2>3. \A eid \in ToSet(entities) : controlled_map'[eid] = controlled_map[eid]
    BY <1>4, <1>5 DEF IInv, Handles
  <2>4. controlled_map'[n] = session[e]
    BY <1>4
  <2> QED
    BY <1>4, <1>5, <2>1, <2>2, <2>3, <2>4
       DEF IInv, Handles, SessionTypeOK, OpenHandles
<1>9. IdsAreCounted'
  <2> DEFINE U == {f \in Endpoint : Used(f)}
             V == {f \in Endpoint : Used(f)'}
  <2>1. V = U \cup {e} /\ e \notin U /\ U \in SUBSET Endpoint
    BY <1>1, <1>4 DEF Used
  <2>2. Cardinality(V) = Cardinality(U) + 1 /\ Cardinality(U) \in Nat
    <3> HIDE DEF U, V
    <3>1. IsFiniteSet(U) /\ Cardinality(U) \in Nat
      BY <2>1, EndpointsAreCounted DEF IInv
    <3> QED
      BY <2>1, <3>1, FS_AddElement
  <2>3. n <= NumShips + Cardinality(U)
    BY <1>0 DEF IInv, IdsAreCounted
  <2>4. n + 1 <= NumShips + Cardinality(V) /\ NumShips <= n + 1
    <3> HIDE DEF U, V
    <3> QED
      BY <1>2, <2>2, <2>3
  <2>5. 0..(n + 1) - 1 = 0..n - 1 \cup {n}
    BY <1>2
  <2>6. ToSet(entities)' = 0..Len(entities)' - 1
    BY <1>2, <1>5, <2>5
  <2> QED
    BY <1>4, <1>5, <2>4, <2>6 DEF IInv, IdsAreCounted
<1>10. Owners'
  <2>1. NumShips..(n + 1) - 1 = NumShips..n - 1 \cup {n}
    BY <1>2
  <2>2. owner' \in [NumShips..n - 1 \cup {n} -> Endpoint]
    BY <1>0, <1>4, <1>6 DEF IInv, Owners
  <2> QED
    BY <1>5, <2>1, <2>2 DEF Owners
<1>11. InputsAreOwn' /\ Mine'
  BY <1>4, <1>7 DEF IInv, InputsAreOwn, Mine
<1>12. Steering'
  <2>1. DOMAIN thr_steer' = ToSet(entities)'
    BY <1>4, <1>5 DEF IInv, Steering
  <2>2. \A eid \in DOMAIN owner : eid \in DOMAIN owner' /\ Pressed(eid)' = Pressed(eid)
    BY <1>4, <1>6 DEF Pressed
  <2>3. n \in DOMAIN owner' /\ thr_steer'[n] = <<0, 0>>
    BY <1>4
  <2>4. \A eid \in ToSet(entities) :
          /\ thr_steer'[eid] = thr_steer[eid]
          /\ eid \in DOMAIN owner' <=> eid \in DOMAIN owner
    BY <1>4, <1>5 DEF IInv, Steering
  <2>5. SteeringIsOnesOwn'
    <3> SUFFICES ASSUME NEW eid \in ToSet(entities')
                 PROVE  IF eid \in DOMAIN owner'
                        THEN thr_steer'[eid] \in {<<0, 0>>} \cup Pressed(eid)'
                        ELSE thr_steer'[eid] \in {<<0, 0>>}
      BY DEF SteeringIsOnesOwn
    <3>1. CASE eid = n
      BY <2>3, <3>1
    <3>2. CASE eid \in ToSet(entities)
      <4>1. IF eid \in DOMAIN owner
            THEN thr_steer[eid] \in {<<0, 0>>} \cup Pressed(eid)
            ELSE thr_steer[eid] \in {<<0, 0>>}
        BY <3>2 DEF IInv, Steering, SteeringIsOnesOwn
      <4> QED
        BY <2>2, <2>4, <3>2, <4>1
    <3> QED
      BY <1>5, <3>1, <3>2
  <2> QED
    BY <2>1, <2>5 DEF Steering
<1>13. Channels'
  <2>1. \A f \in Endpoint :
          /\ Welcome(e, n)[f] \in Seq(Message)
          /\ \A m \in ToSet(Welcome(e, n)[f]) :
               \/ m \in ToSet(channel[f])
               \/ m.type = "NewEntity" /\ m.eid \in ToSet(entities) \cup {n}
               \/ f = e /\ m = SetControlledEntity(n)
    BY <1>2, WelcomesAreTrue
  <2>2. channel' \in [Endpoint -> Seq(Message)]
    <3>1. channel' = [f \in Endpoint |-> channel'[f]]
      BY <1>4 DEF Welcome
    <3> QED
      BY <1>4, <2>1, <3>1
  <2>3. ASSUME NEW f \in Endpoint, NEW m \in ToSet(channel'[f])
        PROVE  /\ m.eid \in ToSet(entities')
               /\ m.type = "SetControlledEntity" => IsOwn(f, m.eid)'
    <3>1. CASE m \in ToSet(channel[f])
      <4>1. /\ m.eid \in ToSet(entities)
            /\ m.type = "SetControlledEntity" => IsOwn(f, m.eid)
        BY <3>1 DEF IInv, Channels
      <4> QED
        BY <1>5, <1>7, <4>1
    <3>2. CASE m.type = "NewEntity" /\ m.eid \in ToSet(entities) \cup {n}
      BY <1>5, <3>2
    <3>3. CASE f = e /\ m = SetControlledEntity(n)
      BY <1>5, <1>7, <3>3 DEF SetControlledEntity
    <3> QED
      BY <1>4, <2>1, <2>3, <3>1, <3>2, <3>3
  <2> QED
    BY <2>2, <2>3 DEF Channels
<1>14. Snapshots'
  BY <1>4, <1>5 DEF IInv, Snapshots
<1>15. Pictures'
  BY <1>4, <1>5 DEF IInv, Pictures, Known
<1>16. Connections'
  BY <1>4 DEF IInv, Connections
<1> QED
  BY <1>8, <1>9, <1>10, <1>11, <1>12, <1>13, <1>14, <1>15, <1>16 DEF IInv

LEMMA StutteringStep == IInv /\ UNCHANGED vars => IInv'
<1> SUFFICES ASSUME IInv, UNCHANGED vars PROVE IInv'
  OBVIOUS
<1>1. UNCHANGED <<session, entities, controlled_map, thr_steer, world, channel,
                  joins, inputs, snapshots, connected, nextAddress, trying,
                  sent_join, ships, index_map, my_entity, owner, missed>>
  BY DEF vars, server, network, client, connecting, picture, history
<1>2. Handles'
  BY <1>1 DEF IInv, Handles, SessionTypeOK, OpenHandles
<1>3. IdsAreCounted'
  BY <1>1, NoShipComes DEF IInv, IdsAreCounted, Used
<1>4. Owners' /\ InputsAreOwn' /\ Mine'
  BY <1>1 DEF IInv, Owners, InputsAreOwn, Mine, IsOwn
<1>5. Steering'
  BY <1>1 DEF IInv, Steering, SteeringIsOnesOwn, Pressed
<1>6. Channels'
  BY <1>1 DEF IInv, Channels, IsOwn
<1>7. Snapshots' /\ Pictures'
  BY <1>1 DEF IInv, Snapshots, Pictures, Known
<1>8. Connections'
  BY <1>1 DEF IInv, Connections
<1> QED
  BY <1>2, <1>3, <1>4, <1>5, <1>6, <1>7, <1>8 DEF IInv

LEMMA NextIInv == IInv /\ [Next]_vars => IInv'
<1> SUFFICES ASSUME IInv, [Next]_vars PROVE IInv'
  OBVIOUS
<1>1. CASE SimulateWorld
  BY <1>1, SimulateWorldStep
<1>2. ASSUME NEW e \in Endpoint, NEW p \in Pointer, OnConnected(e, p) PROVE IInv'
  BY <1>2, OnConnectedStep
<1>3. ASSUME NEW e \in Endpoint, OnDisconnected(e) PROVE IInv'
  BY <1>3, OnDisconnectedStep
<1>4. ASSUME NEW e \in Endpoint, OnJoin(e) PROVE IInv'
  BY <1>4, OnJoinStep
<1>5. ASSUME NEW e \in Endpoint, NEW m \in inputs[e], OnInput(e, m) PROVE IInv'
  BY <1>5, OnInputStep
<1>6. ASSUME NEW e \in Endpoint, ConnectNextAddress(e) PROVE IInv'
  BY <1>6, ConnectNextAddressStep
<1>7. ASSUME NEW e \in Endpoint, OnClientDisconnected(e) PROVE IInv'
  BY <1>7, OnClientDisconnectedStep
<1>8. ASSUME NEW e \in Endpoint, SendJoin(e) PROVE IInv'
  BY <1>8, SendJoinStep
<1>9. ASSUME NEW e \in Endpoint, OnNewEntity(e) PROVE IInv'
  BY <1>9, OnNewEntityStep
<1>10. ASSUME NEW e \in Endpoint, OnSetControlledEntity(e) PROVE IInv'
  BY <1>10, OnSetControlledEntityStep
<1>11. ASSUME NEW e \in Endpoint, NEW s \in snapshots[e], OnSnapshot(e, s) PROVE IInv'
  BY <1>11, OnSnapshotStep
<1>12. ASSUME NEW e \in Endpoint, NEW s \in snapshots[e], LoseSnapshot(e, s) PROVE IInv'
  BY <1>12, LoseSnapshotStep
<1>13. ASSUME NEW e \in Endpoint, SendInput(e) PROVE IInv'
  BY <1>13, SendInputStep
<1>14. CASE UNCHANGED vars
  BY <1>14, StutteringStep
<1> QED
  BY <1>1, <1>2, <1>3, <1>4, <1>5, <1>6, <1>7, <1>8, <1>9, <1>10, <1>11, <1>12,
     <1>13, <1>14 DEF Next

-----------------------------------------------------------------------------
(* Theorems *)

\* With enough ids every variable keeps its type: no id is kInvalidEntity, and a
\* ship is left to no handle whose session is over (server.cpp,
\* SetDisconnectedCallback).
THEOREM TypeIsKept == EnoughIds /\ Spec => []TypeOK
<1>1. IInv => TypeOK
  BY InvariantSaysAll
<1> QED
  BY <1>1, InitIInv, NextIInv, PTL DEF Spec

\* A ship only ever does what its own player has pressed for it, exactly, and
\* nobody reaches a ship of the server's (server.cpp, OnInput).
THEOREM SteeringStaysOnesOwn == EnoughIds /\ Spec => []SteeringIsOnesOwn
<1>1. IInv => SteeringIsOnesOwn
  BY InvariantSaysAll
<1> QED
  BY <1>1, InitIInv, NextIInv, PTL DEF Spec

\* A client's vector holds each ship it knows once, where its map points, and the
\* ship it takes for its own was given to it (main.cpp, OnNewEntityPacket,
\* OnSetControlledEntity, OnSnapshot).
THEOREM PicturesStayTheirs == EnoughIds /\ Spec => []PicturesAreTheirs
<1>1. IInv => PicturesAreTheirs
  BY InvariantSaysAll
<1> QED
  BY <1>1, InitIInv, NextIInv, PTL DEF Spec
=============================================================================
