----------------------- MODULE PredictionShipsProofs -----------------------
(***************************************************************************)
(* The prediction ships for any number of clients, however their sessions  *)
(* end and whichever snapshots arrive, late, twice or never: server and    *)
(* clients agree on the fleet, and a ship is not seen to move back.        *)
(***************************************************************************)
EXTENDS PredictionShips, OperatorProofs, TLAPS

USE NoClientAssumption, ShipsAssumption

\* An id is never taken back: sixteen bits are enough for one Join of every
\* client there will ever be.
EnoughIds == IsFiniteSet(Endpoint) /\ Cardinality(Endpoint) <= kInvalidEntity

-----------------------------------------------------------------------------
(* Histories *)

\* A history is in order when no snapshot is behind one of a later frame.
InOrder(history) ==
  \A i, j \in DOMAIN history :
    i < j => history[i].frameNumber <= history[j].frameNumber

\* There is an order for a history in order and one snapshot more: those of no
\* later frame, the new one, the rest.
LEMMA OrderExists ==
  ASSUME NEW S \in SUBSET Snapshot, NEW h \in Seq(S), NEW s \in S, InOrder(h)
  PROVE  \E p \in Bijection(DOMAIN Append(h, s), DOMAIN Append(h, s)) :
           \A i, j \in DOMAIN Append(h, s) :
             i < j => Append(h, s)[p[i]].frameNumber <= Append(h, s)[p[j]].frameNumber
<1> DEFINE Number(x) == x.frameNumber
<1>1. PICK n \in Nat : n = Len(h)
  BY LenProperties
<1>2. PICK t : t = Append(h, s)
  OBVIOUS
<1>3. /\ DOMAIN h = 1..n
      /\ DOMAIN t = 1..n + 1
      /\ t[n + 1] = s
      /\ \A i \in 1..n : t[i] = h[i] /\ h[i] \in S
  BY <1>1, <1>2, AppendProperties, LenProperties, ElementOfSeq
<1>4. \A i \in 1..n + 1 : Number(t[i]) \in Nat
  <2>1. \A x \in S : Number(x) \in Nat
    BY DEF Snapshot, Number
  <2>2. \A i \in 1..n + 1 : i \in 1..n \/ i = n + 1
    BY <1>1
  <2> HIDE DEF Number
  <2> QED
    BY <1>3, <2>1, <2>2
<1>5. \A i, j \in 1..n : i < j => Number(t[i]) <= Number(t[j])
  BY <1>3 DEF InOrder, Number
<1> DEFINE Behind == {k \in 1..n + 1 : k = n + 1 \/ Number(s) < Number(t[k])}
<1>6. PICK k \in Behind : \A j \in Behind : k <= j
  <2>1. Behind \subseteq Nat /\ n + 1 \in Behind
    BY <1>1
  <2> HIDE DEF Behind
  <2> QED
    BY <2>1, LeastNumber
<1>7. /\ k \in 1..n + 1
      /\ \A i \in 1..n : i < k => Number(t[i]) <= Number(s)
  <2>1. k \in 1..n + 1
    OBVIOUS
  <2>2. ASSUME NEW i \in 1..n, i < k PROVE Number(t[i]) <= Number(s)
    <3>1. i \notin Behind /\ i \in 1..n + 1 /\ n + 1 \in 1..n + 1
      <4>1. i \in 1..n + 1 /\ n + 1 \in 1..n + 1 /\ ~(k <= i)
        BY <1>1, <2>1, <2>2
      <4> HIDE DEF Behind
      <4> QED
        BY <1>6, <4>1
    <3>2. ~(Number(s) < Number(t[i]))
      BY <3>1
    <3>3. Number(t[i]) \in Nat /\ Number(s) \in Nat
      BY <1>3, <1>4, <3>1
    <3> HIDE DEF Number, Behind
    <3> QED
      BY <3>2, <3>3
  <2> QED
    BY <2>1, <2>2
<1>8. \A i \in 1..n : k <= i => Number(s) <= Number(t[i])
  <2> SUFFICES ASSUME NEW i \in 1..n, k <= i PROVE Number(s) <= Number(t[i])
    OBVIOUS
  <2>1. k \in 1..n /\ Number(s) < Number(t[k])
    BY <1>1, <1>6
  <2>2. k = i \/ Number(t[k]) <= Number(t[i])
    BY <1>5, <2>1
  <2>3. Number(t[k]) \in Nat /\ Number(t[i]) \in Nat /\ Number(s) \in Nat
    <3>1. k \in 1..n + 1 /\ i \in 1..n + 1 /\ n + 1 \in 1..n + 1
      BY <1>1, <2>1
    <3> QED
      BY <1>3, <1>4, <3>1
  <2> HIDE DEF Number, Behind
  <2> QED
    BY <2>1, <2>2, <2>3
<1> HIDE DEF Behind
<1> DEFINE Place(i) == IF i < k THEN i ELSE IF i = k THEN n + 1 ELSE i - 1
           p == [i \in 1..n + 1 |-> Place(i)]
<1>9. p \in Bijection(1..n + 1, 1..n + 1)
  <2>1. \A i \in 1..n + 1 : Place(i) \in 1..n + 1
    BY <1>7
  <2>2. \A i, j \in 1..n + 1 : Place(i) = Place(j) => i = j
    BY <1>7
  <2>3. ASSUME NEW j \in 1..n + 1 PROVE \E i \in 1..n + 1 : Place(i) = j
    <3>1. CASE j < k
      BY <3>1
    <3>2. CASE j = n + 1
      BY <1>7, <3>2
    <3>3. CASE j >= k /\ j # n + 1
      <4>1. j + 1 \in 1..n + 1 /\ Place(j + 1) = j
        BY <1>7, <3>3
      <4> QED
        BY <4>1
    <3> QED
      BY <1>7, <3>1, <3>2, <3>3
  <2>4. p \in [1..n + 1 -> 1..n + 1]
    BY <2>1
  <2>5. \A i \in 1..n + 1 : p[i] = Place(i)
    OBVIOUS
  <2>6. \A i, j \in 1..n + 1 : p[i] = p[j] => i = j
    <3> HIDE DEF p, Place
    <3> QED
      BY <2>2, <2>5
  <2>7. \A j \in 1..n + 1 : \E i \in 1..n + 1 : p[i] = j
    <3> HIDE DEF p, Place
    <3> QED
      BY <2>3, <2>5
  <2> HIDE DEF p
  <2> QED
    BY <2>4, <2>6, <2>7, ZenonT(60) DEF Bijection, Injection, Surjection, IsInjective
<1>10. ASSUME NEW i \in 1..n + 1, NEW j \in 1..n + 1, i < j
       PROVE  Number(t[p[i]]) <= Number(t[p[j]])
  <2>1. p[i] = Place(i) /\ p[j] = Place(j)
    OBVIOUS
  <2> HIDE DEF p, Number
  <2>2. CASE j < k
    <3>1. p[i] = i /\ p[j] = j /\ i \in 1..n /\ j \in 1..n
      BY <1>7, <1>10, <2>1, <2>2
    <3> QED
      BY <1>5, <1>10, <3>1
  <2>3. CASE j = k
    <3>1. p[i] = i /\ p[j] = n + 1 /\ i \in 1..n /\ i < k
      BY <1>7, <1>10, <2>1, <2>3
    <3> QED
      BY <1>3, <1>7, <3>1
  <2>4. CASE i < k /\ k < j
    <3>1. p[i] = i /\ p[j] = j - 1 /\ i \in 1..n /\ j - 1 \in 1..n /\ i < j - 1
      BY <1>7, <1>10, <2>1, <2>4
    <3> QED
      BY <1>5, <3>1
  <2>5. CASE i = k
    <3>1. p[i] = n + 1 /\ p[j] = j - 1 /\ j - 1 \in 1..n /\ k <= j - 1
      BY <1>7, <1>10, <2>1, <2>5
    <3> QED
      BY <1>3, <1>8, <3>1
  <2>6. CASE k < i
    <3>1. p[i] = i - 1 /\ p[j] = j - 1 /\ i - 1 \in 1..n /\ j - 1 \in 1..n /\ i - 1 < j - 1
      BY <1>7, <1>10, <2>1, <2>6
    <3> QED
      BY <1>5, <3>1
  <2> QED
    BY <1>7, <1>10, <2>2, <2>3, <2>4, <2>5, <2>6
<1> HIDE DEF p
<1> QED
  BY <1>2, <1>3, <1>9, <1>10

\* What a snapshot makes of a history: nothing in it is lost or changed, it is
\* in order, and its newest is no older than before.
LEMMA InsertedHistory ==
  ASSUME NEW S \in SUBSET Snapshot, NEW h \in Seq(S), NEW s \in S, InOrder(h)
  PROVE  /\ Inserted(h, s) \in Seq(S)
         /\ InOrder(Inserted(h, s))
         /\ Inserted(h, s) # <<>>
         /\ h # <<>> => Last(h).frameNumber <= Last(Inserted(h, s)).frameNumber
<1> DEFINE Number(x) == x.frameNumber
<1>1. PICK n \in Nat : n = Len(h)
  BY LenProperties
<1>2. PICK t \in Seq(S) : t = Append(h, s)
  BY AppendProperties
<1>3. /\ DOMAIN h = 1..n
      /\ DOMAIN t = 1..n + 1
      /\ Len(t) = n + 1
      /\ t[n + 1] = s
      /\ \A i \in 1..n : t[i] = h[i] /\ h[i] \in S
      /\ \A i \in 1..n + 1 : t[i] \in S
  BY <1>1, <1>2, AppendProperties, LenProperties, ElementOfSeq
<1>4. \A x \in S : Number(x) \in Nat
  BY DEF Snapshot, Number
<1>5. h # <<>> => n \in 1..n /\ Last(h) = h[n]
  BY <1>1, EmptySeq DEF Last
<1>6. CASE h # <<>> /\ s.frameNumber < Last(h).frameNumber
  <2> DEFINE P == {p \in Bijection(DOMAIN t, DOMAIN t) :
                     \A i, j \in DOMAIN t :
                       i < j => t[p[i]].frameNumber <= t[p[j]].frameNumber}
  <2>1. PICK p \in Bijection(DOMAIN t, DOMAIN t) :
          /\ \A i, j \in DOMAIN t : i < j => t[p[i]].frameNumber <= t[p[j]].frameNumber
          /\ Sorted(t) = [i \in DOMAIN t |-> t[p[i]]]
    BY <1>2, OrderExists, ZenonT(40) DEF Sorted
  <2>2. /\ \A i \in 1..n + 1 : p[i] \in 1..n + 1
        /\ \A k \in 1..n + 1 : \E i \in 1..n + 1 : p[i] = k
    BY <1>3 DEF Bijection, Injection, Surjection
  <2>3. PICK u : u = [i \in 1..n + 1 |-> t[p[i]]]
    OBVIOUS
  <2>4. Inserted(h, s) = u
    BY <1>2, <1>3, <1>6, <2>1, <2>3 DEF Inserted
  <2>5. \A i \in 1..n + 1 : u[i] = t[p[i]] /\ u[i] \in S
    BY <1>3, <2>2, <2>3
  <2>6. u \in [1..n + 1 -> S]
    BY <2>3, <2>5
  <2>7. u \in Seq(S)
    BY <1>1, <2>6, SeqDef
  <2>8. DOMAIN u = 1..n + 1 /\ Len(u) = n + 1
    BY <1>1, <2>6, <2>7, LenProperties
  <2>9. InOrder(u)
    BY <1>3, <2>1, <2>5, <2>8 DEF InOrder
  <2>10. u # <<>> /\ Last(u) = u[n + 1]
    BY <1>1, <2>8, EmptySeq DEF Last
  <2>11. Number(h[n]) <= Number(u[n + 1])
    <3>1. n \in 1..n + 1 /\ t[n] = h[n]
      BY <1>1, <1>3, <1>5, <1>6
    <3>2. PICK i \in 1..n + 1 : p[i] = n
      BY <2>2, <3>1
    <3>3. u[i] = h[n] /\ u[i] \in S
      BY <2>5, <3>1, <3>2
    <3>4. i = n + 1 \/ i < n + 1
      BY <1>1
    <3>5. n + 1 \in 1..n + 1
      BY <1>1
    <3>6. Number(u[i]) \in Nat
      BY <1>4, <3>3
    <3>7. i < n + 1 => Number(u[i]) <= Number(u[n + 1])
      BY <2>8, <2>9, <3>5 DEF InOrder, Number
    <3> HIDE DEF Number
    <3> QED
      BY <3>3, <3>4, <3>6, <3>7
  <2> QED
    BY <1>5, <1>6, <2>4, <2>7, <2>9, <2>10, <2>11
<1>7. CASE ~(h # <<>> /\ s.frameNumber < Last(h).frameNumber)
  <2>1. Inserted(h, s) = t
    BY <1>2, <1>7 DEF Inserted
  <2>2. h # <<>> => Number(h[n]) <= Number(s)
    <3> SUFFICES ASSUME h # <<>> PROVE Number(h[n]) <= Number(s)
      OBVIOUS
    <3>1. Number(h[n]) \in Nat /\ Number(s) \in Nat
      BY <1>3, <1>4, <1>5
    <3>2. ~(Number(s) < Number(h[n]))
      BY <1>5, <1>7
    <3> HIDE DEF Number
    <3> QED
      BY <3>1, <3>2
  <2>3. Last(t) = s /\ t # <<>>
    BY <1>1, <1>3, EmptySeq DEF Last
  <2>4. InOrder(t)
    <3> SUFFICES ASSUME NEW i \in 1..n + 1, NEW j \in 1..n + 1, i < j
                 PROVE  Number(t[i]) <= Number(t[j])
      BY <1>3 DEF InOrder
    <3>1. i \in 1..n /\ (j \in 1..n \/ j = n + 1) /\ t[i] = h[i]
      BY <1>1, <1>3
    <3>2. CASE j \in 1..n
      BY <1>3, <3>1, <3>2 DEF InOrder
    <3>3. CASE j = n + 1
      <4>1. n \in 1..n /\ h # <<>> /\ (i = n \/ i < n)
        BY <1>1, <1>3, <3>1, EmptySeq
      <4>2. i = n \/ Number(h[i]) <= Number(h[n])
        BY <1>3, <3>1, <4>1 DEF InOrder
      <4>3. Number(h[i]) \in Nat /\ Number(h[n]) \in Nat /\ Number(s) \in Nat
        BY <1>3, <1>4, <3>1, <4>1
      <4>4. Number(h[n]) <= Number(s) /\ t[j] = s
        BY <1>3, <2>2, <3>3, <4>1
      <4> HIDE DEF Number
      <4> QED
        BY <3>1, <4>2, <4>3, <4>4
    <3> QED
      BY <3>1, <3>2, <3>3
  <2> QED
    BY <1>2, <1>5, <2>1, <2>2, <2>3, <2>4
<1> QED
  BY <1>6, <1>7

\* What is left of a history is its end, with its newest.
LEMMA KeptHistory ==
  ASSUME NEW S \in SUBSET Snapshot, NEW h \in Seq(S), NEW target, InOrder(h)
  PROVE  /\ Kept(h, target) \in Seq(S)
         /\ InOrder(Kept(h, target))
         /\ h # <<>> => /\ Kept(h, target) # <<>>
                        /\ Last(Kept(h, target)) = Last(h)
<1> DEFINE Stop(k) == \/ Len(h) - k <= 2
                      \/ h[k + 2].timestamp >= target
           Ends == {k \in 0..Len(h) : Stop(k)}
<1>1. PICK n \in Nat : n = Len(h) /\ DOMAIN h = 1..n
  BY LenProperties
<1>2. PICK d \in Ends : d = Min(Ends) /\ \A k \in Ends : d <= k
  <2>1. Ends \subseteq Nat /\ n \in Ends
    BY <1>1
  <2> HIDE DEF Ends
  <2>2. \E x \in Ends : \A y \in Ends : x <= y
    BY <2>1, LeastNumber
  <2> QED
    BY <2>2 DEF Min
<1>3. Kept(h, target) = SubSeq(h, d + 1, n)
  BY <1>1, <1>2 DEF Kept
<1>4. d \in 0..n /\ (n # 0 => d < n)
  <2>1. d \in 0..n
    BY <1>1
  <2>2. ASSUME n # 0, d = n PROVE FALSE
    <3>1. n - 1 \in 0..n /\ n - (n - 1) <= 2
      BY <1>1, <2>2
    <3>2. n - 1 \in Ends
      BY <1>1, <3>1
    <3>3. d <= n - 1
      BY <1>2, <3>2
    <3> QED
      BY <1>1, <2>2, <3>3
  <2> QED
    BY <1>1, <2>1, <2>2
<1> HIDE DEF Ends
<1> DEFINE m == n - d
<1>5. PICK u : u = SubSeq(h, d + 1, n)
  OBVIOUS
<1>6. /\ u \in Seq(S)
      /\ Len(u) = m
      /\ DOMAIN u = 1..m
      /\ \A i \in 1..m : u[i] = h[d + i] /\ d + i \in 1..n
  <2>1. d + 1 \in 1..n + 1 /\ n \in d..n /\ n <= Len(h)
    BY <1>1, <1>4
  <2>2. u \in Seq(S) /\ Len(u) = IF d + 1 <= n THEN n - (d + 1) + 1 ELSE 0
    BY <1>1, <1>5, <2>1, SubSeqProperties
  <2>3. Len(u) = m
    BY <1>1, <1>4, <2>2
  <2>4. DOMAIN u = 1..m
    BY <2>2, <2>3, LenProperties
  <2>5. ASSUME NEW i \in 1..m PROVE u[i] = h[d + i] /\ d + i \in 1..n
    <3>1. i \in 1..n - (d + 1) + 1 /\ (d + 1) + i - 1 = d + i /\ d + i \in 1..n
      BY <1>1, <1>4
    <3> QED
      BY <1>1, <1>5, <2>1, <3>1, SubSeqProperties
  <2> QED
    BY <2>2, <2>3, <2>4, <2>5
<1>7. InOrder(u)
  <2> SUFFICES ASSUME NEW i \in 1..m, NEW j \in 1..m, i < j
               PROVE  u[i].frameNumber <= u[j].frameNumber
    BY <1>6 DEF InOrder
  <2>1. d + i < d + j
    BY <1>4
  <2>2. h[d + i].frameNumber <= h[d + j].frameNumber
    BY <1>1, <1>6, <2>1 DEF InOrder
  <2> QED
    BY <1>6, <2>2
<1>8. ASSUME h # <<>> PROVE u # <<>> /\ Last(u) = Last(h)
  <2>1. n # 0
    BY <1>1, <1>8, EmptySeq
  <2>2. m \in 1..m /\ d + m = n
    BY <1>1, <1>4, <2>1
  <2>3. u # <<>>
    BY <1>6, <2>2, EmptySeq
  <2>4. u[m] = h[n]
    BY <1>6, <2>2
  <2> QED
    BY <1>1, <1>6, <2>3, <2>4 DEF Last
<1> QED
  BY <1>3, <1>5, <1>6, <1>7, <1>8

-----------------------------------------------------------------------------
(* The inductive invariant *)

\* The Join of e has been handled, or is lost and will never be.
Used(e) == sent_join[e] /\ e \notin joins

Message == [type : {"NewEntity", "SetControlledEntity"}, eid : Eid]

\* What is on its way to e.
Sent(e) == ToSet(channel[e])

\* e steers the ship, or has been told to.
IsGiven(e, eid) == my_entity[e] = eid \/ SetControlledEntity(eid) \in Sent(e)

\* What e can have been told of a ship.
Of(e, eid) == {s \in snapshots[e] : s.eid = eid}

\* No ship is left to a handle whose session is over.
Handles ==
  /\ SessionTypeOK
  /\ \A e, f \in Endpoint : IsOpen(e) /\ session[e] = session[f] => e = f
  /\ DOMAIN controlled_map = ToSet(entities)
  /\ \A eid \in ToSet(entities) : controlled_map[eid] \in OpenHandles \cup {NoClient}

\* A Join is handled once in the life of a client, and each takes the next id.
IdsAreCounted ==
  /\ entities \in Seq(Nat)
  /\ ToSet(entities) = 0..Len(entities) - 1
  /\ IsInjective(entities)
  /\ Len(entities) <= Cardinality({e \in Endpoint : Used(e)})
  /\ sent_join \in [Endpoint -> BOOLEAN]
  /\ joins \subseteq Endpoint
  /\ \A e \in joins : sent_join[e]

\* Messages are about ships there are.
Channels ==
  /\ channel \in [Endpoint -> Seq(Message)]
  /\ \A e \in Endpoint : \A m \in Sent(e) : m.eid \in ToSet(entities)

\* A ship is given once, to a client that has joined, and the server's map says
\* so until that client's session is over.
Controls ==
  /\ my_entity \in [Endpoint -> Eid]
  /\ joined \subseteq Endpoint
  /\ missed \subseteq Endpoint
  /\ \A e \in joined : IsOpen(e) \/ e \in missed
  /\ \A e \in Endpoint : my_entity[e] \in ToSet(entities) \cup {kInvalidEntity}
  /\ \A eid \in ToSet(entities) : \A e, f \in Endpoint :
       IsGiven(e, eid) /\ IsGiven(f, eid) => e = f
  /\ \A eid \in ToSet(entities) : \A e \in Endpoint :
       IsGiven(e, eid) =>
         e \in joined /\ (FirstSession(e) => controlled_map[eid] = session[e])

\* A client knows a ship or will be told, before it is told to steer it.
Fleet ==
  /\ DOMAIN known = Endpoint
  /\ \A e \in Endpoint :
       /\ known[e] \subseteq ToSet(entities)
       /\ my_entity[e] # kInvalidEntity => my_entity[e] \in known[e]
       /\ FirstSession(e) /\ e \in joined =>
            \A eid \in ToSet(entities) : eid \in known[e] \/ NewEntity(eid) \in Sent(e)
       /\ \A i \in DOMAIN channel[e] :
            channel[e][i].type = "SetControlledEntity" =>
              \/ channel[e][i].eid \in known[e]
              \/ \E j \in DOMAIN channel[e] :
                   j < i /\ channel[e][j] = NewEntity(channel[e][i].eid)

\* A snapshot of a later frame is of a later time.
Times ==
  /\ now \in 1..MaxTime
  /\ last_time \in 1..now
  /\ frame_counter \in 0..MaxFrames
  /\ DOMAIN snapshots = Endpoint
  /\ \A e \in Endpoint :
       /\ snapshots[e] \subseteq Snapshot
       /\ \A s \in snapshots[e] : s.frameNumber < frame_counter /\ s.timestamp <= last_time
       /\ \A s, t \in snapshots[e] :
            s.frameNumber <= t.frameNumber => s.timestamp <= t.timestamp

\* A history is in order, whatever the order its snapshots have come in.
Histories ==
  /\ DOMAIN snapshot_history = Endpoint
  /\ \A e \in Endpoint :
       /\ DOMAIN snapshot_history[e] = Eid
       /\ \A eid \in Eid :
            /\ snapshot_history[e][eid] \in Seq(Of(e, eid))
            /\ InOrder(snapshot_history[e][eid])

\* A ship is not drawn later than its newest snapshot has it.
Drawn ==
  /\ DOMAIN shown = Endpoint
  /\ predicted \in [Endpoint -> BOOLEAN]
  /\ \A e \in Endpoint :
       /\ shown[e] \in [Eid -> 0..now]
       /\ \A eid \in Eid : shown[e][eid] # 0 =>
            /\ snapshot_history[e][eid] # <<>>
            /\ shown[e][eid] <= Last(snapshot_history[e][eid]).timestamp

IInv ==
  /\ EnoughIds
  /\ Handles
  /\ IdsAreCounted
  /\ Channels
  /\ Controls
  /\ Fleet
  /\ Times
  /\ Histories
  /\ Drawn

-----------------------------------------------------------------------------
(* Ids *)

\* A counter that has not come round, and one that has once.
LEMMA Wraps ==
  ASSUME NEW n \in Nat \ {0}, NEW a \in Nat, a < n
  PROVE  a % n = a /\ (a + n) % n = a
<1>1. a % n = a
  OBVIOUS
<1>2. (a + n) % n = a
  OBVIOUS
<1> QED
  BY <1>1, <1>2

LEMMA EndpointsAreCounted ==
  ASSUME EnoughIds
  PROVE  /\ Cardinality(Endpoint) \in Nat
         /\ \A U \in SUBSET Endpoint :
              /\ IsFiniteSet(U) /\ Cardinality(U) \in Nat
              /\ Cardinality(U) <= Cardinality(Endpoint)
BY FS_CardinalityType, FS_Subset DEF EnoughIds

\* No id is kInvalidEntity, and while a Join is to be handled there is one more.
LEMMA IdsAreEnough ==
  ASSUME EnoughIds, IdsAreCounted
  PROVE  /\ Len(entities) \in Nat /\ Len(entities) <= kInvalidEntity
         /\ ToSet(entities) \subseteq Eid \ {kInvalidEntity}
         /\ \A e \in Endpoint : ~Used(e) => Len(entities) < kInvalidEntity
<1> DEFINE U == {e \in Endpoint : Used(e)}
<1>1. Len(entities) \in Nat /\ Len(entities) <= Cardinality(U)
  BY LenProperties DEF IdsAreCounted
<1>2. /\ IsFiniteSet(U) /\ Cardinality(U) \in Nat
      /\ Cardinality(U) <= Cardinality(Endpoint) /\ Cardinality(Endpoint) \in Nat
      /\ Cardinality(Endpoint) <= kInvalidEntity
  <2>1. U \in SUBSET Endpoint
    OBVIOUS
  <2> HIDE DEF U
  <2> QED
    BY <2>1, EndpointsAreCounted DEF EnoughIds
<1>3. Len(entities) <= kInvalidEntity
  <2> HIDE DEF U
  <2> QED
    BY <1>1, <1>2
<1>4. ToSet(entities) = 0..Len(entities) - 1
  BY DEF IdsAreCounted
<1>5. 0..Len(entities) - 1 \subseteq Eid \ {kInvalidEntity}
  BY <1>1, <1>3 DEF Eid
<1>6. ASSUME NEW e \in Endpoint, ~Used(e) PROVE Len(entities) < kInvalidEntity
  <2>1. e \notin U /\ U \in SUBSET Endpoint
    BY <1>6
  <2>2. Cardinality(U \cup {e}) = Cardinality(U) + 1 /\ U \cup {e} \in SUBSET Endpoint
    <3> HIDE DEF U
    <3> QED
      BY <1>2, <2>1, FS_AddElement, ZenonT(40)
  <2>3. Cardinality(U) + 1 <= Cardinality(Endpoint)
    <3> HIDE DEF U
    <3> QED
      BY <2>2, EndpointsAreCounted
  <2> HIDE DEF U
  <2> QED
    BY <1>1, <1>2, <2>3
<1> QED
  BY <1>1, <1>3, <1>4, <1>5, <1>6

\* While ids have come without a gap, the next is their number.
LEMMA NextIdIsTheCount ==
  ASSUME EnoughIds, IdsAreCounted
  PROVE  NextEntityId = Len(entities)
<1> DEFINE n == Len(entities)
           b == kInvalidEntity + 1
<1>1. n \in Nat /\ b \in Nat \ {0} /\ n < b
  BY IdsAreEnough
<1>2. n % b = n /\ b % b = 0
  <2> HIDE DEF n, b
  <2>1. n % b = n
    BY <1>1, Wraps
  <2>2. 0 \in Nat /\ 0 < b /\ 0 + b = b
    BY <1>1
  <2>3. (0 + b) % b = 0
    BY <1>1, <2>2, Wraps
  <2> QED
    BY <2>1, <2>2, <2>3
<1>3. CASE entities = <<>>
  <2>1. n = 0
    BY <1>3, SMTT(40)
  <2> QED
    BY <1>2, <1>3, <2>1 DEF NextEntityId
<1>4. CASE entities # <<>>
  <2>1. n # 0
    BY <1>4, EmptySeq DEF IdsAreCounted
  <2>2. n - 1 \in 0..n - 1 /\ \A y \in 0..n - 1 : n - 1 >= y
    BY <1>1, <2>1
  <2>3. \A x \in 0..n - 1 : (\A y \in 0..n - 1 : x >= y) => x = n - 1
    BY <1>1, <2>2
  <2>4. Max(0..n - 1) = n - 1
    BY <2>2, <2>3 DEF Max
  <2>5. NextEntityId = ((n - 1) + 1) % b
    <3>1. Max(ToSet(entities)) = n - 1
      BY <2>4 DEF IdsAreCounted
    <3> QED
      BY <1>4, <3>1 DEF NextEntityId
  <2>6. (n - 1) + 1 = n
    BY <1>1
  <2> QED
    BY <1>2, <2>5, <2>6
<1> QED
  BY <1>3, <1>4

-----------------------------------------------------------------------------
(* Messages *)

LEMMA MessagesAre ==
  /\ \A eid \in Eid :
       /\ NewEntity(eid) \in Message /\ SetControlledEntity(eid) \in Message
       /\ NewEntity(eid).type = "NewEntity" /\ NewEntity(eid).eid = eid
       /\ SetControlledEntity(eid).type = "SetControlledEntity"
       /\ SetControlledEntity(eid).eid = eid
       /\ \A x : NewEntity(eid) # SetControlledEntity(x)
  /\ \A m \in Message :
       /\ m.type = "NewEntity" => m = NewEntity(m.eid)
       /\ m.type = "SetControlledEntity" => m = SetControlledEntity(m.eid)
BY DEF NewEntity, SetControlledEntity, Message

\* Where the messages of a channel are when a batch has been put on it.
LEMMA BatchPutOn ==
  ASSUME NEW c \in Seq(Message), NEW batch \in Seq(Message), NEW all,
         all = c \o batch
  PROVE  /\ all \in Seq(Message)
         /\ Len(all) = Len(c) + Len(batch)
         /\ \A i \in 1..Len(c) : all[i] = c[i]
         /\ \A i \in 1..Len(batch) : all[Len(c) + i] = batch[i]
<1>1. all \in Seq(Message)
  BY ConcatProperties
<1>2. /\ Len(all) = Len(c) + Len(batch)
      /\ \A i \in 1..Len(c) : all[i] = c[i]
      /\ \A i \in 1..Len(batch) : all[Len(c) + i] = batch[i]
  BY ConcatIndices
<1> QED
  BY <1>1, <1>2

\* What the newcomer is sent, and where in its channel.
LEMMA WelcomeOfNewcomer ==
  ASSUME EnoughIds, IdsAreCounted, Channels, NEW e \in Endpoint, NEW eid \in Eid
  PROVE  LET n == Len(channel[e])
             k == Len(entities)
             t == Welcome(e, eid)[e]
         IN /\ n \in Nat /\ k \in Nat
            /\ t \in Seq(Message) /\ DOMAIN t = 1..n + k + 2
            /\ DOMAIN channel[e] = 1..n /\ DOMAIN entities = 1..k
            /\ \A i \in 1..n : t[i] = channel[e][i]
            /\ \A i \in 1..k : t[n + i] = NewEntity(entities[i])
            /\ t[n + k + 1] = NewEntity(eid)
            /\ t[n + k + 2] = SetControlledEntity(eid)
<1> DEFINE there == [i \in DOMAIN entities |-> NewEntity(entities[i])]
           last == <<NewEntity(eid), SetControlledEntity(eid)>>
<1>1. PICK n \in Nat : n = Len(channel[e]) /\ DOMAIN channel[e] = 1..n
  BY LenProperties DEF Channels
<1>2. PICK k \in Nat : k = Len(entities) /\ DOMAIN entities = 1..k
  BY LenProperties DEF IdsAreCounted
<1>3. channel[e] \in Seq(Message)
  BY DEF Channels
<1>4. \A i \in DOMAIN entities : entities[i] \in Eid
  <2>1. \A i \in DOMAIN entities : entities[i] \in ToSet(entities)
    BY DEF ToSet
  <2> QED
    BY <2>1, IdsAreEnough
<1>5. there \in Seq(Message) /\ Len(there) = k
  <2>1. there \in [1..k -> Message]
    BY <1>2, <1>4, MessagesAre
  <2>2. there \in Seq(Message)
    BY <2>1, SeqDef
  <2>3. DOMAIN there = 1..k
    BY <1>2
  <2> HIDE DEF there
  <2> QED
    BY <2>2, <2>3, LenProperties
<1>6. \A i \in 1..k : there[i] = NewEntity(entities[i])
  BY <1>2
<1>7. /\ last \in Seq(Message) /\ Len(last) = 2
      /\ last[1] = NewEntity(eid) /\ last[2] = SetControlledEntity(eid)
  <2>1. last \in [1..2 -> Message]
    BY MessagesAre
  <2>2. last \in Seq(Message)
    BY <2>1, SeqDef
  <2> QED
    BY <2>2
<1>8. Welcome(e, eid)[e] = (channel[e] \o there) \o last
  BY DEF Welcome, there, last
<1> HIDE DEF there, last
<1>9. PICK front : front = channel[e] \o there
  OBVIOUS
<1>10. /\ front \in Seq(Message)
       /\ Len(front) = n + k
       /\ \A i \in 1..n : front[i] = channel[e][i]
       /\ \A i \in 1..k : front[n + i] = there[i]
  <2>1. front \in Seq(Message)
    BY <1>3, <1>5, <1>9, BatchPutOn
  <2>2. Len(front) = Len(channel[e]) + Len(there)
    BY <1>3, <1>5, <1>9, BatchPutOn
  <2>3. \A i \in 1..Len(channel[e]) : front[i] = channel[e][i]
    BY <1>3, <1>5, <1>9, BatchPutOn
  <2>4. \A i \in 1..Len(there) : front[Len(channel[e]) + i] = there[i]
    BY <1>3, <1>5, <1>9, BatchPutOn
  <2> QED
    BY <1>1, <1>5, <2>1, <2>2, <2>3, <2>4
<1>11. PICK t : t = front \o last
  OBVIOUS
<1>12. /\ t \in Seq(Message)
       /\ Len(t) = (n + k) + 2
       /\ \A i \in 1..n + k : t[i] = front[i]
       /\ \A i \in 1..2 : t[(n + k) + i] = last[i]
  <2>0. front \in Seq(Message) /\ last \in Seq(Message)
    BY <1>7, <1>10
  <2>1. t \in Seq(Message)
    BY <2>0, <1>11, BatchPutOn
  <2>2. Len(t) = Len(front) + Len(last)
    BY <2>0, <1>11, BatchPutOn
  <2>3. \A i \in 1..Len(front) : t[i] = front[i]
    BY <2>0, <1>11, BatchPutOn
  <2>4. \A i \in 1..Len(last) : t[Len(front) + i] = last[i]
    BY <2>0, <1>11, BatchPutOn
  <2> QED
    BY <1>7, <1>10, <2>1, <2>2, <2>3, <2>4
<1>13. DOMAIN t = 1..n + k + 2
  <2>1. DOMAIN t = 1..Len(t)
    BY <1>12, LenProperties
  <2> QED
    BY <1>1, <1>2, <1>12, <2>1
<1>14. \A i \in 1..n : t[i] = channel[e][i]
  <2>1. \A i \in 1..n : i \in 1..n + k
    BY <1>1, <1>2
  <2> QED
    BY <1>10, <1>12, <2>1
<1>15. \A i \in 1..k : t[n + i] = NewEntity(entities[i])
  <2>1. \A i \in 1..k : n + i \in 1..n + k
    BY <1>1, <1>2
  <2> QED
    BY <1>6, <1>10, <1>12, <2>1
<1>16. t[n + k + 1] = NewEntity(eid) /\ t[n + k + 2] = SetControlledEntity(eid)
  <2>1. 1 \in 1..2 /\ 2 \in 1..2 /\ (n + k) + 1 = n + k + 1 /\ (n + k) + 2 = n + k + 2
    BY <1>1, <1>2
  <2> QED
    BY <1>7, <1>12, <2>1
<1>17. Welcome(e, eid)[e] = t
  BY <1>8, <1>9, <1>11
<1> QED
  BY <1>1, <1>2, <1>12, <1>13, <1>14, <1>15, <1>16, <1>17

\* The same as sets: nothing is taken from a channel, the newcomer is told of
\* every ship and given the new one, everybody else with a session of that one.
LEMMA WelcomesAreTrue ==
  ASSUME EnoughIds, IdsAreCounted, Channels, NEW e \in Endpoint, NEW eid \in Eid,
         NEW f \in Endpoint
  PROVE  /\ Welcome(e, eid)[f] \in Seq(Message)
         /\ ToSet(channel[f]) \subseteq ToSet(Welcome(e, eid)[f])
         /\ f = e \/ IsOpen(f) => NewEntity(eid) \in ToSet(Welcome(e, eid)[f])
         /\ f = e => \A x \in ToSet(entities) : NewEntity(x) \in ToSet(Welcome(e, eid)[f])
         /\ \A m \in ToSet(Welcome(e, eid)[f]) :
              \/ m \in ToSet(channel[f])
              \/ \E x \in ToSet(entities) \cup {eid} : m = NewEntity(x)
              \/ f = e /\ m = SetControlledEntity(eid)
<1>1. CASE f = e
  <2> DEFINE n == Len(channel[e])
             k == Len(entities)
             t == Welcome(e, eid)[e]
  <2>1. /\ n \in Nat /\ k \in Nat
        /\ t \in Seq(Message) /\ DOMAIN t = 1..n + k + 2
        /\ DOMAIN channel[e] = 1..n /\ DOMAIN entities = 1..k
        /\ \A i \in 1..n : t[i] = channel[e][i]
        /\ \A i \in 1..k : t[n + i] = NewEntity(entities[i])
        /\ t[n + k + 1] = NewEntity(eid)
        /\ t[n + k + 2] = SetControlledEntity(eid)
    BY WelcomeOfNewcomer
  <2>0. t = Welcome(e, eid)[e]
    OBVIOUS
  <2> HIDE DEF n, k, t
  <2>2. \A i \in 1..n : i \in 1..n + k + 2
    BY <2>1
  <2>3. ToSet(channel[e]) \subseteq ToSet(t)
    BY <2>1, <2>2 DEF ToSet
  <2>4. n + k + 1 \in 1..n + k + 2 /\ n + k + 2 \in 1..n + k + 2
    BY <2>1
  <2>5. NewEntity(eid) \in ToSet(t)
    BY <2>1, <2>4 DEF ToSet
  <2>6. ASSUME NEW x \in ToSet(entities) PROVE NewEntity(x) \in ToSet(t)
    <3>1. PICK i \in 1..k : x = entities[i]
      BY <2>1 DEF ToSet
    <3>2. n + i \in 1..n + k + 2
      BY <2>1
    <3> QED
      BY <2>1, <3>1, <3>2 DEF ToSet
  <2>7. ASSUME NEW m \in ToSet(t)
        PROVE  \/ m \in ToSet(channel[e])
               \/ \E x \in ToSet(entities) \cup {eid} : m = NewEntity(x)
               \/ m = SetControlledEntity(eid)
    <3>1. PICK i \in 1..n + k + 2 : m = t[i]
      BY <2>1 DEF ToSet
    <3>2. CASE i \in 1..n
      BY <2>1, <3>1, <3>2 DEF ToSet
    <3>3. CASE i \in n + 1..n + k
      <4>1. i - n \in 1..k /\ n + (i - n) = i
        BY <2>1, <3>3
      <4>2. m = NewEntity(entities[i - n])
        BY <2>1, <3>1, <4>1
      <4>3. entities[i - n] \in ToSet(entities)
        BY <2>1, <4>1 DEF ToSet
      <4> QED
        BY <4>2, <4>3
    <3>4. CASE i = n + k + 1
      BY <2>1, <3>1, <3>4
    <3>5. CASE i = n + k + 2
      BY <2>1, <3>1, <3>5
    <3> QED
      BY <2>1, <3>2, <3>3, <3>4, <3>5
  <2> QED
    BY <1>1, <2>0, <2>1, <2>3, <2>5, <2>6, <2>7
<1>2. CASE f # e /\ IsOpen(f)
  <2>1. Welcome(e, eid)[f] = Append(channel[f], NewEntity(eid))
    BY <1>2 DEF Welcome
  <2>2. channel[f] \in Seq(Message) /\ NewEntity(eid) \in Message
    BY MessagesAre DEF Channels
  <2>3. /\ Append(channel[f], NewEntity(eid)) \in Seq(Message)
        /\ ToSet(Append(channel[f], NewEntity(eid)))
             = ToSet(channel[f]) \cup {NewEntity(eid)}
    BY <2>2, AppendedElements, AppendProperties
  <2> QED
    BY <1>2, <2>1, <2>3
<1>3. CASE f # e /\ ~IsOpen(f)
  <2>1. Welcome(e, eid)[f] = channel[f] /\ channel[f] \in Seq(Message)
    BY <1>3 DEF Welcome, Channels
  <2> QED
    BY <1>3, <2>1
<1> QED
  BY <1>1, <1>2, <1>3

-----------------------------------------------------------------------------
(* What the invariant says *)

\* Where a ship is drawn is not before the moment aimed at, or is where its
\* newest snapshot has it; and never later than that.
LEMMA InterpolatedIsBetween ==
  ASSUME NEW S \in SUBSET Snapshot, NEW h \in Seq(S), h # <<>>, InOrder(h),
         \A s, t \in S : s.frameNumber <= t.frameNumber => s.timestamp <= t.timestamp,
         NEW target \in Int
  PROVE  /\ Last(h) \in S
         /\ Interpolated(h, target) \in Nat
         /\ Interpolated(h, target) <= Last(h).timestamp
         /\ \/ target <= Interpolated(h, target)
            \/ Interpolated(h, target) = Last(h).timestamp
<1>1. PICK n \in Nat \ {0} : n = Len(h) /\ DOMAIN h = 1..n
  BY EmptySeq, LenProperties
<1>2. 1 \in 1..n /\ n \in 1..n /\ Last(h) = h[n]
  BY <1>1 DEF Last
<1>3. h[1] \in S /\ h[n] \in S
  BY <1>1, <1>2, ElementOfSeq
<1>4. h[1].frameNumber <= h[n].frameNumber
  <2>1. CASE n = 1
    <3>1. h[1].frameNumber \in Nat
      BY <1>3 DEF Snapshot
    <3> QED
      BY <2>1, <3>1
  <2>2. CASE 1 < n
    BY <1>1, <1>2, <2>2 DEF InOrder
  <2> QED
    BY <1>1, <2>1, <2>2
<1>5. h[1].timestamp <= h[n].timestamp
  BY <1>3, <1>4
<1>6. PICK first, newest \in Nat : first = h[1].timestamp /\ newest = h[n].timestamp
  BY <1>3 DEF Snapshot
<1>7. Interpolated(h, target) = IF n < 2 \/ target <= first THEN first
                                ELSE IF newest <= target THEN newest
                                ELSE target
  BY <1>1, <1>2, <1>6 DEF Interpolated
<1>8. first <= newest /\ (n < 2 => first = newest)
  BY <1>1, <1>5, <1>6
<1>9. PICK x : x = Interpolated(h, target)
  OBVIOUS
<1>10. x \in Nat /\ x <= newest /\ (target <= x \/ x = newest)
  <2>1. CASE n < 2 \/ target <= first
    BY <1>6, <1>7, <1>8, <1>9, <2>1
  <2>2. CASE ~(n < 2 \/ target <= first)
    <3>1. first < target
      BY <1>6, <2>2
    <3>2. x = IF newest <= target THEN newest ELSE target
      BY <1>7, <1>9, <2>2
    <3> QED
      BY <1>6, <3>1, <3>2
  <2> QED
    BY <2>1, <2>2
<1> QED
  BY <1>2, <1>3, <1>6, <1>9, <1>10

\* The properties of the runs follow.
LEMMA InvariantSaysAll ==
  ASSUME IInv
  PROVE  TypeOK /\ FleetIsAgreed
<1>1. /\ Len(entities) \in Nat /\ Len(entities) <= kInvalidEntity
      /\ ToSet(entities) \subseteq Eid \ {kInvalidEntity}
  BY IdsAreEnough DEF IInv
<1>2. entities \in Seq(Eid \ {kInvalidEntity})
  <2>1. entities \in Seq(Nat)
    BY DEF IInv, IdsAreCounted
  <2>2. PICK n \in Nat : entities \in [1..n -> Nat]
    BY <2>1, SeqDef
  <2>3. \A i \in 1..n : entities[i] \in ToSet(entities)
    BY <2>2 DEF ToSet
  <2>4. entities \in [1..n -> Eid \ {kInvalidEntity}]
    BY <1>1, <2>2, <2>3
  <2> QED
    BY <2>4, SeqDef
<1>3. \A e \in Endpoint : \A eid \in Eid : \A s \in ToSet(snapshot_history[e][eid]) :
        s \in snapshots[e] /\ s.eid = eid
  <2> SUFFICES ASSUME NEW e \in Endpoint, NEW eid \in Eid,
                      NEW s \in ToSet(snapshot_history[e][eid])
               PROVE  s \in Of(e, eid)
    BY DEF Of
  <2>1. snapshot_history[e][eid] \in Seq(Of(e, eid))
    BY DEF IInv, Histories
  <2>2. PICK h \in Seq(Of(e, eid)) : h = snapshot_history[e][eid]
    BY <2>1
  <2>3. PICK i \in DOMAIN h : s = h[i]
    BY <2>2 DEF ToSet
  <2>4. i \in 1..Len(h)
    BY LenProperties
  <2> QED
    BY <2>3, <2>4, ElementOfSeq
<1>4. TypeOK
  <2>1. SessionTypeOK /\ DOMAIN controlled_map = ToSet(entities)
    BY DEF IInv, Handles
  <2>2. \A eid \in ToSet(entities) : controlled_map[eid] \in Pointer \cup {NoClient}
    BY DEF IInv, Handles, SessionTypeOK, OpenHandles
  <2>3. /\ now \in 1..MaxTime /\ last_time \in 1..now /\ frame_counter \in 0..MaxFrames
        /\ \A e \in Endpoint : snapshots[e] \subseteq Snapshot
    BY DEF IInv, Times
  <2>4. joins \subseteq Endpoint /\ sent_join \in [Endpoint -> BOOLEAN]
    BY DEF IInv, IdsAreCounted
  <2>5. /\ \A e \in Endpoint : my_entity[e] \in ToSet(entities) \cup {kInvalidEntity}
        /\ joined \subseteq Endpoint /\ missed \subseteq Endpoint
    BY DEF IInv, Controls
  <2>6. \A e \in Endpoint : known[e] \subseteq ToSet(entities)
    BY DEF IInv, Fleet
  <2>7. predicted \in [Endpoint -> BOOLEAN] /\ \A e \in Endpoint : shown[e] \in [Eid -> 0..now]
    BY DEF IInv, Drawn
  <2> QED
    BY <1>2, <1>3, <2>1, <2>2, <2>3, <2>4, <2>5, <2>6, <2>7, Zenon DEF TypeOK
<1>5. ShipsAreDistinct
  <2>1. IsInjective(entities)
    BY DEF IInv, IdsAreCounted
  <2>2. \A e \in Endpoint : my_entity[e] # kInvalidEntity =>
          my_entity[e] \in ToSet(entities) /\ IsGiven(e, my_entity[e])
    BY DEF IInv, Controls, IsGiven
  <2>3. ASSUME NEW e \in Endpoint, NEW f \in Endpoint, e # f, my_entity[e] = my_entity[f]
        PROVE  my_entity[e] = kInvalidEntity
    BY <2>2, <2>3 DEF IInv, Controls
  <2>4. \A eid \in DOMAIN controlled_map :
          controlled_map[eid] \in OpenHandles \cup {NoClient}
    BY DEF IInv, Handles
  <2>5. \A e \in Endpoint : FirstSession(e) /\ my_entity[e] # kInvalidEntity =>
          controlled_map[my_entity[e]] = session[e]
    BY <2>2 DEF IInv, Controls
  <2> QED
    BY <2>1, <2>3, <2>4, <2>5 DEF ShipsAreDistinct
<1>6. FleetIsKnown
  <2> SUFFICES ASSUME NEW e \in Endpoint
               PROVE  /\ FirstSession(e) /\ e \in joined =>
                           ToSet(entities) = known[e] \cup
                             {m.eid : m \in {x \in ToSet(channel[e]) : x.type = "NewEntity"}}
                      /\ my_entity[e] # kInvalidEntity => my_entity[e] \in known[e]
    BY DEF FleetIsKnown
  <2>1. known[e] \subseteq ToSet(entities)
    BY DEF IInv, Fleet
  <2>2. \A m \in Sent(e) : m.eid \in ToSet(entities)
    BY DEF IInv, Channels
  <2>3. ASSUME FirstSession(e), e \in joined, NEW eid \in ToSet(entities),
               eid \notin known[e]
        PROVE  \E m \in Sent(e) : m.type = "NewEntity" /\ m.eid = eid
    <3>1. NewEntity(eid) \in Sent(e)
      BY <2>3 DEF IInv, Fleet
    <3>2. eid \in Eid
      BY <1>1
    <3> QED
      BY <3>1, <3>2, MessagesAre
  <2>4. my_entity[e] # kInvalidEntity => my_entity[e] \in known[e]
    BY DEF IInv, Fleet
  <2> QED
    BY <2>1, <2>2, <2>3, <2>4 DEF Sent
<1> QED
  BY <1>4, <1>5, <1>6 DEF FleetIsAgreed

LEMMA InitIInv == EnoughIds /\ Init => IInv
<1> SUFFICES ASSUME EnoughIds, Init PROVE IInv
  OBVIOUS
<1>1. /\ entities = <<>> /\ entities \in Seq(Nat) /\ Len(entities) = 0
      /\ ToSet(entities) = {} /\ IsInjective(entities)
  BY EmptySeq, NoElements DEF Init
<1>2. \A e \in Endpoint : channel[e] = <<>> /\ DOMAIN channel[e] = {} /\ Sent(e) = {}
  BY NoElements DEF Init, Sent
<1>3. Handles
  <2>1. SessionTypeOK /\ \A e \in Endpoint : ~IsOpen(e)
    BY DEF Init, SessionInit, SessionTypeOK, IsOpen
  <2>2. DOMAIN controlled_map = ToSet(entities)
    BY <1>1, NoElements DEF Init
  <2> QED
    BY <1>1, <2>1, <2>2 DEF Handles
<1>4. IdsAreCounted
  <2>1. Cardinality({e \in Endpoint : Used(e)}) \in Nat
    BY EndpointsAreCounted
  <2>2. 0 <= Cardinality({e \in Endpoint : Used(e)}) /\ 0..0 - 1 = {}
    BY <2>1
  <2> QED
    BY <1>1, <2>2 DEF Init, IdsAreCounted
<1>5. Channels
  <2>1. \A e \in Endpoint : channel[e] \in Seq(Message)
    BY <1>2, EmptySeq
  <2> QED
    BY <1>2, <2>1 DEF Init, Channels
<1>6. Controls
  BY <1>1 DEF Init, Controls, Eid
<1>7. Fleet
  BY <1>1, <1>2 DEF Init, Fleet
<1>8. Times
  BY DEF Init, Times
<1>9. Histories
  <2>1. /\ DOMAIN snapshot_history = Endpoint
        /\ \A e \in Endpoint : /\ DOMAIN snapshot_history[e] = Eid
                               /\ \A eid \in Eid : snapshot_history[e][eid] = <<>>
    BY DEF Init
  <2>2. \A e \in Endpoint : \A eid \in Eid : <<>> \in Seq(Of(e, eid))
    BY EmptySeq
  <2>3. InOrder(<<>>)
    BY NoElements DEF InOrder
  <2> QED
    BY <2>1, <2>2, <2>3 DEF Histories
<1>10. Drawn
  BY DEF Init, Drawn
<1> QED
  BY <1>3, <1>4, <1>5, <1>6, <1>7, <1>8, <1>9, <1>10 DEF IInv

-----------------------------------------------------------------------------
(* Steps of the server *)

\* Most steps bring no ship.
LEMMA NoShipComes ==
  ASSUME IInv, UNCHANGED entities,
         sent_join' \in [Endpoint -> BOOLEAN], joins' \subseteq Endpoint,
         \A e \in joins' : sent_join'[e],
         \A e \in Endpoint : Used(e) => Used(e)'
  PROVE  IdsAreCounted'
<1> DEFINE U == {e \in Endpoint : Used(e)}
           V == {e \in Endpoint : Used(e)'}
<1>1. U \in SUBSET V /\ V \in SUBSET Endpoint
  OBVIOUS
<1>2. IsFiniteSet(V) /\ Cardinality(V) \in Nat
  BY <1>1, EndpointsAreCounted DEF IInv
<1>3. Cardinality(U) \in Nat /\ Cardinality(U) <= Cardinality(V)
  <2> HIDE DEF U, V
  <2> QED
    BY <1>1, <1>2, FS_Subset, FS_CardinalityType
<1>4. Len(entities) <= Cardinality(U) /\ Len(entities) \in Nat
  BY IdsAreEnough DEF IInv, IdsAreCounted
<1>5. Len(entities) <= Cardinality(V)
  <2> HIDE DEF U, V
  <2> QED
    BY <1>2, <1>3, <1>4
<1> QED
  BY <1>5 DEF IInv, IdsAreCounted

\* Times, histories and what is drawn are the world's and the clients' alone.
LEMMA NothingIsSeen ==
  ASSUME IInv, UNCHANGED <<now, frame_counter, last_time, snapshots, picture>>
  PROVE  Times' /\ Histories' /\ Drawn'
<1>1. UNCHANGED <<snapshot_history, shown, predicted>>
  BY DEF picture
<1>2. Times'
  BY DEF IInv, Times
<1>3. Histories'
  BY <1>1 DEF IInv, Histories, Of
<1>4. Drawn'
  BY <1>1 DEF IInv, Drawn
<1> QED
  BY <1>2, <1>3, <1>4

\* A session that begins is of a client that has not joined yet or has lost one.
LEMMA OnConnectedStep ==
  ASSUME IInv, NEW e \in Endpoint, NEW p \in Pointer, OnConnected(e, p)
  PROVE  IInv'
<1>1. /\ session[e] = NoClient /\ p \notin OpenHandles
      /\ session' = [session EXCEPT ![e] = p]
      /\ UNCHANGED <<now, entities, controlled_map, frame_counter, last_time,
                     channel, joins, snapshots, sent_join, known, my_entity,
                     picture, joined, missed>>
  BY DEF OnConnected, OpenSession, IsOpen, server, network, client
<1>2. /\ session'[e] = p /\ \A f \in Endpoint \ {e} : session'[f] = session[f]
      /\ SessionTypeOK' /\ OpenHandles \subseteq OpenHandles'
  BY <1>1 DEF IInv, Handles, SessionTypeOK, OpenHandles
<1>3. Handles'
  <2>1. \A f, g \in Endpoint : IsOpen(f)' /\ session'[f] = session'[g] => f = g
    <3>1. \A f \in Endpoint : IsOpen(f) => session[f] # p
      BY <1>1 DEF OpenHandles, IsOpen
    <3> QED
      BY <1>2, <3>1 DEF IInv, Handles, IsOpen
  <2> QED
    BY <1>1, <1>2, <2>1 DEF IInv, Handles
<1>4. IdsAreCounted'
  BY <1>1, NoShipComes DEF IInv, IdsAreCounted, Used
<1>5. Channels'
  BY <1>1 DEF IInv, Channels, Sent
<1>6. e \in joined => e \in missed
  BY <1>1 DEF IInv, Controls, IsOpen
<1>7. \A f \in joined : FirstSession(f)' => f # e /\ FirstSession(f)
  BY <1>1, <1>2, <1>6 DEF IInv, Controls, FirstSession, IsOpen
<1>8. Controls'
  <2>1. \A f \in joined : IsOpen(f)' \/ f \in missed
    BY <1>2, <1>6 DEF IInv, Controls, IsOpen
  <2>2. \A f, eid : IsGiven(f, eid)' <=> IsGiven(f, eid)
    BY <1>1 DEF IsGiven, Sent
  <2>3. ASSUME NEW eid \in ToSet(entities), NEW f \in Endpoint, IsGiven(f, eid)
        PROVE  f \in joined /\ (FirstSession(f)' => controlled_map[eid] = session'[f])
    BY <1>2, <1>7, <2>3 DEF IInv, Controls
  <2> QED
    BY <1>1, <2>1, <2>2, <2>3 DEF IInv, Controls
<1>9. Fleet'
  BY <1>1, <1>7 DEF IInv, Fleet, Sent
<1>10. Times' /\ Histories' /\ Drawn'
  BY <1>1, NothingIsSeen
<1> QED
  BY <1>3, <1>4, <1>5, <1>8, <1>9, <1>10 DEF IInv

\* The ships of a client that leaves are nobody's, those of the others stay
\* theirs: no two sessions share a handle.
LEMMA OnDisconnectedStep ==
  ASSUME IInv, NEW e \in Endpoint, OnDisconnected(e)
  PROVE  IInv'
<1>1. /\ session[e] # NoClient
      /\ session' = [session EXCEPT ![e] = NoClient]
      /\ controlled_map' = [eid \in DOMAIN controlled_map |->
                              IF controlled_map[eid] = session[e] THEN NoClient
                              ELSE controlled_map[eid]]
      /\ channel' = [channel EXCEPT ![e] = <<>>]
      /\ joins' = joins \ {e}
      /\ missed' = missed \cup {e}
      /\ UNCHANGED <<now, entities, frame_counter, last_time, snapshots,
                     sent_join, known, my_entity, picture, joined>>
  BY DEF OnDisconnected, CloseSession, IsOpen, client
<1>2. /\ session'[e] = NoClient /\ \A f \in Endpoint \ {e} : session'[f] = session[f]
      /\ SessionTypeOK' /\ OpenHandles \ {session[e]} \subseteq OpenHandles'
  BY <1>1 DEF IInv, Handles, SessionTypeOK, OpenHandles
<1>3. \A eid \in ToSet(entities) :
        controlled_map'[eid] = IF controlled_map[eid] = session[e] THEN NoClient
                               ELSE controlled_map[eid]
  BY <1>1 DEF IInv, Handles
<1>4. Handles'
  <2>1. DOMAIN controlled_map' = ToSet(entities)'
    BY <1>1 DEF IInv, Handles
  <2>2. ASSUME NEW eid \in ToSet(entities)
        PROVE  controlled_map'[eid] \in OpenHandles' \cup {NoClient}
    <3>1. controlled_map[eid] \in OpenHandles \cup {NoClient}
      BY DEF IInv, Handles
    <3> QED
      BY <1>2, <1>3, <3>1
  <2>3. \A f, g \in Endpoint : IsOpen(f)' /\ session'[f] = session'[g] => f = g
    BY <1>2 DEF IInv, Handles, IsOpen
  <2> QED
    BY <1>1, <1>2, <2>1, <2>2, <2>3 DEF Handles
<1>5. IdsAreCounted'
  BY <1>1, NoShipComes DEF IInv, IdsAreCounted, Used
<1>6. /\ DOMAIN channel' = Endpoint
      /\ channel'[e] = <<>> /\ Sent(e)' = {} /\ DOMAIN channel'[e] = {}
      /\ \A f \in Endpoint \ {e} : channel'[f] = channel[f] /\ Sent(f)' = Sent(f)
  BY <1>1, NoElements DEF IInv, Channels, Sent
<1>7. Channels'
  <2>1. channel' \in [Endpoint -> Seq(Message)]
    BY <1>1, EmptySeq DEF IInv, Channels
  <2> QED
    BY <1>1, <1>6, <2>1 DEF IInv, Channels
<1>8. \A f \in Endpoint : FirstSession(f)' => f # e /\ FirstSession(f)
  BY <1>1, <1>2 DEF FirstSession, IsOpen
<1>9. Controls'
  <2>1. \A f \in joined' : IsOpen(f)' \/ f \in missed'
    BY <1>1, <1>2 DEF IInv, Controls, IsOpen
  <2>2. \A f \in Endpoint : \A eid : IsGiven(f, eid)' => IsGiven(f, eid)
    BY <1>1, <1>6 DEF IsGiven
  <2>3. ASSUME NEW eid \in ToSet(entities), NEW f \in Endpoint, IsGiven(f, eid)'
        PROVE  f \in joined /\ (FirstSession(f)' => controlled_map'[eid] = session'[f])
    <3>1. f \in joined /\ (FirstSession(f) => controlled_map[eid] = session[f])
      BY <2>2, <2>3 DEF IInv, Controls
    <3>2. FirstSession(f)' => session[f] # session[e] /\ session'[f] = session[f]
      BY <1>2, <1>8 DEF IInv, Handles, FirstSession
    <3> QED
      BY <1>3, <1>8, <3>1, <3>2
  <2> QED
    BY <1>1, <2>1, <2>2, <2>3 DEF IInv, Controls
<1>10. Fleet'
  BY <1>1, <1>6, <1>8 DEF IInv, Fleet
<1>11. Times' /\ Histories' /\ Drawn'
  BY <1>1, NothingIsSeen
<1> QED
  BY <1>4, <1>5, <1>7, <1>9, <1>10, <1>11 DEF IInv

\* On every channel a ship is announced before it is given.
LEMMA AnnouncedFirst ==
  ASSUME EnoughIds, IdsAreCounted, Channels, Fleet, NEW e \in Endpoint, NEW eid \in Eid,
         NEW f \in Endpoint, NEW i \in DOMAIN Welcome(e, eid)[f],
         Welcome(e, eid)[f][i].type = "SetControlledEntity"
  PROVE  \/ Welcome(e, eid)[f][i].eid \in known[f]
         \/ \E j \in DOMAIN Welcome(e, eid)[f] :
              j < i /\ Welcome(e, eid)[f][j] = NewEntity(Welcome(e, eid)[f][i].eid)
<1>1. \A k \in DOMAIN channel[f] :
        channel[f][k].type = "SetControlledEntity" =>
          \/ channel[f][k].eid \in known[f]
          \/ \E j \in DOMAIN channel[f] :
               j < k /\ channel[f][j] = NewEntity(channel[f][k].eid)
  BY DEF Fleet
<1>2. channel[f] \in Seq(Message) /\ NewEntity(eid) \in Message
  BY MessagesAre DEF Channels
<1>3. CASE f = e
  <2> DEFINE n == Len(channel[e])
             k == Len(entities)
             t == Welcome(e, eid)[e]
  <2>1. /\ n \in Nat /\ k \in Nat
        /\ t \in Seq(Message) /\ DOMAIN t = 1..n + k + 2
        /\ DOMAIN channel[e] = 1..n /\ DOMAIN entities = 1..k
        /\ \A j \in 1..n : t[j] = channel[e][j]
        /\ \A j \in 1..k : t[n + j] = NewEntity(entities[j])
        /\ t[n + k + 1] = NewEntity(eid)
        /\ t[n + k + 2] = SetControlledEntity(eid)
    BY WelcomeOfNewcomer
  <2>2. t = Welcome(e, eid)[f] /\ i \in DOMAIN t
    BY <1>3
  <2> HIDE DEF n, k, t
  <2>3. CASE i \in 1..n
    <3>1. t[i] = channel[e][i] /\ i \in DOMAIN channel[e]
      BY <2>1, <2>3
    <3>2. \/ t[i].eid \in known[f]
          \/ \E j \in DOMAIN channel[e] : j < i /\ channel[e][j] = NewEntity(t[i].eid)
      BY <1>1, <1>3, <2>2, <3>1
    <3>3. \A j \in DOMAIN channel[e] : j \in DOMAIN t /\ t[j] = channel[e][j]
      BY <2>1
    <3> QED
      BY <2>2, <3>2, <3>3
  <2>4. CASE i \in n + 1..n + k
    <3>1. i - n \in 1..k /\ n + (i - n) = i
      BY <2>1, <2>4
    <3>2. t[i] = NewEntity(entities[i - n])
      BY <2>1, <3>1
    <3> QED
      BY <2>2, <3>2 DEF NewEntity
  <2>5. CASE i = n + k + 1
    BY <2>1, <2>2, <2>5 DEF NewEntity
  <2>6. CASE i = n + k + 2
    <3>1. n + k + 1 \in 1..n + k + 2 /\ n + k + 1 < i
      BY <2>1, <2>6
    <3>2. t[i].eid = eid
      BY <2>1, <2>6, MessagesAre
    <3> QED
      BY <2>1, <2>2, <3>1, <3>2
  <2> QED
    BY <2>1, <2>2, <2>3, <2>4, <2>5, <2>6
<1>4. CASE f # e /\ IsOpen(f)
  <2>1. PICK n \in Nat : n = Len(channel[f]) /\ DOMAIN channel[f] = 1..n
    BY <1>2, LenProperties
  <2>2. PICK t : t = Append(channel[f], NewEntity(eid))
    OBVIOUS
  <2>3. /\ DOMAIN t = 1..n + 1
        /\ t[n + 1] = NewEntity(eid)
        /\ \A j \in 1..n : t[j] = channel[f][j]
    <3>1. t \in Seq(Message) /\ Len(t) = n + 1
      BY <1>2, <2>1, <2>2, AppendProperties
    <3>2. DOMAIN t = 1..n + 1
      BY <3>1, LenProperties
    <3>3. t[n + 1] = NewEntity(eid) /\ \A j \in 1..n : t[j] = channel[f][j]
      BY <1>2, <2>1, <2>2, AppendProperties
    <3> QED
      BY <3>2, <3>3
  <2>4. t = Welcome(e, eid)[f]
    BY <1>4, <2>2 DEF Welcome
  <2>5. CASE i \in 1..n
    <3>1. t[i] = channel[f][i] /\ \A j \in 1..n : j \in 1..n + 1
      BY <2>1, <2>3, <2>5
    <3> QED
      BY <1>1, <2>1, <2>3, <2>4, <2>5, <3>1
  <2>6. CASE i = n + 1
    BY <2>3, <2>4, <2>6 DEF NewEntity
  <2> QED
    BY <2>1, <2>3, <2>4, <2>5, <2>6
<1>5. CASE f # e /\ ~IsOpen(f)
  <2>1. Welcome(e, eid)[f] = channel[f]
    BY <1>5 DEF Welcome
  <2> QED
    BY <1>1, <2>1
<1> QED
  BY <1>3, <1>4, <1>5

\* A Join is the client's only one: there is an id left for its ship, which
\* nobody has been given.
LEMMA OnJoinStep ==
  ASSUME IInv, NEW e \in Endpoint, OnJoin(e)
  PROVE  IInv'
<1>0. PICK n : n = Len(entities)
  OBVIOUS
<1>1. e \in joins /\ sent_join[e] /\ ~Used(e) /\ IsOpen(e)
  BY DEF OnJoin, IInv, IdsAreCounted, Used
<1>2. /\ n \in Nat /\ n < kInvalidEntity /\ n \in Eid
      /\ entities \in Seq(Nat) /\ ToSet(entities) = 0..n - 1 /\ IsInjective(entities)
  <2>1. n \in Nat /\ n < kInvalidEntity
    BY <1>0, <1>1, IdsAreEnough DEF IInv
  <2> QED
    BY <1>0, <2>1 DEF Eid, IInv, IdsAreCounted
<1>3. NextEntityId = n
  BY <1>0, NextIdIsTheCount DEF IInv
<1>4. /\ joins' = joins \ {e}
      /\ entities' = Append(entities, n)
      /\ controlled_map' = [eid \in DOMAIN controlled_map \cup {n} |->
                              IF eid = n THEN session[e] ELSE controlled_map[eid]]
      /\ channel' = Welcome(e, n)
      /\ joined' = joined \cup {e}
      /\ UNCHANGED <<session, now, frame_counter, last_time, snapshots,
                     sent_join, known, my_entity, picture, missed>>
  BY <1>3 DEF OnJoin, client
<1>5. n \notin ToSet(entities)
  <2>1. n \notin 0..n - 1
    BY <1>2
  <2> QED
    BY <1>2, <2>1
<1>6. /\ entities' \in Seq(Nat) /\ Len(entities') = n + 1
      /\ ToSet(entities') = ToSet(entities) \cup {n}
      /\ IsInjective(entities')
  <2>1. ToSet(entities') = ToSet(entities) \cup {n} /\ IsInjective(entities')
    BY <1>2, <1>4, <1>5, AppendedElements, SMTT(40)
  <2>2. entities' \in Seq(Nat) /\ Len(entities') = n + 1
    BY <1>0, <1>2, <1>4, AppendProperties
  <2> QED
    BY <2>1, <2>2
<1>7. /\ DOMAIN controlled_map' = ToSet(entities)'
      /\ controlled_map'[n] = session[e]
      /\ \A eid \in ToSet(entities) : controlled_map'[eid] = controlled_map[eid]
  BY <1>4, <1>5, <1>6 DEF IInv, Handles
<1>8. Handles'
  <2>1. session[e] \in OpenHandles
    BY <1>1 DEF OpenHandles, IsOpen
  <2> QED
    BY <1>4, <1>6, <1>7, <2>1 DEF IInv, Handles, SessionTypeOK, OpenHandles, IsOpen
<1>9. IdsAreCounted'
  <2> DEFINE U == {f \in Endpoint : Used(f)}
             V == {f \in Endpoint : Used(f)'}
  <2>1. V = U \cup {e} /\ e \notin U /\ U \in SUBSET Endpoint
    BY <1>1, <1>4 DEF Used
  <2>2. Cardinality(V) = Cardinality(U) + 1 /\ Cardinality(U) \in Nat
    <3> HIDE DEF U, V
    <3>1. IsFiniteSet(U) /\ Cardinality(U) \in Nat
      BY <2>1, EndpointsAreCounted DEF IInv
    <3> QED
      BY <2>1, <3>1, FS_AddElement
  <2>3. n <= Cardinality(U)
    BY <1>0 DEF IInv, IdsAreCounted
  <2>4. n + 1 <= Cardinality(V)
    <3> HIDE DEF U, V
    <3> QED
      BY <1>2, <2>2, <2>3
  <2>5. 0..(n + 1) - 1 = 0..n - 1 \cup {n}
    BY <1>2
  <2>6. ToSet(entities)' = 0..Len(entities)' - 1
    BY <1>2, <1>6, <2>5
  <2> QED
    BY <1>4, <1>6, <2>4, <2>6 DEF IInv, IdsAreCounted
<1>10. \A f \in Endpoint :
         /\ channel'[f] \in Seq(Message)
         /\ Sent(f) \subseteq Sent(f)'
         /\ f = e \/ IsOpen(f) => NewEntity(n) \in Sent(f)'
         /\ f = e => \A x \in ToSet(entities) : NewEntity(x) \in Sent(f)'
         /\ \A m \in Sent(f)' :
              \/ m \in Sent(f)
              \/ \E x \in ToSet(entities) \cup {n} : m = NewEntity(x)
              \/ f = e /\ m = SetControlledEntity(n)
  <2>1. \A f \in Endpoint : channel'[f] = Welcome(e, n)[f]
    BY <1>4
  <2>2. ASSUME NEW f \in Endpoint
        PROVE  /\ Welcome(e, n)[f] \in Seq(Message)
               /\ ToSet(channel[f]) \subseteq ToSet(Welcome(e, n)[f])
               /\ f = e \/ IsOpen(f) => NewEntity(n) \in ToSet(Welcome(e, n)[f])
               /\ f = e => \A x \in ToSet(entities) : NewEntity(x) \in ToSet(Welcome(e, n)[f])
               /\ \A m \in ToSet(Welcome(e, n)[f]) :
                    \/ m \in ToSet(channel[f])
                    \/ \E x \in ToSet(entities) \cup {n} : m = NewEntity(x)
                    \/ f = e /\ m = SetControlledEntity(n)
    BY <1>2, WelcomesAreTrue DEF IInv
  <2>3. \A f \in Endpoint : Sent(f)' = ToSet(Welcome(e, n)[f]) /\ Sent(f) = ToSet(channel[f])
    BY <2>1 DEF Sent
  <2> QED
    BY <2>1, <2>2, <2>3
<1>11. ToSet(entities) \cup {n} \subseteq Eid
  BY <1>2, IdsAreEnough DEF IInv
<1>12. Channels'
  <2>1. channel' \in [Endpoint -> Seq(Message)]
    <3>1. channel' = [f \in Endpoint |-> channel'[f]]
      BY <1>4 DEF Welcome
    <3> QED
      BY <1>10, <3>1
  <2>2. ASSUME NEW f \in Endpoint, NEW m \in Sent(f)' PROVE m.eid \in ToSet(entities')
    <3>1. CASE m \in Sent(f)
      BY <1>6, <3>1 DEF IInv, Channels
    <3>2. CASE \E x \in ToSet(entities) \cup {n} : m = NewEntity(x)
      BY <1>6, <1>11, <3>2, MessagesAre
    <3>3. CASE m = SetControlledEntity(n)
      BY <1>2, <1>6, <3>3, MessagesAre
    <3> QED
      BY <1>10, <2>2, <3>1, <3>2, <3>3
  <2> QED
    BY <2>1, <2>2 DEF Channels
<1>13. Controls'
  <2>1. ASSUME NEW f \in Endpoint, NEW eid \in ToSet(entities), IsGiven(f, eid)'
        PROVE  IsGiven(f, eid)
    <3>1. CASE my_entity[f] = eid
      BY <3>1 DEF IsGiven
    <3>2. CASE SetControlledEntity(eid) \in Sent(f)'
      <4>1. \A x \in Eid : SetControlledEntity(eid) # NewEntity(x)
        BY MessagesAre
      <4>2. SetControlledEntity(eid) # SetControlledEntity(n)
        BY <1>2, <1>5, <1>11, MessagesAre
      <4>3. SetControlledEntity(eid) \in Sent(f)
        BY <1>10, <1>11, <3>2, <4>1, <4>2
      <4> QED
        BY <4>3 DEF IsGiven
    <3> QED
      BY <1>4, <2>1, <3>1, <3>2 DEF IsGiven
  <2>2. ASSUME NEW f \in Endpoint, IsGiven(f, n)'
        PROVE  f = e
    <3>1. my_entity[f] # n
      BY <1>2, <1>5 DEF IInv, Controls
    <3>2. SetControlledEntity(n) \in Sent(f)'
      BY <1>4, <2>2, <3>1 DEF IsGiven
    <3>3. SetControlledEntity(n) \notin Sent(f)
      BY <1>2, <1>5, MessagesAre, ZenonT(40) DEF IInv, Channels
    <3>4. \A x \in Eid : SetControlledEntity(n) # NewEntity(x)
      BY MessagesAre
    <3> QED
      BY <1>10, <1>11, <3>2, <3>3, <3>4
  <2>3. ASSUME NEW eid \in ToSet(entities'), NEW f \in Endpoint, NEW g \in Endpoint,
               IsGiven(f, eid)', IsGiven(g, eid)'
        PROVE  f = g
    BY <1>6, <2>1, <2>2, <2>3 DEF IInv, Controls
  <2>4. ASSUME NEW eid \in ToSet(entities'), NEW f \in Endpoint, IsGiven(f, eid)'
        PROVE  f \in joined' /\ (FirstSession(f)' => controlled_map'[eid] = session'[f])
    <3>1. CASE eid = n
      BY <1>4, <1>7, <2>2, <2>4, <3>1
    <3>2. CASE eid \in ToSet(entities)
      <4>1. f \in joined /\ (FirstSession(f) => controlled_map[eid] = session[f])
        BY <2>1, <2>4, <3>2 DEF IInv, Controls
      <4>2. FirstSession(f)' <=> FirstSession(f)
        BY <1>4 DEF FirstSession, IsOpen
      <4> QED
        BY <1>4, <1>7, <3>2, <4>1, <4>2
    <3> QED
      BY <1>6, <3>1, <3>2
  <2>5. \A f \in joined' : IsOpen(f)' \/ f \in missed'
    BY <1>1, <1>4 DEF IInv, Controls, IsOpen
  <2>6. \A f \in Endpoint : my_entity[f] \in ToSet(entities') \cup {kInvalidEntity}
    BY <1>6 DEF IInv, Controls
  <2> QED
    BY <1>4, <2>3, <2>4, <2>5, <2>6 DEF IInv, Controls
<1>14. Fleet'
  <2>1. ASSUME NEW f \in Endpoint, FirstSession(f)', f \in joined', NEW eid \in ToSet(entities')
        PROVE  eid \in known'[f] \/ NewEntity(eid) \in Sent(f)'
    <3>1. FirstSession(f) /\ IsOpen(f)
      BY <1>4, <2>1 DEF FirstSession, IsOpen
    <3>2. CASE eid = n
      BY <1>10, <3>1, <3>2
    <3>3. CASE eid \in ToSet(entities) /\ f = e
      BY <1>10, <3>3
    <3>4. CASE eid \in ToSet(entities) /\ f # e
      <4>1. f \in joined
        BY <1>4, <2>1, <3>4
      <4>2. eid \in known[f] \/ NewEntity(eid) \in Sent(f)
        BY <3>1, <3>4, <4>1 DEF IInv, Fleet
      <4> QED
        BY <1>4, <1>10, <4>2
    <3> QED
      BY <1>6, <3>2, <3>3, <3>4
  <2>2. ASSUME NEW f \in Endpoint, NEW i \in DOMAIN channel'[f],
               channel'[f][i].type = "SetControlledEntity"
        PROVE  \/ channel'[f][i].eid \in known'[f]
               \/ \E j \in DOMAIN channel'[f] :
                    j < i /\ channel'[f][j] = NewEntity(channel'[f][i].eid)
    BY <1>0, <1>2, <1>4, <2>2, AnnouncedFirst DEF IInv
  <2>3. \A f \in Endpoint :
          /\ known'[f] \subseteq ToSet(entities)'
          /\ my_entity'[f] # kInvalidEntity => my_entity'[f] \in known'[f]
    BY <1>4, <1>6 DEF IInv, Fleet
  <2>4. DOMAIN known' = Endpoint
    BY <1>4 DEF IInv, Fleet
  <2> QED
    BY <2>1, <2>2, <2>3, <2>4 DEF Fleet
<1>15. Times' /\ Histories' /\ Drawn'
  BY <1>4, NothingIsSeen
<1> QED
  BY <1>8, <1>9, <1>12, <1>13, <1>14, <1>15 DEF IInv

\* Steps that leave server, channels and sessions alone leave the fleet alone.
LEMMA NothingIsSaid ==
  ASSUME IInv,
         UNCHANGED <<session, entities, controlled_map, channel, joins,
                     sent_join, known, my_entity, joined, missed>>
  PROVE  Handles' /\ IdsAreCounted' /\ Channels' /\ Controls' /\ Fleet'
<1>1. Handles'
  BY DEF IInv, Handles, SessionTypeOK, OpenHandles, IsOpen
<1>2. IdsAreCounted'
  BY NoShipComes DEF IInv, IdsAreCounted, Used
<1>3. \A e \in Endpoint : Sent(e)' = Sent(e) /\ (FirstSession(e)' <=> FirstSession(e))
  BY DEF Sent, FirstSession, IsOpen
<1>4. Channels'
  BY <1>3 DEF IInv, Channels
<1>5. Controls'
  <2>1. \A e \in Endpoint : \A eid : IsGiven(e, eid)' <=> IsGiven(e, eid)
    BY <1>3 DEF IsGiven
  <2> QED
    BY <1>3, <2>1 DEF IInv, Controls, IsOpen
<1>6. Fleet'
  BY <1>3 DEF IInv, Fleet
<1> QED
  BY <1>1, <1>2, <1>4, <1>5, <1>6

\* A larger set of snapshots has the histories of a smaller.
LEMMA SeqGrows ==
  ASSUME NEW S, NEW T, S \subseteq T, NEW s \in Seq(S)
  PROVE  s \in Seq(T)
<1>1. PICK n \in Nat : s \in [1..n -> S]
  BY SeqDef
<1>2. s \in [1..n -> T]
  BY <1>1
<1> QED
  BY <1>2, SeqDef

\* The snapshots of a step are of a later frame and a later time than all.
LEMMA SimulateWorldStep ==
  ASSUME IInv, SimulateWorld
  PROVE  IInv'
<1>1. /\ now - last_time >= ServerSleep
      /\ frame_counter < MaxFrames
      /\ last_time' = now
      /\ frame_counter' = frame_counter + 1
      /\ DOMAIN snapshots' = Endpoint
      /\ \A e \in Endpoint : /\ snapshots[e] \subseteq snapshots'[e]
                             /\ \A s \in snapshots'[e] :
                                  \/ s \in snapshots[e]
                                  \/ \E eid \in ToSet(entities) :
                                       s = [eid |-> eid, frameNumber |-> frame_counter,
                                            timestamp |-> now]
      /\ UNCHANGED <<session, now, entities, controlled_map, channel, joins,
                     sent_join, known, my_entity, snapshot_history, shown,
                     predicted, joined, missed>>
  BY DEF SimulateWorld, client, picture
<1>2. Handles' /\ IdsAreCounted' /\ Channels' /\ Controls' /\ Fleet'
  BY <1>1, NothingIsSaid
<1>3. /\ now \in 1..MaxTime /\ last_time \in 1..now /\ last_time < now
      /\ frame_counter \in 0..MaxFrames /\ frame_counter + 1 \in 0..MaxFrames
      /\ frame_counter < frame_counter + 1
  <2>1. now \in 1..MaxTime /\ last_time \in 1..now /\ frame_counter \in 0..MaxFrames
    BY DEF IInv, Times
  <2> QED
    BY <1>1, <2>1
<1>4. Times'
  <2>1. ASSUME NEW e \in Endpoint, NEW s \in snapshots'[e]
        PROVE  /\ s \in Snapshot
               /\ s.frameNumber < frame_counter' /\ s.timestamp <= last_time'
    <3>1. CASE s \in snapshots[e]
      <4>1. s \in Snapshot /\ s.frameNumber < frame_counter /\ s.timestamp <= last_time
        BY <3>1 DEF IInv, Times
      <4>2. s.frameNumber \in Nat /\ s.timestamp \in Nat
        BY <4>1 DEF Snapshot
      <4>3. s.frameNumber < frame_counter + 1 /\ s.timestamp <= now
        BY <1>3, <4>1, <4>2
      <4> QED
        BY <1>1, <4>1, <4>3
    <3>2. CASE \E eid \in ToSet(entities) :
                 s = [eid |-> eid, frameNumber |-> frame_counter, timestamp |-> now]
      <4>1. PICK eid \in ToSet(entities) :
              s = [eid |-> eid, frameNumber |-> frame_counter, timestamp |-> now]
        BY <3>2
      <4>2. s \in Snapshot
        BY <1>3, <4>1, IdsAreEnough DEF IInv, Snapshot
      <4>3. s.frameNumber = frame_counter /\ s.timestamp = now
        BY <4>1
      <4>4. frame_counter < frame_counter' /\ now <= last_time'
        BY <1>1, <1>3
      <4> QED
        BY <4>2, <4>3, <4>4
    <3> QED
      BY <1>1, <2>1, <3>1, <3>2
  <2>2. ASSUME NEW e \in Endpoint, NEW s \in snapshots'[e], NEW t \in snapshots'[e],
               s.frameNumber <= t.frameNumber
        PROVE  s.timestamp <= t.timestamp
    <3>1. \A x \in snapshots[e] :
            x.frameNumber < frame_counter /\ x.timestamp <= last_time
      BY DEF IInv, Times
    <3>2. \A x \in snapshots'[e] : \/ x \in snapshots[e]
                                   \/ x.frameNumber = frame_counter /\ x.timestamp = now
      BY <1>1
    <3>3. \A x \in snapshots'[e] : x.frameNumber \in Nat /\ x.timestamp \in Nat
      BY <2>1 DEF Snapshot
    <3>4. CASE s \in snapshots[e] /\ t \in snapshots[e]
      BY <2>2, <3>4 DEF IInv, Times
    <3>5. CASE t \notin snapshots[e]
      <4>1. t.timestamp = now
        BY <3>2, <3>5
      <4>2. s.timestamp = now \/ s.timestamp <= last_time
        BY <3>1, <3>2
      <4> QED
        BY <1>3, <3>3, <4>1, <4>2
    <3>6. CASE s \notin snapshots[e] /\ t \in snapshots[e]
      <4>1. s.frameNumber = frame_counter /\ t.frameNumber < frame_counter
        BY <3>1, <3>2, <3>6
      <4> QED
        BY <1>3, <2>2, <3>3, <4>1
    <3> QED
      BY <3>4, <3>5, <3>6
  <2>3. now \in 1..MaxTime /\ now \in 1..now
    BY <1>3
  <2> QED
    BY <1>1, <1>3, <2>1, <2>2, <2>3 DEF Times
<1>5. Histories'
  <2>1. ASSUME NEW e \in Endpoint, NEW eid \in Eid
        PROVE  snapshot_history[e][eid] \in Seq(Of(e, eid)')
    <3>1. Of(e, eid) \subseteq Of(e, eid)'
      BY <1>1 DEF Of
    <3>2. snapshot_history[e][eid] \in Seq(Of(e, eid))
      BY DEF IInv, Histories
    <3> QED
      BY <3>1, <3>2, SeqGrows
  <2> QED
    BY <1>1, <2>1 DEF IInv, Histories
<1>6. Drawn'
  BY <1>1 DEF IInv, Drawn
<1> QED
  BY <1>2, <1>4, <1>5, <1>6 DEF IInv

-----------------------------------------------------------------------------
(* Steps of a client *)

LEMMA SendJoinStep ==
  ASSUME IInv, NEW e \in Endpoint, SendJoin(e)
  PROVE  IInv'
<1>1. /\ ~sent_join[e]
      /\ sent_join' = [sent_join EXCEPT ![e] = TRUE]
      /\ joins' = joins \cup {e} \/ joins' = joins
      /\ UNCHANGED <<session, now, entities, controlled_map, frame_counter,
                     last_time, channel, snapshots, known, my_entity, picture,
                     joined, missed>>
  BY DEF SendJoin, server
<1>2. IdsAreCounted'
  <2>1. sent_join' \in [Endpoint -> BOOLEAN] /\ joins' \subseteq Endpoint
    BY <1>1 DEF IInv, IdsAreCounted
  <2>2. \A f \in Endpoint : sent_join'[f] = (f = e \/ sent_join[f])
    BY <1>1 DEF IInv, IdsAreCounted
  <2>3. \A f \in joins' : f = e \/ f \in joins
    BY <1>1
  <2>4. \A f \in joins' : sent_join'[f]
    BY <2>1, <2>2, <2>3 DEF IInv, IdsAreCounted
  <2>5. \A f \in Endpoint : Used(f) => Used(f)'
    BY <1>1, <2>2, <2>3 DEF Used
  <2> QED
    BY <1>1, <2>1, <2>4, <2>5, NoShipComes
<1>3. Handles'
  BY <1>1 DEF IInv, Handles, SessionTypeOK, OpenHandles, IsOpen
<1>4. \A f \in Endpoint : Sent(f)' = Sent(f) /\ (FirstSession(f)' <=> FirstSession(f))
  BY <1>1 DEF Sent, FirstSession, IsOpen
<1>5. Channels'
  BY <1>1, <1>4 DEF IInv, Channels
<1>6. Controls'
  <2>1. \A f \in Endpoint : \A eid : IsGiven(f, eid)' <=> IsGiven(f, eid)
    BY <1>1, <1>4 DEF IsGiven
  <2> QED
    BY <1>1, <1>4, <2>1 DEF IInv, Controls, IsOpen
<1>7. Fleet'
  BY <1>1, <1>4 DEF IInv, Fleet
<1>8. Times' /\ Histories' /\ Drawn'
  BY <1>1, NothingIsSeen
<1> QED
  BY <1>2, <1>3, <1>5, <1>6, <1>7, <1>8 DEF IInv

\* A message that is delivered is the first of its channel, and what is behind
\* it moves up.
LEMMA DeliveredMessage ==
  ASSUME IInv, NEW e \in Endpoint, channel[e] # <<>>,
         channel' = [channel EXCEPT ![e] = Tail(channel[e])],
         UNCHANGED entities
  PROVE  LET m == Head(channel[e])
         IN /\ m \in Message /\ m \in Sent(e) /\ m.eid \in ToSet(entities)
            /\ m = channel[e][1] /\ 1 \in DOMAIN channel[e]
            /\ Channels'
            /\ \A f \in Endpoint \ {e} : channel'[f] = channel[f] /\ Sent(f)' = Sent(f)
            /\ Sent(e) = Sent(e)' \cup {m}
            /\ \A i \in DOMAIN channel'[e] :
                 /\ i \in Nat /\ i + 1 \in DOMAIN channel[e] /\ i + 1 # 1
                 /\ channel'[e][i] = channel[e][i + 1]
            /\ \A i \in DOMAIN channel[e] :
                 i \in Nat \ {0} /\ (i # 1 => i - 1 \in DOMAIN channel'[e])
<1>1. channel[e] \in Seq(Message)
  BY DEF IInv, Channels
<1>2. PICK n \in Nat \ {0} : n = Len(channel[e]) /\ DOMAIN channel[e] = 1..n
  BY <1>1, EmptySeq, LenProperties
<1>3. PICK t : t = Tail(channel[e])
  OBVIOUS
<1>4. /\ t \in Seq(Message) /\ Len(t) = n - 1
      /\ Head(channel[e]) = channel[e][1]
      /\ \A i \in 1..n - 1 : t[i] = channel[e][i + 1]
  BY <1>1, <1>2, <1>3, HeadTailProperties
<1>5. DOMAIN t = 1..n - 1
  BY <1>4, LenProperties
<1>6. channel'[e] = t /\ \A f \in Endpoint \ {e} : channel'[f] = channel[f]
  BY <1>3 DEF IInv, Channels
<1>7. Head(channel[e]) \in Sent(e) /\ Sent(e) = ToSet(t) \cup {Head(channel[e])}
  BY <1>1, <1>3, TailElements DEF Sent
<1>8. Sent(e)' = ToSet(t) /\ \A f \in Endpoint \ {e} : Sent(f)' = Sent(f)
  BY <1>6 DEF Sent
<1>9. Channels'
  <2>1. channel' \in [Endpoint -> Seq(Message)]
    BY <1>3, <1>4 DEF IInv, Channels
  <2>2. \A f \in Endpoint : Sent(f)' \subseteq Sent(f)
    BY <1>7, <1>8
  <2> QED
    BY <2>1, <2>2 DEF IInv, Channels
<1>10. Head(channel[e]) \in Message /\ Head(channel[e]).eid \in ToSet(entities)
  <2>1. Head(channel[e]) \in Message
    BY <1>1, HeadTailProperties
  <2> QED
    BY <1>7, <2>1 DEF IInv, Channels
<1>11. \A i \in DOMAIN channel'[e] :
         /\ i \in Nat /\ i + 1 \in DOMAIN channel[e] /\ i + 1 # 1
         /\ channel'[e][i] = channel[e][i + 1]
  <2>1. \A i \in 1..n - 1 : i \in Nat /\ i + 1 \in 1..n /\ i + 1 # 1
    BY <1>2
  <2> QED
    BY <1>2, <1>4, <1>5, <1>6, <2>1
<1>12. \A i \in DOMAIN channel[e] :
         i \in Nat \ {0} /\ (i # 1 => i - 1 \in DOMAIN channel'[e])
  <2>1. \A i \in 1..n : i \in Nat \ {0} /\ (i # 1 => i - 1 \in 1..n - 1)
    BY <1>2
  <2> QED
    BY <1>2, <1>5, <1>6, <2>1
<1>13. 1 \in DOMAIN channel[e]
  BY <1>2
<1> QED
  BY <1>4, <1>6, <1>7, <1>8, <1>9, <1>10, <1>11, <1>12, <1>13

\* What a client may count on once the first message of its channel is applied.
LEMMA StillAnnounced ==
  ASSUME IInv, NEW e \in Endpoint, channel[e] # <<>>,
         channel' = [channel EXCEPT ![e] = Tail(channel[e])],
         UNCHANGED entities,
         known[e] \subseteq known'[e],
         Head(channel[e]).type = "NewEntity" => Head(channel[e]).eid \in known'[e],
         NEW i \in DOMAIN channel'[e], channel'[e][i].type = "SetControlledEntity"
  PROVE  \/ channel'[e][i].eid \in known'[e]
         \/ \E j \in DOMAIN channel'[e] :
              j < i /\ channel'[e][j] = NewEntity(channel'[e][i].eid)
<1>1. /\ Head(channel[e]) = channel[e][1]
      /\ \A k \in DOMAIN channel'[e] :
           /\ k \in Nat /\ k + 1 \in DOMAIN channel[e]
           /\ channel'[e][k] = channel[e][k + 1]
      /\ \A k \in DOMAIN channel[e] :
           k \in Nat \ {0} /\ (k # 1 => k - 1 \in DOMAIN channel'[e])
  BY DeliveredMessage, ZenonT(40)
<1>2. PICK m : m = channel'[e][i]
  OBVIOUS
<1>3. m = channel[e][i + 1] /\ i + 1 \in DOMAIN channel[e] /\ m.type = "SetControlledEntity"
  BY <1>1, <1>2
<1>4. m.eid \in Eid
  <2>1. m \in Sent(e)
    BY <1>3 DEF Sent, ToSet
  <2> QED
    BY <2>1, IdsAreEnough DEF IInv, Channels
<1>5. CASE m.eid \in known[e]
  BY <1>2, <1>5
<1>6. CASE \E j \in DOMAIN channel[e] : j < i + 1 /\ channel[e][j] = NewEntity(m.eid)
  <2>1. PICK j \in DOMAIN channel[e] : j < i + 1 /\ channel[e][j] = NewEntity(m.eid)
    BY <1>6
  <2>2. CASE j = 1
    <3>1. Head(channel[e]).type = "NewEntity" /\ Head(channel[e]).eid = m.eid
      BY <1>1, <1>4, <2>1, <2>2, MessagesAre
    <3> QED
      BY <1>2, <3>1
  <2>3. CASE j # 1
    <3>1. j - 1 \in DOMAIN channel'[e] /\ j \in Nat /\ i \in Nat
      BY <1>1, <2>1, <2>3
    <3>2. (j - 1) + 1 = j /\ j - 1 < i
      BY <2>1, <3>1
    <3>3. channel'[e][j - 1] = NewEntity(m.eid)
      BY <1>1, <2>1, <3>1, <3>2
    <3> QED
      BY <1>2, <3>1, <3>2, <3>3
  <2> QED
    BY <2>2, <2>3
<1> QED
  BY <1>3, <1>5, <1>6 DEF IInv, Fleet

\* What is told of a ship is known from then on.
LEMMA OnNewEntityPacketStep ==
  ASSUME IInv, NEW e \in Endpoint, OnNewEntityPacket(e)
  PROVE  IInv'
<1>0. PICK m : m = Head(channel[e])
  OBVIOUS
<1>1. /\ channel[e] # <<>> /\ m.type = "NewEntity"
      /\ channel' = [channel EXCEPT ![e] = Tail(channel[e])]
      /\ known' = [known EXCEPT ![e] = known[e] \cup {m.eid}]
      /\ UNCHANGED <<session, now, entities, controlled_map, frame_counter,
                     last_time, joins, snapshots, sent_join, my_entity, picture,
                     joined, missed>>
  BY <1>0 DEF OnNewEntityPacket, server
<1>2. /\ m \in Message /\ m.eid \in ToSet(entities)
      /\ Channels'
      /\ \A f \in Endpoint \ {e} : channel'[f] = channel[f] /\ Sent(f)' = Sent(f)
      /\ Sent(e) = Sent(e)' \cup {m}
  BY <1>0, <1>1, DeliveredMessage
<1>3. /\ DOMAIN known' = Endpoint /\ known'[e] = known[e] \cup {m.eid}
      /\ \A f \in Endpoint \ {e} : known'[f] = known[f]
  BY <1>1 DEF IInv, Fleet
<1>4. \A f \in Endpoint : FirstSession(f)' <=> FirstSession(f)
  BY <1>1 DEF FirstSession, IsOpen
<1>5. Handles'
  BY <1>1 DEF IInv, Handles, SessionTypeOK, OpenHandles, IsOpen
<1>6. IdsAreCounted'
  BY <1>1, NoShipComes DEF IInv, IdsAreCounted, Used
<1>7. Controls'
  <2>1. \A f \in Endpoint : \A eid : IsGiven(f, eid)' => IsGiven(f, eid)
    BY <1>1, <1>2 DEF IsGiven
  <2> QED
    BY <1>1, <1>4, <2>1 DEF IInv, Controls, IsOpen
<1>8. Fleet'
  <2>1. ASSUME NEW f \in Endpoint, FirstSession(f), f \in joined, NEW eid \in ToSet(entities)
        PROVE  eid \in known'[f] \/ NewEntity(eid) \in Sent(f)'
    <3>1. eid \in known[f] \/ NewEntity(eid) \in Sent(f)
      BY <2>1 DEF IInv, Fleet
    <3>2. NewEntity(eid) = m => m.eid = eid
      BY IdsAreEnough, MessagesAre DEF IInv
    <3> QED
      BY <1>2, <1>3, <3>1, <3>2
  <2>2. ASSUME NEW f \in Endpoint, NEW i \in DOMAIN channel'[f],
               channel'[f][i].type = "SetControlledEntity"
        PROVE  \/ channel'[f][i].eid \in known'[f]
               \/ \E j \in DOMAIN channel'[f] :
                    j < i /\ channel'[f][j] = NewEntity(channel'[f][i].eid)
    <3>1. CASE f = e
      <4>1. /\ known[e] \subseteq known'[e]
            /\ Head(channel[e]).type = "NewEntity" => Head(channel[e]).eid \in known'[e]
        BY <1>0, <1>3
      <4>2. i \in DOMAIN channel'[e] /\ channel'[e][i].type = "SetControlledEntity"
        BY <2>2, <3>1
      <4>3. \/ channel'[e][i].eid \in known'[e]
            \/ \E j \in DOMAIN channel'[e] :
                 j < i /\ channel'[e][j] = NewEntity(channel'[e][i].eid)
        BY <1>1, <4>1, <4>2, StillAnnounced
      <4> QED
        BY <3>1, <4>3
    <3>2. CASE f # e
      <4>1. channel'[f] = channel[f] /\ known'[f] = known[f]
        BY <1>2, <1>3, <3>2
      <4> QED
        BY <2>2, <4>1 DEF IInv, Fleet
    <3> QED
      BY <3>1, <3>2
  <2>3. \A f \in Endpoint :
          /\ known'[f] \subseteq ToSet(entities)
          /\ my_entity[f] # kInvalidEntity => my_entity[f] \in known'[f]
    BY <1>2, <1>3 DEF IInv, Fleet
  <2> QED
    BY <1>1, <1>3, <1>4, <2>1, <2>2, <2>3 DEF Fleet
<1>9. Times' /\ Histories' /\ Drawn'
  BY <1>1, NothingIsSeen
<1> QED
  BY <1>1, <1>2, <1>5, <1>6, <1>7, <1>8, <1>9 DEF IInv

\* A client is told to steer a ship it has been told of.
LEMMA OnSetControlledEntityStep ==
  ASSUME IInv, NEW e \in Endpoint, OnSetControlledEntity(e)
  PROVE  IInv'
<1>0. PICK m : m = Head(channel[e])
  OBVIOUS
<1>1. /\ channel[e] # <<>> /\ m.type = "SetControlledEntity"
      /\ channel' = [channel EXCEPT ![e] = Tail(channel[e])]
      /\ my_entity' = [my_entity EXCEPT ![e] = m.eid]
      /\ UNCHANGED <<session, now, entities, controlled_map, frame_counter,
                     last_time, joins, snapshots, sent_join, known, picture,
                     joined, missed>>
  BY <1>0 DEF OnSetControlledEntity, server
<1>2. /\ m \in Message /\ m \in Sent(e) /\ m.eid \in ToSet(entities)
      /\ m = channel[e][1] /\ 1 \in DOMAIN channel[e]
      /\ Channels'
      /\ \A f \in Endpoint \ {e} : channel'[f] = channel[f] /\ Sent(f)' = Sent(f)
      /\ Sent(e) = Sent(e)' \cup {m}
  BY <1>0, <1>1, DeliveredMessage
<1>3. m = SetControlledEntity(m.eid) /\ m.eid \in Eid
  BY <1>1, <1>2, IdsAreEnough, MessagesAre DEF IInv
<1>4. m.eid \in known[e]
  <2>1. ASSUME NEW j \in DOMAIN channel[e], j < 1 PROVE FALSE
    <3>1. j \in Nat \ {0}
      BY <1>0, <1>1, DeliveredMessage
    <3> QED
      BY <2>1, <3>1
  <2> QED
    BY <1>1, <1>2, <2>1 DEF IInv, Fleet
<1>5. /\ my_entity' \in [Endpoint -> Eid] /\ my_entity'[e] = m.eid
      /\ \A f \in Endpoint \ {e} : my_entity'[f] = my_entity[f]
  BY <1>1, <1>3 DEF IInv, Controls
<1>6. \A f \in Endpoint : FirstSession(f)' <=> FirstSession(f)
  BY <1>1 DEF FirstSession, IsOpen
<1>7. Handles'
  BY <1>1 DEF IInv, Handles, SessionTypeOK, OpenHandles, IsOpen
<1>8. IdsAreCounted'
  BY <1>1, NoShipComes DEF IInv, IdsAreCounted, Used
<1>9. Controls'
  <2>1. \A f \in Endpoint : \A eid : IsGiven(f, eid)' => IsGiven(f, eid)
    BY <1>2, <1>3, <1>5 DEF IsGiven
  <2>2. \A f \in Endpoint : my_entity'[f] \in ToSet(entities) \cup {kInvalidEntity}
    BY <1>2, <1>5 DEF IInv, Controls
  <2> QED
    BY <1>1, <1>5, <1>6, <2>1, <2>2 DEF IInv, Controls, IsOpen
<1>10. Fleet'
  <2>1. ASSUME NEW f \in Endpoint, FirstSession(f), f \in joined, NEW eid \in ToSet(entities)
        PROVE  eid \in known[f] \/ NewEntity(eid) \in Sent(f)'
    <3>1. eid \in known[f] \/ NewEntity(eid) \in Sent(f)
      BY <2>1 DEF IInv, Fleet
    <3>2. NewEntity(eid) # m
      BY <1>3, IdsAreEnough, MessagesAre DEF IInv
    <3> QED
      BY <1>2, <3>1, <3>2
  <2>2. ASSUME NEW f \in Endpoint, NEW i \in DOMAIN channel'[f],
               channel'[f][i].type = "SetControlledEntity"
        PROVE  \/ channel'[f][i].eid \in known'[f]
               \/ \E j \in DOMAIN channel'[f] :
                    j < i /\ channel'[f][j] = NewEntity(channel'[f][i].eid)
    <3>1. CASE f = e
      BY <1>0, <1>1, <2>2, <3>1, StillAnnounced
    <3>2. CASE f # e
      <4>1. channel'[f] = channel[f] /\ known'[f] = known[f]
        BY <1>1, <1>2, <3>2
      <4> QED
        BY <2>2, <4>1 DEF IInv, Fleet
    <3> QED
      BY <3>1, <3>2
  <2>3. \A f \in Endpoint :
          /\ known[f] \subseteq ToSet(entities)
          /\ my_entity'[f] # kInvalidEntity => my_entity'[f] \in known[f]
    BY <1>4, <1>5 DEF IInv, Fleet
  <2> QED
    BY <1>1, <1>6, <2>1, <2>2, <2>3 DEF IInv, Fleet
<1>11. Times' /\ Histories' /\ Drawn'
  BY <1>1, NothingIsSeen
<1> QED
  BY <1>1, <1>2, <1>7, <1>8, <1>9, <1>10, <1>11 DEF IInv

\* The newest of a history is in it.
LEMMA LastIsIn ==
  ASSUME NEW S, NEW h \in Seq(S), h # <<>>
  PROVE  Last(h) \in S
<1>1. Len(h) \in Nat \ {0}
  BY EmptySeq
<1>2. Len(h) \in 1..Len(h)
  BY <1>1
<1> QED
  BY <1>2, ElementOfSeq DEF Last

\* A snapshot is put into the history of its ship, and no other.
LEMMA OnSnapshotStep ==
  ASSUME IInv, NEW e \in Endpoint, NEW s \in snapshots[e], OnSnapshot(e, s)
  PROVE  IInv'
<1>0. PICK h : h = snapshot_history[e][s.eid]
  OBVIOUS
<1>1. /\ snapshot_history' = [snapshot_history EXCEPT ![e][s.eid] = Inserted(h, s)]
      /\ UNCHANGED <<session, now, entities, controlled_map, frame_counter,
                     last_time, channel, joins, snapshots, sent_join, known,
                     my_entity, shown, predicted, joined, missed>>
  BY <1>0 DEF OnSnapshot, server, network
<1>2. Handles' /\ IdsAreCounted' /\ Channels' /\ Controls' /\ Fleet'
  BY <1>1, NothingIsSaid
<1>3. Times'
  BY <1>1 DEF IInv, Times
<1>4. /\ s \in Snapshot /\ s.eid \in Eid /\ s \in Of(e, s.eid)
      /\ Of(e, s.eid) \in SUBSET Snapshot
      /\ \A x, y \in Of(e, s.eid) :
           x.frameNumber <= y.frameNumber => x.timestamp <= y.timestamp
  BY DEF IInv, Times, Snapshot, Of
<1>5. h \in Seq(Of(e, s.eid)) /\ InOrder(h)
  BY <1>0, <1>4 DEF IInv, Histories
<1>6. PICK t : t = Inserted(h, s)
  OBVIOUS
<1>7. /\ t \in Seq(Of(e, s.eid)) /\ InOrder(t) /\ t # <<>>
      /\ h # <<>> => Last(h).frameNumber <= Last(t).frameNumber
  BY <1>4, <1>5, <1>6, InsertedHistory
<1>8. /\ DOMAIN snapshot_history' = Endpoint
      /\ \A f \in Endpoint : DOMAIN snapshot_history'[f] = Eid
      /\ \A f \in Endpoint : \A eid \in Eid :
           snapshot_history'[f][eid] = IF f = e /\ eid = s.eid THEN t
                                       ELSE snapshot_history[f][eid]
  BY <1>1, <1>4, <1>6 DEF IInv, Histories
<1>9. Histories'
  <2>1. \A f, eid : Of(f, eid)' = Of(f, eid)
    BY <1>1 DEF Of
  <2>2. ASSUME NEW f \in Endpoint, NEW eid \in Eid
        PROVE  /\ snapshot_history'[f][eid] \in Seq(Of(f, eid))
               /\ InOrder(snapshot_history'[f][eid])
    <3>1. CASE f = e /\ eid = s.eid
      BY <1>7, <1>8, <3>1
    <3>2. CASE ~(f = e /\ eid = s.eid)
      <4>1. snapshot_history'[f][eid] = snapshot_history[f][eid]
        BY <1>8, <3>2
      <4> QED
        BY <4>1 DEF IInv, Histories
    <3> QED
      BY <3>1, <3>2
  <2>3. \A f \in Endpoint : \A eid \in Eid :
          snapshot_history'[f][eid] \in Seq(Of(f, eid)')
    BY <2>1, <2>2
  <2> QED
    BY <1>8, <2>2, <2>3 DEF Histories
<1>10. Drawn'
  <2>1. ASSUME NEW f \in Endpoint, NEW eid \in Eid, shown[f][eid] # 0
        PROVE  /\ snapshot_history'[f][eid] # <<>>
               /\ shown[f][eid] <= Last(snapshot_history'[f][eid]).timestamp
    <3>1. CASE f = e /\ eid = s.eid
      <4>1. h # <<>> /\ shown[e][s.eid] <= Last(h).timestamp
        BY <1>0, <2>1, <3>1 DEF IInv, Drawn
      <4>2. Last(h) \in Of(e, s.eid) /\ Last(t) \in Of(e, s.eid)
        BY <1>5, <1>7, <4>1, LastIsIn
      <4>3. Last(h).timestamp <= Last(t).timestamp
        BY <1>4, <1>7, <4>1, <4>2
      <4>4. Last(h).timestamp \in Nat /\ Last(t).timestamp \in Nat
        BY <1>4, <4>2 DEF Snapshot
      <4>5. shown[e][s.eid] \in Nat
        BY <1>4 DEF IInv, Drawn
      <4>6. shown[e][s.eid] <= Last(t).timestamp
        BY <4>1, <4>3, <4>4, <4>5
      <4> QED
        BY <1>4, <1>7, <1>8, <3>1, <4>6
    <3>2. CASE ~(f = e /\ eid = s.eid)
      <4>1. snapshot_history'[f][eid] = snapshot_history[f][eid]
        BY <1>8, <3>2
      <4> QED
        BY <2>1, <4>1 DEF IInv, Drawn
    <3> QED
      BY <3>1, <3>2
  <2> QED
    BY <1>1, <2>1 DEF IInv, Drawn
<1> QED
  BY <1>1, <1>2, <1>3, <1>9, <1>10 DEF IInv

\* What one pass of the client makes of one ship.
LEMMA ShipIsDrawn ==
  ASSUME IInv, NEW e \in Endpoint, NEW eid \in Eid, NEW target \in Int
  PROVE  LET h == snapshot_history[e][eid]
             t == Kept(h, target)
         IN /\ t \in Seq(Of(e, eid)) /\ InOrder(t)
            /\ shown[e][eid] \in Nat
            /\ shown[e][eid] # 0 =>
                 t # <<>> /\ shown[e][eid] <= Last(t).timestamp
            /\ t # <<>> =>
                 /\ Interpolated(t, target) \in 0..now
                 /\ Interpolated(t, target) <= Last(t).timestamp
                 /\ shown[e][eid] <= target => shown[e][eid] <= Interpolated(t, target)
<1> DEFINE S == Of(e, eid)
<1>0. PICK h, t : h = snapshot_history[e][eid] /\ t = Kept(h, target)
  OBVIOUS
<1>1. /\ S \in SUBSET Snapshot
      /\ \A x, y \in S : x.frameNumber <= y.frameNumber => x.timestamp <= y.timestamp
      /\ \A x \in S : x.timestamp <= last_time
      /\ now \in Nat /\ last_time \in 1..now
  BY DEF IInv, Times, Of
<1>2. h \in Seq(S) /\ InOrder(h)
  BY <1>0 DEF IInv, Histories
<1> HIDE DEF S
<1>3. t \in Seq(S) /\ InOrder(t) /\ (h # <<>> => t # <<>> /\ Last(t) = Last(h))
  BY <1>0, <1>1, <1>2, KeptHistory
<1>4. PICK drawn \in Nat : drawn = shown[e][eid]
  BY DEF IInv, Drawn
<1>5. drawn # 0 => t # <<>> /\ drawn <= Last(t).timestamp
  BY <1>0, <1>3, <1>4 DEF IInv, Drawn
<1>6. ASSUME t # <<>>
      PROVE  /\ Interpolated(t, target) \in 0..now
             /\ Interpolated(t, target) <= Last(t).timestamp
             /\ drawn <= target => drawn <= Interpolated(t, target)
  <2>1. PICK x : x = Interpolated(t, target)
    OBVIOUS
  <2>2. /\ Last(t) \in S /\ x \in Nat /\ x <= Last(t).timestamp
        /\ target <= x \/ x = Last(t).timestamp
    BY <1>1, <1>3, <1>6, <2>1, InterpolatedIsBetween
  <2>3. PICK newest \in Nat : newest = Last(t).timestamp /\ newest <= now
    <3>1. Last(t).timestamp \in Nat /\ Last(t).timestamp <= last_time
      BY <1>1, <2>2 DEF Snapshot
    <3>2. Last(t).timestamp <= now
      BY <1>1, <3>1
    <3> QED
      BY <3>1, <3>2
  <2>4. drawn <= newest
    BY <1>5, <2>3
  <2>5. x \in 0..now /\ x <= newest
    BY <1>1, <2>2, <2>3
  <2>6. drawn <= target => drawn <= x
    BY <2>2, <2>3, <2>4
  <2> QED
    BY <2>1, <2>3, <2>5, <2>6
<1>7. t \in Seq(Of(e, eid))
  BY <1>3 DEF S
<1> QED
  BY <1>0, <1>3, <1>4, <1>5, <1>6, <1>7

\* ProcessSnapshotHistory, without its local names.
LEMMA ShownAfter ==
  ASSUME NEW e \in Endpoint, NEW stepped \in BOOLEAN, ProcessSnapshotHistory(e, stepped),
         NEW target, target = now - kInterpolationTime
  PROVE  /\ snapshot_history' = [snapshot_history EXCEPT
                                   ![e] = [eid \in Eid |->
                                             Kept(snapshot_history[e][eid], target)]]
         /\ shown' = [shown EXCEPT
                        ![e] = [eid \in Eid |->
                                  IF eid \in known[e] /\ Kept(snapshot_history[e][eid], target) # <<>>
                                  THEN Interpolated(Kept(snapshot_history[e][eid], target), target)
                                  ELSE shown[e][eid]]]
<1> DEFINE history == [eid \in Eid |-> Kept(snapshot_history[e][eid], target)]
<1>1. /\ snapshot_history' = [snapshot_history EXCEPT ![e] = history]
      /\ shown' = [shown EXCEPT
                     ![e] = [eid \in Eid |->
                               IF eid \in known[e] /\ history[eid] # <<>>
                               THEN Interpolated(history[eid], target)
                               ELSE @[eid]]]
  BY DEF ProcessSnapshotHistory
<1>2. \A eid \in Eid : history[eid] = Kept(snapshot_history[e][eid], target)
  OBVIOUS
<1>3. [eid \in Eid |-> IF eid \in known[e] /\ history[eid] # <<>>
                       THEN Interpolated(history[eid], target)
                       ELSE shown[e][eid]]
        = [eid \in Eid |->
             IF eid \in known[e] /\ Kept(snapshot_history[e][eid], target) # <<>>
             THEN Interpolated(Kept(snapshot_history[e][eid], target), target)
             ELSE shown[e][eid]]
  OBVIOUS
<1> QED
  BY <1>1, <1>3

LEMMA PredictedIsBoolean ==
  ASSUME predicted \in [Endpoint -> BOOLEAN], NEW e \in Endpoint, NEW stepped \in BOOLEAN,
         ProcessSnapshotHistory(e, stepped)
  PROVE  predicted' \in [Endpoint -> BOOLEAN]
<1>1. PICK empty \in BOOLEAN :
        predicted' = [predicted EXCEPT
                        ![e] = empty /\ (predicted[e] \/ (stepped /\ my_entity[e] \in known[e]))]
  BY DEF ProcessSnapshotHistory
<1> QED
  BY <1>1

LEMMA ProcessSnapshotHistoryStep ==
  ASSUME IInv, NEW e \in Endpoint, NEW stepped \in BOOLEAN,
         ProcessSnapshotHistory(e, stepped)
  PROVE  IInv'
<1>0. PICK target \in Int : target = now - kInterpolationTime
  BY DEF IInv, Times
<1> DEFINE t(eid) == Kept(snapshot_history[e][eid], target)
<1>1. /\ snapshot_history' = [snapshot_history EXCEPT ![e] = [eid \in Eid |-> t(eid)]]
      /\ shown' = [shown EXCEPT
                     ![e] = [eid \in Eid |->
                               IF eid \in known[e] /\ t(eid) # <<>>
                               THEN Interpolated(t(eid), target)
                               ELSE shown[e][eid]]]
      /\ UNCHANGED <<session, now, entities, controlled_map, frame_counter,
                     last_time, channel, joins, snapshots, sent_join, known,
                     my_entity, joined, missed>>
  BY <1>0, ShownAfter DEF ProcessSnapshotHistory, server, network
<1>2. Handles' /\ IdsAreCounted' /\ Channels' /\ Controls' /\ Fleet'
  BY <1>1, NothingIsSaid
<1>3. Times'
  BY <1>1 DEF IInv, Times
<1>4. \A eid \in Eid :
        /\ t(eid) \in Seq(Of(e, eid)) /\ InOrder(t(eid))
        /\ shown[e][eid] \in Nat
        /\ shown[e][eid] # 0 =>
             t(eid) # <<>> /\ shown[e][eid] <= Last(t(eid)).timestamp
        /\ t(eid) # <<>> =>
             /\ Interpolated(t(eid), target) \in 0..now
             /\ Interpolated(t(eid), target) <= Last(t(eid)).timestamp
  BY ShipIsDrawn
<1> HIDE DEF t
<1>5. /\ DOMAIN snapshot_history' = Endpoint
      /\ DOMAIN snapshot_history'[e] = Eid
      /\ \A eid \in Eid : snapshot_history'[e][eid] = t(eid)
      /\ \A f \in Endpoint \ {e} : snapshot_history'[f] = snapshot_history[f]
  BY <1>1 DEF IInv, Histories
<1>6. Histories'
  <2>1. \A f, eid : Of(f, eid)' = Of(f, eid)
    BY <1>1 DEF Of
  <2>2. ASSUME NEW f \in Endpoint
        PROVE  /\ DOMAIN snapshot_history'[f] = Eid
               /\ \A eid \in Eid : /\ snapshot_history'[f][eid] \in Seq(Of(f, eid)')
                                   /\ InOrder(snapshot_history'[f][eid])
    <3>1. CASE f = e
      BY <1>4, <1>5, <2>1, <3>1
    <3>2. CASE f # e
      BY <1>5, <2>1, <3>2 DEF IInv, Histories
    <3> QED
      BY <3>1, <3>2
  <2> QED
    BY <1>5, <2>2 DEF Histories
<1>7. /\ DOMAIN shown' = Endpoint
      /\ shown'[e] = [eid \in Eid |-> IF eid \in known[e] /\ t(eid) # <<>>
                                      THEN Interpolated(t(eid), target)
                                      ELSE shown[e][eid]]
      /\ \A f \in Endpoint \ {e} : shown'[f] = shown[f]
  BY <1>1 DEF IInv, Drawn
<1>8. Drawn'
  <2>1. predicted' \in [Endpoint -> BOOLEAN]
    BY PredictedIsBoolean DEF IInv, Drawn
  <2>2. \A eid \in Eid : shown[e][eid] \in 0..now
    BY DEF IInv, Drawn
  <2>3. shown'[e] \in [Eid -> 0..now]
    BY <1>4, <1>7, <2>2
  <2>4. ASSUME NEW eid \in Eid, shown'[e][eid] # 0
        PROVE  /\ snapshot_history'[e][eid] # <<>>
               /\ shown'[e][eid] <= Last(snapshot_history'[e][eid]).timestamp
    <3>1. snapshot_history'[e][eid] = t(eid)
      BY <1>5
    <3>2. CASE eid \in known[e] /\ t(eid) # <<>>
      BY <1>4, <1>7, <3>1, <3>2
    <3>3. CASE ~(eid \in known[e] /\ t(eid) # <<>>)
      BY <1>4, <1>7, <2>4, <3>1, <3>3
    <3> QED
      BY <3>2, <3>3
  <2>5. ASSUME NEW f \in Endpoint
        PROVE  /\ shown'[f] \in [Eid -> 0..now']
               /\ \A eid \in Eid : shown'[f][eid] # 0 =>
                    /\ snapshot_history'[f][eid] # <<>>
                    /\ shown'[f][eid] <= Last(snapshot_history'[f][eid]).timestamp
    <3>1. CASE f = e
      BY <1>1, <2>3, <2>4, <3>1
    <3>2. CASE f # e
      BY <1>1, <1>5, <1>7, <3>2 DEF IInv, Drawn
    <3> QED
      BY <3>1, <3>2
  <2> QED
    BY <1>7, <2>1, <2>5 DEF Drawn
<1> QED
  BY <1>1, <1>2, <1>3, <1>6, <1>8 DEF IInv

LEMMA TickStep ==
  ASSUME IInv, Tick
  PROVE  IInv'
<1>1. /\ now < MaxTime /\ now' = now + 1
      /\ UNCHANGED <<session, entities, controlled_map, frame_counter, last_time,
                     channel, joins, snapshots, sent_join, known, my_entity,
                     snapshot_history, shown, predicted, joined, missed>>
  BY DEF Tick, server, network, client, picture
<1>2. Handles' /\ IdsAreCounted' /\ Channels' /\ Controls' /\ Fleet'
  BY <1>1, NothingIsSaid
<1>3. now \in 1..MaxTime /\ now + 1 \in 1..MaxTime /\ 1..now \subseteq 1..now + 1
      /\ 0..now \subseteq 0..now + 1
  BY <1>1 DEF IInv, Times
<1>4. Times'
  BY <1>1, <1>3 DEF IInv, Times
<1>5. Histories'
  BY <1>1 DEF IInv, Histories, Of
<1>6. Drawn'
  <2>1. \A e \in Endpoint : shown[e] \in [Eid -> 0..now + 1]
    BY <1>3 DEF IInv, Drawn
  <2> QED
    BY <1>1, <2>1 DEF IInv, Drawn
<1> QED
  BY <1>1, <1>2, <1>4, <1>5, <1>6 DEF IInv

LEMMA StutteringStep == IInv /\ UNCHANGED vars => IInv'
<1> SUFFICES ASSUME IInv, UNCHANGED vars PROVE IInv'
  OBVIOUS
<1>1. UNCHANGED <<session, now, entities, controlled_map, frame_counter, last_time,
                  channel, joins, snapshots, sent_join, known, my_entity, picture,
                  joined, missed>>
  BY DEF vars, server, network, client
<1>2. Handles' /\ IdsAreCounted' /\ Channels' /\ Controls' /\ Fleet'
  BY <1>1, NothingIsSaid
<1>3. Times' /\ Histories' /\ Drawn'
  BY <1>1, NothingIsSeen
<1> QED
  BY <1>2, <1>3 DEF IInv

LEMMA NextIInv == IInv /\ [Next]_vars => IInv'
<1> SUFFICES ASSUME IInv, [Next]_vars PROVE IInv'
  OBVIOUS
<1>1. ASSUME NEW e \in Endpoint, NEW p \in Pointer, OnConnected(e, p) PROVE IInv'
  BY <1>1, OnConnectedStep
<1>2. ASSUME NEW e \in Endpoint, OnDisconnected(e) PROVE IInv'
  BY <1>2, OnDisconnectedStep
<1>3. ASSUME NEW e \in Endpoint, OnJoin(e) PROVE IInv'
  BY <1>3, OnJoinStep
<1>4. ASSUME NEW e \in Endpoint, SendJoin(e) PROVE IInv'
  BY <1>4, SendJoinStep
<1>5. ASSUME NEW e \in Endpoint, OnNewEntityPacket(e) PROVE IInv'
  BY <1>5, OnNewEntityPacketStep
<1>6. ASSUME NEW e \in Endpoint, OnSetControlledEntity(e) PROVE IInv'
  BY <1>6, OnSetControlledEntityStep
<1>7. ASSUME NEW e \in Endpoint, NEW s \in snapshots[e], OnSnapshot(e, s) PROVE IInv'
  BY <1>7, OnSnapshotStep
<1>8. ASSUME NEW e \in Endpoint, NEW stepped \in BOOLEAN,
             ProcessSnapshotHistory(e, stepped)
      PROVE  IInv'
  BY <1>8, ProcessSnapshotHistoryStep
<1>9. CASE SimulateWorld
  BY <1>9, SimulateWorldStep
<1>10. CASE Tick
  BY <1>10, TickStep
<1>11. CASE UNCHANGED vars
  BY <1>11, StutteringStep
<1> QED
  BY <1>1, <1>2, <1>3, <1>4, <1>5, <1>6, <1>7, <1>8, <1>9, <1>10, <1>11 DEF Next

\* What is drawn of a ship changes in ProcessSnapshotHistory only.
LEMMA NoShipRunsBack ==
  ASSUME IInv, [Next]_vars, NEW e \in Endpoint, NEW eid \in known[e],
         shown[e][eid] <= now - kInterpolationTime
  PROVE  shown'[e][eid] >= shown[e][eid]
<1>1. eid \in Eid
  BY IdsAreEnough DEF IInv, Fleet
<1>2. shown[e][eid] \in Nat
  BY <1>1 DEF IInv, Drawn
<1>3. CASE UNCHANGED shown
  BY <1>2, <1>3
<1>4. ASSUME NEW f \in Endpoint, NEW stepped \in BOOLEAN,
             ProcessSnapshotHistory(f, stepped)
      PROVE  shown'[e][eid] >= shown[e][eid]
  <2>0. PICK target \in Int : target = now - kInterpolationTime
    BY DEF IInv, Times
  <2>1. shown' = [shown EXCEPT
                    ![f] = [x \in Eid |->
                              IF x \in known[f] /\ Kept(snapshot_history[f][x], target) # <<>>
                              THEN Interpolated(Kept(snapshot_history[f][x], target), target)
                              ELSE shown[f][x]]]
    BY <1>4, <2>0, ShownAfter
  <2>2. CASE f # e
    BY <1>2, <2>1, <2>2 DEF IInv, Drawn
  <2>3. CASE f = e
    <3>1. PICK t : t = Kept(snapshot_history[e][eid], target)
      OBVIOUS
    <3>2. shown'[e][eid] = IF t # <<>> THEN Interpolated(t, target) ELSE shown[e][eid]
      BY <1>1, <2>1, <2>3, <3>1 DEF IInv, Drawn
    <3>3. t # <<>> => /\ Interpolated(t, target) \in 0..now
                      /\ shown[e][eid] <= Interpolated(t, target)
      BY <1>1, <2>0, <3>1, ShipIsDrawn
    <3>4. now \in Nat
      BY DEF IInv, Times
    <3>5. CASE t = <<>>
      BY <1>2, <3>2, <3>5
    <3>6. CASE t # <<>>
      BY <1>2, <3>2, <3>3, <3>4, <3>6
    <3> QED
      BY <3>5, <3>6
  <2> QED
    BY <2>2, <2>3
<1>5. CASE UNCHANGED vars
  BY <1>3, <1>5 DEF vars, client, picture
<1>6. CASE SimulateWorld \/ Tick
  BY <1>3, <1>6 DEF SimulateWorld, Tick, client, picture
<1>7. ASSUME NEW f \in Endpoint,
             \/ \E p \in Pointer : OnConnected(f, p)
             \/ OnDisconnected(f) \/ OnJoin(f) \/ SendJoin(f)
             \/ OnNewEntityPacket(f) \/ OnSetControlledEntity(f)
             \/ \E s \in snapshots[f] : OnSnapshot(f, s)
      PROVE  UNCHANGED shown
  BY <1>7 DEF OnConnected, OnDisconnected, OnJoin, SendJoin, OnNewEntityPacket,
              OnSetControlledEntity, OnSnapshot, client, picture
<1> QED
  BY <1>3, <1>4, <1>5, <1>6, <1>7 DEF Next

-----------------------------------------------------------------------------
(* Theorems *)

\* With enough ids every variable keeps its type: no id is kInvalidEntity, and
\* what is drawn is never ahead of the clock (main.cpp, ProcessSnapshotHistory).
THEOREM TypeIsKept == EnoughIds /\ Spec => []TypeOK
<1>1. IInv => TypeOK
  BY InvariantSaysAll
<1> QED
  BY <1>1, InitIInv, NextIInv, PTL DEF Spec

\* Server and clients agree on which ships there are and who steers them,
\* however sessions end and Joins are lost (server.cpp, OnJoin; main.cpp,
\* OnNewEntityPacket, OnSetControlledEntity).
THEOREM FleetStaysAgreed == EnoughIds /\ Spec => []FleetIsAgreed
<1>1. IInv => FleetIsAgreed
  BY InvariantSaysAll
<1> QED
  BY <1>1, InitIInv, NextIInv, PTL DEF Spec

\* A ship is not seen to move back in time, whichever snapshots come, in
\* whatever order and however often, unless it was drawn ahead of the moment
\* aimed at (main.cpp, OnSnapshot, ProcessSnapshotHistory).
THEOREM ShipsAreNotSeenToRunBack == EnoughIds /\ Spec => ShownTimeNeverRunsBack
<1>1. IInv /\ [Next]_vars =>
        [\A e \in Endpoint : \A eid \in known[e] :
           shown[e][eid] <= now - kInterpolationTime =>
             shown'[e][eid] >= shown[e][eid]]_vars
  BY NoShipRunsBack
<1> QED
  BY <1>1, InitIInv, NextIInv, PTL DEF Spec, ShownTimeNeverRunsBack
=============================================================================
