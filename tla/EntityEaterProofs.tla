------------------------- MODULE EntityEaterProofs -------------------------
(***************************************************************************)
(* Nobody steers the entity of another, for any number of clients, however *)
(* their sessions end and begin and however late a client reads what it    *)
(* was sent; what a client holds of the scores is the truth but for what   *)
(* is on its way to it; and every number the game keeps stays in its range.*)
(***************************************************************************)
EXTENDS EntityEater, OperatorProofs, TLAPS

USE NoClientAssumption, EaterAssumption

-----------------------------------------------------------------------------
(* The inductive invariant *)

Message ==
  [type : {"NewEntity", "ScoreUpdate", "GameOver"}, eid : Nat, score : Int]
    \cup [type : {"SetControlledEntity"}, eid : Nat]

\* The entities e was told to control, or will be when its channel is read.
Given(e) ==
  ({my_entity[e]} \ {0})
    \cup {m.eid : m \in {x \in ToSet(channel[e]) : x.type = "SetControlledEntity"}}

\* The shape of what TypeOK says only the entries of.
Shapes ==
  /\ channel \in [Endpoint -> Seq(Message)]
  /\ my_entity \in [Endpoint -> Nat]
  /\ DOMAIN leaderboard = Endpoint
  /\ DOMAIN result = Endpoint
  /\ \A e \in Endpoint : \A m \in ToSet(channel[e]) : m.eid \in DOMAIN scores

\* No two open sessions share a handle.
SessionsAreDistinct ==
  \A e, f \in Endpoint : IsOpen(e) /\ session[e] = session[f] => e = f

\* A client is handled one Join in its life.
OneJoin ==
  /\ \A e \in joins : IsOpen(e) /\ sent_join[e] /\ e \notin joined
  /\ \A e \in joined : sent_join[e]
  /\ \A e \in Endpoint : Given(e) # {} => e \in joined

\* What a client is given it is given alone, and the map of the server names
\* the session it was given to.
GivenOnce ==
  /\ \A e, f \in Endpoint : Given(e) \cap Given(f) # {} => e = f
  /\ \A e \in Endpoint : \A x, y \in Given(e) : x = y
  /\ \A eid \in DOMAIN scores :
       controlled_map[eid] # NoClient =>
         \E e \in Endpoint : session[e] = controlled_map[eid] /\ Given(e) = {eid}

\* The numbers of the game.
Numbers ==
  /\ \A eid \in DOMAIN scores : scores[eid] <= bites * MaxGain
  /\ game_over <=> game_time_remaining = 0
  /\ IF created_ai_entities THEN scores # <<>> ELSE scores = <<>>

IInv ==
  /\ TypeOK
  /\ Shapes
  /\ SessionsAreDistinct
  /\ OneJoin
  /\ GivenOnce
  /\ Numbers

\* The copy of e with all that is on its way to e.
After(copy, messages) == Reading(copy, messages)[Len(messages)]
Latest(e) == After(leaderboard[e], channel[e])

\* What a client in its first session holds and is sent is the truth.
Exact ==
  \A e \in Endpoint : FirstSession(e) =>
    /\ DOMAIN Latest(e) \subseteq DOMAIN scores
    /\ \A eid \in DOMAIN Latest(e) : Latest(e)[eid] = scores[eid]
    /\ e \in joined => DOMAIN Latest(e) = DOMAIN scores

\* Before its first session a client knows nothing; who has joined finds the
\* AI entities created.
NothingYet ==
  /\ \A e \in Endpoint :
       ~IsOpen(e) /\ e \notin missed =>
         channel[e] = <<>> /\ leaderboard[e] = <<>> /\ e \notin joined
  /\ joined # {} => created_ai_entities

\* A verdict is confirmed by the copy it is read into, if its reader plays by
\* then.
Confirms(board, m) ==
  /\ m.eid \in DOMAIN board
  /\ board[m.eid] = m.score
  /\ \A eid \in DOMAIN board : board[eid] <= m.score

Confirmed(me, copy, messages) ==
  \A i \in 1..Len(messages) :
    messages[i].type = "GameOver"
    /\ (me # 0 \/ \E j \in 1..i - 1 : messages[j].type = "SetControlledEntity")
    => Confirms(Reading(copy, messages)[i - 1], messages[i])

Verdicts ==
  \A e \in Endpoint :
    FirstSession(e) => Confirmed(my_entity[e], leaderboard[e], channel[e])

\* The invariant of the scores, over that of the rest.
SInv ==
  /\ Exact
  /\ NothingYet
  /\ Verdicts

-----------------------------------------------------------------------------
(* Scores *)

\* The scores are a sequence of numbers, counted from 1.
LEMMA ScoresAreNumbers ==
  ASSUME TypeOK
  PROVE  /\ Len(scores) \in Nat /\ DOMAIN scores = 1..Len(scores)
         /\ DOMAIN scores \subseteq Nat \ {0}
         /\ \A eid \in DOMAIN scores : scores[eid] \in Score
         /\ MaxBites * MaxGain \in Nat /\ Score \subseteq Nat
<1>1. scores \in Seq(Score)
  BY DEF TypeOK
<1>2. /\ Len(scores) \in Nat /\ DOMAIN scores = 1..Len(scores)
      /\ scores \in [1..Len(scores) -> Score]
  BY <1>1, LenProperties
<1>3. MaxBites * MaxGain \in Nat
  OBVIOUS
<1> QED
  BY <1>2, <1>3 DEF Score

\* One more bite is worth MaxGain at most.
LEMMA BiteBound ==
  ASSUME NEW b \in Nat, b < MaxBites
  PROVE  /\ b * MaxGain \in Nat /\ (b + 1) * MaxGain = b * MaxGain + MaxGain
         /\ (b + 1) * MaxGain <= MaxBites * MaxGain
<1>1. PICK d \in Nat : MaxBites = b + 1 + d
  <2>1. MaxBites - (b + 1) \in Nat /\ MaxBites = b + 1 + (MaxBites - (b + 1))
    OBVIOUS
  <2> QED
    BY <2>1
<1>2. MaxBites * MaxGain = (b + 1) * MaxGain + d * MaxGain
  BY <1>1
<1>3. d * MaxGain \in Nat /\ b * MaxGain \in Nat /\ (b + 1) * MaxGain \in Nat
  OBVIOUS
<1> QED
  BY <1>2, <1>3

\* There is a first entity among those with the highest score.
LEMMA LeaderExists ==
  ASSUME TypeOK, scores # <<>>
  PROVE  /\ Leader \in DOMAIN scores
         /\ \A eid \in DOMAIN scores : scores[eid] <= scores[Leader]
<1> DEFINE top == MaxBites * MaxGain
           Below == {top - scores[eid] : eid \in DOMAIN scores}
           Best == {eid \in DOMAIN scores :
                      \A other \in DOMAIN scores : scores[other] <= scores[eid]}
<1>1. /\ Len(scores) \in Nat /\ DOMAIN scores = 1..Len(scores)
      /\ \A eid \in DOMAIN scores : scores[eid] \in 0..top
      /\ top \in Nat
  BY ScoresAreNumbers DEF Score
<1>2. 1 \in DOMAIN scores
  BY <1>1, EmptySeq DEF TypeOK
<1> HIDE DEF top
<1>3. Below \subseteq Nat /\ Below # {}
  BY <1>1, <1>2
<1>4. PICK x \in Below : \A y \in Below : x <= y
  <2> HIDE DEF Below
  <2> QED
    BY <1>3, LeastNumber, Zenon
<1>5. PICK eid \in DOMAIN scores : x = top - scores[eid]
  BY <1>4
<1>6. eid \in Best
  <2> SUFFICES ASSUME NEW other \in DOMAIN scores PROVE scores[other] <= scores[eid]
    BY <1>5
  <2>1. top - scores[eid] <= top - scores[other]
    BY <1>4, <1>5
  <2>2. scores[eid] \in Nat /\ scores[other] \in Nat
    BY <1>1, <1>5
  <2> QED
    BY <1>1, <2>1, <2>2
<1>7. Best \subseteq Nat /\ Best # {}
  BY <1>1, <1>6
<1>8. PICK first \in Best : \A other \in Best : first <= other
  <2> HIDE DEF Best
  <2> QED
    BY <1>7, LeastNumber, Zenon
<1>9. ASSUME NEW other \in 1..first - 1 PROVE scores[other] < scores[first]
  <2>1. other \in DOMAIN scores /\ other < first /\ other \notin Best
    <3>1. first \in 1..Len(scores)
      BY <1>1, <1>8
    <3>2. other \in 1..Len(scores) /\ other < first /\ ~(first <= other)
      BY <1>1, <3>1
    <3> QED
      BY <1>1, <1>8, <3>2
  <2>2. PICK better \in DOMAIN scores : ~(scores[better] <= scores[other])
    BY <2>1
  <2>3. scores[better] <= scores[first]
    BY <1>8
  <2>4. /\ scores[other] \in Nat /\ scores[better] \in Nat
        /\ scores[first] \in Nat
    BY <1>1, <1>8, <2>1
  <2> QED
    BY <2>2, <2>3, <2>4
<1>10. \E leader \in DOMAIN scores :
         /\ \A other \in DOMAIN scores : scores[other] <= scores[leader]
         /\ \A other \in 1..leader - 1 : scores[other] < scores[leader]
  BY <1>8, <1>9
<1> QED
  BY <1>10 DEF Leader

-----------------------------------------------------------------------------
(* A channel that is read: one copy after each message *)

\* Each copy comes from the one before.
LEMMA ReadingStep ==
  ASSUME NEW S, NEW messages \in Seq(S), NEW copy
  PROVE  /\ Reading(copy, messages)[0] = copy
         /\ \A i \in 1..Len(messages) :
              Reading(copy, messages)[i]
                = Scored(Reading(copy, messages)[i - 1], messages[i])
<1> DEFINE n == Len(messages)
           Value(f, i) == IF i = 0 THEN copy ELSE Scored(f[i - 1], messages[i])
           Solved == {m \in 0..n : \E f : f = [i \in 0..m |-> Value(f, i)]}
<1>1. n \in Nat
  BY LenProperties
<1>2. 0 \in Solved
  <2> DEFINE f == [i \in 0..0 |-> copy]
  <2>1. f = [i \in 0..0 |-> Value(f, i)]
    OBVIOUS
  <2>2. 0 \in 0..n
    BY <1>1
  <2> QED
    BY <2>1, <2>2
<1>3. ASSUME NEW m \in 0..n - 1, m \in Solved PROVE m + 1 \in Solved
  <2>1. PICK f : f = [i \in 0..m |-> Value(f, i)]
    BY <1>3
  <2> DEFINE g == [i \in 0..m + 1 |-> IF i <= m THEN f[i] ELSE Value(f, i)]
  <2>2. m \in Nat /\ m + 1 \in 0..n
    BY <1>1
  <2>3. ASSUME NEW i \in 0..m + 1 PROVE g[i] = Value(g, i)
    <3>1. \A k \in 0..m : f[k] = Value(f, k)
      BY <2>1
    <3>2. i <= m => i \in 0..m
      BY <2>2
    <3>3. g[i] = Value(f, i)
      BY <3>1, <3>2
    <3>4. i # 0 => i - 1 \in 0..m + 1 /\ i - 1 <= m
      BY <2>2
    <3>5. i # 0 => g[i - 1] = f[i - 1]
      BY <3>4
    <3> HIDE DEF g
    <3> QED
      BY <3>3, <3>5
  <2>4. g = [i \in 0..m + 1 |-> g[i]]
    OBVIOUS
  <2> HIDE DEF g
  <2>5. g = [i \in 0..m + 1 |-> Value(g, i)]
    BY <2>3, <2>4
  <2> QED
    BY <2>2, <2>5
<1>4. n \in Solved
  <2>1. n \in 0..n
    BY <1>1
  <2> HIDE DEF Solved, n
  <2> QED
    BY <1>1, <1>2, <1>3, <2>1, AllNumbers
<1>5. PICK f : f = [i \in 0..n |-> Value(f, i)]
  BY <1>4
<1> DEFINE read == CHOOSE g : g = [i \in 0..n |-> Value(g, i)]
<1>6. read = [i \in 0..n |-> Value(read, i)]
  BY <1>5
<1>7. Reading(copy, messages) = read
  BY DEF Reading
<1> HIDE DEF read
<1>8. \A i \in 0..n : read[i] = Value(read, i)
  BY <1>6
<1>9. read[0] = copy
  BY <1>1, <1>8
<1>10. \A i \in 1..n : i \in 0..n /\ i # 0
  BY <1>1
<1> QED
  BY <1>7, <1>8, <1>9, <1>10

\* There is one way to read: what goes by the same steps is the same.
LEMMA ReadingIsTheOnly ==
  ASSUME NEW S, NEW messages \in Seq(S), NEW copy,
         NEW n \in 0..Len(messages), NEW f,
         f[0] = copy, \A i \in 1..n : f[i] = Scored(f[i - 1], messages[i])
  PROVE  \A i \in 0..n : f[i] = Reading(copy, messages)[i]
<1> DEFINE R == Reading(copy, messages)
           Same == {i \in 0..n : f[i] = R[i]}
<1>1. n \in Nat /\ 0 \in 0..n /\ 1..n \subseteq 1..Len(messages)
  BY LenProperties
<1>2. R[0] = copy /\ \A i \in 1..Len(messages) : R[i] = Scored(R[i - 1], messages[i])
  BY ReadingStep
<1> HIDE DEF R
<1>3. 0 \in Same
  BY <1>1, <1>2
<1>4. ASSUME NEW i \in 0..n - 1, i \in Same PROVE i + 1 \in Same
  <2>1. i + 1 \in 1..n /\ i + 1 \in 0..n /\ (i + 1) - 1 = i
    BY <1>1
  <2>2. f[i + 1] = Scored(f[i], messages[i + 1]) /\ R[i + 1] = Scored(R[i], messages[i + 1])
    BY <1>1, <1>2, <2>1
  <2> QED
    BY <1>4, <2>1, <2>2
<1>5. \A i \in 0..n : i \in Same
  <2> HIDE DEF Same
  <2> QED
    BY <1>1, <1>3, <1>4, AllNumbers
<1> QED
  BY <1>5 DEF R

\* More messages are read after those that were there.
LEMMA ReadingOn ==
  ASSUME NEW S, NEW messages \in Seq(S), NEW more \in Seq(S), NEW copy
  PROVE  LET all == messages \o more
             before == Reading(copy, messages)
         IN /\ \A i \in 0..Len(messages) : Reading(copy, all)[i] = before[i]
            /\ \A i \in 0..Len(more) :
                 Reading(copy, all)[Len(messages) + i]
                   = Reading(before[Len(messages)], more)[i]
<1> DEFINE a == Len(messages)
           b == Len(more)
           before == Reading(copy, messages)
<1>0. PICK all \in Seq(S) : all = messages \o more
  BY ConcatProperties
<1>1. /\ a \in Nat /\ b \in Nat /\ Len(all) = a + b
      /\ \A i \in 1..a : all[i] = messages[i]
      /\ \A i \in 1..b : all[a + i] = more[i]
  BY <1>0, ConcatIndices
<1>2. PICK R : R = Reading(copy, all)
  OBVIOUS
<1>3. R[0] = copy /\ \A i \in 1..Len(all) : R[i] = Scored(R[i - 1], all[i])
  BY <1>2, ReadingStep
<1>4. \A i \in 0..a : R[i] = before[i]
  <2>1. \A i \in 1..a : R[i] = Scored(R[i - 1], messages[i])
    <3>1. 1..a \subseteq 1..Len(all)
      BY <1>1
    <3> QED
      BY <1>1, <1>3, <3>1
  <2>2. a \in 0..Len(messages)
    BY <1>1
  <2> HIDE DEF a
  <2> QED
    BY <1>3, <2>1, <2>2, ReadingIsTheOnly, SMTT(40)
<1>5. R[a] = before[a]
  BY <1>1, <1>4
<1>6. PICK f : f = [i \in 0..b |-> R[a + i]]
  OBVIOUS
<1>7. \A i \in 0..b : f[i] = Reading(before[a], more)[i]
  <2>1. f[0] = before[a]
    <3>1. 0 \in 0..b /\ a + 0 = a
      BY <1>1
    <3> QED
      BY <1>5, <1>6, <3>1
  <2>2. ASSUME NEW i \in 1..b PROVE f[i] = Scored(f[i - 1], more[i])
    <3>1. /\ i \in 0..b /\ i - 1 \in 0..b /\ a + i \in 1..Len(all)
          /\ (a + i) - 1 = a + (i - 1)
      BY <1>1
    <3>2. f[i] = R[a + i] /\ f[i - 1] = R[(a + i) - 1]
      BY <1>6, <3>1
    <3> QED
      BY <1>1, <1>3, <3>1, <3>2
  <2>3. b \in 0..Len(more)
    BY <1>1
  <2>4. PICK start : start = before[a]
    OBVIOUS
  <2>5. f[0] = start
    BY <2>1, <2>4
  <2> HIDE DEF a, b, before
  <2>6. \A i \in 0..b : f[i] = Reading(start, more)[i]
    BY <2>2, <2>3, <2>5, ReadingIsTheOnly
  <2> QED
    BY <2>4, <2>6
<1>8. \A i \in 0..b : R[a + i] = Reading(before[a], more)[i]
  BY <1>6, <1>7
<1> QED
  BY <1>0, <1>2, <1>4, <1>8

\* Once the first message is read, the rest is read from there.
LEMMA ReadingTheRest ==
  ASSUME NEW S, NEW messages \in Seq(S), messages # <<>>, NEW copy
  PROVE  \A i \in 0..Len(messages) - 1 :
           Reading(Scored(copy, Head(messages)), Tail(messages))[i]
             = Reading(copy, messages)[i + 1]
<1> DEFINE n == Len(messages) - 1
<1>1. /\ n \in Nat /\ Tail(messages) \in Seq(S) /\ Len(Tail(messages)) = n
      /\ Head(messages) = messages[1]
      /\ \A i \in 1..n : Tail(messages)[i] = messages[i + 1]
  BY HeadTailProperties, EmptySeq, LenProperties
<1>2. PICK rest \in Seq(S) : rest = Tail(messages)
  BY <1>1
<1>3. PICK R : R = Reading(copy, messages)
  OBVIOUS
<1>4. R[0] = copy /\ \A i \in 1..Len(messages) : R[i] = Scored(R[i - 1], messages[i])
  BY <1>3, ReadingStep
<1>5. PICK f : f = [i \in 0..n |-> R[i + 1]]
  OBVIOUS
<1>6. f[0] = Scored(copy, Head(messages))
  <2>1. 0 \in 0..n /\ 0 + 1 = 1 /\ 1 \in 1..Len(messages) /\ 1 - 1 = 0
    BY <1>1
  <2> QED
    BY <1>1, <1>4, <1>5, <2>1
<1>7. ASSUME NEW i \in 1..n PROVE f[i] = Scored(f[i - 1], rest[i])
  <2>1. /\ i \in 0..n /\ i - 1 \in 0..n /\ i + 1 \in 1..Len(messages)
        /\ (i + 1) - 1 = i /\ (i - 1) + 1 = i
    BY <1>1
  <2>2. f[i] = R[i + 1] /\ f[i - 1] = R[i]
    BY <1>5, <2>1
  <2> QED
    BY <1>1, <1>2, <1>4, <2>1, <2>2
<1>8. n \in 0..Len(rest)
  BY <1>1, <1>2
<1>9. PICK start : start = Scored(copy, Head(messages))
  OBVIOUS
<1>10. \A i \in 0..n : f[i] = Reading(start, rest)[i]
  <2> HIDE DEF n
  <2> QED
    BY <1>6, <1>7, <1>8, <1>9, ReadingIsTheOnly
<1> QED
  BY <1>2, <1>3, <1>5, <1>9, <1>10

\* What one message does to a copy.
LEMMA EntityIsLearnt ==
  \A copy, eid, score :
    /\ \A k : k \in DOMAIN Scored(copy, NewEntity(eid, score))
               <=> k \in DOMAIN copy \/ k = eid
    /\ \A k \in DOMAIN copy : Scored(copy, NewEntity(eid, score))[k] = copy[k]
    /\ eid \notin DOMAIN copy => Scored(copy, NewEntity(eid, score))[eid] = score
<1> TAKE copy, eid, score
<1>1. /\ NewEntity(eid, score).type = "NewEntity"
      /\ NewEntity(eid, score).eid = eid /\ NewEntity(eid, score).score = score
  BY DEF NewEntity
<1>2. Scored(copy, NewEntity(eid, score)) = WithEntity(copy, eid, score)
  BY <1>1 DEF Scored
<1> QED
  BY <1>2 DEF WithEntity

LEMMA ScoreIsLearnt ==
  \A copy, eid, score :
    /\ DOMAIN Scored(copy, ScoreUpdate(eid, score)) = DOMAIN copy
    /\ \A k \in DOMAIN copy :
         Scored(copy, ScoreUpdate(eid, score))[k] = IF k = eid THEN score ELSE copy[k]
<1> TAKE copy, eid, score
<1>1. /\ ScoreUpdate(eid, score).type = "ScoreUpdate"
      /\ ScoreUpdate(eid, score).eid = eid /\ ScoreUpdate(eid, score).score = score
  BY DEF ScoreUpdate
<1>2. Scored(copy, ScoreUpdate(eid, score)) = WithScore(copy, eid, score)
  BY <1>1 DEF Scored
<1>3. CASE eid \in DOMAIN copy
  <2>1. Scored(copy, ScoreUpdate(eid, score)) = [copy EXCEPT ![eid] = score]
    BY <1>2, <1>3 DEF WithScore
  <2> QED
    BY <2>1
<1>4. CASE eid \notin DOMAIN copy
  <2>1. Scored(copy, ScoreUpdate(eid, score)) = copy
    BY <1>2, <1>4 DEF WithScore
  <2> QED
    BY <1>4, <2>1
<1> QED
  BY <1>3, <1>4

LEMMA OtherIsNotLearnt ==
  ASSUME NEW copy, NEW m, m.type \notin {"NewEntity", "ScoreUpdate"}
  PROVE  Scored(copy, m) = copy
BY DEF Scored

\* The copy after no message, after one and after two.
LEMMA NoneIsRead == \A copy : After(copy, <<>>) = copy
<1>1. <<>> \in Seq({}) /\ Len(<<>>) = 0
  BY EmptySeq
<1> QED
  BY <1>1, ReadingStep DEF After

LEMMA OneIsRead ==
  ASSUME NEW S, NEW one \in Seq(S), Len(one) = 1, NEW copy
  PROVE  After(copy, one) = Scored(copy, one[1])
<1>1. /\ Reading(copy, one)[0] = copy
      /\ \A i \in 1..Len(one) :
           Reading(copy, one)[i] = Scored(Reading(copy, one)[i - 1], one[i])
  BY ReadingStep
<1>2. 1 \in 1..Len(one) /\ 1 - 1 = 0
  OBVIOUS
<1>3. Reading(copy, one)[1] = Scored(Reading(copy, one)[0], one[1])
  BY <1>1, <1>2
<1> QED
  BY <1>1, <1>3 DEF After

LEMMA TwoAreRead ==
  ASSUME NEW S, NEW two \in Seq(S), NEW copy
  PROVE  Len(two) = 2 => After(copy, two) = Scored(Scored(copy, two[1]), two[2])
<1>1. /\ Reading(copy, two)[0] = copy
      /\ \A i \in 1..Len(two) :
           Reading(copy, two)[i] = Scored(Reading(copy, two)[i - 1], two[i])
  BY ReadingStep
<1> HAVE Len(two) = 2
<1>2. 1 \in 1..Len(two) /\ 2 \in 1..Len(two) /\ 1 - 1 = 0 /\ 2 - 1 = 1
  OBVIOUS
<1>3. Reading(copy, two)[1] = Scored(Reading(copy, two)[0], two[1])
  BY <1>1, <1>2
<1>4. Reading(copy, two)[2] = Scored(Reading(copy, two)[1], two[2])
  BY <1>1, <1>2
<1> QED
  BY <1>1, <1>3, <1>4 DEF After

\* The copy after more messages.
LEMMA AfterOn ==
  ASSUME NEW S, NEW messages \in Seq(S), NEW more \in Seq(S), NEW copy
  PROVE  After(copy, messages \o more) = After(After(copy, messages), more)
<1>1. /\ Len(messages) \in Nat /\ Len(more) \in Nat
      /\ Len(messages \o more) = Len(messages) + Len(more)
  BY LenProperties, ConcatProperties
<1>2. Len(more) \in 0..Len(more)
  BY <1>1
<1>3. Reading(copy, messages \o more)[Len(messages) + Len(more)]
        = Reading(Reading(copy, messages)[Len(messages)], more)[Len(more)]
  BY <1>2, ReadingOn
<1> QED
  BY <1>1, <1>3 DEF After

\* Told of every entity one by one, a client knows them all; what it knew it
\* still knows.
LEMMA ListingIsLearnt ==
  ASSUME NEW n \in Nat, NEW list, DOMAIN list = 1..n, NEW copy,
         NEW after, after = After(copy, Listing(list))
  PROVE  /\ \A k : k \in DOMAIN after <=> k \in DOMAIN copy \/ k \in 1..n
         /\ \A k \in DOMAIN copy : after[k] = copy[k]
         /\ \A k \in (1..n) \ DOMAIN copy : after[k] = list[k]
<1> DEFINE S == {NewEntity(k, list[k]) : k \in 1..n}
<1>1. PICK ms : ms = Listing(list)
  OBVIOUS
<1>2. ms = [k \in 1..n |-> NewEntity(k, list[k])]
  BY <1>1 DEF Listing
<1>3. ms \in Seq(S) /\ Len(ms) = n
  <2>1. ms \in [1..n -> S]
    BY <1>2
  <2>2. ms \in Seq(S)
    BY <2>1, SeqDef
  <2>3. DOMAIN ms = 1..n /\ DOMAIN ms = 1..Len(ms) /\ Len(ms) \in Nat
    BY <1>2, <2>2, LenProperties
  <2> QED
    BY <2>2, <2>3
<1>4. PICK R : R = Reading(copy, ms)
  OBVIOUS
<1> HIDE DEF S
<1>5. R[0] = copy /\ \A i \in 1..n : R[i] = Scored(R[i - 1], NewEntity(i, list[i]))
  <2>1. R[0] = copy /\ \A i \in 1..n : R[i] = Scored(R[i - 1], ms[i])
    BY <1>3, <1>4, ReadingStep
  <2> QED
    BY <1>2, <2>1
<1> DEFINE Known == {i \in 0..n :
              /\ DOMAIN R[i] = DOMAIN copy \cup 1..i
              /\ \A k \in DOMAIN copy : R[i][k] = copy[k]
              /\ \A k \in (1..i) \ DOMAIN copy : R[i][k] = list[k]}
<1>6. 0 \in Known
  BY <1>5
<1>7. ASSUME NEW i \in 0..n - 1, i \in Known PROVE i + 1 \in Known
  <2>1. /\ i + 1 \in 1..n /\ i + 1 \in 0..n /\ (i + 1) - 1 = i
        /\ 1..i + 1 = 1..i \cup {i + 1} /\ i + 1 \notin 1..i
    OBVIOUS
  <2>2. R[i + 1] = Scored(R[i], NewEntity(i + 1, list[i + 1]))
    BY <1>5, <2>1
  <2>3. /\ \A k : k \in DOMAIN R[i + 1] <=> k \in DOMAIN R[i] \/ k = i + 1
        /\ \A k \in DOMAIN R[i] : R[i + 1][k] = R[i][k]
        /\ i + 1 \notin DOMAIN R[i] => R[i + 1][i + 1] = list[i + 1]
    <3>1. PICK board : board = R[i]
      OBVIOUS
    <3>2. PICK score : score = list[i + 1]
      OBVIOUS
    <3>3. PICK eid : eid = i + 1
      OBVIOUS
    <3>4. PICK next : next = R[eid] /\ next = Scored(board, NewEntity(eid, score))
      BY <2>2, <3>1, <3>2, <3>3
    <3>5. /\ \A k : k \in DOMAIN next <=> k \in DOMAIN board \/ k = eid
          /\ \A k \in DOMAIN board : next[k] = board[k]
          /\ eid \notin DOMAIN board => next[eid] = score
      BY <3>4, EntityIsLearnt
    <3> QED
      BY <3>1, <3>2, <3>3, <3>4, <3>5
  <2>4. /\ DOMAIN R[i] = DOMAIN copy \cup 1..i
        /\ \A k \in DOMAIN copy : R[i][k] = copy[k]
        /\ \A k \in (1..i) \ DOMAIN copy : R[i][k] = list[k]
    BY <1>7
  <2>5. DOMAIN R[i + 1] = DOMAIN copy \cup 1..i + 1
    BY <2>1, <2>3, <2>4
  <2>6. \A k \in DOMAIN copy : R[i + 1][k] = copy[k]
    BY <2>3, <2>4
  <2>7. \A k \in (1..i + 1) \ DOMAIN copy : R[i + 1][k] = list[k]
    <3>1. ASSUME NEW k \in (1..i) \ DOMAIN copy PROVE R[i + 1][k] = list[k]
      BY <2>3, <2>4
    <3>2. i + 1 \notin DOMAIN copy => R[i + 1][i + 1] = list[i + 1]
      BY <2>1, <2>3, <2>4
    <3> QED
      BY <2>1, <3>1, <3>2
  <2> QED
    BY <2>1, <2>5, <2>6, <2>7
<1>8. n \in Known
  <2>1. n \in 0..n
    OBVIOUS
  <2> HIDE DEF Known
  <2> QED
    BY <1>6, <1>7, <2>1, AllNumbers
<1>9. After(copy, Listing(list)) = R[n]
  BY <1>1, <1>3, <1>4 DEF After
<1> QED
  BY <1>8, <1>9

\* What was sent stays confirmed, and with it what is sent after it, if a
\* verdict comes first.
LEMMA ConfirmedOn ==
  ASSUME NEW S, NEW messages \in Seq(S), NEW more \in Seq(S), NEW copy, NEW me,
         Confirmed(me, copy, messages),
         \A i \in 1..Len(more) : more[i].type = "GameOver" =>
           /\ i = 1
           /\ me # 0 \/ (\E j \in 1..Len(messages) :
                           messages[j].type = "SetControlledEntity")
              => Confirms(After(copy, messages), more[i])
  PROVE  Confirmed(me, copy, messages \o more)
<1> DEFINE a == Len(messages)
           b == Len(more)
           before == Reading(copy, messages)
<1>1. PICK all : all = messages \o more
  OBVIOUS
<1>2. PICK R : R = Reading(copy, all)
  OBVIOUS
<1>3. /\ a \in Nat /\ b \in Nat /\ Len(all) = a + b
      /\ \A i \in 1..a : all[i] = messages[i]
      /\ \A i \in 1..b : all[a + i] = more[i]
  BY <1>1, ConcatIndices
<1>4. \A i \in 0..a : R[i] = before[i]
  BY <1>1, <1>2, ReadingOn
<1>5. ASSUME NEW i \in 1..Len(all), all[i].type = "GameOver",
             me # 0 \/ \E j \in 1..i - 1 : all[j].type = "SetControlledEntity"
      PROVE  Confirms(R[i - 1], all[i])
  <2>1. CASE i <= a
    <3>1. i \in 1..a /\ i - 1 \in 0..a /\ 1..i - 1 \subseteq 1..a
      BY <1>3, <2>1
    <3>2. all[i] = messages[i] /\ R[i - 1] = before[i - 1]
      BY <1>3, <1>4, <3>1
    <3>3. me # 0 \/ \E j \in 1..i - 1 : messages[j].type = "SetControlledEntity"
      BY <1>3, <1>5, <3>1
    <3> QED
      BY <1>5, <3>1, <3>2, <3>3 DEF Confirmed
  <2>2. CASE ~(i <= a)
    <3>1. i - a \in 1..b /\ a + (i - a) = i
      BY <1>3, <2>2
    <3>2. all[i] = more[i - a]
      BY <1>3, <3>1
    <3>3. i - a = 1
      BY <1>5, <3>1, <3>2
    <3>4. i - 1 = a /\ a \in 0..a
      BY <1>3, <3>3
    <3>5. R[i - 1] = After(copy, messages)
      BY <1>4, <3>4 DEF After
    <3>6. me # 0 \/ \E j \in 1..a : messages[j].type = "SetControlledEntity"
      BY <1>3, <1>5, <3>4
    <3> QED
      BY <1>5, <3>1, <3>2, <3>5, <3>6
  <2> QED
    BY <2>1, <2>2
<1> QED
  BY <1>1, <1>2, <1>5 DEF Confirmed

\* What is left to read stays confirmed, for who has read the first message.
LEMMA ConfirmedRest ==
  ASSUME NEW S, NEW messages \in Seq(S), messages # <<>>, NEW copy, NEW me,
         Confirmed(me, copy, messages), NEW next,
         next # 0 => me # 0 \/ Head(messages).type = "SetControlledEntity"
  PROVE  Confirmed(next, Scored(copy, Head(messages)), Tail(messages))
<1> DEFINE n == Len(messages) - 1
           R == Reading(copy, messages)
<1>1. PICK rest : rest = Tail(messages)
  OBVIOUS
<1>2. /\ n \in Nat /\ Len(rest) = n /\ Head(messages) = messages[1]
      /\ \A i \in 1..n : rest[i] = messages[i + 1]
  BY <1>1, HeadTailProperties, EmptySeq, LenProperties
<1>3. PICK Q : Q = Reading(Scored(copy, Head(messages)), rest)
  OBVIOUS
<1>4. \A i \in 0..n : Q[i] = R[i + 1]
  BY <1>1, <1>3, ReadingTheRest
<1>5. ASSUME NEW i \in 1..Len(rest), rest[i].type = "GameOver",
             next # 0 \/ \E j \in 1..i - 1 : rest[j].type = "SetControlledEntity"
      PROVE  Confirms(Q[i - 1], rest[i])
  <2>1. /\ i \in 1..n /\ i + 1 \in 1..Len(messages) /\ (i + 1) - 1 = i
        /\ i - 1 \in 0..n /\ (i - 1) + 1 = i /\ 1 \in 1..i
    BY <1>2
  <2>2. rest[i] = messages[i + 1] /\ Q[i - 1] = R[i]
    BY <1>2, <1>4, <2>1
  <2>3. me # 0 \/ \E j \in 1..i : messages[j].type = "SetControlledEntity"
    <3>1. CASE next # 0
      BY <1>2, <2>1, <3>1
    <3>2. CASE \E j \in 1..i - 1 : rest[j].type = "SetControlledEntity"
      <4>1. PICK j \in 1..i - 1 : rest[j].type = "SetControlledEntity"
        BY <3>2
      <4>2. j \in 1..n /\ j + 1 \in 1..i
        BY <1>2, <2>1
      <4> QED
        BY <1>2, <4>1, <4>2
    <3> QED
      BY <1>5, <3>1, <3>2
  <2>4. Confirms(R[(i + 1) - 1], messages[i + 1])
    BY <1>5, <2>1, <2>2, <2>3 DEF Confirmed
  <2> QED
    BY <2>1, <2>2, <2>4
<1> QED
  BY <1>1, <1>3, <1>5 DEF Confirmed

-----------------------------------------------------------------------------
LEMMA InitIInv == Init => IInv
<1> SUFFICES ASSUME Init PROVE IInv
  OBVIOUS
<1>1. TypeOK
  <2>1. scores \in Seq(Score) /\ DOMAIN scores = {}
    BY EmptySeq, NoElements DEF Init
  <2>2. GameDuration \in 0..GameDuration /\ 0 \in 0..MaxBites
    OBVIOUS
  <2>3. \A e \in Endpoint : DOMAIN leaderboard[e] = {}
    BY NoElements DEF Init
  <2>4. DOMAIN controlled_map = DOMAIN scores
    BY NoElements DEF Init
  <2> QED
    BY <2>1, <2>2, <2>3, <2>4 DEF Init, TypeOK, SessionInit, SessionTypeOK
<1>2. \A e \in Endpoint : ToSet(channel[e]) = {}
  BY NoElements DEF Init
<1>3. \A e \in Endpoint : Given(e) = {}
  BY <1>2 DEF Init, Given
<1>4. Shapes
  <2>1. <<>> \in Seq(Message)
    BY EmptySeq
  <2> QED
    BY <1>2, <2>1 DEF Init, Shapes
<1>5. SessionsAreDistinct
  BY DEF Init, SessionInit, SessionsAreDistinct, IsOpen
<1>6. OneJoin
  BY <1>3 DEF Init, OneJoin
<1>7. GivenOnce
  BY <1>3 DEF Init, GivenOnce
<1>8. Numbers
  BY DEF Init, Numbers
<1> QED
  BY <1>1, <1>4, <1>5, <1>6, <1>7, <1>8 DEF IInv

-----------------------------------------------------------------------------
(* Sessions *)

LEMMA OnConnectedStep ==
  ASSUME IInv, NEW e \in Endpoint, NEW p \in Pointer, OnConnected(e, p)
  PROVE  IInv'
<1>1. /\ session[e] = NoClient /\ p \in Pointer /\ p # NoClient
      /\ \A f \in Endpoint : session[f] # p
      /\ session' = [session EXCEPT ![e] = p]
      /\ UNCHANGED <<scores, controlled_map, created_ai_entities,
                     game_time_remaining, game_over, bites, channel, joins,
                     sent_join, my_entity, leaderboard, result, joined, missed>>
  BY DEF OnConnected, OpenSession, OpenHandles, IsOpen, server, client
<1>2. session' \in [Endpoint -> Pointer \cup {NoClient}] /\ session'[e] = p
      /\ \A f \in Endpoint \ {e} : session'[f] = session[f]
  BY <1>1 DEF IInv, TypeOK, SessionTypeOK
<1>3. TypeOK'
  BY <1>1, <1>2 DEF IInv, TypeOK, SessionTypeOK
<1>4. \A f \in Endpoint : Given(f)' = Given(f)
  BY <1>1 DEF Given
<1>5. Shapes'
  BY <1>1 DEF IInv, Shapes
<1>6. SessionsAreDistinct'
  BY <1>1, <1>2 DEF IInv, SessionsAreDistinct, IsOpen
<1>7. OneJoin'
  BY <1>1, <1>2, <1>4 DEF IInv, OneJoin, IsOpen, TypeOK
<1>8. GivenOnce'
  <2>1. ASSUME NEW eid \in DOMAIN scores, controlled_map[eid] # NoClient
        PROVE  \E f \in Endpoint : session'[f] = controlled_map[eid] /\ Given(f)' = {eid}
    <3>1. PICK f \in Endpoint : session[f] = controlled_map[eid] /\ Given(f) = {eid}
      BY <2>1 DEF IInv, GivenOnce
    <3>2. f # e
      BY <1>1, <2>1, <3>1
    <3> QED
      BY <1>2, <1>4, <3>1, <3>2
  <2> QED
    BY <1>1, <1>4, <2>1 DEF IInv, GivenOnce
<1>9. Numbers'
  BY <1>1 DEF IInv, Numbers
<1> QED
  BY <1>3, <1>5, <1>6, <1>7, <1>8, <1>9 DEF IInv

LEMMA OnDisconnectedStep ==
  ASSUME IInv, NEW e \in Endpoint, OnDisconnected(e)
  PROVE  IInv'
<1>1. /\ session[e] # NoClient
      /\ session' = [session EXCEPT ![e] = NoClient]
      /\ controlled_map' = [eid \in DOMAIN controlled_map |->
                              IF controlled_map[eid] = session[e] THEN NoClient
                              ELSE controlled_map[eid]]
      /\ channel' = [channel EXCEPT ![e] = <<>>]
      /\ joins' = joins \ {e}
      /\ missed' = missed \cup {e}
      /\ UNCHANGED <<scores, created_ai_entities, game_time_remaining, game_over,
                     bites, sent_join, my_entity, leaderboard, result, joined>>
  BY DEF OnDisconnected, CloseSession, IsOpen, ReleaseControl, client
<1>2. session' \in [Endpoint -> Pointer \cup {NoClient}] /\ session'[e] = NoClient
      /\ \A f \in Endpoint \ {e} : session'[f] = session[f]
  BY <1>1 DEF IInv, TypeOK, SessionTypeOK
<1>3. /\ channel' \in [Endpoint -> Seq(Message)] /\ channel'[e] = <<>>
      /\ ToSet(channel'[e]) = {}
      /\ \A f \in Endpoint \ {e} : channel'[f] = channel[f]
  <2>1. <<>> \in Seq(Message) /\ channel \in [Endpoint -> Seq(Message)]
    BY EmptySeq DEF IInv, Shapes
  <2> QED
    BY <1>1, <2>1, NoElements
<1>4. TypeOK'
  BY <1>1, <1>2 DEF IInv, TypeOK, SessionTypeOK
<1>5. /\ Given(e)' \subseteq Given(e)
      /\ \A f \in Endpoint \ {e} : Given(f)' = Given(f)
  BY <1>1, <1>3 DEF Given
<1>6. Shapes'
  BY <1>1, <1>3 DEF IInv, Shapes
<1>7. SessionsAreDistinct'
  BY <1>2 DEF IInv, SessionsAreDistinct, IsOpen
<1>8. OneJoin'
  BY <1>1, <1>2, <1>5 DEF IInv, OneJoin, IsOpen, TypeOK
<1>9. GivenOnce'
  <2>1. ASSUME NEW eid \in DOMAIN scores, controlled_map'[eid] # NoClient
        PROVE  \E f \in Endpoint : session'[f] = controlled_map'[eid] /\ Given(f)' = {eid}
    <3>1. eid \in DOMAIN controlled_map
      BY DEF IInv, TypeOK
    <3>2. controlled_map'[eid] = controlled_map[eid] /\ controlled_map[eid] # session[e]
      BY <1>1, <2>1, <3>1
    <3>3. PICK f \in Endpoint : session[f] = controlled_map[eid] /\ Given(f) = {eid}
      BY <2>1, <3>2 DEF IInv, GivenOnce
    <3> QED
      BY <1>2, <1>5, <3>2, <3>3
  <2>2. \A f, g \in Endpoint : Given(f)' \cap Given(g)' # {} => f = g
    BY <1>5 DEF IInv, GivenOnce
  <2>3. \A f \in Endpoint : \A x, y \in Given(f)' : x = y
    BY <1>5 DEF IInv, GivenOnce
  <2> QED
    BY <1>1, <2>1, <2>2, <2>3 DEF GivenOnce
<1>10. Numbers'
  BY <1>1 DEF IInv, Numbers
<1> QED
  BY <1>4, <1>6, <1>7, <1>8, <1>9, <1>10 DEF IInv

LEMMA SendJoinStep ==
  ASSUME IInv, NEW e \in Endpoint, SendJoin(e)
  PROVE  IInv'
<1>1. /\ ~sent_join[e]
      /\ sent_join' = [sent_join EXCEPT ![e] = TRUE]
      /\ joins' = joins \/ (joins' = joins \cup {e} /\ IsOpen(e))
      /\ UNCHANGED <<session, scores, controlled_map, created_ai_entities,
                     game_time_remaining, game_over, bites, channel, my_entity,
                     leaderboard, result, joined, missed>>
  BY DEF SendJoin, server, client
<1>2. sent_join'[e] /\ \A f \in Endpoint \ {e} : sent_join'[f] = sent_join[f]
  BY <1>1 DEF IInv, TypeOK
<1>3. \A f \in Endpoint : Given(f)' = Given(f)
  BY <1>1 DEF Given
<1>4. TypeOK'
  BY <1>1 DEF IInv, TypeOK, SessionTypeOK
<1>5. OneJoin'
  <2>1. joined \subseteq Endpoint /\ joins \subseteq Endpoint
    BY DEF IInv, TypeOK
  <2>2. e \notin joined
    BY <1>1 DEF IInv, OneJoin
  <2> QED
    BY <1>1, <1>2, <1>3, <2>1, <2>2 DEF IInv, OneJoin, IsOpen
<1>6. Shapes'
  BY <1>1 DEF IInv, Shapes
<1>7. SessionsAreDistinct'
  BY <1>1 DEF IInv, SessionsAreDistinct, IsOpen
<1>8. GivenOnce'
  BY <1>1, <1>3 DEF IInv, GivenOnce
<1>9. Numbers'
  BY <1>1 DEF IInv, Numbers
<1> QED
  BY <1>4, <1>5, <1>6, <1>7, <1>8, <1>9 DEF IInv

-----------------------------------------------------------------------------
(* Messages to everybody *)

\* Scores and the result give nobody an entity.
LEMMA SendToAllEffect ==
  ASSUME IInv, NEW messages \in Seq(Message), SendToAll(messages),
         \A m \in ToSet(messages) :
           m.type # "SetControlledEntity" /\ m.eid \in DOMAIN scores,
         DOMAIN scores' = DOMAIN scores,
         UNCHANGED <<my_entity, leaderboard, result>>
  PROVE  Shapes' /\ \A e \in Endpoint : Given(e)' = Given(e)
<1>1. channel \in [Endpoint -> Seq(Message)]
  BY DEF IInv, Shapes
<1>2. ASSUME NEW e \in Endpoint
      PROVE  /\ channel'[e] \in Seq(Message)
             /\ \/ ToSet(channel'[e]) = ToSet(channel[e])
                \/ ToSet(channel'[e]) = ToSet(channel[e]) \cup ToSet(messages)
  <2>1. channel[e] \in Seq(Message)
    BY <1>1
  <2>2. channel'[e] \in {channel[e] \o messages, channel[e]}
    BY DEF SendToAll
  <2>3. /\ channel[e] \o messages \in Seq(Message)
        /\ ToSet(channel[e] \o messages) = ToSet(channel[e]) \cup ToSet(messages)
    BY <2>1, ConcatProperties, ConcatElements
  <2> QED
    BY <2>1, <2>2, <2>3
<1>3. channel' \in [Endpoint -> Seq(Message)]
  BY <1>2 DEF SendToAll
<1>4. \A e \in Endpoint : \A m \in ToSet(channel'[e]) : m.eid \in DOMAIN scores'
  BY <1>2 DEF IInv, Shapes
<1>5. \A e \in Endpoint : Given(e)' = Given(e)
  BY <1>2 DEF Given
<1> QED
  BY <1>3, <1>4, <1>5 DEF IInv, Shapes

\* The last second: the leader is told, and there is one.
LEMMA ClockTicksStep ==
  ASSUME IInv, ClockTicks
  PROVE  IInv'
<1> DEFINE messages == IF game_over' THEN <<GameOver(Leader, scores[Leader])>> ELSE <<>>
<1>1. /\ ~game_over /\ created_ai_entities
      /\ game_time_remaining' = game_time_remaining - 1
      /\ game_over' = (game_time_remaining' <= 0)
      /\ SendToAll(messages)
      /\ UNCHANGED <<session, scores, controlled_map, created_ai_entities,
                     bites, joins, sent_join, my_entity, leaderboard, result,
                     joined, missed>>
  BY DEF ClockTicks, client
<1>2. /\ game_time_remaining' \in 0..GameDuration /\ game_over' \in BOOLEAN
      /\ game_over' <=> game_time_remaining' = 0
  <2>1. game_time_remaining \in 0..GameDuration /\ game_time_remaining # 0
    BY <1>1 DEF IInv, TypeOK, Numbers
  <2>2. /\ game_time_remaining' \in 0..GameDuration
        /\ (game_time_remaining' <= 0) <=> game_time_remaining' = 0
    BY <1>1, <2>1
  <2>3. game_over' \in BOOLEAN
    BY <1>1
  <2>4. game_over' <=> game_time_remaining' <= 0
    BY <1>1
  <2> QED
    BY <2>2, <2>3, <2>4
<1>3. /\ messages \in Seq(Message)
      /\ \A m \in ToSet(messages) :
           m.type # "SetControlledEntity" /\ m.eid \in DOMAIN scores
  <2>1. Leader \in DOMAIN scores
    BY <1>1, LeaderExists DEF IInv, Numbers
  <2>2. Leader \in Nat /\ scores[Leader] \in Int
    BY <2>1, ScoresAreNumbers DEF IInv
  <2>3. GameOver(Leader, scores[Leader]) \in Message
    BY <2>2 DEF GameOver, Message
  <2>4. /\ <<GameOver(Leader, scores[Leader])>> \in Seq(Message)
        /\ ToSet(<<GameOver(Leader, scores[Leader])>>) = {GameOver(Leader, scores[Leader])}
    BY <2>3 DEF ToSet
  <2>5. <<>> \in Seq(Message) /\ ToSet(<<>>) = {}
    BY EmptySeq, NoElements
  <2> QED
    BY <2>1, <2>4, <2>5 DEF GameOver
<1> HIDE DEF messages
<1>4. Shapes' /\ \A e \in Endpoint : Given(e)' = Given(e)
  BY <1>1, <1>3, SendToAllEffect
<1>5. TypeOK'
  BY <1>1, <1>2 DEF IInv, TypeOK, SessionTypeOK
<1>6. SessionsAreDistinct'
  BY <1>1 DEF IInv, SessionsAreDistinct, IsOpen
<1>7. OneJoin'
  BY <1>1, <1>4 DEF IInv, OneJoin, IsOpen
<1>8. GivenOnce'
  BY <1>1, <1>4 DEF IInv, GivenOnce
<1>9. Numbers'
  BY <1>1, <1>2 DEF IInv, Numbers
<1> QED
  BY <1>4, <1>5, <1>6, <1>7, <1>8, <1>9 DEF IInv

LEMMA CollisionStep ==
  ASSUME IInv, Collision
  PROVE  IInv'
<1>1. PICK devourer \in DOMAIN scores, devoured \in DOMAIN scores, gain \in 1..MaxGain :
        /\ devourer # devoured
        /\ bites < MaxBites
        /\ bites' = bites + 1
        /\ Bite(devourer, devoured, gain)
        /\ UNCHANGED <<session, controlled_map, created_ai_entities,
                       game_time_remaining, game_over, joins, sent_join, client,
                       joined, missed>>
  BY DEF Collision
<1> DEFINE messages == <<ScoreUpdate(devourer, scores'[devourer]),
                         ScoreUpdate(devoured, 0)>>
<1>2. /\ scores' = [scores EXCEPT ![devourer] = @ + gain, ![devoured] = 0]
      /\ SendToAll(messages)
      /\ UNCHANGED <<my_entity, leaderboard, result>>
  BY <1>1 DEF Bite, client
<1>3. DOMAIN scores' = DOMAIN scores
  BY <1>2
<1>4. /\ bites \in 0..MaxBites /\ bites * MaxGain \in Nat
      /\ (bites + 1) * MaxGain = bites * MaxGain + MaxGain
      /\ (bites + 1) * MaxGain <= MaxBites * MaxGain
  <2>1. bites \in 0..MaxBites /\ bites < MaxBites
    BY <1>1 DEF IInv, TypeOK
  <2> QED
    BY <2>1, BiteBound
<1>5. ASSUME NEW eid \in DOMAIN scores
      PROVE  scores'[eid] \in Nat /\ scores'[eid] <= bites' * MaxGain
  <2>1. scores[eid] \in Nat /\ scores[eid] <= bites * MaxGain
    BY ScoresAreNumbers DEF IInv, Numbers
  <2>2. /\ eid = devoured => scores'[eid] = 0
        /\ eid = devourer => scores'[eid] = scores[eid] + gain
        /\ eid # devoured /\ eid # devourer => scores'[eid] = scores[eid]
    BY <1>1, <1>2
  <2>3. scores'[eid] \in Nat /\ scores'[eid] <= bites * MaxGain + MaxGain
    BY <1>4, <2>1, <2>2
  <2> QED
    BY <1>1, <1>4, <2>3
<1>6. scores' \in Seq(Score)
  <2>1. \A eid \in DOMAIN scores : scores'[eid] \in Score
    BY <1>1, <1>4, <1>5 DEF Score
  <2>2. DOMAIN scores = 1..Len(scores) /\ Len(scores) \in Nat
    BY ScoresAreNumbers DEF IInv
  <2>3. scores' \in [1..Len(scores) -> Score]
    BY <1>2, <2>1, <2>2
  <2> QED
    BY <2>2, <2>3, SeqDef
<1>7. /\ messages \in Seq(Message)
      /\ \A m \in ToSet(messages) :
           m.type # "SetControlledEntity" /\ m.eid \in DOMAIN scores
  <2>1. devourer \in Nat /\ devoured \in Nat /\ scores'[devourer] \in Int
    BY <1>5, ScoresAreNumbers DEF IInv
  <2>2. /\ ScoreUpdate(devourer, scores'[devourer]) \in Message
        /\ ScoreUpdate(devoured, 0) \in Message
    BY <2>1 DEF ScoreUpdate, Message
  <2>3. messages \in Seq(Message)
    BY <2>2
  <2>4. \A m \in ToSet(messages) : m \in {ScoreUpdate(devourer, scores'[devourer]),
                                          ScoreUpdate(devoured, 0)}
    BY DEF ToSet
  <2> QED
    BY <2>3, <2>4 DEF ScoreUpdate
<1> HIDE DEF messages
<1>8. Shapes' /\ \A e \in Endpoint : Given(e)' = Given(e)
  BY <1>2, <1>3, <1>7, SendToAllEffect
<1>9. TypeOK'
  <2>1. bites' \in 0..MaxBites
    BY <1>1, <1>4
  <2> QED
    BY <1>1, <1>3, <1>6, <2>1 DEF IInv, TypeOK, SessionTypeOK, client
<1>10. SessionsAreDistinct'
  BY <1>1 DEF IInv, SessionsAreDistinct, IsOpen
<1>11. OneJoin'
  BY <1>1, <1>8 DEF IInv, OneJoin, IsOpen
<1>12. GivenOnce'
  BY <1>1, <1>3, <1>8 DEF IInv, GivenOnce
<1>13. Numbers'
  <2>1. created_ai_entities /\ scores' # <<>>
    <3>1. scores # <<>>
      BY <1>1, NoElements
    <3>2. devourer \in DOMAIN scores'
      BY <1>1, <1>3
    <3> QED
      BY <3>1, <3>2, NoElements DEF IInv, Numbers
  <2> QED
    BY <1>1, <1>3, <1>5, <2>1 DEF IInv, Numbers
<1> QED
  BY <1>8, <1>9, <1>10, <1>11, <1>12, <1>13 DEF IInv

-----------------------------------------------------------------------------
(* A client reads its channel *)

LEMMA ProcessPacketStep ==
  ASSUME IInv, NEW e \in Endpoint, ProcessPacket(e)
  PROVE  IInv'
<1> DEFINE m == Head(channel[e])
<1>1. /\ channel[e] # <<>>
      /\ channel' = [channel EXCEPT ![e] = Tail(@)]
      /\ leaderboard' = [leaderboard EXCEPT ![e] = Scored(@, m)]
      /\ my_entity' = [my_entity EXCEPT
                         ![e] = IF m.type = "SetControlledEntity" THEN m.eid ELSE @]
      /\ result' = [result EXCEPT
                      ![e] = IF m.type = "GameOver"
                             THEN [winner |-> m.eid, score |-> m.score] ELSE @]
      /\ UNCHANGED <<session, scores, controlled_map, created_ai_entities,
                     game_time_remaining, game_over, bites, joins, sent_join,
                     joined, missed>>
  BY DEF ProcessPacket, server
<1>2. /\ channel \in [Endpoint -> Seq(Message)] /\ my_entity \in [Endpoint -> Nat]
      /\ DOMAIN leaderboard = Endpoint /\ DOMAIN result = Endpoint
  BY DEF IInv, Shapes
<1>3. /\ m \in ToSet(channel[e]) /\ Tail(channel[e]) \in Seq(Message)
      /\ ToSet(channel[e]) = ToSet(Tail(channel[e])) \cup {m}
      /\ m.eid \in DOMAIN scores /\ m.eid \in Nat \ {0}
  <2>1. channel[e] \in Seq(Message)
    BY <1>2
  <2>2. m \in ToSet(channel[e])
    BY <1>1, <2>1, TailElements
  <2>3. m.eid \in DOMAIN scores
    BY <2>2 DEF IInv, Shapes
  <2> QED
    BY <1>1, <2>1, <2>2, <2>3, TailElements, HeadTailProperties, ScoresAreNumbers
       DEF IInv
<1> HIDE DEF m
<1>4. /\ channel' \in [Endpoint -> Seq(Message)]
      /\ channel'[e] = Tail(channel[e])
      /\ \A f \in Endpoint \ {e} : channel'[f] = channel[f]
  BY <1>1, <1>2, <1>3
<1>5. /\ my_entity'[e] = IF m.type = "SetControlledEntity" THEN m.eid ELSE my_entity[e]
      /\ \A f \in Endpoint \ {e} : my_entity'[f] = my_entity[f]
      /\ my_entity' \in [Endpoint -> Nat]
  BY <1>1, <1>2, <1>3
<1>6. \A f \in Endpoint : Given(f)' = Given(f)
  <2>1. \A f \in Endpoint \ {e} : Given(f)' = Given(f)
    BY <1>4, <1>5 DEF Given
  <2>2. CASE m.type = "SetControlledEntity"
    <3>1. m.eid \in Given(e)
      BY <1>3, <2>2 DEF Given
    <3>2. Given(e) = {m.eid}
      BY <3>1 DEF IInv, GivenOnce
    <3>3. Given(e)' \subseteq Given(e) /\ m.eid \in Given(e)'
      BY <1>3, <1>4, <1>5, <2>2, <3>1 DEF Given
    <3> QED
      BY <2>1, <3>2, <3>3
  <2>3. CASE m.type # "SetControlledEntity"
    <3>1. {x \in ToSet(channel[e]) : x.type = "SetControlledEntity"}
            = {x \in ToSet(channel'[e]) : x.type = "SetControlledEntity"}
      BY <1>3, <1>4, <2>3
    <3>2. my_entity'[e] = my_entity[e]
      BY <1>5, <2>3
    <3>3. Given(e)' = Given(e)
      BY <3>1, <3>2 DEF Given
    <3> QED
      BY <2>1, <3>3
  <2> QED
    BY <2>2, <2>3
<1>7. \A f \in Endpoint : ToSet(channel'[f]) \subseteq ToSet(channel[f])
  BY <1>3, <1>4
<1>8. Shapes'
  BY <1>1, <1>2, <1>4, <1>5, <1>7 DEF IInv, Shapes
<1>9. TypeOK'
  <2>1. DOMAIN leaderboard'[e] \subseteq DOMAIN scores
    <3>1. DOMAIN leaderboard[e] \subseteq DOMAIN scores
      BY DEF IInv, TypeOK
    <3>2. leaderboard'[e] = Scored(leaderboard[e], m)
      BY <1>1, <1>2
    <3>3. DOMAIN Scored(leaderboard[e], m) \subseteq DOMAIN leaderboard[e] \cup {m.eid}
      BY DEF Scored, WithEntity, WithScore
    <3> QED
      BY <1>3, <3>1, <3>2, <3>3
  <2>2. result'[e] = NoResult \/ result'[e].winner \in DOMAIN scores
    <3>1. result[e] = NoResult \/ result[e].winner \in DOMAIN scores
      BY DEF IInv, TypeOK
    <3> QED
      BY <1>1, <1>2, <1>3, <3>1
  <2>3. my_entity'[e] \in DOMAIN scores \cup {0}
    BY <1>3, <1>5 DEF IInv, TypeOK
  <2>4. \A f \in Endpoint :
          /\ my_entity'[f] \in DOMAIN scores \cup {0}
          /\ DOMAIN leaderboard'[f] \subseteq DOMAIN scores
          /\ result'[f] = NoResult \/ result'[f].winner \in DOMAIN scores
    <3> SUFFICES ASSUME NEW f \in Endpoint \ {e}
                 PROVE  /\ my_entity'[f] \in DOMAIN scores \cup {0}
                        /\ DOMAIN leaderboard'[f] \subseteq DOMAIN scores
                        /\ result'[f] = NoResult \/ result'[f].winner \in DOMAIN scores
      BY <2>1, <2>2, <2>3
    <3>1. /\ my_entity'[f] = my_entity[f] /\ leaderboard'[f] = leaderboard[f]
          /\ result'[f] = result[f]
      BY <1>1, <1>2
    <3> QED
      BY <3>1 DEF IInv, TypeOK
  <2> QED
    BY <1>1, <2>4 DEF IInv, TypeOK, SessionTypeOK
<1>10. SessionsAreDistinct'
  BY <1>1 DEF IInv, SessionsAreDistinct, IsOpen
<1>11. OneJoin'
  BY <1>1, <1>6 DEF IInv, OneJoin, IsOpen
<1>12. GivenOnce'
  <2>1. \A f, g \in Endpoint : Given(f)' \cap Given(g)' # {} => f = g
    BY <1>6 DEF IInv, GivenOnce
  <2>2. \A f \in Endpoint : \A x, y \in Given(f)' : x = y
    BY <1>6 DEF IInv, GivenOnce
  <2>3. ASSUME NEW eid \in DOMAIN scores, controlled_map[eid] # NoClient
        PROVE  \E f \in Endpoint : session[f] = controlled_map[eid] /\ Given(f)' = {eid}
    BY <1>6, <2>3 DEF IInv, GivenOnce
  <2> QED
    BY <1>1, <2>1, <2>2, <2>3 DEF GivenOnce
<1>13. Numbers'
  BY <1>1 DEF IInv, Numbers
<1> QED
  BY <1>8, <1>9, <1>10, <1>11, <1>12, <1>13 DEF IInv

-----------------------------------------------------------------------------
(* A client joins *)

\* What there is when the Join is handled: the entities so far, or those the
\* first Join makes.
LEMMA ExistingEntities ==
  ASSUME IInv
  PROVE  /\ Existing \in Seq(Score) /\ Len(Existing) \in Nat
         /\ DOMAIN Existing = 1..Len(Existing)
         /\ DOMAIN scores \subseteq DOMAIN Existing
         /\ created_ai_entities => Existing = scores
         /\ \A eid \in DOMAIN Existing : Existing[eid] \in Nat
         /\ \A eid \in DOMAIN Existing : Existing[eid] <= bites * MaxGain
<1>1. CASE created_ai_entities
  <2>1. Existing = scores /\ scores \in Seq(Score)
    BY <1>1 DEF Existing, IInv, TypeOK
  <2> QED
    BY <2>1, ScoresAreNumbers DEF IInv, Numbers
<1>2. CASE ~created_ai_entities
  <2>1. Existing = [eid \in 1..NumAi |-> 0]
    BY <1>2 DEF Existing
  <2>2. 0 \in Score /\ bites * MaxGain \in Nat
    <3>1. MaxBites * MaxGain \in Nat /\ bites \in Nat
      BY ScoresAreNumbers DEF IInv, TypeOK
    <3> QED
      BY <3>1 DEF Score
  <2>3. Existing \in [1..NumAi -> Score]
    BY <2>1, <2>2
  <2>4. Existing \in Seq(Score) /\ Len(Existing) = NumAi
    <3>1. Existing \in Seq(Score)
      BY <2>3, SeqDef
    <3>2. DOMAIN Existing = 1..NumAi /\ DOMAIN Existing = 1..Len(Existing) /\ Len(Existing) \in Nat
      BY <2>1, <3>1, LenProperties
    <3> QED
      BY <3>1, <3>2
  <2>5. DOMAIN scores = {}
    BY <1>2, NoElements DEF IInv, Numbers
  <2> QED
    BY <1>2, <2>1, <2>2, <2>4, <2>5
<1> QED
  BY <1>1, <1>2

\* The entities there are, told one by one, put nobody in control.
LEMMA ListingElements ==
  ASSUME IInv
  PROVE  /\ Listing(Existing) \in Seq(Message)
         /\ \A m \in ToSet(Listing(Existing)) :
              m.type = "NewEntity" /\ m.eid \in DOMAIN Existing
<1>1. /\ Len(Existing) \in Nat /\ DOMAIN Existing = 1..Len(Existing)
      /\ \A eid \in DOMAIN Existing : Existing[eid] \in Nat
  BY ExistingEntities
<1>2. \A eid \in 1..Len(Existing) :
        /\ NewEntity(eid, Existing[eid]) \in Message
        /\ NewEntity(eid, Existing[eid]).type = "NewEntity"
        /\ NewEntity(eid, Existing[eid]).eid = eid
  BY <1>1 DEF NewEntity, Message
<1>3. Listing(Existing) = [eid \in 1..Len(Existing) |-> NewEntity(eid, Existing[eid])]
  BY <1>1 DEF Listing
<1>4. Listing(Existing) \in [1..Len(Existing) -> Message]
  BY <1>2, <1>3
<1>5. Listing(Existing) \in Seq(Message)
  BY <1>1, <1>4, SeqDef
<1> QED
  BY <1>1, <1>2, <1>3, <1>5 DEF ToSet

\* The scores when a Join has been handled: the newcomer's is the last.
LEMMA JoinedScores ==
  ASSUME IInv, NEW e \in Endpoint, OnJoin(e), NEW new_eid, new_eid = Len(Existing) + 1
  PROVE  /\ scores' \in Seq(Score) /\ DOMAIN scores' = 1..new_eid
         /\ scores'[new_eid] = 0
         /\ \A eid \in DOMAIN Existing : scores'[eid] = Existing[eid]
         /\ new_eid \in Nat \ {0} /\ new_eid \in DOMAIN scores'
         /\ new_eid \notin DOMAIN scores /\ new_eid \notin DOMAIN Existing
         /\ DOMAIN Existing \subseteq DOMAIN scores'
         /\ DOMAIN scores \subseteq DOMAIN scores'
         /\ \A eid \in DOMAIN scores' : eid = new_eid \/ eid \in DOMAIN Existing
<1>1. scores' = Append(Existing, 0)
  BY DEF OnJoin
<1>2. /\ Existing \in Seq(Score) /\ Len(Existing) \in Nat
      /\ DOMAIN Existing = 1..Len(Existing)
      /\ DOMAIN scores \subseteq DOMAIN Existing
  BY ExistingEntities
<1>3. 0 \in Score
  BY ScoresAreNumbers DEF Score, IInv
<1>4. /\ scores' \in Seq(Score) /\ DOMAIN scores' = 1..new_eid
      /\ scores'[new_eid] = 0
      /\ \A eid \in DOMAIN Existing : scores'[eid] = Existing[eid]
  <2>1. /\ scores' \in Seq(Score) /\ Len(scores') = new_eid
        /\ scores'[new_eid] = 0
        /\ \A eid \in 1..Len(Existing) : scores'[eid] = Existing[eid]
    BY <1>1, <1>2, <1>3, AppendProperties
  <2> QED
    BY <1>2, <2>1, LenProperties
<1>5. new_eid \in Nat \ {0} /\ new_eid \in 1..new_eid /\ new_eid \notin 1..Len(Existing)
  BY <1>2
<1>6. /\ 1..Len(Existing) \subseteq 1..new_eid
      /\ \A eid \in 1..new_eid : eid = new_eid \/ eid \in 1..Len(Existing)
  BY <1>2
<1> QED
  BY <1>2, <1>4, <1>5, <1>6

LEMMA OnJoinStep ==
  ASSUME IInv, NEW e \in Endpoint, OnJoin(e)
  PROVE  IInv'
<1> DEFINE new_eid == Len(Existing) + 1
<1>1. /\ IsOpen(e) /\ e \in joins
      /\ joins' = joins \ {e}
      /\ created_ai_entities' = TRUE
      /\ scores' = Append(Existing, 0)
      /\ controlled_map' = [eid \in 1..new_eid |->
                              IF eid = new_eid THEN session[e]
                              ELSE IF created_ai_entities THEN controlled_map[eid]
                              ELSE NoClient]
      /\ Welcome(e, new_eid)
      /\ joined' = joined \cup {e}
      /\ UNCHANGED <<session, game_time_remaining, game_over, bites,
                     sent_join, my_entity, leaderboard, result, missed>>
  BY DEF OnJoin, client
<1>2. /\ Existing \in Seq(Score) /\ Len(Existing) \in Nat
      /\ DOMAIN Existing = 1..Len(Existing)
      /\ DOMAIN scores \subseteq DOMAIN Existing
      /\ created_ai_entities => Existing = scores
      /\ ~created_ai_entities => DOMAIN scores = {}
  BY ExistingEntities, NoElements DEF IInv, Numbers
<1>3. 0 \in Score /\ bites * MaxGain \in Nat
  <2>1. MaxBites * MaxGain \in Nat /\ bites \in Nat
    BY ScoresAreNumbers DEF IInv, TypeOK
  <2> QED
    BY <2>1 DEF Score
<1>4. /\ scores' \in Seq(Score) /\ DOMAIN scores' = 1..new_eid
      /\ scores'[new_eid] = 0
      /\ \A eid \in DOMAIN Existing : scores'[eid] = Existing[eid]
  BY JoinedScores
<1>5. /\ new_eid \in Nat \ {0} /\ new_eid \in DOMAIN scores'
      /\ new_eid \notin DOMAIN scores /\ new_eid \notin DOMAIN Existing
      /\ DOMAIN Existing \subseteq DOMAIN scores'
      /\ DOMAIN scores \subseteq DOMAIN scores'
      /\ \A eid \in DOMAIN scores' : eid = new_eid \/ eid \in DOMAIN Existing
  BY JoinedScores
<1>6. /\ \A eid \in DOMAIN scores' \ {new_eid} :
           controlled_map'[eid] # NoClient =>
             eid \in DOMAIN scores /\ controlled_map'[eid] = controlled_map[eid]
      /\ controlled_map'[new_eid] = session[e]
      /\ DOMAIN controlled_map' = DOMAIN scores'
  BY <1>1, <1>2, <1>4, <1>5
<1> HIDE DEF new_eid
<1>7. ASSUME NEW f \in Endpoint
      PROVE  /\ channel'[f] \in Seq(Message)
             /\ \A m \in ToSet(channel'[f]) :
                  \/ m \in ToSet(channel[f])
                  \/ m.type = "NewEntity" /\ m.eid \in DOMAIN scores'
                  \/ f = e /\ m = SetControlledEntity(new_eid)
             /\ ToSet(channel[f]) \subseteq ToSet(channel'[f])
             /\ f = e => SetControlledEntity(new_eid) \in ToSet(channel'[f])
  <2>1. channel[f] \in Seq(Message)
    BY DEF IInv, Shapes
  <2>2. /\ NewEntity(new_eid, 0) \in Message /\ SetControlledEntity(new_eid) \in Message
        /\ NewEntity(new_eid, 0).type = "NewEntity" /\ NewEntity(new_eid, 0).eid = new_eid
    BY <1>5 DEF NewEntity, SetControlledEntity, Message
  <2>3. CASE f = e
    <3> DEFINE last == <<NewEntity(new_eid, 0), SetControlledEntity(new_eid)>>
               list == Listing(Existing)
    <3>1. channel'[f] = channel[f] \o list \o last
      BY <1>1, <2>3 DEF Welcome
    <3>2. last \in Seq(Message)
      BY <2>2
    <3>3. ToSet(last) = {NewEntity(new_eid, 0), SetControlledEntity(new_eid)}
      BY DEF ToSet
    <3>4. /\ list \in Seq(Message)
          /\ \A m \in ToSet(list) : m.type = "NewEntity" /\ m.eid \in DOMAIN Existing
      BY ListingElements
    <3> HIDE DEF last, list
    <3>5. /\ channel[f] \o list \in Seq(Message)
          /\ ToSet(channel[f] \o list) = ToSet(channel[f]) \cup ToSet(list)
      BY <2>1, <3>4, ConcatElements, ConcatProperties
    <3>6. PICK front \in Seq(Message) : front = channel[f] \o list
      BY <3>5
    <3>7. /\ front \o last \in Seq(Message)
          /\ ToSet(front \o last) = ToSet(front) \cup ToSet(last)
      <4>1. front \in Seq(Message)
        BY <3>6
      <4>2. front \o last \in Seq(Message)
        BY <3>2, <4>1, ConcatProperties
      <4>3. ToSet(front \o last) = ToSet(front) \cup ToSet(last)
        BY <3>2, <4>1, ConcatElements
      <4> QED
        BY <4>2, <4>3
    <3>8. /\ channel'[f] \in Seq(Message)
          /\ ToSet(channel'[f]) = ToSet(channel[f]) \cup ToSet(list) \cup ToSet(last)
      BY <3>1, <3>5, <3>6, <3>7
    <3> QED
      BY <1>5, <2>2, <2>3, <3>3, <3>4, <3>8
  <2>4. CASE f # e /\ IsOpen(f)
    <3>1. channel'[f] = Append(channel[f], NewEntity(new_eid, 0))
      BY <1>1, <2>4 DEF Welcome
    <3>2. /\ channel'[f] \in Seq(Message)
          /\ ToSet(channel'[f]) = ToSet(channel[f]) \cup {NewEntity(new_eid, 0)}
      BY <2>1, <2>2, <3>1, AppendedElements, AppendProperties
    <3> QED
      BY <1>5, <2>2, <2>4, <3>2
  <2>5. CASE f # e /\ ~IsOpen(f)
    BY <1>1, <2>1, <2>5 DEF Welcome
  <2> QED
    BY <2>3, <2>4, <2>5
<1>8. channel' \in [Endpoint -> Seq(Message)]
  BY <1>1, <1>7 DEF Welcome
<1>9. e \notin joined /\ sent_join[e] /\ Given(e) = {}
  BY <1>1 DEF IInv, OneJoin
<1>10. Given(e)' = {new_eid}
  <2>1. my_entity'[e] = 0 /\ my_entity[e] = 0
    <3>1. my_entity[e] = 0
      BY <1>9 DEF Given
    <3> QED
      BY <1>1, <3>1
  <2>2. \A m \in ToSet(channel[e]) : m.type # "SetControlledEntity"
    BY <1>9 DEF Given
  <2>3. /\ SetControlledEntity(new_eid).type = "SetControlledEntity"
        /\ SetControlledEntity(new_eid).eid = new_eid
    BY DEF SetControlledEntity
  <2>4. {x \in ToSet(channel'[e]) : x.type = "SetControlledEntity"} = {SetControlledEntity(new_eid)}
    BY <1>7, <2>2, <2>3
  <2> QED
    BY <2>1, <2>3, <2>4 DEF Given
<1>11. \A f \in Endpoint \ {e} : Given(f)' = Given(f)
  <2> SUFFICES ASSUME NEW f \in Endpoint \ {e} PROVE Given(f)' = Given(f)
    OBVIOUS
  <2>1. my_entity'[f] = my_entity[f]
    BY <1>1
  <2>2. {x \in ToSet(channel'[f]) : x.type = "SetControlledEntity"}
          = {x \in ToSet(channel[f]) : x.type = "SetControlledEntity"}
    BY <1>7
  <2> QED
    BY <2>1, <2>2 DEF Given
<1>12. \A f \in Endpoint : Given(f) \subseteq DOMAIN scores
  BY DEF IInv, Shapes, TypeOK, Given
<1>13. TypeOK'
  <2>1. \A eid \in DOMAIN scores' : controlled_map'[eid] \in Pointer \cup {NoClient}
    <3>1. session[e] \in Pointer \cup {NoClient}
      BY DEF IInv, TypeOK, SessionTypeOK
    <3>2. \A eid \in DOMAIN scores : controlled_map[eid] \in Pointer \cup {NoClient}
      BY DEF IInv, TypeOK
    <3> QED
      BY <1>5, <1>6, <3>1, <3>2
  <2>2. \A f \in Endpoint :
          /\ my_entity'[f] \in DOMAIN scores' \cup {0}
          /\ DOMAIN leaderboard'[f] \subseteq DOMAIN scores'
          /\ result'[f] = NoResult \/ result'[f].winner \in DOMAIN scores'
    BY <1>1, <1>5 DEF IInv, TypeOK
  <2>3. joins' \subseteq Endpoint /\ joined' \subseteq Endpoint
    BY <1>1 DEF IInv, TypeOK
  <2> QED
    BY <1>1, <1>4, <1>6, <2>1, <2>2, <2>3 DEF IInv, TypeOK, SessionTypeOK
<1>14. Shapes'
  <2>1. \A f \in Endpoint : \A m \in ToSet(channel'[f]) : m.eid \in DOMAIN scores'
    <3>1. \A f \in Endpoint : \A m \in ToSet(channel[f]) : m.eid \in DOMAIN scores
      BY DEF IInv, Shapes
    <3>2. SetControlledEntity(new_eid).eid = new_eid
      BY DEF SetControlledEntity
    <3> QED
      BY <1>5, <1>7, <3>1, <3>2
  <2> QED
    BY <1>1, <1>8, <2>1 DEF IInv, Shapes
<1>15. SessionsAreDistinct'
  BY <1>1 DEF IInv, SessionsAreDistinct, IsOpen
<1>16. OneJoin'
  <2>1. \A f \in joins' : IsOpen(f)' /\ sent_join'[f] /\ f \notin joined'
    BY <1>1 DEF IInv, OneJoin, IsOpen
  <2>2. \A f \in joined' : sent_join'[f]
    BY <1>1, <1>9 DEF IInv, OneJoin
  <2>3. \A f \in Endpoint : Given(f)' # {} => f \in joined'
    BY <1>1, <1>11 DEF IInv, OneJoin
  <2> QED
    BY <2>1, <2>2, <2>3 DEF OneJoin
<1>17. GivenOnce'
  <2>1. \A f \in Endpoint \ {e} : new_eid \notin Given(f)'
    BY <1>5, <1>11, <1>12
  <2>2. \A f, g \in Endpoint : Given(f)' \cap Given(g)' # {} => f = g
    <3>1. ASSUME NEW f \in Endpoint \ {e}, NEW g \in Endpoint \ {e},
                 Given(f)' \cap Given(g)' # {}
          PROVE  f = g
      BY <1>11, <3>1 DEF IInv, GivenOnce
    <3> QED
      BY <1>10, <2>1, <3>1
  <2>3. \A f \in Endpoint : \A x, y \in Given(f)' : x = y
    <3>1. \A f \in Endpoint \ {e} : \A x, y \in Given(f)' : x = y
      BY <1>11 DEF IInv, GivenOnce
    <3> QED
      BY <1>10, <3>1
  <2>4. ASSUME NEW eid \in DOMAIN scores', controlled_map'[eid] # NoClient
        PROVE  \E f \in Endpoint : session'[f] = controlled_map'[eid] /\ Given(f)' = {eid}
    <3>1. CASE eid = new_eid
      BY <1>1, <1>6, <1>10, <3>1
    <3>2. CASE eid # new_eid
      <4>1. eid \in DOMAIN scores /\ controlled_map'[eid] = controlled_map[eid]
        BY <1>6, <2>4, <3>2
      <4>2. PICK f \in Endpoint : session[f] = controlled_map[eid] /\ Given(f) = {eid}
        BY <2>4, <4>1 DEF IInv, GivenOnce
      <4>3. f # e
        BY <1>9, <4>2
      <4> QED
        BY <1>1, <1>11, <4>1, <4>2, <4>3
    <3> QED
      BY <3>1, <3>2
  <2> QED
    BY <2>2, <2>3, <2>4 DEF GivenOnce
<1>18. Numbers'
  <2>1. \A eid \in DOMAIN scores' : scores'[eid] <= bites' * MaxGain
    BY <1>1, <1>3, <1>4, <1>5, ExistingEntities
  <2>2. scores' # <<>>
    BY <1>5, NoElements
  <2> QED
    BY <1>1, <2>1, <2>2 DEF IInv, Numbers
<1> QED
  BY <1>13, <1>14, <1>15, <1>16, <1>17, <1>18 DEF IInv

-----------------------------------------------------------------------------
LEMMA NextIInv == IInv /\ [Next]_vars => IInv'
<1> SUFFICES ASSUME IInv, [Next]_vars PROVE IInv'
  OBVIOUS
<1>1. ASSUME NEW e \in Endpoint, NEW p \in Pointer, OnConnected(e, p) PROVE IInv'
  BY <1>1, OnConnectedStep
<1>2. ASSUME NEW e \in Endpoint, OnDisconnected(e) PROVE IInv'
  BY <1>2, OnDisconnectedStep
<1>3. ASSUME NEW e \in Endpoint, OnJoin(e) PROVE IInv'
  BY <1>3, OnJoinStep
<1>4. ASSUME NEW e \in Endpoint, SendJoin(e) PROVE IInv'
  BY <1>4, SendJoinStep
<1>5. ASSUME NEW e \in Endpoint, ProcessPacket(e) PROVE IInv'
  BY <1>5, ProcessPacketStep
<1>6. CASE ClockTicks
  BY <1>6, ClockTicksStep
<1>7. CASE Collision
  BY <1>7, CollisionStep
<1>8. CASE UNCHANGED vars
  <2>1. /\ UNCHANGED <<session, scores, controlled_map, created_ai_entities,
                       game_time_remaining, game_over, bites>>
        /\ UNCHANGED <<channel, joins, sent_join, my_entity, leaderboard,
                       result, joined, missed>>
    BY <1>8 DEF vars, server, client
  <2>2. \A f \in Endpoint : Given(f)' = Given(f)
    BY <2>1 DEF Given
  <2>3. TypeOK' /\ Shapes'
    BY <2>1 DEF IInv, TypeOK, SessionTypeOK, Shapes
  <2>4. SessionsAreDistinct' /\ OneJoin'
    BY <2>1, <2>2 DEF IInv, SessionsAreDistinct, OneJoin, IsOpen
  <2>5. GivenOnce'
    BY <2>1, <2>2 DEF IInv, GivenOnce
  <2>6. Numbers'
    BY <2>1 DEF IInv, Numbers
  <2> QED
    BY <2>3, <2>4, <2>5, <2>6 DEF IInv
<1> QED
  BY <1>1, <1>2, <1>3, <1>4, <1>5, <1>6, <1>7, <1>8 DEF Next

-----------------------------------------------------------------------------
(* The scores *)

LEMMA InitSInv == Init => SInv
<1> SUFFICES ASSUME Init PROVE SInv
  OBVIOUS
<1>1. \A e \in Endpoint : ~FirstSession(e)
  BY DEF Init, SessionInit, FirstSession, IsOpen
<1>2. NothingYet
  BY DEF Init, NothingYet
<1> QED
  BY <1>1, <1>2 DEF SInv, Exact, Verdicts

\* Steps that touch neither scores nor what clients are told of them.
LEMMA UntouchedSInv ==
  ASSUME SInv,
         UNCHANGED <<session, scores, created_ai_entities, channel, my_entity,
                     leaderboard, joined, missed>>
  PROVE  SInv'
<1>1. \A e \in Endpoint : (FirstSession(e)' <=> FirstSession(e)) /\ Latest(e)' = Latest(e)
  BY DEF FirstSession, IsOpen, Latest
<1>2. Exact'
  BY <1>1 DEF SInv, Exact
<1>3. NothingYet'
  BY DEF SInv, NothingYet, IsOpen
<1>4. Verdicts'
  BY <1>1 DEF SInv, Verdicts
<1> QED
  BY <1>2, <1>3, <1>4 DEF SInv

\* Who connects for the first time knows nothing and has been sent nothing.
LEMMA OnConnectedSInv ==
  ASSUME IInv, SInv, NEW e \in Endpoint, NEW p \in Pointer, OnConnected(e, p)
  PROVE  SInv'
<1>1. /\ ~IsOpen(e) /\ session' = [session EXCEPT ![e] = p]
      /\ UNCHANGED <<scores, created_ai_entities, channel, my_entity,
                     leaderboard, joined, missed>>
  BY DEF OnConnected, OpenSession, server, client
<1>2. \A f \in Endpoint \ {e} :
        /\ IsOpen(f)' <=> IsOpen(f)
        /\ FirstSession(f)' <=> FirstSession(f)
  BY <1>1 DEF FirstSession, IsOpen, IInv, TypeOK, SessionTypeOK
<1>3. \A f \in Endpoint : Latest(f)' = Latest(f)
  BY <1>1 DEF Latest
<1>4. ASSUME FirstSession(e)'
      PROVE  channel[e] = <<>> /\ leaderboard[e] = <<>> /\ e \notin joined
  BY <1>1, <1>4 DEF FirstSession, SInv, NothingYet
<1>5. ASSUME FirstSession(e)'
      PROVE  DOMAIN Latest(e) = {} /\ e \notin joined
  <2>1. After(<<>>, <<>>) = <<>>
    BY NoneIsRead
  <2>2. Latest(e) = <<>>
    BY <1>4, <1>5, <2>1 DEF Latest
  <2> QED
    BY <1>4, <1>5, <2>2, NoElements
<1>6. ASSUME FirstSession(e)'
      PROVE  Confirmed(my_entity[e], leaderboard[e], channel[e])
  <2>1. Len(channel[e]) = 0 /\ 1..0 = {}
    BY <1>4, <1>6, EmptySeq
  <2> QED
    BY <2>1 DEF Confirmed
<1>7. Exact'
  BY <1>1, <1>2, <1>3, <1>5 DEF SInv, Exact
<1>8. Verdicts'
  BY <1>1, <1>2, <1>6 DEF SInv, Verdicts
<1>9. NothingYet'
  <2>1. \A f \in Endpoint : ~IsOpen(f)' => ~IsOpen(f)
    BY <1>1, <1>2
  <2> QED
    BY <1>1, <2>1 DEF SInv, NothingYet
<1> QED
  BY <1>7, <1>8, <1>9 DEF SInv

LEMMA OnDisconnectedSInv ==
  ASSUME IInv, SInv, NEW e \in Endpoint, OnDisconnected(e)
  PROVE  SInv'
<1>1. /\ session' = [session EXCEPT ![e] = NoClient]
      /\ channel' = [channel EXCEPT ![e] = <<>>]
      /\ missed' = missed \cup {e}
      /\ UNCHANGED <<scores, created_ai_entities, my_entity, leaderboard, joined>>
  BY DEF OnDisconnected, CloseSession, client
<1>2. ~FirstSession(e)' /\ e \in missed'
  BY <1>1 DEF FirstSession
<1>3. \A f \in Endpoint \ {e} :
        /\ IsOpen(f)' <=> IsOpen(f)
        /\ FirstSession(f)' <=> FirstSession(f)
        /\ channel'[f] = channel[f]
        /\ f \in missed' <=> f \in missed
  BY <1>1 DEF FirstSession, IsOpen, IInv, TypeOK, SessionTypeOK, Shapes
<1>4. \A f \in Endpoint \ {e} : Latest(f)' = Latest(f)
  BY <1>1, <1>3 DEF Latest
<1>5. Exact'
  BY <1>1, <1>2, <1>3, <1>4 DEF SInv, Exact
<1>6. Verdicts'
  BY <1>1, <1>2, <1>3 DEF SInv, Verdicts
<1>7. NothingYet'
  BY <1>1, <1>2, <1>3 DEF SInv, NothingYet
<1> QED
  BY <1>5, <1>6, <1>7 DEF SInv

\* Reading a message brings nobody closer to the truth or further from it: it
\* was counted already.
LEMMA ProcessPacketSInv ==
  ASSUME IInv, SInv, NEW e \in Endpoint, ProcessPacket(e)
  PROVE  SInv'
<1>1. PICK messages \in Seq(Message) : messages = channel[e]
  BY DEF IInv, Shapes
<1>2. PICK m : m = Head(messages)
  OBVIOUS
<1>3. /\ messages # <<>>
      /\ channel' = [channel EXCEPT ![e] = Tail(messages)]
      /\ leaderboard' = [leaderboard EXCEPT ![e] = Scored(leaderboard[e], m)]
      /\ my_entity' = [my_entity EXCEPT
                         ![e] = IF m.type = "SetControlledEntity" THEN m.eid
                                ELSE my_entity[e]]
      /\ UNCHANGED <<session, scores, created_ai_entities, joined, missed>>
  BY <1>1, <1>2 DEF ProcessPacket, server
<1>4. /\ channel'[e] = Tail(messages)
      /\ leaderboard'[e] = Scored(leaderboard[e], m)
      /\ my_entity'[e] # 0 => my_entity[e] # 0 \/ m.type = "SetControlledEntity"
      /\ \A f \in Endpoint \ {e} :
           /\ channel'[f] = channel[f] /\ leaderboard'[f] = leaderboard[f]
           /\ my_entity'[f] = my_entity[f]
  BY <1>3 DEF IInv, Shapes
<1>5. \A f \in Endpoint : (IsOpen(f)' <=> IsOpen(f)) /\ (FirstSession(f)' <=> FirstSession(f))
  BY <1>3 DEF FirstSession, IsOpen
<1>6. Latest(e)' = Latest(e)
  <2>1. /\ Len(messages) - 1 \in 0..Len(messages) - 1
        /\ (Len(messages) - 1) + 1 = Len(messages)
        /\ Len(Tail(messages)) = Len(messages) - 1
    BY <1>3, HeadTailProperties, EmptySeq, LenProperties
  <2>2. \A i \in 0..Len(messages) - 1 :
          Reading(Scored(leaderboard[e], Head(messages)), Tail(messages))[i]
            = Reading(leaderboard[e], messages)[i + 1]
    BY <1>3, ReadingTheRest
  <2>3. After(Scored(leaderboard[e], m), Tail(messages)) = After(leaderboard[e], messages)
    BY <1>2, <2>1, <2>2 DEF After
  <2> QED
    BY <1>1, <1>4, <2>3 DEF Latest
<1>7. \A f \in Endpoint : Latest(f)' = Latest(f)
  BY <1>4, <1>6 DEF Latest
<1>8. Exact'
  BY <1>3, <1>5, <1>7 DEF SInv, Exact
<1>9. Verdicts'
  <2>1. ASSUME FirstSession(e)
        PROVE  Confirmed(my_entity'[e], leaderboard'[e], channel'[e])
    <3>1. Confirmed(my_entity[e], leaderboard[e], messages)
      BY <1>1, <2>1 DEF SInv, Verdicts
    <3>2. PICK me, next : me = my_entity[e] /\ next = my_entity'[e]
      OBVIOUS
    <3>3. PICK copy : copy = leaderboard[e]
      OBVIOUS
    <3>4. Confirmed(me, copy, messages)
      BY <3>1, <3>2, <3>3
    <3>5. next # 0 => me # 0 \/ Head(messages).type = "SetControlledEntity"
      BY <1>2, <1>4, <3>2
    <3>6. Confirmed(next, Scored(copy, Head(messages)), Tail(messages))
      BY <1>3, <3>4, <3>5, ConfirmedRest
    <3> QED
      BY <1>2, <1>4, <3>2, <3>3, <3>6
  <2> QED
    BY <1>4, <1>5, <2>1 DEF SInv, Verdicts
<1>10. NothingYet'
  <2>1. IsOpen(e) \/ e \in missed
    BY <1>1, <1>3 DEF SInv, NothingYet
  <2> QED
    BY <1>3, <1>4, <1>5, <2>1 DEF SInv, NothingYet
<1> QED
  BY <1>8, <1>9, <1>10 DEF SInv

\* What everybody who is open is sent is read last.
LEMMA SentToAll ==
  ASSUME IInv, NEW messages \in Seq(Message), SendToAll(messages),
         UNCHANGED <<session, leaderboard, missed>>,
         NEW e \in Endpoint, FirstSession(e)'
  PROVE  /\ FirstSession(e)
         /\ channel[e] \in Seq(Message)
         /\ channel'[e] = channel[e] \o messages
         /\ Latest(e)' = After(Latest(e), messages)
<1>1. FirstSession(e) /\ IsOpen(e)
  BY DEF FirstSession, IsOpen
<1>2. channel[e] \in Seq(Message)
  BY DEF IInv, Shapes
<1>3. channel'[e] = channel[e] \o messages
  BY <1>1 DEF SendToAll
<1>4. PICK before \in Seq(Message) : before = channel[e]
  BY <1>2
<1>5. PICK copy : copy = leaderboard[e]
  OBVIOUS
<1>6. After(copy, before \o messages) = After(After(copy, before), messages)
  BY AfterOn
<1> QED
  BY <1>1, <1>2, <1>3, <1>4, <1>5, <1>6 DEF Latest

\* Those who are told nothing stay as they were.
LEMMA NothingYetStays ==
  ASSUME NothingYet, UNCHANGED <<session, leaderboard, joined, missed, created_ai_entities>>,
         NEW messages, SendToAll(messages)
  PROVE  NothingYet'
<1>1. \A e \in Endpoint : (IsOpen(e)' <=> IsOpen(e)) /\ (~IsOpen(e) => channel'[e] = channel[e])
  BY DEF IsOpen, SendToAll
<1> QED
  BY <1>1 DEF NothingYet

\* Who plays by the end of its channel has joined.
LEMMA PlayersHaveJoined ==
  ASSUME IInv, NEW e \in Endpoint,
         my_entity[e] # 0 \/ \E j \in 1..Len(channel[e]) :
                               channel[e][j].type = "SetControlledEntity"
  PROVE  e \in joined
<1>1. CASE my_entity[e] # 0
  BY <1>1 DEF IInv, OneJoin, Given
<1>2. CASE \E j \in 1..Len(channel[e]) : channel[e][j].type = "SetControlledEntity"
  <2>1. PICK j \in 1..Len(channel[e]) : channel[e][j].type = "SetControlledEntity"
    BY <1>2
  <2>2. DOMAIN channel[e] = 1..Len(channel[e])
    BY LenProperties DEF IInv, Shapes
  <2>3. channel[e][j] \in ToSet(channel[e])
    BY <2>1, <2>2 DEF ToSet
  <2>4. channel[e][j].eid \in Given(e)
    BY <2>1, <2>3 DEF Given
  <2> QED
    BY <2>4 DEF IInv, OneJoin
<1> QED
  BY <1>1, <1>2

\* The verdict names the leader in every copy of those who play.
LEMMA ClockTicksSInv ==
  ASSUME IInv, SInv, ClockTicks
  PROVE  SInv'
<1> DEFINE outcome == GameOver(Leader, scores[Leader])
<1>1. /\ created_ai_entities
      /\ SendToAll(IF game_over' THEN <<outcome>> ELSE <<>>)
      /\ UNCHANGED <<session, scores, created_ai_entities, my_entity,
                     leaderboard, joined, missed>>
  BY DEF ClockTicks, client
<1>2. /\ Leader \in DOMAIN scores
      /\ \A eid \in DOMAIN scores : scores[eid] <= scores[Leader]
  BY <1>1, LeaderExists DEF IInv, Numbers
<1>3. /\ outcome \in Message /\ outcome.type = "GameOver"
      /\ outcome.eid = Leader /\ outcome.score = scores[Leader]
  <2>1. Leader \in Nat /\ scores[Leader] \in Int
    BY <1>2, ScoresAreNumbers DEF IInv
  <2> QED
    BY <2>1 DEF GameOver, Message
<1> HIDE DEF outcome
<1>4. PICK messages \in Seq(Message) :
        /\ SendToAll(messages)
        /\ messages = <<outcome>> \/ messages = <<>>
  <2>1. <<outcome>> \in Seq(Message) /\ <<>> \in Seq(Message)
    BY <1>3, EmptySeq
  <2> QED
    BY <1>1, <2>1
<1>5. \A i \in 1..Len(messages) : i = 1 /\ messages[i] = outcome
  <2>1. CASE messages = <<outcome>>
    BY <2>1
  <2>2. CASE messages = <<>>
    <3>1. Len(messages) = 0 /\ 1..0 = {}
      BY <2>2, EmptySeq
    <3> QED
      BY <3>1
  <2> QED
    BY <1>4, <2>1, <2>2
<1>6. \A copy : After(copy, messages) = copy
  <2>1. \A copy : After(copy, <<>>) = copy
    BY NoneIsRead
  <2>2. \A copy : Scored(copy, outcome) = copy
    BY <1>3, OtherIsNotLearnt
  <2>3. CASE messages = <<outcome>>
    <3>1. Len(messages) = 1 /\ messages[1] = outcome
      BY <2>3
    <3>2. \A copy : After(copy, messages) = Scored(copy, messages[1])
      BY <3>1, OneIsRead
    <3> QED
      BY <2>2, <3>1, <3>2
  <2>4. CASE messages = <<>>
    BY <2>1, <2>4
  <2> QED
    BY <1>4, <2>3, <2>4
<1>7. ASSUME NEW e \in Endpoint, FirstSession(e)'
      PROVE  /\ FirstSession(e) /\ Latest(e)' = Latest(e)
             /\ channel[e] \in Seq(Message)
             /\ channel'[e] = channel[e] \o messages
  <2>1. /\ FirstSession(e) /\ channel[e] \in Seq(Message)
        /\ channel'[e] = channel[e] \o messages
        /\ Latest(e)' = After(Latest(e), messages)
    BY <1>1, <1>4, <1>7, SentToAll
  <2> QED
    BY <1>6, <2>1
<1>8. Exact'
  BY <1>1, <1>7 DEF SInv, Exact
<1>9. NothingYet'
  BY <1>1, <1>4, NothingYetStays DEF SInv
<1>10. ASSUME NEW e \in Endpoint, FirstSession(e)'
       PROVE  Confirmed(my_entity'[e], leaderboard'[e], channel'[e])
  <2>1. PICK before \in Seq(Message) : before = channel[e]
    BY <1>7, <1>10
  <2>2. PICK me, copy : me = my_entity[e] /\ copy = leaderboard[e]
    OBVIOUS
  <2>3. Confirmed(me, copy, before)
    BY <1>7, <1>10, <2>1, <2>2 DEF SInv, Verdicts
  <2>4. ASSUME me # 0 \/ \E j \in 1..Len(before) : before[j].type = "SetControlledEntity"
        PROVE  Confirms(After(copy, before), outcome)
    <3>1. e \in joined
      BY <2>1, <2>2, <2>4, PlayersHaveJoined
    <3>2. PICK board : board = After(copy, before)
      OBVIOUS
    <3>3. board = Latest(e)
      BY <2>1, <2>2, <3>2 DEF Latest
    <3>4. DOMAIN board = DOMAIN scores /\ \A eid \in DOMAIN board : board[eid] = scores[eid]
      BY <1>7, <1>10, <3>1, <3>3 DEF SInv, Exact
    <3>5. Confirms(board, outcome)
      BY <1>2, <1>3, <3>4 DEF Confirms
    <3> QED
      BY <3>2, <3>5
  <2>5. \A i \in 1..Len(messages) : messages[i].type = "GameOver" =>
          /\ i = 1
          /\ me # 0 \/ (\E j \in 1..Len(before) : before[j].type = "SetControlledEntity")
             => Confirms(After(copy, before), messages[i])
    BY <1>5, <2>4
  <2>6. Confirmed(me, copy, before \o messages)
    BY <2>3, <2>5, ConfirmedOn
  <2> QED
    BY <1>1, <1>7, <1>10, <2>1, <2>2, <2>6
<1>11. Verdicts'
  BY <1>10 DEF Verdicts
<1> QED
  BY <1>8, <1>9, <1>11 DEF SInv

LEMMA CollisionSInv ==
  ASSUME IInv, SInv, Collision
  PROVE  SInv'
<1>1. PICK devourer \in DOMAIN scores, devoured \in DOMAIN scores, gain \in 1..MaxGain :
        /\ devourer # devoured
        /\ Bite(devourer, devoured, gain)
        /\ UNCHANGED <<session, created_ai_entities, client, joined, missed>>
  BY DEF Collision
<1> DEFINE first == ScoreUpdate(devourer, scores'[devourer])
           second == ScoreUpdate(devoured, 0)
<1>2. /\ scores' = [scores EXCEPT ![devourer] = @ + gain, ![devoured] = 0]
      /\ SendToAll(<<first, second>>)
      /\ UNCHANGED <<session, created_ai_entities, my_entity, leaderboard,
                     joined, missed>>
  BY <1>1 DEF Bite, client
<1>3. /\ DOMAIN scores' = DOMAIN scores /\ scores'[devoured] = 0
      /\ \A eid \in DOMAIN scores :
           eid # devourer /\ eid # devoured => scores'[eid] = scores[eid]
      /\ scores'[devourer] \in Int
  <2>1. scores[devourer] \in Nat
    BY ScoresAreNumbers DEF IInv
  <2> QED
    BY <1>1, <1>2, <2>1
<1>4. /\ first \in Message /\ second \in Message
      /\ first.type # "GameOver" /\ second.type # "GameOver"
  <2>1. devourer \in Nat /\ devoured \in Nat
    BY ScoresAreNumbers DEF IInv
  <2> QED
    BY <1>3, <2>1 DEF ScoreUpdate, Message
<1>5. ASSUME NEW copy
      PROVE  LET after == Scored(Scored(copy, first), second)
             IN /\ DOMAIN after = DOMAIN copy
                /\ \A eid \in DOMAIN copy :
                     after[eid] = IF eid = devoured THEN 0
                                  ELSE IF eid = devourer THEN scores'[devourer]
                                  ELSE copy[eid]
  <2>1. PICK score : score = scores'[devourer]
    OBVIOUS
  <2>2. PICK middle : middle = Scored(copy, ScoreUpdate(devourer, score))
    OBVIOUS
  <2>3. PICK after : after = Scored(middle, ScoreUpdate(devoured, 0))
    OBVIOUS
  <2>4. /\ DOMAIN middle = DOMAIN copy
        /\ \A k \in DOMAIN copy : middle[k] = IF k = devourer THEN score ELSE copy[k]
    BY <2>2, ScoreIsLearnt
  <2>5. /\ DOMAIN after = DOMAIN middle
        /\ \A k \in DOMAIN middle : after[k] = IF k = devoured THEN 0 ELSE middle[k]
    BY <2>3, ScoreIsLearnt
  <2>6. after = Scored(Scored(copy, first), second)
    BY <2>1, <2>2, <2>3
  <2> HIDE DEF first, second
  <2> QED
    BY <2>1, <2>4, <2>5, <2>6
<1> HIDE DEF first, second
<1>6. PICK messages \in Seq(Message) : messages = <<first, second>>
  <2>1. <<first, second>> \in Seq(Message)
    BY <1>4
  <2> QED
    BY <2>1
<1>7. \A i \in 1..Len(messages) : messages[i].type # "GameOver"
  <2>1. Len(messages) = 2 /\ messages[1] = first /\ messages[2] = second
    BY <1>6
  <2>2. \A i \in 1..2 : i = 1 \/ i = 2
    OBVIOUS
  <2> QED
    BY <1>4, <2>1, <2>2
<1>8. ASSUME NEW e \in Endpoint, FirstSession(e)'
      PROVE  /\ FirstSession(e) /\ channel[e] \in Seq(Message)
             /\ channel'[e] = channel[e] \o messages
             /\ DOMAIN Latest(e)' = DOMAIN Latest(e)
             /\ \A eid \in DOMAIN Latest(e) : Latest(e)'[eid] = scores'[eid]
  <2>1. SendToAll(messages)
    BY <1>2, <1>6
  <2>2. /\ FirstSession(e) /\ channel[e] \in Seq(Message)
        /\ channel'[e] = channel[e] \o messages
        /\ Latest(e)' = After(Latest(e), messages)
    BY <1>2, <1>8, <2>1, SentToAll
  <2>3. PICK copy, after : copy = Latest(e) /\ after = Latest(e)'
    OBVIOUS
  <2>4. After(copy, messages) = Scored(Scored(copy, first), second)
    <3>1. Len(messages) = 2 /\ messages[1] = first /\ messages[2] = second
      BY <1>6
    <3>2. After(copy, messages) = Scored(Scored(copy, messages[1]), messages[2])
      BY <3>1, TwoAreRead
    <3> QED
      BY <3>1, <3>2
  <2>5. after = Scored(Scored(copy, first), second)
    BY <1>6, <2>2, <2>3, <2>4
  <2>6. /\ DOMAIN after = DOMAIN copy
        /\ \A eid \in DOMAIN copy :
             after[eid] = IF eid = devoured THEN 0
                          ELSE IF eid = devourer THEN scores'[devourer]
                          ELSE copy[eid]
    BY <1>5, <2>5
  <2>7. DOMAIN copy \subseteq DOMAIN scores /\ \A eid \in DOMAIN copy : copy[eid] = scores[eid]
    BY <2>2, <2>3 DEF SInv, Exact
  <2>8. \A eid \in DOMAIN copy : after[eid] = scores'[eid]
    BY <1>3, <2>6, <2>7
  <2> QED
    BY <2>2, <2>3, <2>6, <2>8
<1>9. Exact'
  <2> SUFFICES ASSUME NEW e \in Endpoint, FirstSession(e)'
               PROVE  /\ DOMAIN Latest(e)' \subseteq DOMAIN scores'
                      /\ \A eid \in DOMAIN Latest(e)' : Latest(e)'[eid] = scores'[eid]
                      /\ e \in joined' => DOMAIN Latest(e)' = DOMAIN scores'
    BY DEF Exact
  <2>1. /\ DOMAIN Latest(e) \subseteq DOMAIN scores
        /\ e \in joined => DOMAIN Latest(e) = DOMAIN scores
    BY <1>8 DEF SInv, Exact
  <2> QED
    BY <1>2, <1>3, <1>8, <2>1
<1>10. NothingYet'
  BY <1>2, <1>6, NothingYetStays DEF SInv
<1>11. ASSUME NEW e \in Endpoint, FirstSession(e)'
       PROVE  Confirmed(my_entity'[e], leaderboard'[e], channel'[e])
  <2>1. PICK before \in Seq(Message) : before = channel[e]
    BY <1>8, <1>11
  <2>2. PICK me, copy : me = my_entity[e] /\ copy = leaderboard[e]
    OBVIOUS
  <2>3. Confirmed(me, copy, before)
    BY <1>8, <1>11, <2>1, <2>2 DEF SInv, Verdicts
  <2>4. Confirmed(me, copy, before \o messages)
    BY <1>7, <2>3, ConfirmedOn
  <2> QED
    BY <1>2, <1>8, <1>11, <2>1, <2>2, <2>4
<1>12. Verdicts'
  BY <1>11 DEF Verdicts
<1> QED
  BY <1>9, <1>10, <1>12 DEF SInv

\* A newcomer has heard of everything when its channel is read, and everybody
\* has heard of the newcomer.
LEMMA OnJoinSInv ==
  ASSUME IInv, SInv, NEW e \in Endpoint, OnJoin(e)
  PROVE  SInv'
<1>1. PICK new_eid : new_eid = Len(Existing) + 1
  OBVIOUS
<1>2. /\ IsOpen(e) /\ e \in joins
      /\ created_ai_entities' = TRUE
      /\ Welcome(e, new_eid)
      /\ joined' = joined \cup {e}
      /\ UNCHANGED <<session, my_entity, leaderboard, missed>>
  BY <1>1 DEF OnJoin, client
<1>3. /\ DOMAIN scores' = 1..new_eid /\ scores'[new_eid] = 0
      /\ \A eid \in DOMAIN Existing : scores'[eid] = Existing[eid]
      /\ new_eid \in Nat \ {0} /\ new_eid \in DOMAIN scores'
      /\ new_eid \notin DOMAIN scores /\ new_eid \notin DOMAIN Existing
      /\ DOMAIN Existing \subseteq DOMAIN scores'
      /\ DOMAIN scores \subseteq DOMAIN scores'
      /\ \A eid \in DOMAIN scores' : eid = new_eid \/ eid \in DOMAIN Existing
  BY <1>1, <1>2, JoinedScores
<1>4. /\ Len(Existing) \in Nat /\ DOMAIN Existing = 1..Len(Existing)
      /\ DOMAIN scores \subseteq DOMAIN Existing
      /\ \A eid \in DOMAIN scores : created_ai_entities
      /\ created_ai_entities => Existing = scores
  BY ExistingEntities, NoElements DEF IInv, Numbers
<1>5. \A eid \in DOMAIN scores : scores'[eid] = scores[eid]
  BY <1>3, <1>4
<1> DEFINE born == NewEntity(new_eid, 0)
           given == SetControlledEntity(new_eid)
<1>6. /\ born \in Message /\ given \in Message
      /\ born.type # "GameOver" /\ given.type = "SetControlledEntity"
  BY <1>3 DEF NewEntity, SetControlledEntity, Message
<1>7. PICK list \in Seq(Message) :
        list = Listing(Existing) /\ \A i \in 1..Len(list) : list[i].type # "GameOver"
  <2>1. /\ Listing(Existing) \in Seq(Message)
        /\ \A m \in ToSet(Listing(Existing)) : m.type = "NewEntity"
    BY ListingElements
  <2>2. PICK list \in Seq(Message) : list = Listing(Existing)
    BY <2>1
  <2>3. \A i \in 1..Len(list) : list[i] \in ToSet(list)
    BY LenProperties DEF ToSet
  <2> QED
    BY <2>1, <2>2, <2>3
<1>8. \A f \in Endpoint : (IsOpen(f)' <=> IsOpen(f)) /\ (FirstSession(f)' <=> FirstSession(f))
  BY <1>2 DEF FirstSession, IsOpen
<1>9. \A f \in Endpoint : channel[f] \in Seq(Message)
  BY DEF IInv, Shapes
<1>10. ASSUME NEW copy
       PROVE  LET after == Scored(copy, born)
              IN /\ DOMAIN after = DOMAIN copy \cup {new_eid}
                 /\ \A k \in DOMAIN copy : after[k] = copy[k]
                 /\ new_eid \notin DOMAIN copy => after[new_eid] = 0
  <2>1. PICK zero : zero = 0
    OBVIOUS
  <2>2. PICK after : after = Scored(copy, NewEntity(new_eid, zero))
    OBVIOUS
  <2>3. /\ \A k : k \in DOMAIN after <=> k \in DOMAIN copy \/ k = new_eid
        /\ \A k \in DOMAIN copy : after[k] = copy[k]
        /\ new_eid \notin DOMAIN copy => after[new_eid] = zero
    BY <2>2, EntityIsLearnt
  <2>4. after = Scored(copy, born)
    BY <2>1, <2>2
  <2> HIDE DEF born
  <2> QED
    BY <2>1, <2>3, <2>4
<1>11. \A copy : Scored(copy, given) = copy
  BY <1>6, OtherIsNotLearnt
<1> HIDE DEF born, given
<1>12. channel'[e] = (channel[e] \o list) \o <<born, given>>
  BY <1>2, <1>7 DEF Welcome, born, given
<1>13. \A f \in Endpoint \ {e} : IsOpen(f) => channel'[f] = Append(channel[f], born)
  BY <1>2 DEF Welcome, born
<1>14. \A f \in Endpoint : ~IsOpen(f) => channel'[f] = channel[f]
  BY <1>2 DEF Welcome
<1>15. ASSUME FirstSession(e)
       PROVE  /\ DOMAIN Latest(e)' = DOMAIN scores'
              /\ \A eid \in DOMAIN Latest(e)' : Latest(e)'[eid] = scores'[eid]
              /\ Confirmed(my_entity'[e], leaderboard'[e], channel'[e])
  <2>1. PICK before \in Seq(Message) : before = channel[e]
    BY <1>9
  <2>2. PICK me, copy : me = my_entity[e] /\ copy = leaderboard[e]
    OBVIOUS
  <2>3. PICK middle \in Seq(Message) : middle = before \o list
    BY ConcatProperties
  <2>4. PICK two \in Seq(Message) : two = <<born, given>>
    <3>1. <<born, given>> \in Seq(Message)
      BY <1>6
    <3> QED
      BY <3>1
  <2>5. channel'[e] = middle \o two
    BY <1>12, <2>1, <2>3, <2>4
  <2>6. Confirmed(me, copy, middle \o two)
    <3>1. Confirmed(me, copy, before)
      BY <1>15, <2>1, <2>2 DEF SInv, Verdicts
    <3>2. Confirmed(me, copy, middle)
      BY <1>7, <2>3, <3>1, ConfirmedOn
    <3>3. \A i \in 1..Len(two) : two[i].type # "GameOver"
      <4>1. Len(two) = 2 /\ two[1] = born /\ two[2] = given
        BY <2>4
      <4>2. \A i \in 1..2 : i = 1 \/ i = 2
        OBVIOUS
      <4> QED
        BY <1>6, <4>1, <4>2
    <3> QED
      BY <3>2, <3>3, ConfirmedOn
  <2>7. PICK c0 : c0 = Latest(e) /\ c0 = After(copy, before)
    BY <2>1, <2>2 DEF Latest
  <2>8. DOMAIN c0 \subseteq DOMAIN scores /\ \A eid \in DOMAIN c0 : c0[eid] = scores[eid]
    BY <1>15, <2>7 DEF SInv, Exact
  <2>9. PICK c1 : c1 = After(c0, list)
    OBVIOUS
  <2>10. DOMAIN c1 = DOMAIN Existing /\ \A eid \in DOMAIN Existing : c1[eid] = scores'[eid]
    <3>0. PICK existing : existing = Existing
      BY ZenonT(40)
    <3>1. PICK n \in Nat : n = Len(existing)
      BY <1>4, <3>0
    <3>2. DOMAIN existing = 1..n
      BY <1>4, <3>0, <3>1
    <3>3. c1 = After(c0, Listing(existing))
      BY <1>7, <2>9, <3>0
    <3>4. /\ \A k : k \in DOMAIN c1 <=> k \in DOMAIN c0 \/ k \in 1..n
          /\ \A k \in DOMAIN c0 : c1[k] = c0[k]
          /\ \A k \in (1..n) \ DOMAIN c0 : c1[k] = existing[k]
      BY <3>2, <3>3, ListingIsLearnt
    <3>5. DOMAIN c0 \subseteq 1..n
      BY <1>4, <2>8, <3>0, <3>1
    <3>6. \A k \in DOMAIN c0 : c1[k] = scores'[k]
      BY <1>5, <2>8, <3>4
    <3>7. \A k \in (1..n) \ DOMAIN c0 : c1[k] = scores'[k]
      BY <1>3, <1>4, <3>0, <3>1, <3>4
    <3> QED
      BY <1>4, <3>0, <3>1, <3>4, <3>5, <3>6, <3>7
  <2>11. PICK c2 : c2 = Scored(c1, born)
    OBVIOUS
  <2>12. /\ DOMAIN c2 = DOMAIN c1 \cup {new_eid}
         /\ \A k \in DOMAIN c1 : c2[k] = c1[k]
         /\ new_eid \notin DOMAIN c1 => c2[new_eid] = 0
    BY <1>10, <2>11
  <2>13. DOMAIN c2 = DOMAIN scores' /\ \A eid \in DOMAIN c2 : c2[eid] = scores'[eid]
    BY <1>3, <2>10, <2>12
  <2>14. Latest(e)' = c2
    <3>1. After(copy, middle) = c1
      BY <2>3, <2>7, <2>9, AfterOn
    <3>2. After(copy, middle \o two) = After(c1, two)
      BY <3>1, AfterOn
    <3>3. After(c1, two) = Scored(Scored(c1, born), given)
      <4>1. Len(two) = 2 /\ two[1] = born /\ two[2] = given
        BY <2>4
      <4>2. After(c1, two) = Scored(Scored(c1, two[1]), two[2])
        BY <4>1, TwoAreRead
      <4> QED
        BY <4>1, <4>2
    <3>4. After(c1, two) = c2
      BY <1>11, <2>11, <3>3
    <3> QED
      BY <1>2, <2>2, <2>5, <3>2, <3>4 DEF Latest
  <2> QED
    BY <1>2, <2>2, <2>5, <2>6, <2>13, <2>14
<1>16. ASSUME NEW f \in Endpoint \ {e}, FirstSession(f)
       PROVE  /\ DOMAIN Latest(f)' = DOMAIN Latest(f) \cup {new_eid}
              /\ \A eid \in DOMAIN Latest(f)' : Latest(f)'[eid] = scores'[eid]
              /\ Confirmed(my_entity'[f], leaderboard'[f], channel'[f])
  <2>1. PICK before \in Seq(Message) : before = channel[f]
    BY <1>9
  <2>2. PICK me, copy : me = my_entity[f] /\ copy = leaderboard[f]
    OBVIOUS
  <2>3. PICK one \in Seq(Message) : one = <<born>>
    <3>1. <<born>> \in Seq(Message)
      BY <1>6
    <3> QED
      BY <3>1
  <2>4. channel'[f] = before \o one
    <3>1. channel'[f] = Append(before, born)
      BY <1>13, <1>16, <2>1 DEF FirstSession
    <3> QED
      BY <1>6, <2>3, <3>1, AppendIsConcat
  <2>5. Confirmed(me, copy, before \o one)
    <3>1. Confirmed(me, copy, before)
      BY <1>16, <2>1, <2>2 DEF SInv, Verdicts
    <3>2. \A i \in 1..Len(one) : one[i].type # "GameOver"
      BY <1>6, <2>3
    <3> QED
      BY <3>1, <3>2, ConfirmedOn
  <2>6. PICK c0 : c0 = Latest(f) /\ c0 = After(copy, before)
    BY <2>1, <2>2 DEF Latest
  <2>7. DOMAIN c0 \subseteq DOMAIN scores /\ \A eid \in DOMAIN c0 : c0[eid] = scores[eid]
    BY <1>16, <2>6 DEF SInv, Exact
  <2>8. PICK c1 : c1 = Scored(c0, born)
    OBVIOUS
  <2>9. /\ DOMAIN c1 = DOMAIN c0 \cup {new_eid}
        /\ \A k \in DOMAIN c0 : c1[k] = c0[k]
        /\ new_eid \notin DOMAIN c0 => c1[new_eid] = 0
    BY <1>10, <2>8
  <2>10. \A eid \in DOMAIN c1 : c1[eid] = scores'[eid]
    BY <1>3, <1>5, <2>7, <2>9
  <2>11. Latest(f)' = c1
    <3>1. After(copy, before \o one) = After(c0, one)
      BY <2>6, AfterOn
    <3>2. After(c0, one) = c1
      <4>1. Len(one) = 1 /\ one[1] = born
        BY <2>3
      <4>2. After(c0, one) = Scored(c0, one[1])
        BY <4>1, OneIsRead
      <4> QED
        BY <2>8, <4>1, <4>2
    <3> QED
      BY <1>2, <2>2, <2>4, <3>1, <3>2 DEF Latest
  <2> QED
    BY <1>2, <2>2, <2>4, <2>5, <2>6, <2>9, <2>10, <2>11
<1>17. Exact'
  <2> SUFFICES ASSUME NEW f \in Endpoint, FirstSession(f)'
               PROVE  /\ DOMAIN Latest(f)' \subseteq DOMAIN scores'
                      /\ \A eid \in DOMAIN Latest(f)' : Latest(f)'[eid] = scores'[eid]
                      /\ f \in joined' => DOMAIN Latest(f)' = DOMAIN scores'
    BY DEF Exact
  <2>1. CASE f = e
    BY <1>8, <1>15, <2>1
  <2>2. CASE f # e
    <3>1. /\ DOMAIN Latest(f)' = DOMAIN Latest(f) \cup {new_eid}
          /\ \A eid \in DOMAIN Latest(f)' : Latest(f)'[eid] = scores'[eid]
      BY <1>8, <1>16, <2>2
    <3>2. /\ DOMAIN Latest(f) \subseteq DOMAIN scores
          /\ f \in joined => DOMAIN Latest(f) = DOMAIN scores
      BY <1>8 DEF SInv, Exact
    <3>3. f \in joined' => f \in joined /\ created_ai_entities
      BY <1>2, <2>2 DEF SInv, NothingYet
    <3>4. f \in joined' => DOMAIN scores' = DOMAIN scores \cup {new_eid}
      BY <1>3, <1>4, <3>3
    <3> QED
      BY <1>3, <3>1, <3>2, <3>3, <3>4
  <2> QED
    BY <2>1, <2>2
<1>18. NothingYet'
  BY <1>2, <1>8, <1>14 DEF SInv, NothingYet
<1>19. Verdicts'
  BY <1>8, <1>15, <1>16 DEF Verdicts
<1> QED
  BY <1>17, <1>18, <1>19 DEF SInv

LEMMA NextSInv == IInv /\ SInv /\ [Next]_vars => SInv'
<1> SUFFICES ASSUME IInv, SInv, [Next]_vars PROVE SInv'
  OBVIOUS
<1>1. ASSUME NEW e \in Endpoint, NEW p \in Pointer, OnConnected(e, p) PROVE SInv'
  BY <1>1, OnConnectedSInv
<1>2. ASSUME NEW e \in Endpoint, OnDisconnected(e) PROVE SInv'
  BY <1>2, OnDisconnectedSInv
<1>3. ASSUME NEW e \in Endpoint, OnJoin(e) PROVE SInv'
  BY <1>3, OnJoinSInv
<1>4. ASSUME NEW e \in Endpoint, SendJoin(e) PROVE SInv'
  BY <1>4, UntouchedSInv DEF SendJoin, server, client
<1>5. ASSUME NEW e \in Endpoint, ProcessPacket(e) PROVE SInv'
  BY <1>5, ProcessPacketSInv
<1>6. CASE ClockTicks
  BY <1>6, ClockTicksSInv
<1>7. CASE Collision
  BY <1>7, CollisionSInv
<1>8. CASE UNCHANGED vars
  BY <1>8, UntouchedSInv DEF vars, server, client
<1> QED
  BY <1>1, <1>2, <1>3, <1>4, <1>5, <1>6, <1>7, <1>8 DEF Next

\* What the invariant says of a state and of a step.
LEMMA ExactFollows == SInv => LeaderboardIsExact
BY DEF SInv, Exact, LeaderboardIsExact, Latest, After

LEMMA VerdictFollows ==
  ASSUME IInv, SInv, [Next]_vars, NEW e \in Endpoint,
         result'[e] # result[e], FirstSession(e), my_entity[e] # 0
  PROVE  LET board == leaderboard[e]
             verdict == result'[e]
         IN /\ board[verdict.winner] = verdict.score
            /\ \A eid \in DOMAIN board : board[eid] <= verdict.score
<1>1. ProcessPacket(e)
  <2>1. ASSUME UNCHANGED result PROVE FALSE
    BY <2>1
  <2>2. ~UNCHANGED vars
    BY <2>1 DEF vars, client
  <2>3. /\ \A f \in Endpoint, p \in Pointer : ~OnConnected(f, p)
        /\ \A f \in Endpoint : ~OnDisconnected(f) /\ ~OnJoin(f) /\ ~SendJoin(f)
        /\ ~ClockTicks /\ ~Collision
    BY <2>1 DEF OnConnected, OnDisconnected, OnJoin, SendJoin, ClockTicks,
                Collision, client
  <2>4. PICK f \in Endpoint : ProcessPacket(f)
    BY <2>2, <2>3 DEF Next
  <2>5. f # e => result'[e] = result[e]
    BY <2>4 DEF ProcessPacket
  <2> QED
    BY <2>4, <2>5
<1>2. PICK messages \in Seq(Message) : messages = channel[e]
  BY DEF IInv, Shapes
<1>3. PICK m : m = Head(messages)
  OBVIOUS
<1>4. /\ messages # <<>>
      /\ result' = [result EXCEPT
                      ![e] = IF m.type = "GameOver"
                             THEN [winner |-> m.eid, score |-> m.score] ELSE result[e]]
  BY <1>1, <1>2, <1>3 DEF ProcessPacket
<1>5. m.type = "GameOver" /\ result'[e] = [winner |-> m.eid, score |-> m.score]
  BY <1>4 DEF IInv, Shapes
<1>6. 1 \in 1..Len(messages) /\ messages[1] = m /\ 1 - 1 = 0
  BY <1>3, <1>4, HeadTailProperties, EmptySeq, LenProperties
<1>7. PICK copy : copy = leaderboard[e]
  OBVIOUS
<1>8. Reading(copy, messages)[0] = copy
  BY ReadingStep
<1>9. Confirms(copy, m)
  BY <1>2, <1>5, <1>6, <1>7, <1>8 DEF SInv, Verdicts, Confirmed
<1> QED
  BY <1>5, <1>7, <1>9 DEF Confirms

\* Scores, time, control and copies stay what the code declares them to be: in
\* particular the map of who controls what has an entry for every entity and
\* no other (raylib-examples/entity-eater/server.cpp, entities and
\* controlled_map).
THEOREM TypeIsKept == Spec => []TypeOK
<1>1. IInv => TypeOK
  BY DEF IInv
<1> QED
  BY <1>1, InitIInv, NextIInv, PTL DEF Spec

\* What one state of the invariant says of who steers what.
LEMMA ControlFollows == IInv => ControlIsExclusive
<1> SUFFICES ASSUME IInv PROVE ControlIsExclusive
  OBVIOUS
<1>1. \A e \in Endpoint : my_entity[e] # 0 => my_entity[e] \in Given(e)
  BY DEF Given
<1>2. \A e, f \in Endpoint : my_entity[e] = my_entity[f] /\ e # f => my_entity[e] = 0
  BY <1>1 DEF IInv, GivenOnce
<1>3. ASSUME NEW eid \in DOMAIN controlled_map, controlled_map[eid] # NoClient
      PROVE  \E e \in Endpoint :
               /\ session[e] = controlled_map[eid]
               /\ my_entity[e] \in {0, eid}
               /\ \A other \in DOMAIN controlled_map :
                    controlled_map[other] = controlled_map[eid] => other = eid
  <2>1. DOMAIN controlled_map = DOMAIN scores
    BY DEF IInv, TypeOK
  <2>2. PICK e \in Endpoint : session[e] = controlled_map[eid] /\ Given(e) = {eid}
    BY <1>3, <2>1 DEF IInv, GivenOnce
  <2>3. my_entity[e] \in {0, eid}
    BY <1>1, <2>2
  <2>4. ASSUME NEW other \in DOMAIN controlled_map,
               controlled_map[other] = controlled_map[eid]
        PROVE  other = eid
    <3>1. PICK f \in Endpoint : session[f] = controlled_map[other] /\ Given(f) = {other}
      BY <1>3, <2>1, <2>4 DEF IInv, GivenOnce
    <3>2. f = e
      BY <1>3, <2>2, <2>4, <3>1 DEF IInv, SessionsAreDistinct, IsOpen
    <3> QED
      BY <2>2, <3>1, <3>2
  <2> QED
    BY <2>2, <2>3, <2>4
<1> QED
  BY <1>2, <1>3 DEF ControlIsExclusive

\* However clients leave and come back, and however late they read what they
\* were sent, no two of them steer one entity, and the map of the server names
\* an open session or nobody and never two entities for one session: the
\* bookkeeping of OnJoin and of the disconnection callback
\* (raylib-examples/entity-eater/server.cpp), for any number of clients.
THEOREM ControlStaysExclusive == Spec => []ControlIsExclusive
BY ControlFollows, InitIInv, NextIInv, PTL DEF Spec

\* What a client in its first session shows of the scores is the truth but
\* for what is on its way, and the verdict it is told agrees with the scores
\* it shows, whatever else is broadcast while somebody joins, is eaten or
\* leaves: OnJoin's list of what there is, the broadcasts and the end of the
\* game (raylib-examples/entity-eater/server.cpp) against the client that
\* applies them (client.cpp), for any number of clients, of AI entities and of
\* bites.
THEOREM ScoresStayTrue == Spec => ScoresAreTrue
<1>1. Init => IInv /\ SInv
  BY InitIInv, InitSInv
<1>2. IInv /\ SInv /\ [Next]_vars => IInv' /\ SInv'
  BY NextIInv, NextSInv
<1>3. IInv /\ SInv => LeaderboardIsExact
  BY ExactFollows
<1>4. IInv /\ SInv /\ [Next]_vars =>
        [\A e \in Endpoint :
           /\ result'[e] # result[e]
           /\ FirstSession(e)
           /\ my_entity[e] # 0
           => LET board == leaderboard[e]
                  verdict == result'[e]
              IN /\ board[verdict.winner] = verdict.score
                 /\ \A eid \in DOMAIN board : board[eid] <= verdict.score]_vars
  BY VerdictFollows
<1> QED
  BY <1>1, <1>2, <1>3, <1>4, PTL
     DEF Spec, ScoresAreTrue, VerdictMatchesLeaderboard

=============================================================================
