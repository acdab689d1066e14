--------------------------- MODULE OperatorProofs ---------------------------
(***************************************************************************)
(* Facts about operators the models share, for every value: sequences as   *)
(* the lists and channels of the code, the least of a set of numbers, and  *)
(* the packed floats of ship-swarm.  The proofs about the components rest  *)
(* on them.                                                                *)
(***************************************************************************)
EXTENDS Quantisation, SequencesExt, SequenceTheorems, FiniteSetTheorems, TLAPS

-----------------------------------------------------------------------------
(* Sequences *)

LEMMA NoElements == ToSet(<<>>) = {} /\ DOMAIN <<>> = {} /\ IsInjective(<<>>)
  BY DEF ToSet, IsInjective

\* What is in a list after push_back, and that a new element stays single.
LEMMA AppendedElements ==
  ASSUME NEW S, NEW s \in Seq(S), NEW x \in S
  PROVE  /\ ToSet(Append(s, x)) = ToSet(s) \cup {x}
         /\ IsInjective(s) /\ x \notin ToSet(s) => IsInjective(Append(s, x))
<1> DEFINE t == Append(s, x)
<1>1. /\ DOMAIN s = 1..Len(s) /\ Len(s) \in Nat
      /\ DOMAIN t = 1..Len(s) + 1
      /\ t[Len(s) + 1] = x
      /\ \A i \in 1..Len(s) : t[i] = s[i]
  BY AppendProperties, LenProperties
<1> HIDE DEF t
<1>2. ToSet(t) = ToSet(s) \cup {x}
  <2>1. ASSUME NEW y \in ToSet(t) PROVE y \in ToSet(s) \cup {x}
    <3>1. PICK i \in 1..Len(s) + 1 : y = t[i]
      BY <1>1, <2>1 DEF ToSet
    <3>2. i \in 1..Len(s) \/ i = Len(s) + 1
      BY <1>1
    <3> QED
      BY <1>1, <3>1, <3>2 DEF ToSet
  <2>2. ASSUME NEW y \in ToSet(s) \cup {x} PROVE y \in ToSet(t)
    <3>1. Len(s) + 1 \in DOMAIN t /\ 1..Len(s) \subseteq DOMAIN t
      BY <1>1
    <3>2. y = x \/ \E i \in 1..Len(s) : y = s[i]
      BY <1>1, <2>2 DEF ToSet
    <3> QED
      BY <1>1, <3>1, <3>2 DEF ToSet
  <2> QED
    BY <2>1, <2>2
<1>3. ASSUME IsInjective(s), x \notin ToSet(s) PROVE IsInjective(t)
  <2> SUFFICES ASSUME NEW i \in 1..Len(s) + 1, NEW j \in 1..Len(s) + 1, t[i] = t[j]
               PROVE  i = j
    BY <1>1 DEF IsInjective
  <2>1. \A k \in 1..Len(s) : t[k] = s[k] /\ s[k] # x
    BY <1>1, <1>3 DEF ToSet
  <2> QED
    BY <1>1, <1>3, <2>1 DEF IsInjective
<1> QED
  BY <1>2, <1>3 DEF t

\* What is left of a queue once its head is taken.
LEMMA TailElements ==
  ASSUME NEW S, NEW s \in Seq(S), s # <<>>
  PROVE  /\ Head(s) \in ToSet(s)
         /\ ToSet(s) = ToSet(Tail(s)) \cup {Head(s)}
         /\ IsInjective(s) => IsInjective(Tail(s)) /\ Head(s) \notin ToSet(Tail(s))
<1> DEFINE t == Tail(s)
<1>1. /\ DOMAIN s = 1..Len(s) /\ Len(s) \in Nat \ {0}
      /\ DOMAIN t = 1..Len(s) - 1
      /\ Head(s) = s[1]
      /\ \A i \in 1..Len(s) - 1 : t[i] = s[i + 1]
  BY HeadTailProperties, LenProperties, EmptySeq
<1> HIDE DEF t
<1>2. Head(s) \in ToSet(s)
  BY <1>1 DEF ToSet
<1>3. ToSet(t) \subseteq ToSet(s)
  <2> SUFFICES ASSUME NEW i \in 1..Len(s) - 1 PROVE t[i] \in ToSet(s)
    BY <1>1 DEF ToSet
  <2>1. i + 1 \in DOMAIN s
    BY <1>1
  <2> QED
    BY <1>1, <2>1 DEF ToSet
<1>4. ASSUME NEW x \in ToSet(s) PROVE x \in ToSet(t) \cup {Head(s)}
  <2>1. PICK i \in 1..Len(s) : x = s[i]
    BY <1>1 DEF ToSet
  <2>2. CASE i = 1
    BY <1>1, <2>1, <2>2
  <2>3. CASE i # 1
    <3>1. i - 1 \in DOMAIN t /\ i - 1 \in 1..Len(s) - 1 /\ (i - 1) + 1 = i
      BY <1>1, <2>3
    <3>2. t[i - 1] = x
      BY <1>1, <2>1, <3>1
    <3> QED
      BY <3>1, <3>2 DEF ToSet
  <2> QED
    BY <2>2, <2>3
<1>5. ASSUME IsInjective(s) PROVE IsInjective(t) /\ Head(s) \notin ToSet(t)
  <2>1. \A i, j \in 1..Len(s) : s[i] = s[j] => i = j
    BY <1>1, <1>5 DEF IsInjective
  <2>2. \A i \in 1..Len(s) - 1 : i + 1 \in 1..Len(s) /\ i + 1 # 1
    BY <1>1
  <2>3. \A i, j \in 1..Len(s) - 1 : t[i] = t[j] => i = j
    <3> SUFFICES ASSUME NEW i \in 1..Len(s) - 1, NEW j \in 1..Len(s) - 1, t[i] = t[j]
                 PROVE  i = j
      OBVIOUS
    <3>1. i + 1 = j + 1
      BY <1>1, <2>1, <2>2
    <3> QED
      BY <3>1
  <2>4. \A i \in 1..Len(s) - 1 : t[i] # s[1]
    BY <1>1, <2>1, <2>2
  <2> QED
    BY <1>1, <2>3, <2>4 DEF IsInjective, ToSet
<1> QED
  BY <1>2, <1>3, <1>4, <1>5 DEF t

\* A message is on a channel that two batches were put on if it was in one.
LEMMA ConcatElements ==
  ASSUME NEW S, NEW s \in Seq(S), NEW t \in Seq(S)
  PROVE  ToSet(s \o t) = ToSet(s) \cup ToSet(t)
<1> DEFINE u == s \o t
<1>1. /\ DOMAIN s = 1..Len(s) /\ Len(s) \in Nat
      /\ DOMAIN t = 1..Len(t) /\ Len(t) \in Nat
      /\ DOMAIN u = 1..Len(s) + Len(t)
      /\ \A i \in 1..Len(s) + Len(t) :
           u[i] = IF i <= Len(s) THEN s[i] ELSE t[i - Len(s)]
  BY ConcatProperties, LenProperties
<1> HIDE DEF u
<1>2. ASSUME NEW x \in ToSet(u) PROVE x \in ToSet(s) \cup ToSet(t)
  <2>1. PICK i \in 1..Len(s) + Len(t) : x = u[i]
    BY <1>1 DEF ToSet
  <2>2. i \in 1..Len(s) \/ i - Len(s) \in 1..Len(t)
    BY <1>1
  <2>3. x = IF i <= Len(s) THEN s[i] ELSE t[i - Len(s)]
    BY <1>1, <2>1
  <2>4. i <= Len(s) => i \in 1..Len(s)
    BY <1>1
  <2>5. ~(i <= Len(s)) => i - Len(s) \in 1..Len(t)
    BY <1>1
  <2> QED
    BY <1>1, <2>3, <2>4, <2>5 DEF ToSet
<1>3. ASSUME NEW x \in ToSet(s) PROVE x \in ToSet(u)
  <2>1. PICK i \in 1..Len(s) : x = s[i]
    BY <1>1 DEF ToSet
  <2>2. i \in 1..Len(s) + Len(t) /\ i <= Len(s)
    BY <1>1
  <2>3. u[i] = x
    BY <1>1, <2>1, <2>2
  <2> QED
    BY <1>1, <2>2, <2>3 DEF ToSet
<1>4. ASSUME NEW x \in ToSet(t) PROVE x \in ToSet(u)
  <2>1. PICK i \in 1..Len(t) : x = t[i]
    BY <1>1 DEF ToSet
  <2>2. /\ Len(s) + i \in 1..Len(s) + Len(t) /\ ~(Len(s) + i <= Len(s))
        /\ (Len(s) + i) - Len(s) = i
    BY <1>1
  <2>3. u[Len(s) + i] = x
    BY <1>1, <2>1, <2>2
  <2> QED
    BY <1>1, <2>2, <2>3 DEF ToSet
<1> QED
  BY <1>2, <1>3, <1>4 DEF u

\* Where the elements of a concatenation come from.
LEMMA ConcatIndices ==
  ASSUME NEW S, NEW s \in Seq(S), NEW t \in Seq(S)
  PROVE  /\ Len(s) \in Nat /\ Len(t) \in Nat /\ Len(s \o t) = Len(s) + Len(t)
         /\ \A i \in 1..Len(s) : (s \o t)[i] = s[i]
         /\ \A i \in 1..Len(t) : (s \o t)[Len(s) + i] = t[i]
<1> DEFINE a == Len(s)
           b == Len(t)
<1>1. PICK all : all = s \o t
  OBVIOUS
<1>2. a \in Nat /\ b \in Nat
  BY LenProperties
<1>3. Len(all) = a + b /\ \A i \in 1..a + b : all[i] = IF i <= a THEN s[i] ELSE t[i - a]
  BY <1>1, ConcatProperties
<1>4. ASSUME NEW i \in 1..a PROVE all[i] = s[i]
  <2>1. i \in 1..a + b /\ i <= a
    BY <1>2
  <2> QED
    BY <1>3, <2>1
<1>5. ASSUME NEW i \in 1..b PROVE all[a + i] = t[i]
  <2>1. a + i \in 1..a + b /\ ~(a + i <= a) /\ (a + i) - a = i
    BY <1>2
  <2> QED
    BY <1>3, <2>1
<1> QED
  BY <1>1, <1>2, <1>3, <1>4, <1>5

-----------------------------------------------------------------------------
(* Induction: a counterexample would have a least one. *)

LEMMA LessIsWellFounded ==
  \E R : /\ IsWellFoundedOn(R, Nat)
         /\ \A x, y \in Nat : <<y, x>> \in R <=> y < x
<1> DEFINE R == OpToRel(<, Nat)
<1>1. IsWellFoundedOn(R, Nat)
  BY NatLessThanWellFounded
<1>2. \A x, y \in Nat : <<y, x>> \in R <=> y < x
  BY DEF OpToRel
<1> HIDE DEF R
<1> QED
  BY <1>1, <1>2

LEMMA LeastNumber ==
  ASSUME NEW T, T \subseteq Nat, T # {}
  PROVE  \E x \in T : \A y \in T : x <= y
<1>1. PICK R : /\ IsWellFoundedOn(R, Nat)
               /\ \A x, y \in Nat : <<y, x>> \in R <=> y < x
  BY LessIsWellFounded
<1>2. PICK x \in T : \A y \in T : ~(<<y, x>> \in R)
  BY <1>1, WFMin, Zenon
<1>3. \A y \in T : ~(y < x)
  BY <1>1, <1>2, Zenon
<1>4. \A y \in T : x <= y
  BY <1>3
<1> QED
  BY <1>4

\* A set of numbers that holds 0, and with a number the next one, holds all.
LEMMA AllNumbers ==
  ASSUME NEW T, 0 \in T, NEW n \in Nat,
         \A i \in 0..n - 1 : i \in T => i + 1 \in T
  PROVE  \A i \in 0..n : i \in T
<1> DEFINE Without == {i \in 0..n : i \notin T}
<1> SUFFICES ASSUME Without # {} PROVE FALSE
  OBVIOUS
<1>0. Without \subseteq Nat
  OBVIOUS
<1>1. PICK x \in Without : \A y \in Without : x <= y
  <2> HIDE DEF Without
  <2> QED
    BY <1>0, LeastNumber, Zenon
<1>2. x \in 1..n /\ x \notin T /\ x - 1 \in 0..n - 1 /\ x - 1 \in 0..n /\ (x - 1) + 1 = x
  OBVIOUS
<1>3. x - 1 \notin Without
  BY <1>1, <1>2
<1> QED
  BY <1>2, <1>3

-----------------------------------------------------------------------------
(* Packed floats *)

\* What a player presses, -1, 0 or 1, is packed into one of three codes.
LEMMA PackedInputs ==
  /\ PackInput(-1) = 0
  /\ PackInput(0) = 7
  /\ PackInput(1) = 15
BY DEF PackInput, PackFloat, Clamp

\* Each of the three codes is unpacked to what was pressed, in units of 1/15.
LEMMA UnpackedInputs ==
  /\ UnpackInput(0) = -15
  /\ UnpackInput(7) = 0
  /\ UnpackInput(15) = 15
BY PackedInputs DEF UnpackInput, UnpackFloat

\* Two codes share a byte and are told apart again.
LEMMA NibblesAreApart ==
  ASSUME NEW high \in 0..15, NEW low \in 0..15
  PROVE  (high * 16 + low) \div 16 = high /\ (high * 16 + low) % 16 = low
BY SMT

\* An input of -1, 0 or 1 on either pedal arrives at the server exactly as it
\* was pressed (protocol.cpp, SendEntityInput and DeserializeEntityInput).
THEOREM InputComesBack ==
  ASSUME NEW thr \in -1..1, NEW steer \in -1..1
  PROVE  DeserializeEntityInput(SendEntityInput(thr, steer))
           = <<15 * thr, 15 * steer>>
<1>1. ASSUME NEW v \in -1..1
      PROVE  PackInput(v) \in 0..15 /\ UnpackInput(PackInput(v)) = 15 * v
  <2>1. v \in {-1, 0, 1}
    OBVIOUS
  <2> QED
    BY <2>1, PackedInputs, UnpackedInputs
<1>2. /\ SendEntityInput(thr, steer) \div 16 = PackInput(thr)
      /\ SendEntityInput(thr, steer) % 16 = PackInput(steer)
  BY <1>1, NibblesAreApart DEF SendEntityInput
<1> QED
  BY <1>1, <1>2 DEF DeserializeEntityInput

\* A value between lo and hi comes back no higher than it was and less than one
\* step lower, a step being (hi - lo) / range: the conversion to an integer
\* cuts off, it does not round (quantisation.h, PackFloat and UnpackFloat).
THEOREM ErrorIsBelowAStep ==
  ASSUME NEW lo \in Int, NEW hi \in Int, lo < hi,
         NEW range \in Nat, NEW v \in Int
  PROVE  LET was == range * Clamp(v, lo, hi)
             back == UnpackFloat(PackFloat(v, lo, hi, range), lo, hi, range)
         IN back <= was /\ was - back < hi - lo
<1> DEFINE c == Clamp(v, lo, hi)
           width == hi - lo
           code == (range * (c - lo)) \div width
<1>1. c \in Int /\ lo <= c /\ c <= hi
  BY DEF Clamp
<1>2. width \in Nat \ {0} /\ range * (c - lo) \in Int
  BY <1>1
<1>3. ASSUME NEW a \in Int, NEW b \in Nat \ {0}
      PROVE  (a \div b) * b <= a /\ a - (a \div b) * b < b /\ a \div b \in Int
  BY <1>3, Z3
<1>4. code * width <= range * (c - lo) /\ range * (c - lo) - code * width < width
  BY <1>2, <1>3
<1>5. range * (c - lo) = range * c - lo * range
  BY <1>1
<1>6. code \in Int /\ code * width \in Int /\ range * c \in Int /\ lo * range \in Int
  BY <1>1, <1>2, <1>3
<1>7. UnpackFloat(PackFloat(v, lo, hi, range), lo, hi, range)
        = code * width + lo * range
  BY DEF UnpackFloat, PackFloat
<1> HIDE DEF c, width, code
<1> QED
  <2> SUFFICES /\ code * width + lo * range <= range * c
               /\ range * c - (code * width + lo * range) < width
    BY <1>7 DEF c, width
  <2>1. width \in Int
    BY <1>2
  <2> QED
    BY <1>4, <1>5, <1>6, <2>1

\* A ship is put back into the world from up to the world's width beyond its
\* edge, and is moved by that width or by nothing (entity.cpp, TileVal).
THEOREM ShipStaysInTheWorld ==
  ASSUME NEW border \in Nat, NEW val \in -(3 * border)..(3 * border)
  PROVE  /\ TileVal(val, border) \in -border..border
         /\ (TileVal(val, border) - val) \in {-(2 * border), 0, 2 * border}
BY DEF TileVal
=============================================================================
