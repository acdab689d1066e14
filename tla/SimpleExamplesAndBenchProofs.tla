-------------------- MODULE SimpleExamplesAndBenchProofs --------------------
(***************************************************************************)
(* The network bench, and the two programs under simple-examples/ that     *)
(* keep state, the math-duel server and the thread-pool demo, side by side.*)
(* They share nothing, and no theorem speaks of two of them.               *)
(***************************************************************************)
EXTENDS MathDuel, ThreadPoolDemo, NetworkBench, OperatorProofs, TLAPS

-----------------------------------------------------------------------------
(* The network bench, for any set of clients and any profile. *)

-----------------------------------------------------------------------------
(* Division *)

LEMMA ProductAndSum ==
  ASSUME NEW s \in Nat, NEW m \in Nat, NEW d \in Nat
  PROVE  s + m * d \in Nat
<1>1. m * d \in Nat
  OBVIOUS
<1> QED
  BY <1>1

LEMMA DivisionIsUnique ==
  ASSUME NEW M \in Nat \ {0}, NEW q \in Nat, NEW r \in 0..(M - 1), NEW a \in Nat,
         a = M * q + r
  PROVE  a % M = r /\ a \div M = q
<1>1. /\ a \div M \in Nat /\ a % M \in 0..(M - 1)
      /\ a = M * (a \div M) + (a % M)
  BY SMTT(40)
<1>2. PICK d \in Nat : d = a \div M
  BY <1>1
<1>3. PICK e \in 0..(M - 1) : e = a % M
  BY <1>1
<1>4. M * d + e = M * q + r
  BY <1>1, <1>2, <1>3
<1>5. ASSUME d < q PROVE FALSE
  <2>1. d + 1 <= q
    BY <1>5
  <2>2. M * (d + 1) <= M * q /\ M * (d + 1) = M * d + M
    BY <2>1, SMTT(40)
  <2> QED
    BY <1>4, <2>2
<1>6. ASSUME q < d PROVE FALSE
  <2>1. q + 1 <= d
    BY <1>6
  <2>2. M * (q + 1) <= M * d /\ M * (q + 1) = M * q + M
    BY <2>1, SMTT(40)
  <2> QED
    BY <1>4, <2>2
<1>7. d = q /\ e = r
  <2>1. d = q
    BY <1>5, <1>6
  <2> QED
    BY <1>4, <2>1
<1> QED
  BY <1>2, <1>3, <1>7

\* The same, for facts with products in them.
Divided(a, M, q, r) ==
  M \in Nat \ {0} /\ q \in Nat /\ r \in 0..(M - 1) /\ a \in Nat /\ a = M * q + r

LEMMA DividedIsUnique ==
  ASSUME NEW a, NEW M, NEW q, NEW r, Divided(a, M, q, r)
  PROVE  a % M = r
<1>1. M \in Nat \ {0} /\ q \in Nat /\ r \in 0..(M - 1) /\ a \in Nat /\ a = M * q + r
  BY DEF Divided
<1> QED
  BY <1>1, DivisionIsUnique

LEMMA DivisionExists ==
  ASSUME NEW M \in Nat \ {0}, NEW a \in Nat
  PROVE  \E q \in Nat, r \in 0..(M - 1) : a = M * q + r /\ a % M = r /\ a \div M = q
<1>1. /\ a \div M \in Nat /\ a % M \in 0..(M - 1)
      /\ a = M * (a \div M) + (a % M)
  BY SMTT(40)
<1> QED
  BY <1>1

\* The counter of the modes may be cut to its width without a mode being lost.
LEMMA CutCounter ==
  ASSUME NEW M \in Nat \ {0}, M % 4 = 0, NEW g \in Nat, NEW k \in Nat
  PROVE  /\ ((g % M) + k) % M = (g + k) % M
         /\ (((g % M) + k) % M) % 4 = (g + k) % 4
<1>1. PICK q \in Nat, r \in 0..(M - 1) : g = M * q + r /\ g % M = r
  BY DivisionExists
<1>2. PICK u \in Nat, s \in 0..(M - 1) : r + k = M * u + s /\ (r + k) % M = s
  <2>1. r + k \in Nat
    OBVIOUS
  <2> QED
    BY <2>1, DivisionExists
<1>3. PICK t \in Nat, z \in 0..(4 - 1) : M = 4 * t + z /\ M % 4 = z
  BY DivisionExists
<1>4. M = 4 * t
  BY <1>3
<1>5. PICK y \in Nat, x \in 0..(4 - 1) : s = 4 * y + x /\ s % 4 = x
  BY DivisionExists
<1>6. q + u \in Nat /\ g + k \in Nat /\ g + k = M * (q + u) + s
  <2>1. M * (q + u) = M * q + M * u
    BY SMTT(40)
  <2>2. M * q \in Nat /\ M * u \in Nat
    OBVIOUS
  <2> QED
    BY <1>1, <1>2, <2>1, <2>2
<1>7. (g + k) % M = s
  <2>1. PICK a \in Nat, v \in Nat : a = g + k /\ v = q + u
    BY <1>6
  <2>2. a = M * v + s
    BY <1>6, <2>1
  <2>3. M \in Nat \ {0} /\ v \in Nat /\ s \in 0..(M - 1) /\ a \in Nat
    OBVIOUS
  <2>4. Divided(a, M, v, s)
    BY <2>2, <2>3 DEF Divided
  <2>5. a % M = s
    BY <2>4, DividedIsUnique, Zenon
  <2> QED
    BY <2>1, <2>5
<1>8. (g + k) % 4 = x
  <2>1. M * (q + u) = 4 * (t * (q + u)) /\ t * (q + u) \in Nat
    BY <1>4, SMTT(40)
  <2>2. PICK v \in Nat : v = t * (q + u)
    BY <2>1
  <2>3. g + k = 4 * (v + y) + x
    BY <1>5, <1>6, <2>1, <2>2
  <2> QED
    BY <1>5, <1>6, <2>3, DivisionIsUnique
<1> QED
  BY <1>1, <1>2, <1>5, <1>7, <1>8

\* A number of whole steps that fit are no more than a division says.
LEMMA StepsThatFit ==
  ASSUME NEW d \in Nat \ {0}, NEW x \in Int, NEW a \in Nat, x * d <= a
  PROVE  x <= a \div d
<1>1. PICK q \in Nat, r \in 0..(d - 1) : a = d * q + r /\ a \div d = q
  BY DivisionExists
<1>2. ASSUME q < x PROVE FALSE
  <2>1. x - q - 1 \in Nat
    BY <1>2
  <2>2. PICK y \in Nat : x = q + 1 + y
    BY <2>1
  <2>3. x * d = d * q + d + y * d /\ y * d \in Nat /\ d * q \in Nat
    BY <2>2, SMTT(40)
  <2> QED
    BY <1>1, <2>3
<1> QED
  BY <1>1, <1>2

-----------------------------------------------------------------------------
(* Finite sets *)

\* Numbers from 1 without a gap are as many as the last of them.
LEMMA NumbersWithoutGap ==
  ASSUME NEW n \in Nat, NEW K \in SUBSET (1..n),
         \A k \in K : \A j \in 1..k : j \in K
  PROVE  /\ IsFiniteSet(K) /\ Cardinality(K) \in 0..n
         /\ K = 1..Cardinality(K)
<1>1. IsFiniteSet(K) /\ Cardinality(K) \in Nat /\ Cardinality(K) <= n
  <2>1. IsFiniteSet(1..n) /\ Cardinality(1..n) = n
    BY FS_Interval
  <2>2. IsFiniteSet(K) /\ Cardinality(K) <= Cardinality(1..n)
    BY <2>1, FS_Subset
  <2>3. Cardinality(K) \in Nat
    BY <2>2, FS_CardinalityType
  <2> QED
    BY <2>1, <2>2, <2>3
<1>2. ASSUME NEW k \in K PROVE k <= Cardinality(K)
  <2>1. 1..k \in SUBSET K /\ k \in Nat \ {0}
    OBVIOUS
  <2>2. Cardinality(1..k) = k
    BY <2>1, FS_Interval
  <2> QED
    BY <1>1, <2>1, <2>2, FS_Subset
<1> DEFINE m == Cardinality(K)
<1>3. K \in SUBSET (1..m)
  BY <1>1, <1>2
<1>4. IsFiniteSet(1..m) /\ Cardinality(1..m) = m
  BY <1>1, FS_Interval
<1>5. K = 1..m
  BY <1>3, <1>4, FS_Subset
<1> QED
  BY <1>1, <1>5

LEMMA DisjointUnion ==
  ASSUME NEW S, NEW T, IsFiniteSet(S), IsFiniteSet(T), S \cap T = {}
  PROVE  /\ IsFiniteSet(S \cup T)
         /\ Cardinality(S \cup T) = Cardinality(S) + Cardinality(T)
<1>1. /\ IsFiniteSet(S \cup T)
      /\ Cardinality(S \cup T) =
           Cardinality(S) + Cardinality(T) - Cardinality(S \cap T)
  BY FS_Union
<1>2. Cardinality(S \cap T) = 0 /\ Cardinality(S) \in Nat /\ Cardinality(T) \in Nat
  BY FS_EmptySet, FS_CardinalityType
<1> QED
  BY <1>1, <1>2

\* A union has no more than its parts.
LEMMA UnionBound ==
  ASSUME NEW S, NEW T, IsFiniteSet(S), IsFiniteSet(T)
  PROVE  /\ IsFiniteSet(S \cup T)
         /\ Cardinality(S \cup T) <= Cardinality(S) + Cardinality(T)
<1>1. /\ IsFiniteSet(S \cup T)
      /\ Cardinality(S \cup T) =
           Cardinality(S) + Cardinality(T) - Cardinality(S \cap T)
  BY FS_Union
<1>2. Cardinality(S \cap T) \in Nat /\ Cardinality(S) \in Nat /\ Cardinality(T) \in Nat
  BY FS_Intersection, FS_CardinalityType
<1> QED
  BY <1>1, <1>2

ImageUnder(f, S) == {f[x] : x \in S}

\* The image of a finite set, of an injection as many.
LEMMA ImageIsFinite ==
  ASSUME NEW f, NEW S, S \subseteq DOMAIN f, IsFiniteSet(S)
  PROVE  /\ IsFiniteSet(ImageUnder(f, S))
         /\ Cardinality(ImageUnder(f, S)) <= Cardinality(S)
         /\ (\A x, y \in S : f[x] = f[y] => x = y) =>
              Cardinality(ImageUnder(f, S)) = Cardinality(S)
<1> DEFINE h == [x \in S |-> f[x]]
           T == ImageUnder(f, S)
<1>1. h \in Surjection(S, T)
  BY DEF Surjection, ImageUnder
<1>2. (\A x, y \in S : f[x] = f[y] => x = y) => h \in Injection(S, T)
  BY DEF Injection, IsInjective, ImageUnder
<1> HIDE DEF h
<1> QED
  BY <1>1, <1>2, FS_Surjection

-----------------------------------------------------------------------------
(* Sums *)

Chosen(s) == CHOOSE x \in s : TRUE

\* H is the sum of f over each subset of D, taken in the order of Chosen.
SumsOver(D, f, H) ==
  /\ H[{}] = 0
  /\ \A s \in SUBSET D : s # {} => H[s] = f[Chosen(s)] + H[s \ {Chosen(s)}]

LEMMA OneFewer ==
  ASSUME NEW D, IsFiniteSet(D), NEW s \in SUBSET D, s # {}
  PROVE  /\ Chosen(s) \in s /\ s \ {Chosen(s)} \in SUBSET D
         /\ IsFiniteSet(s) /\ Cardinality(s) \in Nat \ {0}
         /\ Cardinality(s \ {Chosen(s)}) = Cardinality(s) - 1
<1>1. Chosen(s) \in s
  BY DEF Chosen
<1>2. IsFiniteSet(s) /\ Cardinality(s) \in Nat /\ Cardinality(s) # 0
  BY FS_Subset, FS_CardinalityType, FS_EmptySet
<1>3. Cardinality(s \ {Chosen(s)}) = Cardinality(s) - 1
  BY <1>1, <1>2, FS_RemoveElement
<1> QED
  BY <1>1, <1>2, <1>3

DefinesSums(D, f, H) ==
  H = [s \in SUBSET D |-> IF s = {} THEN 0 ELSE f[Chosen(s)] + H[s \ {Chosen(s)}]]

\* There is the function by which a sum is defined.
LEMMA SumsExist ==
  ASSUME NEW D, IsFiniteSet(D), NEW f
  PROVE  \E H : DefinesSums(D, f, H)
<1> DEFINE Small(n) == {s \in SUBSET D : Cardinality(s) <= n}
           Step(H, s) == IF s = {} THEN 0 ELSE f[Chosen(s)] + H[s \ {Chosen(s)}]
           Sums(n) == \E H : H = [s \in Small(n) |-> Step(H, s)]
           T == {n \in Nat : Sums(n)}
<1>1. \A s \in SUBSET D : Cardinality(s) \in Nat /\ (Cardinality(s) = 0 <=> s = {})
  BY FS_Subset, FS_CardinalityType, FS_EmptySet
<1>2. Sums(0)
  <2>1. PICK H : H = [s \in Small(0) |-> 0]
    OBVIOUS
  <2>2. \A s \in Small(0) : Step(H, s) = 0
    BY <1>1
  <2>3. H = [s \in Small(0) |-> Step(H, s)]
    BY <2>1, <2>2
  <2> QED
    BY <2>3, Zenon
<1>3. ASSUME NEW n \in Nat, Sums(n) PROVE Sums(n + 1)
  <2>1. PICK G : G = [s \in Small(n) |-> Step(G, s)]
    BY <1>3
  <2>2. PICK H : H = [s \in Small(n + 1) |-> Step(G, s)]
    OBVIOUS
  <2>3. ASSUME NEW s \in Small(n + 1), s # {} PROVE H[s \ {Chosen(s)}] = G[s \ {Chosen(s)}]
    <3>1. s \ {Chosen(s)} \in Small(n)
      BY <1>1, <2>3, OneFewer
    <3>2. s \ {Chosen(s)} \in Small(n + 1)
      BY <1>1, <3>1
    <3> HIDE DEF Small, Step
    <3>3. G[s \ {Chosen(s)}] = Step(G, s \ {Chosen(s)})
      BY <2>1, <3>1
    <3> QED
      BY <2>2, <3>2, <3>3
  <2>4. \A s \in Small(n + 1) : Step(G, s) = Step(H, s)
    BY <2>3
  <2> HIDE DEF Small, Step
  <2>5. H = [s \in Small(n + 1) |-> Step(H, s)]
    BY <2>2, <2>4
  <2> QED
    BY <2>5, Zenon
<1>4. PICK m \in Nat : m = Cardinality(D)
  BY FS_CardinalityType
<1>5. m \in T
  <2>1. 0 \in T
    BY <1>2
  <2>2. ASSUME NEW i \in 0..m - 1, i \in T PROVE i + 1 \in T
    <3> HIDE DEF Sums
    <3>1. i \in Nat /\ i + 1 \in Nat /\ Sums(i)
      BY <2>2
    <3> QED
      BY <1>3, <3>1
  <2> HIDE DEF T
  <2>3. \A i \in 0..m : i \in T
    BY <2>1, <2>2, AllNumbers
  <2> QED
    BY <2>3
<1>6. Small(m) = SUBSET D
  BY <1>4, FS_Subset
<1>7. Sums(m)
  BY <1>5
<1>8. PICK H : H = [s \in SUBSET D |-> Step(H, s)]
  <2> HIDE DEF Step, Small
  <2> QED
    BY <1>6, <1>7
<1>9. DefinesSums(D, f, H)
  BY <1>8 DEF DefinesSums
<1> QED
  BY <1>9

\* A sum is what any function sums up to that does so in the same order.
LEMMA SumIs ==
  ASSUME NEW D, IsFiniteSet(D), NEW f, DOMAIN f = D, NEW H, SumsOver(D, f, H)
  PROVE  SumFunction(f) = H[D]
<1>1. PICK G : G = CHOOSE g : DefinesSums(D, f, g)
  OBVIOUS
<1>2. DefinesSums(D, f, G)
  BY <1>1, SumsExist, Zenon
<1>3. SumFunction(f) = G[D]
  BY <1>1, Zenon DEF SumFunction, SumFunctionOnSet, FoldFunctionOnSet, MapThenFoldSet,
                   DefinesSums, Chosen
<1> DEFINE T == {n \in Nat : \A s \in SUBSET D : Cardinality(s) = n => G[s] = H[s]}
<1>4. \A s \in SUBSET D : Cardinality(s) \in Nat /\ (Cardinality(s) = 0 <=> s = {})
  BY FS_Subset, FS_CardinalityType, FS_EmptySet
<1>5. 0 \in T
  BY <1>2, <1>4 DEF DefinesSums, SumsOver
<1>6. PICK m \in Nat : m = Cardinality(D)
  BY FS_CardinalityType
<1>7. ASSUME NEW i \in 0..m - 1, i \in T PROVE i + 1 \in T
  <2>1. i \in Nat /\ i + 1 \in Nat /\ i + 1 # 0
    OBVIOUS
  <2>2. ASSUME NEW s \in SUBSET D, Cardinality(s) = i + 1 PROVE G[s] = H[s]
    <3>1. s # {}
      BY <1>4, <2>1, <2>2
    <3>2. s \ {Chosen(s)} \in SUBSET D /\ Cardinality(s \ {Chosen(s)}) = i
      BY <2>2, <3>1, OneFewer
    <3>3. G[s \ {Chosen(s)}] = H[s \ {Chosen(s)}]
      BY <1>7, <3>2
    <3>4. G[s] = f[Chosen(s)] + G[s \ {Chosen(s)}]
      BY <1>2, <3>1 DEF DefinesSums
    <3>5. H[s] = f[Chosen(s)] + H[s \ {Chosen(s)}]
      BY <3>1 DEF SumsOver
    <3> QED
      BY <3>3, <3>4, <3>5
  <2> QED
    BY <2>1, <2>2
<1>8. m \in T
  <2> HIDE DEF T
  <2>1. \A i \in 0..m : i \in T
    BY <1>5, <1>7, AllNumbers
  <2> QED
    BY <2>1
<1> QED
  BY <1>3, <1>6, <1>8

LEMMA SumsOfAFunction ==
  ASSUME NEW D, IsFiniteSet(D), NEW f \in [D -> Int]
  PROVE  \E H : H \in [SUBSET D -> Int] /\ SumsOver(D, f, H)
<1>1. PICK H : DefinesSums(D, f, H)
  BY SumsExist, Zenon
<1>2. SumsOver(D, f, H)
  BY <1>1 DEF DefinesSums, SumsOver
<1> DEFINE T == {n \in Nat : \A s \in SUBSET D : Cardinality(s) = n => H[s] \in Int}
<1>3. \A s \in SUBSET D : Cardinality(s) \in Nat /\ (Cardinality(s) = 0 <=> s = {})
  BY FS_Subset, FS_CardinalityType, FS_EmptySet
<1>4. PICK m \in Nat : m = Cardinality(D)
  BY FS_CardinalityType
<1>5. 0 \in T
  <2>1. H[{}] \in Int
    BY <1>2 DEF SumsOver
  <2> QED
    BY <1>3, <2>1
<1>6. ASSUME NEW i \in 0..m - 1, i \in T PROVE i + 1 \in T
  <2>1. i \in Nat /\ i + 1 \in Nat /\ i + 1 # 0
    OBVIOUS
  <2>2. ASSUME NEW s \in SUBSET D, Cardinality(s) = i + 1 PROVE H[s] \in Int
    <3>1. s # {}
      BY <1>3, <2>1, <2>2
    <3>2. /\ s \ {Chosen(s)} \in SUBSET D /\ Cardinality(s \ {Chosen(s)}) = i
          /\ Chosen(s) \in D
      BY <2>2, <3>1, OneFewer
    <3>3. H[s \ {Chosen(s)}] \in Int /\ f[Chosen(s)] \in Int
      BY <1>6, <3>2
    <3>4. H[s] = f[Chosen(s)] + H[s \ {Chosen(s)}]
      BY <1>2, <3>1 DEF SumsOver
    <3> QED
      BY <3>3, <3>4
  <2> QED
    BY <2>1, <2>2
<1>7. ASSUME NEW s \in SUBSET D PROVE H[s] \in Int
  <2> HIDE DEF T
  <2>1. \A i \in 0..m : i \in T
    BY <1>5, <1>6, AllNumbers
  <2>2. Cardinality(s) \in 0..m
    BY <1>3, <1>4, FS_Subset
  <2> QED
    BY <2>1, <2>2 DEF T
<1>8. H \in [SUBSET D -> Int]
  BY <1>1, <1>7 DEF DefinesSums
<1> QED
  BY <1>2, <1>8

LEMMA SumIsANumber ==
  ASSUME NEW D, IsFiniteSet(D), NEW f \in [D -> Int]
  PROVE  SumFunction(f) \in Int
<1>1. PICK H : H \in [SUBSET D -> Int] /\ SumsOver(D, f, H)
  BY SumsOfAFunction
<1>2. SumFunction(f) = H[D]
  BY <1>1, SumIs
<1> QED
  BY <1>1, <1>2

\* Functions that differ in one place have sums that differ as much.
LEMMA SumChanges ==
  ASSUME NEW D, IsFiniteSet(D), NEW f \in [D -> Int], NEW h \in [D -> Int], NEW x \in D,
         \A y \in D : y # x => h[y] = f[y]
  PROVE  SumFunction(h) = SumFunction(f) + (h[x] - f[x])
<1>1. PICK F : F \in [SUBSET D -> Int] /\ SumsOver(D, f, F)
  BY SumsOfAFunction
<1> DEFINE d == h[x] - f[x]
           H == [s \in SUBSET D |-> F[s] + (IF x \in s THEN d ELSE 0)]
<1>2. d \in Int
  OBVIOUS
<1>3. ASSUME NEW s \in SUBSET D, s # {}
      PROVE  H[s] = h[Chosen(s)] + H[s \ {Chosen(s)}]
  <2>1. PICK y \in D, t \in SUBSET D : y = Chosen(s) /\ t = s \ {y} /\ y \in s
    <3> HIDE DEF H, d
    <3>1. Chosen(s) \in s /\ s \ {Chosen(s)} \in SUBSET D
      BY <1>3, OneFewer, Zenon
    <3> QED
      BY <3>1
  <2>2. F[s] = f[y] + F[t]
    BY <1>1, <1>3, <2>1 DEF SumsOver
  <2>3. F[s] \in Int /\ F[t] \in Int /\ f[y] \in Int /\ h[y] \in Int
    BY <1>1, <2>1
  <2>4. CASE y = x
    <3>1. H[s] = F[s] + d /\ H[t] = F[t]
      BY <2>1, <2>3, <2>4
    <3>2. h[y] = f[y] + d
      BY <2>3, <2>4
    <3> QED
      BY <1>2, <2>1, <2>2, <2>3, <3>1, <3>2
  <2>5. CASE y # x
    <3>1. h[y] = f[y] /\ (x \in s <=> x \in t)
      BY <2>1, <2>5
    <3>2. PICK e \in Int : H[s] = F[s] + e /\ H[t] = F[t] + e
      BY <1>2, <2>1, <3>1
    <3> QED
      BY <2>1, <2>2, <2>3, <3>1, <3>2
  <2> QED
    BY <2>4, <2>5
<1>4. H[{}] = 0 /\ H[D] = F[D] + d
  BY <1>1, <1>2 DEF SumsOver
<1>5. SumsOver(D, h, H)
  BY <1>3, <1>4 DEF SumsOver
<1> HIDE DEF H
<1>6. SumFunction(h) = H[D] /\ SumFunction(f) = F[D]
  BY <1>1, <1>5, SumIs
<1> QED
  BY <1>4, <1>6

\* The sum of a sum.
LEMMA SumOfTwo ==
  ASSUME NEW D, IsFiniteSet(D), NEW f \in [D -> Int], NEW g \in [D -> Int],
         NEW h \in [D -> Int], \A x \in D : h[x] = f[x] + g[x]
  PROVE  SumFunction(h) = SumFunction(f) + SumFunction(g)
<1>1. PICK F : F \in [SUBSET D -> Int] /\ SumsOver(D, f, F)
  BY SumsOfAFunction
<1>2. PICK G : G \in [SUBSET D -> Int] /\ SumsOver(D, g, G)
  BY SumsOfAFunction
<1> DEFINE H == [s \in SUBSET D |-> F[s] + G[s]]
<1>3. ASSUME NEW s \in SUBSET D, s # {}
      PROVE  H[s] = h[Chosen(s)] + H[s \ {Chosen(s)}]
  <2>1. PICK y \in D, t \in SUBSET D : y = Chosen(s) /\ t = s \ {y}
    BY <1>3, OneFewer
  <2>2. F[s] = f[y] + F[t] /\ G[s] = g[y] + G[t]
    BY <1>1, <1>2, <1>3, <2>1 DEF SumsOver
  <2>3. F[t] \in Int /\ G[t] \in Int /\ f[y] \in Int /\ g[y] \in Int
    BY <1>1, <1>2
  <2>4. h[y] = f[y] + g[y] /\ H[s] = F[s] + G[s] /\ H[t] = F[t] + G[t]
    OBVIOUS
  <2> HIDE DEF H
  <2> QED
    BY <2>1, <2>2, <2>3, <2>4
<1>4. H[{}] = 0 /\ H[D] = F[D] + G[D]
  BY <1>1, <1>2 DEF SumsOver
<1>5. SumsOver(D, h, H)
  BY <1>3, <1>4 DEF SumsOver
<1> HIDE DEF H
<1>6. SumFunction(h) = H[D] /\ SumFunction(f) = F[D] /\ SumFunction(g) = G[D]
  BY <1>1, <1>2, <1>5, SumIs
<1> QED
  BY <1>4, <1>6

\* What is counted apart is counted once.
LEMMA SumOfCounts ==
  ASSUME NEW D, IsFiniteSet(D), NEW P, IsFiniteSet(P), NEW key \in [P -> D],
         NEW f, f = [x \in D |-> Cardinality({p \in P : key[p] = x})]
  PROVE  SumFunction(f) = Cardinality(P)
<1> DEFINE H == [s \in SUBSET D |-> Cardinality({p \in P : key[p] \in s})]
<1>1. ASSUME NEW s \in SUBSET D, s # {}
      PROVE  H[s] = f[Chosen(s)] + H[s \ {Chosen(s)}]
  <2>1. PICK y \in D, t \in SUBSET D : y = Chosen(s) /\ t = s \ {y} /\ y \in s
    <3> HIDE DEF H
    <3>1. Chosen(s) \in s /\ s \ {Chosen(s)} \in SUBSET D
      BY <1>1, OneFewer, Zenon
    <3> QED
      BY <3>1
  <2> DEFINE A == {p \in P : key[p] = y}
             B == {p \in P : key[p] \in t}
  <2>2. {p \in P : key[p] \in s} = A \cup B /\ A \cap B = {}
    BY <2>1
  <2>3. IsFiniteSet(A) /\ IsFiniteSet(B)
    BY FS_Subset
  <2>4. f[y] = Cardinality(A) /\ H[t] = Cardinality(B) /\ H[s] = Cardinality(A \cup B)
    BY <2>2
  <2> HIDE DEF A, B, H
  <2>5. Cardinality(A \cup B) = Cardinality(A) + Cardinality(B)
    BY <2>2, <2>3, DisjointUnion
  <2> QED
    BY <2>1, <2>4, <2>5
<1>2. H[{}] = 0
  <2>1. {p \in P : key[p] \in {}} = {}
    OBVIOUS
  <2> QED
    BY <2>1, FS_EmptySet
<1>3. H[D] = Cardinality(P)
  <2>1. {p \in P : key[p] \in D} = P
    OBVIOUS
  <2> QED
    BY <2>1
<1>4. SumsOver(D, f, H) /\ DOMAIN f = D
  BY <1>1, <1>2 DEF SumsOver
<1> HIDE DEF H
<1> QED
  BY <1>3, <1>4, SumIs

LEMMA SumOfNone ==
  ASSUME NEW D, IsFiniteSet(D), NEW f \in [D -> Int], \A x \in D : f[x] = 0
  PROVE  SumFunction(f) = 0
<1> DEFINE H == [s \in SUBSET D |-> 0]
<1>1. SumsOver(D, f, H)
  BY OneFewer DEF SumsOver
<1>2. H[D] = 0
  OBVIOUS
<1> HIDE DEF H
<1> QED
  BY <1>1, <1>2, SumIs

-----------------------------------------------------------------------------
(* Sums, of what changes in one place or in many *)

LEMMA SumIsNatural ==
  ASSUME NEW D, IsFiniteSet(D), NEW f \in [D -> Nat]
  PROVE  SumFunction(f) \in Nat
<1>1. f \in [D -> Int]
  OBVIOUS
<1>2. PICK H : H \in [SUBSET D -> Int] /\ SumsOver(D, f, H)
  BY <1>1, SumsOfAFunction
<1> DEFINE T == {n \in Nat : \A s \in SUBSET D : Cardinality(s) = n => H[s] \in Nat}
<1>3. \A s \in SUBSET D : Cardinality(s) \in Nat /\ (Cardinality(s) = 0 <=> s = {})
  BY FS_Subset, FS_CardinalityType, FS_EmptySet
<1>4. PICK m \in Nat : m = Cardinality(D)
  BY FS_CardinalityType
<1>5. 0 \in T
  <2>1. H[{}] \in Nat
    BY <1>2 DEF SumsOver
  <2> QED
    BY <1>3, <2>1
<1>6. ASSUME NEW i \in 0..m - 1, i \in T PROVE i + 1 \in T
  <2>1. i \in Nat /\ i + 1 \in Nat /\ i + 1 # 0
    OBVIOUS
  <2>2. ASSUME NEW s \in SUBSET D, Cardinality(s) = i + 1 PROVE H[s] \in Nat
    <3>1. s # {}
      BY <1>3, <2>1, <2>2
    <3>2. /\ s \ {Chosen(s)} \in SUBSET D /\ Cardinality(s \ {Chosen(s)}) = i
          /\ Chosen(s) \in D
      BY <2>2, <3>1, OneFewer
    <3>3. H[s \ {Chosen(s)}] \in Nat /\ f[Chosen(s)] \in Nat
      BY <1>6, <3>2
    <3>4. H[s] = f[Chosen(s)] + H[s \ {Chosen(s)}]
      BY <1>2, <3>1 DEF SumsOver
    <3> QED
      BY <3>3, <3>4
  <2> QED
    BY <2>1, <2>2
<1>7. m \in T
  <2> HIDE DEF T
  <2>1. \A i \in 0..m : i \in T
    BY <1>5, <1>6, AllNumbers
  <2> QED
    BY <2>1
<1>8. H[D] \in Nat
  BY <1>4, <1>7
<1> QED
  BY <1>1, <1>2, <1>8, SumIs

\* A bound on a sum is kept if it moves as the one place does that changes.
LEMMA OneChange ==
  ASSUME NEW D, IsFiniteSet(D), NEW f \in [D -> Int], NEW h \in [D -> Int], NEW x \in D,
         \A y \in D : y # x => h[y] = f[y],
         NEW a \in Int, NEW b \in Int, NEW s \in Int, NEW t \in Int,
         a + SumFunction(f) <= s, b + h[x] - t <= a + f[x] - s
  PROVE  b + SumFunction(h) <= t
<1>1. SumFunction(h) = SumFunction(f) + (h[x] - f[x])
  BY SumChanges
<1>2. SumFunction(f) \in Int /\ f[x] \in Int /\ h[x] \in Int
  BY SumIsANumber
<1> QED
  BY <1>1, <1>2

\* The members of a set, counted in a function.
LEMMA SumOfMembers ==
  ASSUME NEW D, IsFiniteSet(D), NEW S \in SUBSET D,
         NEW f, f = [x \in D |-> IF x \in S THEN 1 ELSE 0]
  PROVE  SumFunction(f) = Cardinality(S)
<1> DEFINE key == [x \in S |-> x]
           g == [x \in D |-> Cardinality({p \in S : key[p] = x})]
<1>1. IsFiniteSet(S) /\ key \in [S -> D]
  BY FS_Subset
<1>2. ASSUME NEW x \in D PROVE g[x] = f[x]
  <2>1. CASE x \in S
    <3>1. {p \in S : key[p] = x} = {x}
      BY <2>1
    <3>2. Cardinality({x}) = 1
      BY FS_Singleton
    <3> QED
      BY <2>1, <3>1, <3>2
  <2>2. CASE x \notin S
    <3>1. {p \in S : key[p] = x} = {}
      BY <2>2
    <3>2. Cardinality({}) = 0
      BY FS_EmptySet
    <3> QED
      BY <2>2, <3>1, <3>2
  <2> QED
    BY <2>1, <2>2
<1>3. f = g
  BY <1>2
<1>4. PICK k : k = key
  OBVIOUS
<1>5. k \in [S -> D] /\ f = [x \in D |-> Cardinality({p \in S : k[p] = x})]
  BY <1>1, <1>3, <1>4
<1> QED
  BY <1>1, <1>5, SumOfCounts

-----------------------------------------------------------------------------
(* Bags *)

LEMMA EmptyIsABag == IsABag(EmptyBag)
  BY DEF IsABag, EmptyBag, SetToBag

LEMMA BagsAddUp ==
  ASSUME NEW A, NEW B, IsABag(A), IsABag(B)
  PROVE  IsABag(A (+) B)
<1>1. /\ \A x \in DOMAIN A : A[x] \in Nat /\ A[x] > 0
      /\ \A x \in DOMAIN B : B[x] \in Nat /\ B[x] > 0
  BY DEF IsABag
<1>2. ASSUME NEW x \in DOMAIN A \cup DOMAIN B
      PROVE  (IF x \in DOMAIN A THEN A[x] ELSE 0)
               + (IF x \in DOMAIN B THEN B[x] ELSE 0) \in {n \in Nat : n > 0}
  BY <1>1
<1> QED
  BY <1>2 DEF IsABag, (+)

LEMMA OneIsABag ==
  ASSUME NEW x
  PROVE  IsABag(SetToBag({x}))
  BY DEF IsABag, SetToBag

Copies(h, B) == IF h \in DOMAIN B THEN B[h] ELSE 0

LEMMA CopiesAreNumbers ==
  ASSUME NEW B, IsABag(B), NEW h
  PROVE  Copies(h, B) \in Nat /\ (h \notin DOMAIN B => Copies(h, B) = 0)
  BY DEF IsABag, Copies

LEMMA NoCopies ==
  ASSUME NEW h
  PROVE  Copies(h, EmptyBag) = 0 /\ DOMAIN EmptyBag = {}
  BY DEF EmptyBag, SetToBag, Copies

LEMMA CopiesAddUp ==
  ASSUME NEW A, NEW B, IsABag(A), IsABag(B), NEW h
  PROVE  /\ Copies(h, A (+) B) = Copies(h, A) + Copies(h, B)
         /\ DOMAIN (A (+) B) = DOMAIN A \cup DOMAIN B
<1>1. /\ \A x \in DOMAIN A : A[x] \in Nat
      /\ \A x \in DOMAIN B : B[x] \in Nat
  BY DEF IsABag
<1>2. A (+) B = [x \in DOMAIN A \cup DOMAIN B |->
                   (IF x \in DOMAIN A THEN A[x] ELSE 0)
                     + (IF x \in DOMAIN B THEN B[x] ELSE 0)]
  BY DEF (+)
<1>3. PICK C : C = A (+) B
  OBVIOUS
<1>4. /\ DOMAIN C = DOMAIN A \cup DOMAIN B
      /\ \A x \in DOMAIN C : C[x] = (IF x \in DOMAIN A THEN A[x] ELSE 0)
                                      + (IF x \in DOMAIN B THEN B[x] ELSE 0)
  BY <1>2, <1>3
<1>5. Copies(h, C) = Copies(h, A) + Copies(h, B)
  BY <1>1, <1>4 DEF Copies
<1> QED
  BY <1>3, <1>4, <1>5

LEMMA CopyAdded ==
  ASSUME NEW B, IsABag(B), NEW h, NEW g
  PROVE  /\ Copies(g, B (+) SetToBag({h})) = Copies(g, B) + (IF g = h THEN 1 ELSE 0)
         /\ DOMAIN (B (+) SetToBag({h})) = DOMAIN B \cup {h}
<1>1. /\ Copies(g, SetToBag({h})) = IF g = h THEN 1 ELSE 0
      /\ DOMAIN SetToBag({h}) = {h}
  BY DEF SetToBag, Copies
<1>2. IsABag(SetToBag({h}))
  BY OneIsABag
<1> QED
  BY <1>1, <1>2, CopiesAddUp

\* Of a payload that arrives once there is one copy less, of others as many.
LEMMA CopyArrived ==
  ASSUME NEW B, IsABag(B), NEW h, h \in DOMAIN B, NEW g
  PROVE  /\ DOMAIN Arrived(B, h) \subseteq DOMAIN B
         /\ Copies(g, Arrived(B, h)) =
              Copies(g, B) - (IF g = h /\ h.mode \in OnceModes THEN 1 ELSE 0)
<1>1. \A x \in DOMAIN B : B[x] \in Nat /\ B[x] > 0
  BY DEF IsABag
<1>2. CASE h.mode \notin OnceModes
  <2>1. Arrived(B, h) = B
    BY <1>2 DEF Arrived
  <2>2. Copies(g, B) \in Nat
    BY CopiesAreNumbers
  <2> QED
    BY <1>2, <2>1, <2>2
<1>3. CASE h.mode \in OnceModes
  <2> DEFINE C == [e \in DOMAIN B |-> IF e = h THEN B[e] - 1 ELSE B[e]]
             E == {d \in DOMAIN C : C[d] > 0}
  <2>1. Arrived(B, h) = [e \in E |-> C[e]]
    <3>1. PICK one : one = SetToBag({h})
      OBVIOUS
    <3>2. DOMAIN one = {h} /\ one[h] = 1
      BY <3>1 DEF SetToBag
    <3>3. B (-) one = [e \in {d \in DOMAIN B :
              (IF d \in DOMAIN one THEN B[d] - one[d] ELSE B[d]) > 0} |->
                 IF e \in DOMAIN one THEN B[e] - one[e] ELSE B[e]]
      BY DEF (-)
    <3>4. \A d \in DOMAIN B :
            C[d] = IF d \in DOMAIN one THEN B[d] - one[d] ELSE B[d]
      BY <3>2
    <3>5. Arrived(B, h) = B (-) one
      BY <1>3, <3>1 DEF Arrived
    <3> QED
      BY <3>3, <3>4, <3>5
  <2>2. PICK A : A = Arrived(B, h)
    OBVIOUS
  <2>3. /\ DOMAIN A \subseteq DOMAIN B
        /\ \A d \in DOMAIN B : /\ d \in DOMAIN A <=> C[d] > 0
                               /\ d \in DOMAIN A => A[d] = C[d]
    BY <2>1, <2>2
  <2>4. Copies(g, A) = Copies(g, B) - (IF g = h THEN 1 ELSE 0)
    <3>1. CASE g \notin DOMAIN B
      BY <2>3, <3>1 DEF Copies
    <3>2. CASE g \in DOMAIN B
      <4>1. C[g] = IF g = h THEN B[g] - 1 ELSE B[g]
        BY <3>2
      <4>2. C[g] \in Nat
        BY <1>1, <3>2, <4>1
      <4>3. Copies(g, A) = C[g]
        <5> HIDE DEF C
        <5> QED
          BY <2>3, <3>2, <4>2 DEF Copies
      <4>4. Copies(g, B) = B[g] /\ B[g] \in Nat
        BY <1>1, <3>2 DEF Copies
      <4> HIDE DEF C
      <4> QED
        BY <4>1, <4>3, <4>4
    <3> QED
      BY <3>1, <3>2
  <2> HIDE DEF C, E
  <2> QED
    BY <1>3, <2>2, <2>3, <2>4
<1> QED
  BY <1>2, <1>3

-----------------------------------------------------------------------------
(* The payloads of a pass *)

\* What the variables that SendDue reads and writes are.
Pass ==
  /\ now \in Nat
  /\ connected \subseteq BenchClient
  /\ streams \in [BenchClient -> [Stream -> Nat]]
  /\ nextSequence \in [BenchClient -> Nat]
  /\ nextDeadlineMode \in [BenchClient -> 0..(ModeCounter - 1)]

DueOf(c, i) == {p \in DuePayloads : p[1] = c /\ p[2] = i}

\* What the m payloads due of a stream are.
InOrder(c, i, m) ==
  /\ DueOf(c, i) = {<<c, i, k>> : k \in 1..m}
  /\ IsFiniteSet(DueOf(c, i)) /\ Cardinality(DueOf(c, i)) = m
  /\ m # 0 => /\ Measuring
              /\ Interval[i] # 0
              /\ now >= streams[c][i] + (m - 1) * Interval[i]

LEMMA DueIsAPayload ==
  ASSUME NEW p \in DuePayloads
  PROVE  /\ p[1] \in connected /\ p[2] \in Stream /\ p[3] \in 1..MaxBurst
         /\ p = <<p[1], p[2], p[3]>>
  BY DEF DuePayloads

\* A stream sends the payloads of a pass in their order, and none before it is due.
LEMMA DueInOrder ==
  ASSUME Pass, NEW c \in BenchClient, NEW i \in Stream
  PROVE  \E m \in 0..MaxBurst : InOrder(c, i, m)
<1> DEFINE K == {k \in 1..MaxBurst :
                   /\ c \in connected /\ Interval[i] > 0 /\ Measuring
                   /\ now >= streams[c][i] + (k - 1) * Interval[i]}
<1> DEFINE m == Cardinality(K)
<1>1. MaxBurst \in Nat /\ Interval[i] \in Nat /\ now \in Nat /\ streams[c][i] \in Nat
  BY BenchAssumption DEF Pass
<1>2. ASSUME NEW k \in K, NEW j \in 1..k PROVE j \in K
  <2>1. k \in 1..MaxBurst /\ j \in 1..MaxBurst
    BY <1>1
  <2>2. (j - 1) * Interval[i] <= (k - 1) * Interval[i]
    <3>1. PICK d \in Nat : d = Interval[i]
      BY <1>1
    <3>2. PICK e \in Nat : k = j + e
      BY <2>1
    <3>3. (k - 1) * d = (j - 1) * d + e * d /\ e * d \in Nat /\ (j - 1) * d \in Nat
      BY <2>1, <3>2, SMTT(40)
    <3> QED
      BY <3>1, <3>3
  <2>3. /\ (j - 1) * Interval[i] \in Int /\ (k - 1) * Interval[i] \in Int
        /\ now >= streams[c][i] + (k - 1) * Interval[i]
    BY <1>1, <2>1
  <2>4. now >= streams[c][i] + (j - 1) * Interval[i]
    BY <1>1, <2>2, <2>3
  <2> QED
    BY <2>1, <2>4
<1>3. IsFiniteSet(K) /\ m \in 0..MaxBurst /\ K = 1..m
  <2>1. K \in SUBSET (1..MaxBurst)
    OBVIOUS
  <2> HIDE DEF K
  <2> QED
    BY <1>1, <1>2, <2>1, NumbersWithoutGap
<1>4. DueOf(c, i) = {<<c, i, k>> : k \in K}
  <2>1. ASSUME NEW p \in DueOf(c, i) PROVE p \in {<<c, i, k>> : k \in K}
    <3>1. p \in DuePayloads /\ p[1] = c /\ p[2] = i
      BY DEF DueOf
    <3>2. p[3] \in 1..MaxBurst /\ p = <<c, i, p[3]>> /\ c \in connected
      BY <3>1, DueIsAPayload
    <3>3. /\ Interval[i] > 0 /\ Measuring
          /\ now >= streams[c][i] + (p[3] - 1) * Interval[i]
      BY <3>1 DEF DuePayloads
    <3> QED
      BY <3>2, <3>3
  <2>2. ASSUME NEW k \in K PROVE <<c, i, k>> \in DueOf(c, i)
    BY DEF DueOf, DuePayloads
  <2> QED
    BY <2>1, <2>2
<1>5. IsFiniteSet(DueOf(c, i)) /\ Cardinality(DueOf(c, i)) = m
  <2> DEFINE f == [k \in K |-> <<c, i, k>>]
  <2>1. ImageUnder(f, K) = DueOf(c, i) /\ \A k, j \in K : f[k] = f[j] => k = j
    BY <1>4 DEF ImageUnder
  <2>2. K \subseteq DOMAIN f
    OBVIOUS
  <2> HIDE DEF f, K, m
  <2>3. /\ IsFiniteSet(ImageUnder(f, K))
        /\ Cardinality(ImageUnder(f, K)) = Cardinality(K)
    BY <1>3, <2>1, <2>2, ImageIsFinite
  <2> QED
    BY <2>1, <2>3 DEF m
<1>6. ASSUME m # 0
      PROVE  /\ Measuring /\ Interval[i] # 0
             /\ now >= streams[c][i] + (m - 1) * Interval[i]
  <2>1. m \in K
    <3> HIDE DEF K
    <3> QED
      BY <1>3, <1>6
  <2> QED
    BY <1>1, <2>1
<1>7. InOrder(c, i, m)
  <2> HIDE DEF K
  <2>1. DueOf(c, i) = {<<c, i, k>> : k \in 1..m}
    BY <1>3, <1>4
  <2> HIDE DEF m
  <2> QED
    BY <1>5, <1>6, <2>1 DEF InOrder
<1> QED
  BY <1>3, <1>7

LEMMA DueIsFinite ==
  ASSUME Pass
  PROVE  IsFiniteSet(DuePayloads)
<1> DEFINE B == Stream \X (1..MaxBurst)
           T == BenchClient \X B
           f == [p \in DuePayloads |-> <<p[1], <<p[2], p[3]>>>>]
<1>1. IsFiniteSet(Stream) /\ IsFiniteSet(1..MaxBurst)
  <2>1. 1 \in Int /\ 5 \in Int /\ MaxBurst \in Int
    BY BenchAssumption
  <2> QED
    BY <2>1, FS_Interval, Zenon DEF Stream
<1>2. IsFiniteSet(T)
  BY <1>1, BenchAssumption, FS_Product
<1>3. f \in [DuePayloads -> T]
  BY DueIsAPayload DEF Pass
<1>4. ASSUME NEW p \in DuePayloads, NEW q \in DuePayloads, f[p] = f[q] PROVE p = q
  BY <1>4, DueIsAPayload
<1>5. f \in Injection(DuePayloads, T)
  BY <1>3, <1>4 DEF Injection, IsInjective
<1> HIDE DEF f, T
<1> QED
  BY <1>2, <1>5, FS_Injection

\* The numbers the streams of a client give out in a pass are those of its
\* payloads.
LEMMA DueOfAClient ==
  ASSUME Pass, NEW c \in BenchClient
  PROVE  Cardinality({p \in DuePayloads : p[1] = c}) =
           Cardinality(DueOf(c, 1)) + Cardinality(DueOf(c, 2))
             + Cardinality(DueOf(c, 3)) + Cardinality(DueOf(c, 4))
             + Cardinality(DueOf(c, 5))
<1> DEFINE D(i) == DueOf(c, i)
<1>1. ASSUME NEW i \in Stream PROVE IsFiniteSet(D(i))
  <2>1. PICK m \in 0..MaxBurst : InOrder(c, i, m)
    BY DueInOrder
  <2> QED
    BY <2>1 DEF InOrder
<1>2. ASSUME NEW i, NEW j, i # j PROVE D(i) \cap D(j) = {}
  BY <1>2 DEF DueOf
<1>3. {p \in DuePayloads : p[1] = c} = D(1) \cup D(2) \cup D(3) \cup D(4) \cup D(5)
  <2>1. ASSUME NEW p \in DuePayloads
        PROVE  p[2] = 1 \/ p[2] = 2 \/ p[2] = 3 \/ p[2] = 4 \/ p[2] = 5
    BY DueIsAPayload DEF Stream
  <2>2. \A i, p : p \in D(i) <=> p \in DuePayloads /\ p[1] = c /\ p[2] = i
    BY DEF DueOf
  <2> HIDE DEF D
  <2> QED
    BY <2>1, <2>2
<1>4. {1, 2, 3, 4, 5} \subseteq Stream
  BY DEF Stream
<1> HIDE DEF D
<1>5. /\ IsFiniteSet(D(1) \cup D(2))
      /\ Cardinality(D(1) \cup D(2)) = Cardinality(D(1)) + Cardinality(D(2))
  <2>1. D(1) \cap D(2) = {}
    BY <1>2
  <2>2. IsFiniteSet(D(1)) /\ IsFiniteSet(D(2))
    BY <1>1, <1>4
  <2> QED
    BY <2>1, <2>2, DisjointUnion, Zenon
<1>6. /\ IsFiniteSet(D(1) \cup D(2) \cup D(3))
      /\ Cardinality(D(1) \cup D(2) \cup D(3)) =
           Cardinality(D(1) \cup D(2)) + Cardinality(D(3))
  <2>1. (D(1) \cup D(2)) \cap D(3) = {}
    BY <1>2
  <2> QED
    BY <1>1, <1>4, <1>5, <2>1, DisjointUnion
<1>7. /\ IsFiniteSet(D(1) \cup D(2) \cup D(3) \cup D(4))
      /\ Cardinality(D(1) \cup D(2) \cup D(3) \cup D(4)) =
           Cardinality(D(1) \cup D(2) \cup D(3)) + Cardinality(D(4))
  <2>1. (D(1) \cup D(2) \cup D(3)) \cap D(4) = {}
    BY <1>2
  <2> QED
    BY <1>1, <1>4, <1>6, <2>1, DisjointUnion
<1>8. Cardinality(D(1) \cup D(2) \cup D(3) \cup D(4) \cup D(5)) =
        Cardinality(D(1) \cup D(2) \cup D(3) \cup D(4)) + Cardinality(D(5))
  <2>1. (D(1) \cup D(2) \cup D(3) \cup D(4)) \cap D(5) = {}
    BY <1>2
  <2> QED
    BY <1>1, <1>4, <1>7, <2>1, DisjointUnion
<1> QED
  BY <1>3, <1>5, <1>6, <1>7, <1>8 DEF D

-----------------------------------------------------------------------------
(* The types *)

\* The types, and that there is a counter and a bag for each client.
BenchTypes ==
  /\ BenchTypeOK
  /\ DOMAIN echo = BenchClient
  /\ DOMAIN toServer = BenchClient /\ DOMAIN toClient = BenchClient

LEMMA StatsNoted ==
  ASSUME NEW stats \in Stats, NEW mode, NEW n \in Nat
  PROVE  {NoteSent(stats, mode), NoteEchoed(stats, mode), NoteFailures(stats, n),
          NoteMalformed(stats)} \subseteq Stats
<1>1. NoteSent(stats, mode) \in Stats
  BY DEF NoteSent, Stats
<1>2. NoteEchoed(stats, mode) \in Stats
  BY DEF NoteEchoed, Stats
<1>3. NoteFailures(stats, n) \in Stats
  BY DEF NoteFailures, Stats
<1>4. NoteMalformed(stats) \in Stats
  BY DEF NoteMalformed, Stats
<1> QED
  BY <1>1, <1>2, <1>3, <1>4

LEMMA ResultNoted ==
  ASSUME NEW stats \in Stats, NEW header, NEW sent
  PROVE  NoteResult(stats, header, sent) \in Stats
  BY StatsNoted DEF NoteResult

LEMMA ArrivedIsABag ==
  ASSUME NEW B, IsABag(B), NEW header
  PROVE  IsABag(Arrived(B, header))
<1>1. \A x \in DOMAIN B : B[x] \in Nat
  BY DEF IsABag
<1>2. IsABag(B (-) SetToBag({header}))
  <2> DEFINE one == SetToBag({header})
             C == [e \in DOMAIN B |-> IF e \in DOMAIN one THEN B[e] - one[e] ELSE B[e]]
             E == {d \in DOMAIN C : C[d] > 0}
  <2>1. \A e \in E : C[e] \in Nat /\ C[e] > 0
    BY <1>1 DEF SetToBag
  <2>2. B (-) one = [e \in E |-> C[e]]
    BY DEF (-)
  <2> HIDE DEF C, E, one
  <2>3. IsABag([e \in E |-> C[e]])
    BY <2>1 DEF IsABag
  <2> QED
    BY <2>2, <2>3 DEF one
<1> QED
  BY <1>2 DEF Arrived

LEMMA PayloadsAreABag ==
  ASSUME NEW due, IsFiniteSet(due)
  PROVE  IsABag(Payloads(due))
<1> DEFINE Header(p) == MakePayload(kData, ModeOf(p))
           Of(h) == {p \in due : Header(p) = h}
<1>1. ASSUME NEW h \in {Header(p) : p \in due}
      PROVE  Cardinality(Of(h)) \in {n \in Nat : n > 0}
  <2>1. IsFiniteSet(Of(h)) /\ Of(h) # {}
    BY FS_Subset
  <2> HIDE DEF Of
  <2>2. Cardinality(Of(h)) \in Nat /\ Cardinality(Of(h)) # 0
    BY <2>1, FS_CardinalityType, FS_EmptySet
  <2> QED
    BY <2>2
<1>2. Payloads(due) = [h \in {Header(p) : p \in due} |-> Cardinality(Of(h))]
  BY DEF Payloads
<1> HIDE DEF Header, Of
<1> QED
  BY <1>1, <1>2 DEF IsABag

LEMMA TypesInit == BenchInit => BenchTypes
<1> SUFFICES ASSUME BenchInit PROVE BenchTypes
  OBVIOUS
<1> USE BenchAssumption DEF BenchInit
<1>1. AppStats \in Stats
  BY DEF AppStats, Stats
<1>2. ClientStart \in Nat /\ MaxTime \in Nat /\ MaxFaults \in Nat /\ ModeCounter \in Nat \ {0}
  OBVIOUS
<1>3. now \in ClientStart..MaxTime /\ losses \in 0..MaxFaults /\ lastSample \in 0..now
  BY <1>2
<1>4. /\ streams \in [BenchClient -> [Stream -> Nat]]
      /\ nextSequence \in [BenchClient -> Nat]
      /\ nextDeadlineMode \in [BenchClient -> 0..(ModeCounter - 1)]
  BY <1>2
<1>5. \A c \in BenchClient : IsABag(toServer[c]) /\ IsABag(toClient[c])
  BY EmptyIsABag
<1> QED
  BY <1>1, <1>3, <1>4, <1>5 DEF BenchTypes, BenchTypeOK

LEMMA TypesNext == BenchTypes /\ [BenchNext]_benchVars => BenchTypes'
<1> SUFFICES ASSUME BenchTypes, [BenchNext]_benchVars PROVE BenchTypes'
  OBVIOUS
<1> USE DEF BenchTypes, BenchTypeOK, sends, bench, links, lines, counting
<1>1. /\ ClientStart \in Nat /\ MaxTime \in Nat /\ MaxFaults \in Nat
      /\ ModeCounter \in Nat \ {0} /\ Interval \in [Stream -> Nat] /\ MaxBurst \in Nat
  BY BenchAssumption
<1>2. now \in Nat /\ client_stats.sendFailures \in Nat
  BY <1>1 DEF Stats
<1>3. ASSUME NEW c \in BenchClient, NEW header, Receive(c, header) PROVE BenchTypes'
  <2>1. client_stats' \in Stats
    BY <1>3, StatsNoted DEF Receive
  <2>2. IsABag(Arrived(toClient[c], header))
    BY ArrivedIsABag
  <2> QED
    BY <1>3, <2>1, <2>2 DEF Receive
<1>4. ASSUME NEW c \in BenchClient, OnConnected(c) PROVE BenchTypes'
  BY <1>4, EmptyIsABag DEF OnConnected
<1>5. ASSUME NEW c \in BenchClient, OnDisconnected(c) PROVE BenchTypes'
  <2>1. losses' \in 0..MaxFaults
    BY <1>1, <1>2, <1>5 DEF OnDisconnected
  <2> QED
    BY <1>5, <2>1, EmptyIsABag DEF OnDisconnected
<1>6. ASSUME NEW c \in BenchClient, NEW header, NEW sent \in BOOLEAN
      PROVE  /\ IsABag(Arrived(toServer[c], header))
             /\ SendEcho(c, header, sent) =>
                  /\ DOMAIN toClient' = BenchClient
                  /\ \A d \in BenchClient : IsABag(toClient'[d])
  <2>1. IsABag(Arrived(toServer[c], header))
    BY ArrivedIsABag
  <2>2. IsABag(toClient[c] (+) SetToBag({[header EXCEPT !.kind = kEcho]}))
    BY BagsAddUp, OneIsABag
  <2> QED
    BY <2>1, <2>2 DEF SendEcho
<1>7. ASSUME NEW c \in BenchClient, NEW header, NEW sent \in BOOLEAN,
             PacketCallback(c, header, sent)
      PROVE  BenchTypes'
  <2>1. server_stats' \in Stats
    <3>1. NoteEchoed(server_stats, header.mode) \in Stats
      BY StatsNoted
    <3>2. NoteResult(NoteEchoed(server_stats, header.mode), header, sent) \in Stats
      BY <3>1, ResultNoted
    <3>3. NoteMalformed(server_stats) \in Stats
      BY StatsNoted
    <3> QED
      BY <1>7, <3>2, <3>3 DEF PacketCallback
  <2>2. toServer' = [toServer EXCEPT ![c] = Arrived(@, header)]
    BY <1>7 DEF PacketCallback, Arrives
  <2>3. /\ DOMAIN toClient' = BenchClient
        /\ \A d \in BenchClient : IsABag(toClient'[d])
    BY <1>6, <1>7 DEF PacketCallback
  <2> QED
    BY <1>6, <1>7, <2>1, <2>2, <2>3 DEF PacketCallback
<1>8. ASSUME NEW c \in BenchClient, NEW header, NEW sent \in BOOLEAN,
             ShardCallback(c, header, sent)
      PROVE  BenchTypes'
  <2>1. server_stats' \in Stats
    BY <1>8, StatsNoted DEF ShardCallback
  <2>2. toServer' = [toServer EXCEPT ![c] = Arrived(@, header)]
    BY <1>8 DEF ShardCallback, Arrives
  <2>3. /\ DOMAIN toClient' = BenchClient
        /\ \A d \in BenchClient : IsABag(toClient'[d])
    BY <1>6, <1>8 DEF ShardCallback
  <2>4. /\ DOMAIN echo' = BenchClient
        /\ stats_mutex # Nobody => echo'[stats_mutex] # NoEcho
    <3>1. stats_mutex # Nobody => stats_mutex \in BenchClient /\ stats_mutex # c
      BY <1>8 DEF ShardCallback
    <3> QED
      BY <1>8, <3>1 DEF ShardCallback
  <2> QED
    BY <1>6, <1>8, <2>1, <2>2, <2>3, <2>4 DEF ShardCallback
<1>9. ASSUME NEW c \in BenchClient, ShardNoteEchoed(c) PROVE BenchTypes'
  <2>1. server_stats' \in Stats
    BY <1>9, StatsNoted DEF ShardNoteEchoed
  <2> QED
    BY <1>9, <2>1 DEF ShardNoteEchoed
<1>10. ASSUME NEW c \in BenchClient, ShardNoteSent(c) PROVE BenchTypes'
  <2>1. server_stats' \in Stats
    BY <1>10, ResultNoted DEF ShardNoteSent
  <2> QED
    BY <1>10, <2>1 DEF ShardNoteSent
<1>11. CASE ResetStreams
  <2>1. streams' \in [BenchClient -> [Stream -> Nat]]
    BY <1>2, <1>11 DEF ResetStreams
  <2> QED
    BY <1>11, <2>1 DEF ResetStreams
<1>12. ASSUME NEW refused \in SUBSET DuePayloads, SendDue(DuePayloads, refused)
       PROVE  BenchTypes'
  <2>1. Pass
    BY <1>1, <1>2 DEF Pass
  <2>2. IsFiniteSet(DuePayloads)
    BY <2>1, DueIsFinite
  <2>3. \A S \in SUBSET DuePayloads : IsFiniteSet(S) /\ Cardinality(S) \in Nat
    BY <2>2, FS_Subset, FS_CardinalityType
  <2>4. \A c, i : DueOf(c, i) \in SUBSET DuePayloads
    BY DEF DueOf
  <2>5. streams' \in [BenchClient -> [Stream -> Nat]]
    <3>1. streams' = [c \in BenchClient |-> [i \in Stream |->
                        streams[c][i] + Cardinality(DueOf(c, i)) * Interval[i]]]
      BY <1>12 DEF SendDue, DueOf
    <3>2. ASSUME NEW c \in BenchClient, NEW i \in Stream
          PROVE  streams[c][i] + Cardinality(DueOf(c, i)) * Interval[i] \in Nat
      <4>1. streams[c][i] \in Nat /\ Interval[i] \in Nat /\ Cardinality(DueOf(c, i)) \in Nat
        BY <1>1, <2>3, <2>4
      <4> QED
        BY <4>1, ProductAndSum, Zenon
    <3> QED
      BY <3>1, <3>2
  <2>6. nextSequence' \in [BenchClient -> Nat]
    <3>1. \A c \in BenchClient : Cardinality({p \in DuePayloads : p[1] = c}) \in Nat
      BY <2>3
    <3>2. nextSequence' = [c \in BenchClient |->
            nextSequence[c] + Cardinality({p \in DuePayloads : p[1] = c})]
      BY <1>12 DEF SendDue
    <3> QED
      BY <3>1, <3>2
  <2>7. nextDeadlineMode' \in [BenchClient -> 0..(ModeCounter - 1)]
    <3>1. nextDeadlineMode' = [c \in BenchClient |->
            (nextDeadlineMode[c] + Cardinality(DueOf(c, 5))) % ModeCounter]
      BY <1>12 DEF SendDue, DueOf, NextDeadlineMode
    <3>2. ASSUME NEW c \in BenchClient
          PROVE  (nextDeadlineMode[c] + Cardinality(DueOf(c, 5))) % ModeCounter
                   \in 0..(ModeCounter - 1)
      <4>1. nextDeadlineMode[c] \in Nat /\ Cardinality(DueOf(c, 5)) \in Nat
        BY <1>1, <2>3, <2>4
      <4>2. PICK a \in Nat, M \in Nat \ {0} :
              a = nextDeadlineMode[c] + Cardinality(DueOf(c, 5)) /\ M = ModeCounter
        BY <4>1, BenchAssumption
      <4>3. a % M \in 0..(M - 1)
        BY SMTT(40)
      <4> QED
        BY <4>2, <4>3
    <3> QED
      BY <3>1, <3>2
  <2>8. client_stats' \in Stats
    <3>1. Cardinality(refused) \in Nat
      BY <2>3
    <3> DEFINE f == NoteFailures(client_stats, Cardinality(refused))
               C(b) == Cardinality({p \in DuePayloads \ refused : BucketForMode(ModeOf(p)) = b})
    <3>2. f \in Stats
      BY <3>1, StatsNoted
    <3>3. \A b \in Bucket : C(b) \in Nat
      BY <2>3
    <3>4. client_stats' = [f EXCEPT !.sent = [b \in Bucket |-> client_stats.sent[b] + C(b)]]
      BY <1>12 DEF SendDue
    <3> HIDE DEF f, C
    <3> QED
      BY <3>2, <3>3, <3>4 DEF Stats
  <2>9. DOMAIN toServer' = BenchClient /\ \A c \in BenchClient : IsABag(toServer'[c])
    <3> DEFINE P(c) == Payloads({p \in DuePayloads \ refused : p[1] = c})
    <3>1. \A c \in BenchClient : IsABag(P(c))
      BY <2>3, PayloadsAreABag
    <3>2. toServer' = [c \in BenchClient |-> toServer[c] (+) P(c)]
      BY <1>12 DEF SendDue
    <3> HIDE DEF P
    <3>3. \A c \in BenchClient : IsABag(toServer[c] (+) P(c))
      BY <3>1, BagsAddUp
    <3> QED
      BY <3>2, <3>3
  <2>10. /\ UNCHANGED <<now, sharded, reset_at_measurement, links, counting, lines, toClient>>
         /\ loop' = "drain"
    BY <1>12 DEF SendDue
  <2> QED
    BY <2>5, <2>6, <2>7, <2>8, <2>9, <2>10
<1>13. CASE ClientsFinish
  BY <1>13 DEF ClientsFinish
<1>14. CASE MaybeWriteSample
  BY <1>1, <1>2, <1>14 DEF MaybeWriteSample
<1>15. CASE Finish
  BY <1>15 DEF Finish
<1>16. CASE StopShards
  BY <1>16 DEF StopShards
<1>17. CASE Tick
  <2>1. now' \in ClientStart..MaxTime /\ lastSample' \in 0..now'
    BY <1>1, <1>2, <1>17 DEF Tick
  <2> QED
    BY <1>17, <2>1 DEF Tick
<1>18. CASE UNCHANGED benchVars
  BY <1>18 DEF benchVars
<1> QED
  BY <1>3, <1>4, <1>5, <1>7, <1>8, <1>9, <1>10, <1>11, <1>12, <1>13, <1>14,
     <1>15, <1>16, <1>17, <1>18 DEF BenchNext

-----------------------------------------------------------------------------
(* What a pass sends *)

\* The sum of what the streams of a client have.
SumOfStreams(n) == n[1] + n[2] + n[3] + n[4] + n[5]

\* SendDue, said of the streams one by one.
Passed(refused) ==
  /\ loop = "send" /\ loop' = "drain"
  /\ refused \in SUBSET DuePayloads
  /\ UNCHANGED <<now, reset_at_measurement, connected>>
  /\ \A c \in BenchClient, i \in Stream :
       streams'[c][i] = streams[c][i] + Cardinality(DueOf(c, i)) * Interval[i]
  /\ \A c \in BenchClient :
       nextSequence'[c] =
         nextSequence[c] + SumOfStreams([i \in Stream |-> Cardinality(DueOf(c, i))])

LEMMA SendDuePasses ==
  ASSUME Pass, NEW refused \in SUBSET DuePayloads, SendDue(DuePayloads, refused)
  PROVE  Passed(refused)
<1>1. /\ loop = "send" /\ loop' = "drain"
      /\ UNCHANGED <<now, reset_at_measurement, connected>>
  BY DEF SendDue, links
<1>2. ASSUME NEW c \in BenchClient, NEW i \in Stream
      PROVE  streams'[c][i] = streams[c][i] + Cardinality(DueOf(c, i)) * Interval[i]
  <2>1. streams' = [d \in BenchClient |-> [j \in Stream |->
                     streams[d][j] + Cardinality(DueOf(d, j)) * Interval[j]]]
    BY DEF SendDue, DueOf
  <2> QED
    BY <2>1, Zenon
<1>3. ASSUME NEW c \in BenchClient
      PROVE  nextSequence'[c] =
               nextSequence[c] + SumOfStreams([i \in Stream |-> Cardinality(DueOf(c, i))])
  <2>1. nextSequence'[c] = nextSequence[c] + Cardinality({p \in DuePayloads : p[1] = c})
    BY DEF SendDue
  <2>2. SumOfStreams([i \in Stream |-> Cardinality(DueOf(c, i))]) =
          Cardinality(DueOf(c, 1)) + Cardinality(DueOf(c, 2))
            + Cardinality(DueOf(c, 3)) + Cardinality(DueOf(c, 4))
            + Cardinality(DueOf(c, 5))
    BY DEF SumOfStreams, Stream
  <2> QED
    BY <2>1, <2>2, DueOfAClient, Zenon
<1> QED
  BY <1>1, <1>2, <1>3 DEF Passed

-----------------------------------------------------------------------------
(* The pace of the streams *)

\* What is known of a stream that has numbered k payloads.
Paced(c, i, k) ==
  /\ Interval[i] = 0 => k = 0
  /\ streams[c][i] <= now + Interval[i]
  /\ reset_at_measurement =>
       (k - MaxBurst) * Interval[i] + Warmup + ClientStart <= streams[c][i]
  /\ ~reset_at_measurement => k <= MaxBurst

\* The numbers a client has given out are those of its streams.
Numbered(c, n) ==
  /\ n \in [Stream -> Nat]
  /\ nextSequence[c] = SumOfStreams(n)
  /\ \A i \in Stream : Paced(c, i, n[i])

\* Streams that have sent before they were reset have done so in the only pass
\* there is before the reset.
OnePassBefore ==
  /\ reset_at_measurement => Warmup <= Elapsed
  /\ ~reset_at_measurement =>
       \A c \in BenchClient :
         nextSequence[c] # 0 => Warmup <= Elapsed /\ (loop = "send" => ~Measuring)

\* Every client has kept to its profile, stream by stream.
Pace ==
  /\ \A c \in BenchClient : \E n : Numbered(c, n)
  /\ OnePassBefore

LEMMA NothingNumbered ==
  ASSUME NEW n \in [Stream -> Nat], SumOfStreams(n) = 0
  PROVE  \A i \in Stream : n[i] = 0
<1>1. \A i \in Stream : n[i] \in Nat
  OBVIOUS
<1>2. {1, 2, 3, 4, 5} = Stream
  BY DEF Stream
<1>3. PICK a, b, c, d, e \in Nat : a = n[1] /\ b = n[2] /\ c = n[3] /\ d = n[4] /\ e = n[5]
  BY <1>1, <1>2
<1>4. a + b + c + d + e = 0
  BY <1>3 DEF SumOfStreams
<1>5. a = 0 /\ b = 0 /\ c = 0 /\ d = 0 /\ e = 0
  BY <1>4
<1> QED
  BY <1>2, <1>3, <1>5

LEMMA SumsAddUp ==
  ASSUME NEW n \in [Stream -> Nat], NEW m \in [Stream -> Nat]
  PROVE  SumOfStreams([i \in Stream |-> n[i] + m[i]]) = SumOfStreams(n) + SumOfStreams(m)
<1>1. \A i \in Stream : n[i] \in Nat /\ m[i] \in Nat
  OBVIOUS
<1>2. {1, 2, 3, 4, 5} = Stream
  BY DEF Stream
<1>3. PICK a, b, c, d, e \in Nat : a = n[1] /\ b = n[2] /\ c = n[3] /\ d = n[4] /\ e = n[5]
  BY <1>1, <1>2
<1>4. PICK p, q, r, s, t \in Nat : p = m[1] /\ q = m[2] /\ r = m[3] /\ s = m[4] /\ t = m[5]
  BY <1>1, <1>2
<1>5. SumOfStreams([i \in Stream |-> n[i] + m[i]]) =
        (a + p) + (b + q) + (c + r) + (d + s) + (e + t)
  BY <1>2, <1>3, <1>4 DEF SumOfStreams
<1>6. SumOfStreams(n) = a + b + c + d + e /\ SumOfStreams(m) = p + q + r + s + t
  BY <1>3, <1>4 DEF SumOfStreams
<1>7. (a + p) + (b + q) + (c + r) + (d + s) + (e + t) =
        (a + b + c + d + e) + (p + q + r + s + t)
  OBVIOUS
<1> QED
  BY <1>5, <1>6, <1>7

\* A stream that sends what is due stays due at its pace.
LEMMA SendingKeepsPace ==
  ASSUME NEW k \in Nat, NEW m \in Nat, NEW d \in Nat, NEW s \in Nat, NEW t \in Nat,
         NEW b \in Nat, NEW w \in Nat,
         m # 0 => t >= s + (m - 1) * d,
         s <= t + d
  PROVE  /\ s + m * d <= t + d
         /\ (k - b) * d + w <= s => (k + m - b) * d + w <= s + m * d
<1>1. m * d \in Nat /\ (k - b) * d \in Int
  OBVIOUS
<1>2. s + m * d <= t + d
  <2>1. CASE m = 0
    BY <2>1
  <2>2. CASE m # 0
    <3>1. PICK l \in Nat : m = l + 1
      <4>1. m - 1 \in Nat /\ m = (m - 1) + 1
        BY <2>2
      <4> QED
        BY <4>1
    <3>2. (m - 1) * d = l * d /\ m * d = l * d + d /\ l * d \in Nat
      BY <3>1, SMTT(40)
    <3> QED
      BY <2>2, <3>2
  <2> QED
    BY <2>1, <2>2
<1>3. (k + m - b) * d = (k - b) * d + m * d
  <2>1. PICK x \in Int : x = k - b
    OBVIOUS
  <2>2. (x + m) * d = x * d + m * d
    BY SMTT(40)
  <2>3. k + m - b = x + m
    BY <2>1
  <2> QED
    BY <2>1, <2>2, <2>3
<1> QED
  BY <1>1, <1>2, <1>3

LEMMA PaceInit == BenchInit => Pace
<1> SUFFICES ASSUME BenchInit PROVE Pace
  OBVIOUS
<1> DEFINE none == [i \in Stream |-> 0]
<1>1. /\ reset_at_measurement = FALSE /\ now = ClientStart
      /\ \A c \in BenchClient, i \in Stream : streams[c][i] = ClientStart
      /\ \A c \in BenchClient : nextSequence[c] = 0
  BY DEF BenchInit
<1>2. ClientStart \in Nat /\ MaxBurst \in Nat /\ \A i \in Stream : Interval[i] \in Nat
  BY BenchAssumption
<1>3. none \in [Stream -> Nat] /\ SumOfStreams(none) = 0
  BY DEF SumOfStreams, Stream
<1>4. \A c \in BenchClient, i \in Stream : Paced(c, i, none[i])
  BY <1>1, <1>2 DEF Paced
<1> HIDE DEF none
<1>5. \A c \in BenchClient : Numbered(c, none)
  BY <1>1, <1>3, <1>4 DEF Numbered
<1> QED
  BY <1>1, <1>5 DEF Pace, OnePassBefore

\* Numbers for the arithmetic of the pace.
LEMMA PaceNumbers ==
  ASSUME Pass, NEW c \in BenchClient, NEW i \in Stream
  PROVE  /\ streams[c][i] \in Nat /\ Interval[i] \in Nat /\ now \in Nat
         /\ MaxBurst \in Nat /\ Warmup \in Nat /\ ClientStart \in Nat
         /\ Duration \in Nat /\ Warmup + ClientStart \in Nat
  BY BenchAssumption DEF Pass

LEMMA SendDueKeepsPace ==
  ASSUME Pass, Pace, NEW refused, Passed(refused)
  PROVE  Pace'
<1>1. /\ loop = "send" /\ loop' = "drain" /\ now' = now
      /\ reset_at_measurement' = reset_at_measurement
  BY DEF Passed
<1>2. ASSUME NEW c \in BenchClient PROVE \E n : Numbered(c, n)'
  <2>1. PICK n : Numbered(c, n)
    BY DEF Pace
  <2> DEFINE m == [i \in Stream |-> Cardinality(DueOf(c, i))]
             l == [i \in Stream |-> n[i] + m[i]]
  <2>2. ASSUME NEW i \in Stream
        PROVE  /\ m[i] \in 0..MaxBurst
               /\ m[i] # 0 => /\ Measuring /\ Interval[i] # 0
                             /\ now >= streams[c][i] + (m[i] - 1) * Interval[i]
    <3>1. PICK k \in 0..MaxBurst : InOrder(c, i, k)
      BY DueInOrder
    <3>2. m[i] = k
      BY <3>1 DEF InOrder
    <3> HIDE DEF m
    <3> QED
      BY <3>1, <3>2 DEF InOrder
  <2>3. m \in [Stream -> Nat]
    <3>1. \A i \in Stream : m[i] \in Nat
      BY <2>2, BenchAssumption
    <3> QED
      BY <3>1
  <2>4. /\ n \in [Stream -> Nat] /\ nextSequence[c] = SumOfStreams(n)
        /\ \A i \in Stream : Paced(c, i, n[i])
    BY <2>1 DEF Numbered
  <2>5. l \in [Stream -> Nat] /\ \A i \in Stream : l[i] = n[i] + m[i]
    <3>1. \A i \in Stream : n[i] \in Nat /\ m[i] \in Nat
      BY <2>3, <2>4
    <3> HIDE DEF m
    <3> QED
      BY <3>1
  <2>6. /\ nextSequence'[c] = nextSequence[c] + SumOfStreams(m)
        /\ \A i \in Stream : streams'[c][i] = streams[c][i] + m[i] * Interval[i]
    BY DEF Passed
  <2> HIDE DEF m
  <2>7. nextSequence'[c] = SumOfStreams(l)
    BY <2>3, <2>4, <2>6, SumsAddUp
  <2> HIDE DEF l
  <2> PICK r : r = l
    OBVIOUS
  <2>8. ASSUME NEW i \in Stream PROVE Paced(c, i, r[i])'
    <3>1. PICK k \in Nat, h \in Nat, d \in Nat, s \in Nat, t \in Nat, b \in Nat, w \in Nat :
            /\ k = n[i] /\ h = m[i] /\ d = Interval[i] /\ s = streams[c][i]
            /\ t = now /\ b = MaxBurst /\ w = Warmup + ClientStart
      BY <2>3, <2>4, PaceNumbers
    <3>2. /\ d = 0 => k = 0
          /\ s <= t + d
          /\ reset_at_measurement => (k - b) * d + w <= s
          /\ ~reset_at_measurement => k <= b
      <4>1. /\ Interval[i] = 0 => n[i] = 0
            /\ streams[c][i] <= now + Interval[i]
            /\ reset_at_measurement =>
                 (n[i] - MaxBurst) * Interval[i] + Warmup + ClientStart <= streams[c][i]
            /\ ~reset_at_measurement => n[i] <= MaxBurst
        BY <2>4 DEF Paced
      <4>2. (n[i] - MaxBurst) * Interval[i] + Warmup + ClientStart =
              (n[i] - MaxBurst) * Interval[i] + (Warmup + ClientStart)
        <5>1. PICK x \in Int : x = (k - b) * d
          OBVIOUS
        <5>2. x + Warmup + ClientStart = x + (Warmup + ClientStart)
          BY PaceNumbers
        <5> QED
          BY <3>1, <5>1, <5>2
      <4> QED
        BY <3>1, <4>1, <4>2
    <3>3. /\ h <= b
          /\ h # 0 => Measuring /\ d # 0 /\ t >= s + (h - 1) * d
      BY <2>2, <3>1
    <3>4. /\ s + h * d <= t + d
          /\ (k - b) * d + w <= s => (k + h - b) * d + w <= s + h * d
      BY <3>2, <3>3, SendingKeepsPace
    <3>5. ~reset_at_measurement => k + h <= b
      <4>1. CASE h = 0
        BY <3>2, <4>1
      <4>2. ASSUME h # 0, ~reset_at_measurement PROVE k = 0
        <5>1. Measuring
          BY <3>3, <4>2
        <5>2. nextSequence[c] = 0
          BY <1>1, <4>2, <5>1 DEF Pace, OnePassBefore
        <5> QED
          BY <2>4, <3>1, <5>2, NothingNumbered
      <4> QED
        BY <3>3, <4>1, <4>2
    <3>6. r[i] = k + h /\ streams'[c][i] = s + h * d
      BY <2>5, <2>6, <3>1
    <3>7. d = 0 => k + h = 0
      BY <3>2, <3>3
    <3>8. reset_at_measurement =>
            (k + h - b) * d + Warmup + ClientStart <= s + h * d
      <4>1. PICK x \in Int : x = (k + h - b) * d
        OBVIOUS
      <4>2. x + Warmup + ClientStart = x + w
        BY <3>1, PaceNumbers
      <4> QED
        BY <3>2, <3>4, <4>1, <4>2
    <3> QED
      BY <1>1, <3>1, <3>4, <3>5, <3>6, <3>7, <3>8 DEF Paced
  <2>9. Numbered(c, r)'
    BY <2>5, <2>7, <2>8 DEF Numbered
  <2> QED
    BY <2>9
<1>3. OnePassBefore'
  <2>1. reset_at_measurement => Warmup <= Elapsed'
    BY <1>1 DEF Pace, OnePassBefore, Elapsed
  <2>2. ASSUME NEW c \in BenchClient, ~reset_at_measurement, nextSequence'[c] # 0
        PROVE  Warmup <= Elapsed
    <3>1. CASE nextSequence[c] # 0
      BY <2>2, <3>1 DEF Pace, OnePassBefore
    <3>2. CASE nextSequence[c] = 0
      <4>1. ~ \A i \in Stream : Cardinality(DueOf(c, i)) = 0
        <5> SUFFICES ASSUME \A i \in Stream : Cardinality(DueOf(c, i)) = 0 PROVE FALSE
          OBVIOUS
        <5>1. SumOfStreams([i \in Stream |-> Cardinality(DueOf(c, i))]) = 0
          BY DEF SumOfStreams, Stream
        <5> QED
          BY <2>2, <3>2, <5>1 DEF Passed
      <4>2. PICK i \in Stream : Cardinality(DueOf(c, i)) # 0
        BY <4>1
      <4>3. PICK k \in 0..MaxBurst : InOrder(c, i, k)
        BY DueInOrder
      <4>4. Measuring
        BY <4>2, <4>3 DEF InOrder
      <4> QED
        BY <4>4 DEF Measuring
    <3> QED
      BY <3>1, <3>2
  <2> QED
    BY <1>1, <2>1, <2>2 DEF OnePassBefore, Elapsed
<1> QED
  BY <1>2, <1>3 DEF Pace

\* What most steps do with what the clients have sent: nothing.
Untouched ==
  /\ UNCHANGED <<now, reset_at_measurement, streams, nextSequence, nextDeadlineMode>>
  /\ loop' # loop => loop' # "send"
  /\ client_stats'.sent = client_stats.sent
  /\ client_stats'.sendFailures = client_stats.sendFailures

LEMMA StepsOfTheBench ==
  ASSUME BenchTypes, [BenchNext]_benchVars
  PROVE  \/ \E refused \in SUBSET DuePayloads : SendDue(DuePayloads, refused)
         \/ ResetStreams
         \/ Tick
         \/ Untouched
<1> USE DEF sends, bench, links, lines, counting
<1>1. client_stats \in Stats
  BY DEF BenchTypes, BenchTypeOK
<1>2. ASSUME NEW c, NEW header, Receive(c, header) PROVE Untouched
  <2>1. /\ NoteEchoed(client_stats, header.mode).sent = client_stats.sent
        /\ NoteEchoed(client_stats, header.mode).sendFailures = client_stats.sendFailures
    BY <1>1 DEF NoteEchoed, Stats
  <2>2. /\ NoteMalformed(client_stats).sent = client_stats.sent
        /\ NoteMalformed(client_stats).sendFailures = client_stats.sendFailures
    BY <1>1 DEF NoteMalformed, Stats
  <2> QED
    BY <1>2, <2>1, <2>2 DEF Receive, Untouched
<1>3. ASSUME NEW c, OnConnected(c) PROVE Untouched
  BY <1>3 DEF OnConnected, Untouched
<1>4. ASSUME NEW c, OnDisconnected(c) PROVE Untouched
  BY <1>4 DEF OnDisconnected, Untouched
<1>5. ASSUME NEW c, NEW header, NEW sent, PacketCallback(c, header, sent)
      PROVE  Untouched
  BY <1>5 DEF PacketCallback, Untouched
<1>6. ASSUME NEW c, NEW header, NEW sent, ShardCallback(c, header, sent)
      PROVE  Untouched
  BY <1>6 DEF ShardCallback, Untouched
<1>7. ASSUME NEW c, ShardNoteEchoed(c) PROVE Untouched
  BY <1>7 DEF ShardNoteEchoed, Untouched
<1>8. ASSUME NEW c, ShardNoteSent(c) PROVE Untouched
  BY <1>8 DEF ShardNoteSent, Untouched
<1>9. CASE ClientsFinish
  BY <1>9 DEF ClientsFinish, Untouched
<1>10. CASE MaybeWriteSample
  BY <1>10 DEF MaybeWriteSample, Untouched
<1>11. CASE Finish
  BY <1>11 DEF Finish, Untouched
<1>12. CASE StopShards
  BY <1>12 DEF StopShards, Untouched
<1>13. CASE UNCHANGED benchVars
  BY <1>13 DEF benchVars, Untouched
<1> QED
  BY <1>2, <1>3, <1>4, <1>5, <1>6, <1>7, <1>8, <1>9, <1>10, <1>11, <1>12, <1>13
     DEF BenchNext

LEMMA TypesMakeAPass == ASSUME BenchTypes PROVE Pass
  BY BenchAssumption DEF BenchTypes, BenchTypeOK, Pass

LEMMA ResetKeepsPace ==
  ASSUME Pass, Pace, ResetStreams
  PROVE  Pace'
<1>1. /\ loop = "drain" /\ loop' = "send" /\ now' = now /\ nextSequence' = nextSequence
  BY DEF ResetStreams, sends
<1>2. CASE Measuring /\ ~reset_at_measurement
  <2>1. /\ reset_at_measurement' = TRUE
        /\ \A c \in BenchClient, i \in Stream : streams'[c][i] = now
    BY <1>2 DEF ResetStreams
  <2>2. ASSUME NEW c \in BenchClient, NEW n, Numbered(c, n) PROVE Numbered(c, n)'
    <3>1. ASSUME NEW i \in Stream PROVE Paced(c, i, n[i])'
      <4>1. /\ Interval[i] = 0 => n[i] = 0
            /\ n[i] <= MaxBurst /\ n[i] \in Nat
        BY <1>2, <2>2 DEF Numbered, Paced
      <4>2. PICK k \in Nat, d \in Nat, b \in Nat :
              k = n[i] /\ d = Interval[i] /\ b = MaxBurst
        BY <4>1, PaceNumbers
      <4>3. (k - b) * d <= 0 /\ (k - b) * d \in Int
        <5>1. PICK x \in Nat : b = k + x
          <6>1. b - k \in Nat /\ b = k + (b - k)
            BY <4>1, <4>2
          <6> QED
            BY <6>1
        <5>2. (k - b) * d = -(x * d) /\ x * d \in Nat
          BY <5>1, SMTT(40)
        <5> QED
          BY <5>2
      <4>4. (k - b) * d + Warmup + ClientStart <= now
        <5>1. PICK y \in Int : y = (k - b) * d /\ y <= 0
          BY <4>3
        <5>2. Warmup + ClientStart <= now
          BY <1>2, PaceNumbers DEF Measuring, Elapsed
        <5> QED
          BY <5>1, <5>2, PaceNumbers
      <4>5. now <= now + Interval[i]
        BY PaceNumbers
      <4> QED
        BY <1>1, <2>1, <4>1, <4>2, <4>4, <4>5 DEF Paced
    <3> QED
      BY <1>1, <2>2, <3>1 DEF Numbered
  <2>3. OnePassBefore'
    BY <1>1, <1>2, <2>1 DEF OnePassBefore, Measuring, Elapsed
  <2> QED
    BY <2>2, <2>3 DEF Pace
<1>3. CASE ~(Measuring /\ ~reset_at_measurement)
  <2>1. streams' = streams /\ reset_at_measurement' = reset_at_measurement
    BY <1>3 DEF ResetStreams
  <2>2. ASSUME NEW c \in BenchClient, NEW n, Numbered(c, n) PROVE Numbered(c, n)'
    BY <1>1, <2>1, <2>2 DEF Numbered, Paced
  <2>3. OnePassBefore'
    BY <1>1, <1>3, <2>1 DEF Pace, OnePassBefore, Measuring, Elapsed
  <2> QED
    BY <2>2, <2>3 DEF Pace
<1> QED
  BY <1>2, <1>3

LEMMA TimeKeepsPace ==
  ASSUME Pass, Pace, Tick
  PROVE  Pace'
<1>1. /\ loop' = loop /\ now' = now + 1 /\ nextSequence' = nextSequence
      /\ streams' = streams /\ reset_at_measurement' = reset_at_measurement
  BY DEF Tick, bench, sends
<1>2. now \in Nat /\ {Warmup, ClientStart, Duration} \subseteq Nat
  BY BenchAssumption DEF Pass
<1>3. ASSUME NEW c \in BenchClient, NEW n, Numbered(c, n) PROVE Numbered(c, n)'
  <2>1. ASSUME NEW i \in Stream PROVE Paced(c, i, n[i])'
    <3>1. streams[c][i] <= now + Interval[i] => streams[c][i] <= (now + 1) + Interval[i]
      BY PaceNumbers
    <3> QED
      BY <1>1, <1>3, <3>1 DEF Numbered, Paced
  <2> QED
    BY <1>1, <1>3, <2>1 DEF Numbered
<1>4. /\ Warmup <= Elapsed => Warmup <= Elapsed'
      /\ Warmup <= Elapsed /\ ~Measuring => ~Measuring'
  BY <1>1, <1>2 DEF Elapsed, Measuring
<1>5. OnePassBefore'
  BY <1>1, <1>4 DEF Pace, OnePassBefore
<1> QED
  BY <1>3, <1>5 DEF Pace

LEMMA PaceNext ==
  ASSUME BenchTypes, Pace, [BenchNext]_benchVars
  PROVE  Pace'
<1>1. Pass
  BY TypesMakeAPass
<1>2. ASSUME NEW refused \in SUBSET DuePayloads, SendDue(DuePayloads, refused)
      PROVE  Pace'
  BY <1>1, <1>2, SendDuePasses, SendDueKeepsPace
<1>3. CASE Untouched
  <2>1. ASSUME NEW c \in BenchClient, NEW n, Numbered(c, n) PROVE Numbered(c, n)'
    BY <1>3, <2>1 DEF Untouched, Numbered, Paced
  <2>2. OnePassBefore'
    BY <1>3 DEF Untouched, Pace, OnePassBefore, Elapsed, Measuring
  <2> QED
    BY <2>1, <2>2 DEF Pace
<1> QED
  BY <1>1, <1>2, <1>3, ResetKeepsPace, TimeKeepsPace, StepsOfTheBench

\* Within its pace a stream has numbered what it may.
LEMMA PacedIsAllowed ==
  ASSUME Pass, Pace, NEW c \in BenchClient, NEW n, Numbered(c, n), NEW i \in Stream
  PROVE  n[i] <= Allowed(i) /\ Allowed(i) \in Nat /\ n[i] \in Nat
<1>1. /\ streams[c][i] \in Nat /\ Interval[i] \in Nat /\ now \in Nat
      /\ MaxBurst \in Nat /\ Warmup \in Nat /\ ClientStart \in Nat
  BY PaceNumbers
<1>2. n[i] \in Nat /\ Paced(c, i, n[i])
  BY DEF Numbered
<1>3. CASE Interval[i] = 0
  BY <1>2, <1>3 DEF Paced, Allowed
<1>4. CASE Interval[i] # 0 /\ Elapsed < Warmup
  <2>1. ~reset_at_measurement /\ nextSequence[c] = 0
    BY <1>1, <1>4 DEF Pace, OnePassBefore, Elapsed
  <2>2. n[i] = 0
    BY <2>1, NothingNumbered DEF Numbered
  <2> QED
    BY <1>4, <2>2 DEF Allowed
<1>5. CASE Interval[i] # 0 /\ ~(Elapsed < Warmup)
  <2>1. PICK k \in Nat, d \in Nat \ {0}, b \in Nat, a \in Nat :
          k = n[i] /\ d = Interval[i] /\ b = MaxBurst /\ a = Elapsed - Warmup
    <3>1. Elapsed - Warmup \in Nat
      BY <1>1, <1>5 DEF Elapsed
    <3> QED
      BY <1>1, <1>2, <1>5, <3>1
  <2>2. Allowed(i) = b + 1 + a \div d
    BY <1>5, <2>1 DEF Allowed
  <2>3. PICK q \in Nat : q = a \div d
    <3>1. \E x \in Nat, y \in 0..(d - 1) : a = d * x + y /\ a % d = y /\ a \div d = x
      BY DivisionExists
    <3> QED
      BY <3>1
  <2>4. k <= b + 1 + q
    <3>1. CASE ~reset_at_measurement
      <4>1. k <= b
        BY <1>2, <2>1, <3>1 DEF Paced
      <4> QED
        BY <4>1
    <3>2. CASE reset_at_measurement
      <4>1. PICK z \in Int : z = (k - b) * d
        OBVIOUS
      <4>2. z <= a + d
        <5>1. /\ (n[i] - MaxBurst) * Interval[i] + Warmup + ClientStart <= streams[c][i]
              /\ streams[c][i] <= now + Interval[i]
          BY <1>2, <3>2 DEF Paced
        <5>2. z + Warmup + ClientStart <= streams[c][i]
          BY <2>1, <4>1, <5>1
        <5> QED
          BY <1>1, <2>1, <5>1, <5>2 DEF Elapsed
      <4>3. (k - b - 1) * d = z - d
        <5>1. PICK x \in Int : x = k - b
          OBVIOUS
        <5>2. (x - 1) * d = x * d - d
          BY SMTT(40)
        <5>3. k - b - 1 = x - 1
          BY <5>1
        <5> QED
          BY <4>1, <5>1, <5>2, <5>3
      <4>4. (k - b - 1) * d <= a
        BY <4>2, <4>3
      <4>5. PICK x \in Int : x = k - b - 1
        OBVIOUS
      <4>6. x <= a \div d
        BY <4>4, <4>5, StepsThatFit
      <4> QED
        BY <2>3, <4>5, <4>6
    <3> QED
      BY <3>1, <3>2
  <2> QED
    BY <2>1, <2>2, <2>3, <2>4
<1> QED
  BY <1>3, <1>4, <1>5

LEMMA ProfileIsKept ==
  ASSUME Pass, Pace, NEW c \in BenchClient
  PROVE  nextSequence[c] <= Allowed(1) + Allowed(2) + Allowed(3) + Allowed(4) + Allowed(5)
<1>1. PICK n : Numbered(c, n)
  BY DEF Pace
<1>2. {1, 2, 3, 4, 5} = Stream
  BY DEF Stream
<1>3. PICK p, q, r, s, t \in Nat :
        p = n[1] /\ q = n[2] /\ r = n[3] /\ s = n[4] /\ t = n[5]
  BY <1>1, <1>2, PacedIsAllowed
<1>4. PICK x1, x2, x3, x4, x5 \in Nat :
        /\ x1 = Allowed(1) /\ x2 = Allowed(2) /\ x3 = Allowed(3)
        /\ x4 = Allowed(4) /\ x5 = Allowed(5)
  BY <1>1, <1>2, PacedIsAllowed
<1>5. p <= x1 /\ q <= x2 /\ r <= x3 /\ s <= x4 /\ t <= x5
  BY <1>1, <1>2, <1>3, <1>4, PacedIsAllowed
<1>6. nextSequence[c] = p + q + r + s + t
  BY <1>1, <1>3 DEF Numbered, SumOfStreams
<1> QED
  BY <1>4, <1>5, <1>6

-----------------------------------------------------------------------------
(* The turns of the deadline modes *)

\* The payloads of the fifth stream, by client and number: each client has
\* numbered g of them.
Given(g) == {p \in BenchClient \X Nat : p[2] < g[p[1]]}

\* Those of a set whose turn it is, of four.
InTurn(S, a) == {p \in S : p[2] % 4 = a}

\* S have been sent; the others were refused.
TurnsWith(g, S) ==
  /\ g \in [BenchClient -> Nat]
  /\ \A c \in BenchClient : nextDeadlineMode[c] = g[c] % ModeCounter
  /\ IsFiniteSet(Given(g)) /\ S \subseteq Given(g)
  /\ Cardinality(Given(g) \ S) <= client_stats.sendFailures
  /\ \A m \in DeadlineModes :
       client_stats.sent[BucketForMode(m)] = Cardinality(InTurn(S, m - 5))

\* The deadline modes have taken turns.
Turns == \E g, S : TurnsWith(g, S)

\* Of what each client has numbered, a turn has at most one more than another.
LEMMA RoundsAreFair ==
  ASSUME NEW g \in [BenchClient -> Nat], IsFiniteSet(Given(g)),
         NEW a \in 0..3, NEW b \in 0..3
  PROVE  Cardinality(InTurn(Given(g), a)) <=
           Cardinality(InTurn(Given(g), b)) + Cardinality(BenchClient)
<1> DEFINE A == InTurn(Given(g), a)
           B == InTurn(Given(g), b)
           open == [c \in BenchClient |-> <<c, -1>>]
           O == {open[c] : c \in BenchClient}
           after(p) == (p[2] - a) + b
           f == [p \in A |-> IF after(p) < g[p[1]] THEN <<p[1], after(p)>> ELSE open[p[1]]]
<1>1. ASSUME NEW p \in A
      PROVE  /\ p \in Given(g) /\ p[1] \in BenchClient /\ p[2] \in Nat /\ p = <<p[1], p[2]>>
             /\ p[2] < g[p[1]] /\ g[p[1]] \in Nat
             /\ \E q \in Nat : p[2] = 4 * q + a /\ after(p) = 4 * q + b
             /\ after(p) \in Nat /\ after(p) % 4 = b
  <2>1. /\ p \in Given(g) /\ p[1] \in BenchClient /\ p[2] \in Nat /\ p = <<p[1], p[2]>>
        /\ p[2] < g[p[1]] /\ g[p[1]] \in Nat /\ p[2] % 4 = a
    BY DEF Given, InTurn
  <2>2. PICK q \in Nat, r \in 0..(4 - 1) : p[2] = 4 * q + r /\ p[2] % 4 = r
    <3>1. PICK z \in Nat : z = p[2]
      BY <2>1
    <3>2. \E q \in Nat, r \in 0..(4 - 1) : z = 4 * q + r /\ z % 4 = r /\ z \div 4 = q
      <4>1. 4 \in Nat \ {0}
        OBVIOUS
      <4> QED
        BY <4>1, DivisionExists
    <3> QED
      BY <3>1, <3>2
  <2>3. p[2] = 4 * q + a /\ after(p) = 4 * q + b /\ after(p) \in Nat
    <3>1. r = a
      BY <2>1, <2>2
    <3>2. (4 * q + a) - a + b = 4 * q + b /\ 4 * q + b \in Nat
      OBVIOUS
    <3> QED
      BY <2>2, <3>1, <3>2
  <2>4. (4 * q + b) % 4 = b
    <3>1. PICK x \in Nat : x = 4 * q + b
      OBVIOUS
    <3>2. b \in 0..(4 - 1) /\ 4 \in Nat \ {0}
      OBVIOUS
    <3> QED
      BY <3>1, <3>2, DivisionIsUnique
  <2> QED
    BY <2>1, <2>3, <2>4
<1>2. IsFiniteSet(A) /\ IsFiniteSet(B)
  BY FS_Subset DEF InTurn
<1>3. IsFiniteSet(O) /\ Cardinality(O) <= Cardinality(BenchClient)
  <2>1. BenchClient \subseteq DOMAIN open /\ IsFiniteSet(BenchClient)
    BY BenchAssumption
  <2>2. O = ImageUnder(open, BenchClient)
    BY DEF ImageUnder
  <2> HIDE DEF open, O
  <2> QED
    BY <2>1, <2>2, ImageIsFinite
<1>4. f \in [A -> B \cup O]
  <2>1. ASSUME NEW p \in A, after(p) < g[p[1]] PROVE <<p[1], after(p)>> \in B
    BY <1>1, <2>1 DEF Given, InTurn
  <2>2. ASSUME NEW p \in A PROVE open[p[1]] \in O
    BY <1>1
  <2> HIDE DEF A, B, O, open, after
  <2> QED
    BY <2>1, <2>2
<1>5. ASSUME NEW p \in A, NEW q \in A, f[p] = f[q] PROVE p = q
  <2>1. p[1] = q[1]
    BY <1>1, <1>5
  <2>2. PICK x \in Nat : p[2] = 4 * x + a /\ after(p) = 4 * x + b
    BY <1>1
  <2>3. PICK y \in Nat : q[2] = 4 * y + a /\ after(q) = 4 * y + b
    BY <1>1
  <2>4. PICK n \in Nat : n = g[p[1]] /\ n = g[q[1]]
    BY <1>1, <2>1
  <2>5. 4 * x + a < n /\ 4 * y + a < n
    BY <1>1, <2>2, <2>3, <2>4
  <2>6. CASE after(p) < g[p[1]] /\ after(q) < g[q[1]]
    <3>1. f[p] = <<p[1], after(p)>> /\ f[q] = <<q[1], after(q)>>
      BY <2>6
    <3>2. after(p) = after(q)
      BY <1>5, <3>1
    <3>3. x = y
      BY <2>2, <2>3, <3>2
    <3>4. p[2] = q[2]
      BY <2>2, <2>3, <3>3
    <3>5. p = <<p[1], p[2]>> /\ q = <<q[1], q[2]>>
      BY <1>1
    <3> QED
      BY <2>1, <3>4, <3>5
  <2>7. CASE after(p) < g[p[1]] /\ ~(after(q) < g[q[1]])
    <3>1. after(p) = -1
      BY <1>1, <1>5, <2>7
    <3> QED
      BY <1>1, <3>1
  <2>8. CASE ~(after(p) < g[p[1]]) /\ after(q) < g[q[1]]
    <3>1. after(q) = -1
      BY <1>1, <1>5, <2>8
    <3> QED
      BY <1>1, <3>1
  <2>9. CASE ~(after(p) < g[p[1]]) /\ ~(after(q) < g[q[1]])
    <3>1. 4 * x + b >= n /\ 4 * y + b >= n
      BY <2>2, <2>3, <2>4, <2>9
    <3>2. x = y
      BY <2>5, <3>1
    <3> QED
      BY <1>1, <2>1, <2>2, <2>3, <3>2
  <2> QED
    BY <2>6, <2>7, <2>8, <2>9
<1> HIDE DEF f, O, A, B
<1>6. f \in Injection(A, B \cup O)
  BY <1>4, <1>5 DEF Injection, IsInjective
<1>7. IsFiniteSet(B \cup O) /\ Cardinality(B \cup O) <= Cardinality(B) + Cardinality(O)
  BY <1>2, <1>3, UnionBound
<1>8. Cardinality(A) <= Cardinality(B \cup O)
  BY <1>6, <1>7, FS_Injection
<1>9. /\ Cardinality(A) \in Nat /\ Cardinality(B) \in Nat /\ Cardinality(O) \in Nat
      /\ Cardinality(B \cup O) \in Nat /\ Cardinality(BenchClient) \in Nat
  BY <1>2, <1>3, <1>7, BenchAssumption, FS_CardinalityType
<1>10. Cardinality(A) <= Cardinality(B) + Cardinality(BenchClient)
  BY <1>3, <1>7, <1>8, <1>9
<1> QED
  BY <1>10 DEF A, B

\* So of what was sent, but for what was refused.
LEMMA TurnsAreTaken ==
  ASSUME Turns, client_stats.sendFailures \in Nat,
         NEW m \in DeadlineModes, NEW n \in DeadlineModes
  PROVE  client_stats.sent[BucketForMode(m)] <=
           client_stats.sent[BucketForMode(n)] + Cardinality(BenchClient)
             + client_stats.sendFailures
<1>1. PICK g, S : TurnsWith(g, S)
  BY DEF Turns
<1> DEFINE a == m - 5
           b == n - 5
           R == Given(g) \ S
<1>2. a \in 0..3 /\ b \in 0..3
  BY DEF DeadlineModes
<1>3. /\ g \in [BenchClient -> Nat]
      /\ IsFiniteSet(Given(g)) /\ S \subseteq Given(g)
      /\ Cardinality(R) <= client_stats.sendFailures
      /\ client_stats.sent[BucketForMode(m)] = Cardinality(InTurn(S, a))
      /\ client_stats.sent[BucketForMode(n)] = Cardinality(InTurn(S, b))
  BY <1>1 DEF TurnsWith
<1>4. /\ InTurn(S, a) \subseteq InTurn(Given(g), a)
      /\ InTurn(Given(g), b) \subseteq InTurn(S, b) \cup R
      /\ InTurn(Given(g), a) \subseteq Given(g) /\ InTurn(S, b) \subseteq Given(g)
      /\ R \subseteq Given(g)
  BY <1>3 DEF InTurn
<1> HIDE DEF a, b, R
<1>5. /\ IsFiniteSet(InTurn(Given(g), a)) /\ IsFiniteSet(InTurn(S, b)) /\ IsFiniteSet(R)
  BY <1>3, <1>4, FS_Subset
<1>6. Cardinality(InTurn(S, a)) <= Cardinality(InTurn(Given(g), a)) /\ IsFiniteSet(InTurn(S, a))
  BY <1>4, <1>5, FS_Subset
<1>7. Cardinality(InTurn(Given(g), a)) <=
        Cardinality(InTurn(Given(g), b)) + Cardinality(BenchClient)
  BY <1>2, <1>3, RoundsAreFair
<1>8. /\ IsFiniteSet(InTurn(S, b) \cup R)
      /\ Cardinality(InTurn(S, b) \cup R) <= Cardinality(InTurn(S, b)) + Cardinality(R)
  BY <1>5, UnionBound
<1>9. /\ Cardinality(InTurn(Given(g), b)) <= Cardinality(InTurn(S, b) \cup R)
      /\ IsFiniteSet(InTurn(Given(g), b))
  BY <1>4, <1>8, FS_Subset
<1>10. PICK sa, ga, gb, sb, rr, u, C \in Nat :
         /\ sa = Cardinality(InTurn(S, a)) /\ ga = Cardinality(InTurn(Given(g), a))
         /\ gb = Cardinality(InTurn(Given(g), b)) /\ sb = Cardinality(InTurn(S, b))
         /\ rr = Cardinality(R) /\ u = Cardinality(InTurn(S, b) \cup R)
         /\ C = Cardinality(BenchClient)
  BY <1>5, <1>6, <1>8, <1>9, BenchAssumption, FS_CardinalityType
<1> QED
  BY <1>3, <1>6, <1>7, <1>8, <1>9, <1>10

\* SendDue, said of the fifth stream and the counters.
Counted(refused) ==
  /\ refused \in SUBSET DuePayloads
  /\ \A c \in BenchClient :
       nextDeadlineMode'[c] =
         (nextDeadlineMode[c] + Cardinality(DueOf(c, 5))) % ModeCounter
  /\ client_stats'.sendFailures = client_stats.sendFailures + Cardinality(refused)
  /\ \A b \in Bucket :
       client_stats'.sent[b] =
         client_stats.sent[b]
           + Cardinality({p \in DuePayloads \ refused : BucketForMode(ModeOf(p)) = b})

LEMMA SendDueCounts ==
  ASSUME client_stats \in Stats,
         NEW refused \in SUBSET DuePayloads, SendDue(DuePayloads, refused)
  PROVE  Counted(refused)
<1>1. ASSUME NEW c \in BenchClient
      PROVE  nextDeadlineMode'[c] =
               (nextDeadlineMode[c] + Cardinality(DueOf(c, 5))) % ModeCounter
  <2>1. nextDeadlineMode' = [d \in BenchClient |->
          (nextDeadlineMode[d] + Cardinality(DueOf(d, 5))) % ModeCounter]
    BY DEF SendDue, DueOf, NextDeadlineMode
  <2> QED
    BY <2>1, Zenon
<1> DEFINE C(b) == Cardinality({p \in DuePayloads \ refused : BucketForMode(ModeOf(p)) = b})
           f == NoteFailures(client_stats, Cardinality(refused))
<1>2. client_stats' = [f EXCEPT !.sent = [b \in Bucket |-> client_stats.sent[b] + C(b)]]
  BY DEF SendDue
<1>3. f = [client_stats EXCEPT !.sendFailures = client_stats.sendFailures + Cardinality(refused)]
  BY DEF NoteFailures
<1> HIDE DEF C, f
<1>4. /\ client_stats'.sent = [b \in Bucket |-> client_stats.sent[b] + C(b)]
      /\ client_stats'.sendFailures = client_stats.sendFailures + Cardinality(refused)
  BY <1>2, <1>3 DEF Stats
<1>5. \A b \in Bucket : client_stats'.sent[b] = client_stats.sent[b] + C(b)
  BY <1>4, Zenon
<1> QED
  BY <1>1, <1>4, <1>5 DEF Counted, C

\* The fifth stream of a pass.
Deadlines == {p \in DuePayloads : p[2] = 5}

\* The client of a payload of it and its number.
NumberOf(g) == [p \in Deadlines |-> <<p[1], g[p[1]] + p[3] - 1>>]

\* What each client has numbered after a pass.
GivenAfter(g) == [c \in BenchClient |-> g[c] + Cardinality(DueOf(c, 5))]

LEMMA DeadlineIsDue ==
  ASSUME Pass, NEW g \in [BenchClient -> Nat], NEW p \in Deadlines
  PROVE  /\ p[1] \in BenchClient /\ p = <<p[1], 5, p[3]>> /\ g[p[1]] \in Nat
         /\ p[3] \in Nat /\ 1 <= p[3] /\ p[3] <= Cardinality(DueOf(p[1], 5))
         /\ Cardinality(DueOf(p[1], 5)) \in Nat
         /\ NumberOf(g)[p] = <<p[1], g[p[1]] + p[3] - 1>>
         /\ g[p[1]] + p[3] - 1 \in Nat
<1>1. p \in DuePayloads /\ p[2] = 5
  BY DEF Deadlines
<1>2. p[1] \in BenchClient /\ p = <<p[1], 5, p[3]>> /\ p \in DueOf(p[1], 5)
  BY <1>1, DueIsAPayload DEF Pass, DueOf
<1>3. PICK m \in 0..MaxBurst : InOrder(p[1], 5, m)
  BY <1>2, DueInOrder DEF Stream
<1>4. PICK k \in 1..m : p = <<p[1], 5, k>>
  BY <1>2, <1>3 DEF InOrder
<1>5. p[3] = k
  BY <1>4
<1>6. m \in Nat /\ Cardinality(DueOf(p[1], 5)) = m
  BY <1>3, BenchAssumption DEF InOrder
<1>7. g[p[1]] \in Nat
  BY <1>2
<1>8. p[3] \in Nat /\ 1 <= p[3] /\ p[3] <= m
  BY <1>5, <1>6
<1>9. g[p[1]] + p[3] - 1 \in Nat
  BY <1>7, <1>8
<1> QED
  BY <1>2, <1>6, <1>7, <1>8, <1>9 DEF NumberOf

\* A pass numbers its payloads on, each with a number of its own.
LEMMA NumbersGoOn ==
  ASSUME Pass, NEW g \in [BenchClient -> Nat]
  PROVE  /\ GivenAfter(g) \in [BenchClient -> Nat]
         /\ Given(GivenAfter(g)) = Given(g) \cup ImageUnder(NumberOf(g), Deadlines)
         /\ Given(g) \cap ImageUnder(NumberOf(g), Deadlines) = {}
         /\ \A p, q \in Deadlines : NumberOf(g)[p] = NumberOf(g)[q] => p = q
<1> DEFINE h == GivenAfter(g)
<1>1. ASSUME NEW c \in BenchClient
      PROVE  /\ Cardinality(DueOf(c, 5)) \in Nat /\ g[c] \in Nat
             /\ h[c] = g[c] + Cardinality(DueOf(c, 5)) /\ h[c] \in Nat
  <2>1. PICK m \in 0..MaxBurst : InOrder(c, 5, m)
    BY DueInOrder DEF Stream
  <2>2. Cardinality(DueOf(c, 5)) = m /\ m \in Nat
    BY <2>1, BenchAssumption DEF InOrder
  <2> QED
    BY <2>2 DEF GivenAfter
<1>2. h \in [BenchClient -> Nat]
  BY <1>1 DEF GivenAfter
<1> HIDE DEF h
<1>3. ASSUME NEW x \in Given(g) PROVE x \in Given(h)
  <2>1. x \in BenchClient \X Nat /\ x[1] \in BenchClient /\ x[2] \in Nat /\ x[2] < g[x[1]]
    BY DEF Given
  <2>2. x[2] < h[x[1]]
    BY <1>1, <2>1
  <2> QED
    BY <2>1, <2>2 DEF Given
<1>4. ASSUME NEW p \in Deadlines PROVE NumberOf(g)[p] \in Given(h) \ Given(g)
  <2>1. PICK c \in BenchClient, k \in Nat, n \in Nat, a \in Nat, y \in Nat :
          /\ c = p[1] /\ k = p[3] /\ n = g[c] /\ a = Cardinality(DueOf(c, 5))
          /\ y = g[p[1]] + p[3] - 1
          /\ 1 <= k /\ k <= a /\ NumberOf(g)[p] = <<c, y>>
    BY DeadlineIsDue
  <2>2. y = n + k - 1 /\ h[c] = n + a
    BY <1>1, <2>1
  <2>3. y < h[c] /\ ~(y < g[c])
    BY <2>1, <2>2
  <2> QED
    BY <2>1, <2>3 DEF Given
<1>5. ASSUME NEW x \in Given(h), x \notin Given(g)
      PROVE  x \in ImageUnder(NumberOf(g), Deadlines)
  <2>1. PICK c \in BenchClient, j \in Nat : x = <<c, j>> /\ j < h[c] /\ ~(j < g[c])
    BY <1>5 DEF Given
  <2>2. PICK m \in 0..MaxBurst : InOrder(c, 5, m)
    BY DueInOrder DEF Stream
  <2>3. h[c] = g[c] + m /\ g[c] \in Nat /\ m \in Nat
    BY <1>1, <2>2, BenchAssumption DEF InOrder
  <2>4. PICK k \in 1..m : j = g[c] + k - 1
    <3>1. j - g[c] + 1 \in 1..m /\ j = g[c] + (j - g[c] + 1) - 1
      BY <2>1, <2>3
    <3> QED
      BY <3>1
  <2>5. <<c, 5, k>> \in DueOf(c, 5)
    BY <2>2 DEF InOrder
  <2>6. <<c, 5, k>> \in Deadlines
    BY <2>5 DEF DueOf, Deadlines
  <2>7. NumberOf(g)[<<c, 5, k>>] = x
    BY <2>1, <2>4, <2>6 DEF NumberOf
  <2> QED
    BY <2>6, <2>7 DEF ImageUnder
<1>6. ASSUME NEW p \in Deadlines, NEW q \in Deadlines, NumberOf(g)[p] = NumberOf(g)[q]
      PROVE  p = q
  <2>1. p[1] = q[1] /\ g[p[1]] + p[3] - 1 = g[q[1]] + q[3] - 1
    BY <1>6, DeadlineIsDue
  <2>2. p[3] = q[3]
    BY <2>1, DeadlineIsDue
  <2> QED
    BY <2>1, <2>2, DeadlineIsDue
<1>7. Given(h) = Given(g) \cup ImageUnder(NumberOf(g), Deadlines)
  BY <1>3, <1>4, <1>5 DEF ImageUnder
<1>8. Given(g) \cap ImageUnder(NumberOf(g), Deadlines) = {}
  BY <1>4 DEF ImageUnder
<1> QED
  BY <1>2, <1>6, <1>7, <1>8 DEF h

\* The mode of a payload of the fifth stream is its number's, though the counter
\* is cut; the other streams have other modes.
LEMMA ModeOfANumber ==
  ASSUME Pass, NEW g \in [BenchClient -> Nat],
         \A c \in BenchClient : nextDeadlineMode[c] = g[c] % ModeCounter,
         NEW m \in DeadlineModes, NEW p \in DuePayloads
  PROVE  BucketForMode(ModeOf(p)) = BucketForMode(m) <=>
           p \in Deadlines /\ NumberOf(g)[p][2] % 4 = m - 5
<1>1. m \in Nat /\ m >= 5
  BY DEF DeadlineModes
<1>2. CASE p \in Deadlines
  <2>1. PICK c \in BenchClient, k \in Nat, n \in Nat, y \in Nat :
          /\ c = p[1] /\ k = p[3] - 1 /\ n = g[c] /\ y = n + k
          /\ NumberOf(g)[p] = <<c, y>> /\ p[2] = 5
    <3>1. /\ p[1] \in BenchClient /\ g[p[1]] \in Nat /\ p[3] \in Nat /\ 1 <= p[3]
          /\ NumberOf(g)[p] = <<p[1], g[p[1]] + p[3] - 1>>
          /\ g[p[1]] + p[3] - 1 \in Nat
      BY <1>2, DeadlineIsDue
    <3>2. p[3] - 1 \in Nat /\ g[p[1]] + p[3] - 1 = g[p[1]] + (p[3] - 1)
      BY <3>1
    <3>3. p[2] = 5
      BY <1>2 DEF Deadlines
    <3> QED
      BY <3>1, <3>2, <3>3
  <2>2. nextDeadlineMode[c] + p[3] - 1 = (n % ModeCounter) + k
    <3>1. nextDeadlineMode[c] = n % ModeCounter /\ nextDeadlineMode[c] \in Nat
      BY <2>1, BenchAssumption DEF Pass
    <3>2. p[3] \in Nat
      BY <1>2, DeadlineIsDue
    <3>3. PICK x \in Nat, z \in Nat : x = nextDeadlineMode[c] /\ z = p[3]
      BY <3>1, <3>2
    <3>4. x + z - 1 = x + (z - 1)
      OBVIOUS
    <3> QED
      BY <2>1, <3>1, <3>3, <3>4
  <2>3. ModeOf(p) = 5 + ((((n % ModeCounter) + k) % ModeCounter) % 4)
    BY <2>1, <2>2 DEF ModeOf, NextDeadlineMode
  <2>4. (((n % ModeCounter) + k) % ModeCounter) % 4 = y % 4
    <3>1. ModeCounter \in Nat \ {0} /\ ModeCounter % 4 = 0
      BY BenchAssumption
    <3>2. (((n % ModeCounter) + k) % ModeCounter) % 4 = (n + k) % 4
      BY <3>1, CutCounter, Zenon
    <3> QED
      BY <2>1, <3>2, Zenon
  <2>5. y % 4 \in 0..3
    OBVIOUS
  <2>6. PICK r \in 0..3 : r = y % 4
    BY <2>5
  <2>7. ModeOf(p) = 5 + r /\ NumberOf(g)[p][2] % 4 = r
    BY <2>1, <2>3, <2>4, <2>6
  <2>8. (5 + r) - 1 = m - 1 <=> r = m - 5
    BY <1>1
  <2> QED
    BY <1>2, <2>7, <2>8 DEF BucketForMode
<1>3. CASE p \notin Deadlines
  <2>1. p[2] \in 1..5 /\ p[2] # 5
    BY <1>3, DueIsAPayload DEF Deadlines, Stream
  <2>2. ModeOf(p) = p[2] /\ p[2] - 1 # m - 1
    BY <1>1, <2>1 DEF ModeOf
  <2> QED
    BY <1>3, <2>2 DEF BucketForMode
<1> QED
  BY <1>2, <1>3

LEMMA SendDueKeepsTurns ==
  ASSUME Pass, client_stats \in Stats, Turns, NEW refused, Counted(refused)
  PROVE  Turns'
<1>1. PICK g, S : TurnsWith(g, S)
  BY DEF Turns
<1>2. /\ g \in [BenchClient -> Nat]
      /\ \A c \in BenchClient : nextDeadlineMode[c] = g[c] % ModeCounter
      /\ IsFiniteSet(Given(g)) /\ S \subseteq Given(g)
      /\ Cardinality(Given(g) \ S) <= client_stats.sendFailures
      /\ \A m \in DeadlineModes :
           client_stats.sent[BucketForMode(m)] = Cardinality(InTurn(S, m - 5))
  BY <1>1 DEF TurnsWith
<1> DEFINE F == NumberOf(g)
           sent == {p \in Deadlines : p \notin refused}
           lost == {p \in Deadlines : p \in refused}
           New == ImageUnder(F, Deadlines)
           NewS == ImageUnder(F, sent)
           NewL == ImageUnder(F, lost)
<1>3. /\ GivenAfter(g) \in [BenchClient -> Nat]
      /\ Given(GivenAfter(g)) = Given(g) \cup New
      /\ Given(g) \cap New = {}
      /\ \A p, q \in Deadlines : F[p] = F[q] => p = q
  BY <1>2, NumbersGoOn
<1>4. DOMAIN F = Deadlines
  BY DEF NumberOf
<1>5. New = NewS \cup NewL
  BY DEF ImageUnder
<1>6. \A T \in SUBSET DuePayloads : IsFiniteSet(T) /\ Cardinality(T) \in Nat
  BY DueIsFinite, FS_Subset, FS_CardinalityType
<1>7. Deadlines \subseteq DuePayloads /\ sent \subseteq Deadlines /\ lost \subseteq Deadlines
      /\ refused \subseteq DuePayloads /\ lost \subseteq refused
  BY DEF Deadlines, Counted
<1>8. PICK h, Z : h = GivenAfter(g) /\ Z = S \cup NewS
  OBVIOUS
<1> HIDE DEF F, New, NewS, NewL
<1>9. h \in [BenchClient -> Nat] /\ Given(h) = Given(g) \cup New
  BY <1>3, <1>8
<1>10. ASSUME NEW c \in BenchClient PROVE nextDeadlineMode'[c] = h[c] % ModeCounter
  <2>1. PICK m \in 0..MaxBurst : InOrder(c, 5, m)
    BY DueInOrder DEF Stream
  <2>2. Cardinality(DueOf(c, 5)) = m /\ m \in Nat /\ g[c] \in Nat
    BY <1>2, <2>1, BenchAssumption DEF InOrder
  <2>3. nextDeadlineMode'[c] = ((g[c] % ModeCounter) + m) % ModeCounter
    BY <1>2, <2>2 DEF Counted
  <2>4. h[c] = g[c] + m
    BY <1>8, <2>2 DEF GivenAfter
  <2>5. ((g[c] % ModeCounter) + m) % ModeCounter = (g[c] + m) % ModeCounter
    <3>1. ModeCounter \in Nat \ {0} /\ ModeCounter % 4 = 0
      BY BenchAssumption
    <3> QED
      BY <2>2, <3>1, CutCounter, Zenon
  <2> QED
    BY <2>3, <2>4, <2>5
<1>11. IsFiniteSet(New) /\ IsFiniteSet(NewL) /\ Cardinality(NewL) <= Cardinality(lost)
  BY <1>4, <1>6, <1>7, ImageIsFinite DEF New, NewL
<1>12. IsFiniteSet(Given(h)) /\ Z \subseteq Given(h)
  <2>1. IsFiniteSet(Given(g) \cup New)
    BY <1>2, <1>11, FS_Union
  <2> QED
    BY <1>2, <1>5, <1>8, <1>9, <2>1
<1>13. Cardinality(Given(h) \ Z) <= client_stats'.sendFailures
  <2> DEFINE R == Given(g) \ S
  <2>1. Given(h) \ Z \subseteq R \cup NewL
    BY <1>5, <1>8, <1>9
  <2>2. IsFiniteSet(R) /\ Cardinality(R) \in Nat
    BY <1>2, FS_Subset, FS_CardinalityType
  <2> HIDE DEF R
  <2>3. IsFiniteSet(R \cup NewL) /\ Cardinality(R \cup NewL) <= Cardinality(R) + Cardinality(NewL)
    BY <1>11, <2>2, UnionBound
  <2>4. Cardinality(Given(h) \ Z) <= Cardinality(R \cup NewL) /\ IsFiniteSet(Given(h) \ Z)
    BY <2>1, <2>3, FS_Subset
  <2>5. Cardinality(lost) <= Cardinality(refused)
    BY <1>6, <1>7, FS_Subset
  <2>6. PICK z, u, r, l, o, f, s \in Nat :
          /\ z = Cardinality(Given(h) \ Z) /\ u = Cardinality(R \cup NewL)
          /\ r = Cardinality(R) /\ l = Cardinality(NewL) /\ o = Cardinality(lost)
          /\ f = Cardinality(refused) /\ s = client_stats.sendFailures
    <3>1. /\ Cardinality(Given(h) \ Z) \in Nat /\ Cardinality(R \cup NewL) \in Nat
          /\ Cardinality(NewL) \in Nat
      BY <1>11, <2>3, <2>4, FS_CardinalityType
    <3>2. Cardinality(lost) \in Nat /\ Cardinality(refused) \in Nat
      BY <1>6, <1>7
    <3>3. client_stats.sendFailures \in Nat
      BY DEF Stats
    <3> QED
      BY <2>2, <3>1, <3>2, <3>3
  <2>7. r <= s /\ client_stats'.sendFailures = s + f
    BY <1>2, <2>6 DEF R, Counted
  <2> QED
    BY <1>11, <2>3, <2>4, <2>5, <2>6, <2>7
<1>14. ASSUME NEW m \in DeadlineModes
       PROVE  client_stats'.sent[BucketForMode(m)] = Cardinality(InTurn(Z, m - 5))
  <2> DEFINE N == {p \in sent : F[p][2] % 4 = m - 5}
  <2>1. N = {p \in DuePayloads \ refused : BucketForMode(ModeOf(p)) = BucketForMode(m)}
    <3>1. \A p \in DuePayloads :
            BucketForMode(ModeOf(p)) = BucketForMode(m) <=>
              p \in Deadlines /\ F[p][2] % 4 = m - 5
      BY <1>2, ModeOfANumber DEF F
    <3> QED
      BY <1>7, <3>1
  <2>2. N \subseteq Deadlines /\ IsFiniteSet(N)
    BY <1>6, <1>7
  <2>3. InTurn(Z, m - 5) = InTurn(S, m - 5) \cup ImageUnder(F, N)
    BY <1>8 DEF InTurn, NewS, ImageUnder
  <2>4. InTurn(S, m - 5) \cap ImageUnder(F, N) = {}
    BY <1>2, <1>3, <2>2 DEF InTurn, New, ImageUnder
  <2> HIDE DEF N
  <2>5. IsFiniteSet(ImageUnder(F, N)) /\ Cardinality(ImageUnder(F, N)) = Cardinality(N)
    BY <1>3, <1>4, <2>2, ImageIsFinite
  <2>6. IsFiniteSet(InTurn(S, m - 5))
    <3>1. InTurn(S, m - 5) \subseteq Given(g)
      BY <1>2 DEF InTurn
    <3> QED
      BY <1>2, <3>1, FS_Subset
  <2>7. Cardinality(InTurn(Z, m - 5)) = Cardinality(InTurn(S, m - 5)) + Cardinality(N)
    BY <2>3, <2>4, <2>5, <2>6, DisjointUnion
  <2>8. BucketForMode(m) \in Bucket
    BY DEF BucketForMode, Bucket, DeadlineModes
  <2>9. client_stats'.sent[BucketForMode(m)] =
          client_stats.sent[BucketForMode(m)] + Cardinality(N)
    BY <2>1, <2>8 DEF Counted
  <2> QED
    BY <1>2, <2>7, <2>9
<1>15. TurnsWith(h, Z)'
  BY <1>9, <1>10, <1>12, <1>13, <1>14 DEF TurnsWith
<1> QED
  BY <1>15 DEF Turns

LEMMA TurnsInit == BenchInit => Turns
<1> SUFFICES ASSUME BenchInit PROVE Turns
  OBVIOUS
<1> DEFINE g == [c \in BenchClient |-> 0]
<1>1. /\ \A c \in BenchClient : nextDeadlineMode[c] = 0
      /\ client_stats.sendFailures = 0
      /\ \A b \in Bucket : client_stats.sent[b] = 0
  BY DEF BenchInit, AppStats
<1>2. 0 % ModeCounter = 0
  <2>1. PICK M \in Nat \ {0} : M = ModeCounter
    BY BenchAssumption
  <2>2. 0 = M * 0 + 0 /\ 0 \in 0..(M - 1) /\ 0 \in Nat
    OBVIOUS
  <2>3. 0 % M = 0
    BY <2>2, DivisionIsUnique
  <2> QED
    BY <2>1, <2>3
<1>3. g \in [BenchClient -> Nat] /\ \A c \in BenchClient : g[c] = 0
  OBVIOUS
<1> HIDE DEF g
<1>4. Given(g) = {}
  BY <1>3 DEF Given
<1>5. \A a : InTurn({}, a) = {}
  BY DEF InTurn
<1>6. Cardinality({}) = 0 /\ IsFiniteSet({})
  BY FS_EmptySet
<1>7. \A m \in DeadlineModes : BucketForMode(m) \in Bucket
  BY DEF BucketForMode, Bucket, DeadlineModes
<1>8. TurnsWith(g, {})
  <2>1. Cardinality(Given(g) \ {}) <= client_stats.sendFailures
    BY <1>1, <1>4, <1>6
  <2>2. \A m \in DeadlineModes :
          client_stats.sent[BucketForMode(m)] = Cardinality(InTurn({}, m - 5))
    BY <1>1, <1>5, <1>6, <1>7
  <2> QED
    BY <1>1, <1>2, <1>3, <1>4, <1>6, <2>1, <2>2 DEF TurnsWith
<1> QED
  BY <1>8 DEF Turns

LEMMA TurnsNext ==
  ASSUME BenchTypes, Turns, [BenchNext]_benchVars
  PROVE  Turns'
<1>1. Pass /\ client_stats \in Stats
  BY TypesMakeAPass DEF BenchTypes, BenchTypeOK
<1>2. ASSUME NEW refused \in SUBSET DuePayloads, SendDue(DuePayloads, refused)
      PROVE  Turns'
  BY <1>1, <1>2, SendDueCounts, SendDueKeepsTurns
<1>3. ASSUME nextDeadlineMode' = nextDeadlineMode,
             client_stats'.sent = client_stats.sent,
             client_stats'.sendFailures = client_stats.sendFailures
      PROVE  Turns'
  <2>1. ASSUME NEW g, NEW S, TurnsWith(g, S) PROVE TurnsWith(g, S)'
    BY <1>3, <2>1 DEF TurnsWith
  <2> QED
    BY <2>1 DEF Turns
<1>4. CASE ResetStreams
  BY <1>3, <1>4 DEF ResetStreams
<1>5. CASE Tick
  BY <1>3, <1>5 DEF Tick, bench, sends
<1>6. CASE Untouched
  BY <1>3, <1>6 DEF Untouched
<1> QED
  BY <1>2, <1>4, <1>5, <1>6, StepsOfTheBench

-----------------------------------------------------------------------------
(* What the counters count *)

LEMMA PayloadIsKnown ==
  ASSUME NEW kind \in {kData, kEcho}, NEW m \in DeliveryMode
  PROVE  /\ MakePayload(kind, m).kind = kind
         /\ MakePayload(kind, m).mode = m
         /\ ParseHeader(MakePayload(kind, m))
         /\ [MakePayload(kind, m) EXCEPT !.kind = kEcho] = MakePayload(kEcho, m)
         /\ \A n : MakePayload(kind, m) = MakePayload(kind, n) <=> m = n
<1> DEFINE h == MakePayload(kind, m)
<1>1. h = [kind |-> kind, mode |-> m, channel |-> ChannelForMode(m)]
  BY DEF MakePayload
<1>2. h.kind = kind /\ h.mode = m /\ h.channel = ChannelForMode(m)
  BY <1>1
<1>3. ParseHeader(h)
  BY <1>2 DEF ParseHeader
<1>4. [h EXCEPT !.kind = kEcho] = MakePayload(kEcho, m)
  BY <1>1 DEF MakePayload
<1>5. ASSUME NEW n, h = MakePayload(kind, n) PROVE m = n
  <2>1. MakePayload(kind, n).mode = n
    BY DEF MakePayload
  <2> QED
    BY <1>2, <1>5, <2>1
<1> QED
  BY <1>2, <1>3, <1>4, <1>5

LEMMA Buckets ==
  /\ IsFiniteSet(Bucket)
  /\ \A m \in DeliveryMode : BucketForMode(m) \in Bucket
  /\ \A m, n \in DeliveryMode : BucketForMode(m) = BucketForMode(n) <=> m = n
  /\ OnceModes \subseteq DeliveryMode
<1>1. IsFiniteSet(Bucket)
  <2>1. 0 \in Int /\ 7 \in Int
    OBVIOUS
  <2> QED
    BY <2>1, FS_Interval, Zenon DEF Bucket
<1> QED
  BY <1>1 DEF Bucket, DeliveryMode, BucketForMode, OnceModes

\* What one more of a mode does to a counter of buckets.
CountedOne(f, h, n) ==
  /\ SumFunction(h) = SumFunction(f) + 1
  /\ \A m \in DeliveryMode :
       h[BucketForMode(m)] = f[BucketForMode(m)] + (IF m = n THEN 1 ELSE 0)

LEMMA OneMore ==
  ASSUME NEW f \in [Bucket -> Nat], NEW n \in DeliveryMode, NEW h,
         h = [f EXCEPT ![BucketForMode(n)] = @ + 1]
  PROVE  CountedOne(f, h, n)
<1>1. PICK b \in Bucket : b = BucketForMode(n)
  BY Buckets
<1>2. /\ f \in [Bucket -> Int] /\ h \in [Bucket -> Int]
      /\ h[b] = f[b] + 1 /\ f[b] \in Int
      /\ \A y \in Bucket : y # b => h[y] = f[y]
  BY <1>1
<1>3. SumFunction(h) = SumFunction(f) + (h[b] - f[b])
  <2>1. PICK k : k = h
    OBVIOUS
  <2>2. IsFiniteSet(Bucket) /\ k \in [Bucket -> Int] /\ f \in [Bucket -> Int]
    BY <1>2, <2>1, Buckets
  <2>3. \A y \in Bucket : y # b => k[y] = f[y]
    BY <1>2, <2>1
  <2>4. SumFunction(k) = SumFunction(f) + (k[b] - f[b])
    BY <2>2, <2>3, SumChanges
  <2> QED
    BY <2>1, <2>4
<1>4. SumFunction(f) \in Int
  BY <1>2, Buckets, SumIsANumber
<1>5. SumFunction(h) = SumFunction(f) + 1
  BY <1>2, <1>3, <1>4
<1>6. ASSUME NEW m \in DeliveryMode
      PROVE  h[BucketForMode(m)] = f[BucketForMode(m)] + (IF m = n THEN 1 ELSE 0)
  <2>1. PICK y \in Bucket : y = BucketForMode(m) /\ (y = b <=> m = n)
    BY <1>1, Buckets
  <2>2. f[y] \in Nat
    OBVIOUS
  <2> QED
    BY <1>2, <2>1, <2>2
<1> QED
  BY <1>5, <1>6 DEF CountedOne

LEMMA EchoedIsCounted ==
  ASSUME NEW stats \in Stats, NEW n \in DeliveryMode
  PROVE  /\ CountedOne(stats.echoed, NoteEchoed(stats, n).echoed, n)
         /\ NoteEchoed(stats, n).sent = stats.sent
         /\ NoteEchoed(stats, n).sendFailures = stats.sendFailures
         /\ NoteEchoed(stats, n).malformedPackets = stats.malformedPackets
<1>1. /\ NoteEchoed(stats, n).echoed = [stats.echoed EXCEPT ![BucketForMode(n)] = @ + 1]
      /\ NoteEchoed(stats, n).sent = stats.sent
      /\ NoteEchoed(stats, n).sendFailures = stats.sendFailures
      /\ NoteEchoed(stats, n).malformedPackets = stats.malformedPackets
  BY DEF NoteEchoed, Stats
<1>2. stats.echoed \in [Bucket -> Nat]
  BY DEF Stats
<1> QED
  BY <1>1, <1>2, OneMore

\* The result of sending one back: sent of its mode, or a failure.
Resulted(stats, after, n, sent) ==
  /\ after.echoed = stats.echoed
  /\ after.malformedPackets = stats.malformedPackets
  /\ SumFunction(after.sent) + after.sendFailures =
       SumFunction(stats.sent) + stats.sendFailures + 1
  /\ \A m \in DeliveryMode :
       after.sent[BucketForMode(m)] =
         stats.sent[BucketForMode(m)] + (IF sent /\ m = n THEN 1 ELSE 0)

LEMMA ResultIsCounted ==
  ASSUME NEW stats \in Stats, NEW n \in DeliveryMode, NEW sent \in BOOLEAN,
         NEW header, header.mode = n
  PROVE  Resulted(stats, NoteResult(stats, header, sent), n, sent)
<1>1. stats.sent \in [Bucket -> Nat] /\ stats.sendFailures \in Nat
  BY DEF Stats
<1>2. SumFunction(stats.sent) \in Int
  <2>1. stats.sent \in [Bucket -> Int]
    BY <1>1
  <2> QED
    BY <2>1, Buckets, SumIsANumber
<1>3. CASE sent
  <2>1. PICK s : s = NoteSent(stats, n)
    OBVIOUS
  <2>2. NoteResult(stats, header, sent) = s
    BY <1>3, <2>1 DEF NoteResult
  <2>3. /\ s.sent = [stats.sent EXCEPT ![BucketForMode(n)] = @ + 1]
        /\ s.echoed = stats.echoed
        /\ s.sendFailures = stats.sendFailures
        /\ s.malformedPackets = stats.malformedPackets
    BY <2>1 DEF NoteSent, Stats
  <2>4. CountedOne(stats.sent, s.sent, n)
    BY <1>1, <2>3, OneMore
  <2>5. SumFunction(s.sent) + s.sendFailures =
          SumFunction(stats.sent) + stats.sendFailures + 1
    BY <1>1, <1>2, <2>3, <2>4 DEF CountedOne
  <2>6. \A m \in DeliveryMode :
          s.sent[BucketForMode(m)] =
            stats.sent[BucketForMode(m)] + (IF sent /\ m = n THEN 1 ELSE 0)
    BY <1>3, <2>4 DEF CountedOne
  <2> QED
    BY <2>2, <2>3, <2>5, <2>6 DEF Resulted
<1>4. CASE ~sent
  <2>1. PICK s : s = NoteFailures(stats, 1)
    OBVIOUS
  <2>2. NoteResult(stats, header, sent) = s
    BY <1>4, <2>1 DEF NoteResult
  <2>3. /\ s.sent = stats.sent
        /\ s.echoed = stats.echoed
        /\ s.sendFailures = stats.sendFailures + 1
        /\ s.malformedPackets = stats.malformedPackets
    BY <2>1 DEF NoteFailures, Stats
  <2>4. ASSUME NEW m \in DeliveryMode PROVE stats.sent[BucketForMode(m)] \in Nat
    BY <1>1, Buckets
  <2> QED
    BY <1>1, <1>2, <1>4, <2>2, <2>3, <2>4 DEF Resulted
<1> QED
  BY <1>3, <1>4

-----------------------------------------------------------------------------
(* The invariant of the counters *)

\* Whatever is under way or in a shard's hands is what its sender made.
HeadersAreRight ==
  /\ \A c \in BenchClient :
       /\ \A h \in DOMAIN toServer[c] : \E m \in DeliveryMode : h = MakePayload(kData, m)
       /\ \A h \in DOMAIN toClient[c] : \E m \in DeliveryMode : h = MakePayload(kEcho, m)
       /\ echo[c] # NoEcho =>
            \E m \in DeliveryMode, sent \in BOOLEAN :
              echo[c] = [header |-> MakePayload(kData, m), sent |-> sent]
  /\ client_stats.malformedPackets = 0
  /\ server_stats.malformedPackets = 0

\* A client numbers what it sends or fails to send.
NumbersAddUp ==
  SumFunction(nextSequence) = SumFunction(client_stats.sent) + client_stats.sendFailures

\* Between the two counts of a payload the shard holds the lock.
EchoesAddUp ==
  SumFunction(server_stats.echoed) =
    SumFunction(server_stats.sent) + server_stats.sendFailures
      + (IF stats_mutex = Nobody THEN 0 ELSE 1)

\* The payloads of a mode on their way to being counted as received by the
\* server: under way, or in the hands of a shard.
Awaited(c, mode) ==
  Copies(MakePayload(kData, mode), toServer[c])
    + (IF echo[c] # NoEcho /\ c # stats_mutex /\ echo[c].header.mode = mode
       THEN 1 ELSE 0)

\* Those on their way back, less the one a shard has not counted yet.
Returning(c, mode) ==
  Copies(MakePayload(kEcho, mode), toClient[c])
    - (IF c \in SentUncounted(mode) THEN 1 ELSE 0)

ReceivedOnce(mode) ==
  server_stats.echoed[BucketForMode(mode)]
      + SumFunction([c \in BenchClient |-> Awaited(c, mode)])
    <= client_stats.sent[BucketForMode(mode)]

ReturnedOnce(mode) ==
  client_stats.echoed[BucketForMode(mode)]
      + SumFunction([c \in BenchClient |-> Returning(c, mode)])
    <= server_stats.sent[BucketForMode(mode)]

Counters ==
  /\ HeadersAreRight
  /\ NumbersAddUp
  /\ EchoesAddUp
  /\ \A mode \in OnceModes : ReceivedOnce(mode) /\ ReturnedOnce(mode)

LEMMA CountsAreNumbers ==
  ASSUME BenchTypes, BenchTypes', NEW c \in BenchClient, NEW mode
  PROVE  /\ Awaited(c, mode) \in Int /\ Returning(c, mode) \in Int
         /\ Awaited(c, mode)' \in Int /\ Returning(c, mode)' \in Int
<1>1. /\ IsABag(toServer[c]) /\ IsABag(toClient[c])
      /\ IsABag(toServer'[c]) /\ IsABag(toClient'[c])
  BY DEF BenchTypes, BenchTypeOK
<1>2. /\ Copies(MakePayload(kData, mode), toServer[c]) \in Nat
      /\ Copies(MakePayload(kEcho, mode), toClient[c]) \in Nat
      /\ Copies(MakePayload(kData, mode), toServer'[c]) \in Nat
      /\ Copies(MakePayload(kEcho, mode), toClient'[c]) \in Nat
  BY <1>1, CopiesAreNumbers
<1> QED
  BY <1>2 DEF Awaited, Returning

LEMMA BucketsAreNumbers ==
  ASSUME BenchTypes, BenchTypes', NEW mode \in DeliveryMode
  PROVE  /\ client_stats.sent[BucketForMode(mode)] \in Nat
         /\ client_stats.echoed[BucketForMode(mode)] \in Nat
         /\ server_stats.sent[BucketForMode(mode)] \in Nat
         /\ server_stats.echoed[BucketForMode(mode)] \in Nat
         /\ client_stats'.sent[BucketForMode(mode)] \in Nat
         /\ client_stats'.echoed[BucketForMode(mode)] \in Nat
         /\ server_stats'.sent[BucketForMode(mode)] \in Nat
         /\ server_stats'.echoed[BucketForMode(mode)] \in Nat
<1>1. PICK b \in Bucket : b = BucketForMode(mode)
  BY Buckets
<1> QED
  BY <1>1 DEF BenchTypes, BenchTypeOK, Stats

LEMMA FourBuckets ==
  ASSUME BenchTypes, BenchTypes', NEW mode \in DeliveryMode
  PROVE  \E p, q, r, s \in Int : /\ p = client_stats.sent[BucketForMode(mode)]
                                 /\ q = client_stats.echoed[BucketForMode(mode)]
                                 /\ r = server_stats.sent[BucketForMode(mode)]
                                 /\ s = server_stats.echoed[BucketForMode(mode)]
<1>1. /\ client_stats.sent[BucketForMode(mode)] \in Int
      /\ client_stats.echoed[BucketForMode(mode)] \in Int
      /\ server_stats.sent[BucketForMode(mode)] \in Int
      /\ server_stats.echoed[BucketForMode(mode)] \in Int
  BY BucketsAreNumbers
<1> QED
  BY <1>1, Zenon

\* Of what a step changes for one client, the balance of that client decides.
LEMMA ReceivedByOne ==
  ASSUME BenchTypes, BenchTypes', NEW mode \in OnceModes, ReceivedOnce(mode),
         NEW c \in BenchClient,
         \A d \in BenchClient : d # c => Awaited(d, mode)' = Awaited(d, mode),
         server_stats'.echoed[BucketForMode(mode)] + Awaited(c, mode)'
             - client_stats'.sent[BucketForMode(mode)]
           <= server_stats.echoed[BucketForMode(mode)] + Awaited(c, mode)
                - client_stats.sent[BucketForMode(mode)]
  PROVE  ReceivedOnce(mode)'
<1>1. PICK f : f = [d \in BenchClient |-> Awaited(d, mode)]
  OBVIOUS
<1>2. PICK h : h = [d \in BenchClient |-> Awaited(d, mode)']
  OBVIOUS
<1>3. f \in [BenchClient -> Int] /\ h \in [BenchClient -> Int]
  <2>1. \A d \in BenchClient : Awaited(d, mode) \in Int
    BY CountsAreNumbers
  <2>2. \A d \in BenchClient : Awaited(d, mode)' \in Int
    BY CountsAreNumbers
  <2> QED
    BY <1>1, <1>2, <2>1, <2>2
<1>4. PICK a, s \in Int : /\ a = server_stats.echoed[BucketForMode(mode)]
                          /\ s = client_stats.sent[BucketForMode(mode)]
  BY Buckets, BucketsAreNumbers
<1>5. PICK b, t \in Int : /\ b = server_stats'.echoed[BucketForMode(mode)]
                          /\ t = client_stats'.sent[BucketForMode(mode)]
  <2>1. mode \in DeliveryMode
    BY Buckets
  <2>2. /\ server_stats'.echoed[BucketForMode(mode)] \in Nat
        /\ client_stats'.sent[BucketForMode(mode)] \in Nat
    BY <2>1, BucketsAreNumbers
  <2> QED
    BY <2>2
<1>6. a + SumFunction(f) <= s
  BY <1>1, <1>4 DEF ReceivedOnce
<1>7. /\ \A y \in BenchClient : y # c => h[y] = f[y]
      /\ b + h[c] - t <= a + f[c] - s
  BY <1>1, <1>2, <1>4, <1>5
<1>8. b + SumFunction(h) <= t
  <2>1. IsFiniteSet(BenchClient)
    BY BenchAssumption
  <2> QED
    BY <1>3, <1>6, <1>7, <2>1, OneChange
<1> QED
  BY <1>2, <1>5, <1>8 DEF ReceivedOnce

LEMMA ReturnedToOne ==
  ASSUME BenchTypes, BenchTypes', NEW mode \in OnceModes, ReturnedOnce(mode),
         NEW c \in BenchClient,
         \A d \in BenchClient : d # c => Returning(d, mode)' = Returning(d, mode),
         client_stats'.echoed[BucketForMode(mode)] + Returning(c, mode)'
             - server_stats'.sent[BucketForMode(mode)]
           <= client_stats.echoed[BucketForMode(mode)] + Returning(c, mode)
                - server_stats.sent[BucketForMode(mode)]
  PROVE  ReturnedOnce(mode)'
<1>1. PICK f : f = [d \in BenchClient |-> Returning(d, mode)]
  OBVIOUS
<1>2. PICK h : h = [d \in BenchClient |-> Returning(d, mode)']
  OBVIOUS
<1>3. f \in [BenchClient -> Int] /\ h \in [BenchClient -> Int]
  <2>1. \A d \in BenchClient : Returning(d, mode) \in Int
    BY CountsAreNumbers
  <2>2. \A d \in BenchClient : Returning(d, mode)' \in Int
    BY CountsAreNumbers
  <2> QED
    BY <1>1, <1>2, <2>1, <2>2
<1>4. PICK a, s \in Int : /\ a = client_stats.echoed[BucketForMode(mode)]
                          /\ s = server_stats.sent[BucketForMode(mode)]
  BY Buckets, BucketsAreNumbers
<1>5. PICK b, t \in Int : /\ b = client_stats'.echoed[BucketForMode(mode)]
                          /\ t = server_stats'.sent[BucketForMode(mode)]
  <2>1. mode \in DeliveryMode
    BY Buckets
  <2>2. /\ client_stats'.echoed[BucketForMode(mode)] \in Nat
        /\ server_stats'.sent[BucketForMode(mode)] \in Nat
    BY <2>1, BucketsAreNumbers
  <2> QED
    BY <2>2
<1>6. a + SumFunction(f) <= s
  BY <1>1, <1>4 DEF ReturnedOnce
<1>7. /\ \A y \in BenchClient : y # c => h[y] = f[y]
      /\ b + h[c] - t <= a + f[c] - s
  BY <1>1, <1>2, <1>4, <1>5
<1>8. b + SumFunction(h) <= t
  <2>1. IsFiniteSet(BenchClient)
    BY BenchAssumption
  <2> QED
    BY <1>3, <1>6, <1>7, <2>1, OneChange
<1> QED
  BY <1>2, <1>5, <1>8 DEF ReturnedOnce

-----------------------------------------------------------------------------
(* Steps that keep the counters in balance *)

\* What Counters speaks of.
WhatIsCounted == <<nextSequence, client_stats, counting, toServer, toClient>>

LEMMA QuietKeepsCounters ==
  ASSUME Counters, UNCHANGED WhatIsCounted
  PROVE  Counters'
<1>1. /\ nextSequence' = nextSequence /\ client_stats' = client_stats
      /\ server_stats' = server_stats /\ stats_mutex' = stats_mutex /\ echo' = echo
      /\ toServer' = toServer /\ toClient' = toClient
  BY DEF WhatIsCounted, counting
<1>2. HeadersAreRight' /\ NumbersAddUp' /\ EchoesAddUp'
  BY <1>1 DEF Counters, HeadersAreRight, NumbersAddUp, EchoesAddUp
<1>3. ASSUME NEW mode \in OnceModes PROVE ReceivedOnce(mode)' /\ ReturnedOnce(mode)'
  BY <1>1 DEF Counters, ReceivedOnce, ReturnedOnce, Awaited, Returning, SentUncounted
<1> QED
  BY <1>2, <1>3 DEF Counters

LEMMA ReceiveKeepsCounters ==
  ASSUME BenchTypes, BenchTypes', Counters, NEW c \in BenchClient,
         NEW header \in BagToSet(toClient[c]), Receive(c, header)
  PROVE  Counters'
<1>1. UNCHANGED <<nextSequence, server_stats, stats_mutex, echo, toServer>>
  BY DEF Receive, sends, counting
<1>2. PICK n \in DeliveryMode : header = MakePayload(kEcho, n)
  BY DEF Counters, HeadersAreRight, BagToSet
<1>3. /\ header.kind = kEcho /\ header.mode = n /\ ParseHeader(header)
      /\ \A m : MakePayload(kEcho, m) = header <=> m = n
  BY <1>2, PayloadIsKnown
<1>4. client_stats' = NoteEchoed(client_stats, n) /\ client_stats \in Stats
  BY <1>3 DEF Receive, BenchTypes, BenchTypeOK
<1>5. /\ CountedOne(client_stats.echoed, client_stats'.echoed, n)
      /\ client_stats'.sent = client_stats.sent
      /\ client_stats'.sendFailures = client_stats.sendFailures
      /\ client_stats'.malformedPackets = client_stats.malformedPackets
  BY <1>4, EchoedIsCounted
<1>6. /\ toClient'[c] = Arrived(toClient[c], header)
      /\ \A d \in BenchClient : d # c => toClient'[d] = toClient[d]
  BY DEF Receive, BenchTypes
<1>7. IsABag(toClient[c]) /\ header \in DOMAIN toClient[c]
  BY DEF BenchTypes, BenchTypeOK, BagToSet
<1>8. HeadersAreRight'
  <2>1. DOMAIN toClient'[c] \subseteq DOMAIN toClient[c]
    BY <1>6, <1>7, CopyArrived
  <2>2. \A d \in BenchClient : DOMAIN toClient'[d] \subseteq DOMAIN toClient[d]
    BY <1>6, <2>1
  <2> QED
    BY <1>1, <1>5, <2>2 DEF Counters, HeadersAreRight
<1>9. NumbersAddUp' /\ EchoesAddUp'
  BY <1>1, <1>5 DEF Counters, NumbersAddUp, EchoesAddUp
<1>10. ASSUME NEW mode \in OnceModes PROVE ReceivedOnce(mode)'
  BY <1>1, <1>5 DEF Counters, ReceivedOnce, Awaited
<1>11. ASSUME NEW mode \in OnceModes PROVE ReturnedOnce(mode)'
  <2>1. mode \in DeliveryMode
    BY Buckets
  <2> DEFINE one == IF mode = n THEN 1 ELSE 0
             g == MakePayload(kEcho, mode)
  <2>2. Copies(g, toClient'[c]) = Copies(g, toClient[c]) - one
    <3>1. (g = header /\ header.mode \in OnceModes) <=> mode = n
      BY <1>3
    <3>2. Copies(g, Arrived(toClient[c], header)) =
            Copies(g, toClient[c])
              - (IF g = header /\ header.mode \in OnceModes THEN 1 ELSE 0)
      BY <1>7, CopyArrived
    <3> QED
      BY <1>6, <3>1, <3>2
  <2>3. Copies(g, toClient[c]) \in Nat
    BY <1>7, CopiesAreNumbers
  <2>4. Returning(c, mode)' = Returning(c, mode) - one
    BY <1>1, <2>2, <2>3 DEF Returning, SentUncounted
  <2>5. client_stats'.echoed[BucketForMode(mode)] =
          client_stats.echoed[BucketForMode(mode)] + one
    BY <1>5, <2>1 DEF CountedOne
  <2>6. \A d \in BenchClient : d # c => Returning(d, mode)' = Returning(d, mode)
    BY <1>1, <1>6 DEF Returning, SentUncounted
  <2>7. Returning(c, mode) \in Int /\ client_stats.echoed[BucketForMode(mode)] \in Int
          /\ server_stats.sent[BucketForMode(mode)] \in Int /\ one \in Int
    BY <2>1, CountsAreNumbers, BucketsAreNumbers
  <2>8. client_stats'.echoed[BucketForMode(mode)] + Returning(c, mode)'
             - server_stats'.sent[BucketForMode(mode)]
           <= client_stats.echoed[BucketForMode(mode)] + Returning(c, mode)
                - server_stats.sent[BucketForMode(mode)]
    <3> HIDE DEF one
    <3> QED
      BY <1>1, <2>4, <2>5, <2>7
  <2> QED
    BY <2>6, <2>8, ReturnedToOne DEF Counters
<1> QED
  BY <1>8, <1>9, <1>10, <1>11 DEF Counters

\* A connection that is opened or lost takes payloads from under way.
LEMMA EmptyingKeepsCounters ==
  ASSUME BenchTypes, BenchTypes', Counters, NEW c \in BenchClient,
         UNCHANGED <<nextSequence, client_stats, counting>>,
         toServer' \in {toServer, [toServer EXCEPT ![c] = EmptyBag]},
         toClient' = [toClient EXCEPT ![c] = EmptyBag]
  PROVE  Counters'
<1>1. UNCHANGED <<nextSequence, client_stats, server_stats, stats_mutex, echo>>
  BY DEF counting
<1>2. /\ \A d \in BenchClient : d # c => toServer'[d] = toServer[d] /\ toClient'[d] = toClient[d]
      /\ toClient'[c] = EmptyBag /\ toServer'[c] \in {toServer[c], EmptyBag}
  BY DEF BenchTypes
<1>3. IsABag(toClient[c]) /\ IsABag(toServer[c])
  BY DEF BenchTypes, BenchTypeOK
<1>4. HeadersAreRight'
  <2>1. \A d \in BenchClient : /\ DOMAIN toServer'[d] \subseteq DOMAIN toServer[d]
                               /\ DOMAIN toClient'[d] \subseteq DOMAIN toClient[d]
    BY <1>2, NoCopies
  <2> QED
    BY <1>1, <2>1 DEF Counters, HeadersAreRight
<1>5. NumbersAddUp' /\ EchoesAddUp'
  BY <1>1 DEF Counters, NumbersAddUp, EchoesAddUp
<1>6. ASSUME NEW mode \in OnceModes PROVE ReceivedOnce(mode)' /\ ReturnedOnce(mode)'
  <2>1. mode \in DeliveryMode
    BY Buckets
  <2>2. \A d \in BenchClient : d # c => /\ Awaited(d, mode)' = Awaited(d, mode)
                                        /\ Returning(d, mode)' = Returning(d, mode)
    BY <1>1, <1>2 DEF Awaited, Returning, SentUncounted
  <2>3. Awaited(c, mode)' <= Awaited(c, mode)
    <3>1. PICK x \in Nat, y \in Nat :
            /\ x = Copies(MakePayload(kData, mode), toServer[c])
            /\ y = Copies(MakePayload(kData, mode), toServer'[c])
            /\ y <= x
      BY <1>2, <1>3, CopiesAreNumbers, NoCopies
    <3> QED
      BY <1>1, <3>1 DEF Awaited
  <2>4. Returning(c, mode)' <= Returning(c, mode)
    <3>1. PICK x \in Nat : x = Copies(MakePayload(kEcho, mode), toClient[c])
      BY <1>3, CopiesAreNumbers
    <3>2. Copies(MakePayload(kEcho, mode), toClient'[c]) = 0
      BY <1>2, NoCopies
    <3> QED
      BY <1>1, <3>1, <3>2 DEF Returning, SentUncounted
  <2>5. PICK x, y, v, w \in Int : /\ x = Awaited(c, mode) /\ y = Awaited(c, mode)'
                                  /\ v = Returning(c, mode) /\ w = Returning(c, mode)'
    <3>1. Awaited(c, mode) \in Int /\ Returning(c, mode) \in Int
      BY CountsAreNumbers
    <3>2. Awaited(c, mode)' \in Int /\ Returning(c, mode)' \in Int
      BY CountsAreNumbers
    <3> QED
      BY <3>1, <3>2
  <2>6. PICK p, q, r, s \in Int : /\ p = client_stats.sent[BucketForMode(mode)]
                                  /\ q = client_stats.echoed[BucketForMode(mode)]
                                  /\ r = server_stats.sent[BucketForMode(mode)]
                                  /\ s = server_stats.echoed[BucketForMode(mode)]
    BY <2>1, FourBuckets
  <2>7. s + y - p <= s + x - p /\ q + w - r <= q + v - r
    BY <2>3, <2>4, <2>5
  <2>8. ReceivedOnce(mode)'
    BY <1>1, <2>2, <2>5, <2>6, <2>7, ReceivedByOne DEF Counters
  <2>9. ReturnedOnce(mode)'
    BY <1>1, <2>2, <2>5, <2>6, <2>7, ReturnedToOne DEF Counters
  <2> QED
    BY <2>8, <2>9
<1> QED
  BY <1>4, <1>5, <1>6 DEF Counters

\* Of the payloads of mode n to the server there is one less from c, if it
\* arrives once.
Taken(c, n) ==
  /\ \A d \in BenchClient : DOMAIN toServer'[d] \subseteq DOMAIN toServer[d]
  /\ \A d \in BenchClient, mode \in OnceModes :
       Copies(MakePayload(kData, mode), toServer'[d]) =
         Copies(MakePayload(kData, mode), toServer[d])
           - (IF d = c /\ mode = n THEN 1 ELSE 0)

LEMMA PayloadIsTaken ==
  ASSUME BenchTypes, HeadersAreRight, NEW c \in BenchClient,
         NEW header \in BagToSet(toServer[c]), Arrives(c, header)
  PROVE  \E n \in DeliveryMode : header = MakePayload(kData, n) /\ Taken(c, n)
<1>1. PICK n \in DeliveryMode : header = MakePayload(kData, n)
  BY DEF HeadersAreRight, BagToSet
<1>2. /\ header.mode = n
      /\ \A m : MakePayload(kData, m) = header <=> m = n
  BY <1>1, PayloadIsKnown
<1>3. /\ toServer'[c] = Arrived(toServer[c], header)
      /\ \A d \in BenchClient : d # c => toServer'[d] = toServer[d]
  BY DEF Arrives, BenchTypes
<1>4. /\ \A d \in BenchClient : IsABag(toServer[d])
      /\ header \in DOMAIN toServer[c]
  BY DEF BenchTypes, BenchTypeOK, BagToSet
<1>5. DOMAIN toServer'[c] \subseteq DOMAIN toServer[c]
  BY <1>3, <1>4, CopyArrived
<1>6. \A d \in BenchClient : DOMAIN toServer'[d] \subseteq DOMAIN toServer[d]
  BY <1>3, <1>5
<1>7. ASSUME NEW d \in BenchClient, NEW mode \in OnceModes
      PROVE  Copies(MakePayload(kData, mode), toServer'[d]) =
               Copies(MakePayload(kData, mode), toServer[d])
                 - (IF d = c /\ mode = n THEN 1 ELSE 0)
  <2> DEFINE g == MakePayload(kData, mode)
  <2>1. CASE d = c
    <3>1. (g = header /\ header.mode \in OnceModes) <=> mode = n
      BY <1>2
    <3>2. Copies(g, Arrived(toServer[c], header)) =
            Copies(g, toServer[c])
              - (IF g = header /\ header.mode \in OnceModes THEN 1 ELSE 0)
      BY <1>4, CopyArrived
    <3> QED
      BY <1>3, <2>1, <3>1, <3>2
  <2>2. CASE d # c
    <3>1. Copies(g, toServer[d]) \in Nat
      BY <1>4, CopiesAreNumbers
    <3> QED
      BY <1>3, <2>2, <3>1
  <2> QED
    BY <2>1, <2>2
<1>8. Taken(c, n)
  BY <1>6, <1>7 DEF Taken
<1> QED
  BY <1>1, <1>8

\* At most the echo of a payload of mode n is under way to c that was not.
SentBack(c, n, sent) ==
  /\ \A d \in BenchClient : d # c => toClient'[d] = toClient[d]
  /\ DOMAIN toClient'[c] \subseteq DOMAIN toClient[c] \cup {MakePayload(kEcho, n)}
  /\ \A mode \in DeliveryMode :
       Copies(MakePayload(kEcho, mode), toClient'[c]) <=
         Copies(MakePayload(kEcho, mode), toClient[c])
           + (IF sent /\ mode = n THEN 1 ELSE 0)

LEMMA EchoIsSentBack ==
  ASSUME BenchTypes, NEW c \in BenchClient, NEW n \in DeliveryMode, NEW sent \in BOOLEAN,
         SendEcho(c, MakePayload(kData, n), sent)
  PROVE  SentBack(c, n, sent)
<1> DEFINE echoed == MakePayload(kEcho, n)
<1>1. [MakePayload(kData, n) EXCEPT !.kind = kEcho] = echoed
  BY PayloadIsKnown
<1>2. toClient' = IF sent /\ c \in connected
                  THEN [toClient EXCEPT ![c] = @ (+) SetToBag({echoed})]
                  ELSE toClient
  BY <1>1 DEF SendEcho
<1>3. \A d \in BenchClient : d # c => toClient'[d] = toClient[d]
  BY <1>2 DEF BenchTypes
<1>4. IsABag(toClient[c])
  BY DEF BenchTypes, BenchTypeOK
<1>5. ASSUME NEW mode \in DeliveryMode
      PROVE  /\ Copies(MakePayload(kEcho, mode), toClient[c]) \in Nat
             /\ MakePayload(kEcho, mode) = echoed <=> mode = n
  BY <1>4, CopiesAreNumbers, PayloadIsKnown
<1>6. CASE sent /\ c \in connected
  <2>1. toClient'[c] = toClient[c] (+) SetToBag({echoed})
    BY <1>2, <1>6 DEF BenchTypes
  <2>2. ASSUME NEW g
        PROVE  /\ Copies(g, toClient'[c]) =
                    Copies(g, toClient[c]) + (IF g = echoed THEN 1 ELSE 0)
               /\ DOMAIN toClient'[c] = DOMAIN toClient[c] \cup {echoed}
    <3>1. PICK e, B : e = echoed /\ B = toClient[c]
      OBVIOUS
    <3>2. /\ Copies(g, B (+) SetToBag({e})) = Copies(g, B) + (IF g = e THEN 1 ELSE 0)
          /\ DOMAIN (B (+) SetToBag({e})) = DOMAIN B \cup {e}
      BY <1>4, <3>1, CopyAdded
    <3> QED
      BY <2>1, <3>1, <3>2
  <2>3. \A mode \in DeliveryMode :
          Copies(MakePayload(kEcho, mode), toClient'[c]) =
            Copies(MakePayload(kEcho, mode), toClient[c])
              + (IF sent /\ mode = n THEN 1 ELSE 0)
    BY <1>5, <1>6, <2>2
  <2> QED
    BY <1>3, <1>5, <2>2, <2>3 DEF SentBack
<1>7. CASE ~(sent /\ c \in connected)
  <2>1. toClient'[c] = toClient[c]
    BY <1>2, <1>7
  <2> QED
    BY <1>3, <1>5, <2>1 DEF SentBack
<1> QED
  BY <1>6, <1>7

LEMMA SumsAreNumbers ==
  ASSUME BenchTypes, BenchTypes'
  PROVE  /\ SumFunction(server_stats.echoed) \in Int
         /\ SumFunction(server_stats.sent) \in Int
         /\ SumFunction(client_stats.sent) \in Int
         /\ server_stats.sendFailures \in Int
         /\ client_stats.sendFailures \in Int
         /\ SumFunction(server_stats'.sent) \in Int
         /\ server_stats'.sendFailures \in Int
<1>1. /\ server_stats.echoed \in [Bucket -> Int]
      /\ server_stats.sent \in [Bucket -> Int]
      /\ client_stats.sent \in [Bucket -> Int]
      /\ server_stats.sendFailures \in Int
      /\ client_stats.sendFailures \in Int
      /\ server_stats'.sent \in [Bucket -> Int]
      /\ server_stats'.sendFailures \in Int
  BY DEF BenchTypes, BenchTypeOK, Stats
<1> QED
  BY <1>1, Buckets, SumIsANumber

\* The server of one thread receives, sends back and counts in one step.
LEMMA PacketKeepsCounters ==
  ASSUME BenchTypes, BenchTypes', Counters, NEW c \in BenchClient,
         NEW header \in BagToSet(toServer[c]), NEW sent \in BOOLEAN,
         PacketCallback(c, header, sent)
  PROVE  Counters'
<1>1. UNCHANGED <<nextSequence, client_stats, stats_mutex, echo>>
  BY DEF PacketCallback, bench, sends
<1>2. PICK n \in DeliveryMode : header = MakePayload(kData, n) /\ Taken(c, n)
  BY PayloadIsTaken DEF PacketCallback, Counters
<1>3. ParseHeader(header) /\ header.mode = n
  BY <1>2, PayloadIsKnown
<1>4. server_stats \in Stats
  BY DEF BenchTypes, BenchTypeOK
<1>5. PICK s : s = NoteEchoed(server_stats, n)
  OBVIOUS
<1>6. server_stats' = NoteResult(s, header, sent)
  BY <1>3, <1>5 DEF PacketCallback
<1>7. s \in Stats
  BY <1>4, <1>5, StatsNoted
<1>8. /\ CountedOne(server_stats.echoed, s.echoed, n)
      /\ s.sent = server_stats.sent
      /\ s.sendFailures = server_stats.sendFailures
      /\ s.malformedPackets = server_stats.malformedPackets
  BY <1>4, <1>5, EchoedIsCounted
<1>9. Resulted(s, server_stats', n, sent)
  BY <1>3, <1>6, <1>7, ResultIsCounted
<1>10. SentBack(c, n, sent)
  BY <1>2, <1>3, EchoIsSentBack DEF PacketCallback
<1>11. HeadersAreRight'
  BY <1>1, <1>2, <1>8, <1>9, <1>10
     DEF Counters, HeadersAreRight, Taken, SentBack, Resulted
<1>12. NumbersAddUp'
  BY <1>1 DEF Counters, NumbersAddUp
<1>13. EchoesAddUp'
  <2>1. /\ SumFunction(server_stats'.echoed) = SumFunction(server_stats.echoed) + 1
        /\ SumFunction(server_stats'.sent) + server_stats'.sendFailures =
             SumFunction(server_stats.sent) + server_stats.sendFailures + 1
    BY <1>8, <1>9 DEF CountedOne, Resulted
  <2>2. PICK e, t, f \in Int : /\ e = SumFunction(server_stats.echoed)
                               /\ t = SumFunction(server_stats.sent)
                               /\ f = server_stats.sendFailures
    BY SumsAreNumbers
  <2>3. PICK u, g \in Int : /\ u = SumFunction(server_stats'.sent)
                            /\ g = server_stats'.sendFailures
    <3>1. SumFunction(server_stats'.sent) \in Int /\ server_stats'.sendFailures \in Int
      BY SumsAreNumbers
    <3> QED
      BY <3>1
  <2>4. PICK k \in Int : k = IF stats_mutex = Nobody THEN 0 ELSE 1
    OBVIOUS
  <2>5. e = t + f + k
    BY <2>2, <2>4 DEF Counters, EchoesAddUp
  <2>6. e + 1 = u + g + k
    BY <2>1, <2>2, <2>3, <2>5
  <2> QED
    BY <1>1, <2>1, <2>2, <2>3, <2>4, <2>6 DEF EchoesAddUp
<1>14. ASSUME NEW mode \in OnceModes PROVE ReceivedOnce(mode)' /\ ReturnedOnce(mode)'
  <2>1. mode \in DeliveryMode
    BY Buckets
  <2>2. PICK one \in Int : one = IF mode = n THEN 1 ELSE 0
    OBVIOUS
  <2>3. PICK back \in Int : back = IF sent /\ mode = n THEN 1 ELSE 0
    OBVIOUS
  <2>4. /\ IsABag(toServer[c]) /\ IsABag(toClient[c])
        /\ Copies(MakePayload(kData, mode), toServer[c]) \in Nat
        /\ Copies(MakePayload(kEcho, mode), toClient[c]) \in Nat
    BY CopiesAreNumbers DEF BenchTypes, BenchTypeOK
  <2>5. Awaited(c, mode)' = Awaited(c, mode) - one
    BY <1>1, <1>2, <2>2, <2>4 DEF Taken, Awaited
  <2>6. \A d \in BenchClient : d # c => Awaited(d, mode)' = Awaited(d, mode)
    <3>1. ASSUME NEW d \in BenchClient, d # c
          PROVE  Copies(MakePayload(kData, mode), toServer'[d]) =
                   Copies(MakePayload(kData, mode), toServer[d])
      <4>1. Copies(MakePayload(kData, mode), toServer[d]) \in Nat
        BY CopiesAreNumbers DEF BenchTypes, BenchTypeOK
      <4> QED
        BY <1>2, <3>1, <4>1 DEF Taken
    <3> QED
      BY <1>1, <3>1 DEF Awaited
  <2>7. \A d \in BenchClient : d # c => Returning(d, mode)' = Returning(d, mode)
    BY <1>1, <1>10 DEF SentBack, Returning, SentUncounted
  <2>8. Returning(c, mode)' <= Returning(c, mode) + back
    <3>1. Copies(MakePayload(kEcho, mode), toClient'[c]) <=
            Copies(MakePayload(kEcho, mode), toClient[c]) + back
      BY <1>10, <2>1, <2>3 DEF SentBack
    <3>2. Copies(MakePayload(kEcho, mode), toClient'[c]) \in Nat
      <4>1. IsABag(toClient'[c])
        BY DEF BenchTypes, BenchTypeOK
      <4> QED
        BY <4>1, CopiesAreNumbers
    <3>3. c \in SentUncounted(mode)' <=> c \in SentUncounted(mode)
      BY <1>1 DEF SentUncounted
    <3> QED
      BY <2>4, <3>1, <3>2, <3>3 DEF Returning
  <2>9. /\ server_stats'.echoed[BucketForMode(mode)] =
             server_stats.echoed[BucketForMode(mode)] + one
        /\ server_stats'.sent[BucketForMode(mode)] =
             server_stats.sent[BucketForMode(mode)] + back
    BY <1>8, <1>9, <2>1, <2>2, <2>3 DEF CountedOne, Resulted
  <2>10. PICK x, y, v, w \in Int : /\ x = Awaited(c, mode) /\ y = Awaited(c, mode)'
                                   /\ v = Returning(c, mode) /\ w = Returning(c, mode)'
    <3>1. Awaited(c, mode) \in Int /\ Returning(c, mode) \in Int
      BY CountsAreNumbers
    <3>2. Awaited(c, mode)' \in Int /\ Returning(c, mode)' \in Int
      BY CountsAreNumbers
    <3> QED
      BY <3>1, <3>2
  <2>11. PICK p, q, r, s1 \in Int : /\ p = client_stats.sent[BucketForMode(mode)]
                                    /\ q = client_stats.echoed[BucketForMode(mode)]
                                    /\ r = server_stats.sent[BucketForMode(mode)]
                                    /\ s1 = server_stats.echoed[BucketForMode(mode)]
    BY <2>1, FourBuckets
  <2>12. (s1 + one) + y - p <= s1 + x - p /\ q + w - (r + back) <= q + v - r
    <3>1. y = x - one /\ w <= v + back
      BY <2>5, <2>8, <2>10, Zenon
    <3> QED
      BY <3>1
  <2>13. ReceivedOnce(mode)'
    BY <1>1, <2>6, <2>9, <2>10, <2>11, <2>12, ReceivedByOne DEF Counters
  <2>14. ReturnedOnce(mode)'
    BY <1>1, <2>7, <2>9, <2>10, <2>11, <2>12, ReturnedToOne DEF Counters
  <2> QED
    BY <2>13, <2>14
<1> QED
  BY <1>11, <1>12, <1>13, <1>14 DEF Counters

LEMMA EchoIsSomething ==
  ASSUME NEW header, NEW sent
  PROVE  [header |-> header, sent |-> sent] # NoEcho
<1>1. "sent" \in DOMAIN [header |-> header, sent |-> sent]
  OBVIOUS
<1>2. "sent" \notin DOMAIN NoEcho
  BY DEF NoEcho
<1> QED
  BY <1>1, <1>2

\* A shard takes a payload in hand and sends it back; it counts neither yet.
LEMMA ShardKeepsCounters ==
  ASSUME BenchTypes, BenchTypes', Counters, NEW c \in BenchClient,
         NEW header \in BagToSet(toServer[c]), NEW sent \in BOOLEAN,
         ShardCallback(c, header, sent)
  PROVE  Counters'
<1>1. UNCHANGED <<nextSequence, client_stats, stats_mutex>>
  BY DEF ShardCallback, bench, sends
<1>2. PICK n \in DeliveryMode : header = MakePayload(kData, n) /\ Taken(c, n)
  BY PayloadIsTaken DEF ShardCallback, Counters
<1>3. ParseHeader(header) /\ header.mode = n
  BY <1>2, PayloadIsKnown
<1>4. server_stats' = server_stats /\ echo[c] = NoEcho
  BY <1>3 DEF ShardCallback
<1>5. /\ echo'[c] = [header |-> MakePayload(kData, n), sent |-> sent]
      /\ \A d \in BenchClient : d # c => echo'[d] = echo[d]
  BY <1>2, <1>3 DEF ShardCallback, BenchTypes
<1>6. echo'[c] # NoEcho /\ echo'[c].header.mode = n /\ echo'[c].sent = sent
  BY <1>2, <1>3, <1>5, EchoIsSomething
<1>7. SentBack(c, n, sent)
  BY <1>2, <1>3, EchoIsSentBack DEF ShardCallback
<1>8. HeadersAreRight'
  BY <1>1, <1>2, <1>4, <1>5, <1>7 DEF Counters, HeadersAreRight, Taken, SentBack
<1>9. NumbersAddUp' /\ EchoesAddUp'
  BY <1>1, <1>4 DEF Counters, NumbersAddUp, EchoesAddUp
<1>10. ASSUME NEW mode \in OnceModes PROVE ReceivedOnce(mode)' /\ ReturnedOnce(mode)'
  <2>1. mode \in DeliveryMode
    BY Buckets
  <2>2. PICK one \in Int : one = IF mode = n THEN 1 ELSE 0
    OBVIOUS
  <2>3. PICK back \in Int : back = IF sent /\ mode = n THEN 1 ELSE 0
    OBVIOUS
  <2>4. PICK x, y \in Int : /\ x = Copies(MakePayload(kData, mode), toServer[c])
                            /\ y = Copies(MakePayload(kEcho, mode), toClient[c])
    <3>1. IsABag(toServer[c]) /\ IsABag(toClient[c])
      BY DEF BenchTypes, BenchTypeOK
    <3> QED
      BY <3>1, CopiesAreNumbers
  <2>5. PICK w \in Int : w = Copies(MakePayload(kEcho, mode), toClient'[c])
    <3>1. IsABag(toClient'[c])
      BY DEF BenchTypes, BenchTypeOK
    <3> QED
      BY <3>1, CopiesAreNumbers
  <2>6. Awaited(c, mode) = x
    BY <1>4, <2>4 DEF Awaited
  <2>7. Awaited(c, mode)' <= x
    <3>1. Copies(MakePayload(kData, mode), toServer'[c]) = x - one
      BY <1>2, <2>2, <2>4 DEF Taken
    <3> QED
      BY <1>6, <2>2, <3>1 DEF Awaited
  <2>8. Returning(c, mode) = y
    BY <1>4, <2>4 DEF Returning, SentUncounted
  <2>9. Returning(c, mode)' = w - back
    <3>1. c \in SentUncounted(mode)' <=> sent /\ mode = n
      BY <1>6 DEF SentUncounted
    <3> QED
      BY <2>3, <2>5, <3>1 DEF Returning
  <2>10. w - back <= y
    BY <1>7, <2>1, <2>3, <2>4, <2>5 DEF SentBack
  <2>11. \A d \in BenchClient : d # c => Awaited(d, mode)' = Awaited(d, mode)
    <3>1. ASSUME NEW d \in BenchClient, d # c
          PROVE  Copies(MakePayload(kData, mode), toServer'[d]) =
                   Copies(MakePayload(kData, mode), toServer[d])
      <4>1. Copies(MakePayload(kData, mode), toServer[d]) \in Nat
        BY CopiesAreNumbers DEF BenchTypes, BenchTypeOK
      <4> QED
        BY <1>2, <3>1, <4>1 DEF Taken
    <3> QED
      BY <1>1, <1>5, <3>1 DEF Awaited
  <2>12. \A d \in BenchClient : d # c => Returning(d, mode)' = Returning(d, mode)
    BY <1>5, <1>7 DEF SentBack, Returning, SentUncounted
  <2>13. PICK a \in Int : a = Awaited(c, mode)'
    <3>1. Awaited(c, mode)' \in Int
      BY CountsAreNumbers
    <3> QED
      BY <3>1
  <2>14. PICK p, q, r, s \in Int : /\ p = client_stats.sent[BucketForMode(mode)]
                                   /\ q = client_stats.echoed[BucketForMode(mode)]
                                   /\ r = server_stats.sent[BucketForMode(mode)]
                                   /\ s = server_stats.echoed[BucketForMode(mode)]
    BY <2>1, FourBuckets
  <2>15. s + a - p <= s + x - p /\ q + (w - back) - r <= q + y - r
    BY <2>7, <2>10, <2>13
  <2>16. ReceivedOnce(mode)'
    BY <1>1, <1>4, <2>6, <2>11, <2>13, <2>14, <2>15, ReceivedByOne DEF Counters
  <2>17. ReturnedOnce(mode)'
    BY <1>1, <1>4, <2>8, <2>9, <2>12, <2>14, <2>15, ReturnedToOne DEF Counters
  <2> QED
    BY <2>16, <2>17
<1> QED
  BY <1>8, <1>9, <1>10 DEF Counters

\* What a shard has in hand.
LEMMA InHand ==
  ASSUME HeadersAreRight, NEW c \in BenchClient, echo[c] # NoEcho
  PROVE  \E n \in DeliveryMode, sent \in BOOLEAN :
           echo[c].header.mode = n /\ echo[c].sent = sent
<1>1. PICK n \in DeliveryMode, sent \in BOOLEAN :
        echo[c] = [header |-> MakePayload(kData, n), sent |-> sent]
  BY DEF HeadersAreRight
<1>2. MakePayload(kData, n).mode = n
  BY PayloadIsKnown
<1> QED
  BY <1>1, <1>2

\* It takes the lock; the payload is not awaited any more, but received.
LEMMA NoteEchoedKeepsCounters ==
  ASSUME BenchTypes, BenchTypes', Counters, NEW c \in BenchClient, ShardNoteEchoed(c)
  PROVE  Counters'
<1>1. UNCHANGED <<nextSequence, client_stats, echo, toServer, toClient>>
  BY DEF ShardNoteEchoed, bench, sends
<1>2. /\ stats_mutex = Nobody /\ stats_mutex' = c /\ echo[c] # NoEcho
      /\ \A d \in BenchClient : d # Nobody
  BY BenchAssumption DEF ShardNoteEchoed
<1>3. PICK n \in DeliveryMode, sent \in BOOLEAN :
        echo[c].header.mode = n /\ echo[c].sent = sent
  BY <1>2, InHand DEF Counters
<1>4. server_stats \in Stats /\ server_stats' = NoteEchoed(server_stats, n)
  BY <1>3 DEF ShardNoteEchoed, BenchTypes, BenchTypeOK
<1>5. /\ CountedOne(server_stats.echoed, server_stats'.echoed, n)
      /\ server_stats'.sent = server_stats.sent
      /\ server_stats'.sendFailures = server_stats.sendFailures
      /\ server_stats'.malformedPackets = server_stats.malformedPackets
  BY <1>4, EchoedIsCounted
<1>6. HeadersAreRight' /\ NumbersAddUp'
  BY <1>1, <1>5 DEF Counters, HeadersAreRight, NumbersAddUp
<1>7. EchoesAddUp'
  <2>1. SumFunction(server_stats'.echoed) = SumFunction(server_stats.echoed) + 1
    BY <1>5 DEF CountedOne
  <2>2. PICK e, t, f \in Int : /\ e = SumFunction(server_stats.echoed)
                               /\ t = SumFunction(server_stats.sent)
                               /\ f = server_stats.sendFailures
    BY SumsAreNumbers
  <2>3. e = t + f
    BY <1>2, <2>2 DEF Counters, EchoesAddUp
  <2>4. stats_mutex' # Nobody
    BY <1>2
  <2> QED
    BY <1>5, <2>1, <2>2, <2>3, <2>4 DEF EchoesAddUp
<1>8. ASSUME NEW mode \in OnceModes PROVE ReceivedOnce(mode)' /\ ReturnedOnce(mode)'
  <2>1. mode \in DeliveryMode
    BY Buckets
  <2>2. PICK one \in Int : one = IF mode = n THEN 1 ELSE 0
    OBVIOUS
  <2>3. PICK x \in Int : x = Copies(MakePayload(kData, mode), toServer[c])
    <3>1. IsABag(toServer[c])
      BY DEF BenchTypes, BenchTypeOK
    <3> QED
      BY <3>1, CopiesAreNumbers
  <2>4. Awaited(c, mode) = x + one
    BY <1>2, <1>3, <2>2, <2>3 DEF Awaited
  <2>5. Awaited(c, mode)' = x
    BY <1>1, <1>2, <2>3 DEF Awaited
  <2>6. \A d \in BenchClient : d # c => Awaited(d, mode)' = Awaited(d, mode)
    BY <1>1, <1>2 DEF Awaited
  <2>7. server_stats'.echoed[BucketForMode(mode)] =
          server_stats.echoed[BucketForMode(mode)] + one
    BY <1>5, <2>1, <2>2 DEF CountedOne
  <2>8. PICK p, s \in Int : /\ p = client_stats.sent[BucketForMode(mode)]
                            /\ s = server_stats.echoed[BucketForMode(mode)]
    BY <2>1, FourBuckets
  <2>9. (s + one) + x - p <= s + (x + one) - p
    OBVIOUS
  <2>10. ReceivedOnce(mode)'
    BY <1>1, <2>4, <2>5, <2>6, <2>7, <2>8, <2>9, ReceivedByOne DEF Counters
  <2>11. ReturnedOnce(mode)'
    BY <1>1, <1>5 DEF Counters, ReturnedOnce, Returning, SentUncounted
  <2> QED
    BY <2>10, <2>11
<1> QED
  BY <1>6, <1>7, <1>8 DEF Counters

\* It counts what it has sent, and gives the lock back.
LEMMA NoteSentKeepsCounters ==
  ASSUME BenchTypes, BenchTypes', Counters, NEW c \in BenchClient, ShardNoteSent(c)
  PROVE  Counters'
<1>1. UNCHANGED <<nextSequence, client_stats, toServer, toClient>>
  BY DEF ShardNoteSent, bench, sends
<1>2. /\ stats_mutex = c /\ stats_mutex' = Nobody /\ echo[c] # NoEcho
      /\ \A d \in BenchClient : d # Nobody
  BY BenchAssumption DEF ShardNoteSent, BenchTypes, BenchTypeOK
<1>3. echo'[c] = NoEcho /\ \A d \in BenchClient : d # c => echo'[d] = echo[d]
  BY DEF ShardNoteSent, BenchTypes
<1>4. PICK n \in DeliveryMode, sent \in BOOLEAN :
        echo[c].header.mode = n /\ echo[c].sent = sent
  BY <1>2, InHand DEF Counters
<1>5. Resulted(server_stats, server_stats', n, sent)
  <2>1. server_stats \in Stats
    BY DEF BenchTypes, BenchTypeOK
  <2>2. server_stats' = NoteResult(server_stats, echo[c].header, sent)
    BY <1>4 DEF ShardNoteSent
  <2> QED
    BY <1>4, <2>1, <2>2, ResultIsCounted
<1>6. HeadersAreRight' /\ NumbersAddUp'
  BY <1>1, <1>3, <1>5 DEF Counters, HeadersAreRight, NumbersAddUp, Resulted
<1>7. EchoesAddUp'
  <2>1. /\ server_stats'.echoed = server_stats.echoed
        /\ SumFunction(server_stats'.sent) + server_stats'.sendFailures =
             SumFunction(server_stats.sent) + server_stats.sendFailures + 1
    BY <1>5 DEF Resulted
  <2>2. PICK u, g \in Int : /\ u = SumFunction(server_stats'.sent)
                            /\ g = server_stats'.sendFailures
    BY SumsAreNumbers
  <2>3. SumFunction(server_stats'.echoed) = u + g
    BY <1>2, <2>1, <2>2 DEF Counters, EchoesAddUp
  <2>4. u + g = u + g + 0
    OBVIOUS
  <2> QED
    BY <1>2, <2>2, <2>3, <2>4 DEF EchoesAddUp
<1>8. ASSUME NEW mode \in OnceModes PROVE ReceivedOnce(mode)' /\ ReturnedOnce(mode)'
  <2>1. mode \in DeliveryMode
    BY Buckets
  <2>2. PICK back \in Int : back = IF sent /\ mode = n THEN 1 ELSE 0
    OBVIOUS
  <2>3. PICK x, y \in Int : /\ x = Copies(MakePayload(kData, mode), toServer[c])
                            /\ y = Copies(MakePayload(kEcho, mode), toClient[c])
    <3>1. IsABag(toServer[c]) /\ IsABag(toClient[c])
      BY DEF BenchTypes, BenchTypeOK
    <3> QED
      BY <3>1, CopiesAreNumbers
  <2>4. Awaited(c, mode) = x /\ Awaited(c, mode)' = x
    BY <1>1, <1>2, <1>3, <2>3 DEF Awaited
  <2>5. \A d \in BenchClient : d # c => Awaited(d, mode)' = Awaited(d, mode)
    BY <1>1, <1>2, <1>3 DEF Awaited
  <2>6. Returning(c, mode) = y - back /\ Returning(c, mode)' = y
    <3>1. /\ c \in SentUncounted(mode) <=> sent /\ mode = n
          /\ ~(c \in SentUncounted(mode)')
      BY <1>2, <1>3, <1>4 DEF SentUncounted
    <3> QED
      BY <1>1, <2>2, <2>3, <3>1 DEF Returning
  <2>7. \A d \in BenchClient : d # c => Returning(d, mode)' = Returning(d, mode)
    BY <1>1, <1>3 DEF Returning, SentUncounted
  <2>8. /\ server_stats'.echoed = server_stats.echoed
        /\ server_stats'.sent[BucketForMode(mode)] =
             server_stats.sent[BucketForMode(mode)] + back
    BY <1>5, <2>1, <2>2 DEF Resulted
  <2>9. PICK p, q, r, s \in Int : /\ p = client_stats.sent[BucketForMode(mode)]
                                  /\ q = client_stats.echoed[BucketForMode(mode)]
                                  /\ r = server_stats.sent[BucketForMode(mode)]
                                  /\ s = server_stats.echoed[BucketForMode(mode)]
    BY <2>1, FourBuckets
  <2>10. s + x - p <= s + x - p /\ q + y - (r + back) <= q + (y - back) - r
    OBVIOUS
  <2>11. ReceivedOnce(mode)'
    BY <1>1, <2>4, <2>5, <2>8, <2>9, <2>10, ReceivedByOne DEF Counters
  <2>12. ReturnedOnce(mode)'
    BY <1>1, <2>6, <2>7, <2>8, <2>9, <2>10, ReturnedToOne DEF Counters
  <2> QED
    BY <2>11, <2>12
<1> QED
  BY <1>6, <1>7, <1>8 DEF Counters

-----------------------------------------------------------------------------
(* A pass of the clients *)

LEMMA ModeIsKnown ==
  ASSUME Pass, NEW p \in DuePayloads
  PROVE  ModeOf(p) \in DeliveryMode
<1>1. p[1] \in BenchClient /\ p[2] \in Stream /\ p[3] \in 1..MaxBurst
  BY DueIsAPayload DEF Pass
<1>2. CASE p[2] < 5
  BY <1>1, <1>2 DEF ModeOf, Stream, DeliveryMode
<1>3. CASE ~(p[2] < 5)
  <2>1. PICK a \in Nat : a = nextDeadlineMode[p[1]] + p[3] - 1
    <3>1. nextDeadlineMode[p[1]] \in Nat /\ p[3] \in Nat \ {0}
      BY <1>1, BenchAssumption DEF Pass
    <3> QED
      BY <3>1
  <2>2. PICK M \in Nat \ {0} : M = ModeCounter
    BY BenchAssumption
  <2>3. a % M \in Nat
    BY SMTT(40)
  <2>4. PICK e \in Nat : e = a % M
    BY <2>3
  <2>5. e % 4 \in 0..3
    OBVIOUS
  <2>6. PICK t \in 0..3 : t = e % 4
    BY <2>5
  <2>7. ModeOf(p) = 5 + t
    BY <1>3, <2>1, <2>2, <2>4, <2>6 DEF ModeOf, NextDeadlineMode
  <2> QED
    BY <2>7 DEF DeliveryMode
<1> QED
  BY <1>2, <1>3

\* What is sent of one mode, by client.
OfMode(S, mode) == {p \in S : ModeOf(p) = mode}
ByClient(S, c) == {p \in S : p[1] = c}

LEMMA PayloadsCounted ==
  ASSUME Pass, NEW S \in SUBSET DuePayloads, NEW c \in BenchClient,
         NEW mode \in DeliveryMode
  PROVE  /\ Copies(MakePayload(kData, mode), Payloads(ByClient(S, c))) =
              Cardinality(ByClient(OfMode(S, mode), c))
         /\ IsABag(Payloads(ByClient(S, c)))
         /\ \A h \in DOMAIN Payloads(ByClient(S, c)) :
              \E m \in DeliveryMode : h = MakePayload(kData, m)
<1> DEFINE Header(p) == MakePayload(kData, ModeOf(p))
           T == ByClient(S, c)
           g == MakePayload(kData, mode)
           Of(h) == {p \in T : Header(p) = h}
<1>1. T \in SUBSET DuePayloads
  BY DEF ByClient
<1>2. IsFiniteSet(T)
  BY <1>1, DueIsFinite, FS_Subset
<1>3. Payloads(T) = [h \in {Header(p) : p \in T} |-> Cardinality(Of(h))]
  BY DEF Payloads
<1>4. \A p \in T : ModeOf(p) \in DeliveryMode /\ (Header(p) = g <=> ModeOf(p) = mode)
  BY <1>1, ModeIsKnown, PayloadIsKnown
<1>5. Of(g) = ByClient(OfMode(S, mode), c)
  BY <1>4 DEF ByClient, OfMode
<1>6. \A h \in DOMAIN Payloads(T) : \E m \in DeliveryMode : h = MakePayload(kData, m)
  BY <1>3, <1>4
<1>7. IsABag(Payloads(T))
  BY <1>2, PayloadsAreABag
<1>8. Copies(g, Payloads(T)) = Cardinality(Of(g))
  <2>1. CASE Of(g) = {}
    <3>1. g \notin DOMAIN Payloads(T)
      BY <1>3, <2>1
    <3>2. Cardinality(Of(g)) = 0
      BY <2>1, FS_EmptySet
    <3> QED
      BY <3>1, <3>2 DEF Copies
  <2>2. CASE Of(g) # {}
    <3>1. g \in {Header(p) : p \in T}
      BY <2>2
    <3> HIDE DEF g, Header, Of, T
    <3>2. g \in DOMAIN Payloads(T) /\ Payloads(T)[g] = Cardinality(Of(g))
      BY <1>3, <3>1
    <3> QED
      BY <3>2 DEF Copies
  <2> QED
    BY <2>1, <2>2
<1> QED
  BY <1>5, <1>6, <1>7, <1>8

\* Payloads are as many as those of each client, of each bucket.
LEMMA ClientsAddUp ==
  ASSUME Pass, NEW S \in SUBSET DuePayloads,
         NEW f, f = [c \in BenchClient |-> Cardinality(ByClient(S, c))]
  PROVE  /\ SumFunction(f) = Cardinality(S)
         /\ f \in [BenchClient -> Nat]
<1>1. IsFiniteSet(S)
  BY DueIsFinite, FS_Subset
<1>2. PICK key : key = [p \in S |-> p[1]]
  OBVIOUS
<1>3. key \in [S -> BenchClient]
  BY <1>2, DueIsAPayload DEF Pass
<1>4. \A c \in BenchClient : ByClient(S, c) = {p \in S : key[p] = c}
  BY <1>2 DEF ByClient
<1>5. f = [c \in BenchClient |-> Cardinality({p \in S : key[p] = c})]
  BY <1>4
<1>6. IsFiniteSet(BenchClient)
  BY BenchAssumption
<1>7. \A c : Cardinality(ByClient(S, c)) \in Nat
  BY <1>1, FS_Subset, FS_CardinalityType DEF ByClient
<1> QED
  BY <1>1, <1>3, <1>5, <1>6, <1>7, SumOfCounts

LEMMA BucketsAddUp ==
  ASSUME Pass, NEW S \in SUBSET DuePayloads,
         NEW f, f = [b \in Bucket |-> Cardinality({p \in S : BucketForMode(ModeOf(p)) = b})]
  PROVE  /\ SumFunction(f) = Cardinality(S)
         /\ f \in [Bucket -> Nat]
         /\ \A m \in DeliveryMode : f[BucketForMode(m)] = Cardinality(OfMode(S, m))
<1>1. IsFiniteSet(S)
  BY DueIsFinite, FS_Subset
<1>2. PICK key : key = [p \in S |-> BucketForMode(ModeOf(p))]
  OBVIOUS
<1>3. key \in [S -> Bucket]
  <2>1. \A p \in S : BucketForMode(ModeOf(p)) \in Bucket
    BY ModeIsKnown, Buckets
  <2> QED
    BY <1>2, <2>1
<1>4. \A b \in Bucket :
        {p \in S : BucketForMode(ModeOf(p)) = b} = {p \in S : key[p] = b}
  BY <1>2
<1>5. f = [b \in Bucket |-> Cardinality({p \in S : key[p] = b})]
  BY <1>4
<1>6. \A b : Cardinality({p \in S : BucketForMode(ModeOf(p)) = b}) \in Nat
  BY <1>1, FS_Subset, FS_CardinalityType
<1>7. ASSUME NEW m \in DeliveryMode
      PROVE  f[BucketForMode(m)] = Cardinality(OfMode(S, m))
  <2>1. {p \in S : BucketForMode(ModeOf(p)) = BucketForMode(m)} = OfMode(S, m)
    BY ModeIsKnown, Buckets DEF OfMode
  <2>2. BucketForMode(m) \in Bucket
    BY Buckets
  <2> QED
    BY <2>1, <2>2
<1>8. SumFunction(f) = Cardinality(S)
  <2>1. IsFiniteSet(Bucket)
    BY Buckets
  <2>2. PICK k : k = f
    OBVIOUS
  <2>3. k = [b \in Bucket |-> Cardinality({p \in S : key[p] = b})]
    BY <1>5, <2>2
  <2>4. SumFunction(k) = Cardinality(S)
    BY <1>1, <1>3, <2>1, <2>3, SumOfCounts
  <2> QED
    BY <2>2, <2>4
<1> QED
  BY <1>6, <1>7, <1>8

\* What a pass does to the counters: of due payloads, those not refused are sent.
Numbering(refused) ==
  LET sent == DuePayloads \ refused
  IN /\ UNCHANGED <<counting, toClient>>
     /\ nextSequence' = [c \in BenchClient |->
          nextSequence[c] + Cardinality(ByClient(DuePayloads, c))]
     /\ client_stats'.sent = [b \in Bucket |->
          client_stats.sent[b] + Cardinality({p \in sent : BucketForMode(ModeOf(p)) = b})]
     /\ client_stats'.sendFailures = client_stats.sendFailures + Cardinality(refused)
     /\ client_stats'.echoed = client_stats.echoed
     /\ client_stats'.malformedPackets = client_stats.malformedPackets
     /\ toServer' = [c \in BenchClient |->
          toServer[c] (+) Payloads(ByClient(sent, c))]

LEMMA SendDueNumbers ==
  ASSUME BenchTypes, NEW refused, SendDue(DuePayloads, refused)
  PROVE  Numbering(refused)
<1>1. client_stats \in Stats
  BY DEF BenchTypes, BenchTypeOK
<1> DEFINE f == NoteFailures(client_stats, Cardinality(refused))
           N == [b \in Bucket |-> client_stats.sent[b]
                   + Cardinality({p \in DuePayloads \ refused : BucketForMode(ModeOf(p)) = b})]
<1>2. /\ f = [client_stats EXCEPT !.sendFailures = client_stats.sendFailures
                                                     + Cardinality(refused)]
  BY DEF NoteFailures
<1>3. client_stats' = [f EXCEPT !.sent = N]
  BY DEF SendDue
<1>4. /\ client_stats'.sent = N
      /\ client_stats'.sendFailures = client_stats.sendFailures + Cardinality(refused)
      /\ client_stats'.echoed = client_stats.echoed
      /\ client_stats'.malformedPackets = client_stats.malformedPackets
  <2> HIDE DEF N
  <2> QED
    BY <1>1, <1>2, <1>3 DEF Stats
<1>5. /\ UNCHANGED <<counting, toClient>>
      /\ nextSequence' = [c \in BenchClient |->
           nextSequence[c] + Cardinality(ByClient(DuePayloads, c))]
      /\ toServer' = [c \in BenchClient |->
           toServer[c] (+) Payloads(ByClient(DuePayloads \ refused, c))]
  BY DEF SendDue, ByClient
<1> QED
  BY <1>4, <1>5 DEF Numbering

LEMMA SendDueKeepsCounters ==
  ASSUME BenchTypes, BenchTypes', Counters, NEW refused \in SUBSET DuePayloads,
         SendDue(DuePayloads, refused)
  PROVE  Counters'
<1>1. Pass
  BY TypesMakeAPass
<1>2. Numbering(refused)
  BY SendDueNumbers
<1>3. PICK S \in SUBSET DuePayloads : S = DuePayloads \ refused
  OBVIOUS
<1>4. UNCHANGED <<server_stats, stats_mutex, echo, toClient>>
  BY <1>2 DEF Numbering, counting
<1>5. \A c \in BenchClient : /\ toServer'[c] = toServer[c] (+) Payloads(ByClient(S, c))
                             /\ IsABag(toServer[c]) /\ IsABag(Payloads(ByClient(S, c)))
  <2>1. \A c \in BenchClient : IsABag(Payloads(ByClient(S, c)))
    <3>1. 1 \in DeliveryMode
      BY DEF DeliveryMode
    <3> QED
      BY <1>1, <3>1, PayloadsCounted
  <2> QED
    BY <1>2, <1>3, <2>1 DEF Numbering, BenchTypes, BenchTypeOK
<1>6. HeadersAreRight'
  <2>1. ASSUME NEW c \in BenchClient
        PROVE  \A h \in DOMAIN toServer'[c] : \E m \in DeliveryMode : h = MakePayload(kData, m)
    <3>1. \A h \in DOMAIN Payloads(ByClient(S, c)) :
            \E m \in DeliveryMode : h = MakePayload(kData, m)
      <4>1. 1 \in DeliveryMode
        BY DEF DeliveryMode
      <4> QED
        BY <1>1, <4>1, PayloadsCounted
    <3>2. DOMAIN toServer'[c] = DOMAIN toServer[c] \cup DOMAIN Payloads(ByClient(S, c))
      BY <1>5, CopiesAddUp
    <3> QED
      BY <3>1, <3>2 DEF Counters, HeadersAreRight
  <2>2. client_stats'.malformedPackets = client_stats.malformedPackets
    BY <1>2 DEF Numbering
  <2> QED
    BY <1>4, <2>1, <2>2 DEF Counters, HeadersAreRight
<1>7. NumbersAddUp'
  <2>1. PICK f : f = [c \in BenchClient |-> Cardinality(ByClient(DuePayloads, c))]
    OBVIOUS
  <2>2. SumFunction(f) = Cardinality(DuePayloads) /\ f \in [BenchClient -> Nat]
    BY <1>1, <2>1, ClientsAddUp
  <2>3. PICK g : g = [b \in Bucket |-> Cardinality({p \in S : BucketForMode(ModeOf(p)) = b})]
    OBVIOUS
  <2>4. SumFunction(g) = Cardinality(S) /\ g \in [Bucket -> Nat]
    BY <1>1, <2>3, BucketsAddUp
  <2>5. Cardinality(DuePayloads) = Cardinality(S) + Cardinality(refused)
    <3>1. IsFiniteSet(S) /\ IsFiniteSet(refused)
      BY <1>1, DueIsFinite, FS_Subset
    <3>2. DuePayloads = S \cup refused /\ S \cap refused = {}
      BY <1>3
    <3> QED
      BY <3>1, <3>2, DisjointUnion
  <2>6. PICK n, n1 : n = nextSequence /\ n1 = nextSequence'
    OBVIOUS
  <2>7. SumFunction(n1) = SumFunction(n) + SumFunction(f)
    <3>1. /\ n \in [BenchClient -> Int] /\ f \in [BenchClient -> Int]
          /\ n1 \in [BenchClient -> Int]
          /\ \A c \in BenchClient : n1[c] = n[c] + f[c]
      BY <1>2, <2>1, <2>2, <2>6 DEF Numbering, BenchTypes, BenchTypeOK
    <3>2. IsFiniteSet(BenchClient)
      BY BenchAssumption
    <3> QED
      BY <3>1, <3>2, SumOfTwo
  <2>8. PICK t, t1 : t = client_stats.sent /\ t1 = client_stats'.sent
    OBVIOUS
  <2>9. SumFunction(t1) = SumFunction(t) + SumFunction(g)
    <3>1. t \in [Bucket -> Nat] /\ t1 = [b \in Bucket |-> t[b] + g[b]]
      BY <1>2, <1>3, <2>3, <2>8 DEF Numbering, BenchTypes, BenchTypeOK, Stats
    <3>2. /\ t \in [Bucket -> Int] /\ g \in [Bucket -> Int] /\ t1 \in [Bucket -> Int]
          /\ \A b \in Bucket : t1[b] = t[b] + g[b]
      BY <2>4, <3>1
    <3>3. IsFiniteSet(Bucket)
      BY Buckets
    <3> QED
      BY <3>2, <3>3, SumOfTwo
  <2>10. PICK x, y, z \in Int : /\ x = SumFunction(t) /\ y = client_stats.sendFailures
                                /\ z = SumFunction(n)
    <3>1. n \in [BenchClient -> Int] /\ IsFiniteSet(BenchClient)
      BY <2>6, BenchAssumption DEF BenchTypes, BenchTypeOK
    <3>2. SumFunction(n) \in Int
      BY <3>1, SumIsANumber
    <3> QED
      BY <2>8, <3>2, SumsAreNumbers
  <2>11. PICK a, r \in Int : a = Cardinality(S) /\ r = Cardinality(refused)
    BY <1>1, DueIsFinite, FS_Subset, FS_CardinalityType
  <2>12. z = x + y
    BY <2>6, <2>8, <2>10 DEF Counters, NumbersAddUp
  <2>13. SumFunction(n1) = z + (a + r) /\ SumFunction(t1) = x + a
    BY <2>2, <2>4, <2>5, <2>7, <2>9, <2>10, <2>11
  <2>14. client_stats'.sendFailures = y + r
    BY <1>2, <2>10, <2>11 DEF Numbering
  <2>15. z + (a + r) = (x + a) + (y + r)
    BY <2>12
  <2> QED
    BY <2>6, <2>8, <2>13, <2>14, <2>15 DEF NumbersAddUp
<1>8. EchoesAddUp'
  BY <1>4 DEF Counters, EchoesAddUp
<1>9. ASSUME NEW mode \in OnceModes PROVE ReceivedOnce(mode)'
  <2>1. mode \in DeliveryMode
    BY Buckets
  <2>2. OfMode(S, mode) \in SUBSET DuePayloads
    BY DEF OfMode
  <2>3. PICK k : k = [c \in BenchClient |-> Cardinality(ByClient(OfMode(S, mode), c))]
    OBVIOUS
  <2>4. SumFunction(k) = Cardinality(OfMode(S, mode)) /\ k \in [BenchClient -> Nat]
    BY <1>1, <2>2, <2>3, ClientsAddUp
  <2>5. PICK f : f = [c \in BenchClient |-> Awaited(c, mode)]
    OBVIOUS
  <2>6. PICK h : h = [c \in BenchClient |-> Awaited(c, mode)']
    OBVIOUS
  <2>7. f \in [BenchClient -> Int] /\ h \in [BenchClient -> Int]
    BY <2>5, <2>6, CountsAreNumbers
  <2>8. ASSUME NEW c \in BenchClient PROVE h[c] = f[c] + k[c]
    <3>1. PICK x \in Int, y \in Int, e \in Int :
            /\ x = Copies(MakePayload(kData, mode), toServer[c])
            /\ y = Copies(MakePayload(kData, mode), toServer'[c])
            /\ e = IF echo[c] # NoEcho /\ c # stats_mutex /\ echo[c].header.mode = mode
                   THEN 1 ELSE 0
      <4>1. IsABag(toServer[c]) /\ IsABag(toServer'[c])
        BY DEF BenchTypes, BenchTypeOK
      <4> QED
        BY <4>1, CopiesAreNumbers
    <3>2. Copies(MakePayload(kData, mode), Payloads(ByClient(S, c))) = k[c]
      BY <1>1, <2>1, <2>3, PayloadsCounted
    <3>3. y = x + k[c]
      <4>1. PICK B, P : B = toServer[c] /\ P = Payloads(ByClient(S, c))
        OBVIOUS
      <4>2. IsABag(B) /\ IsABag(P) /\ toServer'[c] = B (+) P
        BY <1>5, <4>1
      <4>3. \A g : Copies(g, B (+) P) = Copies(g, B) + Copies(g, P)
        BY <4>2, CopiesAddUp
      <4> QED
        BY <3>1, <3>2, <4>1, <4>2, <4>3
    <3>4. f[c] = x + e /\ h[c] = y + e
      BY <1>4, <2>5, <2>6, <3>1 DEF Awaited
    <3>5. k[c] \in Int
      BY <2>4
    <3> QED
      BY <3>1, <3>3, <3>4, <3>5
  <2>9. SumFunction(h) = SumFunction(f) + SumFunction(k)
    <3>1. k \in [BenchClient -> Int] /\ IsFiniteSet(BenchClient)
      BY <2>4, BenchAssumption
    <3> QED
      BY <2>7, <2>8, <3>1, SumOfTwo
  <2>10. client_stats'.sent[BucketForMode(mode)] =
           client_stats.sent[BucketForMode(mode)] + Cardinality(OfMode(S, mode))
    <3>1. PICK g : g = [b \in Bucket |-> Cardinality({p \in S : BucketForMode(ModeOf(p)) = b})]
      OBVIOUS
    <3>2. g[BucketForMode(mode)] = Cardinality(OfMode(S, mode))
      BY <1>1, <2>1, <3>1, BucketsAddUp
    <3>3. BucketForMode(mode) \in Bucket
      BY <2>1, Buckets
    <3>4. client_stats'.sent = [b \in Bucket |-> client_stats.sent[b] + g[b]]
      BY <1>2, <1>3, <3>1 DEF Numbering
    <3> QED
      BY <3>2, <3>3, <3>4
  <2>11. PICK x, y, z \in Int : /\ x = SumFunction(f)
                                /\ y = server_stats.echoed[BucketForMode(mode)]
                                /\ z = client_stats.sent[BucketForMode(mode)]
    <3>1. SumFunction(f) \in Int
      BY <2>7, BenchAssumption, SumIsANumber
    <3> QED
      BY <2>1, <3>1, BucketsAreNumbers
  <2>12. PICK a \in Int : a = Cardinality(OfMode(S, mode))
    <3>1. IsFiniteSet(OfMode(S, mode))
      BY <1>1, <2>2, DueIsFinite, FS_Subset
    <3>2. Cardinality(OfMode(S, mode)) \in Nat
      BY <3>1, FS_CardinalityType
    <3> QED
      BY <3>2
  <2>13. y + x <= z
    BY <2>5, <2>11 DEF Counters, ReceivedOnce
  <2>14. y + SumFunction(h) <= z + a
    BY <2>4, <2>9, <2>11, <2>12, <2>13
  <2> QED
    BY <1>4, <2>6, <2>10, <2>11, <2>12, <2>14 DEF ReceivedOnce
<1>10. ASSUME NEW mode \in OnceModes PROVE ReturnedOnce(mode)'
  <2>1. client_stats'.echoed = client_stats.echoed
    BY <1>2 DEF Numbering
  <2> QED
    BY <1>4, <2>1 DEF Counters, ReturnedOnce, Returning, SentUncounted
<1> QED
  BY <1>6, <1>7, <1>8, <1>9, <1>10 DEF Counters

-----------------------------------------------------------------------------
(* Every step *)

LEMMA CountersInit == BenchInit => Counters
<1> SUFFICES ASSUME BenchInit PROVE Counters
  OBVIOUS
<1> USE DEF BenchInit
<1>1. PICK z : z = [b \in Bucket |-> 0]
  OBVIOUS
<1>2. /\ client_stats.sent = z /\ client_stats.echoed = z
      /\ server_stats.sent = z /\ server_stats.echoed = z
      /\ client_stats.sendFailures = 0 /\ server_stats.sendFailures = 0
      /\ client_stats.malformedPackets = 0 /\ server_stats.malformedPackets = 0
  BY <1>1 DEF AppStats
<1>3. SumFunction(z) = 0
  <2>1. z \in [Bucket -> Int] /\ \A b \in Bucket : z[b] = 0
    BY <1>1
  <2> QED
    BY <2>1, Buckets, SumOfNone
<1>4. ASSUME NEW f, f = [c \in BenchClient |-> 0] PROVE SumFunction(f) = 0
  <2>1. f \in [BenchClient -> Int] /\ \A c \in BenchClient : f[c] = 0
    BY <1>4
  <2> QED
    BY <2>1, BenchAssumption, SumOfNone
<1>5. HeadersAreRight
  BY <1>2, NoCopies DEF HeadersAreRight
<1>6. NumbersAddUp
  <2>1. SumFunction(nextSequence) = 0
    BY <1>4
  <2> QED
    BY <1>2, <1>3, <2>1 DEF NumbersAddUp
<1>7. EchoesAddUp
  BY <1>2, <1>3 DEF EchoesAddUp
<1>8. ASSUME NEW mode \in OnceModes PROVE ReceivedOnce(mode) /\ ReturnedOnce(mode)
  <2>1. \A c \in BenchClient : Awaited(c, mode) = 0 /\ Returning(c, mode) = 0
    BY NoCopies DEF Awaited, Returning, SentUncounted
  <2>2. /\ SumFunction([c \in BenchClient |-> Awaited(c, mode)]) = 0
        /\ SumFunction([c \in BenchClient |-> Returning(c, mode)]) = 0
    BY <1>4, <2>1
  <2>3. z[BucketForMode(mode)] = 0
    BY <1>1, Buckets
  <2> QED
    BY <1>2, <2>2, <2>3 DEF ReceivedOnce, ReturnedOnce
<1> QED
  BY <1>5, <1>6, <1>7, <1>8 DEF Counters

LEMMA CountersNext ==
  ASSUME BenchTypes, BenchTypes', Counters, [BenchNext]_benchVars
  PROVE  Counters'
<1>1. ASSUME NEW c \in BenchClient, NEW header \in BagToSet(toClient[c]), Receive(c, header)
      PROVE  Counters'
  BY <1>1, ReceiveKeepsCounters
<1>2. ASSUME NEW c \in BenchClient, OnConnected(c) PROVE Counters'
  <2>1. /\ UNCHANGED <<nextSequence, client_stats, counting>>
        /\ toServer' = [toServer EXCEPT ![c] = EmptyBag]
        /\ toClient' = [toClient EXCEPT ![c] = EmptyBag]
    BY <1>2 DEF OnConnected, bench, sends
  <2> QED
    BY <2>1, EmptyingKeepsCounters
<1>3. ASSUME NEW c \in BenchClient, OnDisconnected(c) PROVE Counters'
  <2>1. /\ UNCHANGED <<nextSequence, client_stats, counting>>
        /\ toServer' = toServer
        /\ toClient' = [toClient EXCEPT ![c] = EmptyBag]
    BY <1>3 DEF OnDisconnected, bench, sends
  <2> QED
    BY <2>1, EmptyingKeepsCounters
<1>4. ASSUME NEW c \in BenchClient, NEW header \in BagToSet(toServer[c]),
             NEW sent \in BOOLEAN, PacketCallback(c, header, sent)
      PROVE  Counters'
  BY <1>4, PacketKeepsCounters
<1>5. ASSUME NEW c \in BenchClient, NEW header \in BagToSet(toServer[c]),
             NEW sent \in BOOLEAN, ShardCallback(c, header, sent)
      PROVE  Counters'
  BY <1>5, ShardKeepsCounters
<1>6. ASSUME NEW c \in BenchClient, ShardNoteEchoed(c) PROVE Counters'
  BY <1>6, NoteEchoedKeepsCounters
<1>7. ASSUME NEW c \in BenchClient, ShardNoteSent(c) PROVE Counters'
  BY <1>7, NoteSentKeepsCounters
<1>8. ASSUME NEW refused \in SUBSET DuePayloads, SendDue(DuePayloads, refused)
      PROVE  Counters'
  BY <1>8, SendDueKeepsCounters
<1>9. CASE \/ ResetStreams \/ ClientsFinish \/ MaybeWriteSample \/ Finish
           \/ StopShards \/ Tick \/ UNCHANGED benchVars
  <2>1. UNCHANGED WhatIsCounted
    BY <1>9 DEF ResetStreams, ClientsFinish, MaybeWriteSample, Finish, StopShards, Tick,
                benchVars, bench, sends, counting, WhatIsCounted
  <2> QED
    BY <2>1, QuietKeepsCounters
<1> QED
  BY <1>1, <1>2, <1>3, <1>4, <1>5, <1>6, <1>7, <1>8, <1>9 DEF BenchNext

\* A line is written while nobody holds the lock.
LEMMA LinesAreOfOneMoment ==
  ASSUME BenchTypes, Counters, [BenchNext]_benchVars,
         lastSample' # lastSample \/ main_loop' # main_loop
  PROVE  SumFunction(server_stats.echoed) =
           SumFunction(server_stats.sent) + server_stats.sendFailures
<1> USE DEF bench, sends, links, lines, counting
<1>1. stats_mutex = Nobody
  <2>1. CASE MaybeWriteSample \/ Finish
    BY <2>1 DEF MaybeWriteSample, Finish
  <2>2. CASE StopShards
    BY <2>2 DEF StopShards, BenchTypes, BenchTypeOK
  <2>3. ASSUME NEW c \in BenchClient, NEW header, Receive(c, header) PROVE FALSE
    BY <2>3 DEF Receive
  <2>4. ASSUME NEW c \in BenchClient,
               OnConnected(c) \/ OnDisconnected(c) \/ ShardNoteEchoed(c) \/ ShardNoteSent(c)
        PROVE  FALSE
    BY <2>4 DEF OnConnected, OnDisconnected, ShardNoteEchoed, ShardNoteSent
  <2>5. ASSUME NEW c \in BenchClient, NEW header, NEW sent,
               PacketCallback(c, header, sent) \/ ShardCallback(c, header, sent)
        PROVE  FALSE
    BY <2>5 DEF PacketCallback, ShardCallback
  <2>6. ASSUME NEW refused, SendDue(DuePayloads, refused) PROVE FALSE
    BY <2>6 DEF SendDue
  <2>7. ~ResetStreams /\ ~ClientsFinish /\ ~Tick /\ ~UNCHANGED benchVars
    BY DEF ResetStreams, ClientsFinish, Tick, benchVars
  <2> QED
    BY <2>1, <2>2, <2>3, <2>4, <2>5, <2>6, <2>7 DEF BenchNext
<1>2. PICK t, f \in Int : t = SumFunction(server_stats.sent) /\ f = server_stats.sendFailures
  <2>1. server_stats.sent \in [Bucket -> Int] /\ server_stats.sendFailures \in Int
    BY DEF BenchTypes, BenchTypeOK, Stats
  <2> QED
    BY <2>1, Buckets, SumIsANumber
<1>3. SumFunction(server_stats.echoed) = t + f + 0
  BY <1>1, <1>2 DEF Counters, EchoesAddUp
<1> QED
  BY <1>2, <1>3

\* What is still under way is no less than nothing.
LEMMA NothingIsCountedTwice ==
  ASSUME BenchTypes, Counters
  PROVE  CountersAgree
<1>1. \A c \in BenchClient : IsABag(toServer[c]) /\ IsABag(toClient[c])
  BY DEF BenchTypes, BenchTypeOK
<1>2. IsFiniteSet(BenchClient)
  BY BenchAssumption
<1>3. ASSUME NEW mode \in OnceModes
      PROVE  /\ server_stats.echoed[BucketForMode(mode)] <=
                  client_stats.sent[BucketForMode(mode)]
             /\ client_stats.echoed[BucketForMode(mode)] <=
                  server_stats.sent[BucketForMode(mode)] + Cardinality(SentUncounted(mode))
  <2>1. PICK p, q, r, s \in Int : /\ p = client_stats.sent[BucketForMode(mode)]
                                  /\ q = client_stats.echoed[BucketForMode(mode)]
                                  /\ r = server_stats.sent[BucketForMode(mode)]
                                  /\ s = server_stats.echoed[BucketForMode(mode)]
    <3>1. PICK b \in Bucket : b = BucketForMode(mode)
      BY Buckets
    <3> QED
      BY <3>1 DEF BenchTypes, BenchTypeOK, Stats
  <2>2. s <= p
    <3>1. PICK f : f = [c \in BenchClient |-> Awaited(c, mode)]
      OBVIOUS
    <3>2. ASSUME NEW c \in BenchClient PROVE Awaited(c, mode) \in Nat
      <4>1. Copies(MakePayload(kData, mode), toServer[c]) \in Nat
        BY <1>1, CopiesAreNumbers
      <4> QED
        BY <4>1 DEF Awaited
    <3>3. SumFunction(f) \in Nat
      <4>1. f \in [BenchClient -> Nat]
        BY <3>1, <3>2
      <4> QED
        BY <1>2, <4>1, SumIsNatural
    <3>4. s + SumFunction(f) <= p
      BY <2>1, <3>1 DEF Counters, ReceivedOnce
    <3> QED
      BY <3>3, <3>4
  <2>3. q <= r + Cardinality(SentUncounted(mode))
    <3>1. PICK f : f = [c \in BenchClient |-> Returning(c, mode)]
      OBVIOUS
    <3>2. PICK k : k = [c \in BenchClient |-> IF c \in SentUncounted(mode) THEN 1 ELSE 0]
      OBVIOUS
    <3>3. PICK h : h = [c \in BenchClient |-> Copies(MakePayload(kEcho, mode), toClient[c])]
      OBVIOUS
    <3>4. h \in [BenchClient -> Nat]
      BY <1>1, <3>3, CopiesAreNumbers
    <3>5. \A c \in BenchClient : k[c] \in Int /\ h[c] \in Int /\ f[c] = h[c] - k[c]
      BY <3>1, <3>2, <3>3, <3>4 DEF Returning
    <3>6. /\ f \in [BenchClient -> Int] /\ k \in [BenchClient -> Int]
          /\ h \in [BenchClient -> Int] /\ \A c \in BenchClient : h[c] = f[c] + k[c]
      BY <3>1, <3>2, <3>3, <3>5
    <3>7. SumFunction(h) = SumFunction(f) + SumFunction(k)
      BY <1>2, <3>6, SumOfTwo
    <3>8. SumFunction(h) \in Nat
      BY <1>2, <3>4, SumIsNatural
    <3>9. PICK u \in Int, v \in Int : u = SumFunction(f) /\ v = SumFunction(k)
      BY <1>2, <3>6, SumIsANumber
    <3>10. v = Cardinality(SentUncounted(mode))
      <4>1. SentUncounted(mode) \in SUBSET BenchClient
        BY DEF SentUncounted
      <4> QED
        BY <1>2, <3>2, <3>9, <4>1, SumOfMembers
    <3>11. q + u <= r
      BY <2>1, <3>1, <3>9 DEF Counters, ReturnedOnce
    <3> QED
      BY <3>7, <3>8, <3>9, <3>10, <3>11
  <2> QED
    BY <2>1, <2>2, <2>3
<1> QED
  BY <1>3 DEF Counters, HeadersAreRight, NumbersAddUp, CountersAgree

-----------------------------------------------------------------------------
\* The inductive invariant.
BenchInv == BenchTypes /\ Pace /\ Turns /\ Counters

LEMMA BenchInvHolds == BenchSpec => []BenchInv
<1>1. BenchInit => BenchInv
  BY TypesInit, PaceInit, TurnsInit, CountersInit DEF BenchInv
<1>2. BenchInv /\ [BenchNext]_benchVars => BenchInv'
  BY TypesNext, PaceNext, TurnsNext, CountersNext DEF BenchInv
<1> QED
  BY <1>1, <1>2, PTL DEF BenchSpec

\* Whatever is refused, lost, duplicated or late, every variable keeps its type,
\* and the lock is held by a thread that has something to count.
THEOREM BenchTypeIsKept == BenchSpec => []BenchTypeOK
<1>1. BenchInv => BenchTypeOK
  BY DEF BenchInv, BenchTypes
<1> QED
  BY <1>1, BenchInvHolds, PTL

\* For any number of clients, any profile and any counter of a width that four
\* divides, the clients send no more than the profile says, and the deadline
\* modes take turns.
THEOREM ProfileIsNotExceeded == BenchSpec => []PacingIsKept
<1>1. ASSUME BenchInv PROVE PacingIsKept
  <2>1. Pass
    BY <1>1, TypesMakeAPass DEF BenchInv
  <2>2. client_stats.sendFailures \in Nat
    BY <1>1 DEF BenchInv, BenchTypes, BenchTypeOK, Stats
  <2> QED
    BY <1>1, <2>1, <2>2, ProfileIsKept, TurnsAreTaken DEF BenchInv, PacingIsKept
<1>2. BenchInv => PacingIsKept
  BY <1>1
<1> QED
  BY <1>2, BenchInvHolds, PTL

\* For any number of clients and payloads the counters of both sides agree, and
\* every line the server writes is of one moment.
THEOREM TheCountersAddUp == BenchSpec => CountersAddUp
<1> DEFINE Line == lastSample' # lastSample \/ main_loop' # main_loop =>
                     SumFunction(server_stats.echoed) =
                       SumFunction(server_stats.sent) + server_stats.sendFailures
<1>1. BenchInv => CountersAgree
  BY NothingIsCountedTwice DEF BenchInv
<1>2. BenchInv /\ [BenchNext]_benchVars => [Line]_benchVars
  BY LinesAreOfOneMoment DEF BenchInv
<1> QED
  BY <1>1, <1>2, BenchInvHolds, PTL DEF BenchSpec, CountersAddUp

-----------------------------------------------------------------------------
(* The math-duel server, for any set of clients, any set of answers and any
   number of duels.  Its invariants are inductive together: that a queued
   client is free is what lets MeetOpponent start a duel without giving its
   opponent a second one, and that a client has one open duel is what makes
   an answer close the duel whose result it announces. *)

IInv ==
  /\ TypeOK
  /\ QueuedClientIsFree
  /\ OneDuelPerClient
  /\ OneWinnerPerDuel
  /\ PlayersSawTheProblem

USE MaxDuelsAssumption

\* A duel index is in the range TypeOK gives the indices kept elsewhere.
LEMMA DuelIndices ==
  ASSUME TypeOK
  PROVE  /\ DOMAIN active_duels = 1..Len(active_duels)
         /\ Len(active_duels) \in 0..MaxDuels
         /\ DOMAIN duel_queue = 1..Len(duel_queue)
         /\ DOMAIN announced = 1..Len(announced)
         /\ \A i \in DOMAIN active_duels : active_duels[i] \in Duel
         /\ \A r \in DOMAIN announced : announced[r] \in Result
  BY DEF TypeOK

\* IsInDuel leaves its pointer at an open duel of the client, and at the
\* only one.
LEMMA CurrentDuelIsTheDuel ==
  ASSUME IInv, NEW c \in Client, IsInDuel(c)
  PROVE  DuelsOf(c) = {CurrentDuel(c)}
  <1>1. PICK i \in DuelsOf(c) : TRUE
    BY DEF IsInDuel
  <1>2. DuelsOf(c) = {i}
    BY <1>1 DEF IInv, OneDuelPerClient
  <1>3. i \in Nat
    BY <1>1, DuelIndices DEF IInv, DuelsOf, OpenDuels
  <1>4. CurrentDuel(c) = i
    BY <1>2, <1>3 DEF CurrentDuel
  <1> QED
    BY <1>2, <1>4

LEMMA InitIInv == Init => IInv
  <1> SUFFICES ASSUME Init PROVE IInv
    OBVIOUS
  <1> USE DEF Init
  <1>1. TypeOK
    BY DEF TypeOK
  <1>2. OpenDuels = {}
    BY DEF OpenDuels
  <1>3. \A c \in Client : DuelsOf(c) = {}
    BY <1>2 DEF DuelsOf
  <1> QED
    BY <1>1, <1>3 DEF IInv, QueuedClientIsFree, OneDuelPerClient,
                      OneWinnerPerDuel, PlayersSawTheProblem

-----------------------------------------------------------------------------
(* Packets that touch no duel: the sender is registered, and that is all. *)

LEMMA QuietStep ==
  ASSUME IInv, NEW c \in Client, Register(c),
         UNCHANGED <<duel_queue, active_duels, announced, shown>>
  PROVE  IInv'
  <1>1. TypeOK'
    BY DEF IInv, TypeOK, Register
  <1>2. OpenDuels' = OpenDuels
    BY DEF OpenDuels, Open
  <1>3. \A x : DuelsOf(x)' = DuelsOf(x)
    BY <1>2 DEF DuelsOf, Plays
  <1>4. QueuedClientIsFree'
    BY <1>3 DEF IInv, QueuedClientIsFree, IsInDuel, Register
  <1>5. OneDuelPerClient'
    BY <1>3 DEF IInv, OneDuelPerClient
  <1>6. OneWinnerPerDuel'
    BY DEF IInv, OneWinnerPerDuel, Open, Plays
  <1>7. PlayersSawTheProblem'
    BY <1>3 DEF IInv, PlayersSawTheProblem, Register
  <1> QED
    BY <1>1, <1>4, <1>5, <1>6, <1>7 DEF IInv

\* A free caller becomes the one client waiting.
LEMMA QueueStep ==
  ASSUME IInv, NEW c \in Client, Register(c), ~IsInDuel(c),
         duel_queue' = <<c>>,
         UNCHANGED <<active_duels, announced, shown>>
  PROVE  IInv'
  <1>1. TypeOK'
    BY DEF IInv, TypeOK, Register
  <1>2. OpenDuels' = OpenDuels
    BY DEF OpenDuels, Open
  <1>3. \A x : DuelsOf(x)' = DuelsOf(x)
    BY <1>2 DEF DuelsOf, Plays
  <1>4. QueuedClientIsFree'
    BY <1>3 DEF QueuedClientIsFree, IsInDuel, Register
  <1>5. OneDuelPerClient'
    BY <1>3 DEF IInv, OneDuelPerClient
  <1>6. OneWinnerPerDuel'
    BY DEF IInv, OneWinnerPerDuel, Open, Plays
  <1>7. PlayersSawTheProblem'
    BY <1>3 DEF IInv, PlayersSawTheProblem, Register
  <1> QED
    BY <1>1, <1>4, <1>5, <1>6, <1>7 DEF IInv

LEMMA WaitForOpponentStep ==
  ASSUME IInv, NEW c \in Client, WaitForOpponent(c)
  PROVE  IInv'
  <1>1. duel_queue' = <<c>>
    BY DEF WaitForOpponent
  <1> QED
    BY <1>1, QueueStep DEF WaitForOpponent

\* A queue that is not empty holds one client, and popping it empties it.
LEMMA PoppedQueueIsEmpty ==
  ASSUME IInv, duel_queue # <<>>
  PROVE  /\ Head(duel_queue) = duel_queue[1]
         /\ 1 \in DOMAIN duel_queue
         /\ Tail(duel_queue) = <<>>
  <1>1. duel_queue \in Seq(Client)
    BY DEF IInv, TypeOK
  <1>2. Len(duel_queue) \in Nat \ {0}
    BY <1>1, EmptySeq
  <1>3. Len(duel_queue) = 1
    <2>1. Len(duel_queue) <= 1
      BY DEF IInv, QueuedClientIsFree
    <2> QED
      BY <1>2, <2>1
  <1>4. Tail(duel_queue) \in Seq(Client) /\ Len(Tail(duel_queue)) = 0
    BY <1>1, <1>3, HeadTailProperties
  <1>5. Tail(duel_queue) = <<>>
    BY <1>4, EmptySeq
  <1>6. Head(duel_queue) = duel_queue[1] /\ 1 \in DOMAIN duel_queue
    BY <1>1, <1>3
  <1> QED
    BY <1>5, <1>6

LEMMA ReplaceInQueueStep ==
  ASSUME IInv, NEW c \in Client, ReplaceInQueue(c)
  PROVE  IInv'
  <1>1. Tail(duel_queue) = <<>>
    BY PoppedQueueIsEmpty DEF ReplaceInQueue
  <1>2. duel_queue' = Append(<<>>, c)
    BY <1>1, Zenon DEF ReplaceInQueue
  <1>3. duel_queue' = <<c>>
    BY <1>2
  <1> QED
    BY <1>3, QueueStep DEF ReplaceInQueue

-----------------------------------------------------------------------------
(* The two packets that change a duel. *)

Opponent == Head(duel_queue)
NewDuel == Len(active_duels) + 1

\* Who is matched, and what the new duel does to the queue and the duels.
LEMMA MeetOpponentEffect ==
  ASSUME IInv, NEW c \in Client, MeetOpponent(c)
  PROVE  /\ Opponent \in clients
         /\ Opponent \in Client
         /\ Opponent # c
         /\ DuelsOf(Opponent) = {}
         /\ DuelsOf(c) = {}
         /\ DOMAIN duel_queue = {1}
         /\ duel_queue[1] = Opponent
         /\ duel_queue' = <<>>
         /\ NewDuel \in 1..MaxDuels
         /\ active_duels' \in Seq(Duel)
         /\ Len(active_duels') = NewDuel
         /\ DOMAIN active_duels' = DOMAIN active_duels \cup {NewDuel}
         /\ NewDuel \notin DOMAIN active_duels
         /\ \A i \in DOMAIN active_duels : active_duels'[i] = active_duels[i]
         /\ active_duels'[NewDuel].challenger = c
         /\ active_duels'[NewDuel].opponent = Opponent
         /\ OpenDuels' = OpenDuels \cup {NewDuel}
         /\ shown' = [shown EXCEPT ![c] = NewDuel, ![Opponent] = NewDuel]
         /\ clients' = clients \cup {c}
         /\ announced' = announced
  <1>1. /\ Opponent \in clients
        /\ Opponent \in Client
        /\ Opponent # c
        /\ DuelsOf(Opponent) = {}
        /\ DuelsOf(c) = {}
    BY PoppedQueueIsEmpty
    DEF MeetOpponent, IInv, TypeOK, QueuedClientIsFree, IsInDuel,
        OpponentExists, Opponent
  <1>2. /\ duel_queue' = <<>>
        /\ duel_queue[1] = Opponent
        /\ 1 \in DOMAIN duel_queue
    BY PoppedQueueIsEmpty DEF MeetOpponent, Opponent
  <1>3. PICK answer \in Answer :
          /\ Len(active_duels) < MaxDuels
          /\ active_duels' =
               Append(active_duels,
                      [challenger |-> c, opponent |-> Opponent,
                       answer |-> answer, active |-> TRUE, solved |-> FALSE])
          /\ shown' = [shown EXCEPT ![c] = NewDuel, ![Opponent] = NewDuel]
    BY DEF MeetOpponent, StartMathDuel, Opponent, NewDuel
  <1>4. /\ NewDuel \in 1..MaxDuels
        /\ active_duels' \in Seq(Duel)
        /\ Len(active_duels') = NewDuel
        /\ DOMAIN active_duels' = DOMAIN active_duels \cup {NewDuel}
        /\ NewDuel \notin DOMAIN active_duels
        /\ \A i \in DOMAIN active_duels : active_duels'[i] = active_duels[i]
        /\ active_duels'[NewDuel] =
             [challenger |-> c, opponent |-> Opponent,
              answer |-> answer, active |-> TRUE, solved |-> FALSE]
    <2>1. PICK duel \in Duel :
            duel = [challenger |-> c, opponent |-> Opponent,
                    answer |-> answer, active |-> TRUE, solved |-> FALSE]
      BY <1>1 DEF Duel
    <2>2. active_duels \in Seq(Duel) /\ active_duels' = Append(active_duels, duel)
      BY <1>3, <2>1 DEF IInv, TypeOK
    <2>3. /\ active_duels' \in Seq(Duel)
          /\ Len(active_duels') = Len(active_duels) + 1
          /\ \A i \in 1..Len(active_duels) : active_duels'[i] = active_duels[i]
          /\ active_duels'[Len(active_duels) + 1] = duel
      BY <2>2, AppendProperties
    <2>4. /\ DOMAIN active_duels = 1..Len(active_duels)
          /\ DOMAIN active_duels' = 1..Len(active_duels')
          /\ Len(active_duels) \in 0..MaxDuels
      BY <2>3, DuelIndices, LenProperties DEF IInv
    <2>5. /\ NewDuel \in 1..MaxDuels /\ NewDuel \notin DOMAIN active_duels
          /\ DOMAIN active_duels' = DOMAIN active_duels \cup {NewDuel}
      BY <1>3, <2>3, <2>4 DEF NewDuel
    <2> QED
      BY <2>1, <2>3, <2>4, <2>5 DEF NewDuel
  <1>5. OpenDuels' = OpenDuels \cup {NewDuel}
    BY <1>4 DEF OpenDuels, Open
  <1>6. DOMAIN duel_queue = {1}
    <2>1. Len(duel_queue) \in Nat
      BY LenProperties DEF IInv, TypeOK
    <2> QED
      BY <1>2, <2>1, DuelIndices DEF IInv, QueuedClientIsFree
  <1>7. clients' = clients \cup {c} /\ announced' = announced
    BY DEF MeetOpponent, Register
  <1> QED
    BY <1>1, <1>2, <1>3, <1>4, <1>5, <1>6, <1>7

\* A new duel goes at the end, open, to two clients that had none.
LEMMA MeetOpponentStep ==
  ASSUME IInv, NEW c \in Client, MeetOpponent(c)
  PROVE  IInv'
  <1> DEFINE opponent == Opponent
             n == NewDuel
  <1>1. /\ opponent \in clients
        /\ opponent \in Client
        /\ opponent # c
        /\ DuelsOf(opponent) = {}
        /\ DuelsOf(c) = {}
        /\ duel_queue' = <<>>
    BY MeetOpponentEffect
  <1>2. /\ n \in 1..MaxDuels
        /\ active_duels' \in Seq(Duel)
        /\ Len(active_duels') = n
        /\ DOMAIN active_duels' = DOMAIN active_duels \cup {n}
        /\ n \notin DOMAIN active_duels
        /\ \A i \in DOMAIN active_duels : active_duels'[i] = active_duels[i]
        /\ active_duels'[n].challenger = c
        /\ active_duels'[n].opponent = opponent
        /\ OpenDuels' = OpenDuels \cup {n}
    BY MeetOpponentEffect
  <1>3. /\ shown' = [shown EXCEPT ![c] = n, ![opponent] = n]
        /\ clients' = clients \cup {c}
        /\ announced' = announced
    BY MeetOpponentEffect
  <1> HIDE DEF opponent, n
  <1>4. /\ shown' \in [Client -> 0..MaxDuels]
        /\ shown'[c] = n
        /\ shown'[opponent] = n
        /\ \A x \in Client : x # c /\ x # opponent => shown'[x] = shown[x]
    <2>1. shown \in [Client -> 0..MaxDuels] /\ n \in 0..MaxDuels
      BY <1>2 DEF IInv, TypeOK
    <2> QED
      BY <1>1, <1>3, <2>1
  <1>5. \A x : DuelsOf(x)' =
                 IF x = c \/ x = opponent THEN DuelsOf(x) \cup {n}
                                          ELSE DuelsOf(x)
    BY <1>2 DEF DuelsOf, OpenDuels, Plays
  <1>6. TypeOK'
    BY <1>1, <1>2, <1>3, <1>4, SMTT(40) DEF IInv, TypeOK
  <1>7. QueuedClientIsFree'
    BY <1>1 DEF QueuedClientIsFree
  <1>8. OneDuelPerClient'
    <2>1. \A x \in Client : \A i, j \in DuelsOf(x)' : i = j
      BY <1>1, <1>5 DEF IInv, OneDuelPerClient
    <2>2. \A i \in DOMAIN active_duels' :
            active_duels'[i].challenger # active_duels'[i].opponent
      BY <1>1, <1>2 DEF IInv, OneDuelPerClient
    <2> QED
      BY <2>1, <2>2 DEF OneDuelPerClient
  <1>9. OneWinnerPerDuel'
    <2>1. \A r \in DOMAIN announced : announced[r].duel # n
      BY <1>2 DEF IInv, OneWinnerPerDuel
    <2>2. \A i \in DOMAIN active_duels' :
            Open(active_duels'[i]) <=> i = n \/ Open(active_duels[i])
      BY <1>2 DEF OpenDuels
    <2> QED
      BY <1>2, <1>3, <2>1, <2>2 DEF IInv, OneWinnerPerDuel, Plays, Open
  <1>10. PlayersSawTheProblem'
    <2> SUFFICES ASSUME NEW x \in Client, NEW i \in DuelsOf(x)'
                 PROVE  x \in clients' /\ shown'[x] = i
      BY DEF PlayersSawTheProblem
    <2>1. CASE x = c \/ x = opponent
      BY <1>1, <1>3, <1>4, <1>5, <2>1
    <2>2. CASE x # c /\ x # opponent
      BY <1>3, <1>4, <1>5, <2>2 DEF IInv, PlayersSawTheProblem
    <2> QED
      BY <2>1, <2>2
  <1> QED
    BY <1>6, <1>7, <1>8, <1>9, <1>10 DEF IInv

\* Which duel a right answer closes, and what closing it does to the others.
LEMMA AnswerRightEffect ==
  ASSUME IInv, NEW c \in Client, NEW a \in Answer, AnswerRight(c, a)
  PROVE  \E k \in 1..MaxDuels :
           /\ k \in OpenDuels
           /\ k \in 1..Len(active_duels)
           /\ Plays(c, active_duels[k])
           /\ active_duels' \in Seq(Duel)
           /\ Len(active_duels') = Len(active_duels)
           /\ DOMAIN active_duels' = DOMAIN active_duels
           /\ \A i \in DOMAIN active_duels :
                /\ active_duels'[i].challenger = active_duels[i].challenger
                /\ active_duels'[i].opponent = active_duels[i].opponent
           /\ \A i \in DOMAIN active_duels :
                Open(active_duels'[i]) <=> i # k /\ Open(active_duels[i])
           /\ OpenDuels' = OpenDuels \ {k}
           /\ announced' = Append(announced, [duel |-> k, winner |-> c])
           /\ clients' = clients \cup {c}
           /\ duel_queue' = duel_queue
           /\ shown' = shown
  <1> DEFINE k == CurrentDuel(c)
  <1>1. k \in OpenDuels /\ Plays(c, active_duels[k])
    <2>1. DuelsOf(c) = {k}
      BY CurrentDuelIsTheDuel DEF AnswerRight
    <2> QED
      BY <2>1 DEF DuelsOf
  <1>2. /\ k \in 1..Len(active_duels)
        /\ Open(active_duels[k])
        /\ active_duels[k] \in Duel
        /\ k \in 1..MaxDuels
    BY <1>1, DuelIndices DEF IInv, OpenDuels
  <1>3. /\ clients' = clients \cup {c}
        /\ announced' = Append(announced, [duel |-> k, winner |-> c])
        /\ active_duels' =
             [active_duels EXCEPT ![k].solved = TRUE, ![k].active = FALSE]
        /\ duel_queue' = duel_queue
        /\ shown' = shown
    BY DEF AnswerRight, CloseDuel, Register
  <1> HIDE DEF k
  <1> DEFINE closed == [active_duels[k] EXCEPT !.solved = TRUE,
                                               !.active = FALSE]
  <1>4. /\ closed \in Duel
        /\ ~Open(closed)
        /\ closed.challenger = active_duels[k].challenger
        /\ closed.opponent = active_duels[k].opponent
    BY <1>2 DEF Duel, Open
  <1>5. active_duels' = [active_duels EXCEPT ![k] = closed]
    BY <1>2, <1>3, DuelIndices DEF IInv, TypeOK
  <1> HIDE DEF closed
  <1>6. /\ active_duels' \in Seq(Duel)
        /\ Len(active_duels') = Len(active_duels)
        /\ DOMAIN active_duels' = DOMAIN active_duels
        /\ \A i \in DOMAIN active_duels :
             active_duels'[i] = IF i = k THEN closed ELSE active_duels[i]
    <2>1. active_duels \in Seq(Duel)
      BY DEF IInv, TypeOK
    <2> QED
      BY <1>2, <1>4, <1>5, <2>1, ExceptSeq, LenProperties
  <1>7. \A i \in DOMAIN active_duels :
          /\ active_duels'[i].challenger = active_duels[i].challenger
          /\ active_duels'[i].opponent = active_duels[i].opponent
    BY <1>4, <1>6
  <1>8. \A i \in DOMAIN active_duels :
          Open(active_duels'[i]) <=> i # k /\ Open(active_duels[i])
    BY <1>4, <1>6
  <1>9. OpenDuels' = OpenDuels \ {k}
    BY <1>6, <1>8 DEF OpenDuels
  <1> QED
    BY <1>1, <1>2, <1>3, <1>6, <1>7, <1>8, <1>9

\* The duel that is announced as won is the one that is closed.
LEMMA AnswerRightStep ==
  ASSUME IInv, NEW c \in Client, NEW a \in Answer, AnswerRight(c, a)
  PROVE  IInv'
  <1>1. PICK k \in 1..MaxDuels :
           /\ k \in OpenDuels
           /\ k \in 1..Len(active_duels)
           /\ Plays(c, active_duels[k])
           /\ active_duels' \in Seq(Duel)
           /\ Len(active_duels') = Len(active_duels)
           /\ DOMAIN active_duels' = DOMAIN active_duels
           /\ \A i \in DOMAIN active_duels :
                /\ active_duels'[i].challenger = active_duels[i].challenger
                /\ active_duels'[i].opponent = active_duels[i].opponent
           /\ \A i \in DOMAIN active_duels :
                Open(active_duels'[i]) <=> i # k /\ Open(active_duels[i])
           /\ OpenDuels' = OpenDuels \ {k}
           /\ announced' = Append(announced, [duel |-> k, winner |-> c])
           /\ clients' = clients \cup {c}
           /\ duel_queue' = duel_queue
           /\ shown' = shown
    BY AnswerRightEffect
  <1>2. \A x : DuelsOf(x)' = DuelsOf(x) \ {k}
    BY <1>1 DEF DuelsOf, OpenDuels, Plays
  <1>3. /\ announced' \in Seq(Result)
        /\ DOMAIN announced' = DOMAIN announced \cup {Len(announced) + 1}
        /\ Len(announced) + 1 \notin DOMAIN announced
        /\ \A r \in DOMAIN announced : announced'[r] = announced[r]
        /\ announced'[Len(announced) + 1] = [duel |-> k, winner |-> c]
    <2>1. PICK new \in Result : new = [duel |-> k, winner |-> c]
      BY DEF Result
    <2>2. announced \in Seq(Result) /\ announced' = Append(announced, new)
      BY <1>1, <2>1 DEF IInv, TypeOK
    <2>3. /\ announced' \in Seq(Result)
          /\ Len(announced') = Len(announced) + 1
          /\ \A r \in 1..Len(announced) : announced'[r] = announced[r]
          /\ announced'[Len(announced) + 1] = new
      BY <2>2, AppendProperties
    <2>4. /\ DOMAIN announced = 1..Len(announced) /\ Len(announced) \in Nat
          /\ DOMAIN announced' = 1..Len(announced')
      BY <2>2, <2>3, LenProperties
    <2>5. /\ DOMAIN announced' = DOMAIN announced \cup {Len(announced) + 1}
          /\ Len(announced) + 1 \notin DOMAIN announced
      BY <2>3, <2>4
    <2> QED
      BY <2>1, <2>3, <2>4, <2>5
  <1>4. TypeOK'
    BY <1>1, <1>3 DEF IInv, TypeOK
  <1>5. QueuedClientIsFree'
    BY <1>1, <1>2 DEF IInv, QueuedClientIsFree, IsInDuel
  <1>6. OneDuelPerClient'
    BY <1>1, <1>2 DEF IInv, OneDuelPerClient
  <1>7. OneWinnerPerDuel'
    <2>1. \A r \in DOMAIN announced : announced[r].duel # k
      BY <1>1, DuelIndices DEF IInv, OneWinnerPerDuel, OpenDuels
    <2>2. \A r, s \in DOMAIN announced' :
            announced'[r].duel = announced'[s].duel => r = s
      BY <1>3, <2>1 DEF IInv, OneWinnerPerDuel
    <2>3. \A r \in DOMAIN announced' :
            /\ announced'[r].duel \in DOMAIN active_duels'
            /\ Plays(announced'[r].winner, active_duels'[announced'[r].duel])
      <3>1. \A i \in DOMAIN active_duels, x \in Client :
              Plays(x, active_duels[i]) => Plays(x, active_duels'[i])
        BY <1>1 DEF Plays
      <3>2. \A r \in DOMAIN announced :
              /\ announced[r].winner \in Client
              /\ announced[r].duel \in DOMAIN active_duels
              /\ Plays(announced[r].winner, active_duels[announced[r].duel])
        BY DuelIndices DEF IInv, OneWinnerPerDuel, Result
      <3>3. k \in DOMAIN active_duels
        BY <1>1 DEF OpenDuels
      <3> QED
        BY <1>1, <1>3, <3>1, <3>2, <3>3
    <2>4. \A i \in DOMAIN active_duels' :
            Open(active_duels'[i])
              <=> (\A r \in DOMAIN announced' : announced'[r].duel # i)
      BY <1>1, <1>3 DEF IInv, OneWinnerPerDuel
    <2> QED
      BY <2>2, <2>3, <2>4 DEF OneWinnerPerDuel, Open, Plays
  <1>8. PlayersSawTheProblem'
    BY <1>1, <1>2 DEF IInv, PlayersSawTheProblem
  <1> QED
    BY <1>4, <1>5, <1>6, <1>7, <1>8 DEF IInv

-----------------------------------------------------------------------------
LEMMA NextIInv == IInv /\ [Next]_vars => IInv'
  <1> SUFFICES ASSUME IInv, [Next]_vars PROVE IInv'
    OBVIOUS
  <1>1. ASSUME NEW c \in Client, RefuseMathduel(c) PROVE IInv'
    BY <1>1, QuietStep DEF RefuseMathduel
  <1>2. ASSUME NEW c \in Client, NEW a \in Answer, AnswerWrong(c, a) PROVE IInv'
    BY <1>2, QuietStep DEF AnswerWrong
  <1>3. ASSUME NEW c \in Client, AnswerOutsideDuel(c) PROVE IInv'
    BY <1>3, QuietStep DEF AnswerOutsideDuel
  <1>4. ASSUME NEW c \in Client, OtherText(c) PROVE IInv'
    BY <1>4, QuietStep DEF OtherText
  <1>5. CASE UNCHANGED vars
    BY <1>5 DEF vars, IInv, TypeOK, QueuedClientIsFree, OneDuelPerClient,
                OneWinnerPerDuel, PlayersSawTheProblem, IsInDuel, DuelsOf,
                OpenDuels, Open, Plays
  <1> QED
    BY <1>1, <1>2, <1>3, <1>4, <1>5, WaitForOpponentStep, ReplaceInQueueStep,
       MeetOpponentStep, AnswerRightStep
    DEF Next, HandlePacket, Mathduel, Ans

\* The invariants hold together in every reachable state.
THEOREM Invariance == Spec => []IInv
  BY InitIInv, NextIInv, PTL DEF Spec

\* Every variable of the server keeps the type it is declared with; the
\* number of duels is bounded by the model's bound only.
THEOREM TypeCorrect == Spec => []TypeOK
  BY Invariance, PTL DEF IInv

\* Whoever asks for a duel while another client waits meets a free opponent.
THEOREM QueueIsSound == Spec => []QueuedClientIsFree
  BY Invariance, PTL DEF IInv

\* No client is ever in two open duels, nor in one against itself.
THEOREM DuelsAreDisjoint == Spec => []OneDuelPerClient
  BY Invariance, PTL DEF IInv

\* Nobody is matched with a player, with itself, or twice.
THEOREM DuelsExclude == Spec => []DuelsAreExclusive
  BY Invariance, PTL DEF IInv, DuelsAreExclusive

\* Whatever the order in which the answers arrive, a duel has one winner.
THEOREM WinnerIsUnique == Spec => []OneWinnerPerDuel
  BY Invariance, PTL DEF IInv

\* The players of an open duel were sent its problem last.
THEOREM ProblemIsShown == Spec => []PlayersSawTheProblem
  BY Invariance, PTL DEF IInv

-----------------------------------------------------------------------------
(* The server implements MatchMaking.  The three lemmas say what the         *)
(* refinement mapping makes of the queue, the duels and the announcements.   *)

Waiting == {duel_queue[i] : i \in DOMAIN duel_queue}
Pair(i) == {active_duels[i].challenger, active_duels[i].opponent}
Playing == {Pair(i) : i \in OpenDuels}
Winners == [r \in DOMAIN announced |-> announced[r].winner]

\* A client is busy in the abstraction exactly when IsInDuel says so.
LEMMA BusyIsInDuel ==
  ASSUME NEW c
  PROVE  (\E m \in Playing : c \in m) <=> IsInDuel(c)
  BY DEF Playing, Pair, IsInDuel, DuelsOf, Plays

\* Two open duels never have the same two players.
LEMMA PairsAreDistinct ==
  ASSUME IInv, NEW i \in OpenDuels, NEW j \in OpenDuels, Pair(i) = Pair(j)
  PROVE  i = j
  <1>1. active_duels[i] \in Duel /\ active_duels[j] \in Duel
    BY DuelIndices DEF IInv, OpenDuels
  <1>2. active_duels[i].challenger \in Client
    BY <1>1 DEF Duel
  <1>3. i \in DuelsOf(active_duels[i].challenger)
    BY DEF DuelsOf, Plays
  <1>4. j \in DuelsOf(active_duels[i].challenger)
    BY DEF DuelsOf, Plays, Pair
  <1> QED
    BY <1>2, <1>3, <1>4 DEF IInv, OneDuelPerClient

LEMMA QuietStepRefines ==
  ASSUME UNCHANGED <<duel_queue, active_duels, announced, shown>>
  PROVE  UNCHANGED <<Waiting, Playing, Winners>>
  BY DEF Waiting, Playing, Pair, Winners, OpenDuels, Open

LEMMA WaitRefines ==
  ASSUME IInv, NEW c \in Client, WaitForOpponent(c)
  PROVE  /\ Waiting = {} /\ Waiting' = {c}
         /\ ~ \E m \in Playing : c \in m
         /\ UNCHANGED <<Playing, Winners>>
  <1>1. duel_queue = <<>> /\ duel_queue' = <<c>>
    BY DEF WaitForOpponent
  <1>2. Waiting = {} /\ Waiting' = {c}
    BY <1>1 DEF Waiting
  <1>3. ~ \E m \in Playing : c \in m
    BY BusyIsInDuel DEF WaitForOpponent
  <1>4. UNCHANGED <<Playing, Winners>>
    BY DEF WaitForOpponent, Playing, Pair, Winners, OpenDuels, Open
  <1> QED
    BY <1>2, <1>3, <1>4

\* Popping oneself and waiting again changes nothing a player can tell.
LEMMA ReplaceRefines ==
  ASSUME IInv, NEW c \in Client, ReplaceInQueue(c)
  PROVE  UNCHANGED <<Waiting, Playing, Winners>>
  <1>1. duel_queue # <<>> /\ ~OpponentExists(Head(duel_queue), c)
    BY DEF ReplaceInQueue
  <1>2. /\ Head(duel_queue) = duel_queue[1]
        /\ 1 \in DOMAIN duel_queue
        /\ Tail(duel_queue) = <<>>
    BY <1>1, PoppedQueueIsEmpty
  <1>3. Head(duel_queue) = c
    BY <1>1, <1>2 DEF OpponentExists, IInv, QueuedClientIsFree
  <1>4. Len(duel_queue) <= 1 /\ DOMAIN duel_queue = 1..Len(duel_queue)
    BY DuelIndices DEF IInv, QueuedClientIsFree
  <1>5. Len(duel_queue) \in Nat
    BY LenProperties DEF IInv, TypeOK
  <1>6. DOMAIN duel_queue = {1}
    BY <1>2, <1>4, <1>5
  <1>7. duel_queue' = Append(<<>>, c)
    BY <1>2, Zenon DEF ReplaceInQueue
  <1>8. duel_queue' = <<c>>
    BY <1>7
  <1>9. Waiting = {c} /\ Waiting' = {c}
    BY <1>2, <1>3, <1>6, <1>8 DEF Waiting
  <1>10. UNCHANGED <<Playing, Winners>>
    BY DEF ReplaceInQueue, Playing, Pair, Winners, OpenDuels, Open
  <1> QED
    BY <1>9, <1>10

LEMMA MeetRefines ==
  ASSUME IInv, NEW c \in Client, MeetOpponent(c)
  PROVE  /\ Opponent \in Client /\ c # Opponent
         /\ Waiting = {Opponent} /\ Waiting' = {}
         /\ ~ \E m \in Playing : c \in m
         /\ ~ \E m \in Playing : Opponent \in m
         /\ Playing' = Playing \cup {{c, Opponent}}
         /\ Winners' = Winners
  <1>1. /\ Opponent \in Client
        /\ Opponent # c
        /\ ~IsInDuel(Opponent)
        /\ ~IsInDuel(c)
    BY MeetOpponentEffect DEF IsInDuel
  <1>2. Waiting = {Opponent} /\ Waiting' = {}
    <2>1. /\ DOMAIN duel_queue = {1}
          /\ duel_queue[1] = Opponent
          /\ duel_queue' = <<>>
      BY MeetOpponentEffect
    <2> QED
      BY <2>1 DEF Waiting
  <1>3. Playing' = Playing \cup {{c, Opponent}}
    <2>1. /\ OpenDuels' = OpenDuels \cup {NewDuel}
          /\ \A i \in DOMAIN active_duels : active_duels'[i] = active_duels[i]
          /\ active_duels'[NewDuel].challenger = c
          /\ active_duels'[NewDuel].opponent = Opponent
      BY MeetOpponentEffect
    <2>2. \A i \in OpenDuels : Pair(i)' = Pair(i)
      BY <2>1 DEF Pair, OpenDuels
    <2>3. {active_duels'[NewDuel].challenger, active_duels'[NewDuel].opponent}
            = {c, Opponent}
      BY <2>1
    <2>4. Playing' = {{active_duels'[i].challenger, active_duels'[i].opponent} :
                        i \in OpenDuels \cup {NewDuel}}
      BY <2>1 DEF Playing, Pair
    <2>5. \A i \in OpenDuels :
            {active_duels'[i].challenger, active_duels'[i].opponent} = Pair(i)
      BY <2>2 DEF Pair
    <2>6. Playing' \subseteq Playing \cup {{c, Opponent}}
      BY <2>3, <2>4, <2>5 DEF Playing
    <2>7. Playing \subseteq Playing'
      BY <2>4, <2>5 DEF Playing
    <2>8. {c, Opponent} \in Playing'
      BY <2>3, <2>4
    <2> QED
      BY <2>6, <2>7, <2>8
  <1>4. Winners' = Winners
    BY MeetOpponentEffect DEF Winners
  <1> QED
    BY <1>1, <1>2, <1>3, <1>4, BusyIsInDuel

LEMMA AnswerRefines ==
  ASSUME IInv, NEW c \in Client, NEW a \in Answer, AnswerRight(c, a)
  PROVE  /\ \E m \in Playing : c \in m /\ Playing' = Playing \ {m}
         /\ Winners' = Append(Winners, c)
         /\ Waiting' = Waiting
  <1>1. PICK k \in OpenDuels :
           /\ Plays(c, active_duels[k])
           /\ \A i \in DOMAIN active_duels :
                /\ active_duels'[i].challenger = active_duels[i].challenger
                /\ active_duels'[i].opponent = active_duels[i].opponent
           /\ OpenDuels' = OpenDuels \ {k}
           /\ announced' = Append(announced, [duel |-> k, winner |-> c])
           /\ duel_queue' = duel_queue
    BY AnswerRightEffect
  <1>2. Pair(k) \in Playing /\ c \in Pair(k)
    BY <1>1 DEF Playing, Pair, Plays
  <1>3. \A i \in OpenDuels : Pair(i)' = Pair(i)
    BY <1>1 DEF Pair, OpenDuels
  <1>4. Playing' = {Pair(i) : i \in OpenDuels \ {k}}
    BY <1>1, <1>3, ZenonT(40) DEF Playing, Pair
  <1>5. Playing' = Playing \ {Pair(k)}
    BY <1>4, PairsAreDistinct DEF Playing
  <1>6. Winners' = Append(Winners, c)
    <2>1. announced \in Seq(Result) /\ Len(announced) \in Nat
      BY LenProperties DEF IInv, TypeOK
    <2>2. DOMAIN announced = 1..Len(announced)
      BY DuelIndices DEF IInv
    <2> DEFINE n == Len(announced)
    <2>3. /\ Winners = [r \in 1..n |-> announced[r].winner]
          /\ \A r \in 1..n : announced[r] \in Result
      BY <2>1, <2>2, DuelIndices DEF Winners, IInv
    <2>4. Winners \in [1..n -> Client]
      BY <2>3 DEF Result
    <2>5. Winners \in Seq(Client)
      BY <2>1, <2>4
    <2>6. Len(Winners) = n
      BY <2>1, <2>4, <2>5
    <2>7. /\ Len(announced') = n + 1
          /\ DOMAIN announced' = 1..(n + 1)
          /\ \A r \in 1..n : announced'[r] = announced[r]
          /\ announced'[n + 1].winner = c
      BY <1>1, <2>1
    <2>8. Winners' = [r \in 1..(n + 1) |-> announced'[r].winner]
      BY <2>7 DEF Winners
    <2> QED
      BY <2>1, <2>3, <2>5, <2>6, <2>7, <2>8
  <1>7. Waiting' = Waiting
    BY <1>1 DEF Waiting
  <1> QED
    BY <1>2, <1>5, <1>6, <1>7

\* Every step of the server is a step of MatchMaking or changes nothing there.
LEMMA NextRefines == IInv /\ [Next]_vars => [Abstract!Next]_(Abstract!vars)
  <1> SUFFICES ASSUME IInv, [Next]_vars
               PROVE  [Abstract!Next]_(Abstract!vars)
    OBVIOUS
  <1> USE DEF Abstract!Next, Abstract!vars, Waiting, Playing, Pair, Winners
  <1>1. ASSUME UNCHANGED <<duel_queue, active_duels, announced, shown>>
        PROVE  UNCHANGED Abstract!vars
    BY <1>1, QuietStepRefines
  <1>2. ASSUME NEW c \in Client, WaitForOpponent(c)
        PROVE  Abstract!Wait(c)
    BY <1>2, WaitRefines DEF Abstract!Wait, Abstract!Busy
  <1>3. ASSUME NEW c \in Client, ReplaceInQueue(c)
        PROVE  UNCHANGED Abstract!vars
    BY <1>3, ReplaceRefines
  <1>4. ASSUME NEW c \in Client, MeetOpponent(c)
        PROVE  \E q \in Client : Abstract!Match(c, q)
    BY <1>4, MeetRefines DEF Abstract!Match, Abstract!Busy
  <1>5. ASSUME NEW c \in Client, NEW a \in Answer, AnswerRight(c, a)
        PROVE  Abstract!Next
    BY <1>5, AnswerRefines DEF Abstract!Decide
  <1>6. ASSUME NEW c \in Client,
               \/ RefuseMathduel(c)
               \/ \E a \in Answer : AnswerWrong(c, a)
               \/ AnswerOutsideDuel(c)
               \/ OtherText(c)
        PROVE  UNCHANGED Abstract!vars
    BY <1>1, <1>6
    DEF RefuseMathduel, AnswerWrong, AnswerOutsideDuel, OtherText
  <1>7. UNCHANGED vars => UNCHANGED Abstract!vars
    BY <1>1 DEF vars
  <1> HIDE DEF Abstract!vars, Waiting, Playing, Pair, Winners
  <1> QED
    BY <1>2, <1>3, <1>4, <1>5, <1>6, <1>7
    DEF Next, HandlePacket, Mathduel, Ans

LEMMA InitRefines == Init => Abstract!Init
  BY DEF Init, Abstract!Init, OpenDuels

\* The server implements MatchMaking: whatever datagrams arrive, it behaves
\* like a match maker that pairs free players and decides each match once.
THEOREM Refinement == Spec => ImplementsMatchMaking
  BY InitRefines, NextRefines, Invariance, PTL
  DEF Spec, ImplementsMatchMaking, Abstract!Spec

-----------------------------------------------------------------------------
(* The thread-pool demo: past its latch the main thread finds every task
   through, past Stop every worker idle, and at the end every result where it
   should be, for any number of tasks and any set of workers. *)

USE TaskAssumption

-----------------------------------------------------------------------------
(* The inductive invariant: where each task is. *)

Unsubmitted == next..kTaskCount

\* A worker that has not counted down for its task.  Past that it has only to
\* leave the closure.
Busy(w) == at[w] \in {"work", "post", "count_down"}

\* A task that has neither come to the end of its work nor been refused.
Ahead ==
  Unsubmitted \cup ToSet(queue)
    \cup {task[w] : w \in {v \in Worker : at[v] \in {"work", "post"}}}

\* A task for which nobody has counted the latch down.
Uncounted ==
  Unsubmitted \cup ToSet(queue) \cup {task[w] : w \in {v \in Worker : Busy(v)}}

\* A task that was worked to its end, and not in vain.
Written ==
  IF demo = "low" THEN {i \in Task : results[i] # "nobody"} ELSE ToSet(owner_queue)

\* No task is in two places.
OnePlaceEach ==
  /\ IsInjective(queue)
  /\ \A i \in ToSet(queue) : i < next
  /\ \A w \in Worker :
       Busy(w) => task[w] < next /\ task[w] \notin ToSet(queue)
  /\ \A w, v \in Worker : Busy(w) /\ Busy(v) /\ task[w] = task[v] => w = v

\* The latch counts the tasks that somebody will still count down.
LatchCounts == latch = Cardinality(Uncounted)

\* Who has written what; a task is written once.
WritersAreRight ==
  /\ IsInjective(owner_queue)
  /\ Written \cap Ahead = {}
  /\ demo = "low" =>
       /\ owner_queue = <<>>
       /\ post_failures = 0
       /\ \A w \in Worker : at[w] # "post"
       /\ \A i \in Task : results[i] \in {"nobody", "worker"}
  /\ demo = "high" =>
       \A i \in Task :
         results[i] = IF pc \in {"check", "returned"} /\ i \in ToSet(owner_queue)
                      THEN "owner" ELSE "nobody"

\* Nothing was refused, and nothing failed, exactly if no task is missing.
NoneIsMissing ==
  /\ submitted /\ post_failures = 0 <=> Ahead \cup Written = Task
  /\ post_failures + Cardinality(Ahead) <= kTaskCount

\* Past the latch, past Stop, and at the end.
PastTheLatch ==
  /\ pc \in {"stop", "drain", "check", "returned"} => Uncounted = {}
  /\ pc \in {"drain", "check", "returned"} => \A w \in Worker : at[w] = "idle"
  /\ pc = "drain" => demo = "high"
  /\ pc = "returned" =>
       /\ ok <=> submitted /\ post_failures = 0

DemoInv ==
  /\ DemoTypeOK
  /\ OnePlaceEach
  /\ LatchCounts
  /\ WritersAreRight
  /\ NoneIsMissing
  /\ PastTheLatch

-----------------------------------------------------------------------------
(* Sets of tasks *)

LEMMA TasksAreFinite ==
  /\ IsFiniteSet(Task) /\ Cardinality(Task) = kTaskCount
  /\ \A S \in SUBSET Task : IsFiniteSet(S) /\ Cardinality(S) \in 0..kTaskCount
<1>1. IsFiniteSet(Task) /\ Cardinality(Task) = kTaskCount
  BY FS_Interval DEF Task
<1>2. ASSUME NEW S \in SUBSET Task
      PROVE  IsFiniteSet(S) /\ Cardinality(S) \in 0..kTaskCount
  <2>1. IsFiniteSet(S) /\ Cardinality(S) <= kTaskCount
    BY <1>1, FS_Subset
  <2>2. Cardinality(S) \in Nat
    BY <2>1, FS_CardinalityType
  <2> QED
    BY <2>1, <2>2
<1> QED
  BY <1>1, <1>2

\* Counting down for one task.
LEMMA OneTaskLess ==
  ASSUME NEW S \in SUBSET Task, NEW i \in S
  PROVE  Cardinality(S \ {i}) = Cardinality(S) - 1 /\ Cardinality(S) \in 1..kTaskCount
<1>1. IsFiniteSet(S) /\ Cardinality(S) \in 0..kTaskCount
  BY TasksAreFinite
<1>2. Cardinality(S) # 0
  BY <1>1, FS_EmptySet
<1>3. Cardinality(S \ {i}) = Cardinality(S) - 1
  BY <1>1, FS_RemoveElement, Zenon
<1> QED
  BY <1>1, <1>2, <1>3

LEMMA PlacesHoldTasks ==
  ASSUME DemoTypeOK
  PROVE  /\ Ahead \in SUBSET Task /\ Uncounted \in SUBSET Task
         /\ Ahead \subseteq Uncounted
         /\ Written \in SUBSET Task
         /\ ToSet(queue) \subseteq Task /\ ToSet(owner_queue) \subseteq Task
         /\ Unsubmitted \subseteq Task
<1>1. ToSet(queue) \subseteq Task /\ ToSet(owner_queue) \subseteq Task
  BY LenProperties DEF DemoTypeOK, ToSet
<1>2. Unsubmitted \subseteq Task
  <2>1. next \in 1..kTaskCount + 1
    BY DEF DemoTypeOK
  <2> QED
    BY <2>1 DEF Unsubmitted, Task
<1>3. \A w \in Worker : task[w] \in Task
  BY DEF DemoTypeOK
<1> QED
  BY <1>1, <1>2, <1>3 DEF Ahead, Uncounted, Written, Busy

-----------------------------------------------------------------------------
LEMMA InitDemoInv == DemoInit => DemoInv
<1> SUFFICES ASSUME DemoInit PROVE DemoInv
  OBVIOUS
<1>1. DemoTypeOK
  <2>1. 1 \in Task /\ 1 \in 1..kTaskCount + 1 /\ kTaskCount \in 0..kTaskCount
        /\ 0 \in 0..kTaskCount
    BY DEF Task
  <2>2. <<>> \in Seq(Task)
    BY EmptySeq
  <2> QED
    BY <2>1, <2>2 DEF DemoInit, DemoTypeOK
<1>2. ToSet(queue) = {} /\ ToSet(owner_queue) = {} /\ Unsubmitted = Task
  BY DEF DemoInit, ToSet, Unsubmitted, Task
<1>3. Ahead = Task /\ Uncounted = Task /\ Written = {}
  BY <1>2 DEF DemoInit, Ahead, Uncounted, Written, Busy
<1>4. OnePlaceEach
  BY <1>2 DEF DemoInit, OnePlaceEach, Busy, IsInjective
<1>5. LatchCounts
  BY <1>3, TasksAreFinite DEF DemoInit, LatchCounts
<1>6. WritersAreRight
  BY <1>3 DEF DemoInit, WritersAreRight, IsInjective
<1>7. NoneIsMissing
  BY <1>3, TasksAreFinite DEF DemoInit, NoneIsMissing
<1>8. PastTheLatch
  BY DEF DemoInit, PastTheLatch
<1> QED
  BY <1>1, <1>4, <1>5, <1>6, <1>7, <1>8 DEF DemoInv

-----------------------------------------------------------------------------
(* The main thread *)

\* Submit moves the next task into the queue, and leaves it to be counted.
LEMMA SubmitAcceptedStep ==
  ASSUME DemoInv, SubmitAccepted
  PROVE  DemoInv'
<1>0. DemoTypeOK /\ next \in 1..kTaskCount + 1
  BY DEF DemoInv, DemoTypeOK
<1>1. /\ queue' = Append(queue, next) /\ next' = next + 1 /\ next \in Task
      /\ pc = "submit"
      /\ UNCHANGED <<demo, pc, submitted, at, task, latch, owner_queue,
                     post_failures, results, ok>>
  BY <1>0 DEF SubmitAccepted, Task
<1>2. next \notin ToSet(queue) /\ ToSet(queue') = ToSet(queue) \cup {next}
      /\ IsInjective(queue') /\ queue' \in Seq(Task)
  <2>1. IsInjective(queue) /\ next \notin ToSet(queue)
    BY <1>0 DEF DemoInv, OnePlaceEach
  <2>2. queue \in Seq(Task)
    BY <1>0 DEF DemoTypeOK
  <2> QED
    BY <1>1, <2>1, <2>2, AppendedElements, AppendProperties
<1>3. next \in Unsubmitted /\ Unsubmitted' = Unsubmitted \ {next}
  BY <1>0, <1>1 DEF Unsubmitted, Task
<1>4. Ahead' = Ahead /\ Uncounted' = Uncounted /\ Written' = Written
  BY <1>1, <1>2, <1>3 DEF Ahead, Uncounted, Written, Busy
<1>5. DemoTypeOK'
  <2>1. next' \in 1..kTaskCount + 1
    BY <1>0, <1>1 DEF Task
  <2> QED
    BY <1>0, <1>1, <1>2, <2>1 DEF DemoTypeOK
<1>6. OnePlaceEach'
  <2>1. \A w \in Worker : Busy(w) => task[w] < next
    BY DEF DemoInv, OnePlaceEach
  <2>2. \A w \in Worker : task[w] \in Nat
    BY <1>0 DEF DemoTypeOK, Task
  <2>3. \A i \in ToSet(queue) : i \in Nat
    BY <1>0, PlacesHoldTasks DEF Task
  <2>4. \A i \in ToSet(queue') : i < next'
    BY <1>0, <1>1, <1>2, <2>3 DEF DemoInv, OnePlaceEach
  <2>5. \A w \in Worker : Busy(w) => task[w] < next' /\ task[w] # next
    BY <1>0, <1>1, <2>1, <2>2
  <2> QED
    BY <1>1, <1>2, <2>4, <2>5 DEF DemoInv, OnePlaceEach, Busy
<1> QED
  BY <1>1, <1>4, <1>5, <1>6
     DEF DemoInv, LatchCounts, WritersAreRight, NoneIsMissing, PastTheLatch

\* A task that is refused is counted down at once, and missing for good.
LEMMA SubmitRejectedStep ==
  ASSUME DemoInv, SubmitRejected
  PROVE  DemoInv'
<1>0. DemoTypeOK /\ next \in 1..kTaskCount + 1 /\ latch \in Nat /\ post_failures \in Nat
  BY DEF DemoInv, DemoTypeOK
<1>1. /\ submitted' = FALSE /\ latch' = latch - 1 /\ next' = next + 1
      /\ next \in Task /\ pc = "submit"
      /\ UNCHANGED <<demo, pc, queue, at, task, owner_queue, post_failures,
                     results, ok>>
  BY <1>0 DEF SubmitRejected, Task
<1>2. next \notin ToSet(queue) /\ \A w \in Worker : Busy(w) => task[w] # next
  <2>1. \A w \in Worker : task[w] \in Nat
    BY <1>0 DEF DemoTypeOK, Task
  <2> QED
    BY <1>0, <2>1 DEF DemoInv, OnePlaceEach
<1>3. next \in Unsubmitted /\ Unsubmitted' = Unsubmitted \ {next}
  BY <1>0, <1>1 DEF Unsubmitted, Task
<1>4. /\ next \in Ahead /\ Ahead' = Ahead \ {next}
      /\ next \in Uncounted /\ Uncounted' = Uncounted \ {next}
      /\ Written' = Written /\ next \notin Written
  <2>1. Written \cap Ahead = {}
    BY DEF DemoInv, WritersAreRight
  <2> QED
    BY <1>1, <1>2, <1>3, <2>1 DEF Ahead, Uncounted, Written, Busy
<1>5. /\ Cardinality(Ahead') = Cardinality(Ahead) - 1 /\ Cardinality(Ahead) \in Nat
      /\ Cardinality(Uncounted') = Cardinality(Uncounted) - 1
      /\ Cardinality(Uncounted) \in 1..kTaskCount
  <2>1. Ahead \in SUBSET Task /\ Uncounted \in SUBSET Task
    BY <1>0, PlacesHoldTasks
  <2>2. /\ Cardinality(Ahead \ {next}) = Cardinality(Ahead) - 1
        /\ Cardinality(Ahead) \in 1..kTaskCount
    BY <1>4, <2>1, OneTaskLess
  <2>3. /\ Cardinality(Uncounted \ {next}) = Cardinality(Uncounted) - 1
        /\ Cardinality(Uncounted) \in 1..kTaskCount
    BY <1>4, <2>1, OneTaskLess
  <2> QED
    BY <1>4, <2>2, <2>3
<1>6. latch' = Cardinality(Uncounted') /\ latch' \in 0..kTaskCount
  BY <1>1, <1>5 DEF DemoInv, LatchCounts
<1>7. DemoTypeOK'
  <2>1. next' \in 1..kTaskCount + 1
    BY <1>0, <1>1 DEF Task
  <2> QED
    BY <1>0, <1>1, <1>6, <2>1 DEF DemoTypeOK
<1>8. OnePlaceEach'
  <2>1. \A w \in Worker : task[w] \in Nat
    BY <1>0 DEF DemoTypeOK, Task
  <2>2. \A i \in ToSet(queue) : i \in Nat
    BY <1>0, PlacesHoldTasks DEF Task
  <2>3. \A i \in ToSet(queue') : i < next'
    BY <1>0, <1>1, <2>2 DEF DemoInv, OnePlaceEach
  <2>4. \A w \in Worker : Busy(w) => task[w] < next'
    BY <1>0, <1>1, <2>1 DEF DemoInv, OnePlaceEach
  <2> QED
    BY <1>1, <2>3, <2>4 DEF DemoInv, OnePlaceEach, Busy
<1>9. WritersAreRight'
  BY <1>1, <1>4 DEF DemoInv, WritersAreRight
<1>10. NoneIsMissing'
  <2>1. Ahead' \cup Written' # Task
    BY <1>1, <1>4
  <2>2. post_failures' + Cardinality(Ahead') <= kTaskCount
    BY <1>0, <1>1, <1>5 DEF DemoInv, NoneIsMissing
  <2> QED
    BY <1>1, <2>1, <2>2 DEF NoneIsMissing
<1>11. PastTheLatch'
  BY <1>1 DEF PastTheLatch
<1> QED
  BY <1>6, <1>7, <1>8, <1>9, <1>10, <1>11 DEF DemoInv, LatchCounts

\* The end of the submissions and of the wait move nothing.
LEMMA SubmitDoneStep ==
  ASSUME DemoInv, SubmitDone
  PROVE  DemoInv'
<1>1. /\ pc = "submit" /\ pc' = "wait"
      /\ UNCHANGED <<demo, next, submitted, queue, at, task, latch,
                     owner_queue, post_failures, results, ok>>
  BY DEF SubmitDone
<1>2. Ahead' = Ahead /\ Uncounted' = Uncounted /\ Written' = Written
  BY <1>1 DEF Ahead, Uncounted, Written, Busy, Unsubmitted
<1> QED
  BY <1>1, <1>2 DEF DemoInv, DemoTypeOK, OnePlaceEach, Busy, LatchCounts,
                    WritersAreRight, NoneIsMissing, PastTheLatch

\* The wait ends when the latch is down: nobody is left to count.
LEMMA WaitStep ==
  ASSUME DemoInv, Wait
  PROVE  DemoInv'
<1>1. /\ pc = "wait" /\ pc' = "stop" /\ latch = 0
      /\ UNCHANGED <<demo, next, submitted, queue, at, task, latch,
                     owner_queue, post_failures, results, ok>>
  BY DEF Wait
<1>2. Ahead' = Ahead /\ Uncounted' = Uncounted /\ Written' = Written
  BY <1>1 DEF Ahead, Uncounted, Written, Busy, Unsubmitted
<1>3. Uncounted = {}
  <2>1. IsFiniteSet(Uncounted)
    BY PlacesHoldTasks, TasksAreFinite DEF DemoInv
  <2>2. Cardinality(Uncounted) = 0
    BY <1>1 DEF DemoInv, LatchCounts
  <2> QED
    BY <2>1, <2>2, FS_EmptySet
<1> QED
  BY <1>1, <1>2, <1>3 DEF DemoInv, DemoTypeOK, OnePlaceEach, Busy, LatchCounts,
                          WritersAreRight, NoneIsMissing, PastTheLatch

\* Stop waits for the workers and drops what is queued; there is nothing.
LEMMA StopStep ==
  ASSUME DemoInv, Stop
  PROVE  DemoInv'
<1>1. /\ pc = "stop" /\ queue' = <<>>
      /\ \A w \in Worker : at[w] = "idle"
      /\ pc' = IF demo = "high" THEN "drain" ELSE "check"
      /\ UNCHANGED <<demo, next, submitted, at, task, latch, owner_queue,
                     post_failures, results, ok>>
  BY DEF Stop
<1>2. ToSet(queue) = {} /\ ToSet(queue') = {} /\ Uncounted = {}
  <2>1. Uncounted = {}
    BY <1>1 DEF DemoInv, PastTheLatch
  <2>2. ToSet(queue) \subseteq Uncounted
    BY DEF Uncounted
  <2>3. ToSet(queue') = {}
    BY <1>1 DEF ToSet
  <2> QED
    BY <2>1, <2>2, <2>3
<1>3. Ahead' = Ahead /\ Uncounted' = Uncounted /\ Written' = Written
  BY <1>1, <1>2 DEF Ahead, Uncounted, Written, Busy, Unsubmitted
<1>4. DemoTypeOK'
  <2>1. queue' \in Seq(Task)
    BY <1>1, EmptySeq
  <2> QED
    BY <1>1, <2>1 DEF DemoInv, DemoTypeOK
<1>5. OnePlaceEach'
  BY <1>1, <1>2 DEF DemoInv, OnePlaceEach, Busy, IsInjective
<1>6. demo \in {"low", "high"}
  BY DEF DemoInv, DemoTypeOK
<1>7. WritersAreRight'
  BY <1>1, <1>3, <1>6 DEF DemoInv, WritersAreRight
<1>8. PastTheLatch'
  BY <1>1, <1>2, <1>3 DEF PastTheLatch
<1> QED
  BY <1>1, <1>3, <1>4, <1>5, <1>7, <1>8 DEF DemoInv, LatchCounts, NoneIsMissing

\* The owner writes the results of the tasks that were posted.
LEMMA DrainStep ==
  ASSUME DemoInv, Drain
  PROVE  DemoInv'
<1>1. /\ pc = "drain" /\ pc' = "check" /\ demo = "high"
      /\ results' = [i \in Task |-> IF Contains(owner_queue, i) THEN "owner"
                                                                ELSE results[i]]
      /\ UNCHANGED <<demo, next, submitted, queue, at, task, latch,
                     owner_queue, post_failures, ok>>
  BY DEF Drain, DemoInv, PastTheLatch
<1>2. \A i : Contains(owner_queue, i) <=> i \in ToSet(owner_queue)
  <2>1. DOMAIN owner_queue = 1..Len(owner_queue)
    BY LenProperties DEF DemoInv, DemoTypeOK
  <2> QED
    BY <2>1 DEF Contains, ToSet
<1>3. \A i \in Task :
        results'[i] = IF i \in ToSet(owner_queue) THEN "owner" ELSE "nobody"
  BY <1>1, <1>2 DEF DemoInv, WritersAreRight
<1>4. Ahead' = Ahead /\ Uncounted' = Uncounted /\ Written' = Written
  BY <1>1 DEF Ahead, Uncounted, Written, Busy, Unsubmitted
<1>5. DemoTypeOK'
  BY <1>1 DEF DemoInv, DemoTypeOK
<1>6. WritersAreRight'
  BY <1>1, <1>3, <1>4 DEF DemoInv, WritersAreRight
<1>7. OnePlaceEach'
  BY <1>1 DEF DemoInv, OnePlaceEach, Busy
<1>8. LatchCounts' /\ NoneIsMissing'
  BY <1>1, <1>4 DEF DemoInv, LatchCounts, NoneIsMissing
<1>9. PastTheLatch'
  BY <1>1, <1>4 DEF DemoInv, PastTheLatch
<1> QED
  BY <1>5, <1>6, <1>7, <1>8, <1>9 DEF DemoInv

\* As many closures as tasks, each posted once, are the closures of all.
LEMMA AllArePosted ==
  ASSUME DemoTypeOK, IsInjective(owner_queue)
  PROVE  Len(owner_queue) = kTaskCount <=> ToSet(owner_queue) = Task
<1> DEFINE n == Len(owner_queue)
<1>1. /\ n \in Nat /\ DOMAIN owner_queue = 1..n
      /\ owner_queue \in [1..n -> Task]
  BY LenProperties DEF DemoTypeOK
<1>2. owner_queue \in Injection(1..n, Task)
  BY <1>1 DEF Injection
<1>3. IsFiniteSet(Task) /\ Cardinality(Task) = kTaskCount
  BY TasksAreFinite
<1>4. Cardinality(1..n) = n
  BY <1>1, FS_Interval, SMTT(40)
<1>5. Cardinality(1..n) = Cardinality(Task) <=> owner_queue \in Surjection(1..n, Task)
  BY <1>2, <1>3, FS_Injection
<1>6. owner_queue \in Surjection(1..n, Task) <=> ToSet(owner_queue) = Task
  <2>1. owner_queue \in Surjection(1..n, Task)
          <=> \A t \in Task : \E i \in 1..n : owner_queue[i] = t
    BY <1>1 DEF Surjection
  <2>2. ToSet(owner_queue) \subseteq Task
    BY <1>1 DEF ToSet
  <2> QED
    BY <1>1, <2>1, <2>2 DEF ToSet
<1> QED
  BY <1>3, <1>4, <1>5, <1>6

\* What the demo says of itself is what has happened.
LEMMA CheckStep ==
  ASSUME DemoInv, Check
  PROVE  DemoInv'
<1>1. /\ pc = "check" /\ pc' = "returned"
      /\ ok' = (/\ submitted
                /\ demo = "high" => post_failures = 0 /\ Len(owner_queue) = kTaskCount
                /\ \A i \in Task : results[i] # "nobody")
      /\ UNCHANGED <<demo, next, submitted, queue, at, task, latch,
                     owner_queue, post_failures, results>>
  BY DEF Check
<1>2. Ahead' = Ahead /\ Uncounted' = Uncounted /\ Written' = Written
  BY <1>1 DEF Ahead, Uncounted, Written, Busy, Unsubmitted
<1>3. submitted /\ post_failures = 0 <=> Written = Task
  <2>1. Ahead = {} /\ Written \subseteq Task
    BY <1>1, PlacesHoldTasks DEF DemoInv, PastTheLatch
  <2> QED
    BY <2>1 DEF DemoInv, NoneIsMissing
<1>4. ok' <=> submitted /\ post_failures = 0
  <2>1. CASE demo = "low"
    <3>1. Written = Task <=> \A i \in Task : results[i] # "nobody"
      BY <2>1 DEF Written
    <3> QED
      BY <1>1, <1>3, <2>1, <3>1
  <2>2. CASE demo = "high"
    <3>1. Written = Task <=> Len(owner_queue) = kTaskCount
      BY <2>2, AllArePosted DEF DemoInv, Written, WritersAreRight
    <3>2. \A i \in Task : results[i] = IF i \in Written THEN "owner" ELSE "nobody"
      BY <1>1, <2>2 DEF DemoInv, Written, WritersAreRight
    <3>3. Written = Task => \A i \in Task : results[i] # "nobody"
      BY <3>2
    <3> QED
      BY <1>1, <1>3, <2>2, <3>1, <3>3
  <2> QED
    BY <2>1, <2>2 DEF DemoInv, DemoTypeOK
<1>5. DemoTypeOK'
  BY <1>1 DEF DemoInv, DemoTypeOK
<1>6. PastTheLatch'
  BY <1>1, <1>2, <1>4 DEF DemoInv, PastTheLatch
<1>7. WritersAreRight'
  BY <1>1, <1>2 DEF DemoInv, WritersAreRight
<1> QED
  BY <1>1, <1>2, <1>5, <1>6, <1>7
     DEF DemoInv, OnePlaceEach, Busy, LatchCounts, NoneIsMissing

-----------------------------------------------------------------------------
(* A worker *)

\* Past the latch no worker has anything to do but to leave.
LEMMA BusyIsBeforeTheEnd ==
  ASSUME DemoInv, NEW w \in Worker, Busy(w)
  PROVE  pc \in {"submit", "wait"}
<1>1. Uncounted # {}
  BY DEF Uncounted
<1> QED
  BY <1>1 DEF DemoInv, DemoTypeOK, PastTheLatch

LEMMA TakeStep ==
  ASSUME DemoInv, NEW w \in Worker, Take(w)
  PROVE  DemoInv'
<1> DEFINE t == Head(queue)
<1>1. /\ at[w] = "idle" /\ queue # <<>>
      /\ task' = [task EXCEPT ![w] = t]
      /\ queue' = Tail(queue)
      /\ at' = [at EXCEPT ![w] = "work"]
      /\ UNCHANGED <<demo, pc, next, submitted, latch, owner_queue,
                     post_failures, results, ok>>
  BY DEF Take
<1>2. /\ t \in Task /\ t \in ToSet(queue) /\ queue' \in Seq(Task)
      /\ ToSet(queue') = ToSet(queue) \ {t} /\ IsInjective(queue')
  <2>1. queue \in Seq(Task) /\ IsInjective(queue)
    BY DEF DemoInv, DemoTypeOK, OnePlaceEach
  <2>2. t \in Task /\ queue' \in Seq(Task)
    BY <1>1, <2>1, HeadTailProperties
  <2>3. /\ t \in ToSet(queue) /\ ToSet(queue) = ToSet(queue') \cup {t}
        /\ IsInjective(queue') /\ t \notin ToSet(queue')
    BY <1>1, <2>1, TailElements
  <2> QED
    BY <2>2, <2>3
<1> HIDE DEF t
<1>3. /\ task'[w] = t /\ at'[w] = "work"
      /\ \A v \in Worker \ {w} : task'[v] = task[v] /\ at'[v] = at[v]
  BY <1>1 DEF DemoInv, DemoTypeOK
<1>4. Ahead' = Ahead /\ Uncounted' = Uncounted
  <2>1. {task'[v] : v \in {u \in Worker : at'[u] \in {"work", "post"}}}
          = {task[v] : v \in {u \in Worker : at[u] \in {"work", "post"}}} \cup {t}
    BY <1>1, <1>3
  <2>2. Ahead' = Ahead
    BY <1>1, <1>2, <2>1 DEF Ahead, Unsubmitted
  <2>3. {task'[v] : v \in {u \in Worker : Busy(u)'}}
          = {task[v] : v \in {u \in Worker : Busy(u)}} \cup {t}
    BY <1>1, <1>3 DEF Busy
  <2> QED
    BY <1>1, <1>2, <2>2, <2>3 DEF Uncounted, Unsubmitted
<1>5. Written' = Written
  BY <1>1 DEF Written
<1>6. DemoTypeOK'
  BY <1>1, <1>2 DEF DemoInv, DemoTypeOK
<1>7. OnePlaceEach'
  <2>1. \A v \in Worker \ {w} : Busy(v)' <=> Busy(v)
    BY <1>3 DEF Busy
  <2>2. \A v \in Worker : Busy(v) => task[v] # t /\ task[v] < next /\ task[v] \notin ToSet(queue)
    BY <1>2 DEF DemoInv, OnePlaceEach
  <2>3. t < next /\ \A i \in ToSet(queue) : i < next
    BY <1>2 DEF DemoInv, OnePlaceEach
  <2>4. \A v \in Worker : Busy(v)' => task'[v] < next' /\ task'[v] \notin ToSet(queue')
    BY <1>1, <1>2, <1>3, <2>1, <2>2, <2>3
  <2>5. \A u, v \in Worker : Busy(u)' /\ Busy(v)' /\ task'[u] = task'[v] => u = v
    BY <1>3, <2>1, <2>2 DEF DemoInv, OnePlaceEach
  <2> QED
    BY <1>1, <1>2, <2>3, <2>4, <2>5 DEF OnePlaceEach
<1>8. WritersAreRight'
  BY <1>1, <1>3, <1>4, <1>5 DEF DemoInv, WritersAreRight
<1>9. PastTheLatch'
  <2>1. Uncounted # {}
    BY <1>2 DEF Uncounted
  <2>2. pc \in {"submit", "wait"}
    BY <2>1 DEF DemoInv, DemoTypeOK, PastTheLatch
  <2> QED
    BY <1>1, <2>2 DEF PastTheLatch
<1> QED
  BY <1>1, <1>4, <1>5, <1>6, <1>7, <1>8, <1>9
     DEF DemoInv, LatchCounts, NoneIsMissing

\* A worker that has come to the end of its work still has to count down.
LEMMA WorkedEffect ==
  ASSUME DemoInv, NEW w \in Worker, at[w] \in {"work", "post"},
         at' = [at EXCEPT ![w] = "count_down"],
         UNCHANGED <<next, queue, task>>
  PROVE  /\ Uncounted' = Uncounted
         /\ Ahead' = Ahead \ {task[w]} /\ task[w] \in Ahead
         /\ task[w] \in Task /\ OnePlaceEach'
<1>1. /\ at'[w] = "count_down" /\ \A v \in Worker \ {w} : at'[v] = at[v]
      /\ \A v \in Worker : Busy(v)' <=> Busy(v)
  BY DEF DemoInv, DemoTypeOK, Busy
<1>2. /\ task[w] \in Task /\ task[w] \notin Unsubmitted
      /\ task[w] \notin ToSet(queue)
      /\ \A v \in Worker \ {w} : Busy(v) => task[v] # task[w]
  <2>1. Busy(w) /\ task[w] \in Task /\ next \in 1..kTaskCount + 1
    BY DEF DemoInv, DemoTypeOK, Busy
  <2>2. task[w] < next /\ task[w] \notin ToSet(queue)
    BY <2>1 DEF DemoInv, OnePlaceEach
  <2>3. task[w] \notin Unsubmitted
    BY <2>1, <2>2 DEF Unsubmitted, Task
  <2> QED
    BY <2>1, <2>2, <2>3 DEF DemoInv, OnePlaceEach
<1>3. Uncounted' = Uncounted
  BY <1>1 DEF Uncounted, Unsubmitted
<1>4. Ahead' = Ahead \ {task[w]} /\ task[w] \in Ahead
  <2>1. {task[v] : v \in {u \in Worker : at'[u] \in {"work", "post"}}}
          = {task[v] : v \in {u \in Worker : at[u] \in {"work", "post"}}} \ {task[w]}
    BY <1>1, <1>2 DEF Busy
  <2> QED
    BY <1>2, <2>1 DEF Ahead, Unsubmitted
<1>5. OnePlaceEach'
  BY <1>1 DEF DemoInv, OnePlaceEach
<1> QED
  BY <1>2, <1>3, <1>4, <1>5

\* A result written by a worker, in the low-level demo.
LEMMA WorkLowStep ==
  ASSUME DemoInv, NEW w \in Worker, WorkLow(w)
  PROVE  DemoInv'
<1>1. /\ demo = "low" /\ at[w] = "work"
      /\ results' = [results EXCEPT ![task[w]] = "worker"]
      /\ at' = [at EXCEPT ![w] = "count_down"]
      /\ UNCHANGED <<demo, pc, next, submitted, queue, task, latch,
                     owner_queue, post_failures, ok>>
  BY DEF WorkLow
<1>2. /\ Uncounted' = Uncounted
      /\ Ahead' = Ahead \ {task[w]} /\ task[w] \in Ahead
      /\ task[w] \in Task /\ OnePlaceEach'
  BY <1>1, WorkedEffect
<1>3. Written' = Written \cup {task[w]}
  BY <1>1, <1>2 DEF Written, DemoInv, DemoTypeOK
<1>4. DemoTypeOK'
  BY <1>1, <1>2 DEF DemoInv, DemoTypeOK
<1>5. WritersAreRight'
  <2>1. Written' \cap Ahead' = {}
    BY <1>2, <1>3 DEF DemoInv, WritersAreRight
  <2>2. \A v \in Worker : at'[v] # "post"
    BY <1>1 DEF DemoInv, DemoTypeOK, WritersAreRight
  <2>3. \A i \in Task : results'[i] \in {"nobody", "worker"}
    BY <1>1, <1>2 DEF DemoInv, DemoTypeOK, WritersAreRight
  <2> QED
    BY <1>1, <2>1, <2>2, <2>3 DEF DemoInv, WritersAreRight
<1>6. NoneIsMissing'
  <2>1. Ahead' \cup Written' = Ahead \cup Written
    BY <1>2, <1>3
  <2>2. post_failures' + Cardinality(Ahead') <= kTaskCount
    <3>1. post_failures' = 0
      BY <1>1 DEF DemoInv, WritersAreRight
    <3>2. Cardinality(Ahead') \in 0..kTaskCount
      BY <1>2, PlacesHoldTasks, TasksAreFinite DEF DemoInv
    <3> QED
      BY <3>1, <3>2
  <2> QED
    BY <1>1, <2>1, <2>2 DEF DemoInv, NoneIsMissing
<1>7. PastTheLatch'
  <2>1. pc \in {"submit", "wait"}
    BY <1>1, BusyIsBeforeTheEnd DEF Busy
  <2> QED
    BY <1>1, <2>1 DEF PastTheLatch
<1> QED
  BY <1>1, <1>2, <1>4, <1>5, <1>6, <1>7 DEF DemoInv, LatchCounts

LEMMA WorkHighStep ==
  ASSUME DemoInv, NEW w \in Worker, WorkHigh(w)
  PROVE  DemoInv'
<1>1. /\ demo = "high" /\ at[w] = "work"
      /\ at' = [at EXCEPT ![w] = "post"]
      /\ UNCHANGED <<demo, pc, next, submitted, queue, task, latch,
                     owner_queue, post_failures, results, ok>>
  BY DEF WorkHigh
<1>2. \A v \in Worker : /\ Busy(v)' <=> Busy(v)
                        /\ at'[v] \in {"work", "post"} <=> at[v] \in {"work", "post"}
  BY <1>1 DEF DemoInv, DemoTypeOK, Busy
<1>3. Ahead' = Ahead
  <2>1. {v \in Worker : at'[v] \in {"work", "post"}}
          = {v \in Worker : at[v] \in {"work", "post"}}
    BY <1>2
  <2> QED
    BY <1>1, <2>1 DEF Ahead, Unsubmitted
<1>4. Uncounted' = Uncounted
  <2>1. {v \in Worker : Busy(v)'} = {v \in Worker : Busy(v)}
    BY <1>2
  <2> QED
    BY <1>1, <2>1 DEF Uncounted, Unsubmitted
<1>5. Written' = Written
  BY <1>1 DEF Written
<1>6. DemoTypeOK'
  BY <1>1 DEF DemoInv, DemoTypeOK
<1>7. OnePlaceEach'
  BY <1>1, <1>2 DEF DemoInv, OnePlaceEach
<1>8. PastTheLatch'
  <2>1. pc \in {"submit", "wait"}
    BY <1>1, BusyIsBeforeTheEnd DEF Busy
  <2> QED
    BY <1>1, <2>1 DEF PastTheLatch
<1> QED
  BY <1>1, <1>3, <1>4, <1>5, <1>6, <1>7, <1>8
     DEF DemoInv, LatchCounts, WritersAreRight, NoneIsMissing

\* A worker posts only in the high-level demo, and before the wait is over.
LEMMA PostersAreHigh ==
  ASSUME DemoInv, NEW w \in Worker, at[w] = "post"
  PROVE  demo = "high" /\ pc \in {"submit", "wait"}
<1>1. pc \in {"submit", "wait"}
  BY BusyIsBeforeTheEnd DEF Busy
<1> QED
  BY <1>1 DEF DemoInv, DemoTypeOK, WritersAreRight

LEMMA PostStep ==
  ASSUME DemoInv, NEW w \in Worker, Post(w)
  PROVE  DemoInv'
<1>1. /\ at[w] = "post"
      /\ owner_queue' = Append(owner_queue, task[w])
      /\ at' = [at EXCEPT ![w] = "count_down"]
      /\ UNCHANGED <<demo, pc, next, submitted, queue, task, latch,
                     post_failures, results, ok>>
  BY DEF Post
<1>2. demo = "high" /\ pc \in {"submit", "wait"}
  BY <1>1, PostersAreHigh
<1>3. /\ Uncounted' = Uncounted
      /\ Ahead' = Ahead \ {task[w]} /\ task[w] \in Ahead
      /\ task[w] \in Task /\ OnePlaceEach'
  BY <1>1, WorkedEffect
<1>4. task[w] \notin ToSet(owner_queue)
  BY <1>2, <1>3 DEF DemoInv, WritersAreRight, Written
<1>5. /\ owner_queue' \in Seq(Task) /\ IsInjective(owner_queue')
      /\ ToSet(owner_queue') = ToSet(owner_queue) \cup {task[w]}
  <2>1. owner_queue \in Seq(Task) /\ IsInjective(owner_queue)
    BY DEF DemoInv, DemoTypeOK, WritersAreRight
  <2> QED
    BY <1>1, <1>3, <1>4, <2>1, AppendedElements, AppendProperties
<1>6. Written' = Written \cup {task[w]}
  BY <1>1, <1>2, <1>5 DEF Written
<1>7. DemoTypeOK'
  BY <1>1, <1>5 DEF DemoInv, DemoTypeOK
<1>8. WritersAreRight'
  <2>1. Written' \cap Ahead' = {}
    BY <1>3, <1>6 DEF DemoInv, WritersAreRight
  <2> QED
    BY <1>1, <1>2, <1>5, <2>1 DEF DemoInv, WritersAreRight
<1>9. NoneIsMissing'
  <2>1. Ahead' \cup Written' = Ahead \cup Written
    BY <1>3, <1>6
  <2>2. post_failures' + Cardinality(Ahead') <= kTaskCount
    <3>1. /\ Cardinality(Ahead \ {task[w]}) = Cardinality(Ahead) - 1
          /\ Cardinality(Ahead) \in 1..kTaskCount
      BY <1>3, PlacesHoldTasks, OneTaskLess DEF DemoInv
    <3>2. post_failures \in Nat /\ post_failures + Cardinality(Ahead) <= kTaskCount
      BY DEF DemoInv, DemoTypeOK, NoneIsMissing
    <3> QED
      BY <1>1, <1>3, <3>1, <3>2
  <2> QED
    BY <1>1, <2>1, <2>2 DEF DemoInv, NoneIsMissing
<1>10. PastTheLatch'
  BY <1>1, <1>2 DEF PastTheLatch
<1> QED
  BY <1>1, <1>3, <1>7, <1>8, <1>9, <1>10 DEF DemoInv, LatchCounts

LEMMA PostFailsStep ==
  ASSUME DemoInv, NEW w \in Worker, PostFails(w)
  PROVE  DemoInv'
<1>1. /\ at[w] = "post"
      /\ post_failures' = post_failures + 1
      /\ at' = [at EXCEPT ![w] = "count_down"]
      /\ UNCHANGED <<demo, pc, next, submitted, queue, task, latch,
                     owner_queue, results, ok>>
  BY DEF PostFails
<1>2. demo = "high" /\ pc \in {"submit", "wait"}
  BY <1>1, PostersAreHigh
<1>3. /\ Uncounted' = Uncounted
      /\ Ahead' = Ahead \ {task[w]} /\ task[w] \in Ahead
      /\ task[w] \in Task /\ OnePlaceEach'
  BY <1>1, WorkedEffect
<1>4. Written' = Written /\ task[w] \notin Written
  BY <1>1, <1>2, <1>3 DEF DemoInv, WritersAreRight, Written
<1>5. post_failures' \in Nat \ {0} /\ post_failures' + Cardinality(Ahead') <= kTaskCount
      /\ post_failures' \in 0..kTaskCount
  <2>1. /\ Cardinality(Ahead \ {task[w]}) = Cardinality(Ahead) - 1
        /\ Cardinality(Ahead) \in 1..kTaskCount
    BY <1>3, PlacesHoldTasks, OneTaskLess DEF DemoInv
  <2>2. post_failures \in Nat /\ post_failures + Cardinality(Ahead) <= kTaskCount
    BY DEF DemoInv, DemoTypeOK, NoneIsMissing
  <2> QED
    BY <1>1, <1>3, <2>1, <2>2
<1>6. DemoTypeOK'
  BY <1>1, <1>5 DEF DemoInv, DemoTypeOK
<1>7. WritersAreRight'
  BY <1>1, <1>2, <1>3, <1>4 DEF DemoInv, WritersAreRight
<1>8. NoneIsMissing'
  <2>1. Ahead' \cup Written' # Task
    BY <1>3, <1>4
  <2> QED
    BY <1>1, <1>5, <2>1 DEF NoneIsMissing
<1>9. PastTheLatch'
  BY <1>1, <1>2 DEF PastTheLatch
<1> QED
  BY <1>1, <1>3, <1>6, <1>7, <1>8, <1>9 DEF DemoInv, LatchCounts

LEMMA CountDownStep ==
  ASSUME DemoInv, NEW w \in Worker, CountDown(w)
  PROVE  DemoInv'
<1>1. /\ at[w] = "count_down"
      /\ latch' = latch - 1
      /\ at' = [at EXCEPT ![w] = "leave"]
      /\ UNCHANGED <<demo, pc, next, submitted, queue, task, owner_queue,
                     post_failures, results, ok>>
  BY DEF CountDown
<1>2. /\ at'[w] = "leave" /\ \A v \in Worker \ {w} : at'[v] = at[v]
  BY <1>1 DEF DemoInv, DemoTypeOK
<1>3. /\ task[w] \in Task /\ task[w] \notin Unsubmitted
      /\ task[w] \notin ToSet(queue)
      /\ \A v \in Worker \ {w} : Busy(v) => task[v] # task[w]
  <2>1. Busy(w) /\ task[w] \in Task /\ next \in 1..kTaskCount + 1
    BY <1>1 DEF DemoInv, DemoTypeOK, Busy
  <2>2. task[w] < next /\ task[w] \notin ToSet(queue)
    BY <2>1 DEF DemoInv, OnePlaceEach
  <2>3. task[w] \notin Unsubmitted
    BY <2>1, <2>2 DEF Unsubmitted, Task
  <2> QED
    BY <2>1, <2>2, <2>3 DEF DemoInv, OnePlaceEach
<1>4. Ahead' = Ahead
  <2>1. {v \in Worker : at'[v] \in {"work", "post"}}
          = {v \in Worker : at[v] \in {"work", "post"}}
    BY <1>1, <1>2
  <2> QED
    BY <1>1, <2>1 DEF Ahead, Unsubmitted
<1>5. Uncounted' = Uncounted \ {task[w]} /\ task[w] \in Uncounted
  <2>1. {task[v] : v \in {u \in Worker : Busy(u)'}}
          = {task[v] : v \in {u \in Worker : Busy(u)}} \ {task[w]}
    BY <1>2, <1>3 DEF Busy
  <2>2. Busy(w)
    BY <1>1 DEF Busy
  <2> QED
    BY <1>1, <1>3, <2>1, <2>2 DEF Uncounted, Unsubmitted
<1>6. latch' = Cardinality(Uncounted') /\ latch' \in 0..kTaskCount
  <2>1. /\ Cardinality(Uncounted \ {task[w]}) = Cardinality(Uncounted) - 1
        /\ Cardinality(Uncounted) \in 1..kTaskCount
    BY <1>5, PlacesHoldTasks, OneTaskLess DEF DemoInv
  <2> QED
    BY <1>1, <1>5, <2>1 DEF DemoInv, LatchCounts
<1>7. Written' = Written
  BY <1>1 DEF Written
<1>8. DemoTypeOK'
  BY <1>1, <1>6 DEF DemoInv, DemoTypeOK
<1>9. OnePlaceEach'
  <2>1. \A v \in Worker : Busy(v)' => Busy(v)
    BY <1>2 DEF Busy
  <2> QED
    BY <1>1, <2>1 DEF DemoInv, OnePlaceEach
<1>10. WritersAreRight'
  BY <1>1, <1>2, <1>4, <1>7 DEF DemoInv, WritersAreRight
<1>11. NoneIsMissing'
  BY <1>1, <1>4, <1>7 DEF DemoInv, NoneIsMissing
<1>12. PastTheLatch'
  <2>1. pc \in {"submit", "wait"}
    BY <1>1, BusyIsBeforeTheEnd DEF Busy
  <2> QED
    BY <1>1, <2>1 DEF PastTheLatch
<1> QED
  BY <1>6, <1>8, <1>9, <1>10, <1>11, <1>12 DEF DemoInv, LatchCounts

\* The end of a closure concerns no task any more.
LEMMA LeaveStep ==
  ASSUME DemoInv, NEW w \in Worker, Leave(w)
  PROVE  DemoInv'
<1>1. /\ at[w] = "leave"
      /\ at' = [at EXCEPT ![w] = "idle"]
      /\ UNCHANGED <<demo, pc, next, submitted, queue, task, latch, owner_queue,
                     post_failures, results, ok>>
  BY DEF Leave
<1>2. /\ at'[w] = "idle" /\ \A v \in Worker \ {w} : at'[v] = at[v]
      /\ \A v \in Worker : Busy(v)' <=> Busy(v)
  BY <1>1 DEF DemoInv, DemoTypeOK, Busy
<1>3. Ahead' = Ahead
  <2>1. {v \in Worker : at'[v] \in {"work", "post"}}
          = {v \in Worker : at[v] \in {"work", "post"}}
    BY <1>1, <1>2
  <2> QED
    BY <1>1, <2>1 DEF Ahead, Unsubmitted
<1>4. Uncounted' = Uncounted
  <2>1. {v \in Worker : Busy(v)'} = {v \in Worker : Busy(v)}
    BY <1>2
  <2> QED
    BY <1>1, <2>1 DEF Uncounted, Unsubmitted
<1>5. Written' = Written
  BY <1>1 DEF Written
<1>6. DemoTypeOK'
  BY <1>1 DEF DemoInv, DemoTypeOK
<1>7. OnePlaceEach'
  BY <1>1, <1>2 DEF DemoInv, OnePlaceEach
<1>8. WritersAreRight'
  BY <1>1, <1>2, <1>3, <1>5 DEF DemoInv, WritersAreRight
<1>9. PastTheLatch'
  BY <1>1, <1>2, <1>4 DEF DemoInv, PastTheLatch
<1> QED
  BY <1>1, <1>3, <1>4, <1>5, <1>6, <1>7, <1>8, <1>9
     DEF DemoInv, LatchCounts, NoneIsMissing

-----------------------------------------------------------------------------
LEMMA NextDemoInv == DemoInv /\ [DemoNext]_demoVars => DemoInv'
<1> SUFFICES ASSUME DemoInv, [DemoNext]_demoVars PROVE DemoInv'
  OBVIOUS
<1>1. ASSUME MainStep PROVE DemoInv'
  BY <1>1, SubmitAcceptedStep, SubmitRejectedStep, SubmitDoneStep, WaitStep,
     StopStep, DrainStep, CheckStep DEF MainStep
<1>2. ASSUME NEW w \in Worker, WorkerStep(w) PROVE DemoInv'
  BY <1>2, TakeStep, WorkLowStep, WorkHighStep, PostStep, PostFailsStep,
     CountDownStep, LeaveStep DEF WorkerStep
<1>3. ASSUME UNCHANGED demoVars PROVE DemoInv'
  <2>1. UNCHANGED <<demo, pc, next, submitted, queue, at, task, latch,
                    owner_queue, post_failures, results, ok>>
    BY <1>3 DEF demoVars
  <2>2. Ahead' = Ahead /\ Uncounted' = Uncounted /\ Written' = Written
    BY <2>1 DEF Ahead, Uncounted, Written, Busy, Unsubmitted
  <2> QED
    BY <2>1, <2>2 DEF DemoInv, DemoTypeOK, OnePlaceEach, Busy, LatchCounts,
                      WritersAreRight, NoneIsMissing, PastTheLatch
<1> QED
  BY <1>1, <1>2, <1>3 DEF DemoNext, Terminated

\* Every variable of the demo keeps its type: the latch, too, is never counted
\* down below zero, which std::latch leaves undefined.
THEOREM DemoTypeIsKept == DemoSpec => []DemoTypeOK
<1>1. DemoInv => DemoTypeOK
  BY DEF DemoInv
<1> QED
  BY <1>1, InitDemoInv, NextDemoInv, PTL DEF DemoSpec

\* Past the latch no task is queued and no worker writes a result or posts a
\* closure; past Stop no worker runs at all; and the self-check tells the truth:
\* whatever Submit and Post refuse and however the workers interleave.
THEOREM TheStopIsComplete == DemoSpec => []StopIsComplete
<1>1. ASSUME DemoInv PROVE NothingOutlivesTheStop
  <2>1. ASSUME pc \notin {"submit", "wait"} PROVE queue = <<>>
    <3>1. Uncounted = {}
      BY <1>1, <2>1 DEF DemoInv, DemoTypeOK, PastTheLatch
    <3>2. ASSUME queue # <<>> PROVE FALSE
      <4>1. Head(queue) \in Uncounted
        BY <1>1, <3>2, TailElements DEF DemoInv, DemoTypeOK, Uncounted
      <4> QED
        BY <3>1, <4>1
    <3> QED
      BY <3>2
  <2>2. ASSUME pc = "stop", NEW w \in Worker PROVE at[w] \in {"idle", "leave"}
    <3>1. ~Busy(w)
      BY <1>1, <2>2, BusyIsBeforeTheEnd
    <3> QED
      BY <1>1, <3>1 DEF DemoInv, DemoTypeOK, Busy
  <2>3. pc \in {"drain", "check", "returned"} => \A w \in Worker : at[w] = "idle"
    BY <1>1 DEF DemoInv, PastTheLatch
  <2> QED
    BY <2>1, <2>2, <2>3 DEF NothingOutlivesTheStop
<1>2. ASSUME DemoInv PROVE SelfCheckIsRight
  <2> SUFFICES ASSUME pc = "returned"
               PROVE  /\ ok <=> submitted /\ post_failures = 0
                      /\ ok => \A i \in Task : results[i] =
                                  IF demo = "high" THEN "owner" ELSE "worker"
                      /\ IsInjective(owner_queue)
    BY DEF SelfCheckIsRight
  <2>1. ok <=> submitted /\ post_failures = 0
    BY <1>2 DEF DemoInv, PastTheLatch
  <2>2. IsInjective(owner_queue)
    BY <1>2 DEF DemoInv, WritersAreRight
  <2>3. ASSUME ok, NEW i \in Task
        PROVE  results[i] = IF demo = "high" THEN "owner" ELSE "worker"
    <3>1. Ahead = {}
      BY <1>2, PlacesHoldTasks DEF DemoInv, PastTheLatch
    <3>2. i \in Written
      BY <1>2, <2>1, <2>3, <3>1 DEF DemoInv, NoneIsMissing
    <3>3. demo \in {"low", "high"}
      BY <1>2 DEF DemoInv, DemoTypeOK
    <3> QED
      BY <1>2, <3>2, <3>3 DEF DemoInv, WritersAreRight, Written
  <2> QED
    BY <2>1, <2>2, <2>3
<1>3. DemoInv => StopIsComplete
  BY <1>1, <1>2 DEF StopIsComplete
<1> QED
  BY <1>3, InitDemoInv, NextDemoInv, PTL DEF DemoSpec
=============================================================================
