---------------------------- MODULE CommonProofs ----------------------------
(***************************************************************************)
(* What common/ gives the programs: the collector and the bandwidth window *)
(* in the loop of the ship-swarm client, for any command lines, clock and  *)
(* window, and the hub, for any endpoints and addresses.                   *)
(*                                                                         *)
(* The lines of the metrics file are true because the collector's counters *)
(* always differ from what happened after the warm-up by what the lines    *)
(* have already, and because nothing is written at the moment the          *)
(* measurement begins.  The bandwidth in bytes is right as the window holds *)
(* exactly the last entries that are not too old, and the remainders it    *)
(* holds differ as the numbers they were cut from.  The hub's list, map    *)
(* and callbacks agree, hence it implements SessionRegistry.               *)
(***************************************************************************)
EXTENDS ServerConnectionHub, SwarmClientLoop, OperatorProofs, TLAPS

-----------------------------------------------------------------------------
(* The inductive invariant of the loop *)

\* What ParseOptions makes of a command line, as far as the collector asks.
OptionsAreRead ==
  options.enabled \in BOOLEAN /\ options.warmupMs \in Nat

\* What the transferred bytes would be without a bound, as the passes saw it.
Pass == [at : Nat, moved : [Way -> Nat]]

Traced ==
  /\ curTime \in Nat
  /\ moved \in [Way -> Nat]
  /\ trace \in Seq(Pass)
  /\ IF trace = <<>> THEN curTime = 0 ELSE trace[Len(trace)].at = curTime
  /\ \A k \in DOMAIN trace :
       /\ trace[k].at \in 0..curTime
       /\ \A way \in Way : trace[k].moved[way] <= moved[way]
  /\ \A j, k \in DOMAIN trace :
       j < k => /\ trace[j].at <= trace[k].at
                /\ \A way \in Way : trace[j].moved[way] <= trace[k].moved[way]

\* The entry a pass leaves in the window.
Entry(way, pass) == [total |-> pass.moved[way] % UInt32, at |-> pass.at]

Kept == [total : 0..UInt32 - 1, at : Nat]

\* The entries are of the last passes, and exactly of those that are no older
\* than the window.
Shows(entries, passes, way, cur) ==
  LET old == Len(passes) - Len(entries)
  IN /\ entries \in Seq(Kept)
     /\ old >= 0
     /\ \A i \in DOMAIN entries : entries[i] = Entry(way, passes[old + i])
     /\ \A k \in DOMAIN passes : passes[k].at < cur - WindowSize <=> k <= old

Windowed == \A way \in Way : Shows(data[way], trace, way, curTime)

Totalled == total_data = [way \in Way |-> moved[way] % UInt32]

Counted ==
  /\ stage \in {"start", "loop", "poll", "send", "update", "frame", "sample",
                "finish", "destroy", "done"}
  /\ now \in 0..MaxTime
  /\ entities \in 0..MaxPackets
  /\ sent_join \in BOOLEAN
  /\ steers \in BOOLEAN

\* The collector, the moments it keeps, and what it was told of.
Collected ==
  /\ CollectorTypeOK
  /\ measured \in [Event -> Nat]
  /\ metrics.open <=> options.enabled /\ ~metrics.finished
  /\ metrics.finished => stage \in {"destroy", "done"}
  /\ metrics.measuring =>
       /\ options.enabled
       /\ options.warmupMs <= metrics.measurementStart
       /\ metrics.measurementStart <= metrics.lastSample
       /\ metrics.lastSample <= now
       /\ metrics.lastSample = IF metrics.lines = <<>> THEN metrics.measurementStart
                               ELSE metrics.lines[Len(metrics.lines)].time
  /\ \A k \in DOMAIN metrics.lines : metrics.lines[k].time <= metrics.lastSample
  /\ ~active => stage \in {"destroy", "done"}

\* Outside the part of a pass in which packets may come before the game's
\* metrics are set, they are those of the moment.
GameIsSet ==
  options.enabled /\ stage \notin {"poll", "send", "update"} =>
    metrics.game = entities

LoopInv ==
  /\ OptionsAreRead
  /\ Traced
  /\ Windowed
  /\ Totalled
  /\ Counted
  /\ Collected
  /\ GameIsSet
  /\ LinesAddUp
  /\ LinesKeepTime

-----------------------------------------------------------------------------
(* The calls of the collector *)

LEMMA UpdateEffect ==
  ASSUME OptionsAreRead, NEW m \in Collector, NEW t \in Nat,
         NEW u, u = UpdateMeasurementState(m, t)
  PROVE  /\ u \in Collector
         /\ u.measuring <=> m.measuring \/ (options.enabled /\ t >= options.warmupMs)
         /\ u.finished = m.finished /\ u.open = m.open
         /\ u.game = m.game /\ u.lines = m.lines
         /\ u.rx = m.rx /\ u.tx = m.tx
         /\ u.frames = m.frames /\ u.updates = m.updates
         /\ m.measuring => /\ u.measurementStart = m.measurementStart
                           /\ u.lastSample = m.lastSample
         /\ u.measuring /\ ~m.measuring =>
              u.measurementStart = t /\ u.lastSample = t
<1>1. CASE ~options.enabled \/ m.measuring \/ t < options.warmupMs
  <2>1. u = m
    BY <1>1 DEF UpdateMeasurementState
  <2> QED
    BY <1>1, <2>1 DEF OptionsAreRead, Collector
<1>2. CASE ~(~options.enabled \/ m.measuring \/ t < options.warmupMs)
  <2>1. u = [m EXCEPT !.measuring = TRUE, !.measurementStart = t, !.lastSample = t]
    BY <1>2 DEF UpdateMeasurementState
  <2>2. u \in Collector
    BY <2>1 DEF Collector
  <2>3. /\ u.measuring /\ u.finished = m.finished /\ u.open = m.open
        /\ u.game = m.game /\ u.lines = m.lines
    BY <2>1 DEF Collector
  <2>4. /\ u.rx = m.rx /\ u.tx = m.tx
        /\ u.frames = m.frames /\ u.updates = m.updates
        /\ u.measurementStart = t /\ u.lastSample = t
    BY <2>1 DEF Collector
  <2> QED
    BY <1>2, <2>2, <2>3, <2>4 DEF OptionsAreRead
<1> QED
  BY <1>1, <1>2

\* Of the collector u is told, more than w was, of n events of a kind.
Counts(u, w, counter, n) ==
  /\ u \in Collector
  /\ u.measuring = w.measuring /\ u.finished = w.finished
  /\ u.open = w.open /\ u.game = w.game /\ u.lines = w.lines
  /\ u.measurementStart = w.measurementStart
  /\ u.lastSample = w.lastSample
  /\ \A e \in Event : u[e] = IF e = counter THEN w[e] + n ELSE w[e]

LEMMA CounterSet ==
  ASSUME NEW w \in Collector, NEW counter \in Event, NEW n \in Nat,
         NEW u, u = [w EXCEPT ![counter] = @ + n]
  PROVE  Counts(u, w, counter, n)
<1>1. CASE counter = "rx"
  <2>1. u = [w EXCEPT !.rx = w.rx + n]
    BY <1>1
  <2>2. u \in Collector
    <3>1. w.rx + n \in Nat
      BY DEF Collector
    <3>2. PICK k \in Nat : k = w.rx + n
      BY <3>1
    <3>3. u = [w EXCEPT !.rx = k]
      BY <2>1, <3>2
    <3> QED
      BY <3>3 DEF Collector
  <2>3. /\ u.measuring = w.measuring /\ u.finished = w.finished
        /\ u.open = w.open /\ u.game = w.game /\ u.lines = w.lines
        /\ u.measurementStart = w.measurementStart
        /\ u.lastSample = w.lastSample
    BY <2>1 DEF Collector
  <2>4. \A e \in Event : u[e] = IF e = counter THEN w[e] + n ELSE w[e]
    BY <1>1, <2>1 DEF Collector, Event
  <2> QED
    BY <2>2, <2>3, <2>4 DEF Counts
<1>2. CASE counter = "tx"
  <2>1. u = [w EXCEPT !.tx = w.tx + n]
    BY <1>2
  <2>2. u \in Collector
    <3>1. w.tx + n \in Nat
      BY DEF Collector
    <3>2. PICK k \in Nat : k = w.tx + n
      BY <3>1
    <3>3. u = [w EXCEPT !.tx = k]
      BY <2>1, <3>2
    <3> QED
      BY <3>3 DEF Collector
  <2>3. /\ u.measuring = w.measuring /\ u.finished = w.finished
        /\ u.open = w.open /\ u.game = w.game /\ u.lines = w.lines
        /\ u.measurementStart = w.measurementStart
        /\ u.lastSample = w.lastSample
    BY <2>1 DEF Collector
  <2>4. \A e \in Event : u[e] = IF e = counter THEN w[e] + n ELSE w[e]
    BY <1>2, <2>1 DEF Collector, Event
  <2> QED
    BY <2>2, <2>3, <2>4 DEF Counts
<1>3. CASE counter = "frames"
  <2>1. u = [w EXCEPT !.frames = w.frames + n]
    BY <1>3
  <2>2. u \in Collector
    <3>1. w.frames + n \in Nat
      BY DEF Collector
    <3>2. PICK k \in Nat : k = w.frames + n
      BY <3>1
    <3>3. u = [w EXCEPT !.frames = k]
      BY <2>1, <3>2
    <3> QED
      BY <3>3 DEF Collector
  <2>3. /\ u.measuring = w.measuring /\ u.finished = w.finished
        /\ u.open = w.open /\ u.game = w.game /\ u.lines = w.lines
        /\ u.measurementStart = w.measurementStart
        /\ u.lastSample = w.lastSample
    BY <2>1 DEF Collector
  <2>4. \A e \in Event : u[e] = IF e = counter THEN w[e] + n ELSE w[e]
    BY <1>3, <2>1 DEF Collector, Event
  <2> QED
    BY <2>2, <2>3, <2>4 DEF Counts
<1>4. CASE counter = "updates"
  <2>1. u = [w EXCEPT !.updates = w.updates + n]
    BY <1>4
  <2>2. u \in Collector
    <3>1. w.updates + n \in Nat
      BY DEF Collector
    <3>2. PICK k \in Nat : k = w.updates + n
      BY <3>1
    <3>3. u = [w EXCEPT !.updates = k]
      BY <2>1, <3>2
    <3> QED
      BY <3>3 DEF Collector
  <2>3. /\ u.measuring = w.measuring /\ u.finished = w.finished
        /\ u.open = w.open /\ u.game = w.game /\ u.lines = w.lines
        /\ u.measurementStart = w.measurementStart
        /\ u.lastSample = w.lastSample
    BY <2>1 DEF Collector
  <2>4. \A e \in Event : u[e] = IF e = counter THEN w[e] + n ELSE w[e]
    BY <1>4, <2>1 DEF Collector, Event
  <2> QED
    BY <2>2, <2>3, <2>4 DEF Counts
<1> QED
  BY <1>1, <1>2, <1>3, <1>4 DEF Event

\* The collector u has these lines, the last of which was written at t.
Relined(u, m, lines, t) ==
  /\ u \in Collector
  /\ u.measuring = m.measuring /\ u.finished = m.finished /\ u.open = m.open
  /\ u.measurementStart = m.measurementStart /\ u.lastSample = t
  /\ u.game = m.game /\ u.rx = m.rx /\ u.tx = m.tx
  /\ u.frames = 0 /\ u.updates = 0 /\ u.lines = lines

LEMMA LinesSet ==
  ASSUME NEW m \in Collector, NEW t \in Nat, NEW lines \in Seq(Line),
         NEW u, u = [m EXCEPT !.lines = lines, !.lastSample = t,
                              !.frames = 0, !.updates = 0]
  PROVE  Relined(u, m, lines, t)
<1>1. u \in Collector
  BY DEF Collector
<1>2. /\ u.measuring = m.measuring /\ u.finished = m.finished /\ u.open = m.open
      /\ u.measurementStart = m.measurementStart /\ u.lastSample = t
  BY DEF Collector
<1>3. /\ u.game = m.game /\ u.rx = m.rx /\ u.tx = m.tx
      /\ u.frames = 0 /\ u.updates = 0 /\ u.lines = lines
  BY DEF Collector
<1> QED
  BY <1>1, <1>2, <1>3 DEF Relined

\* What a call at t makes of the collector m that tells of n events of a kind.
Told(u, m, counter, n, t) ==
  LET begins == options.enabled /\ t >= options.warmupMs
  IN /\ u \in Collector
     /\ u.measuring => m.measuring \/ begins
     /\ m.measuring \/ (n > 0 /\ begins) => u.measuring
     /\ u.finished = m.finished /\ u.open = m.open
     /\ u.game = m.game /\ u.lines = m.lines
     /\ m.measuring => /\ u.measurementStart = m.measurementStart
                       /\ u.lastSample = m.lastSample
     /\ u.measuring /\ ~m.measuring => u.measurementStart = t /\ u.lastSample = t
     /\ \A e \in Event :
          u[e] = IF e = counter /\ u.measuring THEN m[e] + n ELSE m[e]

LEMMA RecordEffect ==
  ASSUME OptionsAreRead, NEW m \in Collector, NEW counter \in Event, NEW n \in Nat,
         NEW t \in Nat, NEW u, u = Record(m, counter, n, t)
  PROVE  Told(u, m, counter, n, t)
<1>1. CASE n = 0
  <2>1. u = m
    BY <1>1 DEF Record
  <2>2. \A e \in Event : m[e] + n = m[e]
    BY <1>1 DEF Collector, Event
  <2> QED
    BY <1>1, <2>1, <2>2 DEF Told
<1>2. CASE n # 0
  <2>1. PICK w : w = UpdateMeasurementState(m, t)
    OBVIOUS
  <2>2. /\ w \in Collector
        /\ w.measuring <=> m.measuring \/ (options.enabled /\ t >= options.warmupMs)
        /\ w.finished = m.finished /\ w.open = m.open
        /\ w.game = m.game /\ w.lines = m.lines
        /\ w.rx = m.rx /\ w.tx = m.tx
        /\ w.frames = m.frames /\ w.updates = m.updates
        /\ m.measuring => /\ w.measurementStart = m.measurementStart
                          /\ w.lastSample = m.lastSample
        /\ w.measuring /\ ~m.measuring =>
             w.measurementStart = t /\ w.lastSample = t
    BY <2>1, UpdateEffect
  <2>3. u = IF w.measuring THEN [w EXCEPT ![counter] = @ + n] ELSE w
    BY <1>2, <2>1 DEF Record
  <2>4. CASE ~w.measuring
    BY <1>2, <2>2, <2>3, <2>4 DEF Event, Told
  <2>5. CASE w.measuring
    <3>1. u = [w EXCEPT ![counter] = @ + n]
      BY <2>3, <2>5
    <3>2. Counts(u, w, counter, n)
      <4>1. w \in Collector
        BY <2>2
      <4> QED
        BY <3>1, <4>1, CounterSet, Zenon
    <3>3. \A e \in Event : w[e] = m[e]
      BY <2>2 DEF Event
    <3> QED
      BY <1>2, <2>2, <2>5, <3>2, <3>3 DEF Counts, Told
  <2> QED
    BY <2>4, <2>5
<1> QED
  BY <1>1, <1>2

LEMMA WriteSampleEffect ==
  ASSUME NEW m \in Collector, NEW t \in Nat, m.open, m.measurementStart <= t
  PROVE  /\ LineOf(m, t) \in Line
         /\ Relined(WriteSample(m, t), m, Append(m.lines, LineOf(m, t)), t)
<1>1. PICK u : u = WriteSample(m, t)
  OBVIOUS
<1>2. LineOf(m, t) \in Line
  BY DEF LineOf, Line, Collector
<1>3. PICK line : line = LineOf(m, t)
  OBVIOUS
<1>4. m.lines \in Seq(Line)
  BY DEF Collector
<1>5. PICK lines : lines = Append(m.lines, line)
  OBVIOUS
<1>6. u = [m EXCEPT !.lines = Append(@, line), !.lastSample = t,
                    !.frames = 0, !.updates = 0]
  BY <1>1, <1>3 DEF WriteSample
<1>7. u = [m EXCEPT !.lines = lines, !.lastSample = t, !.frames = 0, !.updates = 0]
  BY <1>5, <1>6 DEF Collector
<1>8. lines \in Seq(Line)
  BY <1>2, <1>3, <1>4, <1>5, AppendProperties
<1>9. Relined(u, m, lines, t)
  BY <1>7, <1>8, LinesSet, Zenon
<1> QED
  BY <1>1, <1>2, <1>3, <1>5, <1>9, Zenon

LEMMA UpdateTells ==
  ASSUME OptionsAreRead, NEW m \in Collector, NEW t \in Nat,
         NEW u, u = UpdateMeasurementState(m, t)
  PROVE  Told(u, m, "rx", 0, t)
<1>1. /\ u \in Collector
      /\ u.measuring <=> m.measuring \/ (options.enabled /\ t >= options.warmupMs)
      /\ u.finished = m.finished /\ u.open = m.open
      /\ u.game = m.game /\ u.lines = m.lines
      /\ u.rx = m.rx /\ u.tx = m.tx
      /\ u.frames = m.frames /\ u.updates = m.updates
      /\ m.measuring => /\ u.measurementStart = m.measurementStart
                        /\ u.lastSample = m.lastSample
      /\ u.measuring /\ ~m.measuring =>
           u.measurementStart = t /\ u.lastSample = t
  BY UpdateEffect
<1>2. m.rx + 0 = m.rx
  BY DEF Collector
<1> QED
  BY <1>1, <1>2 DEF Told, Event

-----------------------------------------------------------------------------
(* What the lines have together *)

\* There is the function by which SumOf is defined.
LEMMA SumExists ==
  ASSUME NEW lines \in Seq(Line), NEW counter \in {"frames", "updates"}
  PROVE  \E f : f = [k \in 0..Len(lines) |->
                       IF k = 0 THEN 0 ELSE f[k - 1] + lines[k][counter]]
<1> DEFINE Sums(n) ==
             \E f : f = [k \in 0..n |->
                           IF k = 0 THEN 0 ELSE f[k - 1] + lines[k][counter]]
           T == {n \in Nat : Sums(n)}
<1>1. Sums(0)
  <2>1. PICK f : f = [k \in 0..0 |-> 0]
    OBVIOUS
  <2>2. f = [k \in 0..0 |-> IF k = 0 THEN 0 ELSE f[k - 1] + lines[k][counter]]
    BY <2>1
  <2> QED
    BY <2>2
<1>2. ASSUME NEW n \in Nat, Sums(n) PROVE Sums(n + 1)
  <2>1. PICK f : f = [k \in 0..n |->
                        IF k = 0 THEN 0 ELSE f[k - 1] + lines[k][counter]]
    BY <1>2
  <2>2. PICK g : g = [k \in 0..n + 1 |->
                        IF k = n + 1 THEN f[n] + lines[n + 1][counter] ELSE f[k]]
    OBVIOUS
  <2>3. \A k \in 0..n : g[k] = f[k]
    BY <2>2
  <2>4. g[n + 1] = g[n] + lines[n + 1][counter]
    BY <2>2, <2>3
  <2>5. \A k \in 0..n :
          g[k] = IF k = 0 THEN 0 ELSE g[k - 1] + lines[k][counter]
    BY <2>1, <2>3
  <2>6. \A k \in 0..n + 1 :
          g[k] = IF k = 0 THEN 0 ELSE g[k - 1] + lines[k][counter]
    BY <2>4, <2>5
  <2>7. g = [k \in 0..n + 1 |->
               IF k = 0 THEN 0 ELSE g[k - 1] + lines[k][counter]]
    BY <2>2, <2>6
  <2> QED
    BY <2>7, Zenon
<1>3. PICK m \in Nat : m = Len(lines)
  BY LenProperties
<1> HIDE DEF Sums
<1>4. 0 \in T
  BY <1>1
<1>5. ASSUME NEW i \in 0..m - 1, i \in T PROVE i + 1 \in T
  <2>1. i \in Nat /\ Sums(i) /\ i + 1 \in Nat
    BY <1>5
  <2>2. Sums(i + 1)
    BY <1>2, <2>1
  <2> QED
    BY <2>1, <2>2
<1>6. m \in T
  <2> HIDE DEF T
  <2>1. \A i \in 0..m : i \in T
    BY <1>4, <1>5, AllNumbers
  <2> QED
    BY <2>1
<1>7. Sums(Len(lines))
  BY <1>3, <1>6
<1> QED
  BY <1>7 DEF Sums

LEMMA SumIsByLine ==
  ASSUME NEW lines \in Seq(Line), NEW counter \in {"frames", "updates"}
  PROVE  \E f : /\ f[0] = 0
                /\ \A k \in 1..Len(lines) : f[k] = f[k - 1] + lines[k][counter]
                /\ SumOf(counter, lines) = f[Len(lines)]
<1> DEFINE Def(f) == f = [k \in 0..Len(lines) |->
                            IF k = 0 THEN 0 ELSE f[k - 1] + lines[k][counter]]
<1>1. \E f : Def(f)
  BY SumExists
<1>2. PICK f : f = CHOOSE g : Def(g)
  OBVIOUS
<1>3. Def(f)
  <2> HIDE DEF Def
  <2> QED
    BY <1>1, <1>2, Zenon
<1>4. SumOf(counter, lines) = f[Len(lines)]
  BY <1>2 DEF SumOf
<1>5. Len(lines) \in Nat
  BY LenProperties
<1>6. f[0] = 0 /\ \A k \in 1..Len(lines) : f[k] = f[k - 1] + lines[k][counter]
  BY <1>3, <1>5
<1> QED
  BY <1>4, <1>6

LEMMA SumIsNatural ==
  ASSUME NEW lines \in Seq(Line), NEW counter \in {"frames", "updates"}
  PROVE  SumOf(counter, lines) \in Nat
<1>1. PICK f : /\ f[0] = 0
               /\ \A k \in 1..Len(lines) : f[k] = f[k - 1] + lines[k][counter]
               /\ SumOf(counter, lines) = f[Len(lines)]
  BY SumIsByLine
<1>2. PICK n \in Nat : n = Len(lines)
  BY LenProperties
<1>3. \A k \in 1..n : lines[k][counter] \in Nat
  <2>1. \A k \in 1..n : lines[k] \in Line
    BY <1>2, ElementOfSeq
  <2> QED
    BY <2>1 DEF Line
<1> DEFINE T == {k \in Nat : f[k] \in Nat}
<1>4. 0 \in T
  BY <1>1
<1>5. ASSUME NEW i \in 0..n - 1, i \in T PROVE i + 1 \in T
  <2>1. f[i + 1] = f[i] + lines[i + 1][counter]
    BY <1>1, <1>2
  <2> QED
    BY <1>3, <1>5, <2>1
<1>6. \A i \in 0..n : i \in T
  <2> HIDE DEF T
  <2> QED
    BY <1>4, <1>5, AllNumbers
<1> QED
  BY <1>1, <1>2, <1>6

LEMMA SumOfNone ==
  ASSUME NEW counter \in {"frames", "updates"}
  PROVE  SumOf(counter, <<>>) = 0
<1>1. <<>> \in Seq(Line) /\ Len(<<>>) = 0
  OBVIOUS
<1> QED
  BY <1>1, SumIsByLine

\* One line more has as much more.
LEMMA SumAppended ==
  ASSUME NEW lines \in Seq(Line), NEW line \in Line,
         NEW counter \in {"frames", "updates"}
  PROVE  SumOf(counter, Append(lines, line)) = SumOf(counter, lines) + line[counter]
<1>1. PICK n \in Nat : n = Len(lines)
  BY LenProperties
<1>2. PICK more : more = Append(lines, line)
  OBVIOUS
<1>3. /\ more \in Seq(Line) /\ Len(more) = n + 1
      /\ \A k \in 1..n : more[k] = lines[k]
      /\ more[n + 1] = line
  BY <1>1, <1>2, AppendProperties
<1>4. PICK f : /\ f[0] = 0
               /\ \A k \in 1..n : f[k] = f[k - 1] + lines[k][counter]
               /\ SumOf(counter, lines) = f[n]
  BY <1>1, SumIsByLine
<1>5. PICK g : /\ g[0] = 0
               /\ \A k \in 1..n + 1 : g[k] = g[k - 1] + more[k][counter]
               /\ SumOf(counter, more) = g[n + 1]
  <2>1. more \in Seq(Line)
    BY <1>3
  <2>2. \E g : /\ g[0] = 0
               /\ \A k \in 1..Len(more) : g[k] = g[k - 1] + more[k][counter]
               /\ SumOf(counter, more) = g[Len(more)]
    BY <2>1, SumIsByLine
  <2> QED
    BY <1>3, <2>2
<1> DEFINE T == {k \in Nat : f[k] = g[k]}
<1>6. 0 \in T
  BY <1>4, <1>5
<1>7. ASSUME NEW i \in 0..n - 1, i \in T PROVE i + 1 \in T
  <2>1. i + 1 \in 1..n /\ i + 1 \in 1..n + 1 /\ (i + 1) - 1 = i
    OBVIOUS
  <2>2. f[i + 1] = f[i] + lines[i + 1][counter]
    BY <1>4, <2>1
  <2>3. g[i + 1] = g[i] + more[i + 1][counter]
    BY <1>5, <2>1
  <2>4. more[i + 1] = lines[i + 1] /\ f[i] = g[i]
    BY <1>3, <1>7, <2>1
  <2> QED
    BY <2>2, <2>3, <2>4
<1>8. \A i \in 0..n : i \in T
  <2> HIDE DEF T
  <2> QED
    BY <1>6, <1>7, AllNumbers
<1>9. SumOf(counter, more) = g[n] + line[counter] /\ g[n] = f[n]
  BY <1>3, <1>5, <1>8
<1> QED
  BY <1>2, <1>4, <1>9

-----------------------------------------------------------------------------
(* What the collector is told, and writes *)

AccountsAreTrue == Collected /\ GameIsSet /\ LinesAddUp /\ LinesKeepTime

\* Nothing ended yet.
Running(place) == place \notin {"destroy", "done"}

\* What is counted is what was measured, once events of a kind are told.
LEMMA CountsStayTrue ==
  ASSUME OptionsAreRead, AccountsAreTrue, Counted, Running(stage),
         NEW m \in Collector, NEW u, NEW counter \in Event, NEW n \in Nat,
         \A e \in Event : m[e] = metrics[e],
         m.measuring = metrics.measuring, m.lines = metrics.lines,
         Told(u, m, counter, n, now), NEW told,
         told = [e \in Event |->
                   IF options.enabled /\ now >= options.warmupMs /\ e = counter
                   THEN measured[e] + n ELSE measured[e]]
  PROVE  /\ told \in [Event -> Nat]
         /\ \A e \in Event : u[e] \in Nat /\ u[e] - m[e] = told[e] - measured[e]
         /\ (\E e \in Event : told[e] > 0) => u.measuring
<1>1. /\ measured \in [Event -> Nat]
      /\ metrics.measuring => options.enabled /\ now >= options.warmupMs
      /\ (\E e \in Event : measured[e] > 0) => metrics.measuring
      /\ now \in Nat
  <2>1. metrics \in Collector
    BY DEF AccountsAreTrue, Collected, CollectorTypeOK
  <2>2. metrics.measurementStart \in Nat /\ metrics.lastSample \in Nat
    BY <2>1 DEF Collector
  <2> QED
    BY <2>2, LoopAssumption DEF AccountsAreTrue, Collected, LinesKeepTime, Counted,
         OptionsAreRead
<1>2. told \in [Event -> Nat]
  BY <1>1
<1>3. \A e \in Event : m[e] \in Nat
  BY DEF Event, Collector
<1>4. /\ m.measuring \/ (n > 0 /\ options.enabled /\ now >= options.warmupMs)
           => u.measuring
      /\ u.measuring =>
           m.measuring \/ (options.enabled /\ now >= options.warmupMs)
      /\ \A e \in Event :
           u[e] = IF e = counter /\ u.measuring THEN m[e] + n ELSE m[e]
  BY DEF Told
<1>5. \A e \in Event : u[e] \in Nat /\ u[e] - m[e] = told[e] - measured[e]
  <2> SUFFICES ASSUME NEW e \in Event
               PROVE  u[e] \in Nat /\ u[e] - m[e] = told[e] - measured[e]
    OBVIOUS
  <2>1. m[e] \in Nat /\ measured[e] \in Nat
    BY <1>1, <1>3
  <2>2. CASE e # counter
    <3>1. u[e] = m[e] /\ told[e] = measured[e]
      BY <1>4, <2>2
    <3> QED
      BY <2>1, <3>1
  <2>3. CASE e = counter /\ u.measuring
    <3>1. u[e] = m[e] + n /\ told[e] = measured[e] + n
      BY <1>1, <1>4, <2>3
    <3> QED
      BY <2>1, <3>1
  <2>4. CASE e = counter /\ ~u.measuring
    <3>1. u[e] = m[e]
      BY <1>4, <2>4
    <3>2. told[e] = measured[e] \/ (told[e] = measured[e] + n /\ n = 0)
      BY <1>4, <2>4
    <3> QED
      BY <2>1, <3>1, <3>2
  <2> QED
    BY <2>2, <2>3, <2>4
<1>6. ASSUME NEW e \in Event, told[e] > 0 PROVE u.measuring
  <2>1. CASE measured[e] > 0
    BY <1>1, <1>4, <2>1
  <2>2. CASE ~(measured[e] > 0)
    <3>1. measured[e] = 0
      BY <1>1, <2>2
    <3>2. options.enabled /\ now >= options.warmupMs /\ n > 0
      BY <1>6, <3>1
    <3> QED
      BY <1>4, <3>2
  <2> QED
    BY <2>1, <2>2
<1> QED
  BY <1>2, <1>5, <1>6

LEMMA ToldStep ==
  ASSUME OptionsAreRead, AccountsAreTrue, Counted, Running(stage), Running(stage'),
         NEW m \in Collector, NEW counter \in Event, NEW n \in Nat,
         \A e \in Event : m[e] = metrics[e],
         m.measuring = metrics.measuring, m.lines = metrics.lines,
         m.finished = metrics.finished, m.open = metrics.open,
         m.measurementStart = metrics.measurementStart,
         m.lastSample = metrics.lastSample,
         Told(metrics', m, counter, n, now),
         measured' =
           [e \in Event |->
              IF options.enabled /\ now >= options.warmupMs /\ e = counter
              THEN measured[e] + n ELSE measured[e]],
         options' = options, active' = active, now' \in Nat, now <= now',
         entities' = entities + (IF counter = "rx" THEN n ELSE 0),
         options.enabled /\ stage' \notin {"poll", "send", "update"} =>
           m.game = entities'
  PROVE  AccountsAreTrue'
<1>0. /\ metrics \in Collector /\ metrics' \in Collector
      /\ now \in Nat /\ entities \in Nat
  BY LoopAssumption DEF AccountsAreTrue, Collected, CollectorTypeOK, Told, Counted
<1>1. /\ measured' \in [Event -> Nat]
      /\ \A e \in Event :
           metrics'[e] \in Nat /\ metrics'[e] - m[e] = measured'[e] - measured[e]
      /\ (\E e \in Event : measured'[e] > 0) => metrics'.measuring
  BY CountsStayTrue
<1>2. ~metrics.finished
  BY DEF AccountsAreTrue, Collected, Running
<1>3. /\ metrics'.measuring =>
           metrics.measuring \/ (options.enabled /\ now >= options.warmupMs)
      /\ metrics.measuring => metrics'.measuring
      /\ metrics'.finished = metrics.finished /\ metrics'.open = metrics.open
      /\ metrics'.lines = metrics.lines /\ metrics'.game = m.game
      /\ metrics.measuring =>
           /\ metrics'.measurementStart = metrics.measurementStart
           /\ metrics'.lastSample = metrics.lastSample
      /\ metrics'.measuring /\ ~metrics.measuring =>
           metrics'.measurementStart = now /\ metrics'.lastSample = now
  BY DEF Told
<1>4. /\ metrics.measurementStart \in Nat /\ metrics.lastSample \in Nat
      /\ metrics.lines \in Seq(Line) /\ metrics.finished \in BOOLEAN
      /\ metrics.measuring \in BOOLEAN
  BY <1>0 DEF Collector
<1>5. ~metrics.measuring => metrics.lines = <<>>
  BY <1>4 DEF AccountsAreTrue, LinesKeepTime
<1>6. GameIsSet'
  BY <1>3 DEF GameIsSet
<1>7. Collected'
  <2>1. CollectorTypeOK'
    BY <1>0 DEF CollectorTypeOK, AccountsAreTrue, Collected
  <2>2. /\ metrics'.open <=> options'.enabled /\ ~metrics'.finished
        /\ metrics'.finished => stage' \in {"destroy", "done"}
        /\ ~active' => stage' \in {"destroy", "done"}
    BY <1>2, <1>3 DEF AccountsAreTrue, Collected, Running
  <2>3. ASSUME metrics'.measuring
        PROVE  /\ options'.enabled
               /\ options'.warmupMs <= metrics'.measurementStart
               /\ metrics'.measurementStart <= metrics'.lastSample
               /\ metrics'.lastSample <= now'
               /\ metrics'.lastSample = IF metrics'.lines = <<>>
                                        THEN metrics'.measurementStart
                                        ELSE metrics'.lines[Len(metrics'.lines)].time
    <3>1. CASE metrics.measuring
      BY <1>0, <1>3, <1>4, <3>1 DEF AccountsAreTrue, Collected, OptionsAreRead
    <3>2. CASE ~metrics.measuring
      BY <1>0, <1>3, <1>4, <1>5, <2>3, <3>2 DEF OptionsAreRead
    <3> QED
      BY <3>1, <3>2
  <2>4. \A k \in DOMAIN metrics'.lines : metrics'.lines[k].time <= metrics'.lastSample
    <3>1. CASE metrics.measuring
      BY <1>3, <3>1 DEF AccountsAreTrue, Collected
    <3>2. CASE ~metrics.measuring
      BY <1>3, <1>5, <3>2
    <3> QED
      BY <3>1, <3>2
  <2> QED
    BY <1>1, <2>1, <2>2, <2>3, <2>4 DEF Collected
<1>8. LinesAddUp'
  <2>0. /\ measured \in [Event -> Nat]
        /\ \A e \in Event : metrics[e] \in Nat /\ measured[e] \in Nat
                            /\ metrics'[e] = metrics[e] + measured'[e] - measured[e]
    <3>1. \A e \in Event : metrics[e] \in Nat
      BY <1>0 DEF Collector, Event
    <3>2. measured \in [Event -> Nat]
      BY DEF AccountsAreTrue, Collected
    <3> QED
      BY <1>1, <3>1, <3>2
  <2>1. \A event \in {"rx", "tx"} : metrics'[event] = measured'[event]
    <3>1. \A event \in {"rx", "tx"} : metrics[event] = measured[event]
      BY DEF AccountsAreTrue, LinesAddUp
    <3>2. {"rx", "tx"} \subseteq Event
      BY DEF Event
    <3> QED
      BY <1>1, <2>0, <3>1, <3>2
  <2>2. \A event \in {"frames", "updates"} :
          SumOf(event, metrics'.lines) + metrics'[event] = measured'[event]
    <3> SUFFICES ASSUME NEW event \in {"frames", "updates"}
                 PROVE  SumOf(event, metrics.lines) + metrics'[event] = measured'[event]
      BY <1>3
    <3>1. SumOf(event, metrics.lines) + metrics[event] = measured[event]
      BY DEF AccountsAreTrue, LinesAddUp
    <3>2. PICK sum \in Nat : sum = SumOf(event, metrics.lines)
      BY <1>4, SumIsNatural
    <3>3. event \in Event
      BY DEF Event
    <3>4. /\ metrics[event] \in Nat /\ measured[event] \in Nat
          /\ measured'[event] \in Nat /\ metrics'[event] \in Nat
          /\ metrics'[event] = metrics[event] + measured'[event] - measured[event]
      BY <1>1, <2>0, <3>3
    <3>5. PICK a \in Nat, b \in Nat, c \in Nat, d \in Nat :
            /\ a = metrics[event] /\ b = measured[event]
            /\ c = measured'[event] /\ d = metrics'[event]
      BY <3>4
    <3>6. d = a + c - b /\ sum + a = b
      BY <3>1, <3>2, <3>4, <3>5
    <3>7. sum + d = c
      BY <3>6
    <3> QED
      BY <3>2, <3>5, <3>7
  <2>3. \A k \in DOMAIN metrics'.lines :
          metrics'.lines[k].game - metrics'.lines[k].rx = entities' - measured'["rx"]
    <3>1. CASE ~metrics.measuring
      BY <1>3, <1>5, <3>1
    <3>2. CASE metrics.measuring
      <4>1. options.enabled /\ now >= options.warmupMs
        BY <1>0, <1>4, <3>2 DEF AccountsAreTrue, Collected, LinesKeepTime, OptionsAreRead
      <4>2. "rx" \in Event /\ measured["rx"] \in Nat
        BY <2>0 DEF Event
      <4>3. entities' - measured'["rx"] = entities - measured["rx"]
        <5>1. CASE counter = "rx"
          <6>1. measured'["rx"] = measured["rx"] + n /\ entities' = entities + n
            BY <4>1, <4>2, <5>1
          <6> QED
            BY <1>0, <4>2, <6>1
        <5>2. CASE counter # "rx"
          <6>1. measured'["rx"] = measured["rx"] /\ entities' = entities + 0
            BY <4>2, <5>2
          <6> QED
            BY <1>0, <4>2, <6>1
        <5> QED
          BY <5>1, <5>2
      <4>4. \A k \in DOMAIN metrics.lines :
              metrics.lines[k].game - metrics.lines[k].rx = entities - measured["rx"]
        BY DEF AccountsAreTrue, LinesAddUp
      <4> QED
        BY <1>3, <4>3, <4>4
    <3> QED
      BY <3>1, <3>2
  <2> QED
    BY <1>2, <1>3, <2>1, <2>2, <2>3 DEF LinesAddUp
<1>9. LinesKeepTime'
  <2>1. CASE ~metrics.measuring
    <3>1. metrics'.lines = <<>>
      BY <1>3, <1>5, <2>1
    <3>2. metrics'.measuring => metrics'.measurementStart >= options'.warmupMs
      BY <1>3, <2>1
    <3> QED
      BY <1>1, <3>1, <3>2 DEF LinesKeepTime
  <2>2. CASE metrics.measuring
    <3>1. metrics'.measurementStart = metrics.measurementStart /\ metrics'.measuring
      BY <1>3, <2>2
    <3> QED
      BY <1>1, <1>2, <1>3, <2>2, <3>1 DEF AccountsAreTrue, LinesKeepTime
  <2> QED
    BY <2>1, <2>2
<1> QED
  BY <1>6, <1>7, <1>8, <1>9 DEF AccountsAreTrue

\* Nothing is told and nothing written.
LEMMA QuietAccounts ==
  ASSUME OptionsAreRead, AccountsAreTrue, Counted, options' = options,
         metrics' = metrics, active' \in BOOLEAN,
         ~active' => ~active \/ ~Running(stage'), measured' = measured,
         entities' = entities, now' \in Nat, now <= now',
         ~Running(stage) => ~Running(stage'),
         options.enabled /\ stage' \notin {"poll", "send", "update"} =>
           stage \notin {"poll", "send", "update"}
  PROVE  AccountsAreTrue'
<1>0. now \in Nat
  BY LoopAssumption DEF Counted
<1>1. Collected'
  <2>1. CollectorTypeOK'
    BY DEF CollectorTypeOK, AccountsAreTrue, Collected
  <2>2. metrics.measuring => metrics.lastSample \in Nat /\ metrics.lastSample <= now'
    BY <1>0 DEF CollectorTypeOK, AccountsAreTrue, Collected, Collector
  <2> QED
    BY <2>1, <2>2 DEF AccountsAreTrue, Collected, Running
<1>2. GameIsSet'
  BY DEF AccountsAreTrue, GameIsSet
<1>3. LinesAddUp'
  BY DEF AccountsAreTrue, LinesAddUp
<1>4. LinesKeepTime'
  BY DEF AccountsAreTrue, LinesKeepTime
<1> QED
  BY <1>1, <1>2, <1>3, <1>4 DEF AccountsAreTrue

\* A line is written, if it is time or if it is the last one.
LEMMA WrittenStep ==
  ASSUME OptionsAreRead, AccountsAreTrue, Counted,
         metrics.measuring, ~metrics.finished, metrics.game = entities,
         NEW u, Relined(u, metrics, Append(metrics.lines, LineOf(metrics, now)), now),
         metrics' \in Collector,
         metrics'.measuring = u.measuring,
         metrics'.measurementStart = u.measurementStart,
         metrics'.lastSample = u.lastSample, metrics'.lines = u.lines,
         metrics'.game = u.game, metrics'.rx = u.rx, metrics'.tx = u.tx,
         metrics'.frames = u.frames, metrics'.updates = u.updates,
         metrics'.open <=> options.enabled /\ ~metrics'.finished,
         \/ metrics'.finished
         \/ /\ options.metricsMode # "summary"
            /\ now - metrics.lastSample >= SampleInterval,
         metrics'.finished => ~Running(stage'), ~active' => ~Running(stage'),
         active' \in BOOLEAN, ~Running(stage) => ~Running(stage'),
         options' = options, measured' = measured, entities' = entities,
         now' \in Nat, now <= now'
  PROVE  AccountsAreTrue'
<1>0. /\ metrics \in Collector /\ now \in Nat /\ entities \in Nat
      /\ measured \in [Event -> Nat]
  BY LoopAssumption DEF AccountsAreTrue, Collected, CollectorTypeOK, Counted
<1>1. /\ metrics.measurementStart \in Nat /\ metrics.lastSample \in Nat
      /\ metrics.lines \in Seq(Line) /\ metrics.frames \in Nat
      /\ metrics.updates \in Nat /\ metrics.rx \in Nat /\ metrics.tx \in Nat
      /\ metrics.game \in Nat
  BY <1>0 DEF Collector
<1>2. /\ options.enabled
      /\ options.warmupMs <= metrics.measurementStart
      /\ metrics.measurementStart <= metrics.lastSample
      /\ metrics.lastSample <= now
      /\ metrics.lastSample = IF metrics.lines = <<>> THEN metrics.measurementStart
                              ELSE metrics.lines[Len(metrics.lines)].time
      /\ \A k \in DOMAIN metrics.lines : metrics.lines[k].time <= metrics.lastSample
  BY DEF AccountsAreTrue, Collected
<1>3. PICK line : line = LineOf(metrics, now)
  OBVIOUS
<1>4. PICK more : more = Append(metrics.lines, line)
  OBVIOUS
<1>5. /\ line \in Line
      /\ line.time = now /\ line.elapsed = now - metrics.measurementStart
      /\ line.rx = metrics.rx /\ line.tx = metrics.tx
      /\ line.frames = metrics.frames /\ line.updates = metrics.updates
      /\ line.game = metrics.game
  <2>1. now - metrics.measurementStart \in Nat
    BY <1>0, <1>1, <1>2
  <2>2. line = [time |-> now, elapsed |-> now - metrics.measurementStart,
                rx |-> metrics.rx, tx |-> metrics.tx, frames |-> metrics.frames,
                updates |-> metrics.updates, game |-> metrics.game]
    BY <1>3 DEF LineOf
  <2>3. line \in Line
    BY <1>0, <1>1, <2>1, <2>2 DEF Line
  <2> QED
    BY <2>2, <2>3
<1>6. PICK n \in Nat : n = Len(metrics.lines)
  BY <1>1, LenProperties
<1>7. /\ more \in Seq(Line) /\ Len(more) = n + 1
      /\ \A k \in 1..n : more[k] = metrics.lines[k]
      /\ more[n + 1] = line
  BY <1>1, <1>4, <1>5, <1>6, AppendProperties
<1>8. /\ metrics'.measuring
      /\ metrics'.measurementStart = metrics.measurementStart
      /\ metrics'.lastSample = now /\ metrics'.lines = more
      /\ metrics'.game = metrics.game /\ metrics'.rx = metrics.rx
      /\ metrics'.tx = metrics.tx
      /\ metrics'.frames = 0 /\ metrics'.updates = 0
  BY <1>3, <1>4 DEF Relined
<1>9. /\ DOMAIN more = 1..n + 1 /\ DOMAIN metrics.lines = 1..n
      /\ more # <<>> /\ Last(more) = line
  BY <1>1, <1>6, <1>7 DEF Last
<1>10. Collected'
  <2>1. CollectorTypeOK'
    BY DEF CollectorTypeOK
  <2>2. options'.warmupMs <= metrics'.measurementStart
    BY <1>2, <1>8
  <2>3. metrics'.measurementStart <= metrics'.lastSample
    BY <1>0, <1>1, <1>2, <1>8
  <2>4. metrics'.lastSample <= now'
    BY <1>8
  <2>5. metrics'.lastSample = IF metrics'.lines = <<>> THEN metrics'.measurementStart
                              ELSE metrics'.lines[Len(metrics'.lines)].time
    BY <1>5, <1>7, <1>8, <1>9
  <2>6. \A k \in DOMAIN metrics'.lines : metrics'.lines[k].time <= metrics'.lastSample
    <3> SUFFICES ASSUME NEW k \in 1..n + 1 PROVE more[k].time <= now
      BY <1>8, <1>9
    <3>1. CASE k = n + 1
      BY <1>0, <1>5, <1>7, <3>1
    <3>2. CASE k \in 1..n
      <4>1. metrics.lines[k] \in Line
        BY <1>1, <1>6, <3>2, ElementOfSeq
      <4>2. metrics.lines[k].time \in Nat
        BY <4>1 DEF Line
      <4>3. metrics.lines[k].time <= metrics.lastSample
        BY <1>2, <1>9, <3>2
      <4>4. PICK t \in Nat : t = metrics.lines[k].time
        BY <4>2
      <4>5. t <= now
        BY <1>0, <1>1, <1>2, <4>3, <4>4
      <4>6. more[k] = metrics.lines[k]
        BY <1>7, <3>2
      <4> QED
        BY <4>4, <4>5, <4>6
    <3> QED
      BY <3>1, <3>2
  <2> QED
    BY <1>0, <1>2, <2>1, <2>2, <2>3, <2>4, <2>5, <2>6 DEF Collected, Running
<1>11. GameIsSet'
  BY <1>8 DEF GameIsSet
<1>12. LinesAddUp'
  <2>0. /\ \A event \in {"rx", "tx"} : metrics[event] = measured[event]
        /\ \A event \in {"frames", "updates"} :
             SumOf(event, metrics.lines) + metrics[event] = measured[event]
        /\ \A k \in DOMAIN metrics.lines :
             metrics.lines[k].game - metrics.lines[k].rx = entities - measured["rx"]
    BY DEF AccountsAreTrue, LinesAddUp
  <2>1. \A event \in {"rx", "tx"} : metrics'[event] = measured'[event]
    <3>1. metrics'["rx"] = metrics["rx"] /\ metrics'["tx"] = metrics["tx"]
      BY <1>8
    <3> QED
      BY <2>0, <3>1
  <2>2. \A event \in {"frames", "updates"} :
          SumOf(event, metrics'.lines) + metrics'[event] = measured'[event]
    <3> SUFFICES ASSUME NEW event \in {"frames", "updates"}
                 PROVE  SumOf(event, more) + metrics'[event] = measured[event]
      BY <1>8
    <3>1. SumOf(event, more) = SumOf(event, metrics.lines) + line[event]
      BY <1>1, <1>4, <1>5, SumAppended
    <3>2. line[event] = metrics[event] /\ metrics'[event] = 0
      BY <1>5, <1>8
    <3>3. metrics[event] \in Nat
      BY <1>1
    <3>4. PICK sum \in Nat : sum = SumOf(event, metrics.lines)
      BY <1>1, SumIsNatural
    <3> QED
      BY <2>0, <3>1, <3>2, <3>3, <3>4
  <2>3. \A k \in DOMAIN metrics'.lines :
          metrics'.lines[k].game - metrics'.lines[k].rx = entities' - measured'["rx"]
    <3> SUFFICES ASSUME NEW k \in 1..n + 1
                 PROVE  more[k].game - more[k].rx = entities - measured["rx"]
      BY <1>8, <1>9
    <3>1. CASE k = n + 1
      <4>1. metrics["rx"] = measured["rx"]
        BY <2>0
      <4> QED
        BY <1>5, <1>7, <3>1, <4>1
    <3>2. CASE k \in 1..n
      BY <1>7, <1>9, <2>0, <3>2
    <3> QED
      BY <3>1, <3>2
  <2>4. /\ metrics'.lines # <<>>
        /\ Last(metrics'.lines).rx = measured'["rx"]
        /\ Last(metrics'.lines).tx = measured'["tx"]
        /\ metrics'.frames = 0 /\ metrics'.updates = 0
    <3>1. metrics["rx"] = measured["rx"] /\ metrics["tx"] = measured["tx"]
      BY <2>0
    <3> QED
      BY <1>5, <1>8, <1>9, <3>1
  <2> QED
    BY <2>1, <2>2, <2>3, <2>4 DEF LinesAddUp
<1>13. LinesKeepTime'
  <2>1. \A k \in DOMAIN metrics.lines :
          /\ metrics.lines[k].elapsed = metrics.lines[k].time - metrics.measurementStart
          /\ options.metricsMode # "summary"
          /\ metrics.lines[k].time - (IF k = 1 THEN metrics.measurementStart
                                      ELSE metrics.lines[k - 1].time)
               >= SampleInterval
    BY DEF AccountsAreTrue, LinesKeepTime
  <2>2. ASSUME NEW k \in 1..n + 1
        PROVE  /\ more[k].elapsed = more[k].time - metrics.measurementStart
               /\ ~(metrics'.finished /\ k = n + 1) =>
                    /\ options.metricsMode # "summary"
                    /\ more[k].time - (IF k = 1 THEN metrics.measurementStart
                                       ELSE more[k - 1].time)
                         >= SampleInterval
    <3>1. CASE k = n + 1
      <4>1. more[k].elapsed = more[k].time - metrics.measurementStart
        BY <1>5, <1>7, <3>1
      <4>2. metrics.lastSample = IF k = 1 THEN metrics.measurementStart
                                 ELSE more[k - 1].time
        <5>1. CASE n = 0
          <6>1. metrics.lines = <<>>
            <7>1. metrics.lines \in Seq(Line)
              BY <1>1
            <7> QED
              BY <1>6, <5>1, <7>1, EmptySeq
          <6> QED
            BY <1>2, <3>1, <5>1, <6>1
        <5>2. CASE n # 0
          <6>1. metrics.lines # <<>> /\ n \in 1..n
            BY <1>6, <5>2
          <6>2. more[n] = metrics.lines[n]
            BY <1>7, <6>1
          <6>3. k # 1 /\ k - 1 = n
            BY <3>1, <5>2
          <6> QED
            BY <1>2, <1>6, <6>1, <6>2, <6>3
        <5> QED
          BY <5>1, <5>2
      <4>3. more[k].time = now
        BY <1>5, <1>7, <3>1
      <4> QED
        BY <3>1, <4>1, <4>2, <4>3
    <3>2. CASE k \in 1..n
      <4>1. more[k] = metrics.lines[k]
        BY <1>7, <3>2
      <4>2. k # 1 => more[k - 1] = metrics.lines[k - 1]
        BY <1>7, <3>2
      <4> QED
        BY <1>9, <2>1, <3>2, <4>1, <4>2
    <3> QED
      BY <3>1, <3>2
  <2>3. metrics'.measurementStart >= options'.warmupMs
    BY <1>1, <1>2, <1>8 DEF OptionsAreRead
  <2>4. Len(metrics'.lines) = n + 1 /\ DOMAIN metrics'.lines = 1..n + 1
    BY <1>7, <1>8, <1>9
  <2> QED
    BY <1>8, <2>2, <2>3, <2>4 DEF LinesKeepTime
<1> QED
  BY <1>10, <1>11, <1>12, <1>13 DEF AccountsAreTrue

-----------------------------------------------------------------------------
(* Counters that wrap *)

LEMMA QuotientAndRest ==
  ASSUME NEW n \in Nat \ {0}, NEW a \in Int
  PROVE  \E q \in Int, r \in 0..n - 1 : r = a % n /\ a = n * q + r
<1>1. a \div n \in Int /\ a % n \in 0..n - 1 /\ a = n * (a \div n) + (a % n)
  OBVIOUS
<1>2. PICK q \in Int : q = a \div n
  BY <1>1
<1>3. PICK r \in 0..n - 1 : r = a % n
  BY <1>1
<1> QED
  BY <1>1, <1>2, <1>3, Zenon

LEMMA MultipleBelow ==
  ASSUME NEW n \in Nat \ {0}, NEW k \in Int, NEW d \in Int,
         -n < d, d < n, d = n * k
  PROVE  k = 0
<1>1. CASE k >= 1
  <2>1. n * k >= n
    BY <1>1
  <2> QED
    BY <2>1
<1>2. CASE k <= -1
  <2>1. n * k <= -n
    BY <1>2
  <2> QED
    BY <2>1
<1> QED
  BY <1>1, <1>2

LEMMA RestIsUnique ==
  ASSUME NEW n \in Nat \ {0}, NEW a \in Int, NEW q \in Int, NEW r \in 0..n - 1,
         a = n * q + r
  PROVE  a % n = r
<1>1. PICK p \in Int, s \in 0..n - 1 : s = a % n /\ a = n * p + s
  BY QuotientAndRest, Zenon
<1>2. n * (q - p) = s - r
  <2>1. n * (q - p) = n * q - n * p
    OBVIOUS
  <2> QED
    BY <1>1, <2>1
<1>3. PICK k \in Int : k = q - p
  OBVIOUS
<1>4. PICK d \in Int : d = s - r
  OBVIOUS
<1>5. -n < d /\ d < n
  BY <1>4
<1>6. d = n * k
  BY <1>2, <1>3, <1>4
<1>7. k = 0
  BY <1>5, <1>6, MultipleBelow
<1> QED
  BY <1>1, <1>2, <1>3, <1>7

\* A counter that was cut before goes on as if it had not been.
LEMMA CutSum ==
  ASSUME NEW n \in Nat \ {0}, NEW a \in Int, NEW b \in Int
  PROVE  ((a % n) + b) % n = (a + b) % n
<1>1. PICK p \in Int, s \in 0..n - 1 : s = a % n /\ a = n * p + s
  BY QuotientAndRest, Zenon
<1>2. PICK q \in Int, r \in 0..n - 1 : r = (s + b) % n /\ s + b = n * q + r
  <2>1. s + b \in Int
    OBVIOUS
  <2> QED
    BY <2>1, QuotientAndRest, Zenon
<1>3. a + b = n * (p + q) + r
  <2>1. n * (p + q) = n * p + n * q
    OBVIOUS
  <2>2. PICK x \in Int, y \in Int : x = n * p /\ y = n * q
    OBVIOUS
  <2>3. a = x + s /\ s + b = y + r
    BY <1>1, <1>2, <2>2
  <2>4. a + b = x + y + r
    BY <2>3
  <2>5. PICK w \in Int : w = n * (p + q)
    OBVIOUS
  <2>6. w = x + y
    BY <2>1, <2>2, <2>5
  <2> QED
    BY <2>4, <2>5, <2>6
<1>4. (a + b) % n = r
  <2>1. PICK c \in Int : c = a + b
    OBVIOUS
  <2>2. PICK k \in Int : k = p + q
    OBVIOUS
  <2>3. c = n * k + r
    BY <1>3, <2>1, <2>2
  <2>4. c % n = r
    BY <2>3, RestIsUnique
  <2> QED
    BY <2>1, <2>4
<1> QED
  BY <1>1, <1>2, <1>4

\* The difference of two readings is that of the numbers that were read.
LEMMA CutDifference ==
  ASSUME NEW n \in Nat \ {0}, NEW a \in Int, NEW b \in Int
  PROVE  ((a % n) - (b % n)) % n = (a - b) % n
<1>1. PICK p \in Int, s \in 0..n - 1 : s = a % n /\ a = n * p + s
  BY QuotientAndRest, Zenon
<1>2. PICK q \in Int, r \in 0..n - 1 : r = b % n /\ b = n * q + r
  BY QuotientAndRest, Zenon
<1>3. PICK m \in Int, t \in 0..n - 1 : t = (s - r) % n /\ s - r = n * m + t
  <2>1. s - r \in Int
    OBVIOUS
  <2> QED
    BY <2>1, QuotientAndRest, Zenon
<1>4. PICK k \in Int : k = p - q + m
  OBVIOUS
<1>5. a - b = n * k + t
  <2>1. n * (p - q + m) = n * p - n * q + n * m
    OBVIOUS
  <2>2. PICK x \in Int, y \in Int, z \in Int :
          x = n * p /\ y = n * q /\ z = n * m
    OBVIOUS
  <2>3. PICK w \in Int : w = n * k
    OBVIOUS
  <2>4. w = x - y + z
    BY <1>4, <2>1, <2>2, <2>3
  <2>5. a = x + s /\ b = y + r /\ s - r = z + t
    BY <1>1, <1>2, <1>3, <2>2
  <2>6. a - b = w + t
    BY <2>4, <2>5
  <2> QED
    BY <2>3, <2>6
<1>6. (a - b) % n = t
  <2>1. PICK c \in Int : c = a - b
    OBVIOUS
  <2>2. c = n * k + t
    BY <1>5, <2>1
  <2>3. c % n = t
    BY <2>2, RestIsUnique
  <2> QED
    BY <2>1, <2>3
<1> QED
  BY <1>1, <1>2, <1>3, <1>6

-----------------------------------------------------------------------------
(* The window *)

LEMMA GreatestNumber ==
  ASSUME NEW n \in Nat, NEW K \in SUBSET (0..n), K # {}
  PROVE  /\ Max(K) \in K
         /\ \A k \in K : k <= Max(K)
<1> DEFINE T == {n - k : k \in K}
<1>0. \A k \in K : k \in 0..n
  OBVIOUS
<1>1. T \subseteq Nat /\ T # {}
  <2>1. T # {}
    OBVIOUS
  <2>2. \A k \in 0..n : n - k \in Nat
    OBVIOUS
  <2> QED
    BY <1>0, <2>1, <2>2
<1>2. PICK x \in T : \A y \in T : x <= y
  <2> HIDE DEF T
  <2> QED
    BY <1>1, LeastNumber, Zenon
<1>3. PICK m \in K : x = n - m
  BY <1>2
<1>4. \A k \in K : m >= k
  <2> SUFFICES ASSUME NEW k \in K PROVE m >= k
    OBVIOUS
  <2>1. n - k \in T
    OBVIOUS
  <2>2. n - m <= n - k
    BY <1>2, <1>3, <2>1
  <2>3. m \in 0..n /\ k \in 0..n
    OBVIOUS
  <2> QED
    BY <2>2, <2>3
<1>5. Max(K) = CHOOSE y \in K : \A k \in K : y >= k
  BY DEF Max
<1>6. Max(K) \in K /\ \A k \in K : Max(K) >= k
  BY <1>4, <1>5, Zenon
<1>7. PICK top \in 0..n : top = Max(K)
  BY <1>0, <1>6
<1>8. \A k \in K : k <= top
  <2>1. \A k \in K : k \in 0..n /\ top >= k
    BY <1>0, <1>6, <1>7
  <2>2. \A k \in 0..n : top >= k => k <= top
    OBVIOUS
  <2> QED
    BY <2>1, <2>2
<1> QED
  BY <1>6, <1>7, <1>8

\* Of entries in order those are erased that are older than the window.
LEMMA ErasedEntries ==
  ASSUME NEW S, NEW entries \in Seq(S), NEW cur \in Int,
         \A i \in DOMAIN entries : entries[i].at \in Int,
         \A i, j \in DOMAIN entries : i < j => entries[i].at <= entries[j].at
  PROVE  \E old \in 0..Len(entries) :
           /\ EraseOld(entries, cur) = SubSeq(entries, old + 1, Len(entries))
           /\ \A i \in DOMAIN entries : entries[i].at < cur - WindowSize <=> i <= old
<1> DEFINE K == {k \in 0..Len(entries) :
                   \A i \in 1..k : entries[i].at < cur - WindowSize}
<1>1. PICK n \in Nat : n = Len(entries) /\ DOMAIN entries = 1..n
  BY LenProperties
<1>2. K \in SUBSET (0..n) /\ 0 \in K
  BY <1>1
<1>3. PICK old : old = Max(K)
  OBVIOUS
<1>4. old \in K /\ \A k \in K : k <= old
  <2> HIDE DEF K
  <2>1. K # {}
    BY <1>2
  <2> QED
    BY <1>2, <1>3, <2>1, GreatestNumber
<1>5. old \in 0..n /\ \A i \in 1..old : entries[i].at < cur - WindowSize
  BY <1>1, <1>4
<1>6. \A i \in 1..n : entries[i].at < cur - WindowSize => i <= old
  <2> SUFFICES ASSUME NEW i \in 1..n, entries[i].at < cur - WindowSize, ~(i <= old)
               PROVE  FALSE
    OBVIOUS
  <2>1. old + 1 \in 1..n /\ old + 1 <= i
    BY <1>5
  <2>2. entries[old + 1].at < cur - WindowSize
    <3>1. CASE old + 1 = i
      BY <3>1
    <3>2. CASE old + 1 # i
      <4>1. entries[old + 1].at <= entries[i].at
        BY <1>1, <2>1, <3>2
      <4>2. entries[old + 1].at \in Int /\ entries[i].at \in Int
        BY <1>1, <2>1
      <4> QED
        BY <4>1, <4>2, LoopAssumption
    <3> QED
      BY <3>1, <3>2
  <2>3. \A j \in 1..old + 1 : entries[j].at < cur - WindowSize
    <3> SUFFICES ASSUME NEW j \in 1..old + 1
                 PROVE  entries[j].at < cur - WindowSize
      OBVIOUS
    <3>1. j \in 1..old \/ j = old + 1
      BY <1>5
    <3> QED
      BY <1>5, <2>2, <3>1
  <2>4. old + 1 \in K
    BY <1>1, <2>1, <2>3
  <2>5. old + 1 <= old
    BY <1>4, <2>4
  <2> QED
    BY <1>5, <2>5
<1>7. EraseOld(entries, cur) = SubSeq(entries, old + 1, Len(entries))
  BY <1>3 DEF EraseOld
<1>8. \A i \in DOMAIN entries : entries[i].at < cur - WindowSize <=> i <= old
  BY <1>1, <1>5, <1>6
<1> QED
  BY <1>1, <1>5, <1>7, <1>8

\* A pass is entered at the end of the trace.
LEMMA TracedPass ==
  ASSUME Traced, NEW dt \in Nat, NEW mid \in [Way -> Nat],
         curTime' = curTime + dt,
         trace' = Append(trace, [at |-> curTime + dt, moved |-> mid]),
         moved' \in [Way -> Nat],
         \A way \in Way : moved[way] <= mid[way] /\ mid[way] <= moved'[way]
  PROVE  /\ Traced'
         /\ Len(trace) \in Nat /\ Len(trace') = Len(trace) + 1
         /\ \A k \in DOMAIN trace : trace'[k] = trace[k]
         /\ trace'[Len(trace) + 1] = [at |-> curTime + dt, moved |-> mid]
<1>0. curTime \in Nat /\ moved \in [Way -> Nat] /\ trace \in Seq(Pass)
  BY DEF Traced
<1>1. PICK n \in Nat : n = Len(trace) /\ DOMAIN trace = 1..n
  BY <1>0, LenProperties
<1>2. PICK cur \in Nat : cur = curTime + dt
  BY <1>0
<1>3. PICK new : new = [at |-> cur, moved |-> mid]
  OBVIOUS
<1>4. new \in Pass /\ new.at = cur /\ new.moved = mid
  BY <1>3 DEF Pass
<1>5. PICK more : more = Append(trace, new)
  OBVIOUS
<1>6. /\ more \in Seq(Pass) /\ Len(more) = n + 1 /\ DOMAIN more = 1..n + 1
      /\ \A k \in 1..n : more[k] = trace[k]
      /\ more[n + 1] = new
  BY <1>0, <1>1, <1>4, <1>5, AppendProperties, LenProperties
<1>7. trace' = more /\ curTime' = cur
  BY <1>2, <1>3, <1>5
<1>8. \A k \in 1..n :
        /\ trace[k].at \in 0..curTime
        /\ trace[k].moved \in [Way -> Nat]
        /\ \A way \in Way : trace[k].moved[way] <= moved[way]
  <2>1. \A k \in 1..n : trace[k] \in Pass
    BY <1>0, <1>1, ElementOfSeq
  <2> QED
    BY <1>1, <2>1 DEF Traced, Pass
<1>9. ASSUME NEW k \in 1..n + 1
      PROVE  /\ more[k].at \in 0..cur
             /\ \A way \in Way : more[k].moved[way] <= moved'[way]
  <2>1. CASE k = n + 1
    BY <1>0, <1>2, <1>4, <1>6, <2>1
  <2>2. CASE k \in 1..n
    <3>1. more[k] = trace[k]
      BY <1>6, <2>2
    <3>2. \A way \in Way : more[k].moved[way] <= moved'[way]
      <4> SUFFICES ASSUME NEW way \in Way PROVE more[k].moved[way] <= moved'[way]
        OBVIOUS
      <4>1. /\ trace[k].moved[way] \in Nat /\ moved[way] \in Nat
            /\ mid[way] \in Nat /\ moved'[way] \in Nat
        BY <1>0, <1>8, <2>2
      <4> QED
        BY <1>8, <2>2, <3>1, <4>1
    <3>3. more[k].at \in 0..cur
      BY <1>0, <1>2, <1>8, <2>2, <3>1
    <3> QED
      BY <3>2, <3>3
  <2> QED
    BY <2>1, <2>2
<1>10. ASSUME NEW j \in 1..n + 1, NEW k \in 1..n + 1, j < k
       PROVE  /\ more[j].at <= more[k].at
              /\ \A way \in Way : more[j].moved[way] <= more[k].moved[way]
  <2>1. j \in 1..n
    BY <1>10
  <2>2. CASE k = n + 1
    <3>1. \A way \in Way : more[j].moved[way] <= mid[way]
      <4> SUFFICES ASSUME NEW way \in Way PROVE trace[j].moved[way] <= mid[way]
        BY <1>6, <2>1
      <4>1. /\ trace[j].moved[way] \in Nat /\ moved[way] \in Nat
            /\ mid[way] \in Nat
        BY <1>0, <1>8, <2>1
      <4>2. trace[j].moved[way] <= moved[way] /\ moved[way] <= mid[way]
        BY <1>8, <2>1
      <4>3. PICK a \in Nat, b \in Nat, c \in Nat :
              a = trace[j].moved[way] /\ b = moved[way] /\ c = mid[way]
        BY <4>1
      <4> QED
        BY <4>2, <4>3
    <3>2. more[j].at <= cur
      <4>1. trace[j].at \in 0..curTime /\ more[j] = trace[j]
        BY <1>6, <1>8, <2>1
      <4>2. PICK t \in 0..curTime : t = more[j].at
        BY <4>1
      <4>3. t <= cur
        BY <1>0, <1>2
      <4> QED
        BY <4>2, <4>3
    <3> QED
      BY <1>4, <1>6, <2>2, <3>1, <3>2
  <2>3. CASE k \in 1..n
    <3>1. more[j] = trace[j] /\ more[k] = trace[k]
      BY <1>6, <2>1, <2>3
    <3>2. /\ trace[j].at <= trace[k].at
          /\ \A way \in Way : trace[j].moved[way] <= trace[k].moved[way]
      BY <1>1, <1>10, <2>1, <2>3 DEF Traced
    <3> QED
      BY <3>1, <3>2
  <2> QED
    BY <2>2, <2>3
<1>11. Traced'
  <2>1. curTime' \in Nat /\ trace' \in Seq(Pass)
    BY <1>6, <1>7
  <2>2. trace' # <<>> /\ trace'[Len(trace')].at = curTime'
    BY <1>4, <1>6, <1>7
  <2>3. \A k \in DOMAIN trace' :
          /\ trace'[k].at \in 0..curTime'
          /\ \A way \in Way : trace'[k].moved[way] <= moved'[way]
    BY <1>6, <1>7, <1>9
  <2>4. \A j, k \in DOMAIN trace' :
          j < k => /\ trace'[j].at <= trace'[k].at
                   /\ \A way \in Way : trace'[j].moved[way] <= trace'[k].moved[way]
    BY <1>6, <1>7, <1>10
  <2> QED
    BY <2>1, <2>2, <2>3, <2>4 DEF Traced, Pass, Way
<1> QED
  BY <1>1, <1>2, <1>3, <1>6, <1>7, <1>11

\* What Append and EraseOld make of the entries.
LEMMA WindowMoves ==
  ASSUME NEW entries, NEW passes \in Seq(Pass), NEW way \in Way,
         NEW cur \in Int, NEW new \in Pass, cur <= new.at,
         Shows(entries, passes, way, cur),
         \A k \in DOMAIN passes : passes[k].at <= new.at,
         \A j, k \in DOMAIN passes : j < k => passes[j].at <= passes[k].at
  PROVE  Shows(EraseOld(Append(entries, Entry(way, new)), new.at),
               Append(passes, new), way, new.at)
<1>1. PICK n \in Nat : n = Len(passes) /\ DOMAIN passes = 1..n
  BY LenProperties
<1>2. entries \in Seq(Kept)
  BY DEF Shows
<1>3. PICK m \in Nat : m = Len(entries) /\ DOMAIN entries = 1..m
  BY <1>2, LenProperties
<1>4. PICK old \in Nat : old = n - m /\ old + m = n
  <2>1. Len(passes) - Len(entries) >= 0
    BY DEF Shows
  <2>2. n - m >= 0
    BY <1>1, <1>3, <2>1
  <2> QED
    BY <2>2
<1>5. /\ \A i \in 1..m : entries[i] = Entry(way, passes[old + i])
      /\ \A k \in 1..n : passes[k].at < cur - WindowSize <=> k <= old
  BY <1>1, <1>3, <1>4 DEF Shows
<1>6. PICK more : more = Append(passes, new)
  OBVIOUS
<1>7. /\ more \in Seq(Pass) /\ Len(more) = n + 1 /\ DOMAIN more = 1..n + 1
      /\ \A k \in 1..n : more[k] = passes[k]
      /\ more[n + 1] = new
  BY <1>1, <1>6, AppendProperties, LenProperties
<1>8. \A k \in 1..n + 1 : more[k].at \in Nat
  <2>1. \A k \in 1..n + 1 : more[k] \in Pass
    BY <1>7, ElementOfSeq
  <2> QED
    BY <2>1 DEF Pass
<1>9. PICK entry : entry = Entry(way, new)
  OBVIOUS
<1>10. entry \in Kept
  <2>1. new.moved[way] \in Nat /\ new.at \in Nat
    BY DEF Pass
  <2>2. new.moved[way] % UInt32 \in 0..UInt32 - 1
    BY <2>1, LoopAssumption
  <2> QED
    BY <1>9, <2>1, <2>2 DEF Entry, Kept
<1>11. PICK all : all = Append(entries, entry)
  OBVIOUS
<1>12. /\ all \in Seq(Kept) /\ Len(all) = m + 1 /\ DOMAIN all = 1..m + 1
       /\ \A i \in 1..m : all[i] = entries[i]
       /\ all[m + 1] = entry
  BY <1>2, <1>3, <1>10, <1>11, AppendProperties, LenProperties
<1>13. \A i \in 1..m + 1 : all[i] = Entry(way, more[old + i]) /\ old + i \in 1..n + 1
  <2> SUFFICES ASSUME NEW i \in 1..m + 1
               PROVE  all[i] = Entry(way, more[old + i]) /\ old + i \in 1..n + 1
    OBVIOUS
  <2>1. old + i \in 1..n + 1
    BY <1>4
  <2>2. CASE i = m + 1
    <3>1. old + i = n + 1
      BY <1>4, <2>2
    <3> QED
      BY <1>7, <1>9, <1>12, <2>1, <2>2, <3>1
  <2>3. CASE i \in 1..m
    <3>1. old + i \in 1..n
      BY <1>4, <2>3
    <3> QED
      BY <1>5, <1>7, <1>12, <2>1, <2>3, <3>1
  <2> QED
    BY <2>2, <2>3
<1>14. \A i \in 1..m + 1 : all[i].at = more[old + i].at /\ all[i].at \in Nat
  <2> SUFFICES ASSUME NEW i \in 1..m + 1
               PROVE  all[i].at = more[old + i].at /\ all[i].at \in Nat
    OBVIOUS
  <2>1. all[i] = Entry(way, more[old + i]) /\ old + i \in 1..n + 1
    BY <1>13
  <2>2. all[i].at = more[old + i].at
    BY <2>1 DEF Entry
  <2> QED
    BY <1>8, <2>1, <2>2
<1>15. \A j, k \in 1..n + 1 : j < k => more[j].at <= more[k].at
  <2> SUFFICES ASSUME NEW j \in 1..n + 1, NEW k \in 1..n + 1, j < k
               PROVE  more[j].at <= more[k].at
    OBVIOUS
  <2>1. j \in 1..n
    OBVIOUS
  <2>2. CASE k \in 1..n
    BY <1>1, <1>7, <2>1, <2>2
  <2>3. CASE k = n + 1
    <3>1. passes[j].at <= new.at
      BY <1>1, <2>1
    <3> QED
      BY <1>7, <2>1, <2>3, <3>1
  <2> QED
    BY <2>2, <2>3
<1>16. \A i, j \in 1..m + 1 : i < j => all[i].at <= all[j].at
  <2> SUFFICES ASSUME NEW i \in 1..m + 1, NEW j \in 1..m + 1, i < j
               PROVE  all[i].at <= all[j].at
    OBVIOUS
  <2>1. old + i \in 1..n + 1 /\ old + j \in 1..n + 1
    BY <1>13
  <2>2. old + i < old + j
    OBVIOUS
  <2>3. more[old + i].at <= more[old + j].at
    BY <1>15, <2>1, <2>2
  <2> QED
    BY <1>14, <2>3
<1>17. PICK least \in Int : least = new.at
  BY DEF Pass
<1>18. PICK out \in 0..m + 1 :
         /\ EraseOld(all, least) = SubSeq(all, out + 1, m + 1)
         /\ \A i \in 1..m + 1 : all[i].at < least - WindowSize <=> i <= out
  <2>1. \A i \in DOMAIN all : all[i].at \in Int
    BY <1>12, <1>14
  <2>2. \A i, j \in DOMAIN all : i < j => all[i].at <= all[j].at
    BY <1>12, <1>16
  <2>3. \E out \in 0..Len(all) :
          /\ EraseOld(all, least) = SubSeq(all, out + 1, Len(all))
          /\ \A i \in DOMAIN all : all[i].at < least - WindowSize <=> i <= out
    BY <1>12, <2>1, <2>2, ErasedEntries
  <2> QED
    BY <1>12, <2>3
<1>19. PICK rest : rest = SubSeq(all, out + 1, m + 1)
  OBVIOUS
<1>20. /\ rest \in Seq(Kept) /\ Len(rest) = m + 1 - out
       /\ DOMAIN rest = 1..m + 1 - out
       /\ \A i \in 1..m + 1 - out : rest[i] = all[out + i]
  <2>1. PICK first \in Int, last \in Int : first = out + 1 /\ last = m + 1
    OBVIOUS
  <2>2. \A i \in first..last : all[i] \in Kept
    <3> SUFFICES ASSUME NEW i \in first..last PROVE all[i] \in Kept
      OBVIOUS
    <3>1. i \in 1..Len(all)
      BY <1>12, <2>1
    <3> QED
      BY <1>12, <3>1, ElementOfSeq
  <2>3. rest = SubSeq(all, first, last)
    BY <1>19, <2>1
  <2>4. /\ rest \in Seq(Kept)
        /\ Len(rest) = IF first <= last THEN last - first + 1 ELSE 0
        /\ \A i \in 1..last - first + 1 : rest[i] = all[first + i - 1]
    BY <2>2, <2>3, SubSeqProperties
  <2>5. last - first + 1 = m + 1 - out /\ Len(rest) = m + 1 - out
    BY <2>1, <2>4
  <2>6. ASSUME NEW i \in 1..m + 1 - out PROVE rest[i] = all[out + i]
    <3>1. first + i - 1 = out + i
      BY <2>1
    <3> QED
      BY <2>4, <2>5, <3>1
  <2>7. DOMAIN rest = 1..m + 1 - out
    BY <2>4, <2>5, LenProperties
  <2> QED
    BY <2>4, <2>5, <2>6, <2>7
<1>21. Len(more) - Len(rest) = old + out
  BY <1>4, <1>7, <1>20
<1>22. \A i \in DOMAIN rest : rest[i] = Entry(way, more[old + out + i])
  <2> SUFFICES ASSUME NEW i \in 1..m + 1 - out
               PROVE  rest[i] = Entry(way, more[old + out + i])
    BY <1>20
  <2>1. out + i \in 1..m + 1 /\ old + (out + i) = old + out + i
    OBVIOUS
  <2> QED
    BY <1>13, <1>20, <2>1
<1>23. \A k \in DOMAIN more : more[k].at < least - WindowSize <=> k <= old + out
  <2> SUFFICES ASSUME NEW k \in 1..n + 1
               PROVE  more[k].at < least - WindowSize <=> k <= old + out
    BY <1>7
  <2>1. CASE k <= old
    <3>1. k \in 1..n /\ k <= old + out
      BY <1>4, <2>1
    <3>2. more[k].at < cur - WindowSize
      BY <1>5, <1>7, <2>1, <3>1
    <3>3. PICK t \in Nat : t = more[k].at
      BY <1>8
    <3>4. t < least - WindowSize
      BY <1>17, <3>2, <3>3, LoopAssumption
    <3> QED
      BY <3>1, <3>3, <3>4
  <2>2. CASE ~(k <= old)
    <3>1. PICK i \in 1..m + 1 : k = old + i
      <4>1. k - old \in 1..m + 1 /\ k = old + (k - old)
        BY <1>4, <2>2
      <4> QED
        BY <4>1
    <3>2. more[k].at = all[i].at
      BY <1>14, <3>1
    <3>3. all[i].at < least - WindowSize <=> i <= out
      BY <1>18
    <3>4. i <= out <=> k <= old + out
      BY <3>1
    <3> QED
      BY <3>2, <3>3, <3>4
  <2> QED
    BY <2>1, <2>2
<1>24. Shows(rest, more, way, least)
  <2>1. Len(more) - Len(rest) >= 0
    BY <1>21
  <2> QED
    BY <1>20, <1>21, <1>22, <1>23, <2>1 DEF Shows
<1> QED
  BY <1>6, <1>9, <1>11, <1>17, <1>18, <1>19, <1>24

-----------------------------------------------------------------------------
(* The first state *)

\* There is the function by which Scanned is defined.
LEMMA ScanExists ==
  ASSUME NEW argv \in Seq(STRING)
  PROVE  \E f : f = [i \in 0..Len(argv) |->
                       IF i = 0 THEN ScanStart ELSE ScanNext(f[i - 1], argv, i)]
<1> DEFINE Scans(n) ==
             \E f : f = [i \in 0..n |->
                           IF i = 0 THEN ScanStart ELSE ScanNext(f[i - 1], argv, i)]
           T == {n \in Nat : Scans(n)}
<1>1. Scans(0)
  <2>1. PICK f : f = [i \in 0..0 |-> ScanStart]
    OBVIOUS
  <2>2. f = [i \in 0..0 |->
               IF i = 0 THEN ScanStart ELSE ScanNext(f[i - 1], argv, i)]
    BY <2>1
  <2> QED
    BY <2>2
<1>2. ASSUME NEW n \in Nat, Scans(n) PROVE Scans(n + 1)
  <2>1. PICK f : f = [i \in 0..n |->
                        IF i = 0 THEN ScanStart ELSE ScanNext(f[i - 1], argv, i)]
    BY <1>2
  <2>2. PICK g : g = [i \in 0..n + 1 |->
                        IF i = n + 1 THEN ScanNext(f[n], argv, n + 1) ELSE f[i]]
    OBVIOUS
  <2>3. \A i \in 0..n : g[i] = f[i]
    BY <2>2
  <2>4. g[n + 1] = ScanNext(g[n], argv, n + 1)
    BY <2>2, <2>3
  <2>5. \A i \in 0..n :
          g[i] = IF i = 0 THEN ScanStart ELSE ScanNext(g[i - 1], argv, i)
    BY <2>1, <2>3
  <2>6. \A i \in 0..n + 1 :
          g[i] = IF i = 0 THEN ScanStart ELSE ScanNext(g[i - 1], argv, i)
    BY <2>4, <2>5
  <2>7. g = [i \in 0..n + 1 |->
               IF i = 0 THEN ScanStart ELSE ScanNext(g[i - 1], argv, i)]
    BY <2>2, <2>6
  <2> QED
    BY <2>7, Zenon
<1>3. PICK m \in Nat : m = Len(argv)
  BY LenProperties
<1> HIDE DEF Scans
<1>4. 0 \in T
  BY <1>1
<1>5. ASSUME NEW i \in 0..m - 1, i \in T PROVE i + 1 \in T
  <2>1. i \in Nat /\ Scans(i) /\ i + 1 \in Nat
    BY <1>5
  <2>2. Scans(i + 1)
    BY <1>2, <2>1
  <2> QED
    BY <2>1, <2>2
<1>6. m \in T
  <2> HIDE DEF T
  <2>1. \A i \in 0..m : i \in T
    BY <1>4, <1>5, AllNumbers
  <2> QED
    BY <2>1
<1>7. Scans(Len(argv))
  BY <1>3, <1>6
<1> QED
  BY <1>7 DEF Scans

\* The value that is a moment is a number.
Readable(acc) ==
  /\ acc = [enabled |-> acc.enabled, value |-> acc.value, option |-> acc.option]
  /\ acc.enabled \in BOOLEAN
  /\ "--warmup-ms" \in DOMAIN acc.value
  /\ acc.value["--warmup-ms"] \in Int

LEMMA ScanStarts == Readable(ScanStart)
<1>1. "--warmup-ms" \in DOMAIN Defaults /\ Defaults["--warmup-ms"] = 5000
  BY DEF Defaults, PortOption, IntOption, TextOption
<1>2. PICK v : v = Defaults
  OBVIOUS
<1>3. PICK acc : acc = [enabled |-> FALSE, value |-> v, option |-> ""]
  OBVIOUS
<1>4. acc.enabled = FALSE /\ acc.value = v /\ acc.option = ""
  BY <1>3
<1>5. v["--warmup-ms"] \in Int /\ "--warmup-ms" \in DOMAIN v
  BY <1>1, <1>2
<1>6. acc = [enabled |-> acc.enabled, value |-> acc.value, option |-> acc.option]
  BY <1>3, <1>4
<1>7. Readable(acc)
  BY <1>4, <1>5, <1>6 DEF Readable
<1>8. ScanStart = acc
  BY <1>2, <1>3 DEF ScanStart
<1> QED
  BY <1>7, <1>8

LEMMA ScanGoesOn ==
  ASSUME NEW acc, Readable(acc), NEW argv, NEW i
  PROVE  Readable(ScanNext(acc, argv, i))
<1>1. PICK on : on = ScanNext(acc, argv, i)
  OBVIOUS
<1>2. CASE acc.option # ""
  <2>1. PICK v : v = IF acc.option \in PortOption
                     THEN ParseUInt16(argv[i], acc.value[acc.option])
                     ELSE IF acc.option \in IntOption
                     THEN ParseInt(argv[i], acc.value[acc.option])
                     ELSE argv[i]
    OBVIOUS
  <2>2. on = [acc EXCEPT !.option = "", !.value[acc.option] = v]
    BY <1>1, <1>2, <2>1 DEF ScanNext, Readable
  <2>3. /\ on.option = "" /\ on.enabled = acc.enabled
        /\ on.value = [acc.value EXCEPT ![acc.option] = v]
        /\ on = [enabled |-> on.enabled, value |-> on.value, option |-> on.option]
    BY <2>2 DEF Readable
  <2>4. "--warmup-ms" \in DOMAIN on.value
    BY <2>3 DEF Readable
  <2>5. on.value["--warmup-ms"] \in Int
    <3>1. CASE acc.option = "--warmup-ms"
      <4>1. "--warmup-ms" \notin PortOption /\ "--warmup-ms" \in IntOption
        BY DEF PortOption, IntOption
      <4>2. v = ParseInt(argv[i], acc.value["--warmup-ms"])
        BY <2>1, <3>1, <4>1
      <4>3. v \in Int
        BY <4>2, CommandLineAssumption DEF ParseInt, Readable
      <4> QED
        BY <1>2, <2>3, <3>1, <4>3 DEF Readable
    <3>2. CASE acc.option # "--warmup-ms"
      BY <2>3, <3>2 DEF Readable
    <3> QED
      BY <3>1, <3>2
  <2> QED
    BY <1>1, <2>3, <2>4, <2>5 DEF Readable
<1>3. CASE acc.option = ""
  <2>1. CASE argv[i] = "--bench"
    <3>1. on = [acc EXCEPT !.enabled = TRUE]
      BY <1>1, <1>3, <2>1 DEF ScanNext
    <3> QED
      BY <1>1, <3>1 DEF Readable
  <2>2. CASE argv[i] # "--bench" /\ argv[i] \in DOMAIN Defaults /\ i < Len(argv)
    <3>1. on = [acc EXCEPT !.option = argv[i]]
      BY <1>1, <1>3, <2>2 DEF ScanNext
    <3> QED
      BY <1>1, <2>2, <3>1 DEF Readable
  <2>3. CASE ~(argv[i] = "--bench" \/ (argv[i] \in DOMAIN Defaults /\ i < Len(argv)))
    <3>1. on = acc
      BY <1>1, <1>3, <2>3 DEF ScanNext
    <3> QED
      BY <1>1, <3>1
  <2> QED
    BY <2>1, <2>2, <2>3
<1> QED
  BY <1>2, <1>3

LEMMA ScanIsReadable ==
  ASSUME NEW argv \in Seq(STRING)
  PROVE  Readable(Scanned(argv))
<1> DEFINE Def(f) ==
             f = [i \in 0..Len(argv) |->
                    IF i = 0 THEN ScanStart ELSE ScanNext(f[i - 1], argv, i)]
<1>1. \E f : Def(f)
  BY ScanExists
<1>2. PICK f : f = CHOOSE g : Def(g)
  OBVIOUS
<1>3. Def(f)
  <2> HIDE DEF Def
  <2> QED
    BY <1>1, <1>2, Zenon
<1>4. PICK n \in Nat : n = Len(argv)
  BY LenProperties
<1>5. Scanned(argv) = f[n]
  BY <1>2, <1>4 DEF Scanned
<1> DEFINE T == {i \in Nat : Readable(f[i])}
<1>6. 0 \in T
  <2>1. f[0] = ScanStart
    BY <1>3, <1>4
  <2> QED
    BY <2>1, ScanStarts
<1>7. ASSUME NEW i \in 0..n - 1, i \in T PROVE i + 1 \in T
  <2>1. f[i + 1] = ScanNext(f[i], argv, i + 1)
    BY <1>3, <1>4
  <2>2. Readable(f[i])
    BY <1>7
  <2>3. Readable(f[i + 1])
    BY <2>1, <2>2, ScanGoesOn
  <2> QED
    BY <2>3
<1>8. \A i \in 0..n : i \in T
  <2> HIDE DEF T, Def
  <2> QED
    BY <1>6, <1>7, AllNumbers
<1> QED
  BY <1>4, <1>5, <1>8

LEMMA OptionsFirst == LoopInit => OptionsAreRead
<1> SUFFICES ASSUME LoopInit PROVE OptionsAreRead
  OBVIOUS
<1>1. PICK argv \in CommandLines : options = ParseOptions(argv)
  BY DEF LoopInit, CollectorInit
<1>2. argv \in Seq(STRING)
  BY <1>1, LoopAssumption
<1>3. PICK acc : acc = Scanned(argv)
  OBVIOUS
<1>4. acc.enabled \in BOOLEAN /\ acc.value["--warmup-ms"] \in Int
  BY <1>2, <1>3, ScanIsReadable DEF Readable
<1>5. options.enabled = acc.enabled
  BY <1>1, <1>3 DEF ParseOptions
<1>6. options.warmupMs = IF acc.value["--warmup-ms"] < 0 THEN 0
                         ELSE acc.value["--warmup-ms"]
  BY <1>1, <1>3 DEF ParseOptions
<1> QED
  BY <1>4, <1>5, <1>6 DEF OptionsAreRead

LEMMA InitLoopInv == LoopInit => LoopInv
<1> SUFFICES ASSUME LoopInit PROVE LoopInv
  OBVIOUS
<1>1. OptionsAreRead
  BY OptionsFirst
<1>2. /\ metrics = NewCollector(options.enabled) /\ active = TRUE
      /\ now = 0 /\ stage = "start" /\ sent_join = FALSE /\ steers = FALSE
      /\ entities = 0 /\ total_data = [way \in Way |-> 0] /\ curTime = 0
      /\ data = [way \in Way |-> <<>>] /\ moved = [way \in Way |-> 0]
      /\ trace = <<>> /\ measured = [event \in Event |-> 0]
  BY DEF LoopInit, CollectorInit
<1>3. Traced
  <2>1. trace \in Seq(Pass)
    BY <1>2
  <2>2. moved \in [Way -> Nat] /\ curTime \in Nat
    BY <1>2
  <2>3. DOMAIN trace = {}
    BY <1>2
  <2> QED
    BY <1>2, <2>1, <2>2, <2>3 DEF Traced
<1>4. Windowed
  <2> SUFFICES ASSUME NEW way \in Way PROVE Shows(data[way], trace, way, curTime)
    BY DEF Windowed
  <2>1. data[way] = <<>> /\ trace = <<>>
    BY <1>2
  <2>2. <<>> \in Seq(Kept) /\ Len(<<>>) = 0 /\ DOMAIN <<>> = {}
    OBVIOUS
  <2> QED
    BY <2>1, <2>2 DEF Shows
<1>5. Totalled
  <2>1. 0 % UInt32 = 0
    BY LoopAssumption
  <2> QED
    BY <1>2, <2>1 DEF Totalled
<1>6. Counted
  <2>1. 0 \in 0..MaxTime /\ 0 \in 0..MaxPackets
    BY LoopAssumption
  <2> QED
    BY <1>2, <2>1 DEF Counted
<1>7. /\ metrics.lines = <<>> /\ metrics.measuring = FALSE /\ metrics.finished = FALSE
      /\ metrics.open = options.enabled /\ metrics.game = 0
      /\ \A event \in Event : metrics[event] = 0
      /\ metrics \in Collector
  <2>1. metrics = [measuring |-> FALSE, finished |-> FALSE, open |-> options.enabled,
                   measurementStart |-> 0, lastSample |-> 0, rx |-> 0, tx |-> 0,
                   frames |-> 0, updates |-> 0, game |-> 0, lines |-> <<>>]
    BY <1>2 DEF NewCollector
  <2>2. metrics \in Collector
    BY <1>1, <2>1 DEF Collector, OptionsAreRead
  <2> QED
    BY <2>1, <2>2 DEF Event
<1>8. Collected
  <2>1. CollectorTypeOK
    BY <1>2, <1>7 DEF CollectorTypeOK
  <2>2. measured \in [Event -> Nat]
    BY <1>2
  <2>3. DOMAIN metrics.lines = {}
    BY <1>7
  <2> QED
    BY <1>1, <1>2, <1>7, <2>1, <2>2, <2>3 DEF Collected, OptionsAreRead
<1>9. GameIsSet
  BY <1>2, <1>7 DEF GameIsSet
<1>10. LinesAddUp
  <2>1. \A event \in Event : measured[event] = 0
    BY <1>2
  <2>2. \A event \in {"rx", "tx"} : metrics[event] = measured[event]
    BY <1>7, <2>1 DEF Event
  <2>3. \A event \in {"frames", "updates"} :
          SumOf(event, metrics.lines) + metrics[event] = measured[event]
    <3> SUFFICES ASSUME NEW event \in {"frames", "updates"}
                 PROVE  SumOf(event, metrics.lines) + metrics[event] = measured[event]
      OBVIOUS
    <3>1. SumOf(event, metrics.lines) = 0
      BY <1>7, SumOfNone
    <3>2. event \in Event
      BY DEF Event
    <3> QED
      BY <1>7, <2>1, <3>1, <3>2
  <2>4. DOMAIN metrics.lines = {}
    BY <1>7
  <2> QED
    BY <1>7, <2>2, <2>3, <2>4 DEF LinesAddUp
<1>11. LinesKeepTime
  <2>1. \A event \in Event : ~(measured[event] > 0)
    BY <1>2
  <2>2. DOMAIN metrics.lines = {}
    BY <1>7
  <2> QED
    BY <1>7, <2>1, <2>2 DEF LinesKeepTime
<1> QED
  BY <1>1, <1>3, <1>4, <1>5, <1>6, <1>8, <1>9, <1>10, <1>11 DEF LoopInv

-----------------------------------------------------------------------------
(* What a step does to the window *)

LEMMA BandwidthKept ==
  ASSUME Traced, Windowed, Totalled, UNCHANGED bandwidth
  PROVE  Traced' /\ Windowed' /\ Totalled'
  BY DEF bandwidth, Traced, Windowed, Shows, Totalled

LEMMA BytesAreAdded ==
  ASSUME moved \in [Way -> Nat], Totalled, NEW way \in Way, NEW bytes \in Nat,
         Transferred(way, bytes)
  PROVE  /\ moved' \in [Way -> Nat]
         /\ moved'[way] = moved[way] + bytes
         /\ \A other \in Way \ {way} : moved'[other] = moved[other]
         /\ Totalled'
<1>1. /\ moved' = [moved EXCEPT ![way] = moved[way] + bytes]
      /\ total_data' = [total_data EXCEPT ![way] = (total_data[way] + bytes) % UInt32]
  BY DEF Transferred
<1>2. moved[way] \in Nat
  OBVIOUS
<1>3. PICK sum \in Nat : sum = moved[way] + bytes
  BY <1>2
<1>4. /\ moved' \in [Way -> Nat] /\ moved'[way] = sum
      /\ \A other \in Way \ {way} : moved'[other] = moved[other]
  BY <1>1, <1>3
<1>5. ((moved[way] % UInt32) + bytes) % UInt32 = sum % UInt32
  <2>1. UInt32 \in Nat \ {0} /\ moved[way] \in Int /\ bytes \in Int
    BY <1>2, LoopAssumption
  <2>2. ((moved[way] % UInt32) + bytes) % UInt32 = (moved[way] + bytes) % UInt32
    BY <2>1, CutSum
  <2> QED
    BY <1>3, <2>2
<1>6. total_data = [w \in Way |-> moved[w] % UInt32]
  BY DEF Totalled
<1>7. total_data[way] = moved[way] % UInt32
  BY <1>6
<1>8. (total_data[way] + bytes) % UInt32 = sum % UInt32
  BY <1>5, <1>7
<1>9. PICK rest : rest = sum % UInt32
  OBVIOUS
<1>10. total_data' = [total_data EXCEPT ![way] = rest]
  BY <1>1, <1>8, <1>9
<1>11. total_data' = [w \in Way |-> moved'[w] % UInt32]
  <2>1. \A w \in Way : total_data'[w] = moved'[w] % UInt32
    <3> SUFFICES ASSUME NEW w \in Way PROVE total_data'[w] = moved'[w] % UInt32
      OBVIOUS
    <3>1. CASE w = way
      BY <1>4, <1>6, <1>9, <1>10, <3>1
    <3>2. CASE w # way
      <4>1. total_data'[w] = total_data[w] /\ moved'[w] = moved[w]
        BY <1>4, <1>6, <1>10, <3>2
      <4> QED
        BY <1>6, <4>1
    <3> QED
      BY <3>1, <3>2
  <2>2. total_data' = [w \in Way |-> total_data'[w]]
    BY <1>6, <1>10
  <2> QED
    BY <2>1, <2>2
<1> QED
  BY <1>3, <1>4, <1>11 DEF Totalled

LEMMA ReceivedWindow ==
  ASSUME LoopInv, OnReceived
  PROVE  Traced' /\ Windowed' /\ Totalled'
<1>1. Traced /\ Windowed /\ Totalled
  BY DEF LoopInv
<1>2. /\ moved' \in [Way -> Nat] /\ moved'["in"] = moved["in"] + 1
      /\ moved'["out"] = moved["out"] /\ Totalled'
  <2>1. moved \in [Way -> Nat] /\ "in" \in Way /\ "out" \in Way \ {"in"} /\ 1 \in Nat
    BY <1>1 DEF Traced, Way
  <2>2. Transferred("in", 1)
    BY DEF OnReceived
  <2> QED
    BY <1>1, <2>1, <2>2, BytesAreAdded
<1>3. trace' = trace /\ curTime' = curTime /\ data' = data
  BY DEF OnReceived
<1>4. Windowed'
  BY <1>1, <1>3 DEF Windowed, Shows
<1>5. \A k \in DOMAIN trace, way \in Way : trace[k].moved[way] <= moved'[way]
  <2> SUFFICES ASSUME NEW k \in DOMAIN trace, NEW way \in Way
               PROVE  trace[k].moved[way] <= moved'[way]
    OBVIOUS
  <2>1. trace[k] \in Pass
    BY <1>1, LenProperties, ElementOfSeq DEF Traced
  <2>2. trace[k].moved[way] \in Nat /\ moved[way] \in Nat
    BY <1>1, <2>1 DEF Pass, Traced
  <2>3. trace[k].moved[way] <= moved[way]
    BY <1>1 DEF Traced
  <2>4. moved'[way] = moved[way] \/ moved'[way] = moved[way] + 1
    BY <1>2 DEF Way
  <2> QED
    BY <2>2, <2>3, <2>4
<1>6. Traced'
  BY <1>1, <1>2, <1>3, <1>5 DEF Traced, Pass, Way
<1> QED
  BY <1>2, <1>4, <1>6

LEMMA SentWindow ==
  ASSUME LoopInv, SendAndSimulate
  PROVE  Traced' /\ Windowed' /\ Totalled'
<1>0. Traced /\ Windowed /\ Totalled /\ Counted /\ OptionsAreRead
  BY DEF LoopInv
<1>1. PICK join \in {0, 1}, input \in {0, 1}, dt \in Nat :
        /\ UpdateBandwidth([total_data EXCEPT !["out"] = (@ + join) % UInt32], dt)
        /\ Transferred("out", join + input)
        /\ trace' = Append(trace, [at |-> curTime',
                                   moved |-> [moved EXCEPT !["out"] = @ + join]])
  <2>1. PICK join \in IF sent_join THEN {0} ELSE {0, 1},
             dt \in IF options.enabled THEN {1} ELSE FrameTimes :
          /\ UpdateBandwidth([total_data EXCEPT !["out"] = (@ + join) % UInt32], dt)
          /\ Transferred("out", join + (IF steers THEN 1 ELSE 0))
          /\ trace' = Append(trace, [at |-> curTime',
                                     moved |-> [moved EXCEPT !["out"] = @ + join]])
    BY DEF SendAndSimulate
  <2>2. join \in {0, 1} /\ dt \in Nat /\ (IF steers THEN 1 ELSE 0) \in {0, 1}
    BY LoopAssumption
  <2> QED
    BY <2>1, <2>2
<1>2. moved \in [Way -> Nat] /\ curTime \in Nat /\ trace \in Seq(Pass)
  BY <1>0 DEF Traced
<1>3. "out" \in Way /\ Way = {"in", "out"} /\ join \in Nat /\ input \in Nat
      /\ join + input \in Nat /\ dt \in Nat
  BY DEF Way
<1>4. /\ moved' \in [Way -> Nat] /\ moved'["out"] = moved["out"] + (join + input)
      /\ \A other \in Way \ {"out"} : moved'[other] = moved[other]
      /\ Totalled'
  BY <1>0, <1>1, <1>2, <1>3, BytesAreAdded
<1>5. moved["out"] \in Nat /\ moved["in"] \in Nat
  BY <1>2, <1>3
<1>6. PICK then \in Nat : then = moved["out"] + join
  BY <1>3, <1>5
<1>7. PICK mid : mid = [moved EXCEPT !["out"] = then]
  OBVIOUS
<1>8. /\ mid \in [Way -> Nat] /\ mid["out"] = then /\ mid["in"] = moved["in"]
      /\ mid = [moved EXCEPT !["out"] = @ + join]
  BY <1>2, <1>3, <1>6, <1>7 DEF Way
<1>9. \A way \in Way : moved[way] <= mid[way] /\ mid[way] <= moved'[way]
  <2>1. moved["out"] <= mid["out"] /\ mid["out"] <= moved'["out"]
    BY <1>3, <1>4, <1>5, <1>6, <1>8
  <2>2. moved["in"] <= mid["in"] /\ mid["in"] <= moved'["in"]
    <3>1. moved'["in"] = moved["in"]
      BY <1>3, <1>4
    <3> QED
      BY <1>5, <1>8, <3>1
  <2> QED
    BY <1>3, <2>1, <2>2
<1>10. PICK cur \in Nat : cur = curTime + dt
  BY <1>2, <1>3
<1> PICK total : total = [total_data EXCEPT !["out"] = (@ + join) % UInt32]
  OBVIOUS
<1>11. /\ curTime' = curTime + dt
       /\ data' = [way \in Way |->
                     EraseOld(Append(data[way], [total |-> total[way], at |-> cur]), cur)]
  BY <1>1, <1>10 DEF UpdateBandwidth
<1>12. PICK new : new = [at |-> curTime + dt, moved |-> mid]
  OBVIOUS
<1>13. new \in Pass /\ new.at = cur /\ new.moved = mid
  BY <1>8, <1>10, <1>12 DEF Pass
<1>14. trace' = Append(trace, [at |-> curTime + dt, moved |-> mid])
  BY <1>1, <1>8, <1>11
<1>15. Traced'
  BY <1>0, <1>3, <1>4, <1>8, <1>9, <1>11, <1>14, TracedPass
<1>16. \A way \in Way : total[way] = mid[way] % UInt32
  <2>1. total_data = [w \in Way |-> moved[w] % UInt32]
    BY <1>0 DEF Totalled
  <2>2. total_data["out"] = moved["out"] % UInt32
        /\ total_data["in"] = moved["in"] % UInt32
    BY <1>3, <2>1
  <2>3. total["in"] = total_data["in"]
        /\ total["out"] = (total_data["out"] + join) % UInt32
    BY <1>1, <1>3, <2>1
  <2>4. ((moved["out"] % UInt32) + join) % UInt32 = then % UInt32
    <3>1. UInt32 \in Nat \ {0} /\ moved["out"] \in Int /\ join \in Int
      BY <1>3, <1>5, LoopAssumption
    <3>2. ((moved["out"] % UInt32) + join) % UInt32 = (moved["out"] + join) % UInt32
      BY <3>1, CutSum
    <3> QED
      BY <1>6, <3>2
  <2>5. total["out"] = mid["out"] % UInt32
    BY <1>8, <2>2, <2>3, <2>4
  <2>6. total["in"] = mid["in"] % UInt32
    BY <1>8, <2>2, <2>3
  <2> QED
    BY <1>3, <2>5, <2>6
<1>17. Windowed'
  <2> SUFFICES ASSUME NEW way \in Way
               PROVE  Shows(data'[way], trace', way, curTime')
    BY DEF Windowed, Shows
  <2>1. [total |-> total[way], at |-> cur] = Entry(way, new)
    BY <1>13, <1>16 DEF Entry
  <2>2. data'[way] = EraseOld(Append(data[way], Entry(way, new)), new.at)
    BY <1>11, <1>13, <2>1
  <2>3. curTime <= new.at /\ curTime \in Int
    BY <1>2, <1>3, <1>10, <1>13
  <2>4. \A k \in DOMAIN trace : trace[k].at <= new.at
    <3> SUFFICES ASSUME NEW k \in DOMAIN trace PROVE trace[k].at <= new.at
      OBVIOUS
    <3>1. trace[k].at \in 0..curTime
      BY <1>0 DEF Traced
    <3>2. PICK t \in 0..curTime : t = trace[k].at
      BY <3>1
    <3>3. t <= cur
      BY <1>2, <1>3, <1>10
    <3> QED
      BY <1>13, <3>2, <3>3
  <2>5. \A j, k \in DOMAIN trace : j < k => trace[j].at <= trace[k].at
    BY <1>0 DEF Traced
  <2>6. Shows(data[way], trace, way, curTime)
    BY <1>0 DEF Windowed
  <2>7. Shows(EraseOld(Append(data[way], Entry(way, new)), new.at),
              Append(trace, new), way, new.at)
    BY <1>2, <1>13, <2>3, <2>4, <2>5, <2>6, WindowMoves
  <2>8. trace' = Append(trace, new) /\ curTime' = new.at
    BY <1>10, <1>11, <1>12, <1>13, <1>14
  <2> QED
    BY <2>2, <2>7, <2>8
<1> QED
  BY <1>4, <1>15, <1>17

-----------------------------------------------------------------------------
(* What a step does to the accounts *)

\* Note of one kind of events.
LEMMA NotedOne ==
  ASSUME NEW counter \in Event, NEW n, NEW counts,
         DOMAIN counts = {counter}, counts[counter] = n, Note(counts)
  PROVE  measured' =
           [e \in Event |->
              IF options.enabled /\ now >= options.warmupMs /\ e = counter
              THEN measured[e] + n ELSE measured[e]]
<1>1. \A e \in Event : (e \in DOMAIN counts <=> e = counter)
  OBVIOUS
<1>2. \A e \in Event :
        (IF options.enabled /\ now >= options.warmupMs /\ e \in DOMAIN counts
         THEN measured[e] + counts[e] ELSE measured[e]) =
        (IF options.enabled /\ now >= options.warmupMs /\ e = counter
         THEN measured[e] + n ELSE measured[e])
  BY <1>1
<1>3. measured' =
        [e \in Event |->
           IF options.enabled /\ now >= options.warmupMs /\ e \in DOMAIN counts
           THEN measured[e] + counts[e] ELSE measured[e]]
  BY DEF Note
<1> QED
  BY <1>2, <1>3

\* What the lemmas of the calls ask of every step.
LEMMA BeforeAStep ==
  ASSUME LoopInv
  PROVE  /\ OptionsAreRead /\ AccountsAreTrue /\ Counted
         /\ metrics \in Collector /\ active \in BOOLEAN
         /\ now \in Nat /\ entities \in Nat
         /\ Running(stage) => active /\ ~metrics.finished
<1>1. OptionsAreRead /\ AccountsAreTrue /\ Counted
  BY DEF LoopInv, AccountsAreTrue
<1>2. metrics \in Collector /\ active \in BOOLEAN
  BY DEF LoopInv, Collected, CollectorTypeOK
<1>3. now \in Nat /\ entities \in Nat
  BY <1>1, LoopAssumption DEF Counted
<1>4. Running(stage) => active /\ ~metrics.finished
  BY DEF LoopInv, Collected, Running
<1> QED
  BY <1>1, <1>2, <1>3, <1>4

LEMMA QuietSteps ==
  ASSUME LoopInv, StartUp \/ LoopTest \/ Polled \/ Tick \/ UNCHANGED loopVars
  PROVE  AccountsAreTrue' /\ Counted' /\ OptionsAreRead'
<1>0. /\ OptionsAreRead /\ AccountsAreTrue /\ Counted
      /\ active \in BOOLEAN /\ now \in Nat
  BY BeforeAStep
<1>1. /\ options' = options /\ metrics' = metrics /\ active' = active
      /\ measured' = measured /\ entities' = entities
      /\ sent_join' = sent_join /\ steers' = steers
  BY DEF StartUp, LoopTest, Polled, Tick, loopVars, collector
<1>2. now' = now \/ (now < MaxTime /\ now' = now + 1)
  BY DEF StartUp, LoopTest, Polled, Tick, loopVars
<1>3. now' \in 0..MaxTime /\ now' \in Nat /\ now <= now'
  BY <1>0, <1>2, LoopAssumption DEF Counted
<1>4. \/ stage = "start" /\ stage' \in {"loop", "destroy"}
      \/ stage = "loop" /\ stage' \in {"poll", "finish"}
      \/ stage = "poll" /\ stage' = "send"
      \/ stage' = stage
  BY DEF StartUp, LoopTest, Polled, Tick, loopVars
<1>5. Counted'
  <2>1. stage' \in {"start", "loop", "poll", "send", "update", "frame", "sample",
                    "finish", "destroy", "done"}
    BY <1>0, <1>4 DEF Counted
  <2> QED
    BY <1>0, <1>1, <1>3, <2>1 DEF Counted
<1>6. /\ ~Running(stage) => ~Running(stage')
      /\ options.enabled /\ stage' \notin {"poll", "send", "update"} =>
           stage \notin {"poll", "send", "update"}
  BY <1>4 DEF Running
<1>7. AccountsAreTrue'
  BY <1>0, <1>1, <1>3, <1>6, QuietAccounts
<1> QED
  BY <1>0, <1>1, <1>5, <1>7 DEF OptionsAreRead

LEMMA ReceivedAccounts ==
  ASSUME LoopInv, OnReceived
  PROVE  AccountsAreTrue' /\ Counted' /\ OptionsAreRead'
<1>0. /\ OptionsAreRead /\ AccountsAreTrue /\ Counted
      /\ metrics \in Collector /\ active \in BOOLEAN
      /\ now \in Nat /\ entities \in Nat
      /\ Running(stage) => active /\ ~metrics.finished
  BY BeforeAStep
<1>1. /\ stage = "poll" /\ stage' = stage /\ entities < MaxPackets
      /\ metrics' = RecordPayload(metrics, "rx", 1, now)
      /\ entities' = entities + 1 /\ steers' \in {steers, sent_join}
      /\ Note([rx |-> 1])
      /\ options' = options /\ active' = active /\ now' = now
      /\ sent_join' = sent_join
  BY DEF OnReceived
<1>2. Running(stage) /\ Running(stage')
  BY <1>1 DEF Running
<1>3. metrics' = Record(metrics, "rx", 1, now)
  BY <1>0, <1>1, <1>2 DEF RecordPayload
<1>4. "rx" \in Event /\ 1 \in Nat
  BY DEF Event
<1>5. Told(metrics', metrics, "rx", 1, now)
  BY <1>0, <1>3, <1>4, RecordEffect
<1>6. measured' =
        [e \in Event |->
           IF options.enabled /\ now >= options.warmupMs /\ e = "rx"
           THEN measured[e] + 1 ELSE measured[e]]
  <2>1. DOMAIN [rx |-> 1] = {"rx"} /\ [rx |-> 1]["rx"] = 1
    OBVIOUS
  <2> QED
    BY <1>1, <1>4, <2>1, NotedOne
<1>7. now' \in Nat /\ now <= now'
  BY <1>0, <1>1
<1>8. entities' = entities + (IF "rx" = "rx" THEN 1 ELSE 0)
  BY <1>1
<1>9. options.enabled /\ stage' \notin {"poll", "send", "update"} =>
        metrics.game = entities'
  BY <1>1
<1>10. AccountsAreTrue'
  BY <1>0, <1>1, <1>2, <1>4, <1>5, <1>6, <1>7, <1>8, <1>9, ToldStep
<1>11. Counted'
  <2>1. entities' \in 0..MaxPackets
    BY <1>0, <1>1, LoopAssumption DEF Counted
  <2> QED
    BY <1>0, <1>1, <2>1 DEF Counted
<1> QED
  BY <1>0, <1>1, <1>10, <1>11 DEF OptionsAreRead

LEMMA SentAccounts ==
  ASSUME LoopInv, SendAndSimulate
  PROVE  AccountsAreTrue' /\ Counted' /\ OptionsAreRead'
<1>0. /\ OptionsAreRead /\ AccountsAreTrue /\ Counted
      /\ metrics \in Collector /\ active \in BOOLEAN
      /\ now \in Nat /\ entities \in Nat
      /\ Running(stage) => active /\ ~metrics.finished
  BY BeforeAStep
<1>1. /\ stage = "send"
      /\ stage' = IF options.enabled THEN "update" ELSE "loop"
      /\ options' = options /\ active' = active /\ now' = now
      /\ steers' = steers /\ entities' = entities
  BY DEF SendAndSimulate
<1>2. PICK join, taken \in 0..2 :
        /\ sent_join' = (sent_join \/ join = 1)
        /\ metrics' = RecordPayload(metrics, "tx", taken, now)
        /\ Note([tx |-> taken])
  BY DEF SendAndSimulate
<1>3. Running(stage) /\ Running(stage')
  BY <1>1 DEF Running
<1>4. metrics' = Record(metrics, "tx", taken, now)
  BY <1>0, <1>2, <1>3 DEF RecordPayload
<1>5. "tx" \in Event /\ taken \in Nat
  BY DEF Event
<1>6. Told(metrics', metrics, "tx", taken, now)
  BY <1>0, <1>4, <1>5, RecordEffect
<1>7. measured' =
        [e \in Event |->
           IF options.enabled /\ now >= options.warmupMs /\ e = "tx"
           THEN measured[e] + taken ELSE measured[e]]
  <2>1. DOMAIN [tx |-> taken] = {"tx"} /\ [tx |-> taken]["tx"] = taken
    OBVIOUS
  <2> QED
    BY <1>2, <1>5, <2>1, NotedOne
<1>8. now' \in Nat /\ now <= now'
  BY <1>0, <1>1
<1>9. entities' = entities + (IF "tx" = "rx" THEN taken ELSE 0)
  BY <1>0, <1>1
<1>10. options.enabled /\ stage' \notin {"poll", "send", "update"} =>
         metrics.game = entities'
  BY <1>1
<1>11. AccountsAreTrue'
  BY <1>0, <1>1, <1>3, <1>5, <1>6, <1>7, <1>8, <1>9, <1>10, ToldStep
<1>12. Counted'
  BY <1>0, <1>1, <1>2 DEF Counted
<1> QED
  BY <1>0, <1>1, <1>11, <1>12 DEF OptionsAreRead

LEMMA UpdateAccounts ==
  ASSUME LoopInv, RecordUpdateMs
  PROVE  AccountsAreTrue' /\ Counted' /\ OptionsAreRead'
<1>0. /\ OptionsAreRead /\ AccountsAreTrue /\ Counted
      /\ metrics \in Collector /\ active \in BOOLEAN
      /\ now \in Nat /\ entities \in Nat
      /\ Running(stage) => active /\ ~metrics.finished
  BY BeforeAStep
<1>1. /\ stage = "update" /\ stage' = "frame"
      /\ metrics' = Record([metrics EXCEPT !.game = entities], "updates", 1, now)
      /\ Note([updates |-> 1])
      /\ options' = options /\ active' = active /\ now' = now
      /\ sent_join' = sent_join /\ steers' = steers /\ entities' = entities
  BY DEF RecordUpdateMs
<1>2. Running(stage) /\ Running(stage')
  BY <1>1 DEF Running
<1>3. PICK m : m = [metrics EXCEPT !.game = entities]
  OBVIOUS
<1>4. /\ m \in Collector
      /\ \A e \in Event : m[e] = metrics[e]
      /\ m.measuring = metrics.measuring /\ m.lines = metrics.lines
      /\ m.finished = metrics.finished /\ m.open = metrics.open
      /\ m.measurementStart = metrics.measurementStart
      /\ m.lastSample = metrics.lastSample /\ m.game = entities
  <2>1. m \in Collector
    BY <1>0, <1>3 DEF Collector
  <2> QED
    BY <1>0, <1>3, <2>1 DEF Collector, Event
<1>5. "updates" \in Event /\ 1 \in Nat
  BY DEF Event
<1>6. Told(metrics', m, "updates", 1, now)
  <2>1. m \in Collector /\ metrics' = Record(m, "updates", 1, now)
    BY <1>1, <1>3, <1>4
  <2> QED
    BY <1>0, <1>5, <2>1, RecordEffect
<1>7. measured' =
        [e \in Event |->
           IF options.enabled /\ now >= options.warmupMs /\ e = "updates"
           THEN measured[e] + 1 ELSE measured[e]]
  <2>1. DOMAIN [updates |-> 1] = {"updates"} /\ [updates |-> 1]["updates"] = 1
    OBVIOUS
  <2> QED
    BY <1>1, <1>5, <2>1, NotedOne
<1>8. now' \in Nat /\ now <= now'
  BY <1>0, <1>1
<1>9. entities' = entities + (IF "updates" = "rx" THEN 1 ELSE 0)
  BY <1>0, <1>1
<1>10. m.game = entities'
  BY <1>1, <1>4
<1>11. AccountsAreTrue'
  BY <1>0, <1>1, <1>2, <1>4, <1>5, <1>6, <1>7, <1>8, <1>9, <1>10, ToldStep
<1>12. Counted'
  BY <1>0, <1>1 DEF Counted
<1> QED
  BY <1>0, <1>1, <1>11, <1>12 DEF OptionsAreRead

LEMMA FrameAccounts ==
  ASSUME LoopInv, RecordFrameMs
  PROVE  AccountsAreTrue' /\ Counted' /\ OptionsAreRead'
<1>0. /\ OptionsAreRead /\ AccountsAreTrue /\ Counted
      /\ metrics \in Collector /\ active \in BOOLEAN
      /\ now \in Nat /\ entities \in Nat
      /\ Running(stage) => active /\ ~metrics.finished
  BY BeforeAStep
<1>1. /\ stage = "frame" /\ stage' = "sample"
      /\ metrics' = Record(metrics, "frames", 1, now)
      /\ Note([frames |-> 1])
      /\ options' = options /\ active' = active /\ now' = now
      /\ sent_join' = sent_join /\ steers' = steers /\ entities' = entities
  BY DEF RecordFrameMs
<1>2. Running(stage) /\ Running(stage')
  BY <1>1 DEF Running
<1>3. "frames" \in Event /\ 1 \in Nat
  BY DEF Event
<1>4. Told(metrics', metrics, "frames", 1, now)
  BY <1>0, <1>1, <1>3, RecordEffect
<1>5. measured' =
        [e \in Event |->
           IF options.enabled /\ now >= options.warmupMs /\ e = "frames"
           THEN measured[e] + 1 ELSE measured[e]]
  <2>1. DOMAIN [frames |-> 1] = {"frames"} /\ [frames |-> 1]["frames"] = 1
    OBVIOUS
  <2> QED
    BY <1>1, <1>3, <2>1, NotedOne
<1>6. now' \in Nat /\ now <= now'
  BY <1>0, <1>1
<1>7. entities' = entities + (IF "frames" = "rx" THEN 1 ELSE 0)
  BY <1>0, <1>1
<1>8. options.enabled => metrics.game = entities'
  BY <1>0, <1>1 DEF AccountsAreTrue, GameIsSet
<1>9. AccountsAreTrue'
  BY <1>0, <1>1, <1>2, <1>3, <1>4, <1>5, <1>6, <1>7, <1>8, ToldStep
<1>10. Counted'
  BY <1>0, <1>1 DEF Counted
<1> QED
  BY <1>0, <1>1, <1>9, <1>10 DEF OptionsAreRead

LEMMA SampleAccounts ==
  ASSUME LoopInv, SampleAndSleep
  PROVE  AccountsAreTrue' /\ Counted' /\ OptionsAreRead'
<1>0. /\ OptionsAreRead /\ AccountsAreTrue /\ Counted
      /\ metrics \in Collector /\ active \in BOOLEAN
      /\ now \in Nat /\ entities \in Nat
      /\ Running(stage) => active /\ ~metrics.finished
  BY BeforeAStep
<1>1. /\ stage = "sample" /\ stage' = "loop"
      /\ metrics' = MaybeWriteSample(metrics, now)
      /\ now' = IF now < MaxTime THEN now + 1 ELSE now
      /\ options' = options /\ active' = active /\ measured' = measured
      /\ sent_join' = sent_join /\ steers' = steers /\ entities' = entities
  BY DEF SampleAndSleep
<1>2. Running(stage) /\ Running(stage')
  BY <1>1 DEF Running
<1>3. now' \in 0..MaxTime /\ now' \in Nat /\ now <= now'
  BY <1>0, <1>1, LoopAssumption DEF Counted
<1>4. options.enabled => metrics.game = entities
  BY <1>0, <1>1 DEF AccountsAreTrue, GameIsSet
<1>5. PICK u : u = UpdateMeasurementState(metrics, now)
  OBVIOUS
<1>6. Told(u, metrics, "rx", 0, now)
  BY <1>0, <1>5, UpdateTells
<1>7. AccountsAreTrue'
  <2>1. CASE /\ u.measuring /\ options.metricsMode # "summary"
             /\ now - u.lastSample >= SampleInterval
    <3>1. metrics.measuring
      <4> SUFFICES ASSUME ~metrics.measuring PROVE FALSE
        OBVIOUS
      <4>1. u.lastSample = now
        BY <1>6, <2>1 DEF Told
      <4> QED
        BY <1>0, <2>1, <4>1, CollectorAssumption
    <3>2. u = metrics
      BY <1>5, <3>1 DEF UpdateMeasurementState
    <3>3. metrics' = WriteSample(metrics, now)
      BY <1>1, <1>5, <2>1, <3>2 DEF MaybeWriteSample
    <3>4. /\ options.enabled /\ metrics.open /\ ~metrics.finished
          /\ metrics.measurementStart <= now
      <4>1. /\ options.enabled
            /\ metrics.measurementStart <= metrics.lastSample
            /\ metrics.lastSample <= now
        BY <1>0, <3>1 DEF AccountsAreTrue, Collected
      <4>2. metrics.open <=> options.enabled /\ ~metrics.finished
        BY <1>0 DEF AccountsAreTrue, Collected
      <4>3. metrics.measurementStart \in Nat /\ metrics.lastSample \in Nat
        BY <1>0 DEF Collector
      <4> QED
        BY <1>0, <1>2, <4>1, <4>2, <4>3
    <3>5. Relined(metrics', metrics, Append(metrics.lines, LineOf(metrics, now)), now)
      BY <1>0, <3>3, <3>4, WriteSampleEffect
    <3>6. PICK w : w = metrics'
      OBVIOUS
    <3>7. Relined(w, metrics, Append(metrics.lines, LineOf(metrics, now)), now)
      BY <3>5, <3>6
    <3>8. /\ metrics' \in Collector /\ metrics'.finished = metrics.finished
          /\ metrics'.open = metrics.open
      BY <3>5 DEF Relined
    <3>9. /\ metrics'.measuring = w.measuring
          /\ metrics'.measurementStart = w.measurementStart
          /\ metrics'.lastSample = w.lastSample /\ metrics'.lines = w.lines
          /\ metrics'.game = w.game /\ metrics'.rx = w.rx /\ metrics'.tx = w.tx
          /\ metrics'.frames = w.frames /\ metrics'.updates = w.updates
      BY <3>6
    <3>10. /\ options.metricsMode # "summary"
           /\ now - metrics.lastSample >= SampleInterval
      BY <2>1, <3>2
    <3>11. /\ metrics'.open <=> options.enabled /\ ~metrics'.finished
           /\ ~metrics'.finished /\ active' /\ active' \in BOOLEAN
           /\ metrics.game = entities
      BY <1>0, <1>1, <1>2, <1>4, <3>4, <3>8
    <3> QED
      BY <1>0, <1>1, <1>2, <1>3, <3>1, <3>4, <3>7, <3>8, <3>9, <3>10, <3>11,
         WrittenStep
  <2>2. CASE ~(/\ u.measuring /\ options.metricsMode # "summary"
               /\ now - u.lastSample >= SampleInterval)
    <3>1. metrics' = u
      BY <1>1, <1>5, <2>2 DEF MaybeWriteSample
    <3>2. "rx" \in Event /\ 0 \in Nat
      BY DEF Event
    <3>3. measured' =
            [e \in Event |->
               IF options.enabled /\ now >= options.warmupMs /\ e = "rx"
               THEN measured[e] + 0 ELSE measured[e]]
      <4>1. measured \in [Event -> Nat]
        BY <1>0 DEF AccountsAreTrue, Collected
      <4>2. \A e \in Event : measured[e] + 0 = measured[e]
        BY <4>1
      <4>3. measured = [e \in Event |-> measured[e]]
        BY <4>1
      <4> QED
        BY <1>1, <4>2, <4>3
    <3>4. entities' = entities + (IF "rx" = "rx" THEN 0 ELSE 0)
      BY <1>0, <1>1
    <3>5. Told(metrics', metrics, "rx", 0, now)
      BY <1>6, <3>1
    <3>6. options.enabled => metrics.game = entities'
      BY <1>1, <1>4
    <3> QED
      BY <1>0, <1>1, <1>2, <1>3, <3>2, <3>3, <3>4, <3>5, <3>6, ToldStep
  <2> QED
    BY <2>1, <2>2
<1>8. Counted'
  BY <1>0, <1>1, <1>3 DEF Counted
<1> QED
  BY <1>0, <1>1, <1>7, <1>8 DEF OptionsAreRead

LEMMA EndAccounts ==
  ASSUME LoopInv, FinishMetrics \/ Destroy
  PROVE  AccountsAreTrue' /\ Counted' /\ OptionsAreRead'
<1>0. /\ OptionsAreRead /\ AccountsAreTrue /\ Counted
      /\ metrics \in Collector /\ now \in Nat /\ entities \in Nat
  BY BeforeAStep
<1>1. /\ stage \in {"finish", "destroy"} /\ stage' \in {"destroy", "done"}
      /\ metrics' = Finish(metrics, now) /\ active' = FALSE
      /\ now' = now /\ options' = options /\ measured' = measured
      /\ sent_join' = sent_join /\ steers' = steers /\ entities' = entities
      /\ ~Running(stage) => ~Running(stage')
  BY DEF FinishMetrics, Destroy, Running
<1>2. ~Running(stage')
  BY <1>1 DEF Running
<1>3. now' \in Nat /\ now <= now'
  BY <1>0, <1>1
<1>4. options.enabled => metrics.game = entities
  BY <1>0, <1>1 DEF AccountsAreTrue, GameIsSet
<1>5. metrics.measuring => options.enabled
  BY <1>0 DEF AccountsAreTrue, Collected
<1>6. AccountsAreTrue'
  <2>1. CASE metrics.finished
    <3>1. metrics' = metrics
      BY <1>1, <2>1 DEF Finish
    <3>2. stage \notin {"poll", "send", "update"}
      BY <1>1
    <3>3. active' \in BOOLEAN
      BY <1>1
    <3> QED
      BY <1>0, <1>1, <1>2, <1>3, <3>1, <3>2, <3>3, QuietAccounts
  <2>2. CASE ~metrics.finished /\ metrics.measuring
    <3>1. /\ options.enabled /\ metrics.open
          /\ metrics.measurementStart <= now
      <4>1. /\ metrics.measurementStart <= metrics.lastSample
            /\ metrics.lastSample <= now
        BY <1>0, <2>2 DEF AccountsAreTrue, Collected
      <4>2. metrics.open <=> options.enabled /\ ~metrics.finished
        BY <1>0 DEF AccountsAreTrue, Collected
      <4>3. metrics.measurementStart \in Nat /\ metrics.lastSample \in Nat
        BY <1>0 DEF Collector
      <4> QED
        BY <1>0, <1>5, <2>2, <4>1, <4>2, <4>3
    <3>2. PICK u : u = WriteSample(metrics, now)
      OBVIOUS
    <3>3. Relined(u, metrics, Append(metrics.lines, LineOf(metrics, now)), now)
      BY <1>0, <3>1, <3>2, WriteSampleEffect
    <3>4. u \in Collector
      BY <3>3 DEF Relined
    <3>5. metrics' = [u EXCEPT !.finished = TRUE, !.open = FALSE]
      BY <1>1, <2>2, <3>1, <3>2 DEF Finish
    <3>6. metrics' \in Collector
      BY <3>4, <3>5 DEF Collector
    <3>7. /\ metrics'.measuring = u.measuring
          /\ metrics'.measurementStart = u.measurementStart
          /\ metrics'.lastSample = u.lastSample /\ metrics'.lines = u.lines
          /\ metrics'.game = u.game /\ metrics'.rx = u.rx /\ metrics'.tx = u.tx
          /\ metrics'.frames = u.frames /\ metrics'.updates = u.updates
          /\ metrics'.finished = TRUE /\ metrics'.open = FALSE
      BY <3>4, <3>5 DEF Collector
    <3>8. /\ metrics'.open <=> options.enabled /\ ~metrics'.finished
          /\ metrics'.finished /\ active' \in BOOLEAN
          /\ metrics.game = entities
      BY <1>1, <1>4, <3>1, <3>7
    <3> QED
      BY <1>0, <1>1, <1>2, <1>3, <2>2, <3>3, <3>6, <3>7, <3>8, WrittenStep
  <2>3. CASE ~metrics.finished /\ ~metrics.measuring
    <3>1. metrics' = [metrics EXCEPT !.finished = TRUE, !.open = FALSE]
      BY <1>1, <2>3 DEF Finish
    <3>2. metrics' \in Collector
      BY <1>0, <3>1 DEF Collector
    <3>3. /\ metrics'.measuring = metrics.measuring
          /\ metrics'.lines = metrics.lines /\ metrics'.game = metrics.game
          /\ \A e \in Event : metrics'[e] = metrics[e]
          /\ metrics'.finished = TRUE /\ metrics'.open = FALSE
          /\ metrics'.measuring = FALSE
      BY <1>0, <2>3, <3>1 DEF Collector, Event
    <3>4. metrics.lines \in Seq(Line) /\ DOMAIN metrics.lines = {}
      <4>1. metrics.lines \in Seq(Line)
        BY <1>0 DEF Collector
      <4>2. \A k \in DOMAIN metrics.lines : metrics.measuring
        BY <1>0 DEF AccountsAreTrue, LinesKeepTime
      <4> QED
        BY <2>3, <4>1, <4>2
    <3>5. Collected'
      <4>1. CollectorTypeOK'
        BY <1>1, <3>2 DEF CollectorTypeOK
      <4>2. measured' \in [Event -> Nat]
        BY <1>0, <1>1 DEF AccountsAreTrue, Collected
      <4> QED
        BY <1>1, <3>3, <3>4, <4>1, <4>2 DEF Collected
    <3>6. GameIsSet'
      BY <1>1, <1>4, <3>3 DEF GameIsSet
    <3>7. LinesAddUp'
      <4>1. ~(\E event \in Event : measured[event] > 0)
        BY <1>0, <2>3 DEF AccountsAreTrue, LinesKeepTime
      <4>2. /\ \A event \in {"rx", "tx"} : metrics[event] = measured[event]
            /\ \A event \in {"frames", "updates"} :
                 SumOf(event, metrics.lines) + metrics[event] = measured[event]
        BY <1>0 DEF AccountsAreTrue, LinesAddUp
      <4>3. /\ \A event \in {"rx", "tx"} : metrics'[event] = measured'[event]
            /\ \A event \in {"frames", "updates"} :
                 SumOf(event, metrics'.lines) + metrics'[event] = measured'[event]
        BY <1>1, <3>3, <4>2 DEF Event
      <4> QED
        BY <1>1, <3>3, <3>4, <4>1, <4>3 DEF LinesAddUp
    <3>8. LinesKeepTime'
      <4>1. ~(\E event \in Event : measured[event] > 0)
        BY <1>0, <2>3 DEF AccountsAreTrue, LinesKeepTime
      <4> QED
        BY <1>1, <3>3, <3>4, <4>1 DEF LinesKeepTime
    <3> QED
      BY <3>5, <3>6, <3>7, <3>8 DEF AccountsAreTrue
  <2> QED
    BY <2>1, <2>2, <2>3
<1>7. Counted'
  BY <1>0, <1>1 DEF Counted
<1> QED
  BY <1>0, <1>1, <1>6, <1>7 DEF OptionsAreRead

LEMMA NextLoopInv == LoopInv /\ [LoopNext]_loopVars => LoopInv'
<1> SUFFICES ASSUME LoopInv, [LoopNext]_loopVars PROVE LoopInv'
  OBVIOUS
<1> USE DEF AccountsAreTrue
<1>0. Traced /\ Windowed /\ Totalled
  BY DEF LoopInv
<1>1. CASE StartUp \/ LoopTest \/ Polled \/ Tick \/ UNCHANGED loopVars
  <2>1. UNCHANGED bandwidth
    BY <1>1 DEF StartUp, LoopTest, Polled, Tick, loopVars
  <2> QED
    BY <1>0, <1>1, <2>1, BandwidthKept, QuietSteps DEF LoopInv
<1>2. CASE OnReceived
  BY <1>2, ReceivedWindow, ReceivedAccounts DEF LoopInv
<1>3. CASE SendAndSimulate
  BY <1>3, SentWindow, SentAccounts DEF LoopInv
<1>4. CASE RecordUpdateMs
  <2>1. UNCHANGED bandwidth
    BY <1>4 DEF RecordUpdateMs
  <2> QED
    BY <1>0, <1>4, <2>1, BandwidthKept, UpdateAccounts DEF LoopInv
<1>5. CASE RecordFrameMs
  <2>1. UNCHANGED bandwidth
    BY <1>5 DEF RecordFrameMs
  <2> QED
    BY <1>0, <1>5, <2>1, BandwidthKept, FrameAccounts DEF LoopInv
<1>6. CASE SampleAndSleep
  <2>1. UNCHANGED bandwidth
    BY <1>6 DEF SampleAndSleep
  <2> QED
    BY <1>0, <1>6, <2>1, BandwidthKept, SampleAccounts DEF LoopInv
<1>7. CASE FinishMetrics \/ Destroy
  <2>1. UNCHANGED bandwidth
    BY <1>7 DEF FinishMetrics, Destroy
  <2> QED
    BY <1>0, <1>7, <2>1, BandwidthKept, EndAccounts DEF LoopInv
<1> QED
  BY <1>1, <1>2, <1>3, <1>4, <1>5, <1>6, <1>7 DEF LoopNext

-----------------------------------------------------------------------------
(* The theorems *)

\* The window shows what its first and last entries say of the counters.
LEMMA WindowShowsDelta == LoopInv => DeltaIsOfTheWindow
<1> SUFFICES ASSUME LoopInv, NEW way \in Way, BytesInWindow(way) < UInt32
             PROVE  GetDeltaData(data[way]) = BytesInWindow(way)
  BY DEF DeltaIsOfTheWindow
<1>0. Traced /\ Shows(data[way], trace, way, curTime)
  BY DEF LoopInv, Windowed
<1>1. curTime \in Nat /\ trace \in Seq(Pass)
  BY <1>0 DEF Traced
<1>2. PICK n \in Nat : n = Len(trace) /\ DOMAIN trace = 1..n
  BY <1>1, LenProperties
<1>3. PICK entries : entries = data[way]
  OBVIOUS
<1>4. entries \in Seq(Kept)
  BY <1>0, <1>3 DEF Shows
<1>5. PICK m \in Nat : m = Len(entries) /\ DOMAIN entries = 1..m
  BY <1>4, LenProperties
<1>6. PICK old \in Nat : old = n - m /\ old + m = n
  <2>1. Len(trace) - Len(data[way]) >= 0
    BY <1>0 DEF Shows
  <2>2. n - m >= 0
    BY <1>2, <1>3, <1>5, <2>1
  <2> QED
    BY <2>2
<1>7. /\ \A i \in 1..m : entries[i] = Entry(way, trace[old + i])
      /\ \A k \in 1..n : trace[k].at < curTime - WindowSize <=> k <= old
  BY <1>0, <1>2, <1>3, <1>5, <1>6 DEF Shows
<1>8. \A k \in 1..n : trace[k].at \in Nat /\ trace[k].moved[way] \in Nat
  <2>1. \A k \in 1..n : trace[k] \in Pass
    BY <1>1, <1>2, ElementOfSeq
  <2> QED
    BY <2>1 DEF Pass
<1>9. PICK seen : seen = {k \in DOMAIN trace : trace[k].at >= curTime - WindowSize}
  OBVIOUS
<1>10. \A k : k \in seen <=> k \in 1..n /\ old < k
  <2>1. \A k \in 1..n : trace[k].at >= curTime - WindowSize <=> ~(k <= old)
    <3> SUFFICES ASSUME NEW k \in 1..n
                 PROVE  trace[k].at >= curTime - WindowSize <=> ~(k <= old)
      OBVIOUS
    <3>1. trace[k].at \in Nat /\ curTime - WindowSize \in Int
      BY <1>1, <1>8, LoopAssumption
    <3> QED
      BY <1>7, <3>1
  <2> QED
    BY <1>2, <1>9, <2>1
<1>11. CASE m = 0
  <2>1. entries = <<>>
    BY <1>4, <1>5, <1>11, EmptySeq
  <2>2. seen = {}
    BY <1>6, <1>10, <1>11
  <2> QED
    BY <1>3, <1>9, <2>1, <2>2 DEF GetDeltaData, BytesInWindow
<1>12. CASE m # 0
  <2>1. old + 1 \in 1..n /\ n \in 1..n /\ m \in 1..m /\ 1 \in 1..m
    BY <1>6, <1>12
  <2>2. seen # {} /\ trace # <<>> /\ entries # <<>>
    BY <1>2, <1>5, <1>10, <2>1
  <2>3. Min(seen) = old + 1
    <3>1. old + 1 \in seen /\ \A k \in seen : old + 1 <= k
      BY <1>10, <2>1
    <3>2. \A x \in seen : (\A k \in seen : x <= k) => x = old + 1
      <4> SUFFICES ASSUME NEW x \in seen, \A k \in seen : x <= k PROVE x = old + 1
        OBVIOUS
      <4>1. x <= old + 1 /\ old + 1 <= x /\ x \in 1..n
        BY <1>10, <3>1
      <4> QED
        BY <4>1
    <3>3. Min(seen) = CHOOSE x \in seen : \A k \in seen : x <= k
      BY DEF Min
    <3> QED
      BY <3>1, <3>2, <3>3, Zenon
  <2>4. PICK a \in Nat : a = trace[n].moved[way]
    BY <1>8, <2>1
  <2>5. PICK b \in Nat : b = trace[old + 1].moved[way]
    BY <1>8, <2>1
  <2>6. BytesInWindow(way) = a - b
    <3>1. Last(trace) = trace[n]
      BY <1>2 DEF Last
    <3> QED
      BY <1>9, <2>2, <2>3, <2>4, <2>5, <3>1 DEF BytesInWindow
  <2>7. b <= a
    <3>1. CASE old + 1 = n
      BY <2>4, <2>5, <3>1
    <3>2. CASE old + 1 # n
      <4>1. old + 1 < n
        BY <2>1, <3>2
      <4>2. trace[old + 1].moved[way] <= trace[n].moved[way]
        BY <1>0, <1>2, <2>1, <4>1 DEF Traced
      <4> QED
        BY <2>4, <2>5, <4>2
    <3> QED
      BY <3>1, <3>2
  <2>8. Last(entries).total = a % UInt32 /\ entries[1].total = b % UInt32
    <3>1. Last(entries) = entries[m]
      BY <1>5 DEF Last
    <3>2. entries[m] = Entry(way, trace[n]) /\ entries[1] = Entry(way, trace[old + 1])
      BY <1>6, <1>7, <2>1
    <3> QED
      BY <2>4, <2>5, <3>1, <3>2 DEF Entry
  <2>9. ((a % UInt32) - (b % UInt32)) % UInt32 = (a - b) % UInt32
    <3>1. UInt32 \in Nat \ {0} /\ a \in Int /\ b \in Int
      BY LoopAssumption
    <3> QED
      BY <3>1, CutDifference
  <2>10. GetDeltaData(entries) = (a - b) % UInt32
    BY <2>2, <2>8, <2>9 DEF GetDeltaData
  <2>11. (a - b) % UInt32 = a - b
    <3>1. PICK d \in Nat : d = a - b
      BY <2>7
    <3>2. d < UInt32
      BY <2>6, <3>1
    <3>3. d % UInt32 = d
      BY <3>2, LoopAssumption
    <3> QED
      BY <3>1, <3>3
  <2> QED
    BY <1>3, <2>6, <2>10, <2>11
<1> QED
  BY <1>11, <1>12

\* The types of what the loop and the collector keep, a total in 32 bits and
\* the moments of the window among it; and a file is open just while there is
\* something to measure and the collector is not finished.
THEOREM LoopTypeIsKept == LoopSpec => []LoopTypeOK
<1>1. LoopInv => LoopTypeOK
  <2> SUFFICES ASSUME LoopInv PROVE LoopTypeOK
    OBVIOUS
  <2>1. CollectorTypeOK /\ measured \in [Event -> Nat]
        /\ (metrics.open <=> options.enabled /\ ~metrics.finished)
    BY DEF LoopInv, Collected
  <2>2. Counted /\ Traced /\ Windowed /\ Totalled
    BY DEF LoopInv
  <2>3. total_data \in [Way -> 0..UInt32 - 1]
    <3>1. \A way \in Way : moved[way] % UInt32 \in 0..UInt32 - 1
      <4> SUFFICES ASSUME NEW way \in Way PROVE moved[way] % UInt32 \in 0..UInt32 - 1
        OBVIOUS
      <4>1. moved[way] \in Nat
        BY <2>2 DEF Traced
      <4> QED
        BY <4>1, LoopAssumption
    <3> QED
      BY <2>2, <3>1 DEF Totalled
  <2>4. ASSUME NEW way \in Way, NEW k \in DOMAIN data[way]
        PROVE  data[way][k].total \in 0..UInt32 - 1 /\ data[way][k].at \in 0..curTime
    <3>1. Shows(data[way], trace, way, curTime)
      BY <2>2 DEF Windowed
    <3>2. data[way] \in Seq(Kept)
      BY <3>1 DEF Shows
    <3>3. PICK m \in Nat : m = Len(data[way]) /\ DOMAIN data[way] = 1..m
      BY <3>2, LenProperties
    <3>4. data[way][k] \in Kept
      BY <2>4, <3>2, <3>3, ElementOfSeq
    <3>5. data[way][k].total \in 0..UInt32 - 1
      BY <3>4 DEF Kept
    <3>6. PICK n \in Nat : n = Len(trace) /\ DOMAIN trace = 1..n
      BY <2>2, LenProperties DEF Traced
    <3>7. PICK j \in 1..n : data[way][k] = Entry(way, trace[j])
      <4>1. n - m >= 0 /\ data[way][k] = Entry(way, trace[n - m + k])
        BY <2>4, <3>1, <3>3, <3>6 DEF Shows
      <4>2. n - m + k \in 1..n
        BY <2>4, <3>3, <4>1
      <4> QED
        BY <4>1, <4>2
    <3>8. data[way][k].at = trace[j].at
      BY <3>7 DEF Entry
    <3>9. trace[j].at \in 0..curTime
      BY <2>2, <3>6 DEF Traced
    <3> QED
      BY <3>5, <3>8, <3>9
  <2> QED
    BY <2>1, <2>2, <2>3, <2>4 DEF LoopTypeOK, Counted
<1> QED
  BY <1>1, InitLoopInv, NextLoopInv, PTL DEF LoopSpec

\* What UpdateBandwidth and GetDeltaData find is the bytes moved since the first
\* pass that is no older than the window, also when a counter has wrapped.
THEOREM TheDeltaIsOfTheWindow == LoopSpec => []DeltaIsOfTheWindow
  BY InitLoopInv, NextLoopInv, WindowShowsDelta, PTL DEF LoopSpec

\* The lines of the metrics file account for all that happened after the
\* warm-up, each thing once, and were written when they say.
THEOREM LinesStayTrue == LoopSpec => []LinesAreTrue
<1>1. LoopInv => LinesAreTrue
  BY DEF LoopInv, LinesAreTrue
<1> QED
  BY <1>1, InitLoopInv, NextLoopInv, PTL DEF LoopSpec

-----------------------------------------------------------------------------
(* The hub *)

USE NullAssumption

\* MapAndListAgree is what makes the erasure by key erase the right entry;
\* SessionsAreLive needs it to know that a found record is a live one.
IInv ==
  /\ TypeOK
  /\ MapAndListAgree
  /\ SessionsAreLive

LEMMA InitIInv == Init => IInv
  BY DEF Init, IInv, TypeOK, MapAndListAgree, SessionsAreLive

-----------------------------------------------------------------------------
(* Steps that create a record *)

LEMMA CreateClientStep ==
  ASSUME IInv, NEW e \in Endpoint, NEW p \in Pointer,
         NEW s \in {"Disconnected", "Connected"},
         FindClient(e) = NoClient, CreateClient(e, p, s),
         sessions' = IF s = "Connected" THEN sessions \cup {p} ELSE sessions,
         UNCHANGED <<pc, toUpdate>>
  PROVE  IInv'
  <1>1. TypeOK'
    BY DEF IInv, TypeOK, CreateClient
  <1>2. MapAndListAgree'
    BY DEF IInv, TypeOK, MapAndListAgree, CreateClient, FindClient
  <1>3. SessionsAreLive'
    <2>1. p \notin sessions
      BY DEF CreateClient, IInv, SessionsAreLive
    <2>2. \A q \in clients_ : state'[q] = state[q]
      BY DEF CreateClient, IInv, TypeOK
    <2>3. state'[p] = s /\ clients_' = clients_ \cup {p}
      BY DEF CreateClient, IInv, TypeOK
    <2> QED
      BY <2>1, <2>2, <2>3 DEF IInv, SessionsAreLive
  <1> QED
    BY <1>1, <1>2, <1>3 DEF IInv

\* Steps that change the state of one record's connection.
LEMMA StateStep ==
  ASSUME IInv, NEW p \in clients_,
         NEW s \in {"Disconnected", "Connected"},
         state' = [state EXCEPT ![p] = s],
         sessions' = IF s = "Connected" THEN sessions \cup {p}
                                        ELSE sessions \ {p},
         toUpdate' \subseteq clients_,
         UNCHANGED <<clients_, clientMap_, address, pc>>
  PROVE  IInv'
  <1>1. p \in Pointer
    BY DEF IInv, TypeOK
  <1>2. TypeOK'
    BY <1>1 DEF IInv, TypeOK
  <1>3. MapAndListAgree'
    BY DEF IInv, MapAndListAgree
  <1>4. SessionsAreLive'
    BY <1>1 DEF IInv, TypeOK, SessionsAreLive
  <1> QED
    BY <1>2, <1>3, <1>4 DEF IInv

LEMMA FoundIsLive ==
  ASSUME IInv, NEW e \in Endpoint, FindClient(e) # NoClient
  PROVE  FindClient(e) \in clients_ /\ address[FindClient(e)] = e
  BY DEF IInv, MapAndListAgree, FindClient

LEMMA UpdateEraseStep ==
  ASSUME IInv, UpdateErase
  PROVE  IInv'
  <1>1. /\ clients_' = clients_ \ Gone
        /\ clientMap_' = [e \in Endpoint |->
                            IF e \in {address[p] : p \in Gone}
                              THEN NoClient ELSE clientMap_[e]]
        /\ pc' = "Poll"
        /\ toUpdate = {}
        /\ UNCHANGED <<address, state, toUpdate, sessions>>
    BY DEF UpdateErase
  <1>2. Gone \subseteq clients_
    BY DEF Gone
  <1>3. TypeOK'
    BY <1>1 DEF IInv, TypeOK
  <1>4. MapAndListAgree'
    <2>1. ASSUME NEW e \in Endpoint, clientMap_'[e] # NoClient
          PROVE  clientMap_'[e] \in clients_' /\ address'[clientMap_'[e]] = e
      <3>1. e \notin {address[p] : p \in Gone} /\ clientMap_'[e] = clientMap_[e]
        BY <1>1, <2>1
      <3>2. clientMap_[e] \in clients_ /\ address[clientMap_[e]] = e
        BY <2>1, <3>1 DEF IInv, MapAndListAgree
      <3>3. clientMap_[e] \notin Gone
        BY <3>1, <3>2
      <3> QED
        BY <1>1, <3>1, <3>2, <3>3
    <2>2. ASSUME NEW p \in clients_'
          PROVE  clientMap_'[address'[p]] = p
      <3>1. p \in clients_ /\ p \notin Gone /\ clientMap_[address[p]] = p
        BY <1>1, <2>2 DEF IInv, MapAndListAgree
      <3>2. address[p] \in Endpoint
        BY <3>1 DEF IInv, TypeOK
      <3>3. address[p] \notin {address[q] : q \in Gone}
        BY <1>2, <3>1 DEF IInv, MapAndListAgree
      <3> QED
        BY <1>1, <3>1, <3>2, <3>3
    <2> QED
      BY <2>1, <2>2 DEF MapAndListAgree
  <1>5. SessionsAreLive'
    BY <1>1 DEF IInv, SessionsAreLive, Gone
  <1> QED
    BY <1>3, <1>4, <1>5 DEF IInv

LEMMA NextIInv == IInv /\ [Next]_vars => IInv'
  <1> SUFFICES ASSUME IInv, [Next]_vars PROVE IInv'
    OBVIOUS
  <1>1. ASSUME NEW e \in Endpoint, NEW p \in Pointer, PollAcceptNew(e, p)
        PROVE  IInv'
    BY <1>1, CreateClientStep DEF PollAcceptNew
  <1>2. ASSUME NEW e \in Endpoint, NEW p \in Pointer, PollRejectNew(e, p)
        PROVE  IInv'
    BY <1>2, CreateClientStep DEF PollRejectNew
  <1>3. ASSUME NEW e \in Endpoint, NEW p \in Pointer, PollAcceptAgain(e, p)
        PROVE  IInv'
    <2>1. p \in clients_ /\ toUpdate' \subseteq clients_
      BY <1>3, FoundIsLive DEF PollAcceptAgain, IInv, TypeOK
    <2> QED
      BY <1>3, <2>1, StateStep DEF PollAcceptAgain
  <1>4. ASSUME NEW e \in Endpoint, NEW p \in Pointer, PollDisconnect(e, p)
        PROVE  IInv'
    <2>1. p \in clients_ /\ toUpdate' \subseteq clients_
      BY <1>4, FoundIsLive DEF PollDisconnect, IInv, TypeOK
    <2> QED
      BY <1>4, <2>1, StateStep DEF PollDisconnect
  <1>5. ASSUME PollDone
        PROVE  IInv'
    BY <1>5 DEF PollDone, hub, IInv, TypeOK, MapAndListAgree, SessionsAreLive
  <1>6. ASSUME NEW p \in Pointer, UpdateTimeout(p)
        PROVE  IInv'
    <2>1. p \in clients_ /\ toUpdate' \subseteq clients_
      BY <1>6 DEF UpdateTimeout, IInv, TypeOK
    <2> QED
      BY <1>6, <2>1, StateStep DEF UpdateTimeout
  <1>7. ASSUME NEW p \in Pointer, UpdateQuiet(p)
        PROVE  IInv'
    BY <1>7
    DEF UpdateQuiet, hub, IInv, TypeOK, MapAndListAgree, SessionsAreLive
  <1>8. CASE UNCHANGED vars
    BY <1>8 DEF vars, IInv, TypeOK, MapAndListAgree, SessionsAreLive
  <1> QED
    BY <1>1, <1>2, <1>3, <1>4, <1>5, <1>6, <1>7, <1>8, UpdateEraseStep DEF Next

THEOREM Invariance == Spec => []IInv
  BY InitIInv, NextIInv, PTL DEF Spec

\* Every variable of the hub keeps its type, and the loop of Update() only
\* ever visits records the hub still owns.
THEOREM TypeCorrect == Spec => []TypeOK
  BY Invariance, PTL DEF IInv

\* FindClient returns a live record of the endpoint asked for, or none.
THEOREM MapIsSound == Spec => []MapAndListAgree
  BY Invariance, PTL DEF IInv

\* The applications' Client& never dangles between the two callbacks.
THEOREM HandlesAreLive == Spec => []SessionsAreLive
  BY Invariance, PTL DEF IInv

\* List, map and application agree on who is connected.
THEOREM AccountsHold == Spec => []AccountsAgree
  BY Invariance, PTL DEF IInv, AccountsAgree

-----------------------------------------------------------------------------
(* The hub implements the registry *)

SessionOf(e) ==
  IF clientMap_[e] \in sessions THEN clientMap_[e] ELSE NoClient

\* The handles the abstraction calls open are the sessions.
LEMMA OpenHandlesAreSessions ==
  ASSUME IInv
  PROVE  {SessionOf(e) : e \in Endpoint} \ {NoClient} = sessions
  <1>1. ASSUME NEW p \in sessions
        PROVE  p \in {SessionOf(e) : e \in Endpoint} \ {NoClient}
    <2>1. p \in clients_ /\ p \in Pointer
      BY DEF IInv, SessionsAreLive, TypeOK
    <2>2. address[p] \in Endpoint /\ SessionOf(address[p]) = p
      BY <2>1 DEF IInv, TypeOK, MapAndListAgree, SessionOf
    <2> QED
      BY <2>1, <2>2
  <1>2. ASSUME NEW e \in Endpoint, SessionOf(e) # NoClient
        PROVE  SessionOf(e) \in sessions
    BY <1>2 DEF SessionOf
  <1> QED
    BY <1>1, <1>2

\* A record that is live and connected is the session of its endpoint.
LEMMA AcceptRefines ==
  ASSUME IInv, IInv', NEW e \in Endpoint, NEW p \in Pointer,
         SessionOf(e) = NoClient, p \notin sessions,
         sessions' = sessions \cup {p},
         clientMap_' = [clientMap_ EXCEPT ![e] = p]
  PROVE  /\ p \in Pointer \ ({SessionOf(x) : x \in Endpoint} \ {NoClient})
         /\ [x \in Endpoint |-> SessionOf(x)]'
              = [[x \in Endpoint |-> SessionOf(x)] EXCEPT ![e] = p]
  <1>1. clientMap_ \in [Endpoint -> Pointer \cup {NoClient}]
    BY DEF IInv, TypeOK
  <1>2. SessionOf(e)' = p
    BY <1>1 DEF SessionOf
  <1>3. ASSUME NEW x \in Endpoint, x # e
        PROVE  SessionOf(x)' = SessionOf(x)
    <2>1. clientMap_'[x] = clientMap_[x]
      BY <1>1, <1>3
    <2>2. clientMap_[x] # p
      <3> SUFFICES ASSUME clientMap_'[x] = p PROVE FALSE
        BY <2>1
      <3>1. clientMap_'[e] = p
        BY <1>1
      <3> QED
        BY <1>3, <3>1 DEF IInv, MapAndListAgree
    <2> QED
      BY <2>1, <2>2 DEF SessionOf
  <1> QED
    BY <1>2, <1>3, OpenHandlesAreSessions

\* Dropping one session clears the entry of its endpoint and no other.
LEMMA DropRefines ==
  ASSUME IInv, NEW p \in sessions, sessions' = sessions \ {p},
         clientMap_' = clientMap_
  PROVE  \E e \in Endpoint :
           /\ SessionOf(e) # NoClient
           /\ [x \in Endpoint |-> SessionOf(x)]'
                = [[x \in Endpoint |-> SessionOf(x)] EXCEPT ![e] = NoClient]
  <1>1. p \in clients_ /\ p \in Pointer
    BY DEF IInv, SessionsAreLive, TypeOK
  <1>2. PICK e \in Endpoint :
          e = address[p] /\ clientMap_[e] = p /\ SessionOf(e) = p
    BY <1>1 DEF IInv, TypeOK, MapAndListAgree, SessionOf
  <1>3. SessionOf(e)' = NoClient
    BY <1>2 DEF SessionOf
  <1>4. ASSUME NEW x \in Endpoint, x # e
        PROVE  SessionOf(x)' = SessionOf(x)
    <2>1. clientMap_[x] # p
      <3> SUFFICES ASSUME clientMap_[x] = p PROVE FALSE
        OBVIOUS
      <3>1. address[p] = x
        BY <1>1, <1>4 DEF IInv, MapAndListAgree
      <3> QED
        BY <1>2, <1>4, <3>1
    <2> QED
      BY <2>1 DEF SessionOf
  <1> QED
    BY <1>1, <1>2, <1>3, <1>4

LEMMA EraseRefines ==
  ASSUME IInv, UpdateErase
  PROVE  [x \in Endpoint |-> SessionOf(x)]' = [x \in Endpoint |-> SessionOf(x)]
  <1> SUFFICES ASSUME NEW x \in Endpoint
               PROVE  SessionOf(x)' = SessionOf(x)
    OBVIOUS
  <1>1. /\ clientMap_'[x] = IF x \in {address[p] : p \in Gone} THEN NoClient
                                                          ELSE clientMap_[x]
        /\ sessions' = sessions
    BY DEF UpdateErase
  <1>2. x \in {address[p] : p \in Gone} => clientMap_[x] \in Gone
    BY DEF IInv, MapAndListAgree, Gone
  <1>3. \A p \in Gone : p \notin sessions
    BY DEF IInv, SessionsAreLive, Gone
  <1>4. NoClient \notin sessions
    BY DEF IInv, TypeOK
  <1> QED
    BY <1>1, <1>2, <1>3, <1>4 DEF SessionOf

LEMMA NextRefines ==
  IInv /\ IInv' /\ [Next]_vars
    => [Registry!SessionNext]_([e \in Endpoint |-> SessionOf(e)])
  <1> DEFINE S == [e \in Endpoint |-> SessionOf(e)]
  <1> SUFFICES ASSUME IInv, IInv', [Next]_vars
               PROVE  Registry!SessionNext \/ S' = S
    OBVIOUS
  <1>1. ASSUME NEW e \in Endpoint, NEW p \in Pointer,
               SessionOf(e) = NoClient, p \notin sessions,
               sessions' = sessions \cup {p},
               clientMap_' = [clientMap_ EXCEPT ![e] = p]
        PROVE  Registry!OpenSession(e, p)
    BY <1>1, AcceptRefines
    DEF Registry!OpenSession, Registry!OpenHandles, Registry!IsOpen, SessionOf
  <1>2. ASSUME NEW p \in sessions, sessions' = sessions \ {p},
               clientMap_' = clientMap_
        PROVE  Registry!SessionNext
    <2>1. PICK e \in Endpoint :
            SessionOf(e) # NoClient /\ S' = [S EXCEPT ![e] = NoClient]
      BY <1>2, DropRefines
    <2>2. Registry!CloseSession(e)
      BY <2>1 DEF Registry!CloseSession, Registry!IsOpen, SessionOf
    <2> QED
      BY <2>2 DEF Registry!SessionNext
  <1>3. ASSUME UNCHANGED <<clientMap_, sessions>>
        PROVE  S' = S
    BY <1>3 DEF SessionOf
  <1>4. ASSUME NEW e \in Endpoint, NEW p \in Pointer, PollAcceptNew(e, p)
        PROVE  Registry!SessionNext
    <2>1. p \notin sessions /\ SessionOf(e) = NoClient
      BY <1>4 DEF PollAcceptNew, CreateClient, FindClient, SessionOf, IInv,
                  SessionsAreLive, TypeOK
    <2> QED
      BY <1>1, <1>4, <2>1
      DEF PollAcceptNew, CreateClient, Registry!SessionNext
  <1>5. ASSUME NEW e \in Endpoint, NEW p \in Pointer, PollRejectNew(e, p)
        PROVE  S' = S
    <2>1. p \notin sessions
      BY <1>5 DEF PollRejectNew, CreateClient, IInv, SessionsAreLive
    <2>2. /\ clientMap_[e] = NoClient
          /\ clientMap_' = [clientMap_ EXCEPT ![e] = p]
          /\ sessions' = sessions
      BY <1>5 DEF PollRejectNew, CreateClient, FindClient
    <2>3. clientMap_ \in [Endpoint -> Pointer \cup {NoClient}]
      BY DEF IInv, TypeOK
    <2> QED
      BY <2>1, <2>2, <2>3 DEF SessionOf
  <1>6. ASSUME NEW e \in Endpoint, NEW p \in Pointer, PollAcceptAgain(e, p)
        PROVE  Registry!SessionNext
    <2>1. /\ p = clientMap_[e] /\ state[p] = "Disconnected"
          /\ sessions' = sessions \cup {p}
          /\ clientMap_' = clientMap_
      BY <1>6 DEF PollAcceptAgain, FindClient
    <2>2. p \notin sessions /\ SessionOf(e) = NoClient
      BY <2>1 DEF SessionOf, IInv, SessionsAreLive
    <2>3. clientMap_' = [clientMap_ EXCEPT ![e] = p]
      BY <2>1 DEF IInv, TypeOK
    <2> QED
      BY <1>1, <2>1, <2>2, <2>3 DEF Registry!SessionNext
  <1>7. ASSUME NEW e \in Endpoint, NEW p \in Pointer, PollDisconnect(e, p)
        PROVE  Registry!SessionNext
    <2>1. p \in sessions
      BY <1>7, FoundIsLive DEF PollDisconnect, IInv, SessionsAreLive
    <2> QED
      BY <1>2, <1>7, <2>1 DEF PollDisconnect
  <1>8. ASSUME NEW p \in Pointer, UpdateTimeout(p)
        PROVE  Registry!SessionNext
    <2>1. p \in sessions
      BY <1>8 DEF UpdateTimeout, IInv, TypeOK, SessionsAreLive
    <2> QED
      BY <1>2, <1>8, <2>1 DEF UpdateTimeout
  <1>9. ASSUME \/ PollDone
               \/ \E p \in Pointer : UpdateQuiet(p)
               \/ UNCHANGED vars
        PROVE  S' = S
    BY <1>3, <1>9 DEF PollDone, UpdateQuiet, hub, vars
  <1>10. ASSUME UpdateErase PROVE S' = S
    BY <1>10, EraseRefines
  <1> HIDE DEF S
  <1> QED
    BY <1>4, <1>5, <1>6, <1>7, <1>8, <1>9, <1>10 DEF Next

\* Seen through the two callbacks alone, the hub is the registry of sessions
\* that the servers are written for: a handle is opened once, for one
\* endpoint, and is not given out again before it is closed.
THEOREM Refinement == Spec => ImplementsRegistry
  <1>1. Init => Registry!SessionInit
    BY DEF Init, Registry!SessionInit
  <1>2. IInv /\ IInv' /\ [Next]_vars
          => [Registry!SessionNext]_([e \in Endpoint |->
                IF clientMap_[e] \in sessions THEN clientMap_[e] ELSE NoClient])
    BY NextRefines DEF SessionOf
  <1> QED
    BY <1>1, <1>2, Invariance, PTL
    DEF Spec, ImplementsRegistry, Registry!SessionSpec
=============================================================================
