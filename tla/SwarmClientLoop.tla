-------------------------- MODULE SwarmClientLoop --------------------------
(***************************************************************************)
(* The main loop of the ship-swarm client, with the collector it tells of  *)
(* its packets, frames and updates and the window its bandwidth display    *)
(* looks back over.  With --bench the loop runs for the warm-up and the    *)
(* time given and sleeps between passes, without it until its window is    *)
(* closed.  The clock may move between any two calls.                      *)
(*                                                                         *)
(* What the packets say is left out: each that is received tells of one    *)
(* more entity, so that the game's metrics have a number to report, and    *)
(* may be the one that names the client's own.  Each packet counts as one  *)
(* byte.  ShipSwarm has the rest of the client.                            *)
(***************************************************************************)
EXTENDS MetricsCollector, FiniteSets, FiniteSetsExt

CONSTANTS
  CommandLines,  \* the command lines the client may be started with
  WindowSize,    \* of the bandwidth display, in the time a pass of a bench counts for
  FrameTimes,    \* what GetFrameTime may return, in the same unit
  UInt32,        \* std::uint32_t has so many values
  MaxTime,       \* bound of the model: the last moment of the clock
  MaxPackets,    \* bound of the model: packets received
  MaxPasses      \* bound of the model: passes of the loop

ASSUME LoopAssumption ==
  /\ CommandLines \subseteq Seq(STRING)
  /\ WindowSize \in Nat
  /\ FrameTimes \subseteq Nat
  /\ UInt32 \in Nat \ {0}
  /\ MaxTime \in Nat
  /\ MaxPackets \in Nat
  /\ MaxPasses \in Nat

VARIABLES
  now,         \* Clock::now() - start_
  stage,       \* where main is
  sent_join,
  steers,      \* my_entity is known
  entities,    \* their number
  total_data,  \* total_in_data and total_out_data
  curTime,     \* BandwidthAccumulator
  data,        \* BandwidthAccumulator: inData and outData
  moved,       \* history: what total_data would be without a bound
  trace,       \* history: of each pass curTime and moved
  measured     \* history: what happened after the warm-up

collector == <<options, metrics, active>>
bandwidth == <<total_data, curTime, data, moved, trace>>
loopVars == <<collector, now, stage, sent_join, steers, entities, bandwidth, measured>>

Way == {"in", "out"}
Event == {"rx", "tx", "frames", "updates"}

LoopTypeOK ==
  /\ CollectorTypeOK
  /\ now \in 0..MaxTime
  /\ stage \in {"start", "loop", "poll", "send", "update", "frame", "sample",
             "finish", "destroy", "done"}
  /\ sent_join \in BOOLEAN
  /\ steers \in BOOLEAN
  /\ entities \in 0..MaxPackets
  /\ total_data \in [Way -> 0..UInt32 - 1]
  /\ \A way \in Way : \A k \in DOMAIN data[way] :
       data[way][k].total \in 0..UInt32 - 1 /\ data[way][k].at \in 0..curTime
  /\ measured \in [Event -> Nat]
  /\ metrics.open <=> options.enabled /\ ~metrics.finished

LoopInit ==
  /\ \E argv \in CommandLines : CollectorInit(argv)
  /\ now = 0
  /\ stage = "start"
  /\ sent_join = FALSE
  /\ steers = FALSE
  /\ entities = 0
  /\ total_data = [way \in Way |-> 0]
  /\ curTime = 0
  /\ data = [way \in Way |-> <<>>]
  /\ moved = [way \in Way |-> 0]
  /\ trace = <<>>
  /\ measured = [event \in Event |-> 0]

\* What the collector should count of the events of a step: those after the
\* warm-up.
Note(counts) ==
  measured' = [event \in Event |->
                 IF options.enabled /\ now >= options.warmupMs /\
                    event \in DOMAIN counts
                 THEN measured[event] + counts[event]
                 ELSE measured[event]]

-----------------------------------------------------------------------------
\* The host is not resolved, or there is no socket, or no address to connect
\* to: main returns.
StartUp ==
  /\ stage = "start"
  /\ stage' \in {"loop", "destroy"}
  /\ UNCHANGED <<collector, now, sent_join, steers, entities, bandwidth,
                 measured>>

\* The window may be closed before any pass.
LoopTest ==
  /\ stage = "loop"
  /\ \/ /\ IF options.enabled THEN ~Done(now) ELSE Len(trace) < MaxPasses
        /\ stage' = "poll"
     \/ /\ IF options.enabled THEN Done(now) ELSE TRUE
        /\ stage' = "finish"
  /\ UNCHANGED <<collector, now, sent_join, steers, entities, bandwidth,
                 measured>>

Transferred(way, bytes) ==
  /\ total_data' = [total_data EXCEPT ![way] = (@ + bytes) % UInt32]
  /\ moved' = [moved EXCEPT ![way] = @ + bytes]

\* Poll and Update of the connection call the handler for each packet.
OnReceived ==
  /\ stage = "poll"
  /\ entities < MaxPackets
  /\ metrics' = RecordPayload(metrics, "rx", 1, now)
  /\ Transferred("in", 1)
  /\ entities' = entities + 1
  /\ steers' \in {steers, sent_join}
  /\ Note([rx |-> 1])
  /\ UNCHANGED <<options, active, now, stage, sent_join, curTime, data, trace>>

Polled ==
  /\ stage = "poll"
  /\ stage' = "send"
  /\ UNCHANGED <<collector, now, sent_join, steers, entities, bandwidth,
                 measured>>

\* Fault: only one entry in a pass is found too old.
EraseOne(entries, cur) ==
  IF entries # <<>> /\ entries[1].at < cur - WindowSize THEN Tail(entries)
                                                       ELSE entries

\* The entries from the front that are older than the window are erased.
EraseOld(entries, cur) ==
  LET old == Max({k \in 0..Len(entries) :
                    \A i \in 1..k : entries[i].at < cur - WindowSize})
  IN SubSeq(entries, old + 1, Len(entries))

\* total is what has been transferred when UpdateBandwidth is called.
UpdateBandwidth(total, dt) ==
  LET cur == curTime + dt
  IN /\ curTime' = cur
     /\ data' = [way \in Way |->
                   EraseOld(Append(data[way], [total |-> total[way], at |-> cur]),
                            cur)]

\* The join if there is a session and none was sent, the bandwidth, and the
\* input of the own ship: what is sent counts for the bandwidth whether or not
\* the connection takes it, and for the metrics if it does.  A pass of a bench
\* counts for a 60th of a second, one with a window for the time of the frame
\* before it, which may be none, or longer than the window.
SendAndSimulate ==
  /\ stage = "send"
  /\ \E join \in IF sent_join THEN {0} ELSE {0, 1}, taken \in 0..2,
        dt \in IF options.enabled THEN {1} ELSE FrameTimes :
       LET input == IF steers THEN 1 ELSE 0
           total == [total_data EXCEPT !["out"] = (@ + join) % UInt32]
       IN /\ taken <= join + input
          /\ sent_join' = (sent_join \/ join = 1)
          /\ metrics' = RecordPayload(metrics, "tx", taken, now)
          /\ UpdateBandwidth(total, dt)
          /\ Transferred("out", join + input)
          /\ trace' = Append(trace, [at |-> curTime',
                                     moved |-> [moved EXCEPT !["out"] = @ + join]])
          /\ Note([tx |-> taken])
  /\ stage' = IF options.enabled THEN "update" ELSE "loop"
  /\ UNCHANGED <<options, active, now, steers, entities>>

\* SetGameMetrics and RecordUpdateMs.
RecordUpdateMs ==
  /\ stage = "update"
  /\ metrics' = Record([metrics EXCEPT !.game = entities], "updates", 1, now)
  /\ Note([updates |-> 1])
  /\ stage' = "frame"
  /\ UNCHANGED <<options, active, now, sent_join, steers, entities, bandwidth>>

RecordFrameMs ==
  /\ stage = "frame"
  /\ metrics' = Record(metrics, "frames", 1, now)
  /\ Note([frames |-> 1])
  /\ stage' = "sample"
  /\ UNCHANGED <<options, active, now, sent_join, steers, entities, bandwidth>>

\* And the sleep, which takes time as far as the bound goes.
SampleAndSleep ==
  /\ stage = "sample"
  /\ metrics' = MaybeWriteSample(metrics, now)
  /\ now' = IF now < MaxTime THEN now + 1 ELSE now
  /\ stage' = "loop"
  /\ UNCHANGED <<options, active, sent_join, steers, entities, bandwidth,
                 measured>>

\* After Disconnect.
FinishMetrics ==
  /\ stage = "finish"
  /\ metrics' = Finish(metrics, now)
  /\ active' = FALSE
  /\ stage' = "destroy"
  /\ UNCHANGED <<options, now, sent_join, steers, entities, bandwidth, measured>>

Destroy ==
  /\ stage = "destroy"
  /\ metrics' = Finish(metrics, now)
  /\ active' = FALSE
  /\ stage' = "done"
  /\ UNCHANGED <<options, now, sent_join, steers, entities, bandwidth, measured>>

\* The loop falls behind: the clock moves between two calls.
Tick ==
  /\ options.enabled
  /\ stage # "done"
  /\ now < MaxTime
  /\ now' = now + 1
  /\ UNCHANGED <<collector, stage, sent_join, steers, entities, bandwidth, measured>>

LoopNext ==
  \/ StartUp
  \/ LoopTest
  \/ OnReceived
  \/ Polled
  \/ SendAndSimulate
  \/ RecordUpdateMs
  \/ RecordFrameMs
  \/ SampleAndSleep
  \/ FinishMetrics
  \/ Destroy
  \/ Tick

LoopSpec == LoopInit /\ [][LoopNext]_loopVars

-----------------------------------------------------------------------------
(* Properties *)

\* A number of bytes, the difference of two 32-bit counters.  DrawWorld shows
\* it divided by 1024 under the label "kbit/s": with a window of one second it
\* shows kilobytes (of 1024) in a second, an eighth of the rate it names.
GetDeltaData(entries) ==
  IF entries = <<>> THEN 0
  ELSE (Last(entries).total - entries[1].total) % UInt32

\* The bytes transferred between two passes: the first that is no older than
\* the window, and the last.
BytesInWindow(way) ==
  LET seen == {k \in DOMAIN trace : trace[k].at >= curTime - WindowSize}
  IN IF seen = {} THEN 0
     ELSE Last(trace).moved[way] - trace[Min(seen)].moved[way]

\* The difference GetDeltaData finds is the number of bytes since the first pass
\* that is no older than the window, also when several passes have grown too
\* old at once, and when a counter has wrapped in between.  What that pass had
\* transferred before is not in it: after a frame that took longer than the
\* window it is 0, whatever was transferred.
DeltaIsOfTheWindow ==
  \A way \in Way :
    BytesInWindow(way) < UInt32 => GetDeltaData(data[way]) = BytesInWindow(way)

\* What the lines have of a counter together.
SumOf(counter, lines) ==
  LET sum[k \in 0..Len(lines)] ==
        IF k = 0 THEN 0 ELSE sum[k - 1] + lines[k][counter]
  IN sum[Len(lines)]

\* The lines account for what happened after the warm-up and for nothing else:
\* packets, frames and updates of that time are counted, each frame and update
\* by one line; what a line says of the game is of the same moment as what it
\* says of the packets; and the last line has everything.
LinesAddUp ==
  /\ \A event \in {"rx", "tx"} : metrics[event] = measured[event]
  /\ \A event \in {"frames", "updates"} :
       SumOf(event, metrics.lines) + metrics[event] = measured[event]
  /\ \A k \in DOMAIN metrics.lines :
       metrics.lines[k].game - metrics.lines[k].rx = entities - measured["rx"]
  /\ metrics.finished /\ (\E event \in Event : measured[event] > 0) =>
       /\ metrics.lines # <<>>
       /\ Last(metrics.lines).rx = measured["rx"]
       /\ Last(metrics.lines).tx = measured["tx"]
       /\ metrics.frames = 0 /\ metrics.updates = 0

\* No line is written before the warm-up is over, none sooner than a second
\* after the start of the measurement or the line before, but for the one that
\* closes the file; with "summary" that is the only one; and the measurement
\* starts with the first event after the warm-up, however late that is.
LinesKeepTime ==
  LET lines == metrics.lines
      Closing(k) == metrics.finished /\ k = Len(lines)
  IN /\ metrics.measuring => metrics.measurementStart >= options.warmupMs
     /\ \A k \in DOMAIN lines :
          /\ metrics.measuring
          /\ lines[k].elapsed = lines[k].time - metrics.measurementStart
          /\ ~Closing(k) =>
               /\ options.metricsMode # "summary"
               /\ lines[k].time - (IF k = 1 THEN metrics.measurementStart
                                            ELSE lines[k - 1].time)
                    >= SampleInterval
     /\ (\E event \in Event : measured[event] > 0) => metrics.measuring

\* The file tells what was measured and when.
LinesAreTrue == LinesAddUp /\ LinesKeepTime
=============================================================================
