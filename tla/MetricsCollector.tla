-------------------------- MODULE MetricsCollector --------------------------
(***************************************************************************)
(* The collector of benchmark_utils.hpp: the raylib programs tell it of    *)
(* every packet, frame and update, and it writes a line of what it counted *)
(* about once a second, or one line at the end ("summary").  It measures   *)
(* from the first call it is given after the warm-up.                      *)
(*                                                                         *)
(* The operators give the collector after a call at the moment t, counted  *)
(* from its construction.  Of a line those members are kept that say what  *)
(* it counts; sizes and durations, whose sums go the way of the counters,  *)
(* the transport's statistics, CPU and memory are left out, and of the     *)
(* game's metrics one number stands for all.                               *)
(***************************************************************************)
EXTENDS CommandLine

CONSTANT SampleInterval  \* the least time between two samples, 1000 ms

ASSUME CollectorAssumption == SampleInterval \in Nat \ {0}

VARIABLES
  options,  \* what ParseOptions has made of the command line
  metrics,  \* the MetricsCollector
  active    \* ActiveCollector() points to it

Line ==
  [time : Nat, elapsed : Nat, rx : Nat, tx : Nat, frames : Nat, updates : Nat,
   game : Nat]

Collector ==
  [measuring : BOOLEAN, finished : BOOLEAN, open : BOOLEAN,
   measurementStart : Nat, lastSample : Nat, rx : Nat, tx : Nat,
   frames : Nat, updates : Nat, game : Nat, lines : Seq(Line)]

CollectorTypeOK ==
  /\ metrics \in Collector
  /\ active \in BOOLEAN

\* The file is opened, or is stdout, if there is anything to measure.
NewCollector(enabled) ==
  [measuring |-> FALSE, finished |-> FALSE, open |-> enabled,
   measurementStart |-> 0, lastSample |-> 0, rx |-> 0, tx |-> 0, frames |-> 0,
   updates |-> 0, game |-> 0, lines |-> <<>>]

\* It is time to leave the main loop.
Done(t) == options.enabled /\ t >= options.warmupMs + options.durationMs

UpdateMeasurementState(m, t) ==
  IF ~options.enabled \/ m.measuring \/ t < options.warmupMs THEN m
  ELSE [m EXCEPT !.measuring = TRUE, !.measurementStart = t, !.lastSample = t]

\* RecordPayloadRx, RecordPayloadTx, RecordFrameMs and RecordUpdateMs, called
\* n times at a moment.
Record(m, counter, n, t) ==
  LET u == UpdateMeasurementState(m, t)
  IN IF n = 0 THEN m
     ELSE IF u.measuring THEN [u EXCEPT ![counter] = @ + n] ELSE u

LineOf(m, t) ==
  [time |-> t, elapsed |-> t - m.measurementStart, rx |-> m.rx, tx |-> m.tx,
   frames |-> m.frames, updates |-> m.updates, game |-> m.game]

\* Fault: frames and updates are not counted from zero again.
WritesOn(m, t) ==
  IF ~m.open THEN m
  ELSE [m EXCEPT !.lines = Append(@, LineOf(m, t)), !.lastSample = t]

\* What was received and sent is counted through, frames and updates anew for
\* each line.
WriteSample(m, t) ==
  IF ~m.open THEN m
  ELSE [m EXCEPT !.lines = Append(@, LineOf(m, t)), !.lastSample = t,
                 !.frames = 0, !.updates = 0]

MaybeWriteSample(m, t) ==
  LET u == UpdateMeasurementState(m, t)
  IN IF /\ u.measuring
        /\ options.metricsMode # "summary"
        /\ t - u.lastSample >= SampleInterval
     THEN WriteSample(u, t)
     ELSE u

\* Fault: the destructor writes a line once more.
FinishesAgain(m, t) ==
  [(IF options.enabled /\ m.measuring THEN WriteSample(m, t) ELSE m) EXCEPT
     !.finished = TRUE]

\* Called when the loop is over, and by the destructor in any case.
Finish(m, t) ==
  IF m.finished THEN m
  ELSE [(IF options.enabled /\ m.measuring THEN WriteSample(m, t) ELSE m) EXCEPT
          !.finished = TRUE, !.open = FALSE]

CollectorInit(argv) ==
  /\ options = ParseOptions(argv)
  /\ metrics = NewCollector(options.enabled)
  /\ active = TRUE

\* What is told to no collector is not counted.
RecordPayload(m, counter, n, t) == IF active THEN Record(m, counter, n, t) ELSE m
=============================================================================
