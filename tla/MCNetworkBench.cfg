SPECIFICATION BenchSpec
CONSTANTS
  BenchClient = {c1, c2}
  Nobody = Nobody
  Interval <- MCInterval
  MaxBurst = 2
  ModeCounter = 4
  Warmup = 1
  Duration = 2
  DrainTime = 0
  SampleTime = 3
  ClientStart = 0
  MaxTime = 3
  MaxEchoes = 1
  MaxFaults = 1
SYMMETRY ClientSymmetry
INVARIANTS
  BenchTypeOK
  PacingIsKept
PROPERTIES
  CountersAddUp
CHECK_DEADLOCK FALSE
