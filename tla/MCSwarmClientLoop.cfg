SPECIFICATION LoopSpec
CONSTANTS
  Dashed <- MCDashed
  Number <- MCNumber
  UInt16 = 65535
  kDefaultShipSwarmPort = 10133
  SampleInterval = 2
  CommandLines <- MCCommandLines
  WindowSize = 2
  FrameTimes = {0, 1, 2, 3}
  UInt32 = 3
  MaxTime = 6
  MaxPackets = 3
  MaxPasses = 4
INVARIANTS
  LoopTypeOK
  DeltaIsOfTheWindow
  LinesAreTrue
CHECK_DEADLOCK FALSE
