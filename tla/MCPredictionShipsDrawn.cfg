SPECIFICATION Spec
CONSTANTS
  Endpoint = {e1, e2}
  Pointer = {p1, p2}
  NoClient = NoClient
  kInvalidEntity = 2
  kInterpolationTime = 1
  ServerSleep = 1
  MaxTime = 5
  MaxFrames = 3
  MaxHistory = 3
  e1 = e1
  Seen <- MCSeen
PROPERTIES
  PredictionIsDrawn
