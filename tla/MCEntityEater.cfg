SPECIFICATION Spec
CONSTANTS
  Endpoint = {e1, e2}
  Pointer = {p1, p2}
  NoClient = NoClient
  NumAi = 1
  GameDuration = 1
  MaxGain = 1
  MaxBites = 2
SYMMETRY PlayerSymmetry
INVARIANTS
  TypeOK
  ControlIsExclusive
PROPERTIES
  ScoresAreTrue
