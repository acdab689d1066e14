SPECIFICATION GameFairSpec
CONSTANTS
  Endpoint = {e1, e2}
  Pointer = {p1, p2}
  NoClient = NoClient
  MaxId = 2
  MaxInFlight = 2
INVARIANTS
  GameTypeOK
  PlayersAreTheirs
PROPERTIES
  ScreensCatchUp
