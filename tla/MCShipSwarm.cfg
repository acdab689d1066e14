SPECIFICATION Spec
CONSTANTS
  Endpoint = {e1, e2}
  Pointer = {p1, p2}
  NoClient = NoClient
  kInvalidEntity = 3
  NumShips = 1
  MaxWorld = 1
  e1 = e1
  Leaving <- MCLeaving
  Addresses <- MCAddresses
  Inputs <- MCInputs
  Seen <- MCSeen
INVARIANTS
  TypeOK
  SteeringIsOnesOwn
  PicturesAreTheirs
PROPERTIES
  PictureConverges
  ClientComesToSteer
