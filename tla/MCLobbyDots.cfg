SPECIFICATION FairSpec
CONSTANTS
  Endpoint = {e1, e2}
  Pointer = {p1, p2, p3}
  NoClient = NoClient
INVARIANTS
  TypeOK
  EverybodyIsTold
PROPERTIES
  EnterStartsTheSession
