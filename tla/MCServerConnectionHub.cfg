SPECIFICATION FairSpec
CONSTANTS
  Endpoint = {e1, e2, e3}
  Pointer = {p1, p2, p3, p4}
  NoClient = NoClient
INVARIANTS
  TypeOK
  AccountsAgree
PROPERTIES
  ImplementsRegistry
  ClosedIsReaped
