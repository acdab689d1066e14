SPECIFICATION Spec
CONSTANTS
  Client = {a, b, c, d}
  Answer <- MCAnswer
  MaxDuels = 3
SYMMETRY ClientSymmetry
INVARIANTS
  TypeOK
  DuelsAreExclusive
  OneWinnerPerDuel
  PlayersSawTheProblem
PROPERTIES
  ImplementsMatchMaking
