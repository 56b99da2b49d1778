SPECIFICATION Spec
CONSTANTS
  Names <- MCNames
  Lines <- MCLines
  Parts = 1
  MaxRounds = 2
  WireSize = 4
  MaxTurns = 2
  MaxTabs = 1
  MaxTraffic = 4
INVARIANTS
  TypeOK
  ParsedWhole
  TextConserved
  RoundsInOrder
  IndicesOfTurn
