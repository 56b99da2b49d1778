SPECIFICATION Spec
CONSTANTS
  Typed = {"a", "e", "w"}
  Sizes <- MCSizes
  kMaxInputRows = 2
  MaxSize = 6
  MaxEntries = 3
INVARIANTS
  TypeOK
  RowsAreBuffer
  CursorShown
PROPERTIES
  EditsCharacters
  WheelMoves
