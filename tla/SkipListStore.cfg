SPECIFICATION Spec

CONSTANTS
  Key = {1, 2, 3}
  Value = {v1, v2}
  v1 = v1
  v2 = v2
  NoValue = NoValue
  MaxLevel = 2

INVARIANTS
  TypeOK
  LevelsLinked
  WalkNotesPredecessors
  CountIsSize

PROPERTIES
  ImplementsOrderedMap
  CallsEnd
