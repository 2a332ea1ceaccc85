SPECIFICATION Spec
CONSTANTS
  Gears <- SomeGears
  Found <- FirstValues
  Vals <- NewValues
  Touched <- SomeCells
  MaxTasks = 2
  MaxForeign = 1
  MaxFaulty = 3
INVARIANTS KnownIsHeld SavedIsHeld
CHECK_DEADLOCK FALSE
