SPECIFICATION Spec
CONSTANTS
  Devices <- TwoDevices
  MaxLevel = 2
  SceneLevel = 1
  SceneKnown <- OnlyFirst
  StartGear <- SomeGear
  OnFade = 1
  MaxEvents = 2
  Calm = TRUE
INVARIANTS ShownIsActual GroupFollowsPin LastWriteWins
CHECK_DEADLOCK FALSE
