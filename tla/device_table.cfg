SPECIFICATION Spec
CONSTANTS
  a = "a"
  b = "b"
  Gears = {"a", "b"}
  Shorts = {0, 1, 2}
  Names = {1}
  Groups = {0}
  rpc1 = rpc1
  rpc2 = rpc2
  Clients = {rpc1, rpc2}
  MaxGen = 1
  MaxEvents = 2
  StartKinds <- GearOrMixed
  Prompt = TRUE
  Careful = TRUE
  MayCancel = FALSE
INVARIANTS TablesAreCurrent ConfirmedIsSaved
SYMMETRY ClientSymmetry
CHECK_DEADLOCK FALSE
