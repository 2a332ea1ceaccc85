SPECIFICATION Spec
CONSTANTS
  Uids = {"a", "b"}
  Ports = {1, 2}
  DefaultPort = 1
  Clients = {"c", "d"}
  Configs <- SomeConfigs
  MaxGen = 3
  MaxEvents = 4
INVARIANTS SavedAsConfirmed NoStray
PROPERTIES RequestsEnd
CHECK_DEADLOCK FALSE
