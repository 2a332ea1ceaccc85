SPECIFICATION Spec
CONSTANTS
  Values <- TwoValues
  FirstValue = "v1"
  MaxDrops = 1
  MaxUpdates = 2
  MaxCalls = 1
  MaxRuns = 2
  SecondSubscriber = TRUE
  Calm = TRUE
INVARIANTS BrokerShowsDevice SubscriptionsMatch LateHearsSession
PROPERTY Recovers
CHECK_DEADLOCK FALSE
