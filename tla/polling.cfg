SPECIFICATION Spec
CONSTANTS
  Devices <- ThreeDevices
  Controls <- SomeControls
  Meter = "energy"
  Settings <- SomeSettings
  Budget = 2
  ChunkCost = 3
  Chunks = 3
  Intervals <- SomeIntervals
  MeterInterval = 3
  FirstDelay = 2
  MaxDelay = 3
  Slow = 1
  QuietTime = 2
  MaxEvents = 2
INVARIANTS OneReading
PROPERTY Served
