SPECIFICATION Spec
CONSTANTS
  MaxEvent = 2
  Batch = 1
  Streams = {s1, s2}
  MaxBreaks = 1
  NumDrains = 2
  Workers = {w1, w2}
  MaxFaults = 1
CHECK_DEADLOCK FALSE
INVARIANTS
  SkippedOnlyIfLate
  PassedIsShipped
PROPERTIES
  EveryEventDelivered
  HealthyDrainShips
