SPECIFICATION FairSpec
CONSTANTS
  j1 = j1
  j2 = j2
  w1 = w1
  w2 = w2
  w3 = w3
  r1 = r1
  p1 = p1
  p2 = p2
  NoJob = NoJob
  Jobs = {j1, j2}
  Workers = {w1, w2}
  Reapers = {r1}
  Producers = {p1, p2}
  MaxRetries = 2
  Batch = 2
  Timely = TRUE
  MaxAttempts = 4
  MaxFaults = 2

CHECK_DEADLOCK FALSE
INVARIANT
  SoleWorker
PROPERTIES
  ImplementsAbstractQueue
  EverySettled
