SPECIFICATION Spec
CONSTANTS
  j1 = j1
  j2 = j2
  w1 = w1
  w2 = w2
  w3 = w3
  r1 = r1
  p1 = p1
  p2 = p2
  NoJob = NoJob
  Jobs = {j1}
  Workers = {w1, w2, w3}
  Reapers = {r1}
  Producers = {p1}
  MaxRetries = 2
  Batch = 1
  Timely = FALSE
  MaxAttempts = 3
  MaxFaults = 1

CHECK_DEADLOCK FALSE
INVARIANT DeadIsOverLimit
