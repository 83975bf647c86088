SPECIFICATION Spec
CONSTANTS
  Jobs = {j1, j2}
  MaxRetries = 2
  Batch = 1
  MaxAttempts = 3
  MaxFaults = 1
PROPERTY BuildsAreKept
