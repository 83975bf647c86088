SPECIFICATION MCSpec
CONSTANTS
  Schedules = {s1, s2}
  Ticks = {k1, k2}
  DayLen = 3
  Attempts = 4
  Crons <- MCCrons
  MaxNow = 2
  MaxOps = 1
PROPERTY FailureIsRecorded
CHECK_DEADLOCK FALSE
