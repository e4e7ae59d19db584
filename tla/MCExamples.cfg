\* Every small program; the five rounds of semaphore.c.
SPECIFICATION ExFairSpec
CONSTANTS
  Rounds = 5
  Inputs <- MCInputs
  Ones = 3
  MaxKeys = 2
  Visitors = {v1, v2, v3}
  LogRoom = 1
  Programs <- MCPrograms
INVARIANTS
  Alternate
  ResultRight
  CounterRight
  LoggedOnce
  ChildrenRemoved
  SleepsSuffice
PROPERTIES
  Ends
