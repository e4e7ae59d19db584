\* Two children that end in the same second.
SPECIFICATION ExSpec
CONSTANTS
  Rounds = 5
  Inputs <- MCInputs
  Ones = 3
  MaxKeys = 0
  Visitors = {v1}
  LogRoom = 1
  Programs <- ReapOnly
INVARIANTS
  BothRemoved
