\* Requests arrive in one segment, as the client writes them, or in pieces.
SPECIFICATION FairSpec
CONSTANTS
  WordBits = 6
  ByteBits = 3
  IntBytes = 2
  Ascii <- MCAscii
  c1 = c1
  c2 = c2
  c3 = c3
  Clients = {c1, c2, c3}
  Requests <- MCRequests
  StackCounts <- MCStackCounts
  StackByte = 7
  Paths = {TRUE, FALSE}
  None = None
  Garbage = Garbage
CHECK_DEADLOCK FALSE
INVARIANTS
  AnswerRight
  NeverWaitsInside
PROPERTIES
  StopsWhenTold
  Served
