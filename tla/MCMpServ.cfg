\* Two connections, two ids, two calculations, answers of one record;
\* both processes are scheduled.
SPECIFICATION FairSpec
CONSTANTS
  WordBits = 5
  Clients = {c1, c2}
  i1 = i1
  i2 = i2
  Ids <- MCIds
  Exprs <- MCExprs
  ReplyMax = 1
  MaxFd = 2
  PipeMax = 3100
INVARIANTS
  ChildInStep
  AckedSavesAreLoaded
  NothingLost
  AnswerIsForThisLoad
  NoSaveOfGarbage
PROPERTIES
  Implements
  Answered
  QuitStops
