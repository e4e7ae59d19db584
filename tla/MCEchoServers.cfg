\* One client of each kind with every server.
SPECIFICATION FairSpec
CONSTANTS
  c1 = c1
  c2 = c2
  Clients = {c1, c2}
  Split = {c2}
  Lines <- MCLines
  Window = 2
  Inbox <- MCInbox
  MaxFd = 2
  BufSize <- MCBufSize
  ForkBuf = 1
  LogReads = 2
  PipeMax = 2
  Turns <- MCTurns
  SeqBuf = 2
  Behind = 1
  Programs <- MCPrograms
INVARIANTS
  EchoRight
  NeverBlocksNorForgets
  Survives
  LogComplete
PROPERTIES
  Echoed
  Released
