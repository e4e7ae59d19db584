\* Every server, threads that start in time or late; clients leave at any
\* moment, also by a reset.
SPECIFICATION Spec
CONSTANTS
  c1 = c1
  c2 = c2
  c3 = c3
  Clients = {c1, c2}
  MaxFd = 2
  MaxMsgs <- TwoLines
  MaxLog = 3
  Servers = {"final", "week10", "calc"}
  Prompts = {TRUE, FALSE}
  Quiet = FALSE
SYMMETRY Perms
INVARIANTS
  CountConserved
  TotalOrder
  OneHandlerEach
  AnsweredOnce
PROPERTIES
  RemovesOwn
