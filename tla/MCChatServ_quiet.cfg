\* Threads start in time, nobody leaves while somebody talks, and the threads
\* are scheduled.
SPECIFICATION FairSpec
CONSTANTS
  c1 = c1
  c2 = c2
  c3 = c3
  Clients = {c1, c2, c3}
  MaxFd = 3
  MaxMsgs <- Uneven
  MaxLog = 3
  Servers = {"final"}
  Prompts = {TRUE}
  Quiet = TRUE
INVARIANTS
  SendToAll
PROPERTIES
  Attended
