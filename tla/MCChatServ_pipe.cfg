\* A client leaves in the middle of the talk: SIGPIPE ends the broadcast.
SPECIFICATION Spec
CONSTANTS
  c1 = c1
  c2 = c2
  c3 = c3
  Clients = {c1, c2}
  MaxFd = 2
  MaxMsgs <- TwoLines
  MaxLog = 3
  Servers = {"final"}
  Prompts = {TRUE}
  Quiet = FALSE
INVARIANTS
  SendToAll
