\* A thread that starts late: the removal takes out somebody else.
SPECIFICATION Spec
CONSTANTS
  c1 = c1
  c2 = c2
  c3 = c3
  Clients = {c1, c2}
  MaxFd = 2
  MaxMsgs <- Silent
  MaxLog = 1
  Servers = {"final"}
  Prompts = {FALSE}
  Quiet = TRUE
PROPERTIES
  RemoveIsExact
