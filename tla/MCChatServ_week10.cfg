\* The loop of the older copy that closes the gap.
SPECIFICATION Spec
CONSTANTS
  c1 = c1
  c2 = c2
  c3 = c3
  Clients = {c1, c2}
  MaxFd = 2
  MaxMsgs <- Silent
  MaxLog = 1
  Servers = {"week10"}
  Prompts = {TRUE}
  Quiet = TRUE
PROPERTIES
  RemoveIsExact
