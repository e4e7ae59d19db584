\* Three clients on two ports, all on the server's answering host or one of
\* them elsewhere; every server, every kind of network.
SPECIFICATION UdpSpec
CONSTANTS
  WordBits = 6
  ByteBits = 3
  IntBytes = 2
  Ascii <- MCAscii
  c1 = c1
  c2 = c2
  c3 = c3
  here = here
  there = there
  None = None
  Clients = {c1, c2, c3}
  Hosts = {here, there}
  Homes <- MCHomes
  Ports = {p1, p2}
  Requests <- MCRequests
  SinAddr = {here, there, None}
  StackInt = 13
  BufAddress = 2
  Servers = {"final", "misread", "week4"}
  Faults <- MCFaults
CHECK_DEADLOCK FALSE
INVARIANTS
  ExchangeRight
  AnswerOfPort
