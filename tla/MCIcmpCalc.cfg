\* Three programs on two hosts.
SPECIFICATION DFairSpec
CONSTANTS
  WordBits = 6
  ByteBits = 3
  IntBytes = 2
  Ascii <- MCAscii
  p1 = p1
  p2 = p2
  p3 = p3
  Procs = {p1, p2, p3}
  Hosts = {"a", "b"}
  HostOf <- MCHostOf
  Target <- MCTarget
  Pid <- MCPid
  SeqMod = 2
  MsgSize = 10
  ICMP_CALC_REQ = 4
  ICMP_CALC_RES = 5
  ICMP_ECHO = 6
  ICMP_ECHOREPLY = 0
  Kinds <- MCKinds
  WidePid = {p2}
  Requests <- MCRequests
  MaxSent <- MCMaxSent
CHECK_DEADLOCK FALSE
INVARIANTS
  Unambiguous
  AnswerRight
  Verifies
PROPERTIES
  Answered
  Quiet
  EndsWhenTold
