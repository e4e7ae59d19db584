------------------------------ MODULE MCUdpCalc ------------------------------
EXTENDS UdpCalc

CONSTANTS c1, c2, c3, here, there

\* the machine of MCTcpCalc: three-bit chars and two-char ints
MCAscii == [o \in {"+", "-", "*"} |-> CASE o = "+" -> 1 [] o = "-" -> 2 [] o = "*" -> 3]

Req(n, a, o) == [count |-> n, operand |-> a, operator |-> o]

\* expressions of three lengths and values; nothing; a count that is negative
\* as a char only
MCRequests == [c \in Clients |->
  CASE c = c1 -> { Req(3, <<5, 11, -30>>, <<3, 1>>), Req(0, <<>>, <<>>) }
    [] c = c2 -> { Req(1, <<-9>>, <<>>), Req(5, <<>>, <<>>) }
    [] OTHER  -> { Req(2, <<-7, 19>>, <<2>>) }]

MCFaults == { {}, {"repeat", "interrupt"} }

\* all on one host, or one of them on another
MCHomes == { [c \in Clients |-> here], [c \in Clients |-> IF c = c3 THEN there ELSE here] }
=============================================================================
