------------------------------ MODULE MCTcpCalc ------------------------------
EXTENDS TcpCalc

CONSTANTS c1, c2, c3

\* three-bit chars and two-char ints: counts -4 .. 3, ints -32 .. 31
MCAscii == [o \in {"+", "-", "*"} |-> CASE o = "+" -> 1 [] o = "-" -> 2 [] o = "*" -> 3]

Req(n, a, o) == [count |-> n, operand |-> a, operator |-> o]

\* an expression whose order, overflow and bytes matter; one operand, or a count
\* that is negative as a char only; a shorter expression, or nothing
MCRequests == [c \in Clients |->
  CASE c = c1 -> { Req(3, <<5, 11, -30>>, <<3, 1>>) }
    [] c = c2 -> { Req(1, <<9>>, <<>>), Req(5, <<>>, <<>>) }
    [] OTHER  -> { Req(2, <<-7, 19>>, <<2>>), Req(0, <<>>, <<>>) }]

\* a count that ends the server and one that does not
MCStackCounts == {-1, 2}
=============================================================================
