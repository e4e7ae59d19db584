----------------------------- MODULE MCIcmpCalc -----------------------------
EXTENDS IcmpDrafts

CONSTANTS p1, p2, p3

\* the machine of MCTcpCalc: three-bit chars and two-char ints
MCAscii == [o \in {"+", "-", "*"} |-> CASE o = "+" -> 1 [] o = "-" -> 2 [] o = "*" -> 3]

Req(n, a, o) == [count |-> n, operand |-> a, operator |-> o]

\* values, that of p2 being -1, and a count of nothing
MCRequests == [p \in Procs |->
  IF p = p2 THEN { Req(3, <<5, 11, 8>>, <<3, 1>>) }
            ELSE { Req(2, <<-7, 19>>, <<2>>), Req(0, <<>>, <<>>) }]

\* p1 and p2 share a host, p3 has one of its own; p1 and p3 have equal pids;
\* p2 calls its own host, p3 the shared one, twice; p1 only listens
MCHostOf == [p \in Procs |-> IF p = p3 THEN "b" ELSE "a"]
MCTarget == [p \in Procs |-> "a"]
MCPid == [p \in Procs |-> IF p = p2 THEN 8 ELSE 7]
MCMaxSent == [p \in Procs |-> IF p = p1 THEN 0 ELSE IF p = p2 THEN 1 ELSE 2]

\* three copies of the final program; the drafts, of which one only listens;
\* pings beside a calculator, one with the pid of p1
MCKinds ==
  { [p \in Procs |-> "icmp_calc_final"],
    [p \in Procs |-> IF p = p1 THEN "calc_ping_server"
                     ELSE IF p = p2 THEN "calc_ping_client" ELSE "icmp_calc"],
    [p \in Procs |-> IF p = p1 THEN "icmp_calc_final" ELSE "myping"] }
=============================================================================
