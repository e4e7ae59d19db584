--------------------------- MODULE MCEchoServers ---------------------------
EXTENDS EchoServers
CONSTANTS c1, c2
\* more than window, inbox and a server's hand of one byte hold; two that are not waited for
MCLines == [c \in Clients |-> IF c = c1 THEN <<6>> ELSE <<2, 2>>]
MCPrograms == OneProcess \cup {"echo_mpserv", "echo_storeserv"}
\* 100 bytes hold a line of these clients, 4 do not
MCBufSize == [p \in MCPrograms |-> IF p \in {"echo_EPLTserv", "echo_EPETserv"} THEN 1 ELSE 2]
MCInbox == [p \in MCPrograms |-> IF p = "echo_stdserv" THEN 6 ELSE 2]
MCTurns == [p \in MCPrograms |-> IF p \in {"echo_stdserv", "server"} THEN 2 ELSE 1]
=============================================================================
