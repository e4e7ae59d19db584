------------------------------ MODULE UdpCalc ------------------------------
(* The UDP calculators: one datagram per request and one per answer, neither *)
(* numbered, repeated nor timed.  Which server runs is chosen at the start:  *)
(*   "final"    network_programming_final/udp_calculator/udp_server.c, and   *)
(*              week4/opserver.c: tells recvfrom that the peer's address has *)
(*              sizeof(len) = 4 bytes, so that it learns the family and the  *)
(*              port, and the IP address it answers to is what the variable  *)
(*              cliaddr held before                                          *)
(*   "misread"  week4/udp_calculator/udp_server.c: learns the whole address; *)
(*              operator[i] = buf + opCount*4 + 1 + i, the lowest byte of an *)
(*              address and not the byte there                               *)
(*   "week4"    week4/udpserver.c: learns the whole address, and ends when a *)
(*              count is not positive                                        *)
(*                                                                           *)
(* Datagrams under way are sets, from which any one may be taken next: they  *)
(* overtake one another.  One that is never taken is lost: no action is      *)
(* needed for that.                                                          *)
EXTENDS CalcClients

CONSTANTS
  Hosts,         \* the machines
  Homes,         \* functions [Clients -> Hosts]: where the clients may run
  Ports,         \* the ephemeral ports of every host
  SinAddr,       \* what cliaddr.sin_addr may hold when the server starts
  StackInt,      \* what the other uninitialised variables hold
  BufAddress,    \* where the stack has buf
  Servers,       \* which of the servers
  Faults         \* sets of "repeat" (datagrams are doubled) and "interrupt"

ASSUME UdpCalcAssumption ==
  /\ Homes \subseteq [Clients -> Hosts]
  /\ \A f \in Faults : f \subseteq {"repeat", "interrupt"}
  /\ StackInt \in Int
  /\ BufAddress \in Nat
  /\ Servers \subseteq {"final", "misread", "week4"}
  /\ SinAddr \subseteq Hosts \cup {None} /\ None \notin Hosts \cup Ports

VARIABLES
  up,            \* the server's loop runs
  server,        \* which server: it never changes
  sin_addr,      \* cliaddr.sin_addr of the server: a host, or None: no route
  port,          \* [Clients -> the port of its socket, None before]
  requests,      \* datagrams to the server: [from, port, buf]
  answers,       \* datagrams from it: [for, to, port, value]
  host,          \* where each client runs, and
  faults         \* what happens to datagrams and clients: they never change

serverVars == <<up, sin_addr, operand, opResult>>
socketVars == <<cst, port, asked, answer>>
environment == <<host, faults, server>>
udpVars == <<serverVars, socketVars, requests, answers, environment>>

(* The variables of main are not initialised.  A client is "off", "waiting", *)
(* and "done" or "gone".                                                     *)
UdpInit ==
  /\ up = TRUE
  /\ server \in Servers
  /\ sin_addr \in IF server = "final" THEN SinAddr ELSE {None}
  /\ operand = [s \in Slots |-> StackInt] /\ opResult = StackInt
  /\ cst = [c \in Clients |-> "off"]
  /\ port = [c \in Clients |-> None]
  /\ asked = [c \in Clients |-> None]
  /\ answer = [c \in Clients |-> None]
  /\ requests = {} /\ answers = {}
  /\ host \in Homes /\ faults \in Faults

Holds(c, p) == cst[c] = "waiting" /\ port[c] = p

Free(h) == {p \in Ports : ~\E c \in Clients : host[c] = h /\ Holds(c, p)}

-----------------------------------------------------------------------------
(* A count of zero gives an empty datagram: 1+0*4+(0-1) bytes of buf.        *)
Datagram(r) == IF r.count = 0 THEN <<>> ELSE Frame(r)

(* udp_client.c: sendto binds the socket to a free port.  A count that is    *)
(* negative as a char is sent alone, and the client does not wait.           *)
SendTo(c) ==
  /\ cst[c] = "off"
  /\ \E r \in Requests[c], p \in Free(host[c]) :
       /\ asked' = [asked EXCEPT ![c] = r]
       /\ port' = [port EXCEPT ![c] = p]
       /\ requests' = requests \cup {[from |-> c, port |-> p, buf |-> Datagram(r)]}
       /\ cst' = [cst EXCEPT ![c] = IF Char(r.count) < 0 THEN "gone" ELSE "waiting"]
  /\ UNCHANGED <<serverVars, answer, answers, environment>>

(* recvfrom takes the first datagram that comes to the port, from anyone.    *)
RecvFrom(c) ==
  /\ cst[c] = "waiting"
  /\ \E a \in answers :
       /\ a.to = host[c] /\ a.port = port[c]
       /\ answer' = [answer EXCEPT ![c] = a.value]
       /\ answers' \in {answers \ {a}} \cup (IF "repeat" \in faults THEN {answers} ELSE {})
  /\ cst' = [cst EXCEPT ![c] = "done"]
  /\ UNCHANGED <<serverVars, port, asked, requests, environment>>

(* There is no timeout: a client that waits in vain is interrupted.          *)
Interrupt(c) == /\ "interrupt" \in faults /\ cst[c] = "waiting"
                /\ cst' = [cst EXCEPT ![c] = "gone"]
                /\ UNCHANGED <<serverVars, port, asked, answer, requests, answers, environment>>

-----------------------------------------------------------------------------
\* Mutant: the last operand is left as it was.
StoredButLast(b) ==
  LET n == Char(BufAt(b, 0))
  IN [s \in Slots |-> IF s < n THEN Parse(b).operand[s] ELSE operand[s]]

(* operand after the server's loop over a buffer: the slots of this request  *)
(* are overwritten, the others keep what they had.                           *)
Stored(b) == [s \in Slots |-> IF s =< Char(BufAt(b, 0)) THEN Parse(b).operand[s]
                              ELSE operand[s]]

(* The operators and operands of a buffer, as the server has them.           *)
Understood(b) ==
  LET n == Char(BufAt(b, 0))
      Address(i) == OpOf((BufAddress + n * IntBytes + i) % Base)
  IN [operand  |-> Stored(b),
      operator |-> IF server = "misread" THEN [i \in 1 .. n - 1 |-> Address(i)]
                                         ELSE Parse(b).operator]

\* Mutant: the loop adds to the opResult of the request before.
ResultAdds(b) ==
  IF Char(BufAt(b, 0)) = 1 THEN Wrap(opResult + Stored(b)[1])
  ELSE IF Char(BufAt(b, 0)) > 0 THEN Calculate(Understood(b))
  ELSE IF Char(BufAt(b, 0)) = 0 THEN Stored(b)[1]
  ELSE opResult

(* opResult after a buffer: without operands, the first one of the request   *)
(* before; with a negative count, the result of the request before.          *)
ResultOf(b) ==
  IF Char(BufAt(b, 0)) > 0 THEN Calculate(Understood(b))
  ELSE IF Char(BufAt(b, 0)) = 0 THEN Stored(b)[1]
  ELSE opResult

Left(d) == {requests \ {d}} \cup (IF "repeat" \in faults THEN {requests} ELSE {})

(* One turn of the server's loop, in which it meets nobody: recvfrom, the    *)
(* calculation, sendto; an address without a route ends the loop.            *)
Serve ==
  /\ up
  /\ \E d \in requests :
       /\ ~(server = "week4" /\ Char(BufAt(d.buf, 0)) =< 0)
       /\ requests' \in Left(d)
       /\ sin_addr' = IF server = "final" THEN sin_addr ELSE host[d.from]
       /\ operand' = Stored(d.buf) /\ opResult' = ResultOf(d.buf)
       /\ IF sin_addr' = None
            THEN up' = FALSE /\ UNCHANGED answers
            ELSE /\ up' = TRUE
                 /\ answers' = answers \cup {[for |-> d.from, to |-> sin_addr',
                                              port |-> d.port, value |-> opResult']}
  /\ UNCHANGED <<socketVars, environment>>

(* udpserver.c: a count that is not positive is not answered and ends it.    *)
Stop ==
  /\ up /\ server = "week4"
  /\ \E d \in requests : /\ Char(BufAt(d.buf, 0)) =< 0
                         /\ requests' \in Left(d)
                         /\ sin_addr' = host[d.from]
  /\ up' = FALSE
  /\ UNCHANGED <<operand, opResult, answers, socketVars, environment>>

-----------------------------------------------------------------------------
UdpNext == Serve \/ Stop \/ \E c \in Clients : SendTo(c) \/ RecvFrom(c) \/ Interrupt(c)

UdpSpec == UdpInit /\ [][UdpNext]_udpVars

-----------------------------------------------------------------------------
Value(c) == Calculate(Expression(asked[c]))

(* Answers come to where the request came from, or at least to its host.     *)
Reaches(c) == server = "final" => host[c] = sin_addr

(* A request that has a value, and whose operators the server reads.         *)
Sensible(c) == /\ Char(asked[c].count) > 0
               /\ server = "misread" => asked[c].count = 1

(* All clients are on the host the server answers to, all wait for their     *)
(* answers, and datagrams are lost or overtaken but not doubled.             *)
Orderly == /\ faults = {}
           /\ \A c \in Clients : cst[c] # "off" => Reaches(c) /\ Char(asked[c].count) >= 0

(* Then a client gets the value of what its user typed, although no datagram *)
(* says whose it is and ports are used again.                                *)
OrderlyRight == Orderly => \A c \in Clients :
  cst[c] = "done" /\ Sensible(c) => answer[c] = Value(c)

(* Nobody waits in vain, as long as datagrams are neither lost nor doubled   *)
(* and clients not interrupted: whoever waits on a host that is answered     *)
(* has a datagram under way, and the server that is to take it runs; unless  *)
(* a count that was not positive has ended udpserver.c.                      *)
NoneInVain == faults = {} =>
  \A c \in Clients : cst[c] = "waiting" /\ Reaches(c) =>
    \/ up /\ ((\E m \in requests : m.from = c) \/ (\E a \in answers : a.for = c))
    \/ server = "week4" /\ \E d \in Clients : asked[d] # None /\ Char(asked[d].count) =< 0

(* One request, one answer, the right one.                                   *)
ExchangeRight == OrderlyRight /\ NoneInVain

(* Otherwise, however datagrams are doubled, delayed or lost and clients     *)
(* interrupted: what a client gets is the value of a request sent from a     *)
(* port of that number, its own or another's (of its own host, when the      *)
(* server knows the whole address); unless one without a value was.          *)
AnswerOfPort == \A c \in Clients : cst[c] = "done" =>
  \E d \in Clients : /\ port[d] = port[c] /\ asked[d] # None
                     /\ server # "final" => host[d] = host[c]
                     /\ Sensible(d) => answer[c] = Value(d)

=============================================================================
