---------------------------- MODULE CalcClients ----------------------------
(* What the TCP and the UDP calculators have in common: clients that ask     *)
(* once, and the variables of the server's main that outlive a request.      *)
EXTENDS CalcFrame

CONSTANTS
  Clients,       \* client processes
  Requests,      \* [Clients -> what its user may type]
  None           \* no client, no request, no answer, no port

ASSUME CalcClientsAssumption ==
  /\ \A c \in Clients : None \notin Requests[c] /\ \A r \in Requests[c] : IsRequest(r)
  /\ None \notin Clients

Slots == 1 .. MaxChar    \* of the arrays: the count is a char, MAX is 1024

VARIABLES
  operand, opResult,   \* the server's, never cleared
  cst,           \* [Clients -> where it is in its main]
  asked,         \* [Clients -> what was typed, None before]
  answer         \* [Clients -> opResult of the client, None before]

=============================================================================
