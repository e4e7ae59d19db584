------------------------------ MODULE TcpCalc ------------------------------
(* network_programming_final/tcp_calculator: tcp_server.c serves one client  *)
(* after another, and reads a request field by field into variables that it  *)
(* never clears; no result of read is looked at.  tcp_client.c writes the    *)
(* whole request at once and waits for the answer.                           *)
EXTENDS CalcClients

CONSTANTS
  StackCounts,   \* what the uninitialised opCount may hold
  StackByte,     \* what every byte of the uninitialised operand holds
  Paths,         \* the networks: TRUE if requests arrive in one segment
  Garbage        \* what an uninitialised int holds

ASSUME TcpCalcAssumption ==
  /\ StackCounts \subseteq -(MaxChar + 1) .. MaxChar /\ StackByte \in Byte
  /\ Paths \subseteq BOOLEAN
  /\ Garbage # None

VARIABLES
  spc,           \* the server: "accept", "count", "operand", "operator", "stopped"
  cfd,           \* the client it serves
  opCount, operator, i,   \* its variables, with operand and opResult
  backlog,       \* connections that wait for accept, in their order
  in,            \* [Clients -> bytes on the way to the server]
  out,           \* [Clients -> [value, reset], None before the answer is written]
  whole          \* a request arrives in one segment, not in pieces: never changes

serverData == <<opCount, operand, operator, opResult, i>>
clientVars == <<cst, asked, answer, whole>>
vars == <<spc, cfd, serverData, backlog, in, out, clientVars>>

(* read on a socket blocks until there is something to read or the peer has  *)
(* closed, returns at most n bytes, and leaves the buffer alone at the end.  *)
Readable(c) == in[c] # <<>> \/ cst[c] = "gone"

Lengths(c, n) == LET most == IF Len(in[c]) < n THEN Len(in[c]) ELSE n
                 IN IF whole \/ most = 0 THEN {most} ELSE 1 .. most

Taken(c, k) == in' = [in EXCEPT ![c] = SubSeq(in[c], k + 1, Len(in[c]))]

(* The variables of main are not initialised.  A client is "off",            *)
(* "connected", "sent", and "done" or "gone".                                *)
Init == /\ spc = "accept" /\ cfd = None
        /\ opCount \in StackCounts
        /\ operand = [s \in Slots |-> [k \in 1 .. IntBytes |-> StackByte]]
        /\ operator = [s \in Slots |-> 0]
        /\ opResult = 0 /\ i = 0
        /\ backlog = <<>>
        /\ cst = [c \in Clients |-> "off"]
        /\ asked = [c \in Clients |-> None]
        /\ in = [c \in Clients |-> <<>>]
        /\ out = [c \in Clients |-> None]
        /\ answer = [c \in Clients |-> None]
        /\ whole \in Paths

-----------------------------------------------------------------------------
(* tcp_client.c                                                              *)

Connect(c) == /\ cst[c] = "off" /\ spc # "stopped"
              /\ cst' = [cst EXCEPT ![c] = "connected"]
              /\ backlog' = Append(backlog, c)
              /\ UNCHANGED <<spc, cfd, serverData, in, out, asked, answer, whole>>

(* A count that is not positive as a char goes alone, and the client ends.   *)
Send(c) == /\ cst[c] = "connected" /\ spc # "stopped"
           /\ \E r \in Requests[c] :
                /\ asked' = [asked EXCEPT ![c] = r]
                /\ IF Char(r.count) =< 0
                     THEN /\ in' = [in EXCEPT ![c] = <<r.count % Base>>]
                          /\ cst' = [cst EXCEPT ![c] = "gone"]
                     ELSE /\ in' = [in EXCEPT ![c] = Frame(r)]
                          /\ cst' = [cst EXCEPT ![c] = "sent"]
           /\ UNCHANGED <<spc, cfd, serverData, backlog, out, answer, whole>>

(* The user interrupts the client; what it has written still arrives.        *)
HangUp(c) == /\ cst[c] \in {"connected", "sent"}
             /\ cst' = [cst EXCEPT ![c] = "gone"]
             /\ UNCHANGED <<spc, cfd, serverData, backlog, in, out, asked, answer, whole>>

(* read(sfd, &opResult, 4): the answer; or, when the server closed with      *)
(* bytes unread or ended with the connection in its backlog, a reset, after  *)
(* which the uninitialised opResult is printed.                              *)
Receive(c) == /\ cst[c] = "sent"
              /\ out[c] # None \/ spc = "stopped"
              /\ cst' = [cst EXCEPT ![c] = "done"]
              /\ \E v \in IF out[c] = None THEN {Garbage}
                      ELSE {out[c].value} \cup (IF out[c].reset THEN {Garbage} ELSE {}) :
                   answer' = [answer EXCEPT ![c] = v]
              /\ UNCHANGED <<spc, cfd, serverData, backlog, in, out, asked, whole>>

-----------------------------------------------------------------------------
(* tcp_server.c                                                              *)

Accept == /\ spc = "accept" /\ backlog # <<>>
          /\ cfd' = Head(backlog) /\ backlog' = Tail(backlog)
          /\ spc' = "count"
          /\ UNCHANGED <<serverData, in, out, clientVars>>

\* Mutant: a count that could not be read is zero.
ReadCountClear ==
  /\ spc = "count" /\ Readable(cfd)
  /\ \E k \in Lengths(cfd, 1) :
       /\ Taken(cfd, k)
       /\ opCount' = IF k = 0 THEN 0 ELSE Char(in[cfd][1])
  /\ spc' = IF opCount' =< 0 THEN "stopped" ELSE "operand"
  /\ i' = 0
  /\ UNCHANGED <<cfd, operand, operator, opResult, backlog, out, clientVars>>

(* read(cfd, &opCount, 1), and the end of the server if it is not positive.  *)
ReadCount ==
  /\ spc = "count" /\ Readable(cfd)
  /\ \E k \in Lengths(cfd, 1) :
       /\ Taken(cfd, k)
       /\ opCount' = IF k = 0 THEN opCount ELSE Char(in[cfd][1])
  /\ spc' = IF opCount' =< 0 THEN "stopped" ELSE "operand"
  /\ i' = 0
  /\ UNCHANGED <<cfd, operand, operator, opResult, backlog, out, clientVars>>

(* read(cfd, operand+i, 4) overwrites the bytes it gets and no others.       *)
ReadOperand ==
  /\ spc = "operand" /\ Readable(cfd)
  /\ \E k \in Lengths(cfd, IntBytes) :
       /\ Taken(cfd, k)
       /\ operand' = [operand EXCEPT ![i+1] =
                        [b \in 1 .. IntBytes |-> IF b =< k THEN in[cfd][b] ELSE @[b]]]
  /\ IF i + 1 < opCount
       THEN i' = i + 1 /\ UNCHANGED <<spc, opResult>>
       ELSE i' = 0 /\ spc' = "operator" /\ opResult' = IntOf(operand'[1])
  /\ UNCHANGED <<cfd, opCount, operator, backlog, out, clientVars>>

\* Mutant: operand[i].
ReadOperatorOff ==
  /\ spc = "operator" /\ i < opCount - 1 /\ Readable(cfd)
  /\ \E k \in Lengths(cfd, 1) :
       /\ Taken(cfd, k)
       /\ operator' = [operator EXCEPT ![i+1] = IF k = 0 THEN @ ELSE in[cfd][1]]
  /\ opResult' = Wrap(Apply(OpOf(operator'[i+1]), opResult, IntOf(operand[i+1])))
  /\ i' = i + 1
  /\ UNCHANGED <<spc, cfd, opCount, operand, backlog, out, clientVars>>

(* read(cfd, operator+i, 1) and one turn of the switch.                      *)
ReadOperator ==
  /\ spc = "operator" /\ i < opCount - 1 /\ Readable(cfd)
  /\ \E k \in Lengths(cfd, 1) :
       /\ Taken(cfd, k)
       /\ operator' = [operator EXCEPT ![i+1] = IF k = 0 THEN @ ELSE in[cfd][1]]
  /\ opResult' = Wrap(Apply(OpOf(operator'[i+1]), opResult, IntOf(operand[i+2])))
  /\ i' = i + 1
  /\ UNCHANGED <<spc, cfd, opCount, operand, backlog, out, clientVars>>

\* Mutant: a lone operand is no expression.
ReplyNot == /\ spc = "operator" /\ i = opCount - 1
            /\ out' = IF opCount = 1 THEN out
                      ELSE [out EXCEPT ![cfd] = [value |-> opResult, reset |-> in[cfd] # <<>>]]
            /\ spc' = "accept"
            /\ UNCHANGED <<cfd, serverData, backlog, in, clientVars>>

(* write(cfd, &opResult, 4) and close, which resets the connection if bytes  *)
(* of the request are left in it.                                            *)
Reply == /\ spc = "operator" /\ i = opCount - 1
         /\ out' = [out EXCEPT ![cfd] = [value |-> opResult, reset |-> in[cfd] # <<>>]]
         /\ spc' = "accept"
         /\ UNCHANGED <<cfd, serverData, backlog, in, clientVars>>

-----------------------------------------------------------------------------
Client(c) == Connect(c) \/ Send(c) \/ HangUp(c) \/ Receive(c)
Server == Accept \/ ReadCount \/ ReadOperand \/ ReadOperator \/ Reply
Next == Server \/ \E c \in Clients : Client(c)

Spec == Init /\ [][Next]_vars
FairSpec == Spec /\ WF_vars(Server) /\ \A c \in Clients : WF_vars(Receive(c))

-----------------------------------------------------------------------------
(* What a client prints is the value of what its user typed, whatever        *)
(* clients that hung up or asked for nothing left in the server's variables; *)
(* unless the server had stopped.  The request must arrive whole.            *)
AnswerRight == whole =>
  \A c \in Clients : cst[c] = "done" =>
     \/ answer[c] = Calculate(Expression(asked[c]))
     \/ answer[c] = Garbage /\ out[c] = None /\ spc = "stopped"

(* The lengths of the reads never add up to more than was sent: once a count *)
(* was accepted, the server is not held up by the rest of the request.       *)
NeverWaitsInside == spc \in {"operand", "operator"} /\ cst[cfd] = "sent" =>
  Len(in[cfd]) >= IF spc = "operand" THEN 2 * opCount - 1 - i ELSE opCount - 1 - i

(* Once the server has had a good count, only the client it is serving stops *)
(* it, by asking for a count that is not positive; a client that hangs up    *)
(* does not.                                                                 *)
StopsWhenTold ==
  [][opCount > 0 /\ spc' = "stopped" =>
       asked[cfd] # None /\ Char(asked[cfd].count) =< 0]_<<spc, opCount>>

(* Whoever has sent a request gets an answer, or the reset of a stopped      *)
(* server; the one thing that can hold it up for ever is a client that is    *)
(* connected, is being served and stays silent.                              *)
HeldUp == spc = "count" /\ ~Readable(cfd)
Served == []<>~HeldUp => \A c \in Clients : cst[c] = "sent" ~> cst[c] # "sent"

=============================================================================
