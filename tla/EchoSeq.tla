------------------------------ MODULE EchoSeq ------------------------------
(* The echo servers that serve one client after the other:                   *)
(*   week10/echo_stdserv.c   through two FILEs, line by line, until feof     *)
(*   week3/server.c          read of MAX bytes, write of strlen(rcvbuf)      *)
(*   week2/server.c          the same for a single client                    *)
(*   week2/server3.c         three reads and writes for a single client      *)
(* Their buffers outlive a turn of the loop, and echo_stdserv's a client.    *)
EXTENDS EchoNet

CONSTANTS
  Turns,         \* [server -> the clients it serves]: 5, 5, 1 and 1
  SeqBuf,        \* bytes of rcvbuf, and of one read
  Behind         \* bytes behind rcvbuf, at most, before the next NUL in memory

Nobody  == "nobody"
Foreign == 0     \* a byte that the client served has not sent: the stack's, another's

ASSUME EchoSeqAssumption ==
  SeqBuf \in Nat \ {0} /\ Behind \in Nat /\ Nobody \notin Clients

VARIABLES
  client,        \* who is served, or Nobody
  turn,          \* i of the loop over clients
  message,       \* message or rcvbuf, to its first NUL
  passes         \* turns of the inner loop of server3; the last of echo_stdserv

seqVars == <<client, turn, message, passes>>

(* echo_stdserv's message is not initialised: empty or not, it is nobody's.  *)
SeqInit ==
  /\ client = Nobody /\ turn = 0 /\ passes = 0
  /\ message \in IF program = "echo_stdserv" THEN {<< >>, <<Foreign>>} ELSE {<< >>}

Serving(c) == client = c /\ buf[c] = << >> /\ dead = {}

(* What the buffer holds when the next client is served.                     *)
Others == [k \in 1 .. Len(message) |-> Foreign]

\* Mutant: rcvbuf is cleared once, before the loop over the clients.
AcceptNextKeeps(clear) ==
  /\ client = Nobody /\ dead = {} /\ turn < Turns[program]
  /\ TakeBacklog
  /\ client' = Head(backlog) /\ turn' = turn + 1 /\ passes' = 0
  /\ message' = IF clear /\ turn = 0 THEN << >> ELSE Others

(* memset(rcvbuf, 0, ..) of week2 and week3; server3 writes what it has read.*)
AcceptNext(clear) ==
  /\ client = Nobody /\ dead = {} /\ turn < Turns[program]
  /\ TakeBacklog
  /\ client' = Head(backlog) /\ turn' = turn + 1 /\ passes' = 0
  /\ message' = IF clear THEN << >> ELSE Others

(* week2 and week3 give accept a length that nothing has set: as a negative  *)
(* one it makes the first accept fail, and the server return.                *)
AcceptFails ==
  /\ turn = 0 /\ backlog # << >>
  /\ turn' = Turns[program]
  /\ peer' = [peer EXCEPT ![Head(backlog)] = "closed"]
  /\ backlog' = Tail(backlog)
  /\ UNCHANGED <<program, cst, typed, said, got, news, heard, buf, out, dead,
                 client, message, passes>>

Hangup(c) ==
  /\ Close(c)
  /\ client' = Nobody
  /\ UNCHANGED <<turn, message, passes>>

Puts == (\E c \in Clients : Write(c, TRUE, Clients)) /\ UNCHANGED seqVars

-----------------------------------------------------------------------------
(* week3/server.c and week2/server.c: rcvbuf is not cleared between reads.   *)
Overwritten(bytes) == bytes \o SubSeq(message, Len(bytes) + 1, Len(message))

(* What strlen counts: to the first NUL, which is in rcvbuf unless a read    *)
(* has filled it.  Then whatever lies behind it is sent too.                 *)
Strings(m) == {m \o [k \in 1 .. n |-> Foreign] :
                 n \in IF Len(m) < SeqBuf THEN {0} ELSE 0 .. Behind}

EchoBuffer(c) ==
  /\ Serving(c) /\ HasData(c)
  /\ \E n \in Pieces(c, SeqBuf) :
       /\ heard' = [heard EXCEPT ![c] = @ + n]
       /\ message' = Overwritten(Bytes(c, n))
  /\ \E string \in Strings(message') : buf' = [buf EXCEPT ![c] = string]
  /\ UNCHANGED <<program, cst, typed, said, got, peer, news, backlog, out, dead,
                 client, turn, passes>>

(* read returns -1, which is not 0: rcvbuf is written once more.             *)
EchoAfterReset(c) ==
  /\ Serving(c) /\ Failing(c)
  /\ peer' = [peer EXCEPT ![c] = "reset"]
  /\ \E string \in Strings(message) : buf' = [buf EXCEPT ![c] = string]
  /\ UNCHANGED <<program, cst, typed, said, got, news, backlog, heard, out, dead, seqVars>>

StrlenLoop ==
  \/ AcceptNext(TRUE) \/ AcceptFails
  \/ \E c \in Clients : \/ EchoBuffer(c) \/ EchoAfterReset(c)
                        \/ Serving(c) /\ Ended(c) /\ Hangup(c)
  \/ Puts

server  == program = "server" /\ StrlenLoop
server2 == program = "server2" /\ StrlenLoop

-----------------------------------------------------------------------------
(* week2/server3.c: a loop of three, whatever read returns.                  *)
Pass(c) == client = c /\ passes' = passes + 1 /\ UNCHANGED <<client, turn, message>>

server3 ==
  /\ program = "server3"
  /\ \/ AcceptNext(FALSE) \/ AcceptFails
     \/ \E c \in Clients :
          \/ Serving(c) /\ passes < 3 /\ (Read(c, SeqBuf) \/ ReadFails(c)) /\ Pass(c)
          \/ Serving(c) /\ passes < 3 /\ Ended(c) /\ UNCHANGED netVars /\ Pass(c)
          \/ Serving(c) /\ passes = 3 /\ Hangup(c)
     \/ Puts

-----------------------------------------------------------------------------
(* week10/echo_stdserv.c: fgets takes one line, when all of it has come.     *)
EchoLine(c) ==
  /\ Serving(c) /\ passes = 0 /\ HasData(c)
  /\ \E k \in 1 .. typed[c] :
       /\ heard[c] = LineEnd(c)[k-1] /\ said[c] >= LineEnd(c)[k]
       /\ heard' = [heard EXCEPT ![c] = LineEnd(c)[k]]
       /\ message' = Bytes(c, Lines[c][k])
  /\ buf' = [buf EXCEPT ![c] = message']
  /\ UNCHANGED <<program, cst, typed, said, got, peer, news, backlog, out, dead,
                 client, turn, passes>>

\* Mutant: while(1) for while(!feof(readfp)).
EchoForever(c) ==
  /\ Serving(c) /\ passes = 0 /\ (Ended(c) \/ Failing(c))
  /\ buf' = [buf EXCEPT ![c] = message]
  /\ peer' = [peer EXCEPT ![c] = IF Failing(c) THEN "reset" ELSE @]
  /\ UNCHANGED <<program, cst, typed, said, got, news, backlog, heard, out, dead, seqVars>>

(* fgets returns NULL, at the end of file or by an error, and leaves message *)
(* as it was; it is put again.  Only the end of file ends the loop.          *)
EchoAgain(c) ==
  /\ Serving(c) /\ passes = 0 /\ (Ended(c) \/ Failing(c))
  /\ buf' = [buf EXCEPT ![c] = message]
  /\ \/ Ended(c) /\ passes' = 1 /\ UNCHANGED peer
     \/ Failing(c) /\ passes' = 0 /\ peer' = [peer EXCEPT ![c] = "reset"]
  /\ UNCHANGED <<program, cst, typed, said, got, news, backlog, heard, out, dead,
                 client, turn, message>>

echo_stdserv ==
  /\ program = "echo_stdserv"
  /\ \/ AcceptNext(FALSE)
     \/ \E c \in Clients : \/ EchoLine(c) \/ EchoAgain(c)
                           \/ Serving(c) /\ passes = 1 /\ Hangup(c)
     \/ Puts

InTurn == server \/ server2 \/ server3 \/ echo_stdserv

=============================================================================
