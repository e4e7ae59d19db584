------------------------------ MODULE EchoNet ------------------------------
(* What the echo servers of the repository have in common: their clients,    *)
(* week8/echo_client.c (with copies in week5, week7 and week10),             *)
(* week10/echo_stdclnt.c, week7/echo_mpclient.c, week3/client.c,             *)
(* week2/client.c and week2/client3.c, and the kernel's side of their        *)
(* connections.  Which server they talk to is in the variable program.       *)
(*                                                                           *)
(* A client's bytes are numbered: the k-th byte it sends is the number k.    *)
EXTENDS Integers, Sequences, FiniteSets

CONSTANTS
  Clients,       \* client processes: one connection each
  Split,         \* those that run echo_mpclient, the others run the server's own
  Lines,         \* [Clients -> the lengths of the lines its user may type]
  Window,        \* bytes a connection holds between the server's write and the client's read
  Inbox          \* [server -> the bytes it holds the other way, readfp's buffer included]

ASSUME EchoNetAssumption ==
  /\ Split \subseteq Clients
  /\ \A c \in Clients : Lines[c] \in Seq(Nat \ {0})
  /\ Window \in Nat \ {0}

VARIABLES
  program,       \* the server: it never changes
  cst,           \* "new", "typing", "writing" a line, "waiting" for an echo, "reading", "gone"
  typed, said,   \* lines that were typed, bytes that the connection took of them
  got,           \* bytes it has read
  peer,          \* its connection as the server's kernel sees it
  news,          \* what arrived, or ended, since epoll_wait last told
  backlog,       \* connections waiting for accept
  heard,         \* bytes the server has read
  buf,           \* bytes read, or otherwise in hand, that are yet to be written
  out,           \* what it has written: a sequence of byte numbers
  dead           \* the clients whose serving process SIGPIPE has killed

netVars == <<program, cst, typed, said, got, peer, news, backlog, heard, buf, out, dead>>

(* "open"; "half": the client has shut its direction down; "fin", "error":   *)
(* it has closed, with everything read or with a RST not yet reported;       *)
(* "reset": no write can succeed any more; "closed": the server has closed.  *)
PeerStates == {"new", "open", "half", "fin", "error", "reset", "closed"}

NetInit ==
  /\ cst = [c \in Clients |-> "new"]
  /\ typed = [c \in Clients |-> 0] /\ said = [c \in Clients |-> 0]
  /\ got = [c \in Clients |-> 0]
  /\ peer = [c \in Clients |-> "new"]
  /\ news = {} /\ backlog = << >>
  /\ heard = [c \in Clients |-> 0]
  /\ buf = [c \in Clients |-> << >>] /\ out = [c \in Clients |-> << >>]
  /\ dead = {}

(* The edge-triggered server alone is told of arrivals.                      *)
Told(c) == IF program = "echo_EPETserv" THEN news \cup {c} ELSE news

Stays(c) == cst[c] \in {"typing", "writing", "waiting", "reading"}

(* Where the lines of a client end.                                          *)
LineEnd(c) ==
  LET end[k \in 0 .. Len(Lines[c])] == IF k = 0 THEN 0 ELSE end[k-1] + Lines[c][k]
  IN end

(* What the connection takes of a line now: it may be full.                  *)
Fits(c) == LET room == Inbox[program] - (said[c] - heard[c])
               rest == LineEnd(c)[typed[c]] - said[c]
           IN IF rest < room THEN rest ELSE room

-----------------------------------------------------------------------------
(* The clients.                                                              *)
Connect(c) ==
  /\ cst[c] = "new" /\ c \notin dead
  /\ cst' = [cst EXCEPT ![c] = "typing"]
  /\ peer' = [peer EXCEPT ![c] = "open"]
  /\ backlog' = Append(backlog, c)
  /\ UNCHANGED <<program, typed, said, got, news, heard, buf, out, dead>>

(* A line is typed, and its write begins.                                    *)
Type(c) ==
  /\ cst[c] = "typing" /\ typed[c] < Len(Lines[c]) /\ peer[c] = "open"
  /\ typed' = [typed EXCEPT ![c] = @ + 1]
  /\ cst' = [cst EXCEPT ![c] = "writing"]
  /\ UNCHANGED <<program, said, got, peer, news, backlog, heard, buf, out, dead>>

(* The write goes on as far as the connection has room, and blocks until     *)
(* there is more.  When it has ended echo_client reads, and so does client3  *)
(* after its three writes, which are one line here; the writing process of   *)
(* echo_mpclient waits for nothing.                                          *)
Send(c) ==
  /\ cst[c] = "writing" /\ peer[c] = "open" /\ Fits(c) > 0
  /\ said' = [said EXCEPT ![c] = @ + Fits(c)]
  /\ cst' = [cst EXCEPT ![c] = IF said'[c] < LineEnd(c)[typed[c]] THEN "writing"
                               ELSE IF c \in Split THEN "typing" ELSE "waiting"]
  /\ news' = Told(c)
  /\ UNCHANGED <<program, typed, got, peer, backlog, heard, buf, out, dead>>

Heard(c, state) ==
  /\ got[c] < Len(out[c])
  /\ got' = [got EXCEPT ![c] = Len(out[c])]
  /\ cst' = [cst EXCEPT ![c] = state]
  /\ UNCHANGED <<program, typed, said, peer, news, backlog, heard, buf, out, dead>>

(* One read, which need not find the whole echo; fgets of echo_stdclnt reads *)
(* on to the end of the line; echo_mpclient reads all the time.              *)
HearSome(c)   == cst[c] = "waiting" /\ Heard(c, "typing")
HearLine(c)   == cst[c] = "waiting" /\ Heard(c, IF got'[c] < said[c] THEN "waiting" ELSE "typing")
HearAlways(c) == Stays(c) /\ Heard(c, cst[c])

(* The user types q, or the program comes to its end.  Closing a socket that *)
(* still holds data sends a RST; echo_mpclient shuts its direction down and  *)
(* goes on reading.                                                          *)
Quit(c) ==
  /\ cst[c] = "typing" /\ peer[c] = "open"
  /\ \/ /\ c \in Split
        /\ cst' = [cst EXCEPT ![c] = "reading"]
        /\ peer' = [peer EXCEPT ![c] = "half"]
     \/ /\ c \notin Split
        /\ cst' = [cst EXCEPT ![c] = "gone"]
        /\ peer' = [peer EXCEPT ![c] = IF got[c] < Len(out[c]) THEN "error" ELSE "fin"]
  /\ news' = Told(c)
  /\ UNCHANGED <<program, typed, said, got, backlog, heard, buf, out, dead>>

(* The reading process of echo_mpclient meets the end of file.               *)
Leave(c) ==
  /\ cst[c] = "reading" /\ peer[c] = "closed" /\ got[c] = Len(out[c])
  /\ cst' = [cst EXCEPT ![c] = "gone"]
  /\ UNCHANGED <<program, typed, said, got, peer, news, backlog, heard, buf, out, dead>>

echo_client(c) ==
  /\ c \notin Split /\ program \notin {"echo_stdserv", "server", "server2", "server3"}
  /\ Connect(c) \/ Type(c) \/ Send(c) \/ HearSome(c) \/ Quit(c)

echo_stdclnt(c) ==
  /\ c \notin Split /\ program = "echo_stdserv"
  /\ Connect(c) \/ Type(c) \/ Send(c) \/ HearLine(c) \/ Quit(c)

client_week3(c) ==
  /\ c \notin Split /\ program = "server"
  /\ Connect(c) \/ Type(c) \/ Send(c) \/ HearSome(c) \/ Quit(c)

client_week2(c) ==
  /\ c \notin Split /\ program = "server2"
  /\ Connect(c) \/ (typed[c] = 0 /\ Type(c)) \/ Send(c) \/ HearSome(c) \/ (typed[c] = 1 /\ Quit(c))

client3(c) ==
  /\ c \notin Split /\ program = "server3"
  /\ Connect(c) \/ (typed[c] = 0 /\ Type(c)) \/ Send(c) \/ HearSome(c) \/ (typed[c] = 1 /\ Quit(c))

echo_mpclient(c) ==
  /\ c \in Split
  /\ Connect(c) \/ Type(c) \/ Send(c) \/ HearAlways(c) \/ Quit(c) \/ Leave(c)

Client(c) == \/ echo_client(c) \/ echo_stdclnt(c) \/ client_week3(c) \/ client_week2(c)
             \/ client3(c) \/ echo_mpclient(c)

(* The steps of a client that no user decides on.                            *)
Reading(c) == Client(c) /\ got'[c] # got[c]
Writing(c) == Client(c) /\ said'[c] # said[c]

-----------------------------------------------------------------------------
(* What a server's read(fd, .., size) on the connection of c may return.     *)
HasData(c)  == heard[c] < said[c]
Ended(c)    == ~HasData(c) /\ peer[c] \in {"half", "fin", "reset"}
Failing(c)  == ~HasData(c) /\ peer[c] = "error"
Readable(c) == HasData(c) \/ Ended(c) \/ Failing(c)

Bytes(c, n) == [k \in 1 .. n |-> heard[c] + k]
Pieces(c, size) == 1 .. (IF said[c] - heard[c] < size THEN said[c] - heard[c] ELSE size)

Idle == \A c \in Clients : buf[c] = << >>

(* write of what is in buf: as much as the window takes now, all the rest    *)
(* when there is room again; a socket that does not block loses the rest.    *)
(* Writing after the client's FIN is answered, sooner or later, by a RST; a  *)
(* RST not yet reported makes the write fail; after that a write raises      *)
(* SIGPIPE, which kills the process that serves the clients victims.         *)
Write(c, blocking, victims) ==
  LET room == Window - (Len(out[c]) - got[c])
      m    == IF Len(buf[c]) < room THEN Len(buf[c]) ELSE room
  IN /\ buf[c] # << >> /\ c \notin dead
     /\ \/ /\ peer[c] \in {"open", "half"}
           /\ m > 0 \/ ~blocking
           /\ out' = [out EXCEPT ![c] = @ \o SubSeq(buf[c], 1, m)]
           /\ buf' = [buf EXCEPT ![c] =
                        IF blocking THEN SubSeq(@, m + 1, Len(@)) ELSE << >>]
           /\ UNCHANGED <<peer, dead>>
        \/ /\ peer[c] \in {"fin", "error"}
           /\ \E p \in {"reset"} \cup ({peer[c]} \cap {"fin"}) : peer' = [peer EXCEPT ![c] = p]
           /\ buf' = [buf EXCEPT ![c] = << >>]
           /\ UNCHANGED <<out, dead>>
        \/ /\ peer[c] = "reset"
           /\ dead' = dead \cup victims
           /\ buf' = [buf EXCEPT ![c] = << >>]
           /\ UNCHANGED <<out, peer>>
     /\ UNCHANGED <<program, cst, typed, said, got, news, backlog, heard>>

(* read returns data.                                                        *)
Read(c, size) ==
  /\ HasData(c) /\ c \notin dead
  /\ \E n \in Pieces(c, size) :
       /\ heard' = [heard EXCEPT ![c] = @ + n]
       /\ buf' = [buf EXCEPT ![c] = Bytes(c, n)]
  /\ UNCHANGED <<program, cst, typed, said, got, peer, news, backlog, out, dead>>

(* read returns -1 (ECONNRESET); the write of -1 bytes that follows fails    *)
(* with EFAULT and changes nothing.                                          *)
ReadFails(c) ==
  /\ Failing(c) /\ c \notin dead
  /\ peer' = [peer EXCEPT ![c] = "reset"]
  /\ UNCHANGED <<program, cst, typed, said, got, news, backlog, heard, buf, out, dead>>

Close(c) ==
  /\ peer' = [peer EXCEPT ![c] = "closed"]
  /\ UNCHANGED <<program, cst, typed, said, got, news, backlog, heard, buf, out, dead>>

TakeBacklog ==
  /\ backlog # << >>
  /\ backlog' = Tail(backlog)
  /\ UNCHANGED <<program, cst, typed, said, got, peer, news, heard, buf, out, dead>>

=============================================================================
