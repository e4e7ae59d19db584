----------------------------- MODULE EchoReady -----------------------------
(* The echo servers of one process that ask the kernel what is ready:        *)
(*   week8/echo_selectserv.c     select, a read of 100 bytes                 *)
(*   week10/echo_epollserv.c     epoll, level-triggered, 100 bytes           *)
(*   week10/echo_EPLTserv.c      the same with 4 bytes: many events a line   *)
(*   week10/echo_EPETserv.c      edge-triggered, non-blocking, 4 bytes       *)
(* Each turn of their loops takes a list of descriptors and works through it *)
(* while the clients go on.  echo_selectserv declares the signal handler it  *)
(* installs without defining it, and its logger child reads a pipe that      *)
(* nobody writes to: neither is part of the echo.                            *)
EXTENDS EchoNet

LOCAL INSTANCE SequencesExt

CONSTANTS
  MaxFd,         \* descriptors for connections
  BufSize        \* [server -> the bytes of one read], 100 or 4 in the programs

Serv     == 0                 \* serv_sock, below the descriptors of clients
FDs      == 1 .. MaxFd
NoClient == [client |-> "none"]

ASSUME EchoReadyAssumption == MaxFd \in Nat \ {0} /\ NoClient \notin Clients

VARIABLES
  conn,          \* the descriptor table
  ready          \* what is left of the list the kernel has returned

readyVars == <<conn, ready>>

ReadyInit == conn = [f \in FDs |-> NoClient] /\ ready = << >>

Open == {f \in FDs : conn[f] # NoClient}

Requests == IF backlog = << >> THEN {} ELSE {Serv}

\* Mutant: select(fd_max, ..) looks at one descriptor too few.
LevelShort == Requests \cup {f \in Open : Readable(conn[f]) /\ f < MaxFd}

(* What select and epoll_wait report, by level and by edge.  The listening   *)
(* socket is level-triggered in every program.                               *)
Level == Requests \cup {f \in Open : Readable(conn[f])}
Edge  == Requests \cup {f \in Open : conn[f] \in news}

(* select's descriptors are looked at in ascending order, epoll's events     *)
(* come in any.                                                              *)
AnyOrder(s)  == SetToSeqs(s)
Ascending(s) == {q \in AnyOrder(s) : \A j, k \in 1 .. Len(q) : j < k => q[j] < q[k]}

-----------------------------------------------------------------------------
Report(fds, lists) ==
  /\ dead = {} /\ Idle
  /\ ready = << >> /\ fds # {}
  /\ ready' \in lists
  /\ news' = news \ {conn[f] : f \in fds \ {Serv}}
  /\ UNCHANGED <<program, cst, typed, said, got, peer, backlog, heard, buf, out, dead, conn>>

Handling(f) == dead = {} /\ Idle /\ ready # << >> /\ Head(ready) = f

Accept ==
  /\ Handling(Serv)
  /\ \E f \in FDs \ Open :
        /\ \A g \in FDs \ Open : f =< g
        /\ TakeBacklog
        /\ conn' = [conn EXCEPT ![f] = Head(backlog)]
  /\ ready' = Tail(ready)

Receive(f) ==
  /\ Handling(f) /\ Read(conn[f], BufSize[program])
  /\ UNCHANGED conn

Fail(f) ==
  /\ Handling(f) /\ ReadFails(conn[f])
  /\ UNCHANGED conn

\* Mutant: the descriptor leaves the set but is not closed.
EndKeeps(f) ==
  /\ Handling(f) /\ Ended(conn[f])
  /\ conn' = [conn EXCEPT ![f] = NoClient]
  /\ ready' = Tail(ready)
  /\ UNCHANGED netVars

(* read returns 0: the descriptor leaves the set and is closed.              *)
End(f) ==
  /\ Handling(f) /\ Ended(conn[f])
  /\ Close(conn[f])
  /\ conn' = [conn EXCEPT ![f] = NoClient]
  /\ ready' = Tail(ready)

(* By level: one read, and what is left is reported again.                   *)
Once(f) == (Receive(f) \/ Fail(f)) /\ ready' = Tail(ready)

\* Mutant: a single read, as by level.
AgainOnce(f) == Once(f)

(* By edge: reads to the end, or until there is nothing to read.             *)
Again(f) ==
  \/ (Receive(f) \/ Fail(f)) /\ UNCHANGED ready
  \/ /\ Handling(f) /\ ~Readable(conn[f])        \* EAGAIN
     /\ ready' = Tail(ready)
     /\ UNCHANGED <<netVars, conn>>

Echo(blocking) == (\E c \in Clients : Write(c, blocking, Clients)) /\ UNCHANGED readyVars

LevelLoop(lists) ==
  \/ Report(Level, lists)
  \/ Accept
  \/ \E f \in Open : Once(f) \/ End(f)
  \/ Echo(TRUE)

echo_selectserv == program = "echo_selectserv" /\ LevelLoop(Ascending(Level))
echo_epollserv  == program = "echo_epollserv" /\ LevelLoop(AnyOrder(Level))
echo_EPLTserv   == program = "echo_EPLTserv" /\ LevelLoop(AnyOrder(Level))
echo_EPETserv ==
  /\ program = "echo_EPETserv"
  /\ \/ Report(Edge, AnyOrder(Edge))
     \/ Accept
     \/ \E f \in Open : Again(f) \/ End(f)
     \/ Echo(FALSE)

ByReadiness == echo_selectserv \/ echo_epollserv \/ echo_EPLTserv \/ echo_EPETserv

-----------------------------------------------------------------------------
Due(f) == f \in ToSet(ready) \/ conn[f] \in news

(* A server of one process must not read where there is nothing to read, and *)
(* must not overlook what there is.  By level it reads from blocking         *)
(* sockets: whatever is left of its list is still ready, although clients,   *)
(* and the earlier turns of the same loop, have changed the connections      *)
(* since.  By edge what is readable is in the list or will be told.          *)
NeverBlocksNorForgets ==
  dead = {} /\ Idle =>
    IF program = "echo_EPETserv"
      THEN \A f \in Open : Readable(conn[f]) => Due(f)
      ELSE \A f \in ToSet(ready) : IF f = Serv THEN backlog # << >>
                                               ELSE f \in Open /\ Readable(conn[f])

=============================================================================
