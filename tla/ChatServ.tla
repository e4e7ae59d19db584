------------------------------ MODULE ChatServ ------------------------------
(* The threaded servers, which of them runs is chosen at the start:          *)
(*   "final"    network_programming_final/multi_thread_calculator/chat_serv.c*)
(*   "week10"   its older copy week10/chat_serv.c                            *)
(*   "calc"     week10/calc_serv.c, and sema_serv.c, whose semaphore of one  *)
(*              serves as the mutex                                          *)
(* The main thread accepts connections, appends each descriptor to           *)
(* clnt_socks and creates a thread for it.  The thread reads what its client *)
(* says and writes it, or the value of the calculation that it is, to every  *)
(* descriptor of the array; at the end of file it takes its descriptor out   *)
(* of the array and closes it.  The array and its count are guarded by mutx. *)
(* Not guarded is the variable clnt_sock of main: a new thread is given its  *)
(* address and reads it when it first runs.                                  *)
EXTENDS Integers, Sequences, FiniteSets

LOCAL INSTANCE SequencesExt

CONSTANTS
  Clients,       \* runs of chat_clnt: one connection each
  MaxFd,         \* descriptors the process may open for connections
  MaxMsgs,       \* bound: lines that each client sends
  MaxLog,        \* bound: broadcasts
  Servers,       \* which of the servers
  Prompts,       \* TRUE: a new thread first runs before main's next accept returns
  Quiet          \* clients leave, and talk while one leaves, one at a time

ASSUME ChatAssumption ==
  /\ IsFiniteSet(Clients)
  /\ MaxFd \in Nat \ {0}
  /\ MaxMsgs \in [Clients -> Nat]
  /\ MaxLog \in Nat
  /\ Servers \subseteq {"final", "week10", "calc"}
  /\ Prompts \subseteq BOOLEAN
  /\ Quiet \in BOOLEAN

FDs      == 1 .. MaxFd
Threads  == 1 .. Cardinality(Clients)   \* the k-th connection creates thread k
NoClient == [client |-> "none"]
NoMsg    == [from |-> NoClient, first |-> 0, last |-> 0]   \* msg uninitialised
Free     == 0                                              \* mutx

ASSUME NoClientAssumption == NoClient \notin Clients

VARIABLES
  server, prompt,      \* which server, and how its threads are scheduled
  (* the clients and the kernel's side of their connections *)
  peer,        \* "new", "open", then how it ended: "fin", "error", "reset"
  said,        \* lines the client has sent; of a request, its two halves
  heard,       \* how many of them the server has read
  inbox,       \* the broadcasts written to its connection, by number
  backlog,     \* connections waiting for accept
  conn,        \* descriptor table of the server
  (* the server process *)
  alive,       \* FALSE once SIGPIPE has killed it
  clnt_socks,  \* clnt_socks[0 .. clnt_cnt-1]
  mutx,        \* who holds the mutex
  mpc, clnt_sock, created,        \* the main thread
  hpc, sock, msg, next,           \* the handler threads; next is i of send_msg
  (* history *)
  log,         \* every broadcast: what, and who was connected when it began
  number,      \* of a thread: which broadcast is its last
  joined       \* the clients main has put into clnt_socks

netVars    == <<peer, said, heard, inbox, backlog, conn>>
mainVars   == <<mpc, clnt_sock, created>>
threadVars == <<hpc, sock, msg, next, number>>
vars == <<server, prompt, netVars, alive, clnt_socks, mutx, mainVars, threadVars, log, joined>>

Init ==
  /\ server \in Servers /\ prompt \in Prompts
  /\ peer = [c \in Clients |-> "new"]
  /\ said = [c \in Clients |-> 0]
  /\ heard = [c \in Clients |-> 0]
  /\ inbox = [c \in Clients |-> << >>]
  /\ backlog = << >>
  /\ conn = [f \in FDs |-> NoClient]
  /\ alive = TRUE
  /\ clnt_socks = << >>
  /\ mutx = Free
  /\ mpc = "accept" /\ clnt_sock = 0 /\ created = 0
  /\ hpc = [t \in Threads |-> "none"]
  /\ sock = [t \in Threads |-> 0]
  /\ msg = [t \in Threads |-> NoMsg]
  /\ next = [t \in Threads |-> 0]
  /\ number = [t \in Threads |-> 0]
  /\ log = << >>
  /\ joined = {}

-----------------------------------------------------------------------------
(* The clients.  A client that ends with all it was sent read ends its       *)
(* connection with a FIN, otherwise with a RST: the server's next read fails *)
(* once before it reports the end of file.                                   *)
Listed(c) == \E k \in 1 .. Len(clnt_socks) : conn[clnt_socks[k]] = c
Gone(c)   == peer[c] \notin {"new", "open"}

NobodyTalks  == /\ \A c \in Clients : heard[c] = said[c]
                /\ \A t \in Threads : hpc[t] \notin {"lock", "send"}
NobodyLeaves == \A c \in Clients : Gone(c) => c \in joined /\ ~Listed(c)

Connect(c) ==
  /\ alive
  /\ peer[c] = "new"
  /\ peer' = [peer EXCEPT ![c] = "open"]
  /\ backlog' = Append(backlog, c)
  /\ UNCHANGED <<said, heard, inbox, conn, alive, clnt_socks, mutx, mainVars, threadVars,
                 log, joined>>

Say(c) ==
  /\ alive
  /\ peer[c] = "open"
  /\ said[c] < MaxMsgs[c]
  /\ Quiet => NobodyLeaves
  /\ said' = [said EXCEPT ![c] = @ + IF server = "calc" THEN 2 ELSE 1]
  /\ UNCHANGED <<peer, heard, inbox, backlog, conn, alive, clnt_socks, mutx, mainVars,
                 threadVars, log, joined>>

Leave(c) ==
  /\ alive
  /\ peer[c] = "open"
  /\ Quiet => NobodyTalks
  /\ \E how \in IF Quiet \/ inbox[c] = << >> THEN {"fin"} ELSE {"fin", "error"} :
        peer' = [peer EXCEPT ![c] = how]
  /\ UNCHANGED <<said, heard, inbox, backlog, conn, alive, clnt_socks, mutx, mainVars,
                 threadVars, log, joined>>

-----------------------------------------------------------------------------
(* The main thread.                                                          *)
Accept ==
  /\ alive
  /\ mpc = "accept"
  /\ backlog # << >>
  /\ prompt => \A t \in Threads : hpc[t] # "start"
  /\ \E f \in FDs :
        /\ conn[f] = NoClient
        /\ \A g \in FDs : g < f => conn[g] # NoClient
        /\ conn' = [conn EXCEPT ![f] = Head(backlog)]
        /\ clnt_sock' = f
  /\ backlog' = Tail(backlog)
  /\ mpc' = "register"
  /\ UNCHANGED <<peer, said, heard, inbox, alive, clnt_socks, mutx, created, threadVars,
                 log, joined>>

(* lock, clnt_socks[clnt_cnt++] = clnt_sock, unlock.                         *)
Register ==
  /\ alive
  /\ mpc = "register"
  /\ mutx = Free
  /\ clnt_socks' = Append(clnt_socks, clnt_sock)
  /\ joined' = joined \cup ({conn[clnt_sock]} \ {NoClient})
  /\ mpc' = "create"
  /\ UNCHANGED <<netVars, alive, mutx, clnt_sock, created, threadVars, log>>

(* pthread_create(.., &clnt_sock) and pthread_detach.                        *)
Create ==
  /\ alive
  /\ mpc = "create"
  /\ created' = created + 1
  /\ hpc' = [hpc EXCEPT ![created'] = "start"]
  /\ mpc' = "accept"
  /\ UNCHANGED <<netVars, alive, clnt_socks, mutx, clnt_sock, sock, msg, next, number, log, joined>>

Main == Accept \/ Register \/ Create

-----------------------------------------------------------------------------
(* A handler thread, handle_clnt.                                            *)
HandlerTo(t, from, to) ==
  /\ alive
  /\ hpc[t] = from
  /\ hpc' = [hpc EXCEPT ![t] = to]

(* The thread follows the pointer it was given: whatever main holds by now.  *)
Start(t) ==
  /\ HandlerTo(t, "start", "read")
  /\ sock' = [sock EXCEPT ![t] = clnt_sock]
  /\ UNCHANGED <<netVars, alive, clnt_socks, mutx, mainVars, msg, next, number, log, joined>>

(* read returns a positive count: some of the lines that have arrived.       *)
ReadLines(t) ==
  LET c == conn[sock[t]]
  IN /\ HandlerTo(t, "read", "lock")
     /\ server # "calc" /\ c # NoClient
     /\ \E k \in heard[c] + 1 .. said[c] :
           /\ msg' = [msg EXCEPT ![t] = [from |-> c, first |-> heard[c] + 1, last |-> k]]
           /\ heard' = [heard EXCEPT ![c] = k]
     /\ UNCHANGED <<peer, said, inbox, backlog, conn, alive, clnt_socks, mutx, mainVars,
                    sock, next, number, log, joined>>

(* readv into name and calcReq, together as long as a request: a whole one,  *)
(* the half of it that has arrived, or the halves of two.  The first half    *)
(* holds the name and all of the calculation, which is answered if it is     *)
(* where it should be; otherwise a calculation of no operands is (calcReq    *)
(* has been cleared), whose value is what the stack holds.                   *)
ReadRequest(t) ==
  LET c == conn[sock[t]]
  IN /\ HandlerTo(t, "read", "lock")
     /\ server = "calc" /\ c # NoClient
     /\ \E k \in heard[c] + 1 .. heard[c] + 2 :
           /\ k =< said[c]
           /\ heard' = [heard EXCEPT ![c] = k]
           /\ msg' = [msg EXCEPT ![t] = IF heard[c] % 2 = 0
                                       THEN [from |-> c, first |-> heard[c] + 1, last |-> k]
                                       ELSE NoMsg]
     /\ UNCHANGED <<peer, said, inbox, backlog, conn, alive, clnt_socks, mutx, mainVars,
                    sock, next, number, log, joined>>

\* Mutant: no memset(calcReq, 0, ..) after the answer.
ReadFailsAgain(t) ==
  LET c == conn[sock[t]]
  IN /\ HandlerTo(t, "read", "lock")
     /\ \/ c = NoClient /\ UNCHANGED peer
        \/ /\ c # NoClient
           /\ heard[c] = said[c]
           /\ peer[c] = "error"
           /\ peer' = [peer EXCEPT ![c] = "reset"]
     /\ UNCHANGED <<said, heard, inbox, backlog, conn, alive, clnt_socks, mutx, mainVars,
                    sock, msg, next, number, log, joined>>

(* read returns -1, which the loop takes for data: msg keeps what it held,   *)
(* calcReq, cleared after each answer, no operands.                          *)
ReadFails(t) ==
  LET c == conn[sock[t]]
  IN /\ HandlerTo(t, "read", "lock")
     /\ \/ c = NoClient /\ UNCHANGED peer               \* EBADF
        \/ /\ c # NoClient                              \* ECONNRESET
           /\ heard[c] = said[c]
           /\ peer[c] = "error"
           /\ peer' = [peer EXCEPT ![c] = "reset"]
     /\ msg' = [msg EXCEPT ![t] = IF server = "calc" THEN NoMsg ELSE @]
     /\ UNCHANGED <<said, heard, inbox, backlog, conn, alive, clnt_socks, mutx, mainVars,
                    sock, next, number, log, joined>>

\* Mutant: the connection is closed before it is taken out of the array.
ReadEndsCloses(t) ==
  LET c == conn[sock[t]]
  IN /\ HandlerTo(t, "read", "remove")
     /\ c # NoClient
     /\ heard[c] = said[c]
     /\ peer[c] \in {"fin", "reset"}
     /\ conn' = [conn EXCEPT ![sock[t]] = NoClient]
     /\ UNCHANGED <<peer, said, heard, inbox, backlog, alive, clnt_socks, mutx, mainVars,
                    sock, msg, next, number, log, joined>>

(* read returns 0.                                                           *)
ReadEnds(t) ==
  LET c == conn[sock[t]]
  IN /\ HandlerTo(t, "read", "remove")
     /\ c # NoClient
     /\ heard[c] = said[c]
     /\ peer[c] \in {"fin", "reset"}
     /\ UNCHANGED <<netVars, alive, clnt_socks, mutx, mainVars, sock, msg, next, number, log, joined>>

\* Mutant: send_msg without the mutex.
LockNot(t) ==
  /\ HandlerTo(t, "lock", "send")
  /\ Len(log) < MaxLog
  /\ next' = [next EXCEPT ![t] = 1]
  /\ number' = [number EXCEPT ![t] = Len(log) + 1]
  /\ log' = Append(log, [msg |-> msg[t],
                         members |-> {c \in joined : peer[c] = "open"}])
  /\ UNCHANGED <<netVars, alive, clnt_socks, mutx, mainVars, sock, msg, joined>>

(* send_msg: lock, and i = 0.                                                *)
Lock(t) ==
  /\ HandlerTo(t, "lock", "send")
  /\ mutx = Free
  /\ Len(log) < MaxLog
  /\ mutx' = t
  /\ next' = [next EXCEPT ![t] = 1]
  /\ number' = [number EXCEPT ![t] = Len(log) + 1]
  /\ log' = Append(log, [msg |-> msg[t],
                         members |-> {c \in joined : peer[c] = "open"}])
  /\ UNCHANGED <<netVars, alive, clnt_socks, mainVars, sock, msg, joined>>

(* One turn of the loop of send_msg: write(clnt_socks[i], ..).  What is      *)
(* written after the client's FIN is answered by a RST, sooner or later; a   *)
(* write after a RST that a read or a write has reported raises SIGPIPE,     *)
(* which nothing in the program handles.                                     *)
Write(t) ==
  LET c == conn[clnt_socks[next[t]]]
  IN /\ HandlerTo(t, "send", "send")
     /\ next[t] =< Len(clnt_socks)
     /\ next' = [next EXCEPT ![t] = @ + 1]
     /\ \/ /\ c = NoClient
           /\ UNCHANGED <<peer, inbox, alive>>
        \/ /\ c # NoClient
           /\ peer[c] = "open"
           /\ inbox' = [inbox EXCEPT ![c] = Append(@, number[t])]
           /\ UNCHANGED <<peer, alive>>
        \/ /\ c # NoClient
           /\ peer[c] \in {"fin", "error"}
           /\ \E p \in {"reset"} \cup ({peer[c]} \cap {"fin"}) :
                 peer' = [peer EXCEPT ![c] = p]
           /\ UNCHANGED <<inbox, alive>>
        \/ /\ c # NoClient
           /\ peer[c] = "reset"
           /\ alive' = FALSE
           /\ UNCHANGED <<peer, inbox>>
     /\ UNCHANGED <<said, heard, backlog, conn, clnt_socks, mutx, mainVars, sock, msg, number,
                    log, joined>>

\* Mutant: the loop ends one short.
UnlockEarly(t) ==
  /\ HandlerTo(t, "send", "read")
  /\ next[t] >= Len(clnt_socks)
  /\ mutx' = Free
  /\ UNCHANGED <<netVars, alive, clnt_socks, mainVars, sock, msg, next, number, log, joined>>

(* The loop is over: unlock and return to the read.                          *)
Unlock(t) ==
  /\ HandlerTo(t, "send", "read")
  /\ next[t] > Len(clnt_socks)
  /\ mutx' = Free
  /\ UNCHANGED <<netVars, alive, clnt_socks, mainVars, sock, msg, next, number, log, joined>>

\* Mutant: the gap is not closed, the last entry is lost.
CloseGapNot(s, k) == SubSeq(s, 1, Len(s) - 1)

(* The array without the entry at k, as the two versions of the inner loop   *)
(* leave it: the older one keeps the entry itself and loses the next one.    *)
CloseGap(s, k) == IF server # "final" /\ k < Len(s) THEN RemoveAt(s, k + 1)
                                                    ELSE RemoveAt(s, k)

\* Mutant: clnt_cnt-- only when the descriptor was found.
UnlistFound(t) ==
  LET found == {k \in 1 .. Len(clnt_socks) : clnt_socks[k] = sock[t]}
  IN /\ HandlerTo(t, "remove", "close")
     /\ mutx = Free
     /\ \/ \E k \in found : /\ \A j \in found : k =< j
                            /\ clnt_socks' = CloseGap(clnt_socks, k)
        \/ found = {} /\ UNCHANGED clnt_socks
     /\ UNCHANGED <<netVars, alive, mutx, mainVars, sock, msg, next, number, log, joined>>

\* Mutant: the thread returns without the close.
UnlistLeaks(t) ==
  /\ HandlerTo(t, "remove", "done")
  /\ mutx = Free
  /\ clnt_socks' = SelectSeq(clnt_socks, LAMBDA f : f # sock[t])
  /\ UNCHANGED <<netVars, alive, mutx, mainVars, sock, msg, next, number, log, joined>>

(* lock; look for the descriptor and close the gap; clnt_cnt-- whether it    *)
(* was found or not; unlock.                                                 *)
Unlist(t) ==
  LET found == {k \in 1 .. Len(clnt_socks) : clnt_socks[k] = sock[t]}
  IN /\ HandlerTo(t, "remove", "close")
     /\ mutx = Free
     /\ \/ \E k \in found : /\ \A j \in found : k =< j
                            /\ clnt_socks' = CloseGap(clnt_socks, k)
        \/ found = {} /\ clnt_socks' = SubSeq(clnt_socks, 1, Len(clnt_socks) - 1)
     /\ UNCHANGED <<netVars, alive, mutx, mainVars, sock, msg, next, number, log, joined>>

Close(t) ==
  /\ HandlerTo(t, "close", "done")
  /\ conn' = [conn EXCEPT ![sock[t]] = NoClient]
  /\ UNCHANGED <<peer, said, heard, inbox, backlog, alive, clnt_socks, mutx, mainVars,
                 sock, msg, next, number, log, joined>>

Handler(t) == \/ Start(t) \/ ReadLines(t) \/ ReadRequest(t) \/ ReadFails(t) \/ ReadEnds(t)
              \/ Lock(t) \/ Write(t) \/ Unlock(t) \/ Unlist(t) \/ Close(t)

-----------------------------------------------------------------------------
Client == \E c \in Clients : Connect(c) \/ Say(c) \/ Leave(c)

(* Nothing happens any more: the server is dead, everybody has left, or the  *)
(* bound on the broadcasts is reached.                                       *)
Over == /\ \/ ~alive
           \/ Len(log) = MaxLog
           \/ \A t \in Threads : hpc[t] = "done"
        /\ UNCHANGED vars

Next == \/ (Client \/ Main \/ (\E t \in Threads : Handler(t))) /\ UNCHANGED <<server, prompt>>
        \/ Over

Spec == Init /\ [][Next]_vars

(* The threads are scheduled fairly, and the mutex is not held forever: that *)
(* a thread gets it needs no more, the broadcasts being finitely many.  The  *)
(* clients may do as they like.                                              *)
FairSpec == /\ Spec
            /\ WF_vars(Main /\ UNCHANGED <<server, prompt>>)
            /\ \A t \in Threads : WF_vars(Handler(t) /\ UNCHANGED <<server, prompt>>)

-----------------------------------------------------------------------------
(* clnt_cnt goes up once per connection and down once per handler, found or  *)
(* not, whatever descriptor the handler works on: it is always the number of *)
(* connections registered whose handler has not passed its removal.          *)
CountConserved ==
  Len(clnt_socks) = created + (IF mpc = "create" THEN 1 ELSE 0)
                    - Cardinality({t \in Threads : hpc[t] \in {"close", "done"}})

(* Total order.  Whatever threads race to say something, and whichever       *)
(* thread serves which descriptor, every client is written the broadcasts in *)
(* one and the same order.                                                   *)
TotalOrder ==
  \A c \in Clients : \A j, k \in 1 .. Len(inbox[c]) : j < k => inbox[c][j] =< inbox[c][k]

(* `send to all`: a broadcast that is over has reached every client that was *)
(* registered and connected when it began, and still is.                     *)
InProgress(b) == alive /\ \E t \in Threads : hpc[t] = "send" /\ number[t] = b

SendToAll ==
  \A b \in 1 .. Len(log) : ~InProgress(b) =>
    \A c \in log[b].members :
      peer[c] = "open" => \E k \in 1 .. Len(inbox[c]) : inbox[c][k] = b

(* `remove disconnected client`: the critical section at the end of a        *)
(* handler takes its descriptor, and no other, out of clnt_socks.            *)
RemoveIsExact ==
  [][\A t \in Threads : hpc[t] = "remove" /\ hpc'[t] = "close" =>
        /\ sock[t] \in ToSet(clnt_socks)
        /\ ToSet(clnt_socks') = ToSet(clnt_socks) \ {sock[t]}]_vars

(* Threads that start in time take out no other, but for the older loop that *)
(* closes the gap.                                                           *)
RemovesOwn ==
  [][\A t \in Threads :
        prompt /\ server = "final" /\ hpc[t] = "remove" /\ hpc'[t] = "close" =>
          /\ sock[t] \in ToSet(clnt_socks)
          /\ ToSet(clnt_socks') = ToSet(clnt_socks) \ {sock[t]}]_vars

(* No two of them serve one descriptor, and none is listed twice.            *)
OneHandlerEach ==
  prompt =>
    /\ server = "final" =>
         \A j, k \in 1 .. Len(clnt_socks) : j # k => clnt_socks[j] # clnt_socks[k]
    /\ \A t, u \in Threads :
         /\ t # u
         /\ hpc[t] \in {"read", "lock", "send", "remove", "close"}
         /\ hpc[u] \in {"read", "lock", "send", "remove", "close"}
         => sock[t] # sock[u]

(* A calculation is answered at most once: neither a read that fails nor the *)
(* rest of a request read in two makes the server answer it again.           *)
AnsweredOnce ==
  server = "calc" =>
    \A j, k \in 1 .. Len(log) :
      j < k /\ log[j].msg # NoMsg => log[j].msg # log[k].msg

(* Everything said is read, and a client that leaves is taken out of the     *)
(* array and its descriptor closed.                                          *)
Attended ==
 /\ \A c \in Clients : (said[c] > heard[c]) ~> (said[c] = heard[c])
 /\ \A c \in Clients : Gone(c) ~> ~(Listed(c) \/ \E f \in FDs : conn[f] = c)

=============================================================================
