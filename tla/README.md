# Verification of the network programming repository

The repository is a course's worth of network programs in C: servers and clients over
TCP, UDP and raw ICMP, a multiplexing server of two processes and two pipes, threaded chat
and calculator servers, and small programs that show one system call each. This directory
holds TLA+ models of the programs that have state worth getting wrong, the TLC
configurations that check them, and TLAPS proofs of the most important properties.

All paths below are relative to `src/`.

## 1. Inventory

### Multiplexing calculator — `network_programming_final/multiplexing_calculator`

* **State.** Parent (`multiplex_serv`): descriptor set `reads`, its copy, `fd_max`, and the
  buffers `mode`, `id`, `calc`, `load` that live across requests. Child (`store_loop`):
  `dataArray`, `cnt`, its own `mode`, `id`. Two pipes `fdsA` (commands) and `fdsB` (answers).
* **Operations.** Parent: `select`, `accept`, `readv` of one request, writing the command
  to the child in two or three writes, calculating, answering, `close`, `wait` on quit. Child:
  read a mode, then an id, then a text (save) or look up and answer (load), or exit (quit).
  Client (`op_mpclnt.c`): connect, one `writev`, one `read`.
* **Hard.** Byte streams without boundaries between two processes that run at their own pace; a
  save that is acknowledged before it is stored; the result of `readv` ignored, so that a
  connection closed without a request executes the *previous* request again; each process waiting
  for the other; a quit behind unfinished work.
* **Correct when** the child is always at the start of a command when it reads a mode, no
  acknowledged save is lost or invisible to a later load, each load gets its own answer, garbage
  is never stored, and everything is answered.

### Threaded servers — `network_programming_final/multi_thread_calculator`, `week10/chat_serv.c`, `calc_serv.c`, `sema_serv.c`

* **State.** `clnt_socks[]`, `clnt_cnt`, the mutex `mutx`; `main`'s local `clnt_sock`, whose
  *address* every thread is given; per handler its descriptor, `str_len` and `msg`.
* **Operations.** accept, append to the array, create a handler; read a line (in the calculators, a
  request by `readv`, of which the value is worked out), broadcast it under
  the mutex; at end of file remove the descriptor and close it.
* **Hard.** The race between a new thread reading `*arg` and the next `accept`; descriptors
  reused by the kernel while another thread still thinks they are its own; writes to clients that
  left (SIGPIPE); removal while others broadcast; `read` returning -1.
* **Correct when** the array holds exactly the connected clients, each has one handler, the
  removal takes out the right entry, broadcasts reach everybody, whole, and in one order, and no
  calculation is answered twice.

### Semaphore hand-off — `week10/semaphore.c`

Two threads pass one integer through `num`; two semaphores make them alternate. Correct when the
sum is that of the numbers typed and both threads end.

### The calculator function — `calculate`, `calc`

Copied into seven programs: operands folded left to right with `+ - *` in C `int`s, no precedence.

### TCP calculator — `network_programming_final/tcp_calculator`

* **State.** `opCount`, `operand[]`, `operator[]` on the server's stack, never cleared between clients;
  the backlog of the listening socket. The client has its buffer.
* **Operations.** Server: accept one client, read the count, each operand, each operator, write the
  result, close; a count that is not positive ends it. Client: connect, one write, one read.
* **Hard.** Results of `read` are ignored, so that short reads and end of file leave old bytes; a
  silent client holds up the rest; a server that ends resets whoever waits.
* **Correct when** each answer is the value of its request, no read waits for bytes that will not
  come, and only a client that says so ends the server.

### UDP calculator — `network_programming_final/udp_calculator`, `week4`

* **State.** `operand[]`, `opResult` and `cliaddr.sin_addr` of the server outlive a turn. The client
  has its socket's port.
* **Operations.** Server: receive, calculate, send. Client: send, receive (not for a negative count).
* **Hard.** Loss, duplication and reordering without numbers or timeouts; ports that are used again;
  the address length `sizeof(len)`, which cuts the IP address off; old operands and results for the
  counts zero and below.
* **Correct when** no answer reaches a client it does not belong to.

### ICMP programs — `network_programming_final/icmp_calculator`, `week11`

* **State.** Per copy of the program the parent's `cnt` and the child's socket.
* **Operations.** Parent: send a numbered request; in `icmp_calc.c`, wait for the child once a count
  asks for nothing. Child: answer a request, print an answer; in the drafts, end at an answer of -1.
  `myping.c`: send an echo request, display what carries its pid.
* **Hard.** Raw sockets hear everything, from and for every copy on the host; the answer's id is the
  responder's; 16-bit numbers; the checksum's carries.
* **Correct when** what is printed answers a request from this host, can be told from other
  answers, answers are not answered, and the user who has finished is not left waiting.

### Echo servers and their clients — `week2`, `week3`, `week5`, `week7`, `week8`, `week10`

* **State.** By readiness (`echo_selectserv.c`, `echo_epollserv.c`, `echo_EPLTserv.c`,
  `echo_EPETserv.c`): the descriptors watched, what is left of the list the kernel returned, kernel
  buffers. Forking (`echo_mpserv.c`, `echo_storeserv.c`, `na_server.c`): children, a logger behind a
  pipe, a pending SIGCHLD. One client after the other (`server.c` of weeks 2 and 3, `server3.c`,
  `echo_stdserv.c`): a buffer that outlives a turn of the loop. Clients: what they said and got.
* **Operations.** accept, read, write, close; fork, waitpid, the logger's reads; a client's line,
  its one `read` (which need not find the whole echo), its leaving, by `shutdown` in `echo_mpclient.c`.
* **Hard.** An edge-triggered descriptor is reported once; a blocking write to a client that does not read, perhaps
  because its own write is blocked, holds up everybody;
  SIGPIPE; a pipe fills when the logger has read its ten messages; a buffer that is not cleared and
  is sent to its first NUL, which need not be in it; `feof`, which is true only after a read has failed.
* **Correct when** a client is sent what it said (and, where the buffers do not allow that, it is known when
  it gets other bytes), everything said by one who stays is echoed, and every connection is closed, unless
  a client that does not read holds the server up.

### Programs of threads and processes — `week7`, `week10`

| component | state | hard behaviour |
|---|---|---|
| mutex and counters (`mutex.c`, `thread3.c`, `thread4.c`) | one shared integer | lost updates |
| processes, signals, pipes, threads (`remove_zombie.c`, `wait.c`, `waitpid.c`, `zombie.c`, `signal.c`, `sigaction.c`, `pipe1-3.c`, `thread1-2.c`) | process states, the clock, pending signals, pipes | SIGCHLD coalesces, signals cut sleeps short, a process can read its own message |
| half-close (`sep_serv.c`, `sep_serv2.c`, `sep_clnt.c`) | streams over one descriptor or two | who sees the end of file |
| forking calculator (`assign_server.c`) | children, the logger's pipe | children end in any order; which exit of the loop ends whom |

### Not modelled

| component | why |
|---|---|
| the multiplexing calculator's drafts (`week7/op_mpserv.c`, copied in `week7/multiplexing_calculator`) | the final program but for `strlen` in place of fixed sizes in two writes to the pipes; a mutant of `ReqBlock` shows what that does |
| news by multicast and broadcast (`week9`) | a file sent line by line; the only state is the file position |
| UDP exchanges of `week4` (`server.c`, `client.c`, `test_*.c`) | one datagram each way, nothing kept |
| socket options, names, urgent and peeked data, `readv`, `writev`, `dup`, copies | single system calls: pure I/O |
| `fork.c` | two copies of a variable |
| Windows variants | the same programs for another platform |
| what the clients of the multiplexing and threaded servers print | nothing depends on it |

## 2. Modules

| module | models | composed of |
|---|---|---|
| `Calc` | `calculate`: the left-to-right fold in two's complement of `WordBits` bits | |
| `MpData` | requests, records, replies; the look-up loop of `store_loop` | `Calc` |
| `MpStore` | abstract: one store, atomic save, acknowledgement, load | `MpData` |
| `MpServ` | parent, child, pipes, clients of the multiplexing calculator | `MpData`, refines `MpStore` |
| `ChatServ` | chat and threaded calculator servers, their threads, clients and the kernel's side of the sockets | |
| `Example` | which of the small programs runs | |
| `Semaphore` | `semaphore.c` | `Example` |
| `Counter` | `mutex.c`, `thread3.c`, `thread4.c` | `Example` |
| `Processes` | the programs of processes, signals, pipes and thread creation | `Example` |
| `HalfClose` | `sep_serv.c`, `sep_serv2.c`, `sep_clnt.c` | `Example` |
| `AssignServ` | `assign_server.c` | `Example` |
| `Examples` | one of them, chosen at the start | the five above |
| `CalcFrame` | the bytes of a request: `char` count, little-endian operands, operators | `Calc` |
| `CalcClients` | what the calculators over TCP and UDP have in common: clients that ask once, variables of `main` that outlive a request | `CalcFrame` |
| `TcpCalc` | `tcp_server.c`, `tcp_client.c` | `CalcClients` |
| `UdpCalc` | the UDP servers of the final project and of week4, their client, the datagrams between them | `CalcClients` |
| `Checksum` | `checksum` of `icmp_calc_final.c`, copied in `myping.c` | `CalcFrame` |
| `IcmpCalc` | `icmp_calc_final.c`: copies on several hosts, raw sockets | `CalcFrame`, `Checksum` |
| `IcmpDrafts` | `icmp_calc.c`, `calc_ping_server.c`, `calc_ping_client.c`, `myping.c` beside it | `IcmpCalc` |
| `EchoNet` | the echo clients and the kernel's side of their connections | |
| `EchoReady` | the servers by select, level- and edge-triggered epoll | `EchoNet` |
| `EchoFork` | the servers that fork, and the logger | `EchoNet` |
| `EchoSeq` | the servers of one client at a time | `EchoNet` |
| `EchoServers` | one of the echo servers, chosen at the start | the three above |
| `SequenceLemmas` | lemmas about sequences, loops and numbers in bytes, for the proofs | |
| `MpServProofs` | proofs about the multiplexing calculator (section 5) | `MpServ`, `SequenceLemmas` |
| `ChatServProofs` | proofs about the chat and threaded calculator servers | `ChatServ`, `SequenceLemmas` |
| `ExamplesProofs` | proofs about the semaphores, the counters, `assign_server` and the programs of processes | `Examples`, `SequenceLemmas` |
| `EchoProofs` | proofs about the echo servers | `EchoServers`, `SequenceLemmas` |
| `CalcProofs` | what the functions on bytes and expressions compute | `CalcFrame`, `SequenceLemmas` |
| `CalcNetProofs` | proofs about the TCP and the UDP calculators | `TcpCalc`, `UdpCalc`, `CalcProofs` |
| `IcmpCalcProofs` | proofs about the ICMP programs and the checksum | `IcmpDrafts`, `CalcProofs` |
| `MC*` | constants for TLC | |

### How `MpServ` corresponds to the code

`ppc` is the parent's position: `select`, `scan` (in the `for` loop over descriptors), then the
positions between its writes and reads of one request: `mode`, `id`, `calc`, `result`, `await`,
`answer`, `close`, `wait`. `cpc` is the child's: which `read` it is at, or `find` between reading
the id of a load and answering it. Every system call that another process can observe is a step of
its own; `calculate` and other local computation belong to the step of the call that follows.

A pipe is a sequence of blocks with a length in bytes. A read of n bytes takes the first block and,
when that is shorter than n and more is there, the blocks behind it: that is how `week7`'s
`write(fdsA[1], calcString, strlen(calcString))` broke framing, and a mutant of `ReqBlock` brings it
back. `kind` and `rec` of a block, `acked` and `committed` are history variables: no guard or
program variable depends on them, except that `ModeOf` uses `kind` to say that bytes not written as
a mode match no command.

What a client may send is `Requests`: the three modes, a mode the program does not know, or
the one byte that is left of a request whose operand count is not positive. It may also leave
without sending. The uninitialised `mode` is "other" at first: whatever bytes the stack holds, they
are assumed not to spell a command.

`Abs == INSTANCE MpStore WITH db <- committed, busy <- ...` is the refinement: a save takes effect
when the parent has written its text to the pipe, a load when its answer is written to the client.
A connection without a request may repeat a request served before, which `MpStore` states as its
one concession (`SavedBy`, `LoadedBy`).

### How `ChatServ` corresponds to the code

The main thread is at `accept`, `register` (the section that appends to the array) or `create`. A
handler is at `start` (`*((int*)arg)` not yet read), `read`, `lock` (about to broadcast), `send` (in the
broadcast loop, holding the mutex), `remove`, `close`, or `done`. The two short critical sections
(`Register`, `Unlist`) are single steps; the long one, with its system calls, is one step per `write`.
Descriptors are small numbers and `accept` takes the lowest free one. A peer that leaves sends a FIN, or an RST when it left data unread; a write to a
reset connection raises SIGPIPE, which ends the process.

`server` says which program runs: `"final"`, `"week10"` (another loop that closes the gap), or `"calc"`, where
a line is half a request: `ReadRequest` takes both halves or the one that has arrived, and `calcReq`
is cleared after the broadcast. The value of a calculation is left to `Calc`. The rest are the
environment's assumptions, off in the run that needs none:

* `prompt`: a created thread reads its argument before the next `accept` returns.
* `Quiet`: nobody leaves while something said is unread or a broadcast is pending, and nobody talks
  until those who left are unlisted.

### How `TcpCalc`, `UdpCalc` and `IcmpCalc` correspond to the code

The bytes are modelled: what a stale `operand[]` or a short read does depends on them. `ByteBits` and
`IntBytes` shrink the machine; the wire format (`Frame`, `Parse`) is written in them.

`TcpCalc`: one action per `read`, because each may block while other clients connect; `Lengths` is what a
`read` may return. `whole` says that a request arrives in one segment, as the client's single `write` of
fewer than 640 bytes does on a usual network; `Paths` holds both cases in the run, and `AnswerRight` is
claimed of the first only. `ReadOperator` includes its turn of the `switch`;
`Reply` is `write` and `close`, which resets the connection if bytes are left unread. Variables of `main`
start with any count and with one pattern of bytes.

`UdpCalc`: one turn of the server's loop is one action, since it shares nothing while it runs. Datagrams
under way are a set: they overtake one another, and one that is never taken is lost. `faults` says
whether they may be doubled as well and clients interrupted, `host` where the clients run, `server` which
program it is: all are chosen at the start, so that one run compares them. In `"final"`
`sin_addr` never changes: `recvfrom` writes four bytes of `cliaddr`, and those are the family and the
port. `week4/opserver.c` is the same program: that it fills the operands in twice, with an *or* of the
bits already there, changes nothing. `"misread"` is `week4/udp_calculator/udp_server.c`, which takes the low byte
of an address for an operator; `"week4"` is `udpserver.c`, which ends at a count that is not
positive. A client takes a port that no living client of its host has.

`IcmpCalc`: `Request` is a turn of `calc_req`, `Answer` and `Show` are the two halves of `calc_res`. A
packet is copied to every child on the host it is sent to. `by` and `n` of a packet are history. `check`
is what `checksum` makes of the bytes of the packet; the program never looks at it, the receiving
system does, which is what `Verifies` is about. `checksum` and `calculate` are functions, not
operators: TLC then computes their argument once.

`IcmpDrafts` puts the other programs on the same hosts: they hear the same packets. `kind` says which
program a process is, `parent` and `listening` whether its two halves run. `myping.c` compares the header's
16 bits with its `int` pid: `WidePid` are the processes whose pid has more.

### How the echo modules correspond to the code

The k-th byte a client sends is the number k, so that what comes back shows what was lost or repeated;
a byte that the client served never sent is `Foreign`. `EchoNet` has the clients' actions and what every server does with a connection: `Read`,
`Write`, `Close`, `TakeBacklog`, and `ReadFails` for a reset. `Window` bytes fit between a server's write and the
client's read, `Inbox` bytes between a client's write and the server's read. A blocking write of more waits, on either side, a
non-blocking one is cut. A client's line is therefore two actions: `Type`, with which its `write` begins, and `Send`, with which the
connection takes what fits; as long as that is not all the client is `"writing"`, and reads nothing
(but for `echo_mpclient.c`, whose other process reads all the time).

`EchoReady`: `Report` is `select` or `epoll_wait`, which returns a list (`ready`); each entry of it is then
accepted or read while clients go on. `Level` and `Edge` are the two meanings of ready.
`EchoFork`: parent, children and logger are processes of their own; `Reap` is the handler of SIGCHLD.
`EchoSeq`: `message` is the buffer to its first NUL; `Strings` is what `strlen` makes of it: a read of the full size
leaves no NUL in `rcvbuf`, and up to `Behind` bytes of what lies behind it are sent as well. `EchoAgain` is the turn after
the last line, which `feof` lets happen; `message` is then the client's last line or, if it said none, what the client
before it or the uninitialised array left (`Others`). In `EchoServers` the variable `program` selects a server.

### How the small programs correspond to the code

`Counter`: `num+=1` is `Load` and `Store`; `Locks` says where a thread holds the mutex.
`Processes`: a program is one sequence of calls per process (`fork`, `sleep`, `wait`, ...); an
interpreter steps through them, with a clock that goes on only when everybody waits, so that
sleeps mean what they say. A signal is pending or not, and cuts a sleep short.
`HalfClose`: `Writefp` and `Readfp` are the descriptors under the two streams, and `shut` is the FIN that goes
out with `shutdown` or with the last descriptor. `AssignServ`: a visitor's child reads, answers, writes
its line into the pipe and dies. The logger would flush its file at the end of the pipe, which never
comes while the parent keeps it open.

## 3. Runs

| run | question | bounds |
|---|---|---|
| `mp` | framing, nothing lost, saves visible to later loads, pairing of answers, garbage never saved, refinement of `MpStore`; every request answered, a quit ends both processes | 2 clients, 2 ids, 2 calculations, replies cut to 1 record, pipe of 3100 bytes, fair processes |
| `chat` | count and order survive with no assumption on scheduler, clients or network, no calculation answered twice; with `prompt`, one handler each, which removes its own | 3 servers, 2 clients, 2 descriptors, 2 lines each, 3 broadcasts, both values of `prompt` |
| `chat_quiet` | broadcasts reach everybody; everything said is read, every departed client is unlisted and closed, with `prompt` and `Quiet` | 3 clients that say 2, 1 and 0 lines, 3 descriptors, all 3 broadcasts, fair threads |
| `chat_late` | *violation*: a thread that starts late removes an entry that is not its own | without `prompt` |
| `chat_pipe` | *violation*: SIGPIPE ends the process in the middle of a broadcast | without `Quiet` |
| `chat_week10` | *violation*: week10's loop keeps the departed client and drops its neighbour | that server |
| `examples` | alternation and sum; the counter exact under the mutex; children removed, sleeps long enough; who is answered is logged once; every program ends, a half-closed connection is heard to its end | 5 rounds, 3 turns a counting loop, 2 keys, 3 visitors, room for 1 line in the pipe |
| `reap` | *violation*: of two children that end together one stays a zombie | `remove_zombie.c` |
| `tcp` | answers right whatever earlier clients left; no segmentation starves the server; who can stop it; whoever asked is answered | 3 clients, counts 1 to 3, zero and negative as a char, requests whole or in any pieces, fair processes |
| `udp` | on an orderly network the right answer, and nobody waits in vain; otherwise no answer but to a request from a port of that number | 3 servers, 3 clients on 2 ports of 1 or 2 hosts, every `sin_addr`, both kinds of network |
| `icmp` | what is printed answers a request of this host, and can be told apart; packets verify; everything is answered, then silence; who has finished ends | 3 programs in three casts, two on one host, one calling itself, sequences of 1 bit, fair listeners |
| `echo` | what is sent back; no read blocks, no event is lost; what kills a server; what the logger gets; everything said is echoed, every connection closed, unless a client that does not read holds the server up | 10 servers, 2 clients (one line of 6 bytes; two of 2, by the split client), windows and inboxes of 2 bytes (`echo_stdserv`: an inbox of a line), one byte behind `rcvbuf`, a logger of 2 reads and a pipe of 2 bytes, fair processes |

The clients' requests and line counts differ from client to client where liveness is checked: that keeps the
graphs small enough without taking any kind of request away.

**Why the bounds are enough.** Framing, pairing and loss in `MpServ` need a parent that is ahead of
its child by more than one command; two clients let it be a save ahead and block on the second,
because `PipeMax` = 3100 holds one save (3082 bytes) and a little more. Two ids
and a reply cut to one record distinguish answers by id and by prefix. So short a reply says little more of
`AckedSavesAreLoaded` than that an acknowledged id is found; that its record is listed, for longer replies, is the theorem's. `WordBits` = 5 makes 15 + 1
wrap. In `ChatServ` (run `chat_quiet`) three descriptors are what the removal loop needs (first, middle, last) and what
a reused descriptor needs. An echo server is stressed when a line does not fit one read, the window or the
logger's pipe, and when client and server wait for each other: the line of six bytes is longer than inbox, window and a server's
hand of one byte together, so that the client blocks in its write and the server in its own; with a hand of two it just
fits, and the client's one `read` then leaves echoed bytes in the window. The other client always reads, and shows who is held up by the first. A
`rcvbuf` of two bytes is filled by some reads and not by others. In `examples` the
bounds are the programs' own, but for the loops of 50000 turns. The proofs of section 5 remove the bounds for the properties they cover.

**Symmetry** (`chat`): the clients send the same number of lines and are interchangeable; only safety is
checked there.

**Fairness.** `WF` of the parent and of the child, of each thread and process, and of the servers and of clients
that wait in a read: the system schedules every runnable process. Nothing is assumed of the users:
`Served` of `TcpCalc` names the one thing a user can do to hold up others, `HeldUp`; `Echoed` and `Released`
name who is not attended to, `Unattended`, of whom a blocking server's client that does not read with its window full, `HoldsUp`, is one, and
with a server of one process so is everybody else; `[]<>` in their hypothesis makes a user who goes on in the end no excuse. A write
that has begun goes on as long as there is room. Only `assign_server`'s visitors are assumed to come, since
`Ends` speaks of when all have. That a thread gets the mutex needs no
fairness of the lock: its holder is scheduled, and the broadcasts it competes with are finitely many.

**Deadlock** is checked in the runs of `MpServ`, `ChatServ`, `EchoServers` and `Examples`; states in which the program has
ended, or a bound is reached, stutter explicitly (`Stopped`, `Over`, `ProgramEnded`). The
calculators' servers wait for ever when no client is left, and so do the children; a UDP client
that lost its answer waits for ever: there the check is off.

In the calculators the machine has three-bit `char`s and two-`char` `int`s: counts from -4 to 3, values
from -32 to 31, so that the requests include an overflow, a count that is negative only as a `char`,
and a value whose two bytes both matter. Three operands are the fewest for which the order of the fold and the
offset of the operators show.

## 4. Findings

1. `chat_late`: `pthread_create(..., &clnt_sock)` passes the address of a variable that the next
   `accept` overwrites (`chat_serv.c:54`). Two threads can serve one client; when it leaves, the
   second drops somebody else from `clnt_socks`.
2. `chat_pipe`: SIGPIPE is neither ignored nor handled (`chat_serv.c:99`).
3. `chat_week10`: the loop at `week10/chat_serv.c:77` removes the wrong entry; the final copy is right.
4. `reap`: the handler calls `waitpid` once for signals that do not queue (`remove_zombie.c:10`), while the session
   quoted in the file shows both children removed.

What the models show without being a defect of a stated promise: a client of the multiplexing
calculator that hangs up makes the server repeat the previous request (`MpStore` says that
this is the only way a record is ever duplicated); a line is echoed in part by an
edge-triggered server whose client does not read, while a server by level or one at a time is held up for all its clients by
one client that does not read, as a client is that blocks in the write of a long line; `server.c` of weeks 2 and 3
sends `strlen(rcvbuf)` bytes (`week3/server.c:55`, `week2/server.c:57`), which after a read that fills
`rcvbuf`, as one of `week2/client.c`'s `MAX` bytes may, are more than the buffer has; a client that connects to `echo_stdserv.c` and
says nothing is sent the last line of the client before it, or what is on the stack; the logger of `echo_storeserv.c` leaves after ten
reads, and the children are jammed once the pipe is full (`Jammed`).

## 5. Proofs

Checked by TLAPS for all values of the constants.

**`MpServProofs`** proves `TypeOK`, `ChildInStep`, `AnswerIsForThisLoad`, `NothingLost` and
`NoSaveOfGarbage`, none of which is inductive. The invariant `IInv` is:

* `Chain`: pipe A is a chain. Its first block is the one the child reads next, each block is the one
  the child reads after the block before it (`After`), and record numbers grow with each text
  (`RecAfter`). `EndPc` and `EndRec` are where the child will be when it has drained the pipe.
* `ParentAt`: the parent's program counter agrees with that end.
* `Contents`: a block, or a buffer of the child, holds the id and the text of the committed record
  it is numbered with, or the id of the request now being written.
* `Serving`: the descriptors the parent scans are open connections, and its buffers hold a
  client's data whenever `mode` is a command that uses them.

`Extend` and `Shrink` are the two facts about chains: appending the block the chain ends before, and
taking the first. Every action then is one of: a write (`Writes`), a read (`Reads`), the answer
(`FindCommands`, `ReadLoadCommands`), or aside from the pipes (`Aside`).

The look-up loop is a recursive function; that it returns a sequence of records is proved in
its first lemmas by induction over the loop's index (`LoopInduction`, from the well-foundedness of
the natural numbers).

From the chain also follows what stands behind the liveness that TLC checks: the two processes never wait for
each other (`NeverBothWait`). What fills pipe A is what the child reads next, and while an answer is awaited
the pipe ends with the id that asks for it, so that pipe B has room when the child comes there.

The second part proves that `MpServ` implements `MpStore` (`Implements`: every step of the two
processes maps to a save, an acknowledgement, a load or a stutter), `AckedSavesAreLoaded`, and that an answer
once given stays. The invariant is `RInv`, `IInv` with `Service`:

* `OnePlace`: a client is not yet connected, in the backlog, behind one descriptor, or done.
* `Queued`, `Reported`: who waits its turn is unread and unanswered, and what `select` reported is still ready. So
  a request is read once.
* `Current`, `Leftover`: while a request is served the parent's buffers are that client's request or, if it
  sent none, that of the request before, whose record is committed already. That is the case in which the code repeats
  a request, and why the abstract store allows a duplicate there and nowhere else.
* `Acknowledged`: the record of every answered save is committed.

**`ChatServProofs`** proves every safety property of `ChatServ`. `IInv` is:

* `Pointers`: the array and the threads name descriptors.
* `Counted`: threads are created in order, one for each connection; `clnt_cnt` is the number of those
  registered and not yet removed.
* `Exclusion`, `Ordered`: who sends has the mutex, and its broadcast is the last in the log, so that what a
  client has received is ascending.
* `InTime`: a thread that starts before the next accept finds in `clnt_sock` a descriptor nobody else has. Hence
  `Listing`: the array holds exactly the descriptors that are registered and not yet removed, each once (of the final
  server, whose loop closes the gap at the right place).
* `ReadOnce`: a calculation is with one thread or answered.

`SendToAll` holds only where nobody leaves while somebody talks, threads start in time and the server is the final one;
`Calm` says so, in the run `chat_quiet` as in the theorem (the runs `chat_pipe`, `chat_late` and `chat_week10` show
what happens otherwise). From `Calm`, `QInv`: nobody that is written to has gone (`Peaceful`), so that the server lives;
a client joins once (`JoinsOnce`) and is listed until it has gone (`StaysListed`); and who has not got a broadcast
that it is owed is still ahead of the loop over the array (`Owed`).

**`ExamplesProofs`** proves, for any number of rounds, turns and visitors: `Alternate` and `ResultRight` (one token is
in `sem_one`, `sem_two` or a thread between its wait and its post); `CounterRight` (`Guarded`: with the mutex what a
thread has loaded is still `total`, the turns of one less those of the other; `Bounded`: without it, what `total` and the loaded
values lie between, given the turns done); `LoggedOnce` (a visitor is away, in the queue, with its child, or in the log).
`ThreadsGoOn`: neither the two semaphores nor the mutex ever stop all the threads that have not ended; this needs both
counts of the token, and that a thread that holds the mutex can always give it back.

`ChildrenRemoved` and `SleepsSuffice` are about the programs of processes, whose calls are fixed: each has an invariant of
its own (`ProcInv`), which says by the parent's next call where the children are, what is in the pipes and what is printed, and what
the clock can show. Two need an argument: `remove_zombie.c` (`NoneYet`: as long as no child is removed, one that has ended
means a SIGCHLD that is not handled yet, and the parent does not end before the two children do), and `signal.c`, for any number of CTRL+C
(`SignalClock`: time moves on in a sleep only, alarms are two seconds apart, and each ends the sleep it comes in; so there are no more
alarms than sleeps, and in `sigaction.c`, where nothing else ends a sleep, exactly as many).

**`EchoProofs`** proves every safety property of the echo servers, for any clients, lines, windows, buffers and any
logger. The byte numbers do the work: what a server holds or has sent of a client says by itself where in
the client's stream it stands. `IInv` is:

* `Streams`: nobody reads what has not been written, and no more than `Window` bytes are under way.
* `Connection`: a client's place in its program and the state of its connection agree.
* `OnePlace`: a client is not there yet, in the backlog, or behind one descriptor, one child or the one turn.
* `InHand` (the servers that send what they read): `buf` holds the last bytes read, `out` only earlier ones, in
  order; and all of them where nothing is dropped (`Keeps`: always, but for the edge-triggered server only when
  what was said fits the window).
* `Repeats` (`server.c` of weeks 2 and 3): what was written followed by what is in hand has every byte that was
  read, and none before its predecessor; what is sent twice is sent again later. A foreign byte is in hand only behind
  `SeqBuf` others (`Late`), because only a full `rcvbuf` is read beyond its end, and is sent only behind as many.
* `ByLine` (`echo_stdserv.c`): the message is a line, the last one read, and it is written a second time only when
  the client has said everything; until a first line is read it is nobody's (`Alien`).
* `Survivors`: only a write after a RST kills, and a RST was sent to a client that had left early, or by a write
  with nothing behind it (`Spent`).
* `Reported`: every entry of the list that `select` or `epoll_wait` returned is still true (`StillReady`), and an
  edge that will not be reported again is still in the list (`NoEdgeLost`).
* `Logging`: the pipe behind the log has every client's bytes, each once and in order, up to what its child holds.

`Move` reduces the steps of ten servers and of their clients to fifteen things that can happen to one connection
(`Gets`, `Sends`, `Loses`, ...), so that each part is shown of those and not of every server.

**`CalcProofs`** shows, for every width of a byte and an int, what the functions on data compute: the digits of a number
in any base times their weights add up to it modulo the next weight, so that an int written in bytes and read
again is the same int, sign included (`RoundTrip`); `Calculate` and each of its partial results are ints of
`WordBits` bits; `Parse` of a request's frame has the count, operands and operators that were typed (`ParseFrame`). Each
recursive function is a loop; that its values exist and are those a turn of the loop makes is shown once, by induction over the turns
(`LoopExists`).

**`CalcNetProofs`** proves every safety property of the TCP and the UDP calculators, for any clients, requests, stale
bytes and widths. For TCP, `IInv` is:

* `Queue`: a client is accepted once, and is not the one being served while it is in the backlog.
* `Unread`: a connection nobody has read from holds nothing or the whole frame of what its client asked.
* `Inside`: in the middle of a request `spc`, `i` and `opCount` give a position in the frame (`Position`), and at least the
  bytes behind it are still to come, however the reads are cut: a short read takes less than the code counts, never more. Hence
  `NeverWaitsInside`.
* `AsTyped`: if reads are served whole, exactly those bytes are, the operands read are those typed, and `opResult` is
  the value of the expression up to there. Hence `AnswerRight`.
* `Answered`: what was written and not yet read by the client is the right value.

`StopsWhenTold` follows for the same reason: the count that stops the server is the first byte of a frame, not of what is left of one.

For UDP, `UdpInv` is:

* `Started`, `OwnPort`: who has asked has a port, and two who wait on one host have different ones.
* `OnTheirWay`: every datagram under way is a client's request, or an answer with the port of the client it was made for,
  the address the server has, and the value of that client's request if it has one.
* `Single`: on an orderly network a waiting client has at most one datagram under way, so that nothing late can meet the next owner
  of a port.
* `Running`, `NoneLost`: a server has only stopped for the reasons the code has, and a request that is not lost is still to be read or to be answered.

**`IcmpCalcProofs`** proves every safety property of the ICMP programs, for any hosts, casts of programs, pids, requests and sizes of a
message. `IInv` says that a calculator has counted its requests (`Counted`); that every packet in an inbox came the way its
type says, carries the frame or the value of the request it is numbered with, and sums to all ones (`GoodPacket`); and
that what is printed does too (`GoodAnswer`). Requests are only added, so what a packet says stays true. That a packet
verifies is a lemma about `checksum` alone (`PacketVerifies`): adding a sum's carries back leaves it what it is modulo
`Short` - 1, so the words with the complement of their sum add up to `Short` - 1, and the two folds are enough as long as the packet
has no more than `Short` bytes.

**`SequenceLemmas`** has what these keep needing: queues without duplicates that grow at the
end and shrink anywhere, what a part of a sequence and two in a row hold, sums over a sequence.

Assumptions: the named `ASSUME`s of the modules (positive sizes; an int of whole bytes; a pipe that holds one text; finitely many chat clients;
`NoClient`, `Nobody`, `logger` and `None` are no clients; the ICMP programs' pids are different on one host, their
message has an even size into which the requests and an int fit; a line of a client of `echo_stdserv.c` fits its inbox, so
that `fgets` finds it whole). The type invariants are proved, so no run repeats them.

**Only model-checked:** all liveness, which is out of the prover's reach, as is `ENABLED`. Every invariant and every
action property that a passing run checks is a theorem, under the hypotheses its property names.

## 6. Abstractions

* A write of at most `PIPE_BUF` (4096) bytes to a pipe is atomic and blocks until it fits; all writes
  of the program are smaller.
* A request arrives in one segment: `readv` gets all of it, one byte of it, or nothing.
* Requests have at most eleven operands and stores stay within `dataArray` and `res`: beyond, the C
  code writes outside its arrays and nothing can be said.
* Texts are values, not characters; `calcRes` is the expression with its value.
* A TCP answer of four bytes is not cut; a UDP client's operands are numbers.
* An ICMP request fits the message of its packet (the code would write behind `msg`), and the message has an even size, as
  its 56 bytes do: of an odd one the last word that `checksum` adds would be read behind the packet.
* `IcmpCalc` has no end of input: `calc_req` ignores the result of `scanf` and would send without end.
* Of a threaded calculator's request the two halves are told apart, not the bytes: `readv`, which may return at any byte, is cut in
  one place, behind the calculation. Cut inside it the code would take the calculation for another one. Of `assign_server.c`'s,
  whether it has a count and whether that is positive.
* An echoed byte is its number, and none is a NUL; so `strlen` stops where the bytes that were read end, or beyond `rcvbuf`.
  What is there is foreign, and a NUL comes after `Behind` bytes at most.
* `fgets` of `echo_stdserv.c` takes a line when all of it has arrived; the buffer of `readfp` is counted in its inbox.
* `logged` is what the logger has given to `fwrite`: it is in the file when the file is closed, after the last read.
* The drafts of the ICMP program ask for one operand if the count is one, which `IsTyped` allows; the value is
  -1 with or without it, and no run types it.
* `thread4.c`'s hundred threads are two. `echo_selectserv.c` declares a handler it does not define and forks a
  logger nobody writes to; `calc_ping_client.c` and `thread4.c` do not link as they are: their text is modelled.
* Failures of `socket`, `bind`, `listen`, `pipe`, `fork` and `pthread_create` are left out.

## 7. Plan

The sizes of the two writes of `MpServ` as a parameter, so that the drafts of week7 run too.
