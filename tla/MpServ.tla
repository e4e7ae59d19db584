------------------------------- MODULE MpServ -------------------------------
(* The multiplexing calculator,                                              *)
(* network_programming_final/multiplexing_calculator/op_mpserv.c, with its   *)
(* clients op_mpclnt.c.                                                      *)
(*                                                                           *)
(* Two processes: the parent (multiplex_serv) waits in select() for its      *)
(* listening socket and its connections and serves one request per           *)
(* connection; the child (store_loop) keeps the records.  They share only    *)
(* two pipes, byte streams without message boundaries: A carries commands to *)
(* the child, B answers back.  A command is written in two or three writes,  *)
(* read in two or three reads, and nothing but the agreement of the lengths  *)
(* keeps the child at the start of a command when it reads a mode.           *)
EXTENDS MpData, FiniteSets

LOCAL INSTANCE SequencesExt

CONSTANTS
  MaxFd,         \* descriptors a process may open for connections
  PipeMax        \* bytes a pipe holds: 65536 on Linux

MODE_SIZE == 5
ID_SIZE   == 5
DATA_MAX  == 1024 * 2
LOAD_MAX  == 1024 * 3

ASSUME MaxFdAssumption == MaxFd \in Nat \ {0}
ASSUME PipeMaxAssumption == PipeMax \in Nat /\ PipeMax >= LOAD_MAX

FDs == 1 .. MaxFd
SERV == 0                \* serv_sock: open before, so below, every client's
NoClient == [client |-> "none"]

ASSUME NoClientAssumption == NoClient \notin Clients

VARIABLES
  (* the clients and the kernel's side of their connections *)
  phase,       \* of a client: "new", "open", "gone"
  sent,        \* what the client has written on its connection
  unread,      \* is it still in the socket's receive buffer?
  reply,       \* what the server has written on the connection
  acked,       \* history: who had been answered when the client sent
  backlog,     \* connections waiting for accept, oldest first
  conn,        \* descriptor table of the parent: whose connection
  (* the parent, multiplex_serv *)
  ppc, reads, cpy_reads, fd, mode, id, calc, load,
  (* the pipes *)
  pipeA, pipeB,
  (* the child, store_loop *)
  cpc, loadId, slotId, store,
  committed    \* history: the records the parent has written to pipe A

clientVars == <<phase, sent, unread, reply, acked, backlog, conn>>
parentVars == <<ppc, reads, cpy_reads, fd, mode, id, calc, load>>
childVars  == <<cpc, loadId, slotId, store>>
vars       == <<clientVars, parentVars, pipeA, pipeB, childVars, committed>>

-----------------------------------------------------------------------------
(* A pipe is the sequence of the blocks written to it, each with its length  *)
(* in bytes.  Two history fields: kind is the read the block is meant for,   *)
(* named as the child's program counter is; rec is the number of the record  *)
(* the block is part of.                                                     *)
Block(k, v, n) == [kind |-> k, val |-> v, len |-> n, rec |-> Len(committed) + 1]
ModeBlock(m) == Block("mode", m, MODE_SIZE)
IdBlock(i)   == Block(IF mode = "save" THEN "id" ELSE "loadId", i, ID_SIZE)
\* Mutant: only strlen(calcString) bytes, as week7/op_mpserv.c did.
ShortReqBlock(s) == Block("req", s, 20)
ReqBlock(s)  == Block("req", s, LOAD_MAX)

Bytes(p) ==
  LET upto[k \in 0 .. Len(p)] == IF k = 0 THEN 0 ELSE upto[k-1] + p[k].len
  IN upto[Len(p)]

(* A write of at most PIPE_BUF bytes is atomic and blocks until it fits.     *)
Fits(p, b) == Bytes(p) + b.len =< PipeMax

(* What is left after a read of n bytes.  A read takes what there is: when   *)
(* the first block is shorter than n, it goes on with the blocks behind it.  *)
(* (Whole blocks: a block is read in part only by a child already out of     *)
(* step.)                                                                    *)
AfterRead(p, n) ==
  IF p[1].len >= n \/ Len(p) = 1
    THEN Tail(p)
    ELSE LET taken == {k \in 1 .. Len(p) : Bytes(SubSeq(p, 1, k)) =< n}
         IN SubSeq(p, Cardinality(taken) + 1, Len(p))

(* mode_check on five bytes: bytes that were not written as a mode match no  *)
(* command.                                                                  *)
ModeOf(b) == IF b.kind = "mode" THEN b.val ELSE "other"

-----------------------------------------------------------------------------
Init ==
  /\ phase = [c \in Clients |-> "new"]
  /\ sent = [c \in Clients |-> NoReq]
  /\ unread = [c \in Clients |-> FALSE]
  /\ reply = [c \in Clients |-> NoReply]
  /\ acked = [c \in Clients |-> {}]
  /\ backlog = << >>
  /\ conn = [f \in FDs |-> NoClient]
  /\ ppc = "select"
  /\ reads = {SERV} /\ cpy_reads = {} /\ fd = SERV
  /\ mode = "other" /\ id = NoId /\ calc = NoExpr    \* uninitialised
  /\ load = NoReply
  /\ pipeA = << >> /\ pipeB = << >>
  /\ cpc = "mode" /\ loadId = NoId /\ slotId = NoId /\ store = << >>
  /\ committed = << >>

-----------------------------------------------------------------------------
(* The client, op_mpclnt.c.  It connects after the mode was typed and before *)
(* the id, so a user who gives up leaves a connection without a request.     *)
Connect(c) ==
  /\ phase[c] = "new"
  /\ ppc # "stopped"
  /\ phase' = [phase EXCEPT ![c] = "open"]
  /\ backlog' = Append(backlog, c)
  /\ UNCHANGED <<sent, unread, reply, acked, conn, parentVars, pipeA, pipeB, childVars, committed>>

(* writev of mode, id and buf; or the single byte of a count =< 0.           *)
Send(c, r) ==
  /\ phase[c] = "open"
  /\ sent[c] = NoReq
  /\ ppc # "stopped"
  /\ sent' = [sent EXCEPT ![c] = r]
  /\ unread' = [unread EXCEPT ![c] = TRUE]
  /\ acked' = [acked EXCEPT ![c] = {d \in Clients : reply[d] # NoReply}]
  /\ UNCHANGED <<phase, reply, backlog, conn, parentVars, pipeA, pipeB, childVars, committed>>

(* The process ends, before or after the request: the kernel sends the FIN.  *)
Leave(c) ==
  /\ phase[c] = "open"
  /\ phase' = [phase EXCEPT ![c] = "gone"]
  /\ UNCHANGED <<sent, unread, reply, acked, backlog, conn, parentVars, pipeA, pipeB,
                 childVars, committed>>

-----------------------------------------------------------------------------
(* The parent: select, then every ready descriptor in ascending order.       *)
Readable(f) == /\ conn[f] # NoClient
               /\ unread[conn[f]] \/ phase[conn[f]] = "gone"

Ready == {f \in reads : IF f = SERV THEN backlog # << >> ELSE Readable(f)}

Select == /\ ppc = "select"
          /\ Ready # {}
          /\ cpy_reads' = Ready
          /\ ppc' = "scan"
          /\ UNCHANGED <<clientVars, reads, fd, mode, id, calc, load, pipeA, pipeB, childVars, committed>>

SelectTimeout == ppc = "select" /\ Ready = {} /\ UNCHANGED vars

ScanDone == /\ ppc = "scan"
            /\ cpy_reads = {}
            /\ ppc' = "select"
            /\ UNCHANGED <<clientVars, reads, cpy_reads, fd, mode, id, calc, load, pipeA,
                           pipeB, childVars, committed>>

(* The loop `for i` reaches descriptor i: the least ready one left.          *)
ScanReaches(i) == /\ ppc = "scan"
                  /\ i \in cpy_reads
                  /\ \A j \in cpy_reads : i =< j
                  /\ cpy_reads' = cpy_reads \ {i}

(* accept returns the lowest free descriptor.                                *)
Accept == /\ ScanReaches(SERV)
          /\ \E f \in FDs :
                /\ conn[f] = NoClient
                /\ \A g \in FDs : g < f => conn[g] # NoClient
                /\ conn' = [conn EXCEPT ![f] = Head(backlog)]
                /\ reads' = reads \cup {f}
          /\ backlog' = Tail(backlog)
          /\ UNCHANGED <<phase, sent, unread, reply, acked, ppc, fd, mode, id, calc, load,
                         pipeA, pipeB, childVars, committed>>

\* Mutant: id and calc are cleared before every readv, mode is not.
ReadvCleared(f) ==
  LET c == conn[f]
      whole == unread[c] /\ sent[c].mode # "cut"
  IN /\ ScanReaches(f)
     /\ fd' = f
     /\ mode' = IF whole THEN sent[c].mode ELSE IF unread[c] THEN "other" ELSE mode
     /\ id'   = IF whole THEN sent[c].id ELSE NoId
     /\ calc' = IF whole THEN sent[c].calc ELSE NoExpr
     /\ unread' = [unread EXCEPT ![c] = FALSE]
     /\ ppc' = "mode"
     /\ UNCHANGED <<phase, sent, reply, acked, backlog, conn, reads, load, pipeA, pipeB,
                    childVars, committed>>

(* readv into mode, id and calc.  Its result is not looked at: after an end  *)
(* of file the three buffers still hold the request served before, after a   *)
(* "cut" request only the first byte of mode is new.                         *)
Readv(f) ==
  LET c == conn[f]
      whole == unread[c] /\ sent[c].mode # "cut"
  IN /\ ScanReaches(f)
     /\ fd' = f
     /\ mode' = IF whole THEN sent[c].mode ELSE IF unread[c] THEN "other" ELSE mode
     /\ id'   = IF whole THEN sent[c].id ELSE id
     /\ calc' = IF whole THEN sent[c].calc ELSE calc
     /\ unread' = [unread EXCEPT ![c] = FALSE]
     /\ ppc' = "mode"
     /\ UNCHANGED <<phase, sent, reply, acked, backlog, conn, reads, load, pipeA, pipeB,
                    childVars, committed>>

(* The parent's program counter moves on; of its variables and the clients'  *)
(* nothing else changes.                                                     *)
ParentTo(from, to) ==
  /\ ppc = from
  /\ ppc' = to
  /\ UNCHANGED <<phase, sent, unread, acked, reads, cpy_reads, fd, mode, id, calc>>

WriteA(b) == Fits(pipeA, b) /\ pipeA' = Append(pipeA, b)

\* Mutant: the child is not told of a quit.
WriteModeNoQuit ==
  /\ ParentTo("mode", CASE mode \in {"save", "load"} -> "id"
                        [] mode = "quit" -> "wait"
                        [] OTHER -> "close")
  /\ IF mode = "quit" THEN UNCHANGED pipeA ELSE WriteA(ModeBlock(mode))
  /\ UNCHANGED <<reply, backlog, conn, load, pipeB, childVars, committed>>

WriteMode ==
  /\ ParentTo("mode", CASE mode \in {"save", "load"} -> "id"
                        [] mode = "quit" -> "wait"
                        [] OTHER -> "close")
  /\ WriteA(ModeBlock(mode))
  /\ UNCHANGED <<reply, backlog, conn, load, pipeB, childVars, committed>>

\* Mutant: the answer of a load is left in pipe B.
WriteIdNoWait ==
  /\ ParentTo("id", IF mode = "save" THEN "calc" ELSE "close")
  /\ WriteA(IdBlock(id))
  /\ UNCHANGED <<reply, backlog, conn, load, pipeB, childVars, committed>>

WriteId ==
  /\ ParentTo("id", IF mode = "save" THEN "calc" ELSE "await")
  /\ WriteA(IdBlock(id))
  /\ UNCHANGED <<reply, backlog, conn, load, pipeB, childVars, committed>>

(* calculate, then all LOAD_MAX bytes, of which calcString is the first few. *)
WriteReq ==
  /\ ParentTo("calc", "result")
  /\ WriteA(ReqBlock(CalcString(calc)))
  /\ committed' = Append(committed, [id |-> id, req |-> CalcString(calc)])
  /\ UNCHANGED <<reply, backlog, conn, load, pipeB, childVars>>

Answer(r) == reply' = [reply EXCEPT ![conn[fd]] = r]

WriteResult ==
  /\ ParentTo("result", "close")
  /\ Answer(Result(Calculate(calc)))
  /\ UNCHANGED <<backlog, conn, load, pipeA, pipeB, childVars, committed>>

ReadLoad ==
  /\ ParentTo("await", "answer")
  /\ pipeB # << >>
  /\ load' = pipeB[1].val
  /\ pipeB' = AfterRead(pipeB, LOAD_MAX)
  /\ UNCHANGED <<reply, backlog, conn, pipeA, childVars, committed>>

WriteLoad ==
  /\ ParentTo("answer", "close")
  /\ Answer(load)
  /\ UNCHANGED <<backlog, conn, load, pipeA, pipeB, childVars, committed>>

Close ==
  /\ ppc = "close"
  /\ reads' = reads \ {fd}
  /\ conn' = [conn EXCEPT ![fd] = NoClient]
  /\ ppc' = "scan"
  /\ UNCHANGED <<phase, sent, unread, reply, acked, backlog, cpy_reads, fd, mode, id, calc,
                 load, pipeA, pipeB, childVars, committed>>

(* wait(NULL) returns when the child has exited; the loops end, the process  *)
(* exits and every connection is closed with it.                             *)
Wait ==
  /\ ParentTo("wait", "stopped")
  /\ cpc = "exited"
  /\ backlog' = << >>
  /\ conn' = [f \in FDs |-> NoClient]
  /\ UNCHANGED <<reply, load, pipeA, pipeB, childVars, committed>>

Parent == \/ Select \/ SelectTimeout \/ ScanDone \/ Accept
          \/ \E f \in FDs : Readv(f)
          \/ WriteMode \/ WriteId \/ WriteReq \/ WriteResult
          \/ ReadLoad \/ WriteLoad \/ Close \/ Wait

-----------------------------------------------------------------------------
(* The child, store_loop.                                                    *)
ReadA(n, from, to) == /\ cpc = from
                      /\ cpc' = to
                      /\ pipeA # << >>
                      /\ pipeA' = AfterRead(pipeA, n)

ReadMode ==
  /\ pipeA # << >>
  /\ LET m == ModeOf(pipeA[1])
     IN ReadA(MODE_SIZE, "mode", CASE m = "save" -> "id"
                                   [] m = "load" -> "loadId"
                                   [] m = "quit" -> "exited"
                                   [] OTHER -> "mode")
  /\ UNCHANGED <<clientVars, parentVars, pipeB, loadId, slotId, store, committed>>

ReadSlotId ==
  /\ ReadA(ID_SIZE, "id", "req")
  /\ slotId' = pipeA[1].val
  /\ UNCHANGED <<clientVars, parentVars, pipeB, loadId, store, committed>>

\* Mutant: cnt is not advanced.
ReadReqSameSlot ==
  /\ ReadA(LOAD_MAX, "req", "mode")
  /\ store' = << [id |-> slotId, req |-> pipeA[1].val] >>
  /\ UNCHANGED <<clientVars, parentVars, pipeB, loadId, slotId, committed>>

ReadReq ==
  /\ ReadA(LOAD_MAX, "req", "mode")
  /\ store' = Append(store, [id |-> slotId, req |-> pipeA[1].val])
  /\ UNCHANGED <<clientVars, parentVars, pipeB, loadId, slotId, committed>>

ReadLoadId ==
  /\ ReadA(ID_SIZE, "loadId", "find")
  /\ loadId' = pipeA[1].val
  /\ UNCHANGED <<clientVars, parentVars, pipeB, slotId, store, committed>>

\* Mutant: the id of the last save is looked up.
FindSlotId ==
  LET answer == Listing(store, slotId)
      b == Block("answer", answer, IF answer = NotExist THEN 9 ELSE DATA_MAX)
  IN /\ cpc = "find"
     /\ Fits(pipeB, b)
     /\ pipeB' = Append(pipeB, b)
     /\ cpc' = "mode"
     /\ UNCHANGED <<clientVars, parentVars, pipeA, loadId, slotId, store, committed>>

\* Mutant: nothing is answered when nothing is found.
FindOnlyFound ==
  LET answer == Listing(store, loadId)
      b == Block("answer", answer, DATA_MAX)
  IN /\ cpc = "find"
     /\ pipeB' = IF answer = NotExist THEN pipeB ELSE Append(pipeB, b)
     /\ cpc' = "mode"
     /\ UNCHANGED <<clientVars, parentVars, pipeA, loadId, slotId, store, committed>>

Find ==
  LET answer == Listing(store, loadId)
      b == Block("answer", answer, IF answer = NotExist THEN 9 ELSE DATA_MAX)
  IN /\ cpc = "find"
     /\ Fits(pipeB, b)
     /\ pipeB' = Append(pipeB, b)
     /\ cpc' = "mode"
     /\ UNCHANGED <<clientVars, parentVars, pipeA, loadId, slotId, store, committed>>

Child == ReadMode \/ ReadSlotId \/ ReadReq \/ ReadLoadId \/ Find

-----------------------------------------------------------------------------
Client == \E c \in Clients : \/ Connect(c)
                             \/ \E r \in Requests : Send(c, r)
                             \/ Leave(c)

(* After a quit nothing is left to do.                                       *)
Stopped == ppc = "stopped" /\ UNCHANGED vars

Next == Client \/ Parent \/ Child \/ Stopped

Spec == Init /\ [][Next]_vars

(* Two processes the system schedules; a user may stop typing at any time.   *)
FairSpec == Spec /\ WF_vars(Parent) /\ WF_vars(Child)

-----------------------------------------------------------------------------
(* Every variable holds what the C variable can hold.                        *)
Blocks ==   [kind : {"mode"}, val : Modes, len : {MODE_SIZE}, rec : Nat]
       \cup [kind : {"id", "loadId"}, val : Ids, len : {ID_SIZE}, rec : Nat]
       \cup [kind : {"req"}, val : {CalcString(e) : e \in Exprs}, len : {LOAD_MAX}, rec : Nat]

Replies == {NoReply, NotExist} \cup {Result(Calculate(e)) : e \in Exprs}
                               \cup [kind : {"listing"}, recs : Seq(Records)]

TypeOK ==
  /\ phase \in [Clients -> {"new", "open", "gone"}]
  /\ sent \in [Clients -> Requests \cup {NoReq}]
  /\ unread \in [Clients -> BOOLEAN]
  /\ reply \in [Clients -> Replies]
  /\ acked \in [Clients -> SUBSET Clients]
  /\ backlog \in Seq(Clients)
  /\ conn \in [FDs -> Clients \cup {NoClient}]
  /\ ppc \in {"select", "scan", "mode", "id", "calc", "result", "await", "answer",
              "close", "wait", "stopped"}
  /\ reads \in SUBSET (FDs \cup {SERV})
  /\ cpy_reads \in SUBSET reads
  /\ fd \in FDs \cup {SERV}
  /\ mode \in Modes
  /\ id \in Ids \cup {NoId}
  /\ calc \in Exprs \cup {NoExpr}
  /\ load \in Replies
  /\ pipeA \in Seq(Blocks)
  /\ pipeB \in Seq([kind : {"answer"}, val : Replies, len : {9, DATA_MAX}, rec : Nat])
  /\ cpc \in {"mode", "id", "req", "loadId", "find", "exited"}
  /\ loadId \in Ids \cup {NoId}
  /\ slotId \in Ids \cup {NoId}
  /\ store \in Seq(Records)
  /\ committed \in Seq(Records)

(* Framing.  The next block in pipe A is the one the child's next read is    *)
(* meant for: a mode when it is at the start of a command, an id or a record *)
(* inside one, nothing when it has exited.  The stream has no boundaries and *)
(* the parent may be commands ahead or in the middle of one.                 *)
ChildInStep == pipeA # << >> => pipeA[1].kind = cpc

(* Pairing.  An answer is in pipe B only while the parent waits for one, it  *)
(* is alone, and it lists everything committed so far for the id now being   *)
(* served: no load is answered with what an earlier one asked for.           *)
AnswerIsForThisLoad ==
  pipeB # << >> => /\ Len(pipeB) = 1
                   /\ ppc = "await"
                   /\ mode = "load"
                   /\ pipeB[1].val = Listing(committed, id)

(* A save is acknowledged before the child has stored it.  Still the store   *)
(* grows in the order of the acknowledgements, and a child that has exited   *)
(* (a "quit" overtakes nothing) has stored every record.                     *)
NothingLost ==
  /\ IsPrefix(store, committed)
  /\ cpc = "exited" => store = committed

(* Read your saves, across clients and across the two processes: a load      *)
(* lists every save of its id that had been acknowledged to anybody when the *)
(* load was sent, unless the answer is full.                                 *)
AckedSavesAreLoaded ==
  \A c \in Clients : \A d \in acked[c] :
    /\ reply[c] # NoReply
    /\ sent[c].mode = "load"
    /\ sent[d].mode = "save"
    /\ sent[d].id = sent[c].id
    => /\ reply[c].kind = "listing"
       /\ \/ Len(reply[c].recs) = ReplyMax
          \/ \E k \in 1 .. Len(reply[c].recs) : reply[c].recs[k] = Record(sent[d])

(* mode, id and calc are uninitialised at the start, survive from request to *)
(* request and are overwritten in part by a short one; but whenever mode     *)
(* says save, id and calc are a client's.                                    *)
NoSaveOfGarbage ==
  /\ mode = "save" => id \in Ids /\ calc \in Exprs
  /\ mode = "load" => id \in Ids

(* The service its clients see is the atomic store of MpStore: a save takes  *)
(* effect when its record enters pipe A, a load when its answer is written   *)
(* to the client.                                                            *)
Abs == INSTANCE MpStore WITH
         db <- committed,
         busy <- IF ppc = "result" THEN {conn[fd]} ELSE {}

Implements == Abs!Spec

(* Every request is read, and a save or a load answered, unless a quit stops *)
(* the server first: neither a client that stays silent nor a full pipe nor  *)
(* a wait of each process for the other holds it up.                         *)
Answered ==
  \A c \in Clients :
    unread[c] ~> \/ ppc = "stopped"
                 \/ /\ ~unread[c]
                    /\ sent[c].mode \in {"save", "load"} => reply[c] # NoReply

(* A quit ends both processes.                                               *)
QuitStops ==
  \A c \in Clients : sent[c].mode = "quit" ~> (ppc = "stopped" /\ cpc = "exited")

=============================================================================
