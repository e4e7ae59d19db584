----------------------------- MODULE EchoProofs -----------------------------
(* The echo servers, for any clients, lines, windows, buffers and logs.      *)
(*                                                                           *)
(* The argument.  What a server has read of a client and not written is in   *)
(* buf, and its numbers say where in the stream it stands; so what has been  *)
(* sent is in order whatever happens to the connection, and complete as long *)
(* as writes succeed.  Writes fail only when the client has closed; a client *)
(* that had read everything closes with a FIN, and the one write that turns  *)
(* it into a RST is then the last, unless there was more to read.            *)
EXTENDS EchoServers, SequenceLemmas, FiniteSetTheorems

LOCAL INSTANCE SequencesExt

NetType ==
  /\ program \in Programs
  /\ cst \in [Clients -> {"new", "typing", "writing", "waiting", "reading", "gone"}]
  /\ typed \in [Clients -> Nat] /\ said \in [Clients -> Nat]
  /\ got \in [Clients -> Nat] /\ heard \in [Clients -> Nat]
  /\ peer \in [Clients -> PeerStates]
  /\ news \in SUBSET Clients /\ dead \in SUBSET Clients
  /\ backlog \in Seq(Clients)
  /\ buf \in [Clients -> Seq(Nat)] /\ out \in [Clients -> Seq(Nat)]

RestType ==
  /\ conn \in [FDs -> Clients \cup {NoClient}] /\ ready \in Seq(FDs \cup {Serv})
  /\ child \in [Clients \cup {logger} -> {"none", "run", "zombie", "reaped"}]
  /\ entry \in [Clients -> Seq(Nat)]
  /\ pipe \in Seq(Clients \X Nat) /\ logged \in Seq(Clients \X Nat)
  /\ reads \in Nat /\ sigchld \in BOOLEAN
  /\ client \in Clients \cup {Nobody} /\ turn \in Nat
  /\ message \in Seq(Nat) /\ passes \in Nat

TypeOK == NetType /\ RestType

(* The streams of a connection, and what the client's state says of it.      *)
Streams(c) ==
  /\ heard[c] =< said[c]
  /\ got[c] =< Len(out[c]) /\ Len(out[c]) - got[c] =< Window
  /\ typed[c] =< Len(Lines[c]) /\ said[c] =< LineEnd(c)[typed[c]]
  /\ cst[c] # "writing" => said[c] = LineEnd(c)[typed[c]]

Writable(c) == peer[c] \in {"open", "half"}

Connection(c) ==
  /\ cst[c] = "new" <=> peer[c] = "new"
  /\ cst[c] \in {"typing", "writing", "waiting"} => peer[c] \in {"open", "closed"}
  /\ cst[c] = "reading" => peer[c] \in {"half", "closed"}
  /\ cst[c] = "gone" => peer[c] \in {"fin", "error", "reset", "closed"}
  /\ peer[c] = "fin" => got[c] = Len(out[c])
  /\ peer[c] = "error" => got[c] < Len(out[c])
  /\ peer[c] = "new" => said[c] = 0

(* A client is not yet there, or waiting for accept, or one descriptor, one  *)
(* child or the one turn is its own.                                         *)
Untouched(c) == /\ heard[c] = 0 /\ buf[c] = << >> /\ out[c] = << >>
                /\ child[c] = "none" /\ client # c
                /\ \A f \in FDs : conn[f] # c

OnePlace ==
  /\ Distinct(backlog)
  /\ \A c \in Clients : Has(backlog, c) \/ peer[c] = "new" => Untouched(c)
  /\ \A c \in Clients : Has(backlog, c) => peer[c] # "new"
  /\ \A f, g \in Open : conn[f] = conn[g] => f = g

-----------------------------------------------------------------------------
(* The servers that write just what they have read.                          *)
Plain == program \notin {"server", "server2", "echo_stdserv"}

(* Sequences of bytes: the last up to h, some up to n, or foreign ones, in   *)
(* order, the first.                                                         *)
Latest(q, h)  == \A k \in 1 .. Len(q) : q[k] = h - Len(q) + k
Known(q, n)   == \A i \in 1 .. Len(q) : q[i] \in 1 .. n
Earlier(q, n) == \A i \in 1 .. Len(q) : q[i] \in 0 .. n
Rising(q)     == \A i, j \in 1 .. Len(q) : i < j => q[i] < q[j]
Numbered(q)   == \A i \in 1 .. Len(q) : q[i] = i

(* The bytes in hand are the last that were read.                            *)
LastRead(c, q) == /\ Len(q) =< heard[c]
                  /\ \A k \in 1 .. Len(q) : q[k] = heard[c] - Len(q) + k

(* Nothing is dropped.                                                       *)
Keeps(c) == program = "echo_EPETserv" => said[c] =< Window

InHand(c) ==
  Plain =>
    /\ LastRead(c, buf[c])
    /\ \A i \in Echoes(c) : out[c][i] \in 1 .. heard[c] - Len(buf[c])
    /\ InOrder(c)
    /\ Keeps(c) => /\ Exact(c)
                   /\ Writable(c) => Len(out[c]) + Len(buf[c]) = heard[c]

-----------------------------------------------------------------------------
(* The servers that write a buffer to its first NUL: every byte of it has    *)
(* been read from this client, and what has been read is in it or written.   *)
(* What lies behind the buffer comes after all of it.                        *)
Flow(c) == out[c] \o buf[c]

Unskipped(q) == \A i \in 1 .. Len(q) : q[i] > 1 => \E j \in 1 .. i - 1 : q[j] = q[i] - 1

Late(q) == \A i \in 1 .. Len(q) : q[i] = Foreign => i > SeqBuf

Repeats(c) ==
  program \in {"server", "server2"} =>
    /\ client = c => Known(message, heard[c])
    /\ Earlier(buf[c], heard[c]) /\ Earlier(out[c], heard[c])
    /\ Unskipped(out[c]) /\ Late(out[c])
    /\ Writable(c) => /\ Unskipped(Flow(c)) /\ Late(Flow(c))
                      /\ \A v \in 1 .. heard[c] : Has(Flow(c), v)

-----------------------------------------------------------------------------
(* echo_stdserv: the message is the last line read, and once the client has  *)
(* ended it is sent again.                                                   *)
AtLine(c, k) == k \in 0 .. typed[c] /\ heard[c] = LineEnd(c)[k]

LastLine(c) ==
  \E k \in 1 .. typed[c] : /\ AtLine(c, k)
                           /\ Len(message) = Lines[c][k] /\ LastRead(c, message)

Again2(c) == client = c /\ passes = 1 /\ heard[c] = said[c]     \* it has been sent again

Alien(q) == \A i \in 1 .. Len(q) : q[i] = Foreign

Twice(c, q) == \A i \in 1 .. Len(q) :
                 /\ i =< heard[c] => q[i] = i
                 /\ i > heard[c] /\ typed[c] > 0 =>
                      q[i] = i - LastOf(c) /\ i - LastOf(c) =< heard[c]
                 /\ i > heard[c] /\ typed[c] = 0 => q[i] = Foreign

LineRead(c) ==
  /\ \E k \in 0 .. typed[c] : AtLine(c, k)
  /\ client = c /\ heard[c] > 0 => LastLine(c)
  /\ client = c /\ heard[c] = 0 => Alien(message)

LineHeard(c) == c \notin Split /\ cst[c] = "typing" /\ peer[c] = "open" => got[c] = said[c]

LineEnded(c) ==
  /\ peer[c] # "error"
  /\ peer[c] \in {"fin", "reset"} => heard[c] = said[c] /\ (buf[c] # << >> => Again2(c))
  /\ peer[c] = "reset" => buf[c] = << >> /\ Again2(c)

LineSent(c) ==
  /\ Twice(c, out[c])
  /\ Len(out[c]) > heard[c] => peer[c] \in {"half", "closed"} /\ heard[c] = said[c]
  /\ Writable(c) => /\ Twice(c, Flow(c))
                    /\ Len(Flow(c)) = heard[c] \/ (peer[c] = "half" /\ Again2(c))

ByLine(c) == program = "echo_stdserv" =>
               LineRead(c) /\ LineHeard(c) /\ LineEnded(c) /\ LineSent(c)

-----------------------------------------------------------------------------
(* A RST was sent to a client that had left early, or nothing is written     *)
(* after it.                                                                 *)
Spent(c) == ~Plain /\ buf[c] = << >> /\ heard[c] = said[c]

Survivors ==
  /\ \A c \in Clients : peer[c] = "reset" => LeftEarly(c) \/ Spent(c)
  /\ Survives

(* What is left of the list that the kernel returned.                        *)
StillReady == /\ Distinct(ready)
              /\ Has(ready, Serv) => backlog # << >>
              /\ \A f \in FDs : Has(ready, f) => f \in Open /\ Readable(conn[f])

NoEdgeLost == /\ \A f \in Open : Readable(conn[f]) => Has(ready, f) \/ conn[f] \in news
              /\ \A c \in Clients : Has(backlog, c) /\ Readable(c) => c \in news

Reported == /\ program \notin ByLevel \cup {"echo_EPETserv"} => ready = << >>
            /\ program \in ByLevel => StillReady
            /\ program = "echo_EPETserv" => NoEdgeLost

(* A child has yet to log the last bytes that it has read.                   *)
Logging == Logs => /\ \A c \in Clients : LastRead(c, entry[c])
                   /\ LogComplete

IInv == /\ TypeOK
        /\ \A c \in Clients : /\ Streams(c) /\ Connection(c)
                              /\ InHand(c) /\ Repeats(c) /\ ByLine(c)
        /\ OnePlace /\ Survivors /\ Reported /\ Logging

-----------------------------------------------------------------------------
(* Where the lines of a client end.                                          *)
LEMMA LineEnds ==
  ASSUME NEW c \in Clients
  PROVE  /\ LineEnd(c) \in [0 .. Len(Lines[c]) -> Nat] /\ LineEnd(c)[0] = 0
         /\ \A k \in 1 .. Len(Lines[c]) :
               Lines[c][k] \in Nat \ {0} /\ LineEnd(c)[k] = LineEnd(c)[k-1] + Lines[c][k]
         /\ \A j, k \in 0 .. Len(Lines[c]) : j < k => LineEnd(c)[j] < LineEnd(c)[k]
         /\ Len(Lines[c]) \in Nat
<1>1. LineEnd(c) = Sums(Lines[c])
  BY DEF LineEnd, Sums
<1>2. Lines[c] \in Seq(Nat \ {0}) /\ Lines[c] \in Seq(Nat)
  BY EchoNetAssumption
<1>3. /\ Sums(Lines[c]) \in [0 .. Len(Lines[c]) -> Nat] /\ Sums(Lines[c])[0] = 0
      /\ \A k \in 1 .. Len(Lines[c]) : Sums(Lines[c])[k] = Sums(Lines[c])[k-1] + Lines[c][k]
  BY <1>2, SumsAdd
<1>4. \A j, k \in 0 .. Len(Lines[c]) : j < k => Sums(Lines[c])[j] < Sums(Lines[c])[k]
  BY <1>2, SumsGrow
<1>5. Len(Lines[c]) \in Nat /\ \A k \in 1 .. Len(Lines[c]) : Lines[c][k] \in Nat \ {0}
  BY <1>2
<1> QED BY <1>1, <1>3, <1>4, <1>5

(* What read returns.                                                        *)
LEMMA BytesRead ==
  ASSUME NEW c \in Clients, heard[c] \in Nat, NEW n \in Nat
  PROVE  /\ Bytes(c, n) \in Seq(Nat) /\ Len(Bytes(c, n)) = n
         /\ \A k \in 1 .. n : Bytes(c, n)[k] = heard[c] + k
  BY DEF Bytes

(* What a read returns: at least a byte, no more than has been sent.         *)
LEMMA PieceSize ==
  ASSUME NEW c \in Clients, heard[c] \in Nat, said[c] \in Nat,
         NEW size, NEW n \in Pieces(c, size), HasData(c), size \in Nat
  PROVE  n \in Nat /\ 1 =< n /\ heard[c] + n =< said[c]
  BY DEF Pieces, HasData

(* What write takes and leaves.                                              *)
LEMMA Parted ==
  ASSUME NEW q \in Seq(Nat), NEW r \in Seq(Nat), NEW m \in 0 .. Len(q)
  PROVE  /\ SubSeq(q, 1, m) \in Seq(Nat) /\ Len(SubSeq(q, 1, m)) = m
         /\ SubSeq(q, m + 1, Len(q)) \in Seq(Nat)
         /\ Len(SubSeq(q, m + 1, Len(q))) = Len(q) - m
         /\ \A k \in 1 .. Len(q) - m : SubSeq(q, m + 1, Len(q))[k] = q[m + k]
         /\ r \o SubSeq(q, 1, m) \in Seq(Nat)
         /\ Len(r \o SubSeq(q, 1, m)) = Len(r) + m
         /\ \A i \in 1 .. Len(r) : (r \o SubSeq(q, 1, m))[i] = r[i]
         /\ \A i \in Len(r) + 1 .. Len(r) + m : (r \o SubSeq(q, 1, m))[i] = q[i - Len(r)]
<1>1. /\ SubSeq(q, 1, m) \in Seq(Nat) /\ Len(SubSeq(q, 1, m)) = m
      /\ \A k \in 1 .. m : SubSeq(q, 1, m)[k] = q[k]
  OBVIOUS
<1>2. /\ SubSeq(q, m + 1, Len(q)) \in Seq(Nat)
      /\ Len(SubSeq(q, m + 1, Len(q))) = Len(q) - m
      /\ \A k \in 1 .. Len(q) - m : SubSeq(q, m + 1, Len(q))[k] = q[m + k]
  OBVIOUS
<1> DEFINE s == SubSeq(q, 1, m)
<1> HIDE DEF s
<1>3. /\ r \o s \in Seq(Nat) /\ Len(r \o s) = Len(r) + m
      /\ \A i \in 1 .. Len(r) + m : (r \o s)[i] = IF i =< Len(r) THEN r[i] ELSE s[i - Len(r)]
  BY <1>1, ConcatProperties DEF s
<1>4. \A i \in 1 .. Len(r) : (r \o s)[i] = r[i]
  BY <1>3
<1>5. ASSUME NEW i \in Len(r) + 1 .. Len(r) + m PROVE (r \o s)[i] = q[i - Len(r)]
  <2>1. ~ (i =< Len(r)) /\ i \in 1 .. Len(r) + m /\ i - Len(r) \in 1 .. m
    OBVIOUS
  <2> QED BY <1>1, <1>3, <2>1 DEF s
<1> QED BY <1>1, <1>2, <1>3, <1>4, <1>5 DEF s

(* write takes m of the bytes in hand: what the window has room for.         *)
Taken(c) == LET room == Window - (Len(out[c]) - got[c])
            IN IF Len(buf[c]) < room THEN Len(buf[c]) ELSE room

(* What a write takes is in hand, and the window has room for it.            *)
LEMMA TakenSize ==
  ASSUME NetType, NEW c \in Clients, Streams(c)
  PROVE  Taken(c) \in 0 .. Len(buf[c]) /\ Len(out[c]) + Taken(c) - got[c] =< Window
<1>1. Len(out[c]) \in Nat /\ Len(buf[c]) \in Nat /\ got[c] \in Nat /\ Window \in Nat
  BY EchoNetAssumption DEF NetType
<1> QED BY <1>1 DEF Taken, Streams

(* What a client's write hands over is of its line, and no more than that.   *)
LEMMA FitsSize ==
  ASSUME NetType, NEW c \in Clients, Streams(c), Fits(c) > 0
  PROVE  /\ Fits(c) \in Nat /\ Fits(c) >= 1
         /\ typed[c] \in 0 .. Len(Lines[c]) /\ LineEnd(c)[typed[c]] \in Nat
         /\ said[c] + Fits(c) \in Nat /\ said[c] + Fits(c) =< LineEnd(c)[typed[c]]
<1>1. Inbox[program] \in Nat /\ said[c] \in Nat /\ heard[c] \in Nat
  BY EchoServersAssumption DEF NetType
<1>2. typed[c] \in 0 .. Len(Lines[c])
  BY LineEnds DEF NetType, Streams
<1>3. LineEnd(c)[typed[c]] \in Nat
  BY <1>2, LineEnds
<1> DEFINE e == LineEnd(c)[typed[c]]
           i == Inbox[program]
<1>4. Fits(c) = IF e - said[c] < i - (said[c] - heard[c]) THEN e - said[c]
                                                        ELSE i - (said[c] - heard[c])
  BY DEF Fits
<1> HIDE DEF e, i
<1>5. e \in Nat /\ i \in Nat
  BY <1>1, <1>3 DEF e, i
<1>6. /\ Fits(c) \in Nat /\ Fits(c) >= 1
      /\ said[c] + Fits(c) \in Nat /\ said[c] + Fits(c) =< e
  BY ONLY <1>1, <1>4, <1>5, Fits(c) > 0
<1> QED BY <1>2, <1>3, <1>6 DEF e

-----------------------------------------------------------------------------
(* Types.  A step of a client, and the system calls of a server.             *)
LEMMA ClientTypes ==
  ASSUME NetType, NEW c \in Clients, Streams(c), Client(c)
  PROVE  NetType'
<1> USE DEF NetType
<1>1. CASE Connect(c)
  BY <1>1 DEF Connect, PeerStates
<1>2. CASE Type(c)
  BY <1>2 DEF Type
<1>2b. CASE Send(c)
  <2>1. Fits(c) \in Nat
    BY <1>2b, FitsSize DEF Send
  <2>2. said' = [said EXCEPT ![c] = said[c] + Fits(c)] /\ said \in [Clients -> Nat]
    BY <1>2b DEF Send
  <2>3. said' \in [Clients -> Nat]
    BY ONLY <2>1, <2>2, ExceptEntry
  <2>4. news' \in SUBSET Clients /\ cst' \in [Clients -> {"new", "typing", "writing", "waiting", "reading", "gone"}]
    BY <1>2b DEF Send, Told
  <2> QED BY <1>2b, <2>3, <2>4 DEF Send
<1>3. ASSUME NEW st \in {"new", "typing", "writing", "waiting", "reading", "gone"}, Heard(c, st)
      PROVE  NetType'
  <2>1. Len(out[c]) \in Nat
    OBVIOUS
  <2>2. got' \in [Clients -> Nat] /\ cst' \in [Clients -> {"new", "typing", "writing", "waiting", "reading", "gone"}]
    BY <1>3, <2>1 DEF Heard
  <2> QED BY <1>3, <2>2 DEF Heard
<1>4. CASE HearSome(c) \/ HearLine(c) \/ HearAlways(c)
  BY <1>3, <1>4 DEF HearSome, HearLine, HearAlways
<1>5. CASE Quit(c)
  BY <1>5 DEF Quit, Told, PeerStates
<1>6. CASE Leave(c)
  BY <1>6 DEF Leave
<1> QED BY <1>1, <1>2, <1>2b, <1>4, <1>5, <1>6
        DEF Client, echo_client, echo_stdclnt, client_week3, client_week2, client3, echo_mpclient

(* A write keeps the types of what the kernel holds of a connection.         *)
LEMMA WriteTypes ==
  ASSUME NetType, NEW c \in Clients, Streams(c), NEW b \in BOOLEAN, NEW v \in SUBSET Clients,
         Write(c, b, v)
  PROVE  NetType'
<1> USE DEF NetType
<1>1. /\ SubSeq(buf[c], 1, Taken(c)) \in Seq(Nat)
      /\ SubSeq(buf[c], Taken(c) + 1, Len(buf[c])) \in Seq(Nat)
      /\ out[c] \o SubSeq(buf[c], 1, Taken(c)) \in Seq(Nat)
  BY TakenSize, Parted
<1> DEFINE a == out[c] \o SubSeq(buf[c], 1, Taken(c))
           r == SubSeq(buf[c], Taken(c) + 1, Len(buf[c]))
<1>2. /\ UNCHANGED <<program, cst, typed, said, got, news, backlog, heard>>
      /\ out' = out \/ out' = [out EXCEPT ![c] = a]
      /\ buf' = [buf EXCEPT ![c] = r] \/ buf' = [buf EXCEPT ![c] = << >>]
      /\ peer' = peer \/ \E p \in {"reset", "fin"} : peer' = [peer EXCEPT ![c] = p]
      /\ dead' = dead \/ dead' = dead \cup v
  BY DEF Write, Taken
<1> HIDE DEF a, r
<1>3. a \in Seq(Nat) /\ r \in Seq(Nat) /\ << >> \in Seq(Nat)
  BY <1>1 DEF a, r
<1>4. out' \in [Clients -> Seq(Nat)] /\ buf' \in [Clients -> Seq(Nat)]
  <2>1. out \in [Clients -> Seq(Nat)] /\ buf \in [Clients -> Seq(Nat)]
    OBVIOUS
  <2>2. out' = [out EXCEPT ![c] = a] \/ out' = out
    BY <1>2
  <2>3. buf' = buf \/ buf' = [buf EXCEPT ![c] = r] \/ buf' = [buf EXCEPT ![c] = << >>]
    BY <1>2
  <2>4. out' \in [Clients -> Seq(Nat)]
    BY ONLY <1>3, <2>1, <2>2
  <2>5. buf' \in [Clients -> Seq(Nat)]
    BY ONLY <1>3, <2>1, <2>3
  <2> QED BY <2>4, <2>5
<1>5. peer' \in [Clients -> PeerStates]
  BY <1>2 DEF PeerStates
<1> QED BY <1>2, <1>4, <1>5

(* So do a read, a read that fails, a close, and accept.                     *)
LEMMA CallTypes ==
  ASSUME NetType, NEW c \in Clients,
         \/ \E size \in Nat : Read(c, size)
         \/ ReadFails(c) \/ Close(c) \/ TakeBacklog
  PROVE  NetType'
<1> USE DEF NetType
<1>1. ASSUME NEW size \in Nat, Read(c, size) PROVE NetType'
  <2>1. PICK n \in Pieces(c, size) :
             heard' = [heard EXCEPT ![c] = @ + n] /\ buf' = [buf EXCEPT ![c] = Bytes(c, n)]
    BY <1>1 DEF Read
  <2>2. n \in Nat
    BY <1>1, PieceSize DEF Read
  <2>3. Bytes(c, n) \in Seq(Nat)
    BY <2>2, BytesRead
  <2>4. heard' \in [Clients -> Nat] /\ buf' \in [Clients -> Seq(Nat)]
    BY <2>1, <2>2, <2>3
  <2> QED BY <1>1, <2>4 DEF Read
<1>2. CASE ReadFails(c)
  BY <1>2 DEF ReadFails, PeerStates
<1>3. CASE Close(c)
  BY <1>3 DEF Close, PeerStates
<1>4. CASE TakeBacklog
  <2>1. Tail(backlog) \in Seq(Clients)
    BY <1>4, HeadTailProperties DEF TakeBacklog
  <2> QED BY <1>4, <2>1 DEF TakeBacklog
<1> QED BY <1>1, <1>2, <1>3, <1>4

(* An open descriptor is not the listening one, and is a client's.           *)
LEMMA OpenClient ==
  ASSUME TypeOK, NEW f \in Open
  PROVE  f \in FDs /\ conn[f] \in Clients /\ f # Serv
  BY EchoReadyAssumption DEF TypeOK, RestType, Open, FDs, Serv

(* accept returns a client that waits, and the others wait on.               *)
LEMMA BacklogHead ==
  ASSUME NetType, backlog # << >>
  PROVE  /\ Head(backlog) \in Clients /\ Has(backlog, Head(backlog))
         /\ Tail(backlog) \in Seq(Clients)
<1>1. backlog \in Seq(Clients)
  BY DEF NetType
<1>2. Head(backlog) = backlog[1] /\ 1 \in 1 .. Len(backlog)
  BY <1>1
<1> QED BY <1>1, <1>2, HeadTailProperties DEF Has

(* What an entry of the pipe is made of.                                     *)
LEMMA Entries ==
  ASSUME NEW c \in Clients, NEW q \in Seq(Nat), NEW p \in Seq(Clients \X Nat)
  PROVE  LET e == [k \in 1 .. Len(q) |-> <<c, q[k]>>]
         IN /\ e \in Seq(Clients \X Nat) /\ Len(e) = Len(q)
            /\ p \o e \in Seq(Clients \X Nat)
<1> DEFINE e == [k \in 1 .. Len(q) |-> <<c, q[k]>>]
<1>1. Len(q) \in Nat /\ \A k \in 1 .. Len(q) : q[k] \in Nat
  OBVIOUS
<1>2. e \in [1 .. Len(q) -> Clients \X Nat]
  BY <1>1
<1>3. e \in Seq(Clients \X Nat) /\ Len(e) = Len(q)
  BY <1>1, <1>2
<1> HIDE DEF e
<1>4. p \o e \in Seq(Clients \X Nat)
  BY <1>3, ConcatProperties
<1> QED BY <1>3, <1>4 DEF e

(* The servers by readiness keep the types.                                  *)
LEMMA ReadinessTypes ==
  ASSUME TypeOK, \A c \in Clients : Streams(c),
         ByReadiness, UNCHANGED <<forkVars, seqVars>>
  PROVE  TypeOK'
<1>1. RestType' <=> conn' \in [FDs -> Clients \cup {NoClient}] /\ ready' \in Seq(FDs \cup {Serv})
  BY DEF TypeOK, RestType, forkVars, logVars, seqVars
<1>2. NetType /\ conn \in [FDs -> Clients \cup {NoClient}] /\ ready \in Seq(FDs \cup {Serv})
  BY DEF TypeOK, RestType
<1>3. ready # << >> => Tail(ready) \in Seq(FDs \cup {Serv})
  BY <1>2, HeadTailProperties
<1>4. BufSize[program] \in Nat
  BY <1>2, EchoServersAssumption DEF NetType
<1>5. ASSUME NEW s \in SUBSET (FDs \cup {Serv}), NEW l \in AnyOrder(s)
      PROVE  l \in Seq(FDs \cup {Serv})
  <2>1. s \in SUBSET (0 .. MaxFd) /\ IsFiniteSet(0 .. MaxFd)
    BY FS_Interval, EchoReadyAssumption DEF FDs, Serv
  <2>2. Cardinality(s) \in Nat
    BY <2>1, FS_Subset, FS_CardinalityType
  <2>3. l \in [1 .. Cardinality(s) -> s]
    BY <1>5 DEF AnyOrder, SetToSeqs
  <2>4. l \in [1 .. Cardinality(s) -> FDs \cup {Serv}]
    BY <1>5, <2>3
  <2> QED BY <2>2, <2>4
<1>6. ASSUME NEW s \in SUBSET (FDs \cup {Serv}), NEW lists \in SUBSET AnyOrder(s), Report(s, lists)
      PROVE  TypeOK'
  <2>1. NetType'
    BY <1>2, <1>6 DEF Report, NetType
  <2>2. ready' \in Seq(FDs \cup {Serv}) /\ conn' = conn
    BY <1>5, <1>6 DEF Report
  <2> QED BY <1>1, <1>2, <2>1, <2>2 DEF TypeOK
<1>7. CASE Accept
  <2>1. NetType'
    BY <1>2, <1>7, CallTypes, BacklogHead DEF Accept, TakeBacklog
  <2>2. PICK f \in FDs : conn' = [conn EXCEPT ![f] = Head(backlog)] /\ TakeBacklog
    BY <1>7 DEF Accept
  <2>3. Head(backlog) \in Clients
    BY <1>2, <2>2, BacklogHead DEF TakeBacklog
  <2>4. conn' \in [FDs -> Clients \cup {NoClient}] /\ ready' \in Seq(FDs \cup {Serv})
    BY <1>2, <1>3, <1>7, <2>2, <2>3 DEF Accept, Handling
  <2> QED BY <1>1, <2>1, <2>4 DEF TypeOK
<1>8. ASSUME NEW f \in Open, Once(f) \/ End(f) \/ Again(f) PROVE TypeOK'
  <2>1. NetType'
    <3>1. CASE Receive(f) \/ Fail(f) \/ End(f)
      BY <1>2, <1>4, <3>1, OpenClient, CallTypes DEF Receive, Fail, End
    <3>2. CASE UNCHANGED netVars
      BY <1>2, <3>2 DEF netVars, NetType
    <3> QED BY <1>8, <3>1, <3>2 DEF Once, Again
  <2>2. ready # << >> /\ (ready' = ready \/ ready' = Tail(ready))
    BY <1>8 DEF Once, Again, End, Receive, Fail, Handling
  <2>3. conn' = conn \/ conn' = [conn EXCEPT ![f] = NoClient]
    BY <1>8 DEF Once, Again, End, Receive, Fail
  <2> QED BY <1>1, <1>2, <1>3, <2>1, <2>2, <2>3 DEF TypeOK
<1>9. ASSUME NEW b \in BOOLEAN, Echo(b) PROVE TypeOK'
  <2>1. NetType'
    BY <1>2, <1>9, WriteTypes DEF Echo
  <2> QED BY <1>1, <1>2, <1>9, <2>1 DEF Echo, TypeOK, readyVars
<1>10. Level \in SUBSET (FDs \cup {Serv}) /\ Edge \in SUBSET (FDs \cup {Serv})
  BY DEF Level, Edge, Requests, Open
<1>11. Ascending(Level) \subseteq AnyOrder(Level)
  BY DEF Ascending
<1> QED BY <1>6, <1>7, <1>8, <1>9, <1>10, <1>11
        DEF ByReadiness, echo_selectserv, echo_epollserv, echo_EPLTserv, echo_EPETserv, LevelLoop

(* The servers that fork, and the logger, keep the types.                    *)
LEMMA ForkingTypes ==
  ASSUME TypeOK, \A c \in Clients : Streams(c),
         ByForking, UNCHANGED <<readyVars, seqVars>>
  PROVE  TypeOK'
<1> DEFINE States == {"none", "run", "zombie", "reaped"}
           Children == [Clients \cup {logger} -> States]
           Pairs == Seq(Clients \X Nat)
<1>1. RestType' <=> /\ child' \in Children /\ entry' \in [Clients -> Seq(Nat)]
                    /\ pipe' \in Pairs /\ logged' \in Pairs
                    /\ reads' \in Nat /\ sigchld' \in BOOLEAN
  BY DEF TypeOK, RestType, readyVars, seqVars
<1>2. /\ NetType /\ child \in Children /\ entry \in [Clients -> Seq(Nat)]
      /\ pipe \in Pairs /\ logged \in Pairs /\ reads \in Nat /\ sigchld \in BOOLEAN
  BY DEF TypeOK, RestType
<1>3. ForkBuf \in Nat
  BY EchoForkAssumption
<1>4. \A p \in Clients \cup {logger}, st \in States : [child EXCEPT ![p] = st] \in Children
  BY <1>2
<1> HIDE DEF Children
<1>5. CASE AcceptAndFork
  <2>1. NetType' /\ Head(backlog) \in Clients
    BY <1>2, <1>5, CallTypes, BacklogHead DEF AcceptAndFork, TakeBacklog
  <2>2. child' \in Children
    BY <1>4, <1>5, <2>1 DEF AcceptAndFork
  <2> QED BY <1>1, <1>2, <1>5, <2>1, <2>2 DEF AcceptAndFork, TypeOK, logVars
<1>6. CASE Reap
  <2>1. NetType' /\ DOMAIN child = Clients \cup {logger}
    BY <1>2, <1>6 DEF Reap, netVars, NetType, Children
  <2>2. child' \in Children
    BY <1>2, <1>4, <1>6, <2>1 DEF Reap
  <2> QED BY <1>1, <1>2, <1>6, <2>1, <2>2 DEF Reap, TypeOK, logVars
<1>7. ASSUME NEW c \in Clients, ChildReads(c) PROVE TypeOK'
  <2>1. NetType'
    BY <1>2, <1>3, <1>7, CallTypes DEF ChildReads
  <2>2. entry' \in [Clients -> Seq(Nat)]
    <3>1. buf'[c] \in Seq(Nat) /\ << >> \in Seq(Nat)
      BY <2>1 DEF NetType
    <3> QED BY <1>2, <1>7, <3>1 DEF ChildReads
  <2> QED BY <1>1, <1>2, <1>7, <2>1, <2>2 DEF ChildReads, TypeOK, logVars
<1>8. ASSUME NEW c \in Clients, ChildFails(c) PROVE TypeOK'
  <2>1. NetType'
    BY <1>2, <1>8, CallTypes DEF ChildFails
  <2> QED BY <1>1, <1>2, <1>8, <2>1 DEF ChildFails, TypeOK, forkVars, logVars
<1>9. ASSUME NEW c \in Clients, ChildEchoes(c) PROVE TypeOK'
  <2>1. NetType'
    BY <1>2, <1>9, WriteTypes DEF ChildEchoes
  <2>2. child' \in Children /\ sigchld' \in BOOLEAN /\ UNCHANGED <<entry, logVars>>
    <3>1. CASE Ends(c) /\ UNCHANGED <<entry, logVars>>
      BY <1>4, <3>1 DEF Ends
    <3>2. CASE UNCHANGED forkVars
      BY <1>2, <3>2 DEF forkVars, logVars
    <3> QED BY <1>9, <3>1, <3>2 DEF ChildEchoes
  <2> QED BY <1>1, <1>2, <2>1, <2>2 DEF TypeOK, logVars
<1>10. ASSUME NEW c \in Clients, ChildLogs(c) PROVE TypeOK'
  <2>1. NetType'
    BY <1>2, <1>10 DEF ChildLogs, netVars, NetType
  <2>2. pipe' \in Pairs
    BY <1>2, <1>10, Entries DEF ChildLogs
  <2>3. entry' \in [Clients -> Seq(Nat)]
    BY <1>2, <1>10 DEF ChildLogs
  <2> QED BY <1>1, <1>2, <1>10, <2>1, <2>2, <2>3 DEF ChildLogs, TypeOK
<1>11. ASSUME NEW c \in Clients, ChildEnds(c) PROVE TypeOK'
  <2>1. NetType'
    BY <1>2, <1>11, CallTypes DEF ChildEnds
  <2>2. child' \in Children /\ sigchld' \in BOOLEAN
    BY <1>4, <1>11 DEF ChildEnds, Ends
  <2> QED BY <1>1, <1>2, <1>11, <2>1, <2>2 DEF ChildEnds, TypeOK, logVars
<1>12. CASE Logger
  <2> DEFINE n == IF Len(pipe) < ForkBuf THEN Len(pipe) ELSE ForkBuf
  <2>1. NetType'
    BY <1>2, <1>12 DEF Logger, netVars, NetType
  <2>2. n \in 0 .. Len(pipe)
    BY <1>2, <1>3
  <2>3. logged' = logged \o SubSeq(pipe, 1, n) /\ pipe' = SubSeq(pipe, n + 1, Len(pipe))
    BY <1>12 DEF Logger
  <2> HIDE DEF n
  <2>4. SubSeq(pipe, 1, n) \in Pairs /\ SubSeq(pipe, n + 1, Len(pipe)) \in Pairs
    BY <1>2, <2>2
  <2>5. logged' \in Pairs /\ pipe' \in Pairs
    BY <1>2, <2>3, <2>4, ConcatProperties
  <2>6. child' \in Children /\ sigchld' \in BOOLEAN
    BY <1>2, <1>4, <1>12 DEF Logger, Ends
  <2>7. reads' \in Nat /\ entry' = entry
    BY <1>2, <1>12 DEF Logger
  <2> QED BY <1>1, <1>2, <2>1, <2>5, <2>6, <2>7 DEF TypeOK
<1> QED BY <1>5, <1>6, <1>7, <1>8, <1>9, <1>10, <1>11, <1>12
        DEF ByForking, echo_mpserv, echo_storeserv, Child

(* A read into a buffer that was not cleared (server3.c): the new bytes,     *)
(* then what was longer of the old.                                          *)
LEMMA MessageBytes ==
  ASSUME NEW q \in Seq(Nat), NEW r \in Seq(Nat)
  PROVE  LET s == q \o SubSeq(r, Len(q) + 1, Len(r))
         IN /\ s \in Seq(Nat)
            /\ Len(s) >= Len(q)
            /\ \A k \in 1 .. Len(q) : s[k] = q[k]
            /\ \A k \in 1 .. Len(s) : k > Len(q) => k \in 1 .. Len(r) /\ s[k] = r[k]
<1> DEFINE t == SubSeq(r, Len(q) + 1, Len(r))
           s == q \o t
<1>1. Len(q) \in Nat /\ Len(r) \in Nat
  OBVIOUS
<1>2. /\ t \in Seq(Nat) /\ Len(t) = IF Len(q) + 1 =< Len(r) THEN Len(r) - Len(q) ELSE 0
      /\ \A k \in 1 .. Len(t) : t[k] = r[Len(q) + k]
  <2>1. \A i \in Len(q) + 1 .. Len(r) : r[i] \in Nat
    BY <1>1
  <2>2. /\ SubSeq(r, Len(q) + 1, Len(r)) \in Seq(Nat)
        /\ Len(SubSeq(r, Len(q) + 1, Len(r)))
             = IF Len(q) + 1 =< Len(r) THEN Len(r) - (Len(q) + 1) + 1 ELSE 0
        /\ \A i \in 1 .. Len(r) - (Len(q) + 1) + 1 :
             SubSeq(r, Len(q) + 1, Len(r))[i] = r[Len(q) + 1 + i - 1]
    BY <1>1, <2>1, SubSeqProperties
  <2>3. CASE Len(q) + 1 =< Len(r)
    <3>1. Len(t) = Len(r) - Len(q) /\ Len(r) - (Len(q) + 1) + 1 = Len(r) - Len(q)
      BY <1>1, <2>2, <2>3
    <3> QED BY <1>1, <2>2, <2>3, <3>1, SMTT(30)
  <2>4. CASE ~(Len(q) + 1 =< Len(r))
    <3>1. Len(t) = 0
      BY <2>2, <2>4
    <3> QED BY <1>1, <2>2, <2>4, <3>1, SMTT(30)
  <2> QED BY <2>3, <2>4
<1> HIDE DEF t
<1>3. /\ q \o t \in Seq(Nat) /\ Len(q \o t) = Len(q) + Len(t)
      /\ \A i \in 1 .. Len(q) + Len(t) : (q \o t)[i] = IF i =< Len(q) THEN q[i] ELSE t[i - Len(q)]
  BY <1>2, ConcatProperties
<1> HIDE DEF s
<1>4. s \in Seq(Nat) /\ Len(s) >= Len(q) /\ \A k \in 1 .. Len(q) : s[k] = q[k]
  BY <1>1, <1>2, <1>3 DEF s
<1>5. ASSUME NEW k \in 1 .. Len(s), k > Len(q) PROVE k \in 1 .. Len(r) /\ s[k] = r[k]
  <2>1. k - Len(q) \in 1 .. Len(t) /\ Len(q) + (k - Len(q)) = k /\ k =< Len(r)
    BY <1>1, <1>2, <1>3, <1>5 DEF s
  <2>2. s[k] = t[k - Len(q)] /\ t[k - Len(q)] = r[k]
    BY <1>1, <1>2, <1>3, <1>5, <2>1 DEF s
  <2> QED BY <1>1, <1>5, <2>1, <2>2
<1> QED BY <1>4, <1>5 DEF s, t

(* What strlen counts: the message, and behind a full buffer foreign bytes.  *)
LEMMA StringBytes ==
  ASSUME NEW m \in Seq(Nat), NEW s \in Strings(m)
  PROVE  /\ s \in Seq(Nat) /\ Len(s) \in Nat /\ Len(s) >= Len(m)
         /\ \A k \in 1 .. Len(m) : s[k] = m[k]
         /\ \A k \in 1 .. Len(s) : k > Len(m) => s[k] = Foreign /\ k > SeqBuf
<1>1. PICK n \in IF Len(m) < SeqBuf THEN {0} ELSE 0 .. Behind :
           s = m \o [k \in 1 .. n |-> Foreign]
  BY DEF Strings
<1>2. n \in Nat /\ SeqBuf \in Nat /\ Len(m) \in Nat /\ (n > 0 => Len(m) >= SeqBuf)
  BY EchoSeqAssumption
<1> DEFINE z == [k \in 1 .. n |-> Foreign]
<1>3. z \in Seq(Nat) /\ Len(z) = n /\ \A k \in 1 .. n : z[k] = Foreign
  BY <1>2 DEF Foreign
<1> HIDE DEF z
<1>4. /\ m \o z \in Seq(Nat) /\ Len(m \o z) = Len(m) + Len(z)
      /\ \A k \in 1 .. Len(m) + Len(z) :
           (m \o z)[k] = IF k =< Len(m) THEN m[k] ELSE z[k - Len(m)]
  BY <1>3, ConcatProperties
<1>5. s = m \o z
  BY <1>1 DEF z
<1>6. s \in Seq(Nat) /\ Len(s) = Len(m) + n
  BY <1>3, <1>4, <1>5
<1>7. \A k \in 1 .. Len(m) : s[k] = m[k]
  BY <1>2, <1>3, <1>4, <1>5
<1>8. ASSUME NEW k \in 1 .. Len(s), k > Len(m) PROVE s[k] = Foreign /\ k > SeqBuf
  <2>1. k - Len(m) \in 1 .. n /\ ~ (k =< Len(m)) /\ k > SeqBuf /\ k \in 1 .. Len(m) + n
    BY ONLY <1>2, <1>6, <1>8, k \in 1 .. Len(s)
  <2>2. s[k] = z[k - Len(m)]
    BY <1>3, <1>4, <1>5, <2>1
  <2> QED BY <1>3, <2>1, <2>2
<1> QED BY <1>2, <1>6, <1>7, <1>8

(* What the buffer holds for the next client is as long, and none of it its. *)
LEMMA OthersBytes ==
  ASSUME message \in Seq(Nat)
  PROVE  Others \in Seq(Nat) /\ Alien(Others)
<1>1. Len(message) \in Nat /\ Foreign \in Nat
  BY DEF Foreign
<1>2. Others \in Seq(Nat) /\ Len(Others) = Len(message)
  BY <1>1 DEF Others
<1> QED BY <1>2 DEF Others, Alien

(* The servers of one client at a time keep the types.                       *)
LEMMA InTurnTypes ==
  ASSUME TypeOK, \A c \in Clients : Streams(c),
         InTurn, UNCHANGED <<readyVars, forkVars>>
  PROVE  TypeOK'
<1>1. RestType' <=> /\ client' \in Clients \cup {Nobody} /\ turn' \in Nat
                    /\ message' \in Seq(Nat) /\ passes' \in Nat
  BY DEF TypeOK, RestType, readyVars, forkVars, logVars
<1>2. /\ NetType /\ client \in Clients \cup {Nobody} /\ turn \in Nat
      /\ message \in Seq(Nat) /\ passes \in Nat
  BY DEF TypeOK, RestType
<1>3. SeqBuf \in Nat /\ Turns[program] \in Nat
  BY <1>2, EchoSeqAssumption, EchoServersAssumption DEF NetType
<1>4. ASSUME NEW b \in BOOLEAN, AcceptNext(b) PROVE TypeOK'
  <2>1. NetType' /\ Head(backlog) \in Clients
    BY <1>2, <1>4, CallTypes, BacklogHead DEF AcceptNext, TakeBacklog
  <2>2. message' \in Seq(Nat)
    BY <1>2, <1>4, OthersBytes DEF AcceptNext
  <2> QED BY <1>1, <1>2, <1>4, <2>1, <2>2 DEF AcceptNext, TypeOK
<1>5. CASE AcceptFails
  <2>1. /\ Head(backlog) \in Clients /\ Tail(backlog) \in Seq(Clients)
        /\ peer' = [peer EXCEPT ![Head(backlog)] = "closed"] /\ backlog' = Tail(backlog)
    BY <1>2, <1>5, BacklogHead DEF AcceptFails
  <2>2. peer' \in [Clients -> PeerStates]
    BY <1>2, <2>1 DEF NetType, PeerStates
  <2>3. NetType'
    BY <1>2, <1>5, <2>1, <2>2 DEF AcceptFails, NetType
  <2> QED BY <1>1, <1>2, <1>3, <1>5, <2>3 DEF AcceptFails, TypeOK
<1>6. ASSUME NEW c \in Clients, Hangup(c) PROVE TypeOK'
  <2>1. NetType'
    BY <1>2, <1>6, CallTypes DEF Hangup
  <2> QED BY <1>1, <1>2, <1>6, <2>1 DEF Hangup, TypeOK
<1>7. CASE Puts
  <2>1. NetType'
    BY <1>2, <1>7, WriteTypes DEF Puts
  <2> QED BY <1>1, <1>2, <1>7, <2>1 DEF Puts, TypeOK, seqVars
<1>8. ASSUME NEW c \in Clients, EchoBuffer(c) PROVE TypeOK'
  <2>1. PICK n \in Pieces(c, SeqBuf) : /\ heard' = [heard EXCEPT ![c] = @ + n]
                                       /\ message' = Overwritten(Bytes(c, n))
    BY <1>8 DEF EchoBuffer
  <2>2. n \in Nat
    BY <1>2, <1>3, <1>8, PieceSize DEF EchoBuffer, NetType
  <2>3. message' \in Seq(Nat)
    BY <1>2, <2>1, <2>2, BytesRead, MessageBytes DEF Overwritten, NetType
  <2>4. heard' \in [Clients -> Nat] /\ buf' \in [Clients -> Seq(Nat)]
    <3>1. heard \in [Clients -> Nat] /\ buf \in [Clients -> Seq(Nat)]
      BY <1>2 DEF NetType
    <3>2. heard' = [heard EXCEPT ![c] = heard[c] + n]
      BY <2>1
    <3>3. PICK q \in Strings(message') : buf' = [buf EXCEPT ![c] = q]
      BY <1>8 DEF EchoBuffer
    <3>4. heard' \in [Clients -> Nat]
      BY ONLY <2>2, <3>1, <3>2, c \in Clients
    <3>5. q \in Seq(Nat)
      <4> DEFINE m == message'
      <4> HIDE DEF m
      <4>1. m \in Seq(Nat) /\ q \in Strings(m)
        BY <2>3 DEF m
      <4> QED BY ONLY <4>1, StringBytes
    <3>6. buf' \in [Clients -> Seq(Nat)]
      BY ONLY <3>1, <3>3, <3>5
    <3> QED BY <3>4, <3>6
  <2>5. NetType'
    BY <1>2, <1>8, <2>4 DEF EchoBuffer, NetType
  <2> QED BY <1>1, <1>2, <1>8, <2>3, <2>5 DEF EchoBuffer, TypeOK
<1>9. ASSUME NEW c \in Clients, EchoAfterReset(c) \/ EchoAgain(c) PROVE TypeOK'
  <2>1. peer' = peer \/ peer' = [peer EXCEPT ![c] = "reset"]
    BY <1>9 DEF EchoAfterReset, EchoAgain
  <2>2. /\ UNCHANGED <<program, cst, typed, said, got, news, backlog, heard, out, dead,
                       client, turn, message>>
        /\ passes' \in {0, 1, passes}
    BY <1>9 DEF EchoAfterReset, EchoAgain, seqVars
  <2>a. PICK q \in Strings(message) \cup {message} : buf' = [buf EXCEPT ![c] = q]
    BY <1>9 DEF EchoAfterReset, EchoAgain
  <2>b. q \in Seq(Nat)
    BY <1>2, StringBytes
  <2>3. peer' \in [Clients -> PeerStates] /\ buf' \in [Clients -> Seq(Nat)]
    BY <1>2, <2>1, <2>a, <2>b DEF NetType, PeerStates
  <2>4. NetType'
    BY <1>2, <2>2, <2>3 DEF NetType
  <2> QED BY <1>1, <1>2, <2>2, <2>4 DEF TypeOK
<1>10. CASE server3
  <2>1. ASSUME NEW c \in Clients, Pass(c), Read(c, SeqBuf) \/ ReadFails(c) \/ UNCHANGED netVars
        PROVE  TypeOK'
    <3>1. NetType'
      BY <1>2, <1>3, <2>1, CallTypes DEF netVars, NetType
    <3> QED BY <1>1, <1>2, <2>1, <3>1 DEF Pass, TypeOK
  <2> QED BY <1>4, <1>5, <1>6, <1>7, <1>10, <2>1 DEF server3
<1>11. ASSUME NEW c \in Clients, EchoLine(c) PROVE TypeOK'
  <2>1. PICK k \in 1 .. typed[c] : /\ heard' = [heard EXCEPT ![c] = LineEnd(c)[k]]
                                   /\ message' = Bytes(c, Lines[c][k])
    BY <1>11 DEF EchoLine
  <2>2. k \in 1 .. Len(Lines[c]) /\ k \in 0 .. Len(Lines[c])
    <3>1. typed[c] \in 0 .. Len(Lines[c]) /\ Len(Lines[c]) \in Nat
      <4>1. Len(Lines[c]) \in Nat
        BY LineEnds
      <4>2. typed[c] \in Nat /\ typed[c] =< Len(Lines[c])
        BY <1>2 DEF Streams, NetType
      <4> QED BY ONLY <4>1, <4>2
    <3> QED BY ONLY <3>1, k \in 1 .. typed[c]
  <2>3. LineEnd(c)[k] \in Nat /\ Lines[c][k] \in Nat
    BY <2>2, LineEnds
  <2>4. message' \in Seq(Nat)
    BY <1>2, <2>1, <2>3, BytesRead DEF NetType
  <2>5. heard' \in [Clients -> Nat] /\ buf' \in [Clients -> Seq(Nat)]
    <3>1. heard \in [Clients -> Nat] /\ buf \in [Clients -> Seq(Nat)]
      BY <1>2 DEF NetType
    <3>2. buf' = [buf EXCEPT ![c] = message']
      BY <1>11 DEF EchoLine
    <3>3. heard' \in [Clients -> Nat]
      BY ONLY <2>1, <2>3, <3>1, c \in Clients
    <3>4. buf' \in [Clients -> Seq(Nat)]
      BY ONLY <2>4, <3>1, <3>2
    <3> QED BY <3>3, <3>4
  <2>6. NetType'
    BY <1>2, <1>11, <2>5 DEF EchoLine, NetType
  <2> QED BY <1>1, <1>2, <1>11, <2>4, <2>6 DEF EchoLine, TypeOK
<1>12. StrlenLoop => TypeOK'
  BY <1>4, <1>5, <1>6, <1>7, <1>8, <1>9 DEF StrlenLoop
<1>13. echo_stdserv => TypeOK'
  BY <1>4, <1>6, <1>7, <1>9, <1>11 DEF echo_stdserv
<1> QED BY <1>10, <1>12, <1>13 DEF InTurn, server, server2

(* Every step of the servers and of their clients keeps the types.           *)
LEMMA NextTypes ==
  ASSUME TypeOK, \A c \in Clients : Streams(c), [Next]_vars
  PROVE  TypeOK'
<1>1. ASSUME NEW c \in Clients, Client(c), UNCHANGED <<readyVars, forkVars, seqVars>>
      PROVE  TypeOK'
  BY <1>1, ClientTypes DEF TypeOK, RestType, readyVars, forkVars, logVars, seqVars
<1>2. CASE UNCHANGED vars
  BY <1>2 DEF vars, netVars, readyVars, forkVars, logVars, seqVars, TypeOK, NetType, RestType
<1> QED BY <1>1, <1>2, ReadinessTypes, ForkingTypes, InTurnTypes DEF Next, Over

-----------------------------------------------------------------------------
(* Steps, by what they do to a connection.  A step concerns one client; of   *)
(* the others nothing changes, nor for the one whose turn it is the message. *)
Same(c) == UNCHANGED <<cst[c], typed[c], said[c], got[c], peer[c], heard[c], buf[c], out[c]>>

SameTurn(c) == ~Plain => /\ client' = c <=> client = c
                         /\ client = c => UNCHANGED <<message, passes>>

Joins(c) ==
  /\ cst[c] = "new" /\ cst'[c] = "typing" /\ peer'[c] = "open"
  /\ UNCHANGED <<typed[c], said[c], got[c], heard[c], buf[c], out[c]>>

Types(c) ==
  /\ cst[c] = "typing" /\ peer[c] = "open" /\ typed[c] + 1 \in 1 .. Len(Lines[c])
  /\ cst'[c] = "writing" /\ typed'[c] = typed[c] + 1
  /\ UNCHANGED <<said[c], got[c], peer[c], heard[c], buf[c], out[c]>>

Speaks(c) ==
  /\ cst[c] = "writing" /\ peer[c] = "open"
  /\ said'[c] \in Nat /\ said[c] < said'[c] /\ said'[c] =< LineEnd(c)[typed[c]]
  /\ \/ cst'[c] = "writing"
     \/ /\ said'[c] = LineEnd(c)[typed[c]]
        /\ cst'[c] = IF c \in Split THEN "typing" ELSE "waiting"
  /\ UNCHANGED <<typed[c], got[c], peer[c], heard[c], buf[c], out[c]>>

Hears(c) ==
  /\ got'[c] = Len(out[c])
  /\ \/ c \in Split /\ Stays(c) /\ cst'[c] = cst[c]
     \/ /\ c \notin Split /\ cst[c] = "waiting" /\ cst'[c] \in {"waiting", "typing"}
        /\ program = "echo_stdserv" /\ cst'[c] = "typing" => got'[c] >= said[c]
  /\ UNCHANGED <<typed[c], said[c], peer[c], heard[c], buf[c], out[c]>>

Quits(c) ==
  /\ cst[c] = "typing" /\ peer[c] = "open"
  /\ \/ c \in Split /\ cst'[c] = "reading" /\ peer'[c] = "half"
     \/ /\ c \notin Split /\ cst'[c] = "gone"
        /\ peer'[c] = IF got[c] < Len(out[c]) THEN "error" ELSE "fin"
  /\ UNCHANGED <<typed[c], said[c], got[c], heard[c], buf[c], out[c]>>

Leaves(c) ==
  /\ cst[c] = "reading" /\ peer[c] = "closed" /\ cst'[c] = "gone"
  /\ UNCHANGED <<typed[c], said[c], got[c], peer[c], heard[c], buf[c], out[c]>>

\* by the kernel and the server
Sends(c) ==
  /\ Writable(c)
  /\ out'[c] = out[c] \o SubSeq(buf[c], 1, Taken(c))
  /\ buf'[c] = IF program = "echo_EPETserv" THEN << >>
                                            ELSE SubSeq(buf[c], Taken(c) + 1, Len(buf[c]))
  /\ UNCHANGED <<cst[c], typed[c], said[c], got[c], peer[c], heard[c]>>

Loses(c) ==
  /\ buf[c] # << >> /\ buf'[c] = << >>
  /\ \/ peer[c] = "fin" /\ peer'[c] \in {"fin", "reset"}
     \/ peer[c] = "error" /\ peer'[c] = "reset"
     \/ peer[c] = "reset" /\ peer'[c] = "reset"
  /\ UNCHANGED <<cst[c], typed[c], said[c], got[c], heard[c], out[c]>>

Gets(c) ==
  /\ Plain /\ buf[c] = << >>
  /\ \E n \in 1 .. said[c] - heard[c] : heard'[c] = heard[c] + n /\ buf'[c] = Bytes(c, n)
  /\ UNCHANGED <<cst[c], typed[c], said[c], got[c], peer[c], out[c]>>

Fails(c) ==
  /\ Failing(c) /\ peer'[c] = "reset" /\ Plain
  /\ UNCHANGED <<cst[c], typed[c], said[c], got[c], heard[c], buf[c], out[c]>>

Closes(c) ==
  /\ peer[c] # "new" /\ peer'[c] = "closed"
  /\ client' = c /\ ~Plain => client = c /\ UNCHANGED <<message, passes>>
  /\ UNCHANGED <<cst[c], typed[c], said[c], got[c], heard[c], buf[c], out[c]>>

Begins(c) ==
  /\ Same(c) /\ client # c /\ client' = c /\ passes' = 0
  /\ Has(backlog, c)
  /\ message' = IF program \in {"server", "server2"} THEN << >> ELSE Others

Refills(c) ==
  /\ program \in {"server", "server2"} /\ client = c /\ client' = c /\ buf[c] = << >>
  /\ \E n \in 1 .. said[c] - heard[c] : heard'[c] = heard[c] + n
                                        /\ message' = Overwritten(Bytes(c, n))
  /\ buf'[c] \in Strings(message')
  /\ UNCHANGED <<cst[c], typed[c], said[c], got[c], peer[c], out[c]>>

Rewrites(c) ==
  /\ program \in {"server", "server2"} /\ client = c /\ client' = c /\ message' = message
  /\ Failing(c) /\ peer'[c] = "reset" /\ buf'[c] \in Strings(message)
  /\ UNCHANGED <<cst[c], typed[c], said[c], got[c], heard[c], out[c]>>

PutsLine(c) ==
  /\ program = "echo_stdserv" /\ client = c /\ client' = c /\ buf[c] = << >> /\ passes' = passes
  /\ HasData(c)
  /\ \E k \in 1 .. typed[c] : /\ heard[c] = LineEnd(c)[k-1] /\ heard'[c] = LineEnd(c)[k]
                              /\ LineEnd(c)[k] =< said[c]
                              /\ message' = Bytes(c, Lines[c][k])
  /\ buf'[c] = message'
  /\ UNCHANGED <<cst[c], typed[c], said[c], got[c], peer[c], out[c]>>

PutsAgain(c) ==
  /\ program = "echo_stdserv" /\ client = c /\ client' = c /\ buf[c] = << >> /\ message' = message
  /\ passes = 0 /\ buf'[c] = message
  /\ \/ Ended(c) /\ passes' = 1 /\ UNCHANGED peer[c]
     \/ Failing(c) /\ peer'[c] = "reset"
  /\ UNCHANGED <<cst[c], typed[c], said[c], got[c], heard[c], out[c]>>

ByClient(c) == Joins(c) \/ Types(c) \/ Speaks(c) \/ Hears(c) \/ Quits(c) \/ Leaves(c)
ByWrite(c)  == Sends(c) \/ Loses(c)
Move(c) ==
  \/ (ByClient(c) \/ ByWrite(c) \/ Gets(c) \/ Fails(c)) /\ SameTurn(c)
  \/ Closes(c) \/ Begins(c) \/ Refills(c) \/ Rewrites(c) \/ PutsLine(c) \/ PutsAgain(c)

Alone(c) == \A d \in Clients \ {c} : Same(d)
Rest(c)  == \A d \in Clients \ {c} : Same(d) /\ SameTurn(d)

(* A step of a client touches its own connection only, as ByClient says.     *)
LEMMA ClientMoves ==
  ASSUME NetType, NEW c \in Clients, Streams(c), Client(c)
  PROVE  Alone(c) /\ ByClient(c) /\ program' = program
<1> USE DEF NetType, Alone, Same
<1>1. CASE Connect(c)
  <2>1. Alone(c) /\ Joins(c)
    BY <1>1 DEF Connect, Joins
  <2> QED BY <1>1, <2>1 DEF Connect, ByClient
<1>2. CASE Type(c)
  <2>1. typed'[c] = typed[c] + 1 /\ typed[c] + 1 \in 1 .. Len(Lines[c])
    BY <1>2, LineEnds DEF Type
  <2>2. Alone(c)
    BY <1>2 DEF Type
  <2>3. Types(c)
    BY <1>2, <2>1 DEF Type, Types
  <2> QED BY <1>2, <2>2, <2>3 DEF Type, ByClient
<1>2b. CASE Send(c)
  <2>1. /\ said'[c] = said[c] + Fits(c) /\ cst[c] = "writing" /\ peer[c] = "open"
        /\ cst'[c] = IF said'[c] < LineEnd(c)[typed[c]] THEN "writing"
                     ELSE IF c \in Split THEN "typing" ELSE "waiting"
        /\ UNCHANGED <<typed[c], got[c], peer[c], heard[c], buf[c], out[c], program>>
    BY <1>2b DEF Send
  <2>2. /\ Fits(c) \in Nat /\ Fits(c) >= 1 /\ LineEnd(c)[typed[c]] \in Nat
        /\ said[c] + Fits(c) \in Nat /\ said[c] + Fits(c) =< LineEnd(c)[typed[c]]
    BY <1>2b, FitsSize DEF Send
  <2>3. said[c] \in Nat
    OBVIOUS
  <2>4. said[c] < said'[c] /\ said'[c] \in Nat /\ said'[c] =< LineEnd(c)[typed[c]]
    BY ONLY <2>1, <2>2, <2>3
  <2>5. said'[c] < LineEnd(c)[typed[c]] \/ said'[c] = LineEnd(c)[typed[c]]
    BY ONLY <2>2, <2>4
  <2>6. Speaks(c)
    BY <2>1, <2>4, <2>5 DEF Speaks
  <2>7. Alone(c)
    BY <1>2b DEF Send
  <2> QED BY <2>1, <2>6, <2>7 DEF ByClient
<1>3. ASSUME NEW st, Heard(c, st)
      PROVE  /\ Alone(c) /\ program' = program
             /\ got'[c] = Len(out[c]) /\ cst'[c] = st
             /\ UNCHANGED <<typed[c], said[c], peer[c], heard[c], buf[c], out[c]>>
  BY <1>3 DEF Heard
<1>4. CASE c \notin Split /\ ((HearSome(c) /\ program # "echo_stdserv") \/ HearLine(c))
  <2>1. cst[c] = "waiting"
    BY <1>4 DEF HearSome, HearLine
  <2>2. CASE HearSome(c) /\ program # "echo_stdserv"
    BY <1>3, <1>4, <2>1, <2>2 DEF HearSome, Hears, ByClient
  <2>3. CASE HearLine(c)
    <3> DEFINE st == IF got'[c] < said[c] THEN "waiting" ELSE "typing"
    <3>1. Heard(c, st)
      BY <2>3 DEF HearLine
    <3>2. /\ Alone(c) /\ program' = program /\ got'[c] = Len(out[c]) /\ cst'[c] = st
          /\ UNCHANGED <<typed[c], said[c], peer[c], heard[c], buf[c], out[c]>>
      BY <1>3, <3>1
    <3>3. got'[c] \in Nat /\ said[c] \in Nat
      BY <3>2
    <3>4. st = "typing" => got'[c] >= said[c]
      BY <3>3
    <3> QED BY <1>4, <2>1, <3>2, <3>4 DEF Hears, ByClient
  <2> QED BY <1>4, <2>2, <2>3
<1>5. CASE c \in Split /\ HearAlways(c)
  BY <1>3, <1>5 DEF HearAlways, Hears, ByClient
<1>6. CASE Quit(c)
  <2>1. Alone(c) /\ Quits(c)
    BY <1>6 DEF Quit, Quits
  <2> QED BY <1>6, <2>1 DEF Quit, ByClient
<1>7. CASE Leave(c)
  <2>1. Alone(c) /\ Leaves(c)
    BY <1>7 DEF Leave, Leaves
  <2> QED BY <1>7, <2>1 DEF Leave, ByClient
<1> QED BY <1>1, <1>2, <1>2b, <1>4, <1>5, <1>6, <1>7
        DEF Client, echo_client, echo_stdclnt, client_week3, client_week2, client3, echo_mpclient

(* A write sends what the window has room for, or finds the peer gone.       *)
LEMMA WriteMoves ==
  ASSUME NetType, NEW c \in Clients, NEW v, Write(c, program # "echo_EPETserv", v)
  PROVE  Alone(c) /\ ByWrite(c) /\ program' = program
<1> USE DEF NetType, Alone, Same
<1>1. program' = program /\ UNCHANGED <<cst, typed, said, got, heard>> /\ buf[c] # << >>
  BY DEF Write
<1>2. CASE /\ peer[c] \in {"open", "half"} /\ UNCHANGED peer
           /\ out' = [out EXCEPT ![c] = @ \o SubSeq(buf[c], 1, Taken(c))]
           /\ buf' = [buf EXCEPT ![c] = IF program # "echo_EPETserv"
                                          THEN SubSeq(@, Taken(c) + 1, Len(@)) ELSE << >>]
  <2>1. Alone(c)
    BY <1>1, <1>2
  <2>2. Sends(c)
    BY <1>1, <1>2 DEF Sends, Writable
  <2> QED BY <1>1, <2>1, <2>2 DEF ByWrite
<1>3. CASE /\ \/ peer[c] \in {"fin", "error"}
                 /\ \E p \in {"reset"} \cup ({peer[c]} \cap {"fin"}) : peer' = [peer EXCEPT ![c] = p]
              \/ peer[c] = "reset" /\ UNCHANGED peer
           /\ buf' = [buf EXCEPT ![c] = << >>] /\ UNCHANGED out
  <2>1. Alone(c)
    BY <1>1, <1>3
  <2>2. Loses(c)
    BY <1>1, <1>3 DEF Loses
  <2> QED BY <1>1, <2>1, <2>2 DEF ByWrite
<1> QED BY <1>2, <1>3 DEF Write, Taken

(* A read gets new bytes, a read that fails finds a RST, and accept takes    *)
(* nothing out of a stream.                                                  *)
LEMMA CallMoves ==
  ASSUME NetType, NEW c \in Clients
  PROVE  /\ Plain /\ buf[c] = << >> => \A size \in Nat : Read(c, size) => Alone(c) /\ Gets(c)
         /\ Plain /\ ReadFails(c) => Alone(c) /\ Fails(c)
         /\ TakeBacklog => \A d \in Clients : Same(d)
<1> USE DEF NetType, Alone, Same
<1>1. ASSUME Plain, buf[c] = << >>, NEW size \in Nat, Read(c, size) PROVE Alone(c) /\ Gets(c)
  <2>1. PICK n \in Pieces(c, size) :
             heard' = [heard EXCEPT ![c] = @ + n] /\ buf' = [buf EXCEPT ![c] = Bytes(c, n)]
    BY <1>1 DEF Read
  <2>2. n \in Nat /\ 1 =< n /\ heard[c] + n =< said[c]
    BY <1>1, PieceSize DEF Read
  <2>3. n \in 1 .. said[c] - heard[c] /\ heard'[c] = heard[c] + n /\ buf'[c] = Bytes(c, n)
    BY <2>1, <2>2
  <2>4. Alone(c)
    BY <1>1, <2>1 DEF Read
  <2> QED BY <1>1, <2>3, <2>4 DEF Read, Gets
<1>2. ASSUME Plain, ReadFails(c) PROVE Alone(c) /\ Fails(c)
  BY <1>2 DEF ReadFails, Fails
<1>3. TakeBacklog => \A d \in Clients : Same(d)
  BY DEF TakeBacklog
<1> QED BY <1>1, <1>2, <1>3

(* close changes the state of its own connection, and of no stream.          *)
LEMMA CloseMoves ==
  ASSUME NetType, NEW c \in Clients, Close(c)
  PROVE  /\ Alone(c) /\ peer'[c] = "closed"
         /\ UNCHANGED <<cst[c], typed[c], said[c], got[c], heard[c], buf[c], out[c]>>
  BY DEF Close, NetType, Alone, Same

(* The names that stand for no client are no client's.                       *)
LEMMA NobodyIs ==
  ASSUME NEW c \in Clients
  PROVE  c # Nobody /\ c # NoClient /\ c # logger
  BY EchoSeqAssumption, EchoReadyAssumption, EchoForkAssumption

Moved == /\ program' = program
         /\ \/ \A d \in Clients : Same(d) /\ SameTurn(d)
            \/ \E c \in Clients : Rest(c) /\ Move(c)

(* Every step of select or epoll and its handlers is a move of at most one   *)
(* connection.                                                               *)
LEMMA ReadinessMoves ==
  ASSUME TypeOK, ByReadiness, UNCHANGED <<forkVars, seqVars>>
  PROVE  Moved
<1>1. NetType /\ BufSize[program] \in Nat
  BY EchoServersAssumption DEF TypeOK, NetType
<1>2. program \in ByLevel \cup {"echo_EPETserv"} /\ Plain
  BY DEF ByReadiness, echo_selectserv, echo_epollserv, echo_EPLTserv, echo_EPETserv, ByLevel, Plain
<1>3. \A c \in Clients : SameTurn(c)
  BY <1>2 DEF SameTurn
<1>4. CASE UNCHANGED netVars
  BY <1>3, <1>4 DEF netVars, Moved, Same
<1>5. ASSUME NEW s, NEW lists, Report(s, lists) PROVE Moved
  BY <1>3, <1>5 DEF Report, Moved, Same
<1>6. CASE Accept
  <2>1. TakeBacklog
    BY <1>6 DEF Accept
  <2>2. (\A d \in Clients : Same(d)) /\ program' = program
    BY <2>1 DEF TakeBacklog, Same
  <2> QED BY <1>3, <2>2 DEF Moved
<1>7. ASSUME NEW f \in Open, Receive(f) \/ Fail(f) \/ End(f) PROVE Moved
  <2>1. PICK c \in Clients : c = conn[f]
    BY OpenClient
  <2>2. program' = program
    BY <1>7 DEF Receive, Fail, End, Read, ReadFails, Close
  <2>3. CASE Receive(f)
    <3>1. Read(c, BufSize[program]) /\ buf[c] = << >>
      BY <2>1, <2>3 DEF Receive, Handling, Idle
    <3>2. Alone(c) /\ Gets(c)
      BY <1>1, <1>2, <2>1, <3>1, CallMoves
    <3> QED BY <1>3, <2>1, <2>2, <3>2 DEF Moved, Alone, Rest, Move
  <2>4. CASE Fail(f)
    <3>1. Alone(c) /\ Fails(c)
      BY <1>1, <1>2, <2>1, <2>4, CallMoves DEF Fail
    <3> QED BY <1>3, <2>1, <2>2, <3>1 DEF Moved, Alone, Rest, Move
  <2>5. CASE End(f)
    <3>1. /\ Alone(c) /\ peer'[c] = "closed" /\ peer[c] # "new"
          /\ UNCHANGED <<cst[c], typed[c], said[c], got[c], heard[c], buf[c], out[c]>>
      <4>1. Close(c) /\ peer[c] # "new"
        BY <2>1, <2>5 DEF End, Ended
      <4>2. NetType
        BY <1>1
      <4> QED BY <2>1, <4>1, <4>2, CloseMoves
    <3>2. Closes(c)
      BY <1>2, <3>1 DEF Closes
    <3> QED BY <1>3, <2>1, <2>2, <3>1, <3>2 DEF Moved, Alone, Rest, Move
  <2> QED BY <1>7, <2>3, <2>4, <2>5
<1>8. ASSUME NEW c \in Clients, Write(c, program # "echo_EPETserv", Clients) PROVE Moved
  <2>1. Alone(c) /\ ByWrite(c) /\ program' = program
    BY <1>1, <1>8, WriteMoves
  <2> QED BY <1>3, <2>1 DEF Moved, Alone, Rest, Move
<1>9. CASE Echo(program # "echo_EPETserv")
  BY <1>8, <1>9 DEF Echo
<1>10. ASSUME NEW lists, LevelLoop(lists), program # "echo_EPETserv" PROVE Moved
  BY <1>5, <1>6, <1>7, <1>9, <1>10 DEF LevelLoop, Once
<1>11. CASE echo_EPETserv
  BY <1>4, <1>5, <1>6, <1>7, <1>9, <1>11 DEF echo_EPETserv, Again
<1> QED BY <1>10, <1>11 DEF ByReadiness, echo_selectserv, echo_epollserv, echo_EPLTserv

(* So is every step of a parent, a child or the logger.                      *)
LEMMA ForkingMoves ==
  ASSUME TypeOK, ByForking, UNCHANGED <<readyVars, seqVars>>
  PROVE  Moved
<1>1. NetType /\ ForkBuf \in Nat
  BY EchoForkAssumption DEF TypeOK
<1>2. Plain /\ program # "echo_EPETserv"
  BY DEF ByForking, echo_mpserv, echo_storeserv, Plain
<1>3. \A c \in Clients : SameTurn(c)
  BY <1>2 DEF SameTurn
<1>4. CASE UNCHANGED netVars
  BY <1>3, <1>4 DEF netVars, Moved, Same
<1>5. CASE AcceptAndFork
  <2>1. (\A d \in Clients : Same(d)) /\ program' = program
    BY <1>5 DEF AcceptAndFork, TakeBacklog, Same
  <2> QED BY <1>3, <2>1 DEF Moved
<1>6. ASSUME NEW c \in Clients, Child(c) PROVE Moved
  <2>1. CASE ChildReads(c)
    <3>1. Alone(c) /\ Gets(c) /\ program' = program
      BY <1>1, <1>2, <2>1, CallMoves DEF ChildReads, Reads, Read
    <3> QED BY <1>3, <3>1 DEF Moved, Alone, Rest, Move
  <2>2. CASE ChildFails(c)
    <3>1. Alone(c) /\ Fails(c) /\ program' = program
      BY <1>1, <1>2, <2>2, CallMoves DEF ChildFails, ReadFails
    <3> QED BY <1>3, <3>1 DEF Moved, Alone, Rest, Move
  <2>3. CASE ChildEchoes(c)
    <3>1. Write(c, program # "echo_EPETserv", {c})
      BY <1>2, <2>3 DEF ChildEchoes
    <3>2. Alone(c) /\ ByWrite(c) /\ program' = program
      BY <1>1, <3>1, WriteMoves
    <3> QED BY <1>3, <3>2 DEF Moved, Alone, Rest, Move
  <2>4. CASE ChildLogs(c)
    BY <1>4, <2>4 DEF ChildLogs
  <2>5. CASE ChildEnds(c)
    <3>1. /\ Alone(c) /\ peer'[c] = "closed" /\ peer[c] # "new" /\ program' = program
          /\ UNCHANGED <<cst[c], typed[c], said[c], got[c], heard[c], buf[c], out[c]>>
      BY <1>1, <2>5, CloseMoves DEF ChildEnds, Ended, Close
    <3>2. Closes(c)
      BY <1>2, <3>1 DEF Closes
    <3> QED BY <1>3, <3>1, <3>2 DEF Moved, Alone, Rest, Move
  <2> QED BY <1>6, <2>1, <2>2, <2>3, <2>4, <2>5 DEF Child
<1>7. CASE Reap \/ Logger
  BY <1>4, <1>7 DEF Reap, Logger
<1> QED BY <1>5, <1>6, <1>7 DEF ByForking, echo_mpserv, echo_storeserv

(* And every step of a server of one client at a time.                       *)
LEMMA InTurnMoves ==
  ASSUME TypeOK, \A c \in Clients : Streams(c), OnePlace, InTurn, UNCHANGED <<readyVars, forkVars>>
  PROVE  Moved
<1>1. /\ NetType /\ SeqBuf \in Nat /\ \A c \in Clients : c # Nobody
      /\ program \in {"server", "server2"} => ~Plain
      /\ program = "echo_stdserv" => ~Plain
      /\ program = "server3" => Plain
  BY EchoSeqAssumption, NobodyIs DEF TypeOK, Plain
<1>2. program # "echo_EPETserv" /\ program \in {"server", "server2", "server3", "echo_stdserv"}
  BY DEF InTurn, server, server2, server3, echo_stdserv
<1>3. ASSUME NEW b \in BOOLEAN, AcceptNext(b), program # "server3", b <=> program # "echo_stdserv"
      PROVE  Moved
  <2>0. PICK c \in Clients : c = Head(backlog) /\ Has(backlog, c)
    BY <1>1, <1>3, BacklogHead DEF AcceptNext, TakeBacklog
  <2>1. /\ \A d \in Clients : Same(d)
        /\ client = Nobody /\ client' = c /\ passes' = 0 /\ program' = program
        /\ message' = IF b THEN << >> ELSE Others
    BY <1>1, <1>3, <2>0, CallMoves DEF AcceptNext, TakeBacklog
  <2>2. Begins(c)
    BY <1>1, <1>2, <1>3, <2>0, <2>1 DEF Begins
  <2>3. Rest(c)
    BY <1>1, <2>1 DEF Rest, SameTurn
  <2> QED BY <2>1, <2>2, <2>3 DEF Moved, Move
<1>4. ASSUME AcceptNext(FALSE), program = "server3" PROVE Moved
  BY <1>1, <1>4, CallMoves DEF AcceptNext, TakeBacklog, Moved, SameTurn
<1>5. CASE AcceptFails
  <2>1. PICK c \in Clients : c = Head(backlog) /\ Has(backlog, c)
    BY <1>1, <1>5, BacklogHead DEF AcceptFails
  <2>2. peer[c] # "new"
    BY <2>1 DEF OnePlace
  <2>3. peer' = [peer EXCEPT ![c] = "closed"]
        /\ UNCHANGED <<program, cst, typed, said, got, heard, buf, out, client, message, passes>>
    BY <1>5, <2>1 DEF AcceptFails
  <2>4. Closes(c)
    <3>1. peer'[c] = "closed"
      BY <1>1, <2>1, <2>3 DEF NetType
    <3> QED BY <2>2, <2>3, <3>1 DEF Closes
  <2>5. Rest(c)
    BY <1>1, <2>1, <2>3 DEF Rest, Same, SameTurn, NetType
  <2> QED BY <2>1, <2>3, <2>4, <2>5 DEF Moved, Move
<1>6. ASSUME NEW c \in Clients, client = c, Hangup(c) PROVE Moved
  <2>1. peer[c] # "new"
    BY <1>6 DEF OnePlace, Untouched
  <2>2. /\ Alone(c) /\ peer'[c] = "closed" /\ program' = program /\ client' = Nobody
        /\ UNCHANGED <<cst[c], typed[c], said[c], got[c], heard[c], buf[c], out[c]>>
    BY <1>1, <1>6, CloseMoves DEF Hangup, Close
  <2>3. Closes(c)
    BY <1>1, <2>1, <2>2 DEF Closes
  <2>4. Rest(c)
    BY <1>1, <1>6, <2>2 DEF Rest, Alone, SameTurn
  <2> QED BY <2>2, <2>3, <2>4 DEF Moved, Move
<1>7. CASE Puts
  <2>1. PICK c \in Clients : Write(c, program # "echo_EPETserv", Clients)
    BY <1>2, <1>7 DEF Puts
  <2>2. Alone(c) /\ ByWrite(c) /\ program' = program
    BY <1>1, <2>1, WriteMoves
  <2>3. \A d \in Clients : SameTurn(d)
    BY <1>7 DEF Puts, seqVars, SameTurn
  <2> QED BY <2>2, <2>3 DEF Moved, Alone, Rest, Move
<1>8. ASSUME NEW c \in Clients, EchoBuffer(c), program \in {"server", "server2"} PROVE Moved
  <2>1. PICK n \in Pieces(c, SeqBuf) : /\ heard' = [heard EXCEPT ![c] = @ + n]
                                       /\ message' = Overwritten(Bytes(c, n))
    BY <1>8 DEF EchoBuffer
  <2>2. n \in Nat /\ 1 =< n /\ heard[c] + n =< said[c]
    BY <1>1, <1>8, PieceSize DEF EchoBuffer, NetType
  <2>3. n \in 1 .. said[c] - heard[c] /\ heard'[c] = heard[c] + n
    BY <1>1, <2>1, <2>2 DEF NetType
  <2>4. PICK q \in Strings(message') :
          /\ buf' = [buf EXCEPT ![c] = q] /\ client' = client /\ client = c /\ buf[c] = << >>
          /\ UNCHANGED <<program, cst, typed, said, got, peer, out>>
    BY <1>8 DEF EchoBuffer, Serving
  <2>5. Refills(c)
    BY <1>1, <1>8, <2>1, <2>3, <2>4 DEF Refills, NetType
  <2>6. Rest(c)
    BY <1>1, <2>1, <2>4 DEF Rest, Same, SameTurn, NetType
  <2> QED BY <2>4, <2>5, <2>6 DEF Moved, Move
<1>9. ASSUME NEW c \in Clients, EchoAfterReset(c), program \in {"server", "server2"} PROVE Moved
  <2>0. PICK q \in Strings(message) : buf' = [buf EXCEPT ![c] = q]
    BY <1>9 DEF EchoAfterReset
  <2>1. Rewrites(c)
    BY <1>1, <1>9, <2>0 DEF EchoAfterReset, Serving, seqVars, Rewrites, NetType
  <2>2. Rest(c)
    BY <1>1, <1>9, <2>0 DEF EchoAfterReset, Serving, seqVars, Rest, Same, SameTurn, NetType
  <2> QED BY <1>9, <2>1, <2>2 DEF Moved, Move, EchoAfterReset
<1>10. ASSUME NEW c \in Clients, EchoLine(c), program = "echo_stdserv" PROVE Moved
  <2>1. PICK k \in 1 .. typed[c] : /\ heard[c] = LineEnd(c)[k-1] /\ said[c] >= LineEnd(c)[k]
                                   /\ heard' = [heard EXCEPT ![c] = LineEnd(c)[k]]
                                   /\ message' = Bytes(c, Lines[c][k])
    BY <1>10 DEF EchoLine
  <2>2. /\ buf' = [buf EXCEPT ![c] = message'] /\ client' = client /\ client = c /\ buf[c] = << >>
        /\ UNCHANGED <<program, cst, typed, said, got, peer, out, passes>> /\ HasData(c)
    BY <1>10 DEF EchoLine, Serving
  <2>3. heard'[c] = LineEnd(c)[k] /\ buf'[c] = message'
    BY <1>1, <2>1, <2>2 DEF NetType
  <2>4. PutsLine(c)
    <3>1. said[c] \in Nat /\ LineEnd(c)[k] \in Nat
      <4>1. k \in 0 .. Len(Lines[c])
        BY <1>1, LineEnds DEF NetType, Streams
      <4> QED BY <1>1, <4>1, LineEnds DEF NetType
    <3>2. LineEnd(c)[k] =< said[c]
      BY <2>1, <3>1
    <3> QED BY <1>10, <2>1, <2>2, <2>3, <3>2 DEF PutsLine
  <2>5. Rest(c)
    BY <1>1, <2>1, <2>2 DEF Rest, Same, SameTurn, NetType
  <2> QED BY <2>2, <2>4, <2>5 DEF Moved, Move
<1>11. ASSUME NEW c \in Clients, EchoAgain(c), program = "echo_stdserv" PROVE Moved
  <2>1. PutsAgain(c)
    BY <1>1, <1>11 DEF EchoAgain, Serving, PutsAgain, NetType
  <2>2. Rest(c)
    BY <1>1, <1>11 DEF EchoAgain, Serving, Rest, Same, SameTurn, NetType
  <2> QED BY <1>11, <2>1, <2>2 DEF Moved, Move, EchoAgain
<1>12. ASSUME NEW c \in Clients, Pass(c), Read(c, SeqBuf) \/ ReadFails(c) \/ UNCHANGED netVars,
              buf[c] = << >>, program = "server3"
       PROVE  Moved
  <2>1. \A d \in Clients : SameTurn(d)
    BY <1>1, <1>12 DEF SameTurn
  <2>2. CASE Read(c, SeqBuf) \/ ReadFails(c)
    <3>1. Alone(c) /\ (Gets(c) \/ Fails(c))
      BY <1>1, <1>12, <2>2, CallMoves
    <3>2. program' = program
      BY <2>2 DEF Read, ReadFails
    <3> QED BY <2>1, <3>1, <3>2 DEF Moved, Alone, Rest, Move
  <2>3. CASE UNCHANGED netVars
    BY <2>1, <2>3 DEF netVars, Moved, Same
  <2> QED BY <1>12, <2>2, <2>3
<1>13. CASE StrlenLoop /\ program \in {"server", "server2"}
  BY <1>3, <1>5, <1>6, <1>7, <1>8, <1>9, <1>13 DEF StrlenLoop, Serving
<1>14. CASE server3
  BY <1>4, <1>5, <1>6, <1>7, <1>12, <1>14 DEF server3, Serving
<1>15. CASE echo_stdserv
  BY <1>3, <1>6, <1>7, <1>10, <1>11, <1>15 DEF echo_stdserv, Serving
<1> QED BY <1>13, <1>14, <1>15 DEF InTurn, server, server2

(* Every step is such a move.                                                *)
LEMMA NextMoves ==
  ASSUME TypeOK, \A c \in Clients : Streams(c), OnePlace, [Next]_vars
  PROVE  Moved
<1>1. ASSUME NEW c \in Clients, Client(c), UNCHANGED <<readyVars, forkVars, seqVars>>
      PROVE  Moved
  <2>1. Alone(c) /\ ByClient(c) /\ program' = program
    BY <1>1, ClientMoves DEF TypeOK
  <2>2. \A d \in Clients : SameTurn(d)
    BY <1>1 DEF seqVars, SameTurn
  <2> QED BY <2>1, <2>2 DEF Moved, Alone, Rest, Move
<1>2. CASE UNCHANGED vars
  BY <1>2 DEF vars, netVars, seqVars, Moved, Same, SameTurn
<1> QED BY <1>1, <1>2, ReadinessMoves, ForkingMoves, InTurnMoves DEF Next, Over

-----------------------------------------------------------------------------
(* What is said of a connection.                                             *)
Net(c) == /\ cst[c] \in {"new", "typing", "writing", "waiting", "reading", "gone"} /\ peer[c] \in PeerStates
          /\ typed[c] \in Nat /\ said[c] \in Nat /\ got[c] \in Nat /\ heard[c] \in Nat
          /\ buf[c] \in Seq(Nat) /\ Len(buf[c]) \in Nat
          /\ out[c] \in Seq(Nat) /\ Len(out[c]) \in Nat
          /\ message \in Seq(Nat) /\ Len(message) \in Nat

(* The types, of one connection.                                             *)
LEMMA NetOf ==
  ASSUME TypeOK, NEW c \in Clients
  PROVE  Net(c)
<1>1. NetType
  BY DEF TypeOK
<1>2. cst[c] \in {"new", "typing", "writing", "waiting", "reading", "gone"} /\ peer[c] \in PeerStates
  BY <1>1 DEF NetType
<1>3. typed[c] \in Nat /\ said[c] \in Nat /\ got[c] \in Nat /\ heard[c] \in Nat
  BY <1>1 DEF NetType
<1>4. buf[c] \in Seq(Nat) /\ Len(buf[c]) \in Nat /\ out[c] \in Seq(Nat) /\ Len(out[c]) \in Nat
  BY <1>1 DEF NetType
<1>5. message \in Seq(Nat) /\ Len(message) \in Nat
  BY DEF TypeOK, RestType
<1> QED BY ONLY <1>2, <1>3, <1>4, <1>5 DEF Net

(* No move puts a stream out of order: nobody reads what was not written,    *)
(* nor overfills a window.                                                   *)
LEMMA StreamsMove ==
  ASSUME NEW c \in Clients, Net(c), Net(c)', Streams(c), Same(c) \/ Move(c), NetType
  PROVE  Streams(c)'
<1> USE DEF Net, Streams
<1>1. Window \in Nat /\ LineEnd(c) \in [0 .. Len(Lines[c]) -> Nat] /\ Len(Lines[c]) \in Nat
  BY LineEnds, EchoNetAssumption
<1>2. CASE Types(c)
  <2>1. /\ typed[c] + 1 \in 1 .. Len(Lines[c]) /\ (typed[c] + 1) - 1 = typed[c]
        /\ typed'[c] = typed[c] + 1 /\ cst'[c] = "writing"
        /\ UNCHANGED <<said[c], got[c], heard[c], out[c]>>
    BY <1>2 DEF Types
  <2>2. Lines[c][typed[c] + 1] \in Nat /\ LineEnd(c)[typed[c] + 1] = LineEnd(c)[typed[c]] + Lines[c][typed[c] + 1]
    BY <2>1, LineEnds
  <2>3. LineEnd(c)[typed[c]] \in Nat /\ LineEnd(c)[typed[c] + 1] \in Nat
    BY <1>1, <2>1
  <2>4. typed'[c] =< Len(Lines[c])
    BY <2>1
  <2>5. said'[c] =< LineEnd(c)[typed'[c]]
    <3>1. \A s, e, l \in Nat : s =< e => s =< e + l
      OBVIOUS
    <3>2. said[c] =< LineEnd(c)[typed[c]] /\ said[c] \in Nat
      OBVIOUS
    <3> QED BY ONLY <2>1, <2>2, <2>3, <3>1, <3>2
  <2> QED BY <2>1, <2>4, <2>5
<1>2b. CASE Speaks(c)
  <2>1. /\ said[c] < said'[c] /\ said'[c] =< LineEnd(c)[typed[c]]
        /\ cst'[c] # "writing" => said'[c] = LineEnd(c)[typed[c]]
        /\ UNCHANGED <<typed[c], got[c], heard[c], out[c]>>
    BY <1>2b DEF Speaks
  <2>2. heard[c] =< said'[c]
    BY <2>1
  <2> QED BY <2>1, <2>2
<1>3. CASE Sends(c)
  <2>1. Taken(c) \in 0 .. Len(buf[c]) /\ Len(out[c]) + Taken(c) - got[c] =< Window
    BY TakenSize
  <2>2. Len(out'[c]) = Len(out[c]) + Taken(c)
    <3>1. Len(out[c] \o SubSeq(buf[c], 1, Taken(c))) = Len(out[c]) + Taken(c)
      <4>1. buf[c] \in Seq(Nat) /\ out[c] \in Seq(Nat) /\ Taken(c) \in 0 .. Len(buf[c])
        BY <2>1
      <4> QED BY ONLY <4>1, Parted
    <3> QED BY <1>3, <3>1 DEF Sends
  <2>3. UNCHANGED <<cst[c], typed[c], said[c], got[c], heard[c]>>
    BY <1>3 DEF Sends
  <2>4. got[c] =< Len(out'[c]) /\ Len(out'[c]) - got[c] =< Window
    <3>1. got[c] \in Nat /\ Len(out[c]) \in Nat /\ got[c] =< Len(out[c]) /\ Taken(c) \in Nat
      BY <2>1
    <3>2. \A g, o, m \in Nat : g =< o => g =< o + m
      OBVIOUS
    <3> QED BY ONLY <2>1, <2>2, <3>1, <3>2
  <2> QED BY <1>1, <2>3, <2>4
<1>4. CASE Gets(c) \/ Refills(c)
  <2>1. PICK n \in 1 .. said[c] - heard[c] : heard'[c] = heard[c] + n
    BY <1>4 DEF Gets, Refills
  <2>2. UNCHANGED <<cst[c], typed[c], said[c], got[c], out[c]>>
    BY <1>4 DEF Gets, Refills
  <2> QED BY <2>1, <2>2
<1>5. CASE PutsLine(c)
  <2>1. heard'[c] =< said[c]
    BY <1>5 DEF PutsLine
  <2>2. UNCHANGED <<cst[c], typed[c], said[c], got[c], out[c]>>
    BY <1>5 DEF PutsLine
  <2> QED BY <2>1, <2>2
<1>6. CASE Hears(c)
  BY <1>1, <1>6 DEF Hears
<1>7. CASE /\ UNCHANGED <<typed[c], said[c], got[c], heard[c], out[c]>>
           /\ cst'[c] = cst[c] \/ cst[c] # "writing"
  BY <1>7
<1> QED BY <1>2, <1>2b, <1>3, <1>4, <1>5, <1>6, <1>7
        DEF Same, Move, ByClient, ByWrite, Joins, Quits, Leaves, Loses, Fails, Closes, Begins,
            Rewrites, PutsAgain

(* A move keeps the client's place and the state of its connection in step.  *)
LEMMA ConnectionMove ==
  ASSUME NEW c \in Clients, Net(c), Net(c)', Streams(c), Connection(c), Same(c) \/ Move(c), NetType
  PROVE  Connection(c)'
<1> USE DEF Net, Streams, Connection
<1>1. CASE ByClient(c)
  BY <1>1 DEF ByClient, Joins, Types, Speaks, Hears, Quits, Leaves, Stays
<1>2. CASE Sends(c)
  BY <1>2 DEF Sends, Writable
<1>3. CASE Loses(c)
  BY <1>3 DEF Loses
<1>4. CASE Gets(c) \/ Refills(c) \/ PutsLine(c)
  BY <1>4 DEF Gets, Refills, PutsLine
<1>5. CASE Fails(c) \/ Rewrites(c) \/ PutsAgain(c)
  BY <1>5 DEF Fails, Rewrites, PutsAgain, Failing
<1>6. CASE Closes(c)
  BY <1>6 DEF Closes
<1>7. CASE Same(c)
  BY <1>7 DEF Same
<1> QED BY <1>1, <1>2, <1>3, <1>4, <1>5, <1>6, <1>7 DEF Move, ByWrite, Begins

(* Writing m bytes of the last ones read.                                    *)
LEMMA SentInOrder ==
  ASSUME NEW o \in Seq(Nat), NEW b \in Seq(Nat), NEW h \in Nat, NEW m \in 0 .. Len(b),
         Len(b) =< h, Latest(b, h), Known(o, h - Len(b)), Rising(o)
  PROVE  LET p == o \o SubSeq(b, 1, m)
             r == SubSeq(b, m + 1, Len(b))
         IN /\ Len(p) = Len(o) + m /\ Len(r) = Len(b) - m
            /\ Known(p, h - Len(b) + m) /\ Rising(p) /\ Latest(r, h)
            /\ Numbered(o) /\ Len(o) + Len(b) = h => Numbered(p)
<1> DEFINE p == o \o SubSeq(b, 1, m)
           r == SubSeq(b, m + 1, Len(b))
<1> USE DEF Latest, Known, Rising, Numbered
<1>0. Len(o) \in Nat /\ Len(b) \in Nat /\ m \in Nat /\ m =< Len(b) /\ h \in Nat
  OBVIOUS
<1>1. /\ Len(p) = Len(o) + m /\ Len(r) = Len(b) - m
      /\ \A k \in 1 .. Len(b) - m : r[k] = b[m + k]
      /\ \A i \in 1 .. Len(o) : p[i] = o[i]
      /\ \A i \in Len(o) + 1 .. Len(o) + m : p[i] = b[i - Len(o)]
  <2>1. o \in Seq(Nat) /\ b \in Seq(Nat) /\ m \in 0 .. Len(b)
    OBVIOUS
  <2>2. /\ SubSeq(b, 1, m) \in Seq(Nat) /\ Len(SubSeq(b, 1, m)) = m
        /\ r \in Seq(Nat)
        /\ Len(r) = Len(b) - m
        /\ \A k \in 1 .. Len(b) - m : r[k] = b[m + k]
        /\ p \in Seq(Nat)
        /\ Len(p) = Len(o) + m
        /\ \A i \in 1 .. Len(o) : p[i] = o[i]
        /\ \A i \in Len(o) + 1 .. Len(o) + m : p[i] = b[i - Len(o)]
    BY ONLY <2>1, Parted, Zenon
  <2> QED BY ONLY <2>2
<1> HIDE DEF p, r
<1>2. ASSUME NEW i \in Len(o) + 1 .. Len(o) + m
      PROVE  p[i] = h - Len(b) + (i - Len(o)) /\ i \in Nat /\ i > Len(o)
  <2>1. i - Len(o) \in 1 .. Len(b) /\ i \in Nat /\ i > Len(o)
    BY ONLY <1>0, i \in Len(o) + 1 .. Len(o) + m
  <2>2. p[i] = b[i - Len(o)]
    BY <1>1
  <2>3. b[i - Len(o)] = h - Len(b) + (i - Len(o))
    BY <2>1
  <2> QED BY ONLY <2>1, <2>2, <2>3
<1>3. ASSUME NEW i \in 1 .. Len(p) PROVE i \in 1 .. Len(o) \/ i \in Len(o) + 1 .. Len(o) + m
  BY ONLY <1>0, <1>1, i \in 1 .. Len(p)
<1>4. ASSUME NEW i \in 1 .. Len(p) PROVE p[i] \in 1 .. h - Len(b) + m
  <2>1. CASE i \in 1 .. Len(o)
    <3>1. p[i] = o[i]
      BY <1>1, <2>1
    <3>2. o[i] \in 1 .. h - Len(b)
      BY <2>1
    <3>3. Len(b) =< h
      OBVIOUS
    <3> QED BY ONLY <3>1, <3>2, <3>3, <1>0
  <2>2. CASE i \in Len(o) + 1 .. Len(o) + m
    <3>1. p[i] = h - Len(b) + (i - Len(o))
      BY <1>2, <2>2
    <3>2. Len(b) =< h
      OBVIOUS
    <3> QED BY ONLY <3>1, <3>2, <1>0, <2>2
  <2> QED BY <1>3, <2>1, <2>2
<1>5. ASSUME NEW i \in 1 .. Len(p), NEW j \in 1 .. Len(p), i < j PROVE p[i] < p[j]
  <2>0. i < j
    BY <1>5
  <2>1. CASE i \in 1 .. Len(o) /\ j \in 1 .. Len(o)
    <3>1. p[i] = o[i] /\ p[j] = o[j]
      BY <1>1, <2>1
    <3>2. o[i] < o[j]
      BY <2>0, <2>1
    <3> QED BY ONLY <3>1, <3>2
  <2>2. CASE i \in 1 .. Len(o) /\ j \in Len(o) + 1 .. Len(o) + m
    <3>1. p[i] = o[i] /\ o[i] \in 1 .. h - Len(b)
      BY <1>1, <2>2
    <3>2. p[j] = h - Len(b) + (j - Len(o))
      BY <1>2, <2>2
    <3>3. j - Len(o) \in Nat \ {0}
      BY ONLY <1>0, <2>2
    <3>4. h - Len(b) \in Int
      BY ONLY <1>0
    <3> QED BY ONLY <3>1, <3>2, <3>3, <3>4
  <2>3. CASE i \in Len(o) + 1 .. Len(o) + m /\ j \in Len(o) + 1 .. Len(o) + m
    <3>1. p[i] = h - Len(b) + (i - Len(o)) /\ p[j] = h - Len(b) + (j - Len(o))
      BY <1>2, <2>3
    <3> QED BY ONLY <1>0, <2>0, <2>3, <3>1
  <2>4. ~ (i \in Len(o) + 1 .. Len(o) + m /\ j \in 1 .. Len(o))
    BY ONLY <1>0, <2>0
  <2> QED BY <1>3, <2>1, <2>2, <2>3, <2>4
<1>6. ASSUME NEW k \in 1 .. Len(r) PROVE r[k] = h - Len(r) + k
  <2>1. k \in 1 .. Len(b) - m /\ m + k \in 1 .. Len(b)
    BY ONLY <1>0, <1>1, k \in 1 .. Len(r)
  <2>2. r[k] = b[m + k]
    BY <1>1, <2>1
  <2>3. b[m + k] = h - Len(b) + (m + k)
    BY <2>1
  <2>4. Len(r) = Len(b) - m
    BY <1>1
  <2> QED BY ONLY <1>0, <2>1, <2>2, <2>3, <2>4
<1>7. ASSUME \A i \in 1 .. Len(o) : o[i] = i, Len(o) + Len(b) = h, NEW i \in 1 .. Len(p)
      PROVE  p[i] = i
  <2>1. CASE i \in 1 .. Len(o)
    <3>1. p[i] = o[i]
      BY <1>1, <2>1
    <3>2. o[i] = i
      BY <1>7, <2>1
    <3> QED BY ONLY <3>1, <3>2
  <2>2. CASE i \in Len(o) + 1 .. Len(o) + m
    <3>1. p[i] = h - Len(b) + (i - Len(o)) /\ i \in Nat
      BY <1>2, <2>2
    <3>2. Len(o) + Len(b) = h
      BY <1>7
    <3>3. \A x, y, z \in Nat : x + y = z => z - y = x
      OBVIOUS
    <3>4. h - Len(b) = Len(o)
      BY ONLY <1>0, <3>2, <3>3
    <3>5. p[i] = Len(o) + (i - Len(o)) /\ i \in Nat
      BY <3>1, <3>4
    <3> QED BY ONLY <1>0, <3>5
  <2> QED BY <1>3, <2>1, <2>2
<1> QED BY <1>1, <1>4, <1>5, <1>6, <1>7 DEF p, r

(* A write keeps in order what has been sent, and what is left of buf.       *)
LEMMA InHandSends ==
  ASSUME NEW c \in Clients, Net(c), Net(c)', Streams(c), InHand(c), NetType, Plain,
         Sends(c), program' = program
  PROVE  InHand(c)'
<1> DEFINE h == heard[c]
           b == buf[c]
           o == out[c]
           m == Taken(c)
           p == o \o SubSeq(b, 1, m)
           r == SubSeq(b, m + 1, Len(b))
<1>1. /\ LastRead(c, b) /\ \A i \in 1 .. Len(o) : o[i] \in 1 .. h - Len(b)
      /\ \A i, j \in 1 .. Len(o) : i < j => o[i] < o[j]
      /\ Keeps(c) => /\ \A i \in 1 .. Len(o) : o[i] = i
                     /\ Writable(c) => Len(o) + Len(b) = h
  BY DEF InHand, Echoes, InOrder, Exact
<1>2. /\ h \in Nat /\ Len(b) \in Nat /\ Len(o) \in Nat
      /\ got[c] \in Nat /\ said[c] \in Nat /\ Window \in Nat /\ h =< said[c] /\ Len(b) =< h
  BY <1>1, EchoNetAssumption DEF Net, Streams, LastRead
<1> o \in Seq(Nat) /\ b \in Seq(Nat)
  BY DEF Net
<1>3. m \in 0 .. Len(b) /\ Len(o) + m - got[c] =< Window
  BY TakenSize
<1>4. /\ Len(p) = Len(o) + m /\ Len(r) = Len(b) - m
      /\ \A i \in 1 .. Len(p) : p[i] \in 1 .. h - Len(b) + m
      /\ \A i, j \in 1 .. Len(p) : i < j => p[i] < p[j]
      /\ \A k \in 1 .. Len(r) : r[k] = h - Len(r) + k
      /\ (\A i \in 1 .. Len(o) : o[i] = i) /\ Len(o) + Len(b) = h
           => \A i \in 1 .. Len(p) : p[i] = i
  <2>1. /\ o \in Seq(Nat) /\ b \in Seq(Nat) /\ h \in Nat /\ m \in 0 .. Len(b) /\ Len(b) =< h
        /\ Latest(b, h) /\ Known(o, h - Len(b)) /\ Rising(o)
    BY <1>1, <1>2, <1>3 DEF LastRead, Latest, Known, Rising
  <2> HIDE DEF h, b, o, m
  <2>2. /\ Len(p) = Len(o) + m /\ Len(r) = Len(b) - m
        /\ Known(p, h - Len(b) + m) /\ Rising(p) /\ Latest(r, h)
        /\ Numbered(o) /\ Len(o) + Len(b) = h => Numbered(p)
    BY ONLY <2>1, SentInOrder, Zenon
  <2> QED BY ONLY <2>2 DEF Latest, Known, Rising, Numbered
<1>5. /\ Writable(c) /\ out'[c] = p /\ UNCHANGED <<said[c], peer[c], heard[c], got[c]>>
      /\ buf'[c] = IF program = "echo_EPETserv" THEN << >> ELSE r
  BY DEF Sends
<1>6. Keeps(c)' = Keeps(c)
  BY <1>5 DEF Keeps
<1>7. Keeps(c) /\ program = "echo_EPETserv" => m = Len(b)
  <2> SUFFICES ASSUME Keeps(c), program = "echo_EPETserv" PROVE m = Len(b)
    OBVIOUS
  <2>1. said[c] =< Window /\ Len(o) + Len(b) = h
    BY <1>1, <1>5 DEF Keeps
  <2>2. Len(b) =< Window - (Len(o) - got[c])
    <3>1. \A x, y, g, s, w \in Nat : x + y =< s /\ s =< w => y =< w - (x - g)
      OBVIOUS
    <3>2. Len(o) + Len(b) =< said[c]
      BY ONLY <1>2, <2>1
    <3> QED BY ONLY <1>2, <2>1, <3>1, <3>2
  <2> QED BY ONLY <1>2, <2>2 DEF Taken
<1> HIDE DEF p, r, m
<1>8. (buf'[c] = r /\ Len(buf'[c]) = Len(b) - m) \/ (buf'[c] = << >> /\ Len(buf'[c]) = 0)
  BY <1>4, <1>5
<1>9. Keeps(c) => Len(buf'[c]) = Len(b) - m
  BY <1>2, <1>4, <1>5, <1>7, <1>8
<1>10. h - Len(b) + m =< h - Len(buf'[c]) /\ Len(buf'[c]) \in Nat /\ Len(buf'[c]) =< h
  BY ONLY <1>2, <1>3, <1>8
<1>11. ASSUME NEW i \in 1 .. Len(p) PROVE p[i] \in 1 .. h - Len(buf'[c])
  <2>1. p[i] \in 1 .. h - Len(b) + m
    BY <1>4
  <2>2. h - Len(b) + m \in Int /\ h - Len(buf'[c]) \in Int
    <3>1. h \in Int /\ Len(b) \in Int /\ m \in Int /\ Len(buf'[c]) \in Int
      BY <1>2, <1>3, <1>10
    <3> QED BY ONLY <3>1
  <2>3. \A x, y, z \in Int : x \in 1 .. y /\ y =< z => x \in 1 .. z
    OBVIOUS
  <2> QED BY ONLY <1>10, <2>1, <2>2, <2>3
<1>12. LastRead(c, buf[c])'
  <2>1. \A k \in 1 .. Len(buf'[c]) : buf'[c][k] = h - Len(buf'[c]) + k
    <3>1. CASE buf'[c] = r
      BY <1>4, <3>1
    <3>2. CASE Len(buf'[c]) = 0
      BY <3>2
    <3> QED BY <1>8, <3>1, <3>2
  <2>2. heard'[c] = h /\ Len(buf'[c]) =< h
    BY <1>5, <1>10
  <2> HIDE DEF h
  <2> QED BY <2>1, <2>2 DEF LastRead
<1>13. Keeps(c) => (\A i \in 1 .. Len(p) : p[i] = i) /\ Len(p) + Len(buf'[c]) = h
  <2> SUFFICES ASSUME Keeps(c) PROVE (\A i \in 1 .. Len(p) : p[i] = i) /\ Len(p) + Len(buf'[c]) = h
    OBVIOUS
  <2>1. Len(o) + Len(b) = h /\ \A i \in 1 .. Len(o) : o[i] = i
    BY <1>1, <1>5
  <2>2. Len(p) + Len(buf'[c]) = h
    <3>1. Len(buf'[c]) = Len(b) - m /\ Len(p) = Len(o) + m
      BY <1>4, <1>9
    <3>2. \A x, y \in Nat, k \in Int : (x + k) + (y - k) = x + y
      OBVIOUS
    <3>3. m \in Int
      BY <1>3
    <3>4. (Len(o) + m) + (Len(b) - m) = Len(o) + Len(b)
      BY ONLY <1>2, <3>2, <3>3
    <3> QED BY ONLY <2>1, <3>1, <3>4, Zenon
  <2> QED BY <1>4, <2>1, <2>2
<1>14. /\ Echoes(c)' = 1 .. Len(p) /\ out'[c] = p /\ heard'[c] = h
       /\ Plain' = Plain
  BY <1>5 DEF Echoes, Plain
<1>15. InOrder(c)'
  BY <1>4, <1>14 DEF InOrder
<1>16. Keeps(c)' => Exact(c)' /\ Len(out'[c]) + Len(buf'[c]) = heard'[c]
  BY <1>6, <1>13, <1>14 DEF Exact
<1> QED BY <1>11, <1>12, <1>14, <1>15, <1>16 DEF InHand

(* The servers that write just what they have read, step by step.            *)
LEMMA InHandMove ==
  ASSUME NEW c \in Clients, Net(c), Net(c)', Streams(c), Connection(c), InHand(c),
         cst[c] = "new" => out[c] = << >> /\ buf[c] = << >> /\ heard[c] = 0,
         NetType, Same(c) \/ Move(c), program' = program
  PROVE  InHand(c)'
<1> SUFFICES ASSUME Plain PROVE InHand(c)'
  BY DEF InHand, Plain
<1>1. /\ LastRead(c, buf[c])
      /\ \A i \in Echoes(c) : out[c][i] \in 1 .. heard[c] - Len(buf[c])
      /\ InOrder(c)
      /\ Keeps(c) => Exact(c) /\ (Writable(c) => Len(out[c]) + Len(buf[c]) = heard[c])
  BY DEF InHand
<1>2. /\ heard[c] \in Nat /\ said[c] \in Nat /\ Len(buf[c]) \in Nat /\ Len(out[c]) \in Nat
      /\ Window \in Nat /\ heard[c] =< said[c] /\ Len(buf[c]) =< heard[c] /\ said'[c] \in Nat
  BY <1>1, EchoNetAssumption DEF Net, Streams, LastRead
<1>3. CASE Same(c)
  <2>1. UNCHANGED <<heard[c], buf[c], out[c], peer[c], said[c]>>
    BY <1>3 DEF Same
  <2> QED BY <1>1, <2>1 DEF InHand, Plain, LastRead, Echoes, InOrder, Keeps, Exact, Writable
<1>4. CASE Joins(c) \/ Types(c) \/ Speaks(c) \/ Hears(c) \/ Quits(c) \/ Leaves(c) \/ Closes(c) \/ Fails(c)
  <2>1. UNCHANGED <<heard[c], buf[c], out[c]>> /\ said'[c] >= said[c]
    <3>1. CASE Speaks(c)
      BY <1>2, <3>1 DEF Speaks
    <3>2. CASE ~Speaks(c)
      BY <1>2, <1>4, <3>2 DEF Joins, Types, Hears, Quits, Leaves, Closes, Fails
    <3> QED BY <3>1, <3>2
  <2>2. Keeps(c)' => Keeps(c)
    <3>1. said'[c] =< Window => said[c] =< Window
      BY ONLY <1>2, <2>1
    <3> QED BY <3>1 DEF Keeps
  <2>3. Writable(c)' => Writable(c) \/ cst[c] = "new"
    BY <1>4 DEF Joins, Types, Speaks, Hears, Quits, Leaves, Closes, Fails, Writable
  <2>4. cst[c] = "new" => Len(out[c]) + Len(buf[c]) = heard[c]
    <3> SUFFICES ASSUME cst[c] = "new" PROVE Len(out[c]) + Len(buf[c]) = heard[c]
      OBVIOUS
    <3>1. Len(out[c]) = 0 /\ Len(buf[c]) = 0 /\ heard[c] = 0
      OBVIOUS
    <3> QED BY ONLY <3>1
  <2>5. LastRead(c, buf[c])' /\ InOrder(c)' /\ (Exact(c) => Exact(c)')
        /\ \A i \in Echoes(c)' : out'[c][i] \in 1 .. heard'[c] - Len(buf'[c])
    BY <1>1, <2>1 DEF LastRead, InOrder, Exact, Echoes
  <2> QED BY <1>1, <2>1, <2>2, <2>3, <2>4, <2>5 DEF InHand, Plain
<1>5. CASE Sends(c)
  BY <1>5, InHandSends
<1>6. CASE Loses(c)
  <2>1. buf'[c] = << >> /\ UNCHANGED <<heard[c], out[c], said[c]>> /\ ~Writable(c)'
    BY <1>6 DEF Loses, Writable
  <2>2. Len(buf'[c]) = 0
    BY <2>1
  <2>3. ASSUME NEW i \in Echoes(c) PROVE out[c][i] \in 1 .. heard[c] - 0
    <3>1. out[c][i] \in 1 .. heard[c] - Len(buf[c])
      BY <1>1
    <3> QED BY ONLY <1>2, <3>1
  <2>4. Echoes(c)' = Echoes(c) /\ InOrder(c)' = InOrder(c) /\ Exact(c)' = Exact(c) /\ Keeps(c)' = Keeps(c)
    BY <2>1 DEF Echoes, InOrder, Exact, Keeps
  <2>5. LastRead(c, buf[c])'
    BY <1>2, <2>1, <2>2 DEF LastRead
  <2>6. \A i \in Echoes(c)' : out'[c][i] \in 1 .. heard'[c] - Len(buf'[c])
    BY <2>1, <2>2, <2>3, <2>4
  <2> QED BY <1>1, <2>1, <2>4, <2>5, <2>6 DEF InHand, Plain
<1>7. CASE Gets(c)
  <2>1. PICK n \in 1 .. said[c] - heard[c] : heard'[c] = heard[c] + n /\ buf'[c] = Bytes(c, n)
    BY <1>7 DEF Gets
  <2>2. UNCHANGED <<said[c], peer[c], out[c]>> /\ buf[c] = << >> /\ Len(buf[c]) = 0
    BY <1>7 DEF Gets
  <2>3. n \in Nat
    OBVIOUS
  <2>4. Len(buf'[c]) = n /\ \A k \in 1 .. n : buf'[c][k] = heard[c] + k
    <3>1. Len(Bytes(c, n)) = n /\ \A k \in 1 .. n : Bytes(c, n)[k] = heard[c] + k
      <4>1. heard[c] \in Nat
        BY <1>2
      <4> QED BY ONLY <2>3, <4>1, BytesRead, c \in Clients
    <3> QED BY ONLY <2>1, <3>1
  <2>5. Len(buf'[c]) =< heard'[c] /\ heard'[c] - Len(buf'[c]) = heard[c]
    <3>1. \A h \in Nat : n =< h + n /\ (h + n) - n = h
      BY <2>3
    <3> QED BY ONLY <1>2, <2>1, <2>4, <3>1
  <2>6. LastRead(c, buf[c])'
    BY <2>4, <2>5 DEF LastRead
  <2>7. \A i \in Echoes(c)' : out'[c][i] \in 1 .. heard'[c] - Len(buf'[c])
    <3>1. heard[c] - Len(buf[c]) = heard[c]
      BY ONLY <1>2, <2>2
    <3> QED BY <1>1, <2>2, <2>5, <3>1 DEF Echoes
  <2>8. Keeps(c)' => Exact(c)' /\ (Writable(c)' => Len(out'[c]) + Len(buf'[c]) = heard'[c])
    <3>1. Keeps(c)' = Keeps(c) /\ Exact(c)' = Exact(c) /\ Writable(c)' = Writable(c)
      BY <2>2 DEF Keeps, Exact, Echoes, Writable
    <3>2. Len(out[c]) + Len(buf[c]) = heard[c] => Len(out[c]) + n = heard[c] + n
      BY ONLY <1>2, <2>2, <2>3
    <3> QED BY <1>1, <2>1, <2>2, <2>4, <3>1, <3>2
  <2>9. InOrder(c)'
    BY <1>1, <2>2 DEF InOrder, Echoes
  <2> QED BY <2>6, <2>7, <2>8, <2>9 DEF InHand, Plain
<1>8. ~Refills(c) /\ ~Rewrites(c) /\ ~PutsLine(c) /\ ~PutsAgain(c)
  BY DEF Plain, Refills, Rewrites, PutsLine, PutsAgain
<1>9. Begins(c) => Same(c)
  BY DEF Begins
<1> QED BY <1>3, <1>4, <1>5, <1>6, <1>7, <1>8, <1>9 DEF Move, ByClient, ByWrite

-----------------------------------------------------------------------------
(* What has been written and what is in hand, one after the other.           *)
LEMMA Joined ==
  ASSUME NEW o \in Seq(Nat), NEW b \in Seq(Nat)
  PROVE  /\ o \o b \in Seq(Nat) /\ Len(o \o b) = Len(o) + Len(b)
         /\ \A i \in 1 .. Len(o) : i \in 1 .. Len(o \o b) /\ (o \o b)[i] = o[i]
         /\ \A k \in 1 .. Len(b) : /\ Len(o) + k \in 1 .. Len(o \o b)
                                  /\ (o \o b)[Len(o) + k] = b[k]
         /\ \A i \in 1 .. Len(o \o b) :
              i \in 1 .. Len(o) \/ (i > Len(o) /\ \E k \in 1 .. Len(b) : i = Len(o) + k)
<1>1. o \in Seq(Nat) /\ b \in Seq(Nat)
  OBVIOUS
<1> QED BY ONLY <1>1, Concatenated, SMTT(30)

(* A write moves the border between the two.                                 *)
LEMMA FlowOn ==
  ASSUME NEW o \in Seq(Nat), NEW b \in Seq(Nat), NEW m \in 0 .. Len(b)
  PROVE  (o \o SubSeq(b, 1, m)) \o SubSeq(b, m + 1, Len(b)) = o \o b
  BY Rejoined

(* What has been written of a sequence without gaps has none, and its        *)
(* foreign bytes are late if those of the sequence are.                      *)
LEMMA PrefixUnskipped ==
  ASSUME NEW o \in Seq(Nat), NEW b \in Seq(Nat), Unskipped(o \o b), Late(o \o b)
  PROVE  Unskipped(o) /\ Late(o)
<1> DEFINE q == o \o b
<1>1. \A i \in 1 .. Len(o) : i \in 1 .. Len(q) /\ q[i] = o[i]
  BY Joined
<1>2. \A i \in 1 .. Len(q) : q[i] > 1 => \E j \in 1 .. i - 1 : q[j] = q[i] - 1
  BY DEF Unskipped
<1>3. Late(q)
  OBVIOUS
<1> HIDE DEF q
<1>4. ASSUME NEW i \in 1 .. Len(o), o[i] > 1 PROVE \E j \in 1 .. i - 1 : o[j] = o[i] - 1
  <2>1. PICK j \in 1 .. i - 1 : q[j] = q[i] - 1
    BY <1>1, <1>2, <1>4
  <2>2. j \in 1 .. Len(o)
    OBVIOUS
  <2> QED BY <1>1, <2>1, <2>2
<1>5. Late(o)
  BY <1>1, <1>3 DEF Late
<1> QED BY <1>4, <1>5 DEF Unskipped

(* Two sequences whose foreign bytes come late, one after the other.         *)
LEMMA LateJoined ==
  ASSUME NEW o \in Seq(Nat), NEW b \in Seq(Nat), Late(o), Late(b)
  PROVE  Late(o \o b)
<1> DEFINE q == o \o b
<1>1. /\ \A i \in 1 .. Len(o) : i \in 1 .. Len(q) /\ q[i] = o[i]
      /\ \A k \in 1 .. Len(b) : Len(o) + k \in 1 .. Len(q) /\ q[Len(o) + k] = b[k]
      /\ \A i \in 1 .. Len(q) :
           i \in 1 .. Len(o) \/ (i > Len(o) /\ \E k \in 1 .. Len(b) : i = Len(o) + k)
      /\ Len(o) \in Nat /\ SeqBuf \in Nat
  BY Joined, EchoSeqAssumption
<1> HIDE DEF q
<1>2. ASSUME NEW i \in 1 .. Len(q), q[i] = Foreign PROVE i > SeqBuf
  <2>1. CASE i \in 1 .. Len(o)
    BY <1>1, <1>2, <2>1 DEF Late
  <2>2. ASSUME NEW k \in 1 .. Len(b), i = Len(o) + k PROVE i > SeqBuf
    <3>1. k > SeqBuf
      BY <1>1, <1>2, <2>2 DEF Late
    <3> QED BY <1>1, <2>2, <3>1
  <2> QED BY <1>1, <2>1, <2>2
<1> QED BY <1>2 DEF Late, q

(* The next n bytes, and behind them some of the earlier.                    *)
LEMMA RefillUnskipped ==
  ASSUME NEW o \in Seq(Nat), NEW b \in Seq(Nat), NEW h \in Nat, NEW n \in 1 .. Len(b),
         Unskipped(o), \A v \in 1 .. h : Has(o, v),
         \A k \in 1 .. n : b[k] = h + k,
         \A k \in 1 .. Len(b) : k > n => b[k] \in 0 .. h
  PROVE  Unskipped(o \o b) /\ \A v \in 1 .. h + n : Has(o \o b, v)
<1> DEFINE q == o \o b
<1>0. Len(o) \in Nat /\ Len(b) \in Nat /\ n \in Nat /\ h \in Nat
  OBVIOUS
<1>1. /\ \A i \in 1 .. Len(o) : i \in 1 .. Len(q) /\ q[i] = o[i]
      /\ \A k \in 1 .. Len(b) : Len(o) + k \in 1 .. Len(q) /\ q[Len(o) + k] = b[k]
      /\ \A i \in 1 .. Len(q) :
           i \in 1 .. Len(o) \/ (i > Len(o) /\ \E k \in 1 .. Len(b) : i = Len(o) + k)
  BY Joined
<1> HIDE DEF q
<1>2. ASSUME NEW v \in 1 .. h PROVE \E j \in 1 .. Len(o) : q[j] = v
  BY <1>1 DEF Has
<1>3. ASSUME NEW i \in 1 .. Len(q), q[i] > 1 PROVE \E j \in 1 .. i - 1 : q[j] = q[i] - 1
  <2>1. CASE i \in 1 .. Len(o)
    <3>1. PICK j \in 1 .. i - 1 : o[j] = o[i] - 1
      BY <1>1, <1>3, <2>1 DEF Unskipped
    <3>2. j \in 1 .. Len(o)
      BY <2>1
    <3> QED BY <1>1, <2>1, <3>1, <3>2
  <2>2. CASE i \notin 1 .. Len(o)
    <3>1. PICK k \in 1 .. Len(b) : i = Len(o) + k /\ q[i] = b[k]
      BY <1>1, <2>2
    <3>2. \A j \in 1 .. Len(o) : j \in 1 .. i - 1
      BY ONLY <1>0, <3>1, k \in 1 .. Len(b)
    <3>3. CASE k > n \/ k = 1
      <4>1. q[i] - 1 \in 1 .. h
        <5>1. k > n => b[k] \in 0 .. h
          OBVIOUS
        <5>2. k = 1 => b[k] = h + 1
          OBVIOUS
        <5>3. b[k] > 1
          BY <1>3, <3>1
        <5>4. b[k] - 1 \in 1 .. h
          BY ONLY <1>0, <3>3, <5>1, <5>2, <5>3
        <5> QED BY <3>1, <5>4
      <4> QED BY <1>2, <3>2, <4>1
    <3>4. CASE k =< n /\ k # 1
      <4>1. k \in 1 .. n /\ k - 1 \in 1 .. n /\ k - 1 \in 1 .. Len(b)
        BY ONLY <1>0, <3>4, k \in 1 .. Len(b)
      <4>2. b[k] = h + k /\ b[k - 1] = h + (k - 1)
        BY <4>1
      <4>3. q[Len(o) + (k - 1)] = b[k - 1]
        BY <1>1, <4>1
      <4>4. Len(o) + (k - 1) \in 1 .. i - 1 /\ h + (k - 1) = (h + k) - 1
        BY ONLY <1>0, <3>1, <4>1
      <4> QED BY <3>1, <4>2, <4>3, <4>4
    <3> QED BY <3>3, <3>4
  <2> QED BY <2>1, <2>2
<1>4. ASSUME NEW v \in 1 .. h + n PROVE Has(q, v)
  <2>1. CASE v \in 1 .. h
    BY <1>1, <1>2, <2>1 DEF Has
  <2>2. CASE v \notin 1 .. h
    <3>1. v - h \in 1 .. n /\ v - h \in 1 .. Len(b) /\ h + (v - h) = v
      BY ONLY <1>0, <2>2, v \in 1 .. h + n, n \in 1 .. Len(b)
    <3>2. b[v - h] = v
      BY <3>1
    <3>3. Len(o) + (v - h) \in 1 .. Len(q) /\ q[Len(o) + (v - h)] = v
      BY <1>1, <3>1, <3>2
    <3> QED BY <3>3 DEF Has
  <2> QED BY <2>1, <2>2
<1> QED BY <1>3, <1>4 DEF q, Unskipped

(* The servers that write up to a NUL, step by step.                         *)
LEMMA RepeatsMove ==
  ASSUME NEW c \in Clients, Net(c), Net(c)', Streams(c), Connection(c), Repeats(c),
         cst[c] = "new" => out[c] = << >> /\ buf[c] = << >> /\ heard[c] = 0,
         NetType, (Same(c) /\ SameTurn(c)) \/ Move(c), program' = program
  PROVE  Repeats(c)'
<1> SUFFICES ASSUME program \in {"server", "server2"} PROVE Repeats(c)'
  BY DEF Repeats
<1> DEFINE h == heard[c]
           b == buf[c]
           o == out[c]
<1>1. /\ client = c => Known(message, h)
      /\ Earlier(b, h) /\ Earlier(o, h) /\ Unskipped(o) /\ Late(o)
      /\ Writable(c) => Unskipped(o \o b) /\ Late(o \o b) /\ \A v \in 1 .. h : Has(o \o b, v)
  BY DEF Repeats, Flow
<1>2. /\ h \in Nat /\ o \in Seq(Nat) /\ b \in Seq(Nat) /\ message \in Seq(Nat)
      /\ Len(b) \in Nat /\ Len(o) \in Nat
  BY DEF Net
<1>3. ~Plain /\ program # "echo_stdserv" /\ program # "echo_EPETserv"
  BY DEF Plain
<1>4. Earlier(<< >>, h) /\ Known(<< >>, h) /\ Unskipped(<< >> \o << >>) /\ Late(<< >> \o << >>)
  <2>1. << >> \in Seq(Nat) /\ Len(<< >>) = 0
    OBVIOUS
  <2>2. << >> \o << >> = << >>
    BY <2>1, ConcatEmptySeq
  <2> QED BY <2>1, <2>2 DEF Earlier, Known, Unskipped, Late
<1>5. ASSUME UNCHANGED <<heard[c], out[c]>>, Earlier(buf'[c], h),
             client' = c => Known(message', h),
             Writable(c)' => /\ Writable(c) \/ cst[c] = "new"
                             /\ buf'[c] = buf[c]
      PROVE  Repeats(c)'
  <2>1. heard'[c] = h /\ out'[c] = o
    BY <1>5
  <2>2. Writable(c)' => Unskipped(Flow(c)') /\ Late(Flow(c)') /\ \A v \in 1 .. h : Has(Flow(c)', v)
    <3> SUFFICES ASSUME Writable(c)'
                 PROVE  Unskipped(Flow(c)') /\ Late(Flow(c)') /\ \A v \in 1 .. h : Has(Flow(c)', v)
      OBVIOUS
    <3>1. Flow(c)' = o \o b
      BY <1>5, <2>1 DEF Flow
    <3>2. CASE Writable(c)
      BY <1>1, <3>1, <3>2
    <3>3. CASE cst[c] = "new"
      <4>1. o = << >> /\ b = << >> /\ h = 0
        BY <3>3
      <4>2. Unskipped(o \o b) /\ Late(o \o b)
        BY <1>4, <4>1
      <4>3. \A v \in 1 .. h : FALSE
        BY <4>1
      <4> QED BY <3>1, <4>2, <4>3
    <3> QED BY <1>5, <3>2, <3>3
  <2> QED BY <1>1, <1>5, <2>1, <2>2 DEF Repeats
<1>6. CASE Same(c) /\ SameTurn(c)
  <2>1. UNCHANGED <<heard[c], buf[c], out[c], peer[c]>>
    BY <1>6 DEF Same
  <2>2. client' = c => Known(message', h)
    BY <1>1, <1>3, <1>6 DEF SameTurn
  <2>3. Writable(c)' = Writable(c)
    BY <2>1 DEF Writable
  <2> QED BY <1>1, <1>5, <2>1, <2>2, <2>3
<1>7. CASE /\ Joins(c) \/ Types(c) \/ Speaks(c) \/ Hears(c) \/ Quits(c) \/ Leaves(c) \/ Loses(c)
           /\ SameTurn(c)
  <2>1. UNCHANGED <<heard[c], out[c]>> /\ (buf'[c] = b \/ (buf'[c] = << >> /\ Loses(c)))
    BY <1>7 DEF Joins, Types, Speaks, Hears, Quits, Leaves, Loses
  <2>2. client' = c => Known(message', h)
    BY <1>1, <1>3, <1>7 DEF SameTurn
  <2>3. Writable(c)' => (Writable(c) \/ cst[c] = "new") /\ ~Loses(c)
    BY <1>7 DEF Joins, Types, Speaks, Hears, Quits, Leaves, Loses, Writable
  <2>4. Earlier(buf'[c], h)
    BY <1>1, <1>4, <2>1
  <2> QED BY <1>5, <2>1, <2>2, <2>3, <2>4
<1>8. CASE Sends(c) /\ SameTurn(c)
  <2> DEFINE p == o \o SubSeq(b, 1, Taken(c))
             r == SubSeq(b, Taken(c) + 1, Len(b))
  <2>1. UNCHANGED <<heard[c], peer[c]>> /\ out'[c] = p /\ buf'[c] = r /\ Writable(c)
    BY <1>3, <1>8 DEF Sends
  <2>2. Taken(c) \in 0 .. Len(b)
    BY TakenSize
  <2>3. p \in Seq(Nat) /\ r \in Seq(Nat) /\ p \o r = o \o b
    BY <1>2, <2>2, Parted, FlowOn
  <2>4. Unskipped(p \o r) /\ Late(p \o r)
    BY <1>1, <2>1, <2>3
  <2>5. Earlier(p \o r, h)
    <3> HIDE DEF o, b
    <3> DEFINE q == o \o b
    <3>0. o \in Seq(Nat) /\ b \in Seq(Nat)
      BY <1>2
    <3>1. /\ \A i \in 1 .. Len(o) : q[i] = o[i]
          /\ \A k \in 1 .. Len(b) : q[Len(o) + k] = b[k]
          /\ \A i \in 1 .. Len(q) : i \in 1 .. Len(o) \/ \E k \in 1 .. Len(b) : i = Len(o) + k
      BY ONLY <3>0, Joined, Zenon
    <3> HIDE DEF q
    <3>2. ASSUME NEW i \in 1 .. Len(q) PROVE q[i] \in 0 .. h
      <4>1. CASE i \in 1 .. Len(o)
        BY <1>1, <3>1, <4>1 DEF Earlier
      <4>2. ASSUME NEW k \in 1 .. Len(b), i = Len(o) + k PROVE q[i] \in 0 .. h
        BY <1>1, <3>1, <4>2 DEF Earlier
      <4> QED BY <3>1, <4>1, <4>2
    <3> QED BY <2>3, <3>2 DEF Earlier, q
  <2> HIDE DEF p, r
  <2>6. Unskipped(p) /\ Late(p)
    BY <2>3, <2>4, PrefixUnskipped
  <2>7. Earlier(p, h) /\ Earlier(r, h)
    <3> DEFINE q == p \o r
    <3>1. /\ \A i \in 1 .. Len(p) : i \in 1 .. Len(q) /\ q[i] = p[i]
          /\ \A k \in 1 .. Len(r) : Len(p) + k \in 1 .. Len(q) /\ q[Len(p) + k] = r[k]
      BY <2>3, Joined
    <3> HIDE DEF q
    <3>2. \A i \in 1 .. Len(q) : q[i] \in 0 .. h
      BY <2>5 DEF Earlier, q
    <3> QED BY <3>1, <3>2 DEF Earlier
  <2>8. client' = c => Known(message', h)
    BY <1>1, <1>3, <1>8 DEF SameTurn
  <2>9. Flow(c)' = o \o b /\ heard'[c] = h
    BY <2>1, <2>3 DEF Flow
  <2> QED BY <1>1, <2>1, <2>6, <2>7, <2>8, <2>9 DEF Repeats
<1>9. CASE Closes(c)
  <2>1. UNCHANGED <<heard[c], buf[c], out[c]>> /\ ~Writable(c)'
    BY <1>9 DEF Closes, Writable
  <2>2. client' = c => Known(message', h)
    BY <1>1, <1>3, <1>9 DEF Closes
  <2> QED BY <1>1, <1>5, <2>1, <2>2
<1>10. CASE Begins(c)
  <2>1. UNCHANGED <<heard[c], buf[c], out[c], peer[c]>> /\ message' = << >>
    BY <1>10 DEF Begins, Same
  <2>2. Writable(c)' = Writable(c)
    BY <2>1 DEF Writable
  <2> QED BY <1>1, <1>4, <1>5, <2>1, <2>2
<1>11. CASE Refills(c)
  <2>1. PICK n \in 1 .. said[c] - heard[c] : /\ heard'[c] = h + n
                                             /\ message' = Overwritten(Bytes(c, n))
    BY <1>11 DEF Refills
  <2>2. /\ buf'[c] \in Strings(message') /\ client = c /\ b = << >>
        /\ UNCHANGED <<peer[c], out[c]>>
    BY <1>11 DEF Refills
  <2> DEFINE q == message'
             s == buf'[c]
  <2>3. n \in Nat /\ n >= 1
    BY DEF Net
  <2>4. /\ Bytes(c, n) \in Seq(Nat) /\ Len(Bytes(c, n)) = n
        /\ \A k \in 1 .. n : Bytes(c, n)[k] = h + k
    BY <1>2, <2>3, BytesRead
  <2>5. /\ q \in Seq(Nat) /\ Len(q) >= n
        /\ \A k \in 1 .. n : q[k] = Bytes(c, n)[k]
        /\ \A k \in 1 .. Len(q) : k > n => k \in 1 .. Len(message) /\ q[k] = message[k]
    <3> DEFINE bs == Bytes(c, n)
               w == bs \o SubSeq(message, Len(bs) + 1, Len(message))
    <3>1. message' = w
      BY <2>1 DEF Overwritten
    <3> HIDE DEF bs
    <3>2. bs \in Seq(Nat) /\ Len(bs) = n /\ message \in Seq(Nat)
      BY <1>2, <2>4 DEF bs
    <3>3. /\ w \in Seq(Nat) /\ Len(w) >= Len(bs)
          /\ \A k \in 1 .. Len(bs) : w[k] = bs[k]
          /\ \A k \in 1 .. Len(w) : k > Len(bs) => k \in 1 .. Len(message) /\ w[k] = message[k]
      BY <3>2, MessageBytes, Zenon
    <3> HIDE DEF w
    <3> QED BY <3>1, <3>2, <3>3 DEF bs
  <2>6. \A k \in 1 .. Len(q) : k > n => q[k] \in 1 .. h
    BY <1>1, <2>2, <2>5 DEF Known
  <2>7. \A k \in 1 .. n : q[k] = h + k
    BY <2>4, <2>5
  <2>a. s \in Strings(q)
    BY <2>2
  <2> HIDE DEF q, s, h, o
  <2>8. n \in 1 .. Len(q) /\ Len(q) \in Nat
    BY <2>3, <2>5
  <2>9. Known(q, h + n)
    <3>1. ASSUME NEW k \in 1 .. Len(q) PROVE q[k] \in 1 .. h + n
      <4>1. k \in 1 .. n \/ k > n
        BY <2>8
      <4>2. k \in 1 .. n => h + k \in 1 .. h + n
        BY ONLY <1>2, <2>3
      <4>3. \A x \in 1 .. h : x \in 1 .. h + n
        BY ONLY <1>2, <2>3
      <4> QED BY <2>6, <2>7, <4>1, <4>2, <4>3
    <3> QED BY <3>1 DEF Known
  \* the string: the message, and what lies behind a full buffer
  <2>b. /\ s \in Seq(Nat) /\ Len(s) \in Nat /\ Len(s) >= Len(q)
        /\ \A k \in 1 .. Len(q) : s[k] = q[k]
        /\ \A k \in 1 .. Len(s) : k > Len(q) => s[k] = 0 /\ k > SeqBuf
    BY <2>5, <2>a, StringBytes DEF Foreign
  <2>c. ASSUME NEW k \in 1 .. Len(s)
        PROVE  \/ k \in 1 .. Len(q) /\ s[k] = q[k]
               \/ k > Len(q) /\ s[k] = 0 /\ k > SeqBuf
    BY <2>8, <2>b
  <2>d. Earlier(s, h + n) /\ Earlier(o, h + n)
    <3>1. ASSUME NEW k \in 1 .. Len(s) PROVE s[k] \in 0 .. h + n
      <4>1. \A x \in 1 .. h + n : x \in 0 .. h + n
        OBVIOUS
      <4>2. 0 \in 0 .. h + n
        BY ONLY <1>2, <2>3
      <4> QED BY <2>9, <2>c, <4>1, <4>2 DEF Known
    <3>2. ASSUME NEW k \in 1 .. Len(o) PROVE o[k] \in 0 .. h + n
      <4>1. o[k] \in 0 .. h
        BY <1>1 DEF Earlier
      <4> QED BY ONLY <1>2, <2>3, <4>1
    <3> QED BY <3>1, <3>2 DEF Earlier
  <2>e. Late(s)
    <3>1. ASSUME NEW k \in 1 .. Len(s), s[k] = 0 PROVE k > SeqBuf
      <4>1. \A x \in 1 .. h + n : x # 0
        OBVIOUS
      <4> QED BY <2>9, <2>c, <3>1, <4>1 DEF Known
    <3> QED BY <3>1 DEF Late, Foreign
  <2>f. /\ n \in 1 .. Len(s) /\ \A k \in 1 .. n : s[k] = h + k
        /\ \A k \in 1 .. Len(s) : k > n => s[k] \in 0 .. h
    <3>1. n \in 1 .. Len(s) /\ \A k \in 1 .. n : k \in 1 .. Len(q)
      BY <2>8, <2>b
    <3>2. ASSUME NEW k \in 1 .. Len(s), k > n PROVE s[k] \in 0 .. h
      <4>1. (\A x \in 1 .. h : x \in 0 .. h) /\ 0 \in 0 .. h
        BY ONLY <1>2
      <4> QED BY <2>6, <2>c, <3>2, <4>1
    <3> QED BY <2>7, <2>b, <3>1, <3>2
  <2>10. Writable(c)' => Unskipped(o \o s) /\ Late(o \o s) /\ \A v \in 1 .. h + n : Has(o \o s, v)
    <3> SUFFICES ASSUME Writable(c)'
                 PROVE  Unskipped(o \o s) /\ Late(o \o s) /\ \A v \in 1 .. h + n : Has(o \o s, v)
      OBVIOUS
    <3>1. Writable(c)
      BY <2>2 DEF Writable
    <3>2. o \o b = o
      BY <1>2, <2>2, ConcatEmptySeq
    <3>3. Unskipped(o) /\ \A v \in 1 .. h : Has(o, v)
      BY <1>1, <3>1, <3>2
    <3>4. Late(o \o s)
      BY <1>1, <1>2, <2>b, <2>e, LateJoined
    <3> QED BY <1>2, <2>b, <2>f, <3>3, <3>4, RefillUnskipped
  <2>11. Flow(c)' = o \o s /\ heard'[c] = h + n /\ buf'[c] = s /\ out'[c] = o
    BY <2>1, <2>2 DEF Flow, s, o
  <2> QED BY <1>1, <2>9, <2>d, <2>10, <2>11 DEF Repeats, q
<1>12. CASE Rewrites(c)
  <2>1. UNCHANGED <<heard[c], out[c]>> /\ buf'[c] \in Strings(message) /\ message' = message
        /\ client = c /\ ~Writable(c)'
    BY <1>12 DEF Rewrites, Writable
  <2>2. Earlier(buf'[c], h)
    <3> DEFINE s == buf'[c]
    <3> HIDE DEF s
    <3>1. s \in Strings(message)
      BY <2>1 DEF s
    <3>2. /\ Len(s) \in Nat /\ Len(s) >= Len(message) /\ Len(message) \in Nat
          /\ \A k \in 1 .. Len(message) : s[k] = message[k]
          /\ \A k \in 1 .. Len(s) : k > Len(message) => s[k] = 0
      BY <1>2, <3>1, StringBytes DEF Foreign
    <3>3. ASSUME NEW k \in 1 .. Len(s) PROVE s[k] \in 0 .. h
      <4>1. (k \in 1 .. Len(message) /\ s[k] = message[k]) \/ s[k] = 0
        BY <3>2
      <4>2. (\A x \in 1 .. h : x \in 0 .. h) /\ 0 \in 0 .. h
        BY ONLY <1>2
      <4> QED BY <1>1, <2>1, <4>1, <4>2 DEF Known
    <3> QED BY <3>3 DEF Earlier, s
  <2> QED BY <1>1, <1>5, <2>1, <2>2
<1>13. ~Gets(c) /\ ~Fails(c) /\ ~PutsLine(c) /\ ~PutsAgain(c)
  BY <1>3 DEF Gets, Fails, PutsLine, PutsAgain
<1> QED BY <1>6, <1>7, <1>8, <1>9, <1>10, <1>11, <1>12, <1>13 DEF Move, ByClient, ByWrite

(* What has been written of a line sent twice is the beginning of it.        *)
LEMMA TwicePrefix ==
  ASSUME NEW c \in Clients, NEW o \in Seq(Nat), NEW b \in Seq(Nat), Twice(c, o \o b)
  PROVE  Twice(c, o)
<1> DEFINE q == o \o b
<1>1. \A i \in 1 .. Len(o) : i \in 1 .. Len(q) /\ q[i] = o[i]
  BY Joined
<1>2. Twice(c, q)
  OBVIOUS
<1> HIDE DEF q
<1> QED BY <1>1, <1>2 DEF Twice

(* The last line, once more, behind all that was said.                       *)
LEMMA AgainTwice ==
  ASSUME NEW c \in Clients, heard[c] \in Nat, NEW o \in Seq(Nat), NEW b \in Seq(Nat),
         Len(o) = heard[c], \A i \in 1 .. Len(o) : o[i] = i,
         typed[c] > 0 => /\ Len(b) = LastOf(c) /\ Len(b) =< heard[c]
                         /\ \A k \in 1 .. Len(b) : b[k] = heard[c] - Len(b) + k,
         typed[c] = 0 => Alien(b)
  PROVE  Twice(c, o \o b)
<1> DEFINE q == o \o b
           h == heard[c]
           l == LastOf(c)
<1>0. Len(b) \in Nat /\ h \in Nat /\ Len(o) = h
  OBVIOUS
<1>1. /\ \A i \in 1 .. Len(o) : i \in 1 .. Len(q) /\ q[i] = o[i]
      /\ \A k \in 1 .. Len(b) : q[Len(o) + k] = b[k]
      /\ \A i \in 1 .. Len(q) : i \in 1 .. Len(o) \/ (i > Len(o) /\ \E k \in 1 .. Len(b) : i = Len(o) + k)
  BY Joined, ZenonT(60)
<1>2. /\ typed[c] > 0 => Len(b) = l /\ \A k \in 1 .. Len(b) : b[k] = h - Len(b) + k
      /\ typed[c] = 0 => Alien(b)
  OBVIOUS
<1> HIDE DEF q, h, l
<1>3. ASSUME NEW i \in 1 .. Len(q), i =< h PROVE q[i] = i
  <2>1. i \in 1 .. Len(o)
    BY <1>0, <1>3
  <2> QED BY <1>1, <2>1
<1>4. ASSUME NEW i \in 1 .. Len(q), i > h, typed[c] > 0 PROVE q[i] = i - l /\ i - l =< h
  <2>1. PICK k \in 1 .. Len(b) : i = Len(o) + k
    <3>1. i \notin 1 .. Len(o)
      BY <1>0, <1>4
    <3> QED BY <1>1, <3>1
  <2>2. b[k] = h - Len(b) + k /\ q[i] = b[k] /\ l = Len(b)
    BY <1>1, <1>2, <1>4, <2>1
  <2>3. h - Len(b) + k = (h + k) - Len(b) /\ (h + k) - Len(b) =< h
    BY ONLY <1>0, k \in 1 .. Len(b)
  <2>4. i = h + k
    BY <1>0, <2>1
  <2> QED BY <2>2, <2>3, <2>4
<1>5. ASSUME NEW i \in 1 .. Len(q), i > h, typed[c] = 0 PROVE q[i] = Foreign
  <2>1. PICK k \in 1 .. Len(b) : i = Len(o) + k
    <3>1. i \notin 1 .. Len(o)
      BY <1>0, <1>5
    <3> QED BY <1>1, <3>1
  <2> QED BY <1>1, <1>2, <1>5, <2>1 DEF Alien
<1> QED BY <1>3, <1>4, <1>5 DEF Twice, q, h, l

(* echo_stdserv, step by step.                                               *)
LEMMA ByLineMove ==
  ASSUME NEW c \in Clients, Net(c), Net(c)', Streams(c), Connection(c), ByLine(c), OnePlace,
         NetType, (Same(c) /\ SameTurn(c)) \/ Move(c), program' = program
  PROVE  ByLine(c)'
<1> SUFFICES ASSUME program = "echo_stdserv" PROVE ByLine(c)'
  BY DEF ByLine
<1> DEFINE h == heard[c]
           b == buf[c]
           o == out[c]
<1>1. /\ LineRead(c) /\ LineHeard(c) /\ LineEnded(c) /\ LineSent(c)
      /\ ~Plain /\ program' = "echo_stdserv" /\ program \notin {"server", "server2"}
  BY DEF ByLine, Plain
<1>2. /\ h \in Nat /\ o \in Seq(Nat) /\ b \in Seq(Nat) /\ message \in Seq(Nat)
      /\ Len(b) \in Nat /\ Len(o) \in Nat /\ Len(message) \in Nat
      /\ got[c] \in Nat /\ said[c] \in Nat /\ typed[c] \in Nat
      /\ h =< said[c] /\ got[c] =< Len(o)
  BY DEF Net, Streams
<1>n. /\ h \in Nat /\ Len(b) \in Nat /\ Len(o) \in Nat /\ got[c] \in Nat /\ said[c] \in Nat
      /\ h =< said[c] /\ got[c] =< Len(o)
  BY <1>2
<1>3. Flow(c) = o \o b /\ Len(Flow(c)) = Len(o) + Len(b)
  BY <1>2, Joined DEF Flow
\* what most steps leave alone
<1>4. ASSUME heard'[c] = h, typed'[c] \in {typed[c], typed[c] + 1},
             client' = c => client = c /\ message' = message
      PROVE  LineRead(c)'
  <2>1. ASSUME NEW k \in 0 .. typed[c], AtLine(c, k) PROVE k \in 0 .. typed'[c] /\ AtLine(c, k)'
    <3>1. typed[c] \in Nat
      BY <1>2
    <3>2. k \in 0 .. typed'[c]
      BY ONLY <1>4, <3>1, k \in 0 .. typed[c]
    <3>3. AtLine(c, k)'
      BY <1>2, <1>4, <2>1, <3>2 DEF AtLine
    <3> QED BY <3>2, <3>3
  <2>2. client' = c /\ h > 0 => LastLine(c)'
    <3> SUFFICES ASSUME client' = c, h > 0 PROVE LastLine(c)'
      OBVIOUS
    <3>1. PICK k \in 1 .. typed[c] : /\ AtLine(c, k)
                                     /\ Len(message) = Lines[c][k] /\ LastRead(c, message)
      BY <1>1, <1>4 DEF LineRead, LastLine
    <3>2. k \in 1 .. typed'[c] /\ AtLine(c, k)'
      BY <1>2, <1>4, <3>1 DEF AtLine
    <3>3. message' = message /\ LastRead(c, message)'
      BY <1>4, <3>1 DEF LastRead
    <3> QED BY <3>1, <3>2, <3>3 DEF LastLine
  <2>3. client' = c /\ h = 0 => Alien(message')
    BY <1>1, <1>4 DEF LineRead
  <2> QED BY <1>1, <1>4, <2>1, <2>2, <2>3 DEF LineRead
<1>5. ASSUME UNCHANGED <<heard[c], out[c], typed[c], said[c]>>,
             peer[c] \in {"half", "closed"} => peer'[c] \in {"half", "closed"},
             Writable(c)' => /\ Writable(c) /\ buf'[c] = buf[c]
                             /\ peer[c] = "half" /\ Again2(c) => peer'[c] = "half" /\ Again2(c)'
      PROVE  LineSent(c)'
  <2>a. LastOf(c)' = LastOf(c)
    BY <1>5 DEF LastOf
  <2>b. Twice(c, out[c])'
    BY <1>1, <1>5, <2>a DEF LineSent, Twice
  <2>c. ASSUME Writable(c)' PROVE Flow(c)' = Flow(c) /\ Twice(c, Flow(c))'
    <3>1. Flow(c)' = Flow(c)
      BY <1>5, <2>c DEF Flow
    <3>2. Twice(c, Flow(c))
      BY <1>1, <1>5, <2>c DEF LineSent
    <3> QED BY <1>5, <2>a, <3>1, <3>2 DEF Twice
  <2>1. Twice(c, out[c])' /\ (Writable(c)' => Twice(c, Flow(c))')
    BY <2>b, <2>c
  <2>2. Writable(c)' => Len(Flow(c)') = heard'[c] \/ (peer'[c] = "half" /\ Again2(c)')
    BY <1>1, <1>5, <2>c DEF LineSent
  <2> QED BY <1>1, <1>5, <2>1, <2>2 DEF LineSent
<1>6. CASE Same(c) /\ SameTurn(c)
  <2>1. UNCHANGED <<cst[c], typed[c], said[c], got[c], peer[c], heard[c], buf[c], out[c]>>
        /\ (client' = c <=> client = c) /\ (client = c => UNCHANGED <<message, passes>>)
    BY <1>1, <1>6 DEF Same, SameTurn
  <2>2. Again2(c)' = Again2(c) /\ Writable(c)' = Writable(c)
    BY <2>1 DEF Again2, Writable
  <2>3. LineHeard(c)' /\ LineEnded(c)'
    BY <1>1, <2>1, <2>2 DEF LineHeard, LineEnded
  <2> QED BY <1>1, <1>4, <1>5, <2>1, <2>2, <2>3 DEF ByLine
<1>7. CASE Closes(c)
  <2>1. /\ UNCHANGED <<cst[c], typed[c], said[c], got[c], heard[c], buf[c], out[c]>>
        /\ peer'[c] = "closed" /\ (client' = c => client = c /\ message' = message)
    BY <1>1, <1>7 DEF Closes
  <2>2. LineHeard(c)' /\ LineEnded(c)' /\ ~Writable(c)'
    BY <1>1, <2>1 DEF LineHeard, LineEnded, Writable
  <2> QED BY <1>1, <1>4, <1>5, <2>1, <2>2 DEF ByLine
<1>8. CASE Begins(c)
  <2>1. /\ UNCHANGED <<cst[c], typed[c], said[c], got[c], peer[c], heard[c], buf[c], out[c]>>
        /\ client # c /\ Has(backlog, c) /\ message' = Others
    BY <1>1, <1>8 DEF Begins, Same
  <2>2. h = 0 /\ b = << >>
    BY <2>1 DEF OnePlace, Untouched
  <2>3. ~Again2(c) /\ Writable(c)' = Writable(c)
    BY <2>1 DEF Again2, Writable
  <2>4. LineRead(c)'
    <3>1. PICK k \in 0 .. typed[c] : AtLine(c, k)
      BY <1>1 DEF LineRead
    <3>2. k \in 0 .. typed'[c] /\ AtLine(c, k)' /\ ~ (heard'[c] > 0)
      BY <2>1, <2>2, <3>1 DEF AtLine
    <3>3. Alien(message')
      BY <1>2, <2>1, OthersBytes DEF Alien
    <3> QED BY <3>2, <3>3 DEF LineRead
  <2>5. LineHeard(c)' /\ LineEnded(c)'
    BY <1>1, <2>1, <2>2, <2>3 DEF LineHeard, LineEnded
  <2>6. LineSent(c)'
    BY <1>5, <2>1, <2>3
  <2> QED BY <1>1, <2>4, <2>5, <2>6 DEF ByLine
<1>9. CASE Joins(c) /\ SameTurn(c)
  <2>1. /\ UNCHANGED <<typed[c], said[c], got[c], heard[c], buf[c], out[c]>>
        /\ peer[c] = "new" /\ peer'[c] = "open" /\ cst'[c] = "typing"
        /\ (client' = c => client = c /\ message' = message)
    BY <1>1, <1>9 DEF Joins, Connection, SameTurn
  <2>2. h = 0 /\ b = << >> /\ o = << >> /\ said[c] = 0 /\ got[c] = 0
    <3>1. h = 0 /\ b = << >> /\ o = << >> /\ said[c] = 0
      BY <2>1 DEF OnePlace, Untouched, Connection
    <3>2. Len(o) = 0
      BY <3>1
    <3> QED BY ONLY <1>2, <3>1, <3>2
  <2>3. LineRead(c)'
    BY <1>4, <2>1
  <2>4. LineHeard(c)' /\ LineEnded(c)'
    BY <2>1, <2>2 DEF LineHeard, LineEnded
  <2>5. LineSent(c)'
    <3>1. << >> \in Seq(Nat) /\ Len(<< >>) = 0 /\ << >> \o << >> = << >>
      BY ConcatEmptySeq
    <3>2. out'[c] = << >> /\ Flow(c)' = << >> /\ heard'[c] = 0
      BY <2>1, <2>2, <3>1 DEF Flow
    <3>3. Twice(c, << >>)'
      BY <3>1 DEF Twice
    <3> QED BY <3>1, <3>2, <3>3 DEF LineSent
  <2> QED BY <2>3, <2>4, <2>5 DEF ByLine
<1>10. CASE Types(c) /\ SameTurn(c)
  <2>1. /\ UNCHANGED <<said[c], got[c], peer[c], heard[c], buf[c], out[c]>> /\ peer[c] = "open"
        /\ cst'[c] = "writing"
        /\ typed'[c] = typed[c] + 1 /\ (client' = c => client = c /\ message' = message)
    BY <1>1, <1>10 DEF Types, SameTurn
  <2>2. LineRead(c)' /\ LineHeard(c)' /\ LineEnded(c)'
    BY <1>1, <1>4, <2>1 DEF LineHeard, LineEnded
  <2>3. Len(Flow(c)) = h /\ Len(o) =< h /\ Twice(c, o) /\ Twice(c, Flow(c))
    BY <1>1, <1>2, <2>1 DEF LineSent, Writable
  <2>4. ASSUME NEW q \in Seq(Nat), Len(q) =< h, Twice(c, q) PROVE Twice(c, q)'
    <3>1. ASSUME NEW i \in 1 .. Len(q) PROVE q[i] = i /\ i =< heard'[c] /\ ~ (i > heard'[c])
      <4>1. Len(q) \in Nat /\ heard'[c] = h
        BY <2>1
      <4>2. i =< h /\ ~ (i > h)
        BY ONLY <1>2, <2>4, <4>1, i \in 1 .. Len(q)
      <4> QED BY <2>4, <4>1, <4>2 DEF Twice
    <3> QED BY <3>1 DEF Twice
  <2>5. Flow(c)' = Flow(c) /\ Flow(c) \in Seq(Nat)
    BY <1>2, <2>1, Joined DEF Flow
  <2>6. Twice(c, out[c])' /\ Twice(c, Flow(c))'
    <3>1. \A q \in {o, Flow(c)} : Twice(c, q)'
      BY <1>2, <2>3, <2>4, <2>5
    <3> QED BY <2>1, <2>5, <3>1 DEF Twice
  <2>7. LineSent(c)'
    BY <1>2, <2>1, <2>3, <2>5, <2>6 DEF LineSent
  <2> QED BY <2>2, <2>7 DEF ByLine
<1>10b. CASE Speaks(c) /\ SameTurn(c)
  <2>1. /\ UNCHANGED <<typed[c], got[c], peer[c], heard[c], buf[c], out[c]>> /\ peer[c] = "open"
        /\ cst'[c] = "typing" => c \in Split
        /\ (client' = c => client = c /\ message' = message)
    BY <1>1, <1>10b DEF Speaks, SameTurn
  <2>2. LineRead(c)' /\ LineHeard(c)' /\ LineEnded(c)'
    BY <1>1, <1>4, <2>1 DEF LineHeard, LineEnded
  <2>3. Len(Flow(c)) = h /\ Len(o) =< h /\ Twice(c, o) /\ Twice(c, Flow(c))
    BY <1>1, <1>2, <2>1 DEF LineSent, Writable
  <2>4. Flow(c)' = Flow(c) /\ LastOf(c)' = LastOf(c)
    BY <2>1 DEF Flow, LastOf
  <2>5. Twice(c, out[c])' /\ Twice(c, Flow(c))'
    BY <2>1, <2>3, <2>4 DEF Twice
  <2>6. ~ (Len(out'[c]) > heard'[c])
    BY <1>2, <2>1, <2>3
  <2>7. LineSent(c)'
    BY <2>1, <2>3, <2>4, <2>5, <2>6 DEF LineSent
  <2> QED BY <2>2, <2>7 DEF ByLine
<1>11. CASE Hears(c) /\ SameTurn(c)
  <2>1. /\ UNCHANGED <<typed[c], said[c], peer[c], heard[c], buf[c], out[c]>>
        /\ got'[c] = Len(o)
        /\ c \notin Split /\ cst'[c] = "typing" => got'[c] >= said[c]
        /\ (client' = c <=> client = c) /\ (client = c => UNCHANGED <<message, passes>>)
    BY <1>1, <1>11 DEF Hears, SameTurn
  <2>2. Again2(c)' = Again2(c) /\ Writable(c)' = Writable(c)
    BY <2>1 DEF Again2, Writable
  <2>3. LineRead(c)' /\ LineSent(c)' /\ LineEnded(c)'
    BY <1>1, <1>4, <1>5, <2>1, <2>2 DEF LineEnded
  <2>4. LineHeard(c)'
    <3> SUFFICES ASSUME c \notin Split, cst'[c] = "typing", peer[c] = "open" PROVE got'[c] = said[c]
      BY <2>1 DEF LineHeard
    <3>1. Len(o) =< h
      BY <1>1, <1>2 DEF LineSent
    <3>2. Len(o) >= said[c]
      BY <2>1
    <3>3. Len(o) = said[c]
      BY ONLY <1>2, <3>1, <3>2
    <3> QED BY <2>1, <3>3
  <2> QED BY <2>3, <2>4 DEF ByLine
<1>12. CASE Quits(c) /\ SameTurn(c)
  <2>1. /\ UNCHANGED <<typed[c], said[c], got[c], heard[c], buf[c], out[c]>>
        /\ cst[c] = "typing" /\ peer[c] = "open" /\ cst'[c] # "typing"
        /\ \/ c \in Split /\ peer'[c] = "half"
           \/ c \notin Split /\ peer'[c] = IF got[c] < Len(o) THEN "error" ELSE "fin"
        /\ (client' = c => client = c /\ message' = message)
    BY <1>1, <1>12 DEF Quits, SameTurn
  <2>2. Len(o) =< h /\ Len(Flow(c)) = h /\ Twice(c, o) /\ Twice(c, Flow(c))
    BY <1>1, <1>2, <2>1 DEF LineSent, Writable
  <2>3. c \notin Split => peer'[c] = "fin" /\ h = said[c] /\ b = << >>
    <3> SUFFICES ASSUME c \notin Split PROVE peer'[c] = "fin" /\ h = said[c] /\ b = << >>
      OBVIOUS
    <3>1. got[c] = said[c]
      BY <1>1, <2>1 DEF LineHeard
    <3>2. ~ (got[c] < Len(o)) /\ h = said[c] /\ Len(b) = 0
      <4>1. Len(o) =< h /\ Len(o) + Len(b) = h
        BY <1>3, <2>2
      <4>2. \A g, s, x, y, z \in Nat : x =< s /\ g =< y /\ y =< x /\ y + z = x /\ g = s
                                        => ~ (g < y) /\ x = s /\ z = 0
        OBVIOUS
      <4>3. /\ h \in Nat /\ Len(b) \in Nat /\ Len(o) \in Nat /\ got[c] \in Nat /\ said[c] \in Nat
            /\ h =< said[c] /\ got[c] =< Len(o) /\ Len(o) =< h /\ Len(o) + Len(b) = h
            /\ got[c] = said[c]
        BY <1>n, <3>1, <4>1
      <4> HIDE DEF h, o, b
      <4> QED BY ONLY <4>2, <4>3, Zenon
    <3>3. b = << >>
      BY <1>2, <3>2
    <3> QED BY <2>1, <3>2, <3>3
  <2>4. LineRead(c)' /\ LineHeard(c)'
    BY <1>4, <2>1 DEF LineHeard
  <2>5. LineEnded(c)'
    BY <2>1, <2>3 DEF LineEnded
  <2>6. LineSent(c)'
    <3>1. Twice(c, out[c])' /\ Twice(c, Flow(c))' /\ Len(Flow(c)') = heard'[c]
      <4>1. Flow(c)' = Flow(c)
        BY <2>1 DEF Flow
      <4>2. LastOf(c)' = LastOf(c)
        BY <2>1 DEF LastOf
      <4> QED BY <2>1, <2>2, <4>1, <4>2 DEF Twice
    <3>2. ~ (Len(out'[c]) > heard'[c])
      BY <1>2, <2>1, <2>2
    <3> QED BY <3>1, <3>2 DEF LineSent
  <2> QED BY <2>4, <2>5, <2>6 DEF ByLine
<1>13. CASE Leaves(c) /\ SameTurn(c)
  <2>1. /\ UNCHANGED <<typed[c], said[c], got[c], peer[c], heard[c], buf[c], out[c]>>
        /\ peer[c] = "closed" /\ (client' = c => client = c /\ message' = message)
    BY <1>1, <1>13 DEF Leaves, SameTurn
  <2>2. LineHeard(c)' /\ LineEnded(c)' /\ ~Writable(c)'
    BY <2>1 DEF LineHeard, LineEnded, Writable
  <2> QED BY <1>4, <1>5, <2>1, <2>2 DEF ByLine
<1>14. CASE Sends(c) /\ SameTurn(c)
  <2> DEFINE p == o \o SubSeq(b, 1, Taken(c))
             r == SubSeq(b, Taken(c) + 1, Len(b))
  <2>1. /\ UNCHANGED <<cst[c], typed[c], said[c], got[c], peer[c], heard[c]>>
        /\ out'[c] = p /\ buf'[c] = r /\ Writable(c) /\ peer[c] \in {"open", "half"}
        /\ (client' = c <=> client = c) /\ (client = c => UNCHANGED <<message, passes>>)
    BY <1>1, <1>14 DEF Sends, SameTurn, Writable
  <2>2. Taken(c) \in 0 .. Len(b)
    BY TakenSize
  <2>3. p \in Seq(Nat) /\ r \in Seq(Nat) /\ p \o r = o \o b
    BY <1>2, <2>2, Parted, FlowOn
  <2> HIDE DEF p, r
  <2>4. Flow(c)' = Flow(c) /\ Again2(c)' = Again2(c)
    BY <2>1, <2>3 DEF Flow, Again2
  <2>5. Twice(c, Flow(c)) /\ (Len(Flow(c)) = h \/ (peer[c] = "half" /\ Again2(c)))
    BY <1>1, <2>1 DEF LineSent
  <2>6. Twice(c, p)
    BY <2>3, <2>5, TwicePrefix DEF Flow
  <2>7. Twice(c, out[c])' /\ Twice(c, Flow(c))'
    BY <2>1, <2>4, <2>5, <2>6 DEF Twice, LastOf
  <2>8. Len(p) > h => peer[c] = "half" /\ h = said[c]
    <3>1. Len(p) =< Len(Flow(c)) /\ Len(p) \in Nat
      <4>0. p \in Seq(Nat) /\ r \in Seq(Nat)
        BY <2>3
      <4>1. Len(p \o r) = Len(p) + Len(r) /\ Len(p) \in Nat /\ Len(r) \in Nat
        BY ONLY <4>0, Joined
      <4> QED BY <2>3, <4>1 DEF Flow
    <3>2. Len(p) > h => Len(Flow(c)) # h
      <4>1. \A x \in Nat, z \in Nat : x =< z => ~ (x > z)
        OBVIOUS
      <4> QED BY <1>n, <3>1, <4>1
    <3> QED BY <2>5, <3>2 DEF Again2
  <2>9. LineSent(c)'
    BY <2>1, <2>4, <2>5, <2>7, <2>8 DEF LineSent
  <2>10. LineRead(c)' /\ LineHeard(c)' /\ LineEnded(c)'
    BY <1>1, <1>4, <2>1, <2>4 DEF LineHeard, LineEnded
  <2> QED BY <2>9, <2>10 DEF ByLine
<1>15. CASE Loses(c) /\ SameTurn(c)
  <2>1. /\ UNCHANGED <<cst[c], typed[c], said[c], got[c], heard[c], out[c]>>
        /\ b # << >> /\ buf'[c] = << >>
        /\ (client' = c <=> client = c) /\ (client = c => UNCHANGED <<message, passes>>)
    BY <1>1, <1>15 DEF Loses, SameTurn
  <2>2. peer[c] = "fin" /\ peer'[c] \in {"fin", "reset"} /\ h = said[c] /\ Again2(c)
    BY <1>1, <1>15, <2>1 DEF Loses, LineEnded
  <2>3. Again2(c)' /\ ~Writable(c)'
    BY <2>1, <2>2 DEF Again2, Writable
  <2>4. LineRead(c)' /\ LineHeard(c)' /\ LineEnded(c)'
    BY <1>1, <1>4, <2>1, <2>2, <2>3 DEF LineHeard, LineEnded
  <2>5. LineSent(c)'
    BY <1>5, <2>1, <2>2, <2>3
  <2> QED BY <2>4, <2>5 DEF ByLine
<1>16. CASE PutsLine(c)
  <2>1. PICK k \in 1 .. typed[c] : /\ h = LineEnd(c)[k-1] /\ heard'[c] = LineEnd(c)[k]
                                   /\ LineEnd(c)[k] =< said[c] /\ message' = Bytes(c, Lines[c][k])
    BY <1>16 DEF PutsLine
  <2>2. /\ client = c /\ client' = c /\ b = << >> /\ HasData(c) /\ buf'[c] = message'
        /\ UNCHANGED <<cst[c], typed[c], said[c], got[c], peer[c], out[c], passes>>
    BY <1>16 DEF PutsLine
  <2> DEFINE n == Lines[c][k]
  <2>3. n \in Nat /\ heard'[c] = h + n /\ n >= 1
    <3>1. k \in 1 .. Len(Lines[c])
      BY <1>2, LineEnds DEF Streams
    <3> QED BY <2>1, <3>1, LineEnds
  <2>4. /\ Bytes(c, n) \in Seq(Nat) /\ Len(Bytes(c, n)) = n
        /\ \A j \in 1 .. n : Bytes(c, n)[j] = h + j
    BY <1>2, <2>3, BytesRead
  <2> DEFINE q == message'
  <2>5. q \in Seq(Nat) /\ Len(q) = n /\ \A j \in 1 .. n : q[j] = h + j
    BY <2>1, <2>4
  <2>6. h # said[c]
    BY <1>n, <2>2 DEF HasData
  <2>7. peer[c] \notin {"fin", "reset", "error"} /\ Len(o) =< h /\ ~Again2(c)
    BY <1>1, <1>n, <2>6 DEF LineEnded, LineSent, Again2
  <2>8. LineHeard(c)' /\ LineEnded(c)'
    BY <1>1, <2>2, <2>7 DEF LineHeard, LineEnded
  <2> HIDE DEF q, h, o, n
  <2>9. LastRead(c, message)'
    <3>1. n =< heard'[c] /\ \A j \in 1 .. n : h + j = heard'[c] - n + j
      BY ONLY <1>n, <2>3
    <3>2. Len(message') = n /\ \A j \in 1 .. n : message'[j] = heard'[c] - n + j
      BY <2>5, <3>1 DEF q
    <3> QED BY <3>1, <3>2 DEF LastRead
  <2>10. LineRead(c)'
    <3>1. k \in 1 .. typed'[c] /\ k \in 0 .. typed'[c] /\ AtLine(c, k)'
      BY <1>2, <2>1, <2>2 DEF AtLine
    <3>2. LastLine(c)'
      <4>1. Len(message') = Lines[c][k]
        BY <2>5 DEF q, n
      <4> QED BY <2>9, <3>1, <4>1 DEF LastLine
    <3>3. heard'[c] # 0
      BY ONLY <1>n, <2>3
    <3> QED BY <3>1, <3>2, <3>3 DEF LineRead
  <2>11. LineSent(c)'
    <3>1. \A i \in 1 .. Len(o) : o[i] = i /\ i =< heard'[c] /\ ~ (i > heard'[c])
      <4>1. \A i \in 1 .. Len(o) : i =< h /\ i =< heard'[c] /\ ~ (i > heard'[c])
        BY ONLY <1>n, <2>3, <2>7
      <4> QED BY <1>1, <4>1 DEF LineSent, Twice, h, o
    <3>2. Twice(c, o)'
      <4>1. \A i \in 1 .. Len(out'[c]) : out'[c][i] = i /\ i =< heard'[c] /\ ~ (i > heard'[c])
        BY <2>2, <3>1 DEF o
      <4> QED BY <2>2, <4>1 DEF Twice, o
    <3>3. ~ (Len(o) > heard'[c])
      BY ONLY <1>n, <2>3, <2>7
    <3>4. Writable(c)' => Twice(c, Flow(c))' /\ Len(Flow(c)') = heard'[c]
      <4> SUFFICES ASSUME Writable(c)' PROVE Twice(c, Flow(c))' /\ Len(Flow(c)') = heard'[c]
        OBVIOUS
      <4>1. Len(o) + Len(b) = h
        BY <1>1, <1>3, <2>2, <2>7 DEF LineSent, Writable, h
      <4>2. Len(o) = h
        <5>1. Len(b) = 0
          BY <2>2
        <5> QED BY ONLY <1>n, <4>1, <5>1
      <4>3. Flow(c)' = o \o q
        BY <2>2 DEF Flow, o, q
      <4> DEFINE f == o \o q
      <4>4. o \in Seq(Nat) /\ q \in Seq(Nat)
        BY <1>2, <2>5 DEF o
      <4>5. /\ Len(f) = Len(o) + Len(q)
            /\ \A i \in 1 .. Len(o) : f[i] = o[i]
            /\ \A j \in 1 .. Len(q) : f[Len(o) + j] = q[j]
            /\ \A i \in 1 .. Len(f) : i \in 1 .. Len(o) \/ \E j \in 1 .. Len(q) : i = Len(o) + j
        BY ONLY <4>4, Joined, Zenon
      <4> HIDE DEF f
      <4>6. Len(f) = heard'[c]
        BY <2>3, <2>5, <4>2, <4>5
      <4>7. ASSUME NEW i \in 1 .. Len(f) PROVE f[i] = i /\ i =< heard'[c] /\ ~ (i > heard'[c])
        <5>1. i =< heard'[c] /\ ~ (i > heard'[c])
          BY <1>n, <2>3, <4>6
        <5>2. CASE i \in 1 .. Len(o)
          BY <3>1, <4>5, <5>1, <5>2
        <5>3. ASSUME NEW j \in 1 .. Len(q), i = Len(o) + j PROVE f[i] = i
          BY <2>5, <4>2, <4>5, <5>3
        <5> QED BY <4>5, <5>1, <5>2, <5>3
      <4>8. Twice(c, Flow(c))'
        <5>1. Flow(c)' = f
          BY <4>3 DEF f
        <5> QED BY <4>7, <5>1 DEF Twice
      <4> QED BY <4>3, <4>6, <4>8 DEF f
    <3> QED BY <2>2, <3>2, <3>3, <3>4 DEF LineSent, o
  <2> QED BY <2>8, <2>10, <2>11 DEF ByLine
<1>17. CASE PutsAgain(c)
  <2>1. /\ client = c /\ client' = c /\ b = << >> /\ message' = message /\ passes = 0
        /\ buf'[c] = message
        /\ UNCHANGED <<cst[c], typed[c], said[c], got[c], heard[c], out[c]>>
    BY <1>17 DEF PutsAgain
  <2>2. Ended(c) /\ passes' = 1 /\ peer'[c] = peer[c]
    BY <1>1, <1>17 DEF PutsAgain, Failing, LineEnded
  <2>3. h = said[c] /\ ~Again2(c) /\ Again2(c)' /\ peer[c] \in {"half", "fin"}
    <3>1. h = said[c] /\ ~Again2(c) /\ peer[c] \in {"half", "fin", "reset"}
      BY <1>n, <2>1, <2>2 DEF Ended, HasData, Again2
    <3> QED BY <1>1, <2>1, <2>2, <3>1 DEF Again2, LineEnded
  <2>4. LineRead(c)' /\ LineHeard(c)' /\ LineEnded(c)'
    BY <1>1, <1>4, <2>1, <2>2, <2>3 DEF LineHeard, LineEnded
  <2>5. Twice(c, out[c])' /\ (Len(out'[c]) > heard'[c] => peer'[c] = "half")
    BY <1>1, <2>1, <2>2, <2>3 DEF LineSent, Twice, LastOf
  <2>6. peer[c] = "half" => Twice(c, Flow(c))'
    <3> SUFFICES ASSUME peer[c] = "half" PROVE Twice(c, Flow(c))'
      OBVIOUS
    <3>1. Len(o) = h /\ \A i \in 1 .. Len(o) : o[i] = i
      <4>1. Len(o) + Len(b) = h /\ Twice(c, o)
        BY <1>1, <1>3, <2>3 DEF LineSent, Writable
      <4>2. Len(b) = 0
        BY <2>1
      <4>3. Len(o) = h /\ \A i \in 1 .. Len(o) : i =< h
        BY ONLY <1>n, <4>1, <4>2
      <4> QED BY <4>1, <4>3 DEF Twice
    <3>a. cst[c] # "writing"
      BY DEF Connection
    <3>2. ASSUME typed[c] > 0
          PROVE  /\ Len(message) = LastOf(c) /\ Len(message) =< h
                 /\ \A k \in 1 .. Len(message) : message[k] = h - Len(message) + k
      <4>1. typed[c] \in 0 .. Len(Lines[c]) /\ 0 \in 0 .. Len(Lines[c]) /\ h = LineEnd(c)[typed[c]]
        BY <1>2, <2>3, <3>a, LineEnds DEF Streams
      <4>2. h > 0
        BY <3>2, <4>1, LineEnds
      <4>3. PICK k \in 1 .. typed[c] : /\ AtLine(c, k)
                                       /\ Len(message) = Lines[c][k] /\ LastRead(c, message)
        BY <1>1, <2>1, <4>2 DEF LineRead, LastLine
      <4>4. k = typed[c]
        <5>1. k \in 0 .. Len(Lines[c]) /\ LineEnd(c)[k] = h /\ (k = typed[c] \/ k < typed[c])
          BY <1>2, <4>1, <4>3 DEF AtLine
        <5>2. k < typed[c] => h < h
          BY <4>1, <5>1, LineEnds
        <5> QED BY <1>2, <5>1, <5>2
      <4> QED BY <4>3, <4>4 DEF LastOf, LastRead
    <3>b. typed[c] = 0 => Alien(message)
      <4> SUFFICES ASSUME typed[c] = 0 PROVE Alien(message)
        OBVIOUS
      <4>1. h = 0
        BY <2>3, <3>a, LineEnds DEF Streams
      <4> QED BY <1>1, <2>1, <4>1 DEF LineRead
    <3>3. Twice(c, o \o message)
      BY <1>2, <3>1, <3>2, <3>b, AgainTwice
    <3>4. Flow(c)' = o \o message
      BY <2>1 DEF Flow
    <3> QED BY <2>1, <3>3, <3>4 DEF Twice, LastOf
  <2>7. LineSent(c)'
    BY <2>1, <2>2, <2>3, <2>5, <2>6 DEF LineSent, Writable
  <2> QED BY <2>4, <2>7 DEF ByLine
<1>18. ~Gets(c) /\ ~Fails(c) /\ ~Refills(c) /\ ~Rewrites(c)
  BY <1>1 DEF Gets, Fails, Refills, Rewrites
<1> QED BY <1>6, <1>7, <1>8, <1>9, <1>10, <1>10b, <1>11, <1>12, <1>13, <1>14, <1>15, <1>16, <1>17, <1>18
        DEF Move, ByClient, ByWrite

-----------------------------------------------------------------------------
(* Where a connection is.  Most steps leave the places of all where they are,*)
(* and serve only who has one.                                               *)
NetStays ==
  /\ backlog' = backlog
  /\ \A d \in Clients : /\ Untouched(d) => UNCHANGED <<heard[d], buf[d], out[d]>>
                        /\ peer'[d] = "new" <=> peer[d] = "new"

PlacesStay ==
  /\ NetStays
  /\ \A d \in Clients : child[d] = "none" => child'[d] = "none"
  /\ client' \in {client, Nobody}
  /\ \A f \in FDs : conn'[f] \in {conn[f], NoClient}

(* A step that takes nobody to a new place keeps everybody in one.           *)
LEMMA StaysOnePlace ==
  ASSUME OnePlace, PlacesStay
  PROVE  OnePlace'
<1>1. ASSUME NEW d \in Clients, Untouched(d) PROVE Untouched(d)'
  <2>1. heard'[d] = 0 /\ buf'[d] = << >> /\ out'[d] = << >> /\ child'[d] = "none"
    BY <1>1 DEF PlacesStay, NetStays, Untouched
  <2>2. client' # d
    BY <1>1, NobodyIs DEF PlacesStay, Untouched
  <2>3. \A f \in FDs : conn'[f] # d
    BY <1>1, NobodyIs DEF PlacesStay, Untouched
  <2> QED BY <2>1, <2>2, <2>3 DEF Untouched
<1>2. Distinct(backlog)' /\ \A c \in Clients : Has(backlog, c)' = Has(backlog, c)
  BY DEF PlacesStay, NetStays, OnePlace, Distinct, Has
<1>3. \A c \in Clients : peer'[c] = "new" <=> peer[c] = "new"
  BY DEF PlacesStay, NetStays
<1>4. ASSUME NEW f \in Open', NEW g \in Open', conn'[f] = conn'[g] PROVE f = g
  <2>1. f \in Open /\ g \in Open /\ conn[f] = conn[g]
    BY <1>4 DEF PlacesStay, Open
  <2> QED BY <2>1 DEF OnePlace
<1> QED BY <1>1, <1>2, <1>3, <1>4 DEF OnePlace

(* accept moves the head of the backlog to a descriptor, to a child, or in   *)
(* front of the server.                                                      *)
LEMMA TakenOnePlace ==
  ASSUME TypeOK, OnePlace, NEW x \in Clients, backlog # << >>, x = Head(backlog),
         backlog' = Tail(backlog), \A d \in Clients \ {x} : Same(d) /\ child'[d] = child[d],
         peer'[x] # "new", client' \in {client, x},
         conn' = conn \/ \E f \in FDs \ Open : conn' = [conn EXCEPT ![f] = x]
  PROVE  OnePlace'
<1>1. backlog \in Seq(Clients) /\ conn \in [FDs -> Clients \cup {NoClient}]
  BY DEF TypeOK, NetType, RestType
<1>2. /\ Distinct(Tail(backlog)) /\ Has(backlog, x)
      /\ \A c : Has(Tail(backlog), c) => Has(backlog, c) /\ c # x
  BY <1>1, TailHas DEF OnePlace
<1>3. Distinct(backlog)' /\ \A c \in Clients : Has(backlog, c)' => Has(backlog, c) /\ c # x
  BY <1>2 DEF Distinct, Has
<1>4. \A f \in FDs : conn[f] # x
  BY <1>2 DEF OnePlace, Untouched
<1>5. \A f \in FDs : conn'[f] = conn[f] \/ (conn'[f] = x /\ conn[f] = NoClient)
  BY <1>1 DEF Open
<1>6. ASSUME NEW d \in Clients, d # x, Untouched(d) PROVE Untouched(d)'
  BY <1>5, <1>6 DEF Untouched, Same
<1>7. ASSUME NEW c \in Clients PROVE peer'[c] = "new" => peer[c] = "new" /\ c # x
  BY DEF Same
<1>8. ASSUME NEW c \in Clients, Has(backlog, c)' PROVE peer'[c] # "new"
  BY <1>3, <1>8 DEF OnePlace, Same
<1>9. ASSUME NEW f \in Open', NEW g \in Open', conn'[f] = conn'[g] PROVE f = g
  <2>1. CASE f \in Open /\ g \in Open
    <3>1. conn'[f] = conn[f] /\ conn'[g] = conn[g]
      BY <1>5, <2>1 DEF Open
    <3> QED BY <1>9, <2>1, <3>1 DEF OnePlace
  <2>2. CASE f \notin Open \/ g \notin Open
    <3>1. conn' # conn
      BY <2>2 DEF Open
    <3>2. PICK e \in FDs \ Open : conn' = [conn EXCEPT ![e] = x]
      BY <3>1
    <3>3. \A d \in Open' : d = e \/ (d \in Open /\ conn'[d] # x)
      BY <1>1, <1>4, <3>2 DEF Open
    <3>4. conn'[e] = x
      BY <1>1, <3>2
    <3> QED BY <1>9, <2>2, <3>2, <3>3, <3>4
  <2> QED BY <2>1, <2>2
<1> QED BY <1>3, <1>6, <1>7, <1>8, <1>9 DEF OnePlace

(* Who connects waits in the backlog and is nowhere else.                    *)
LEMMA JoinedOnePlace ==
  ASSUME TypeOK, OnePlace, NEW c \in Clients, Connection(c), Connect(c),
         UNCHANGED <<readyVars, forkVars, seqVars>>
  PROVE  OnePlace'
<1>1. /\ backlog \in Seq(Clients) /\ backlog' = Append(backlog, c)
      /\ peer' = [peer EXCEPT ![c] = "open"] /\ DOMAIN peer = Clients
      /\ UNCHANGED <<heard, buf, out, conn, child, client>>
  BY DEF TypeOK, NetType, Connect, readyVars, forkVars, seqVars
<1>2. peer[c] = "new" /\ Untouched(c) /\ ~Has(backlog, c)
  BY DEF Connect, Connection, OnePlace
<1>3. Distinct(backlog)' /\ \A d \in Clients : Has(backlog, d)' <=> Has(backlog, d) \/ d = c
  <2>1. Distinct(Append(backlog, c)) /\ \A d : Has(Append(backlog, c), d) <=> Has(backlog, d) \/ d = c
    BY <1>1, <1>2, AppendHas DEF OnePlace
  <2> QED BY <1>1, <2>1 DEF Distinct, Has
<1>4. \A d \in Clients : Untouched(d)' = Untouched(d)
  BY <1>1 DEF Untouched
<1>5. \A d \in Clients : peer'[d] = IF d = c THEN "open" ELSE peer[d]
  BY <1>1
<1>6. Open' = Open
  BY <1>1 DEF Open
<1> QED BY <1>1, <1>2, <1>3, <1>4, <1>5, <1>6 DEF OnePlace

(* What the system calls of a server do to who has a place, and a client to  *)
(* itself.                                                                   *)
LEMMA CallsStay ==
  ASSUME NetType, NEW c \in Clients,
         \/ \E b, v : Write(c, b, v)
         \/ ~Untouched(c) /\ (ReadFails(c) \/ \E size : Read(c, size))
         \/ peer[c] # "new" /\ Close(c)
  PROVE  NetStays
<1> USE DEF NetType
<1>1. ASSUME NEW b, NEW v, Write(c, b, v) PROVE NetStays
  <2>1. /\ buf[c] # << >> /\ heard' = heard /\ backlog' = backlog
        /\ \A d \in Clients \ {c} : UNCHANGED <<buf[d], out[d], peer[d]>>
        /\ peer'[c] = peer[c] \/ (peer[c] # "new" /\ peer'[c] \in {"reset", "fin"})
    BY <1>1 DEF Write
  <2> QED BY <2>1 DEF NetStays, Untouched
<1>2. CASE ~Untouched(c) /\ (ReadFails(c) \/ \E size : Read(c, size))
  <2>1. /\ backlog' = backlog
        /\ \A d \in Clients \ {c} : UNCHANGED <<heard[d], buf[d], out[d], peer[d]>>
        /\ peer'[c] = peer[c] \/ (peer[c] = "error" /\ peer'[c] = "reset")
    BY <1>2 DEF ReadFails, Read, Failing
  <2> QED BY <1>2, <2>1 DEF NetStays
<1>3. CASE peer[c] # "new" /\ Close(c)
  BY <1>3 DEF Close, NetStays
<1> QED BY <1>1, <1>2, <1>3

(* A client goes to a new place only by connecting.                          *)
LEMMA ClientStays ==
  ASSUME NetType, NEW c \in Clients, Client(c)
  PROVE  NetStays \/ Connect(c)
<1> USE DEF NetType
<1>1. CASE Type(c) \/ Send(c) \/ HearSome(c) \/ HearLine(c) \/ HearAlways(c) \/ Leave(c)
  BY <1>1 DEF Type, Send, HearSome, HearLine, HearAlways, Heard, Leave, NetStays
<1>2. CASE Quit(c)
  BY <1>2 DEF Quit, NetStays
<1> QED BY <1>1, <1>2
        DEF Client, echo_client, echo_stdclnt, client_week3, client_week2, client3, echo_mpclient

(* With select and epoll a connection has one descriptor, however often the  *)
(* descriptor is used again.                                                 *)
LEMMA ReadinessPlaces ==
  ASSUME TypeOK, OnePlace, ByReadiness, UNCHANGED <<forkVars, seqVars>>
  PROVE  OnePlace'
<1>1. NetType /\ child' = child /\ client' = client /\ conn \in [FDs -> Clients \cup {NoClient}]
  BY DEF TypeOK, RestType, forkVars, seqVars
<1>2. ASSUME NetStays, \A f \in FDs : conn'[f] \in {conn[f], NoClient} PROVE OnePlace'
  BY <1>1, <1>2, StaysOnePlace DEF PlacesStay
<1>3. ASSUME UNCHANGED <<peer, heard, buf, out, backlog, conn>> PROVE OnePlace'
  BY <1>2, <1>3 DEF NetStays
<1>4. ASSUME NEW s, NEW lists, Report(s, lists) PROVE OnePlace'
  BY <1>3, <1>4 DEF Report
<1>5. CASE Accept
  <2>1. PICK f \in FDs \ Open : conn' = [conn EXCEPT ![f] = Head(backlog)] /\ TakeBacklog
    BY <1>5 DEF Accept
  <2>2. PICK x \in Clients : x = Head(backlog) /\ Has(backlog, x)
    BY <1>1, <2>1, BacklogHead DEF TakeBacklog
  <2>3. backlog # << >> /\ backlog' = Tail(backlog) /\ UNCHANGED <<cst, typed, said, got, peer, heard, buf, out>>
    BY <2>1 DEF TakeBacklog
  <2>4. peer'[x] # "new"
    BY <2>2, <2>3 DEF OnePlace
  <2> QED BY <1>1, <2>1, <2>2, <2>3, <2>4, TakenOnePlace DEF Same
<1>6. ASSUME NEW f \in Open, Receive(f) \/ Fail(f) \/ End(f) PROVE OnePlace'
  <2>1. PICK c \in Clients : c = conn[f]
    BY OpenClient
  <2>2. ~Untouched(c) /\ peer[c] # "new"
    BY <2>1 DEF Untouched, OnePlace, Open
  <2>3. NetStays
    <3>1. ReadFails(c) \/ Close(c) \/ \E size : Read(c, size)
      BY <1>6, <2>1 DEF Receive, Fail, End
    <3> QED BY <1>1, <2>2, <3>1, CallsStay
  <2>4. \A g \in FDs : conn'[g] \in {conn[g], NoClient}
    BY <1>1, <1>6 DEF Receive, Fail, End
  <2> QED BY <1>2, <2>3, <2>4
<1>7. ASSUME NEW b, Echo(b) PROVE OnePlace'
  <2>1. NetStays
    BY <1>1, <1>7, CallsStay DEF Echo
  <2>2. conn' = conn
    BY <1>7 DEF Echo, readyVars
  <2> QED BY <1>2, <2>1, <2>2
<1>8. ASSUME NEW lists, LevelLoop(lists) PROVE OnePlace'
  BY <1>4, <1>5, <1>6, <1>7, <1>8 DEF LevelLoop, Once
<1>9. CASE UNCHANGED <<netVars, conn>>
  BY <1>3, <1>9 DEF netVars
<1>10. CASE echo_EPETserv
  BY <1>4, <1>5, <1>6, <1>7, <1>9, <1>10 DEF echo_EPETserv, Again
<1> QED BY <1>8, <1>10 DEF ByReadiness, echo_selectserv, echo_epollserv, echo_EPLTserv

(* A connection has one child.                                               *)
LEMMA ForkingPlaces ==
  ASSUME TypeOK, OnePlace, ByForking, UNCHANGED <<readyVars, seqVars>>
  PROVE  OnePlace'
<1>1. NetType /\ client' = client /\ conn' = conn
      /\ child \in [Clients \cup {logger} -> {"none", "run", "zombie", "reaped"}]
      /\ conn \in [FDs -> Clients \cup {NoClient}]
  BY DEF TypeOK, RestType, readyVars, seqVars
<1>2. ASSUME NetStays, \A d \in Clients : child[d] = "none" => child'[d] = "none" PROVE OnePlace'
  BY <1>1, <1>2, StaysOnePlace DEF PlacesStay
<1>3. ASSUME UNCHANGED netVars, \A d \in Clients : child[d] = "none" => child'[d] = "none"
      PROVE  OnePlace'
  BY <1>2, <1>3 DEF NetStays, netVars
<1>4. CASE AcceptAndFork
  <2>1. backlog # << >> /\ backlog' = Tail(backlog) /\ UNCHANGED <<cst, typed, said, got, peer, heard, buf, out>>
    BY <1>4 DEF AcceptAndFork, TakeBacklog
  <2>2. PICK x \in Clients : x = Head(backlog) /\ Has(backlog, x)
    BY <1>1, <2>1, BacklogHead
  <2>3. peer'[x] # "new"
    BY <2>1, <2>2 DEF OnePlace
  <2>4. \A d \in Clients \ {x} : child'[d] = child[d]
    BY <1>1, <1>4, <2>2 DEF AcceptAndFork
  <2> QED BY <1>1, <2>1, <2>2, <2>3, <2>4, TakenOnePlace DEF Same
<1>5. CASE Reap
  <2>1. UNCHANGED netVars /\ \A d \in Clients : child[d] = "none" => child'[d] = "none"
    BY <1>1, <1>5 DEF Reap
  <2> QED BY <1>3, <2>1
<1>6. ASSUME NEW c \in Clients, Child(c) PROVE OnePlace'
  <2>1. ~Untouched(c) /\ peer[c] # "new" /\ child[c] = "run"
    <3>1. child[c] = "run"
      BY <1>6 DEF Child, ChildReads, ChildFails, ChildEchoes, ChildLogs, ChildEnds, Reads, Runs
    <3> QED BY <3>1 DEF Untouched, OnePlace
  <2>2. \A d \in Clients : child[d] = "none" => child'[d] = "none"
    BY <1>1, <1>6, <2>1
       DEF Child, ChildReads, ChildFails, ChildEchoes, ChildLogs, ChildEnds, Ends, forkVars
  <2>3. CASE ChildLogs(c)
    BY <1>3, <2>2, <2>3 DEF ChildLogs
  <2>4. CASE ~ChildLogs(c)
    <3>1. \/ \E b, v : Write(c, b, v)
          \/ ReadFails(c) \/ Close(c) \/ \E size : Read(c, size)
      BY <1>6, <2>4 DEF Child, ChildReads, ChildFails, ChildEchoes, ChildEnds
    <3> QED BY <1>1, <1>2, <2>1, <2>2, <3>1, CallsStay
  <2> QED BY <2>3, <2>4
<1>7. CASE Logger
  <2>1. UNCHANGED netVars /\ \A d \in Clients : child'[d] = child[d]
    <3>1. \A d \in Clients : d # logger
      BY NobodyIs
    <3> QED BY <1>1, <1>7, <3>1 DEF Logger, Ends
  <2> QED BY <1>3, <2>1
<1> QED BY <1>4, <1>5, <1>6, <1>7 DEF ByForking, echo_mpserv, echo_storeserv

(* The server that serves one client at a time serves no client that waits.  *)
LEMMA InTurnPlaces ==
  ASSUME TypeOK, OnePlace, InTurn, UNCHANGED <<readyVars, forkVars>>
  PROVE  OnePlace'
<1>1. NetType /\ child' = child /\ conn' = conn /\ conn \in [FDs -> Clients \cup {NoClient}]
  BY DEF TypeOK, RestType, readyVars, forkVars
<1>2. ASSUME NetStays, client' \in {client, Nobody} PROVE OnePlace'
  BY <1>1, <1>2, StaysOnePlace DEF PlacesStay
<1>3. ASSUME NEW b, AcceptNext(b) PROVE OnePlace'
  <2>1. /\ backlog # << >> /\ backlog' = Tail(backlog) /\ client' = Head(backlog)
        /\ UNCHANGED <<cst, typed, said, got, peer, heard, buf, out>>
    BY <1>3 DEF AcceptNext, TakeBacklog
  <2>2. PICK x \in Clients : x = Head(backlog) /\ Has(backlog, x)
    BY <1>1, <2>1, BacklogHead
  <2>3. peer'[x] # "new"
    BY <2>1, <2>2 DEF OnePlace
  <2> QED BY <1>1, <2>1, <2>2, <2>3, TakenOnePlace DEF Same
<1>4. CASE AcceptFails
  <2>1. /\ backlog # << >> /\ backlog' = Tail(backlog) /\ client' = client
        /\ UNCHANGED <<cst, typed, said, got, heard, buf, out>>
        /\ peer' = [peer EXCEPT ![Head(backlog)] = "closed"]
    BY <1>4 DEF AcceptFails
  <2>2. PICK x \in Clients : x = Head(backlog)
    BY <1>1, <2>1, BacklogHead
  <2>3. peer'[x] = "closed" /\ \A d \in Clients \ {x} : peer'[d] = peer[d]
    BY <1>1, <2>1, <2>2 DEF NetType
  <2> QED BY <1>1, <2>1, <2>2, <2>3, TakenOnePlace DEF Same
<1>5. CASE Puts
  <2>1. NetStays /\ client' = client
    BY <1>1, <1>5, CallsStay DEF Puts, seqVars
  <2> QED BY <1>2, <2>1
<1>6. ASSUME NEW c \in Clients, client = c, UNCHANGED backlog, client' \in {client, Nobody},
             \A d \in Clients \ {c} : UNCHANGED <<heard[d], buf[d], out[d], peer[d]>>,
             peer'[c] # "new"
      PROVE  OnePlace'
  <2>1. ~Untouched(c) /\ peer[c] # "new"
    BY <1>6 DEF Untouched, OnePlace
  <2>2. NetStays
    BY <1>6, <2>1 DEF NetStays
  <2> QED BY <1>2, <1>6, <2>2
<1>7. ASSUME NEW c \in Clients, client = c,
             Hangup(c) \/ EchoBuffer(c) \/ EchoAfterReset(c) \/ EchoLine(c) \/ EchoAgain(c)
      PROVE  OnePlace'
  <2>1. peer[c] # "new"
    BY <1>7 DEF Untouched, OnePlace
  <2>2. UNCHANGED backlog /\ client' \in {client, Nobody}
    BY <1>7 DEF Hangup, Close, EchoBuffer, EchoAfterReset, EchoLine, EchoAgain, seqVars
  <2>3. /\ \A d \in Clients \ {c} : UNCHANGED <<heard[d], buf[d], out[d], peer[d]>>
        /\ peer'[c] # "new"
    BY <1>1, <1>7, <2>1
       DEF NetType, Hangup, Close, EchoBuffer, EchoAfterReset, EchoLine, EchoAgain
  <2> QED BY <1>6, <1>7, <2>2, <2>3
<1>8. CASE server3
  <2>1. ASSUME NEW c \in Clients, client = c, Pass(c), Read(c, SeqBuf) \/ ReadFails(c)
        PROVE  OnePlace'
    <3>1. ~Untouched(c)
      BY <2>1 DEF Untouched
    <3>2. NetStays /\ client' = client
      BY <1>1, <2>1, <3>1, CallsStay DEF Pass
    <3> QED BY <1>2, <3>2
  <2>2. ASSUME NEW c, Pass(c), UNCHANGED netVars PROVE OnePlace'
    BY <1>2, <2>2 DEF Pass, netVars, NetStays
  <2> QED BY <1>3, <1>4, <1>5, <1>7, <1>8, <2>1, <2>2 DEF server3, Serving
<1>9. StrlenLoop => OnePlace'
  BY <1>3, <1>4, <1>5, <1>7 DEF StrlenLoop, Serving, EchoBuffer, EchoAfterReset
<1>10. echo_stdserv => OnePlace'
  BY <1>3, <1>5, <1>7 DEF echo_stdserv, Serving, EchoLine, EchoAgain
<1> QED BY <1>8, <1>9, <1>10 DEF InTurn, server, server2

(* Every step leaves every client in one place.                              *)
LEMMA NextPlaces ==
  ASSUME TypeOK, OnePlace, \A c \in Clients : Connection(c), [Next]_vars
  PROVE  OnePlace'
<1>1. ASSUME NEW c \in Clients, Client(c), UNCHANGED <<readyVars, forkVars, seqVars>>
      PROVE  OnePlace'
  <2>1. CASE Connect(c)
    BY <1>1, <2>1, JoinedOnePlace
  <2>2. CASE NetStays
    BY <1>1, <2>2, StaysOnePlace DEF PlacesStay, readyVars, forkVars, seqVars
  <2> QED BY <1>1, <2>1, <2>2, ClientStays DEF TypeOK
<1>2. CASE UNCHANGED vars
  BY <1>2, StaysOnePlace DEF PlacesStay, NetStays, vars, netVars, readyVars, forkVars, seqVars
<1> QED BY <1>1, <1>2, ReadinessPlaces, ForkingPlaces, InTurnPlaces DEF Next, Over

-----------------------------------------------------------------------------
(* SIGPIPE.  Who has left early stays so: nothing is sent to a client that   *)
(* has gone, and it reads nothing.                                           *)
LEMMA LeftEarlyStays ==
  ASSUME NEW c \in Clients, Connection(c), LeftEarly(c), Same(c) \/ Move(c)
  PROVE  LeftEarly(c)'
<1>1. cst[c] = "gone" /\ peer[c] \in {"fin", "error", "reset", "closed"}
  BY DEF LeftEarly, Connection
<1>2. UNCHANGED <<cst[c], got[c], out[c], said[c]>>
  BY <1>1 DEF Same, Move, ByClient, ByWrite, Joins, Types, Speaks, Hears, Quits, Leaves, Sends, Loses, Gets,
              Fails, Closes, Begins, Refills, Rewrites, PutsLine, PutsAgain, Stays, Writable
<1> QED BY <1>2 DEF LeftEarly

(* A RST is sent to who left early, or with the last that was to be written. *)
LEMMA ResetMove ==
  ASSUME NEW c \in Clients, Net(c), Streams(c), Connection(c), InHand(c), Repeats(c), ByLine(c),
         program' = program, Same(c) \/ Move(c),
         peer[c] = "reset" => LeftEarly(c) \/ Spent(c)
  PROVE  peer'[c] = "reset" => LeftEarly(c)' \/ Spent(c)'
<1> SUFFICES ASSUME peer'[c] = "reset" PROVE LeftEarly(c)' \/ Spent(c)'
  OBVIOUS
<1>1. Plain' = Plain /\ (Plain => program # "echo_stdserv" /\ program \notin {"server", "server2"})
      /\ (~Plain => program \in {"server", "server2", "echo_stdserv"})
  BY DEF Plain
<1>n. /\ heard[c] \in Nat /\ said[c] \in Nat /\ got[c] \in Nat /\ Len(out[c]) \in Nat
      /\ Len(buf[c]) \in Nat /\ heard[c] =< said[c] /\ got[c] =< Len(out[c])
  BY DEF Net, Streams
<1>2. CASE peer[c] = "error"
  <2>1. got[c] < Len(out[c]) /\ cst[c] = "gone"
    BY <1>2 DEF Connection, Net
  <2> QED BY <2>1, LeftEarlyStays DEF LeftEarly
<1>3. CASE peer[c] = "reset" /\ LeftEarly(c)
  BY <1>3, LeftEarlyStays
<1>4. CASE peer[c] = "reset" /\ Spent(c)
  <2>1. ~Plain /\ buf[c] = << >> /\ heard[c] = said[c] /\ cst[c] \in {"gone"}
    BY <1>4 DEF Spent, Connection, Net
  <2>2. program = "echo_stdserv" => passes = 1
    BY <1>4 DEF ByLine, LineEnded, Again2
  <2>3. UNCHANGED <<buf[c], heard[c], said[c]>>
    BY <1>n, <1>4, <2>1, <2>2
       DEF Same, Move, ByClient, ByWrite, Joins, Types, Speaks, Hears, Quits, Leaves, Sends, Loses, Gets,
           Fails, Closes, Begins, Refills, Rewrites, PutsLine, PutsAgain, Stays, Writable,
           Failing, HasData
  <2> QED BY <1>1, <2>1, <2>3 DEF Spent
<1>5. CASE peer[c] = "fin"
  <2>1. Loses(c) /\ cst[c] = "gone" /\ got[c] = Len(out[c])
    BY <1>5 DEF Same, Move, ByClient, ByWrite, Joins, Types, Speaks, Hears, Quits, Leaves, Sends, Gets,
                Fails, Closes, Begins, Refills, Rewrites, PutsLine, PutsAgain, Failing, Connection, Net
  <2>2. buf[c] # << >> /\ buf'[c] = << >> /\ UNCHANGED <<heard[c], said[c], program>>
    BY <2>1 DEF Loses
  <2>3. CASE Plain
    <3>1. \A i \in Echoes(c) : out[c][i] \in 1 .. heard[c] - Len(buf[c])
      BY <2>3 DEF InHand
    <3>2. Len(buf[c]) # 0 /\ Len(buf[c]) =< heard[c]
      BY <2>2, <2>3 DEF InHand, LastRead, Net
    <3>3. \A x \in 1 .. heard[c] - Len(buf[c]) : x # said[c]
      BY ONLY <1>n, <3>2
    <3>4. said[c] > 0 /\ \A k \in 1 .. got[c] : k \in Echoes(c)
      BY <1>n, <2>1, <3>2 DEF Echoes
    <3>5. LeftEarly(c)
      BY <2>1, <3>1, <3>3, <3>4 DEF LeftEarly
    <3> QED BY <3>5, LeftEarlyStays
  <2>4. CASE program = "echo_stdserv"
    <3>1. heard[c] = said[c] /\ ~Plain
      BY <1>1, <1>5, <2>4 DEF ByLine, LineEnded
    <3> QED BY <1>1, <2>2, <3>1 DEF Spent
  <2>5. CASE program \in {"server", "server2"}
    <3>1. CASE heard[c] = said[c]
      BY <1>1, <2>2, <2>5, <3>1 DEF Spent
    <3>2. CASE heard[c] # said[c]
      <4>1. \A i \in 1 .. Len(out[c]) : out[c][i] \in 0 .. heard[c]
        BY <2>5 DEF Repeats, Earlier
      <4>2. said[c] > 0 /\ \A x \in 0 .. heard[c] : x # said[c]
        BY ONLY <1>n, <3>2
      <4>3. LeftEarly(c)
        BY <2>1, <4>1, <4>2 DEF LeftEarly
      <4> QED BY <4>3, LeftEarlyStays
    <3> QED BY <3>1, <3>2
  <2> QED BY <1>1, <2>3, <2>4, <2>5
<1>6. peer[c] \in {"error", "reset", "fin"}
  BY <1>n DEF Same, Move, ByClient, ByWrite, Joins, Types, Speaks, Hears, Quits, Leaves, Sends, Loses, Gets,
       Fails, Closes, Begins, Refills, Rewrites, PutsLine, PutsAgain, Failing,
       ByLine, LineEnded, Ended
<1> QED BY <1>2, <1>3, <1>4, <1>5, <1>6

(* The signal kills the process that writes after a RST.                     *)
Killed(c) == /\ peer[c] = "reset" /\ buf[c] # << >>
             /\ dead' \subseteq dead \cup (IF program \in OneProcess THEN Clients ELSE {c})

(* A process dies only of writing after a RST.                               *)
LEMMA WriteKills ==
  ASSUME NEW c \in Clients, NEW b, NEW v, Write(c, b, v),
         v \subseteq IF program \in OneProcess THEN Clients ELSE {c}
  PROVE  dead' = dead \/ Killed(c)
BY DEF Write, Killed

(* Of all the steps only a write kills.                                      *)
LEMMA NextKills ==
  ASSUME NetType, [Next]_vars
  PROVE  dead' = dead \/ \E c \in Clients : Killed(c)
<1>1. ASSUME NEW c \in Clients, Client(c) PROVE dead' = dead
  BY <1>1 DEF Client, echo_client, echo_stdclnt, client_week3, client_week2, client3, echo_mpclient,
              Connect, Type, Send, HearSome, HearLine, HearAlways, Heard, Quit, Leave
<1>2. ASSUME NEW b, Echo(b), program \in OneProcess PROVE dead' = dead \/ \E c \in Clients : Killed(c)
  BY <1>2, WriteKills DEF Echo
<1>3. CASE ByReadiness
  <2>1. program \in OneProcess
    BY <1>3 DEF ByReadiness, echo_selectserv, echo_epollserv, echo_EPLTserv, echo_EPETserv,
                OneProcess, ByLevel
  <2>2. ASSUME NEW f, Once(f) \/ End(f) \/ Again(f) PROVE dead' = dead
    BY <2>2 DEF Once, End, Again, Receive, Fail, Read, ReadFails, Close, netVars
  <2>3. ASSUME NEW s, NEW lists, Report(s, lists) \/ Accept PROVE dead' = dead
    BY <2>3 DEF Report, Accept, TakeBacklog
  <2> QED BY <1>2, <1>3, <2>1, <2>2, <2>3
          DEF ByReadiness, echo_selectserv, echo_epollserv, echo_EPLTserv, echo_EPETserv, LevelLoop
<1>4. CASE ByForking
  <2>1. ASSUME NEW c \in Clients, ChildEchoes(c) PROVE dead' = dead \/ Killed(c)
    BY <2>1, WriteKills DEF ChildEchoes
  <2>2. ASSUME NEW c, ChildReads(c) \/ ChildFails(c) \/ ChildLogs(c) \/ ChildEnds(c) PROVE dead' = dead
    BY <2>2 DEF ChildReads, ChildFails, ChildLogs, ChildEnds, Read, ReadFails, Close, netVars
  <2>3. AcceptAndFork \/ Reap \/ Logger => dead' = dead
    BY DEF AcceptAndFork, Reap, Logger, TakeBacklog, netVars
  <2> QED BY <1>4, <2>1, <2>2, <2>3 DEF ByForking, echo_mpserv, echo_storeserv, Child
<1>5. CASE InTurn
  <2>1. program \in OneProcess
    BY <1>5 DEF InTurn, server, server2, server3, echo_stdserv, OneProcess, OneClient
  <2>2. Puts => dead' = dead \/ \E c \in Clients : Killed(c)
    BY <2>1, WriteKills DEF Puts
  <2>3. ASSUME NEW c, Hangup(c) \/ EchoBuffer(c) \/ EchoAfterReset(c) \/ EchoLine(c) \/ EchoAgain(c)
                      \/ Read(c, SeqBuf) \/ ReadFails(c)
        PROVE  dead' = dead
    BY <2>3 DEF Hangup, EchoBuffer, EchoAfterReset, EchoLine, EchoAgain, Read, ReadFails, Close
  <2>4. ASSUME NEW b, AcceptNext(b) \/ AcceptFails \/ UNCHANGED netVars PROVE dead' = dead
    BY <2>4 DEF AcceptNext, AcceptFails, TakeBacklog, netVars
  <2> QED BY <1>5, <2>2, <2>3, <2>4 DEF InTurn, server, server2, server3, echo_stdserv, StrlenLoop
<1>6. CASE UNCHANGED vars
  BY <1>6 DEF vars, netVars
<1> QED BY <1>1, <1>3, <1>4, <1>5, <1>6 DEF Next, Over

(* If a process has died, its client had gone before it read what it was     *)
(* sent.                                                                     *)
LEMMA SurvivorsMove ==
  ASSUME TypeOK, Survivors, Moved, dead' = dead \/ \E c \in Clients : Killed(c),
         \A c \in Clients : Streams(c) /\ Connection(c) /\ InHand(c) /\ Repeats(c) /\ ByLine(c)
  PROVE  Survivors'
<1>1. program' = program /\ \A c \in Clients : Same(c) \/ Move(c)
  BY DEF Moved, Rest
<1>2. \A c \in Clients : LeftEarly(c) => LeftEarly(c)'
  BY <1>1, LeftEarlyStays
<1>3. \A c \in Clients : peer'[c] = "reset" => LeftEarly(c)' \/ Spent(c)'
  BY <1>1, NetOf, ResetMove DEF Survivors
<1>4. ASSUME NEW c \in dead'
      PROVE  IF program \in OneProcess THEN \E d \in Clients : LeftEarly(d)' ELSE LeftEarly(c)'
  <2>1. CASE c \in dead
    <3>1. dead \subseteq Clients
      BY DEF TypeOK, NetType
    <3> QED BY <1>2, <2>1, <3>1 DEF Survivors, Survives
  <2>2. CASE c \notin dead
    <3>1. PICK d \in Clients : Killed(d)
      BY <2>2
    <3>2. LeftEarly(d)
      BY <3>1 DEF Killed, Survivors, Spent
    <3>3. program \in OneProcess \/ c = d
      BY <2>2, <3>1 DEF Killed
    <3> QED BY <1>2, <3>2, <3>3
  <2> QED BY <2>1, <2>2
<1> QED BY <1>1, <1>3, <1>4 DEF Survivors, Survives

-----------------------------------------------------------------------------
(* The list of what is ready.  Whatever order the kernel gives it, it has    *)
(* every descriptor that is ready, once, and no other.                       *)
LEMMA Listed ==
  ASSUME NEW S, IsFiniteSet(S), NEW l \in SetToSeqs(S)
  PROVE  l \in Seq(S) /\ Distinct(l) /\ \A x : Has(l, x) <=> x \in S
<1> DEFINE n == Cardinality(S)
<1>1. n \in Nat
  BY FS_CardinalityType
<1> HIDE DEF n
<1>2. l \in [1 .. n -> S] /\ \A i, j \in 1 .. n : i # j => l[i] # l[j]
  BY DEF SetToSeqs, n
<1>4. IsFiniteSet(1 .. n) /\ Cardinality(1 .. n) = n
  BY <1>1, FS_Interval
<1>6. ASSUME NEW x \in S, \A k \in 1 .. n : l[k] # x PROVE FALSE
  <2>1. l \in [1 .. n -> S \ {x}]
    BY <1>2, <1>6
  <2>2. IsFiniteSet(S \ {x}) /\ Cardinality(S \ {x}) = n - 1
    BY FS_RemoveElement DEF n
  <2> QED BY <1>1, <1>2, <1>4, <2>1, <2>2, FS_PigeonHole
<1>7. l \in Seq(S) /\ Len(l) = n
  BY <1>1, <1>2
<1> QED BY <1>2, <1>6, <1>7 DEF Distinct, Has

(* The descriptors are finitely many.                                        *)
LEMMA FiniteFDs ==
  ASSUME NEW S \in SUBSET (FDs \cup {Serv})
  PROVE  IsFiniteSet(S)
<1>1. S \in SUBSET (0 .. MaxFd) /\ IsFiniteSet(0 .. MaxFd)
  BY FS_Interval, EchoReadyAssumption DEF FDs, Serv
<1> QED BY <1>1, FS_Subset

(* Of a list whose first has been dealt with, the others are still there.    *)
LEMMA OthersStay ==
  ASSUME NEW S, NEW q \in Seq(S), q # << >>, NEW x, Has(q, x), x # Head(q)
  PROVE  Has(Tail(q), x)
<1> DEFINE r == Tail(q)
<1>1. /\ Len(q) \in Nat /\ Len(r) = Len(q) - 1 /\ Head(q) = q[1]
      /\ \A k \in 1 .. Len(r) : r[k] = q[k + 1]
  OBVIOUS
<1> HIDE DEF r
<1>2. PICK k \in 1 .. Len(q) : q[k] = x
  BY DEF Has
<1>3. k - 1 \in 1 .. Len(r) /\ r[k - 1] = x
  BY <1>1, <1>2
<1> QED BY <1>3 DEF Has, r

(* What can be read stays readable until the server reads it, whatever the   *)
(* client does; and an edge is told of what a client makes readable.         *)
LEMMA ReadableStays ==
  ASSUME NetType, NEW c \in Clients, Streams(c), Connection(c),
         Client(c) \/ \E b, v : Write(c, b, v), NEW d \in Clients
  PROVE  /\ Readable(d) => Readable(d)'
         /\ news \subseteq news'
         /\ program = "echo_EPETserv" /\ Readable(d)' => Readable(d) \/ d \in news'
<1> USE DEF NetType, Readable, HasData, Ended, Failing
<1>1. CASE \E b, v : Write(c, b, v)
  <2>1. /\ UNCHANGED <<said, heard, news>>
        /\ peer' = peer \/ /\ peer[c] \in {"fin", "error"}
                           /\ \E p \in {"fin", "reset"} : peer' = [peer EXCEPT ![c] = p]
    BY <1>1 DEF Write
  <2> QED BY <2>1
<1>2. CASE Connect(c)
  <2>1. UNCHANGED <<said, heard, news>> /\ peer' = [peer EXCEPT ![c] = "open"] /\ peer[c] = "new"
    BY <1>2 DEF Connect, Connection
  <2>2. said'[d] = said[d] /\ heard'[d] = heard[d] /\ news' = news
    BY <2>1
  <2>3. CASE d = c
    <3>1. peer'[d] = "open" /\ peer[d] = "new"
      BY <2>1, <2>3
    <3>2. said[d] = 0 /\ heard[d] = 0
      BY <2>3, <3>1 DEF Connection, Streams
    <3> QED BY <2>2, <3>1, <3>2
  <2>4. CASE d # c
    <3>1. peer'[d] = peer[d]
      BY <2>1, <2>4
    <3> QED BY <2>2, <3>1
  <2> QED BY <2>3, <2>4
<1>3. CASE Send(c)
  <2>1. said' = [said EXCEPT ![c] = said[c] + Fits(c)]
    BY <1>3 DEF Send
  <2>2. Fits(c) \in Nat
    BY <1>3, FitsSize DEF Send
  <2>3. UNCHANGED <<heard, peer, program>> /\ news' = Told(c)
    BY <1>3 DEF Send
  <2>4. said[d] \in Nat /\ said'[d] \in Nat /\ heard[d] \in Nat
    <3>1. said \in [Clients -> Nat] /\ heard \in [Clients -> Nat]
      OBVIOUS
    <3>2. said' \in [Clients -> Nat]
      BY ONLY <2>1, <2>2, <3>1
    <3> QED BY ONLY <3>1, <3>2, d \in Clients
  <2>5. said[d] =< said'[d] /\ (d # c => said'[d] = said[d])
    BY <2>1, <2>2, <2>4
  <2>6. heard'[d] = heard[d] /\ peer'[d] = peer[d]
    BY <2>3
  <2>7. news \subseteq news' /\ (program = "echo_EPETserv" => c \in news')
    BY <2>3 DEF Told
  <2>8. (heard[d] < said[d] => heard[d] < said'[d])
    BY ONLY <2>4, <2>5
  <2>9. d # c => Readable(d)' = Readable(d)
    BY <2>5, <2>6
  <2>10. Readable(d) => Readable(d)'
    BY <2>6, <2>8
  <2> QED BY <2>7, <2>9, <2>10
<1>4. CASE Quit(c)
  <2>1. /\ UNCHANGED <<heard, said, program>> /\ news' = Told(c)
        /\ peer[c] = "open" /\ \E p \in PeerStates : peer' = [peer EXCEPT ![c] = p]
    BY <1>4 DEF Quit, PeerStates
  <2> QED BY <2>1 DEF Told
<1>5. CASE Type(c) \/ HearSome(c) \/ HearLine(c) \/ HearAlways(c) \/ Leave(c)
  BY <1>5 DEF Type, HearSome, HearLine, HearAlways, Heard, Leave
<1> QED BY <1>1, <1>2, <1>3, <1>4, <1>5
        DEF Client, echo_client, echo_stdclnt, client_week3, client_week2, client3, echo_mpclient

(* A read, or the end, of one connection leaves the others as they were.     *)
LEMMA OthersReadable ==
  ASSUME NetType, NEW c \in Clients,
         ReadFails(c) \/ Close(c) \/ \E size : Read(c, size)
  PROVE  /\ UNCHANGED <<news, backlog>>
         /\ \A d \in Clients \ {c} : Readable(d)' = Readable(d)
<1>1. /\ UNCHANGED <<said, news, backlog>>
      /\ \A d \in Clients \ {c} : UNCHANGED <<heard[d], peer[d]>>
  BY DEF NetType, ReadFails, Close, Read
<1> QED BY <1>1 DEF Readable, HasData, Ended, Failing

(* Steps that leave the list alone.                                          *)
LEMMA ListStays ==
  ASSUME TypeOK, Reported, NEW c \in Clients, Streams(c), Connection(c),
         Client(c) \/ \E b, v : Write(c, b, v), UNCHANGED readyVars, program' = program
  PROVE  Reported'
<1>1. NetType /\ ready' = ready /\ Open' = Open /\ conn' = conn
  BY DEF TypeOK, readyVars, Open
<1>2. ASSUME NEW d \in Clients
      PROVE  /\ Readable(d) => Readable(d)'
             /\ news \subseteq news'
             /\ program = "echo_EPETserv" /\ Readable(d)' => Readable(d) \/ d \in news'
  BY <1>1, ReadableStays
<1>3. backlog' = backlog \/ Connect(c)
  <2>1. Client(c) => Connect(c) \/ backlog' = backlog
    BY <1>1, ClientStays DEF NetStays
  <2> QED BY <2>1 DEF Write
<1>4. Connect(c) => backlog' = Append(backlog, c)
  BY DEF Connect
<1>5. backlog # << >> => backlog' # << >>
  BY <1>1, <1>3, <1>4 DEF NetType
<1>6. ASSUME NEW d \in Clients, Has(backlog, d)', Readable(d)', program = "echo_EPETserv"
      PROVE  Has(backlog, d) \/ d \in news'
  <2>1. CASE backlog' = backlog
    BY <1>6, <2>1 DEF Has
  <2>2. CASE Connect(c)
    <3>1. CASE d = c
      <4>1. peer[c] = "new" /\ said[c] = 0 /\ heard[c] \in Nat /\ heard[c] =< said[c]
        BY <1>1, <2>2 DEF Connect, Connection, Streams, NetType
      <4>2. ~Readable(c)
        BY <4>1 DEF Readable, HasData, Ended, Failing
      <4> QED BY <1>2, <1>6, <3>1, <4>2
    <3>2. CASE d # c
      <4>1. PICK k \in 1 .. Len(backlog') : backlog'[k] = d
        BY <1>6 DEF Has
      <4>2. backlog \in Seq(Clients)
        BY <1>1 DEF NetType
      <4>3. k \in 1 .. Len(backlog) /\ backlog[k] = d
        BY <1>4, <2>2, <3>2, <4>1, <4>2
      <4> QED BY <4>3 DEF Has
    <3> QED BY <3>1, <3>2
  <2> QED BY <1>3, <2>1, <2>2
<1>7. StillReady => StillReady'
  <2>1. \A f \in Open : Readable(conn[f]) => Readable(conn[f])'
    <3> SUFFICES ASSUME NEW f \in Open, Readable(conn[f]) PROVE Readable(conn[f])'
      OBVIOUS
    <3>1. PICK d \in Clients : d = conn[f]
      BY OpenClient
    <3> QED BY <1>1, <1>2, <3>1
  <2> QED BY <1>1, <1>5, <2>1 DEF StillReady, Has, Distinct
<1>8. program = "echo_EPETserv" /\ NoEdgeLost => NoEdgeLost'
  <2> SUFFICES ASSUME program = "echo_EPETserv", NoEdgeLost PROVE NoEdgeLost'
    OBVIOUS
  <2>1. ASSUME NEW f \in Open', Readable(conn[f])' PROVE Has(ready, f)' \/ conn'[f] \in news'
    <3>1. PICK d \in Clients : d = conn[f] /\ f \in Open
      BY <1>1, OpenClient
    <3>2. Readable(d)'
      BY <1>1, <2>1, <3>1
    <3> QED BY <1>1, <1>2, <3>1, <3>2 DEF NoEdgeLost, Has
  <2>2. ASSUME NEW d \in Clients, Has(backlog, d)', Readable(d)' PROVE d \in news'
    BY <1>2, <1>6, <2>2 DEF NoEdgeLost
  <2> QED BY <2>1, <2>2 DEF NoEdgeLost
<1> QED BY <1>1, <1>7, <1>8 DEF Reported

(* The kernel's list is complete and right when it is made.                  *)
LEMMA ReportMakes ==
  ASSUME TypeOK, OnePlace, NEW s \in SUBSET (FDs \cup {Serv}), NEW lists \in SUBSET AnyOrder(s),
         Report(s, lists)
  PROVE  /\ s = Level => StillReady'
         /\ s = Edge /\ NoEdgeLost => NoEdgeLost'
<1>1. /\ Open' = Open /\ conn' = conn /\ backlog' = backlog
      /\ \A d \in Clients : Readable(d)' = Readable(d)
      /\ ready' \in AnyOrder(s) /\ ready = << >>
      /\ news' = news \ {conn[f] : f \in s \ {Serv}}
  BY DEF Report, Open, Readable, HasData, Ended, Failing
<1>2. /\ Distinct(ready') /\ \A x : Has(ready', x) <=> x \in s
  <2>1. IsFiniteSet(s) /\ ready' \in SetToSeqs(s)
    BY <1>1, FiniteFDs DEF AnyOrder
  <2> DEFINE l == ready'
  <2> HIDE DEF l
  <2>2. l \in SetToSeqs(s)
    BY <2>1 DEF l
  <2>3. Distinct(l) /\ \A x : Has(l, x) <=> x \in s
    BY <2>1, <2>2, Listed
  <2> QED BY <2>3 DEF l
<1>3. \A f \in FDs : f # Serv
  BY EchoReadyAssumption DEF FDs, Serv
<1>4. ASSUME NEW f \in Open PROVE Readable(conn[f])' <=> Readable(conn[f])
  <2>1. PICK d \in Clients : d = conn[f]
    BY OpenClient
  <2> QED BY <1>1, <2>1
<1>5. ASSUME s = Level PROVE StillReady'
  <2>1. Has(ready', Serv) => backlog # << >>
    BY <1>2, <1>3, <1>5 DEF Level, Requests, Open
  <2>2. \A f \in FDs : Has(ready', f) => f \in Open /\ Readable(conn[f])
    BY <1>2, <1>3, <1>5 DEF Level, Requests
  <2> QED BY <1>1, <1>2, <1>4, <2>1, <2>2 DEF StillReady, Distinct, Has
<1>6. ASSUME s = Edge, NoEdgeLost PROVE NoEdgeLost'
  <2>1. ASSUME NEW f \in Open, Readable(conn[f]) PROVE Has(ready', f)
    <3>1. conn[f] \in news
      BY <1>1, <1>6, <2>1 DEF NoEdgeLost, Has
    <3> QED BY <1>2, <1>6, <3>1 DEF Edge
  <2>2. ASSUME NEW c \in Clients, Has(backlog, c), Readable(c) PROVE c \in news'
    <3>1. c \in news /\ \A f \in FDs : conn[f] # c
      BY <1>6, <2>2 DEF NoEdgeLost, OnePlace, Untouched
    <3> QED BY <1>1, <3>1
  <2> QED BY <1>1, <1>4, <2>1, <2>2 DEF NoEdgeLost, Has
<1> QED BY <1>5, <1>6

(* accept: the connection that is taken was waiting, and what it has sent is *)
(* news.                                                                     *)
LEMMA AcceptKeepsList ==
  ASSUME TypeOK, OnePlace, Accept
  PROVE  (StillReady => StillReady') /\ (NoEdgeLost => NoEdgeLost')
<1>1. /\ NetType /\ conn \in [FDs -> Clients \cup {NoClient}] /\ ready \in Seq(FDs \cup {Serv})
      /\ ready # << >> /\ Head(ready) = Serv /\ ready' = Tail(ready)
  BY DEF TypeOK, RestType, Accept, Handling
<1>2. backlog # << >> /\ backlog' = Tail(backlog) /\ UNCHANGED <<said, heard, peer, news>>
  BY DEF Accept, TakeBacklog
<1>3. PICK x \in Clients : x = Head(backlog) /\ Has(backlog, x)
  BY <1>1, <1>2, BacklogHead
<1>4. PICK e \in FDs \ Open : conn' = [conn EXCEPT ![e] = x]
  BY <1>3 DEF Accept
<1>5. \A f \in FDs : f # Serv
  BY EchoReadyAssumption DEF FDs, Serv
<1>6. \A d \in Clients : Readable(d)' = Readable(d)
  BY <1>2 DEF Readable, HasData, Ended, Failing
<1>7. /\ \A f \in Open : f \in Open' /\ conn'[f] = conn[f]
      /\ \A f \in Open' : f \in Open \/ (f = e /\ conn'[f] = x)
  BY <1>1, <1>4 DEF Open
<1>8. \A f \in Open : Readable(conn[f])' <=> Readable(conn[f])
  <2> SUFFICES ASSUME NEW f \in Open PROVE Readable(conn[f])' <=> Readable(conn[f])
    OBVIOUS
  <2>1. PICK d \in Clients : d = conn[f]
    BY OpenClient
  <2> QED BY <1>6, <1>7, <2>1
<1>9. ASSUME StillReady PROVE StillReady'
  <2>1. Distinct(Tail(ready)) /\ \A f : Has(Tail(ready), f) => Has(ready, f) /\ f # Serv
    BY <1>1, <1>9, TailHas DEF StillReady
  <2>2. Distinct(ready)' /\ \A f : Has(ready, f)' => Has(ready, f) /\ f # Serv
    BY <1>1, <2>1 DEF Distinct, Has
  <2> QED BY <1>7, <1>8, <1>9, <2>2 DEF StillReady
<1>10. ASSUME NoEdgeLost PROVE NoEdgeLost'
  <2>1. ASSUME NEW f \in Open', Readable(conn[f])' PROVE Has(ready, f)' \/ conn'[f] \in news'
    <3>1. CASE f \in Open
      <4>1. Has(ready, f) \/ conn[f] \in news
        BY <1>8, <1>10, <2>1, <3>1 DEF NoEdgeLost
      <4>2. Has(ready, f) => Has(Tail(ready), f)
        BY <1>1, <1>5, <3>1, OthersStay DEF Open
      <4> QED BY <1>1, <1>2, <1>7, <3>1, <4>1, <4>2 DEF Has
    <3>2. CASE f \notin Open
      <4>1. conn'[f] = x
        BY <1>7, <3>2
      <4>2. Readable(x)'
        BY <2>1, <4>1 DEF Readable, HasData, Ended, Failing
      <4> QED BY <1>2, <1>3, <1>6, <1>10, <4>1, <4>2 DEF NoEdgeLost
    <3> QED BY <3>1, <3>2
  <2>2. ASSUME NEW d \in Clients, Has(backlog, d)', Readable(d)' PROVE d \in news'
    <3>1. Has(Tail(backlog), d)
      BY <1>2, <2>2 DEF Has
    <3>2. Has(backlog, d)
      BY <1>1, <1>2, <3>1, TailHas DEF OnePlace, NetType
    <3> QED BY <1>2, <1>6, <1>10, <2>2, <3>2 DEF NoEdgeLost
  <2> QED BY <2>1, <2>2 DEF NoEdgeLost
<1> QED BY <1>9, <1>10

(* One descriptor of the list is dealt with: read, found empty, or closed.   *)
LEMMA HandlingKeepsList ==
  ASSUME TypeOK, OnePlace, NEW f \in Open, ready # << >>, Head(ready) = f,
         NEW c \in Clients, c = conn[f], UNCHANGED <<news, backlog>>,
         \A d \in Clients \ {c} : Readable(d)' = Readable(d),
         ready' \in {ready, Tail(ready)},
         conn' = conn \/ conn' = [conn EXCEPT ![f] = NoClient]
  PROVE  /\ StillReady /\ ready' = Tail(ready) => StillReady'
         /\ NoEdgeLost /\ (ready' = ready \/ f \notin Open' \/ ~Readable(c)') => NoEdgeLost'
<1>1. /\ conn \in [FDs -> Clients \cup {NoClient}] /\ ready \in Seq(FDs \cup {Serv})
      /\ Has(ready, f) /\ f \in FDs /\ \A g \in FDs : g # Serv
  <2>1. conn \in [FDs -> Clients \cup {NoClient}] /\ ready \in Seq(FDs \cup {Serv})
    BY DEF TypeOK, RestType
  <2>2. ready[1] = f /\ 1 \in 1 .. Len(ready)
    BY <2>1
  <2> QED BY <2>1, <2>2, EchoReadyAssumption DEF Has, Open, FDs, Serv
<1>2. /\ \A g \in Open : g # f => g \in Open' /\ conn'[g] = conn[g]
      /\ \A g \in Open' : g \in Open /\ conn'[g] = conn[g]
  BY <1>1 DEF Open
<1>3. ASSUME NEW g \in Open, g # f PROVE Readable(conn[g])' <=> Readable(conn[g])
  <2>1. PICK d \in Clients : d = conn[g]
    BY OpenClient
  <2>2. d # c
    BY <1>3, <2>1 DEF OnePlace
  <2>3. Readable(conn[g])' <=> Readable(d)'
    BY <1>2, <1>3, <2>1 DEF Readable, HasData, Ended, Failing
  <2>4. Readable(conn[g]) <=> Readable(d)
    BY <2>1
  <2> QED BY <2>2, <2>3, <2>4
<1>4. ASSUME NEW d \in Clients, Has(backlog, d) PROVE Readable(d)' = Readable(d)
  BY <1>1, <1>4 DEF OnePlace, Untouched
<1>5. ASSUME StillReady, ready' = Tail(ready) PROVE StillReady'
  <2>1. Distinct(Tail(ready)) /\ \A g : Has(Tail(ready), g) => Has(ready, g) /\ g # f
    BY <1>1, <1>5, TailHas DEF StillReady
  <2>2. Distinct(ready)' /\ \A g : Has(ready, g)' => Has(ready, g) /\ g # f
    BY <1>5, <2>1 DEF Distinct, Has
  <2>3. Has(ready, Serv)' => backlog' # << >>
    BY <1>5, <2>2 DEF StillReady
  <2>4. ASSUME NEW g \in FDs, Has(ready, g)' PROVE g \in Open' /\ Readable(conn[g])'
    BY <1>2, <1>3, <1>5, <2>2, <2>4 DEF StillReady
  <2> QED BY <2>2, <2>3, <2>4 DEF StillReady
<1>6. ASSUME NoEdgeLost, ready' = ready \/ f \notin Open' \/ ~Readable(c)' PROVE NoEdgeLost'
  <2>1. ASSUME NEW g \in Open', Readable(conn[g])' PROVE Has(ready, g)' \/ conn'[g] \in news'
    <3>1. CASE g = f
      <4>1. Readable(c)'
        BY <1>2, <2>1, <3>1 DEF Readable, HasData, Ended, Failing
      <4> QED BY <1>1, <1>6, <2>1, <3>1, <4>1 DEF Has
    <3>2. CASE g # f
      <4>1. Has(ready, g) \/ conn[g] \in news
        BY <1>2, <1>3, <1>6, <2>1, <3>2 DEF NoEdgeLost
      <4>2. Has(ready, g) => Has(Tail(ready), g)
        BY <1>1, <3>2, OthersStay
      <4> QED BY <1>2, <2>1, <4>1, <4>2 DEF Has
    <3> QED BY <3>1, <3>2
  <2>2. ASSUME NEW d \in Clients, Has(backlog, d)', Readable(d)' PROVE d \in news'
    <3>1. Has(backlog, d)
      BY <2>2 DEF Has
    <3> QED BY <1>4, <1>6, <2>2, <3>1 DEF NoEdgeLost
  <2> QED BY <2>1, <2>2 DEF NoEdgeLost
<1> QED BY <1>5, <1>6

(* A turn of a server that asks what is ready.                               *)
LEMMA ReadinessReported ==
  ASSUME TypeOK, OnePlace, Reported, \A c \in Clients : Streams(c) /\ Connection(c),
         ByReadiness, UNCHANGED <<forkVars, seqVars>>, program' = program
  PROVE  Reported'
<1>1. NetType
  BY DEF TypeOK
<1>2. ASSUME NEW b, Echo(b) PROVE Reported'
  BY <1>2, ListStays DEF Echo
<1>3. Level \in SUBSET (FDs \cup {Serv}) /\ Edge \in SUBSET (FDs \cup {Serv})
  BY DEF Level, Edge, Requests, Open
<1>4. CASE echo_EPETserv
  <2>1. Reported' <=> NoEdgeLost'
    BY <1>4 DEF echo_EPETserv, Reported, ByLevel
  <2>2. NoEdgeLost
    BY <1>4 DEF echo_EPETserv, Reported
  <2>3. ASSUME NEW f \in Open, Again(f) \/ End(f) PROVE NoEdgeLost'
    <3>1. PICK c \in Clients : c = conn[f]
      BY OpenClient
    <3>2. ready # << >> /\ Head(ready) = f
      BY <2>3 DEF Again, End, Receive, Fail, Handling
    <3>3. CASE (Receive(f) \/ Fail(f)) /\ UNCHANGED ready
      <4>1. ReadFails(c) \/ \E size : Read(c, size)
        BY <3>1, <3>3 DEF Receive, Fail
      <4>2. conn' = conn
        BY <3>3 DEF Receive, Fail
      <4>3. UNCHANGED <<news, backlog>> /\ \A d \in Clients \ {c} : Readable(d)' = Readable(d)
        BY <1>1, <4>1, OthersReadable
      <4> QED BY <2>2, <3>1, <3>2, <3>3, <4>2, <4>3, HandlingKeepsList
    <3>4. CASE ~Readable(conn[f]) /\ ready' = Tail(ready) /\ UNCHANGED <<netVars, conn>>
      <4>1. \A d \in Clients : Readable(d)' = Readable(d)
        BY <3>4 DEF netVars, Readable, HasData, Ended, Failing
      <4>2. ~Readable(c)' /\ UNCHANGED <<news, backlog>>
        BY <3>1, <3>4, <4>1 DEF netVars
      <4> QED BY <2>2, <3>1, <3>2, <3>4, <4>1, <4>2, HandlingKeepsList
    <3>5. CASE End(f)
      <4>1. UNCHANGED <<news, backlog>> /\ \A d \in Clients \ {c} : Readable(d)' = Readable(d)
        BY <1>1, <3>1, <3>5, OthersReadable DEF End
      <4>2. conn' = [conn EXCEPT ![f] = NoClient] /\ ready' = Tail(ready)
        BY <3>5 DEF End
      <4>3. f \notin Open'
        BY <4>2 DEF Open, TypeOK, RestType
      <4> QED BY <2>2, <3>1, <3>2, <4>1, <4>2, <4>3, HandlingKeepsList
    <3> QED BY <2>3, <3>3, <3>4, <3>5 DEF Again
  <2>4. Report(Edge, AnyOrder(Edge)) => NoEdgeLost'
    BY <1>3, <2>2, ReportMakes
  <2> QED BY <1>2, <1>4, <2>1, <2>2, <2>3, <2>4, AcceptKeepsList DEF echo_EPETserv
<1>5. ASSUME NEW lists \in SUBSET AnyOrder(Level), program \in ByLevel, LevelLoop(lists)
      PROVE  Reported'
  <2>1. Reported' <=> StillReady'
    BY <1>5 DEF Reported, ByLevel
  <2>2. StillReady
    BY <1>5 DEF Reported
  <2>3. ASSUME NEW f \in Open, Once(f) \/ End(f) PROVE StillReady'
    <3>1. PICK c \in Clients : c = conn[f]
      BY OpenClient
    <3>2. ready # << >> /\ Head(ready) = f /\ ready' = Tail(ready)
      BY <2>3 DEF Once, End, Receive, Fail, Handling
    <3>3. ReadFails(c) \/ Close(c) \/ \E size : Read(c, size)
      BY <2>3, <3>1 DEF Once, Receive, Fail, End
    <3>4. UNCHANGED <<news, backlog>> /\ \A d \in Clients \ {c} : Readable(d)' = Readable(d)
      BY <1>1, <3>3, OthersReadable
    <3>5. conn' = conn \/ conn' = [conn EXCEPT ![f] = NoClient]
      BY <2>3 DEF Once, Receive, Fail, End
    <3> QED BY <2>2, <3>1, <3>2, <3>4, <3>5, HandlingKeepsList
  <2>4. Report(Level, lists) => StillReady'
    BY <1>3, <1>5, ReportMakes
  <2> QED BY <1>2, <1>5, <2>1, <2>2, <2>3, <2>4, AcceptKeepsList DEF LevelLoop
<1>6. Ascending(Level) \subseteq AnyOrder(Level)
  BY DEF Ascending
<1> QED BY <1>4, <1>5, <1>6
        DEF ByReadiness, echo_selectserv, echo_epollserv, echo_EPLTserv, ByLevel

(* What the kernel has reported is still true when the server acts on it,    *)
(* and what it is not going to report again is still in the list.            *)
LEMMA NextReported ==
  ASSUME TypeOK, OnePlace, Reported, \A c \in Clients : Streams(c) /\ Connection(c),
         program' = program, [Next]_vars
  PROVE  Reported'
<1>1. ASSUME program \notin ByLevel \cup {"echo_EPETserv"}, ready' = ready PROVE Reported'
  BY <1>1 DEF Reported, ByLevel
<1>2. CASE ByForking /\ UNCHANGED <<readyVars, seqVars>>
  BY <1>1, <1>2 DEF ByForking, echo_mpserv, echo_storeserv, readyVars, ByLevel
<1>3. CASE InTurn /\ UNCHANGED <<readyVars, forkVars>>
  BY <1>1, <1>3 DEF InTurn, server, server2, server3, echo_stdserv, readyVars, ByLevel
<1>4. CASE UNCHANGED vars
  <2>1. UNCHANGED <<ready, conn, backlog, news, said, heard, peer>>
    BY <1>4 DEF vars, netVars, readyVars
  <2> QED BY <2>1 DEF Reported, StillReady, NoEdgeLost, Has, Distinct, Open, Readable, HasData,
                       Ended, Failing
<1>5. ASSUME NEW c \in Clients, Client(c), UNCHANGED <<readyVars, forkVars, seqVars>>
      PROVE  Reported'
  BY <1>5, ListStays
<1> QED BY <1>2, <1>3, <1>4, <1>5, ReadinessReported DEF Next, Over

-----------------------------------------------------------------------------
(* The log.  A child adds the bytes it has read last behind its earlier ones.*)
Sorted(q)     == \A j, k \in 1 .. Len(q) : j < k /\ q[j][1] = q[k][1] => q[j][2] < q[k][2]
BytesOf(q, c) == {q[k][2] : k \in {j \in 1 .. Len(q) : q[j][1] = c}}

Newest(p, c, h) == Len(p) =< h /\ \A k \in 1 .. Len(p) : p[k] = <<c, h - Len(p) + k>>

(* A child's message behind the others': its bytes are the next of its       *)
(* client, and the order of nobody's bytes changes.                          *)
LEMMA LogGrows ==
  ASSUME NEW q \in Seq(Clients \X Nat), NEW p \in Seq(Clients \X Nat), NEW c \in Clients,
         NEW h \in Nat, Newest(p, c, h), Sorted(q), BytesOf(q, c) = 1 .. h - Len(p)
  PROVE  /\ Sorted(q \o p) /\ BytesOf(q \o p, c) = 1 .. h
         /\ \A d \in Clients \ {c} : BytesOf(q \o p, d) = BytesOf(q, d)
<1> DEFINE n == Len(q)
           m == Len(p)
           r == q \o p
<1>1. n \in Nat /\ m \in Nat
  OBVIOUS
<1>2. \A k \in 1 .. n : q[k] \in Clients \X Nat
  OBVIOUS
<1>3. m =< h /\ \A k \in 1 .. m : p[k][1] = c /\ p[k][2] = h - m + k
  BY DEF Newest
<1>4. /\ Len(r) = n + m
      /\ \A i \in 1 .. n : i \in 1 .. Len(r) /\ r[i] = q[i]
      /\ \A k \in 1 .. m : n + k \in 1 .. Len(r) /\ r[n + k] = p[k]
      /\ \A i \in 1 .. Len(r) : i \in 1 .. n \/ (i > n /\ \E k \in 1 .. m : i = n + k)
  <2> DEFINE T == Clients \X Nat
  <2>1. q \in Seq(T) /\ p \in Seq(T)
    BY <1>1
  <2> HIDE DEF T
  <2>2. /\ Len(r) = n + Len(p)
        /\ \A i \in 1 .. n : i \in 1 .. Len(r) /\ r[i] = q[i]
        /\ \A k \in 1 .. Len(p) : n + k \in 1 .. Len(r) /\ r[n + k] = p[k]
        /\ \A i \in 1 .. Len(r) : i \in 1 .. n \/ (i > n /\ \E k \in 1 .. Len(p) : i = n + k)
    BY ONLY <2>1, Concatenated
  <2> QED BY <1>1, <2>2
<1> HIDE DEF r
<1>5. /\ \A k \in 1 .. n : r[k] = q[k] /\ k \in 1 .. Len(r)
      /\ \A k \in 1 .. m : r[n + k] = p[k] /\ n + k \in 1 .. Len(r)
      /\ \A k \in 1 .. Len(r) : k \in 1 .. n \/ \E i \in 1 .. m : k = n + i
  BY <1>4, Zenon
<1>6. \A k \in 1 .. n : q[k][1] = c => q[k][2] \in 1 .. h - m
  BY DEF BytesOf
<1>7. Sorted(r)
  <2> SUFFICES ASSUME NEW j \in 1 .. Len(r), NEW k \in 1 .. Len(r), j < k, r[j][1] = r[k][1]
               PROVE  r[j][2] < r[k][2]
    BY DEF Sorted
  <2>1. CASE j \in 1 .. n /\ k \in 1 .. n
    BY <1>5, <2>1 DEF Sorted
  <2>2. CASE j \in 1 .. n /\ \E i \in 1 .. m : k = n + i
    <3>1. PICK i \in 1 .. m : k = n + i
      BY <2>2
    <3>2. r[k][1] = c /\ r[k][2] = h - m + i
      BY <1>3, <1>5, <3>1
    <3>3. r[j][2] \in 1 .. h - m
      BY <1>5, <1>6, <2>2, <3>2
    <3>4. \A x \in 1 .. h - m : x < h - m + i
      BY ONLY <1>1, h \in Nat, i \in 1 .. m
    <3> QED BY <3>2, <3>3, <3>4
  <2>3. CASE (\E i \in 1 .. m : j = n + i) /\ \E i \in 1 .. m : k = n + i
    <3>1. PICK i \in 1 .. m, l \in 1 .. m : j = n + i /\ k = n + l
      BY <2>3
    <3>2. r[j][2] = h - m + i /\ r[k][2] = h - m + l
      BY <1>3, <1>5, <3>1
    <3>3. i < l
      BY <1>1, <2>3, <3>1
    <3>4. h - m + i < h - m + l
      BY ONLY <1>1, <3>3, h \in Nat, i \in 1 .. m, l \in 1 .. m
    <3> QED BY <3>2, <3>4
  <2>4. (\E i \in 1 .. m : j = n + i) => ~(k \in 1 .. n)
    BY <1>1
  <2> QED BY <1>5, <2>1, <2>2, <2>3, <2>4
<1>8. BytesOf(r, c) = 1 .. h
  <2>1. ASSUME NEW v \in BytesOf(r, c) PROVE v \in 1 .. h
    <3>1. PICK k \in 1 .. Len(r) : r[k][1] = c /\ r[k][2] = v
      BY DEF BytesOf
    <3>2. CASE k \in 1 .. n
      <4>1. v \in 1 .. h - m
        BY <1>5, <1>6, <3>1, <3>2
      <4>2. h - m \in Int /\ h - m =< h
        BY ONLY <1>1, h \in Nat
      <4> QED BY ONLY <4>1, <4>2, h \in Nat
    <3>3. CASE \E i \in 1 .. m : k = n + i
      <4>1. PICK i \in 1 .. m : k = n + i
        BY <3>3
      <4>2. v = h - m + i
        BY <1>3, <1>5, <3>1, <4>1
      <4>3. h - m + i \in 1 .. h
        BY ONLY <1>1, <1>3, h \in Nat, i \in 1 .. m
      <4> QED BY <4>2, <4>3
    <3> QED BY <1>5, <3>2, <3>3
  <2>2. ASSUME NEW v \in 1 .. h PROVE v \in BytesOf(r, c)
    <3>1. CASE v \in 1 .. h - m
      <4>1. PICK k \in 1 .. n : q[k][1] = c /\ q[k][2] = v
        <5>1. v \in BytesOf(q, c)
          BY <3>1
        <5> QED BY <1>1, <5>1 DEF BytesOf
      <4> QED BY <1>5, <4>1 DEF BytesOf
    <3>2. CASE v \notin 1 .. h - m
      <4>1. v - (h - m) \in 1 .. m /\ h - m + (v - (h - m)) = v
        BY ONLY <1>1, <3>2, h \in Nat, v \in 1 .. h
      <4>2. r[n + (v - (h - m))][1] = c /\ r[n + (v - (h - m))][2] = v
        BY <1>3, <1>5, <4>1, ZenonT(60)
      <4>3. n + (v - (h - m)) \in 1 .. Len(r)
        BY <1>5, <4>1
      <4> HIDE DEF n, m
      <4> QED BY <4>2, <4>3 DEF BytesOf
    <3> QED BY <3>1, <3>2
  <2> QED BY <2>1, <2>2
<1>9. ASSUME NEW d \in Clients \ {c} PROVE BytesOf(r, d) = BytesOf(q, d)
  <2>1. \A k \in 1 .. Len(r) : r[k][1] = d => k \in 1 .. n /\ q[k] = r[k]
    <3> SUFFICES ASSUME NEW k \in 1 .. Len(r), r[k][1] = d PROVE k \in 1 .. n /\ q[k] = r[k]
      OBVIOUS
    <3>1. ASSUME NEW i \in 1 .. m PROVE r[n + i][1] # d
      BY <1>3, <1>5
    <3>2. ~ \E i \in 1 .. m : k = n + i
      BY <3>1
    <3> QED BY <1>5, <3>2
  <2>2. ASSUME NEW v \in BytesOf(r, d) PROVE v \in BytesOf(q, d)
    BY <2>1 DEF BytesOf
  <2>3. ASSUME NEW v \in BytesOf(q, d) PROVE v \in BytesOf(r, d)
    BY <1>5 DEF BytesOf
  <2> QED BY <2>2, <2>3
<1> QED BY <1>7, <1>8, <1>9 DEF r

(* What LogComplete says, by the content of file and pipe.                   *)
LogOf(c) == /\ LastRead(c, entry[c])
            /\ BytesOf(Content, c) = 1 .. heard[c] - Len(entry[c])
            /\ peer[c] = "closed" => heard[c] = said[c] /\ entry[c] = << >>

(* The log, client by client.                                                *)
LEMMA LoggingIs ==
  Logging <=> (Logs => Sorted(Content) /\ \A c \in Clients : LogOf(c))
BY DEF Logging, LogComplete, LogOf, Sorted, BytesOf, Places

(* Steps that neither add to the log nor close a connection.                 *)
LEMMA LogStays ==
  ASSUME Logging, program' = program, Content' = Content,
         \A c \in Clients : /\ UNCHANGED <<heard[c], entry[c]>>
                            /\ peer'[c] = "closed" => peer[c] = "closed" /\ said'[c] = said[c]
  PROVE  Logging'
<1>1. Logs' = Logs /\ Sorted(Content)' = Sorted(Content)
  BY DEF Logs, Sorted
<1>2. ASSUME NEW c \in Clients, LogOf(c) PROVE LogOf(c)'
  <2>1. BytesOf(Content, c)' = BytesOf(Content, c)
    BY DEF BytesOf
  <2>2. LastRead(c, entry[c])' = LastRead(c, entry[c])
    BY DEF LastRead
  <2> QED BY <1>2, <2>1, <2>2 DEF LogOf
<1>3. Logging' <=> (Logs => Sorted(Content)' /\ \A c \in Clients : LogOf(c)')
  BY <1>1 DEF Logging, LogComplete, LogOf, Sorted, BytesOf, Places
<1> QED BY <1>1, <1>2, <1>3, LoggingIs

(* Steps of one child.                                                       *)
LEMMA LogMoves ==
  ASSUME Logging, Logs, program' = program, NEW c \in Clients,
         \A d \in Clients \ {c} : /\ UNCHANGED <<heard[d], entry[d], peer[d], said[d]>>
                                  /\ BytesOf(Content, d)' = BytesOf(Content, d),
         Sorted(Content)', LogOf(c)'
  PROVE  Logging'
<1>1. \A d \in Clients \ {c} : LogOf(d)'
  <2> SUFFICES ASSUME NEW d \in Clients \ {c} PROVE LogOf(d)'
    OBVIOUS
  <2>1. LogOf(d)
    BY LoggingIs
  <2>2. LastRead(d, entry[d])' = LastRead(d, entry[d])
    BY DEF LastRead
  <2> QED BY <2>1, <2>2 DEF LogOf
<1> QED BY <1>1 DEF Logging, LogComplete, LogOf, Sorted, BytesOf, Places

(* A child writes what it has read into the pipe before it reads on, and     *)
(* closes its connection with nothing left to write.                         *)
LEMMA ChildLogging ==
  ASSUME TypeOK, \A d \in Clients : Streams(d), Logging, Logs, program' = program,
         NEW c \in Clients, Child(c)
  PROVE  Logging'
<1>1. /\ NetType /\ entry \in [Clients -> Seq(Nat)]
      /\ logged \in Seq(Clients \X Nat) /\ pipe \in Seq(Clients \X Nat)
      /\ heard[c] \in Nat /\ said[c] \in Nat /\ heard[c] =< said[c]
  BY DEF TypeOK, NetType, RestType, Streams
<1>2. Sorted(Content) /\ LogOf(c)
  BY LoggingIs
<1>3. ASSUME Content' = Content
      PROVE  Sorted(Content)' /\ \A d \in Clients : BytesOf(Content, d)' = BytesOf(Content, d)
  BY <1>2, <1>3 DEF Sorted, BytesOf
<1>4. CASE ChildReads(c)
  <2>1. PICK n \in Pieces(c, ForkBuf) :
             heard' = [heard EXCEPT ![c] = @ + n] /\ buf' = [buf EXCEPT ![c] = Bytes(c, n)]
    BY <1>4 DEF ChildReads, Read
  <2>2. n \in Nat /\ 1 =< n /\ HasData(c)
    BY <1>1, <1>4, PieceSize, EchoForkAssumption DEF ChildReads, Read
  <2>3. /\ entry[c] = << >> /\ entry' = [entry EXCEPT ![c] = Bytes(c, n)]
        /\ UNCHANGED <<said, peer, pipe, logged>>
    BY <1>1, <1>4, <2>1 DEF ChildReads, Read, Reads, logVars, NetType
  <2>4. heard'[c] = heard[c] + n /\ entry'[c] = Bytes(c, n)
    BY <1>1, <2>1, <2>3 DEF NetType
  <2>5. /\ Len(Bytes(c, n)) = n
        /\ \A k \in 1 .. n : Bytes(c, n)[k] = heard[c] + k
    BY <1>1, <2>2, BytesRead
  <2>6. LastRead(c, entry[c])'
    <3>1. n =< heard[c] + n /\ \A k \in 1 .. n : heard[c] + k = heard[c] + n - n + k
      BY ONLY <1>1, <2>2
    <3>2. Len(entry'[c]) = n /\ \A k \in 1 .. n : entry'[c][k] = heard[c] + k
      BY <2>4, <2>5
    <3> QED BY <1>1, <2>2, <2>4, <3>2 DEF LastRead
  <2>7. Content' = Content
    BY <2>3 DEF Content
  <2>8. BytesOf(Content, c)' = 1 .. heard'[c] - Len(entry'[c])
    <3>1. BytesOf(Content, c) = 1 .. heard[c]
      BY <1>1, <1>2, <2>3 DEF LogOf
    <3>2. heard[c] + n - n = heard[c]
      BY ONLY <1>1, <2>2
    <3>3. heard'[c] - Len(entry'[c]) = heard[c]
      BY ONLY <1>1, <2>2, <2>4, <2>5
    <3>4. BytesOf(Content, c)' = BytesOf(Content, c)
      BY <1>3, <2>7
    <3> QED BY <3>1, <3>3, <3>4
  <2>9. peer'[c] # "closed"
    BY <1>1, <1>2, <2>2, <2>3 DEF LogOf, HasData
  <2>10. \A d \in Clients \ {c} : UNCHANGED <<heard[d], entry[d], peer[d], said[d]>>
    BY <1>1, <2>1, <2>3 DEF NetType
  <2> QED BY <1>3, <2>6, <2>7, <2>8, <2>9, <2>10, LogMoves DEF LogOf
<1>5. CASE ChildLogs(c)
  <2> DEFINE e == entry[c]
             p == [k \in 1 .. Len(e) |-> <<c, e[k]>>]
  <2>1. /\ pipe' = pipe \o p /\ logged' = logged /\ entry' = [entry EXCEPT ![c] = << >>]
        /\ UNCHANGED netVars /\ e # << >>
    BY <1>5 DEF ChildLogs
  <2>2. p \in Seq(Clients \X Nat)
    BY <1>1, Entries
  <2>3. logged \o (pipe \o p) = (logged \o pipe) \o p
    <3> DEFINE T == Clients \X Nat
    <3>1. logged \in Seq(T) /\ pipe \in Seq(T) /\ p \in Seq(T)
      BY <1>1, <2>2
    <3> HIDE DEF T, p
    <3> QED BY ONLY <3>1
  <2>4. Content' = Content \o p
    BY <2>1, <2>3 DEF Content
  <2>5. Content \in Seq(Clients \X Nat)
    BY <1>1, ConcatProperties DEF Content
  <2>6. Len(e) =< heard[c] /\ Latest(e, heard[c]) /\ BytesOf(Content, c) = 1 .. heard[c] - Len(e)
    BY <1>2 DEF LogOf, LastRead, Latest
  <2>7. /\ Sorted(Content \o p) /\ BytesOf(Content \o p, c) = 1 .. heard[c]
        /\ \A d \in Clients \ {c} : BytesOf(Content \o p, d) = BytesOf(Content, d)
    <3>1. Len(p) = Len(e) /\ \A k \in 1 .. Len(p) : p[k] = <<c, heard[c] - Len(p) + k>>
      <4>1. Len(p) = Len(e) /\ \A k \in 1 .. Len(e) : p[k] = <<c, e[k]>>
        BY <1>1, Entries
      <4> QED BY <2>6, <4>1 DEF Latest
    <3> HIDE DEF e, p
    <3> DEFINE C == Content
               h == heard[c]
    <3>2. /\ C \in Seq(Clients \X Nat) /\ p \in Seq(Clients \X Nat) /\ h \in Nat /\ Sorted(C)
          /\ Newest(p, c, h) /\ BytesOf(C, c) = 1 .. h - Len(p)
      BY <1>1, <1>2, <2>2, <2>5, <2>6, <3>1 DEF Newest
    <3> HIDE DEF C, h
    <3>3. /\ Sorted(C \o p) /\ BytesOf(C \o p, c) = 1 .. h
          /\ \A d \in Clients \ {c} : BytesOf(C \o p, d) = BytesOf(C, d)
      BY ONLY <3>2, c \in Clients, LogGrows, SMTT(30)
    <3> QED BY <3>3 DEF C, h
  <2>8. entry'[c] = << >> /\ \A d \in Clients \ {c} : entry'[d] = entry[d]
    BY <1>1, <2>1
  <2>9. UNCHANGED <<heard, said, peer>>
    BY <2>1 DEF netVars
  <2> HIDE DEF e, p
  <2>10. /\ Sorted(Content)' /\ BytesOf(Content, c)' = 1 .. heard[c]
         /\ \A d \in Clients \ {c} : BytesOf(Content, d)' = BytesOf(Content, d)
    BY <2>4, <2>7 DEF Sorted, BytesOf
  <2>11. LogOf(c)'
    <3>1. peer[c] # "closed" \/ heard[c] = said[c]
      BY <1>2 DEF LogOf
    <3>2. LastRead(c, entry[c])'
      BY <1>1, <2>8, <2>9 DEF LastRead
    <3>3. heard[c] - Len(<< >>) = heard[c]
      BY <1>1
    <3> QED BY <2>8, <2>9, <2>10, <3>1, <3>2, <3>3 DEF LogOf
  <2> QED BY <2>8, <2>9, <2>10, <2>11, LogMoves
<1>6. CASE ChildEnds(c)
  <2>1. /\ UNCHANGED <<heard, said, entry, pipe, logged>> /\ entry[c] = << >>
        /\ \A d \in Clients \ {c} : peer'[d] = peer[d]
        /\ heard[c] = said[c]
    BY <1>1, <1>6 DEF ChildEnds, Close, Reads, Ended, HasData, NetType, logVars
  <2>2. Content' = Content
    BY <2>1 DEF Content
  <2>3. LogOf(c)'
    BY <1>2, <1>3, <2>1, <2>2 DEF LogOf, LastRead
  <2> QED BY <1>3, <2>1, <2>2, <2>3, LogMoves
<1>7. CASE ChildFails(c) \/ ChildEchoes(c)
  <2>1. /\ UNCHANGED <<heard, said, entry, pipe, logged>>
        /\ \A d \in Clients : peer'[d] = "closed" => peer[d] = "closed"
    BY <1>1, <1>7 DEF ChildFails, ChildEchoes, ReadFails, Write, forkVars, logVars, NetType
  <2> QED BY <2>1, LogStays DEF Content
<1> QED BY <1>4, <1>5, <1>6, <1>7 DEF Child

(* Every step keeps the pipe and the log complete.                           *)
LEMMA NextLogging ==
  ASSUME TypeOK, \A c \in Clients : Streams(c), Logging, program' = program, [Next]_vars
  PROVE  Logging'
<1>1. CASE ~Logs
  BY <1>1 DEF Logging, Logs
<1>2. ASSUME NEW c \in Clients, Client(c), UNCHANGED <<readyVars, forkVars, seqVars>>
      PROVE  Logging'
  <2>1. NetType
    BY DEF TypeOK
  <2>2. Alone(c) /\ ByClient(c)
    BY <1>2, <2>1, ClientMoves
  <2>3. \A d \in Clients : /\ heard'[d] = heard[d]
                           /\ peer'[d] = "closed" => peer[d] = "closed" /\ said'[d] = said[d]
    BY <2>2 DEF Alone, Same, ByClient, Joins, Types, Speaks, Hears, Quits, Leaves
  <2>4. Content' = Content /\ entry' = entry
    BY <1>2 DEF forkVars, logVars, Content
  <2> QED BY <2>3, <2>4, LogStays
<1>3. CASE ByForking /\ Logs
  <2>1. CASE AcceptAndFork \/ Reap
    <3>1. UNCHANGED <<heard, said, peer, entry, pipe, logged>>
      BY <2>1 DEF AcceptAndFork, Reap, TakeBacklog, netVars, logVars
    <3> QED BY <3>1, LogStays DEF Content
  <2>2. CASE Logger
    <3>1. pipe \in Seq(Clients \X Nat) /\ logged \in Seq(Clients \X Nat)
      BY DEF TypeOK, RestType
    <3> DEFINE n == IF Len(pipe) < ForkBuf THEN Len(pipe) ELSE ForkBuf
    <3>2. /\ logged' = logged \o SubSeq(pipe, 1, n) /\ pipe' = SubSeq(pipe, n + 1, Len(pipe))
          /\ UNCHANGED <<heard, said, peer, entry>>
      BY <2>2 DEF Logger, netVars
    <3>3. n \in 0 .. Len(pipe)
      BY <3>1, EchoForkAssumption
    <3> HIDE DEF n
    <3>4. Content' = Content
      <4> DEFINE T == Clients \X Nat
      <4>1. pipe \in Seq(T) /\ logged \in Seq(T)
        BY <3>1
      <4> HIDE DEF T
      <4>2. (logged \o SubSeq(pipe, 1, n)) \o SubSeq(pipe, n + 1, Len(pipe)) = logged \o pipe
        BY ONLY <3>3, <4>1, Rejoined
      <4> QED BY <3>2, <4>2 DEF Content
    <3> QED BY <3>2, <3>4, LogStays
  <2>3. ASSUME NEW c \in Clients, Child(c) PROVE Logging'
    BY <1>3, <2>3, ChildLogging
  <2> QED BY <1>3, <2>1, <2>2, <2>3 DEF ByForking, echo_mpserv, echo_storeserv
<1>4. CASE (ByReadiness \/ InTurn) /\ Logs
  BY <1>4 DEF Logs, ByReadiness, echo_selectserv, echo_epollserv, echo_EPLTserv, echo_EPETserv,
              InTurn, server, server2, server3, echo_stdserv
<1>5. CASE UNCHANGED vars
  <2>1. UNCHANGED <<heard, said, peer, entry, pipe, logged>>
    BY <1>5 DEF vars, netVars, forkVars, logVars
  <2> QED BY <2>1, LogStays DEF Content
<1> QED BY <1>1, <1>2, <1>3, <1>4, <1>5 DEF Next, Over

-----------------------------------------------------------------------------
(* The invariant holds at the start, and every step keeps it.                *)
LEMMA InitIInv == Init => IInv
<1> SUFFICES ASSUME Init PROVE IInv
  OBVIOUS
<1> USE DEF Init, NetInit, ReadyInit, ForkInit, SeqInit
<1>1. NetType
  BY DEF NetType, PeerStates
<1>2. RestType
  <2>1. child \in [Clients \cup {logger} -> {"none", "run", "zombie", "reaped"}]
    OBVIOUS
  <2>2. message \in Seq(Nat)
    <3>1. Foreign \in Nat
      BY DEF Foreign
    <3>2. << >> \in Seq(Nat) /\ <<Foreign>> \in Seq(Nat)
      BY <3>1
    <3>3. message \in {<< >>, <<Foreign>>}
      OBVIOUS
    <3> QED BY ONLY <3>2, <3>3
  <2>3. conn \in [FDs -> Clients \cup {NoClient}] /\ ready \in Seq(FDs \cup {Serv})
    OBVIOUS
  <2>4. entry \in [Clients -> Seq(Nat)]
    OBVIOUS
  <2>5. pipe \in Seq(Clients \X Nat) /\ logged \in Seq(Clients \X Nat)
    OBVIOUS
  <2>6. reads \in Nat /\ sigchld \in BOOLEAN /\ client \in Clients \cup {Nobody}
        /\ turn \in Nat /\ passes \in Nat
    OBVIOUS
  <2> QED BY <2>1, <2>2, <2>3, <2>4, <2>5, <2>6 DEF RestType
<1>3. \A c \in Clients : c # Nobody /\ c # NoClient /\ c # logger
  BY NobodyIs
<1>4. ASSUME NEW c \in Clients
      PROVE  Streams(c) /\ Connection(c) /\ InHand(c) /\ Repeats(c) /\ ByLine(c) /\ Untouched(c)
  <2>1. /\ cst[c] = "new" /\ typed[c] = 0 /\ said[c] = 0 /\ got[c] = 0 /\ heard[c] = 0
        /\ peer[c] = "new" /\ buf[c] = << >> /\ out[c] = << >>
    OBVIOUS
  <2>2. Len(<< >>) = 0 /\ << >> \o << >> = << >> /\ 1 .. 0 = {}
    OBVIOUS
  <2>3. LineEnd(c)[0] = 0 /\ Len(Lines[c]) \in Nat /\ Window \in Nat
    BY LineEnds, EchoNetAssumption
  <2>4. Streams(c)
    BY <2>1, <2>2, <2>3 DEF Streams
  <2>5. Connection(c)
    BY <2>1 DEF Connection
  <2>6. InHand(c)
    BY <2>1, <2>2 DEF InHand, LastRead, Echoes, InOrder, Exact, Writable
  <2>7. Repeats(c)
    BY <1>3, <2>1, <2>2 DEF Repeats, Earlier, Unskipped, Late, Writable
  <2>8. AtLine(c, 0) /\ 0 \in 0 .. typed[c]
    BY <2>1, <2>3 DEF AtLine
  <2>9. ByLine(c)
    BY <1>3, <2>1, <2>2, <2>8
       DEF ByLine, LineRead, LineHeard, LineEnded, LineSent, Twice, Writable
  <2>10. Untouched(c)
    BY <1>3, <2>1 DEF Untouched
  <2> QED BY <2>4, <2>5, <2>6, <2>7, <2>9, <2>10
<1>5. OnePlace
  BY <1>4 DEF OnePlace, Distinct, Has, Open
<1>6. Survivors
  BY DEF Survivors, Survives
<1>7. Reported
  BY DEF Reported, StillReady, NoEdgeLost, Distinct, Has, Open
<1>8. Logging
  <2>1. Content = << >> /\ Len(<< >>) = 0
    BY DEF Content
  <2>2. Sorted(Content) /\ \A c \in Clients : BytesOf(Content, c) = {}
    BY <2>1 DEF Sorted, BytesOf
  <2>3. \A c \in Clients : LogOf(c)
    <3> SUFFICES ASSUME NEW c \in Clients PROVE LogOf(c)
      OBVIOUS
    <3>1. heard[c] = 0 /\ entry[c] = << >> /\ peer[c] = "new" /\ 1 .. 0 - 0 = {}
      OBVIOUS
    <3> QED BY <2>1, <2>2, <3>1 DEF LogOf, LastRead
  <2> QED BY <2>2, <2>3, LoggingIs
<1> QED BY <1>1, <1>2, <1>4, <1>5, <1>6, <1>7, <1>8 DEF IInv, TypeOK

(* The invariant is inductive: the parts, each by its own lemma.             *)
LEMMA Inductive == IInv /\ [Next]_vars => IInv'
<1> SUFFICES ASSUME IInv, [Next]_vars PROVE IInv'
  OBVIOUS
<1>1. /\ TypeOK /\ OnePlace /\ Survivors /\ Reported /\ Logging /\ NetType
      /\ \A c \in Clients : Streams(c) /\ Connection(c) /\ InHand(c) /\ Repeats(c) /\ ByLine(c)
  BY DEF IInv, TypeOK
<1>2. TypeOK' /\ OnePlace'
  BY <1>1, NextTypes, NextPlaces
<1>3. Moved /\ program' = program /\ \A c \in Clients : (Same(c) /\ SameTurn(c)) \/ Move(c)
  BY <1>1, NextMoves DEF Moved, Rest
<1>4. \A c \in Clients : Net(c) /\ Net(c)'
  <2>1. \A c \in Clients : Net(c)
    BY <1>1, NetOf
  <2>2. ASSUME NEW c \in Clients PROVE Net(c)'
    <3>1. /\ cst'[c] \in {"new", "typing", "writing", "waiting", "reading", "gone"} /\ peer'[c] \in PeerStates
          /\ typed'[c] \in Nat /\ said'[c] \in Nat /\ got'[c] \in Nat /\ heard'[c] \in Nat
      BY <1>2 DEF TypeOK, NetType
    <3>2. buf'[c] \in Seq(Nat) /\ out'[c] \in Seq(Nat) /\ message' \in Seq(Nat)
      BY <1>2 DEF TypeOK, NetType, RestType
    <3>3. Len(buf'[c]) \in Nat /\ Len(out'[c]) \in Nat /\ Len(message') \in Nat
      BY <3>2
    <3> QED BY <3>1, <3>2, <3>3 DEF Net
  <2> QED BY <2>1, <2>2
<1>5. \A c \in Clients : cst[c] = "new" => out[c] = << >> /\ buf[c] = << >> /\ heard[c] = 0
  BY <1>1 DEF Connection, OnePlace, Untouched
<1>6. ASSUME NEW c \in Clients
      PROVE  Streams(c)' /\ Connection(c)' /\ InHand(c)' /\ Repeats(c)' /\ ByLine(c)'
  <2>1. /\ Net(c) /\ Net(c)' /\ Streams(c) /\ Connection(c)
        /\ InHand(c) /\ Repeats(c) /\ ByLine(c)
        /\ (Same(c) /\ SameTurn(c)) \/ Move(c)
        /\ cst[c] = "new" => out[c] = << >> /\ buf[c] = << >> /\ heard[c] = 0
    BY <1>1, <1>3, <1>4, <1>5
  <2>2. Streams(c)' /\ Connection(c)'
    BY <1>1, <2>1, StreamsMove, ConnectionMove
  <2>3. InHand(c)'
    BY <1>1, <1>3, <2>1, InHandMove
  <2>4. Repeats(c)'
    BY <1>1, <1>3, <2>1, RepeatsMove
  <2>5. ByLine(c)'
    BY <1>1, <1>3, <2>1, ByLineMove
  <2> QED BY <2>2, <2>3, <2>4, <2>5
<1>7. Survivors'
  BY <1>1, <1>3, NextKills, SurvivorsMove
<1>8. Reported' /\ Logging'
  BY <1>1, <1>3, NextReported, NextLogging
<1> QED BY <1>2, <1>6, <1>7, <1>8 DEF IInv

-----------------------------------------------------------------------------
(* What follows from it.                                                     *)
LEMMA EchoIsRight == IInv => EchoRight
<1> SUFFICES ASSUME IInv, NEW c \in Clients
             PROVE  /\ \A i \in Echoes(c) : out[c][i] =< heard[c]
                    /\ CASE program = "echo_EPETserv" ->
                              InOrder(c) /\ (said[c] =< Window => Exact(c))
                         [] program \in {"server", "server2"} ->
                              NoneSkipped(c) /\ \A i \in Echoes(c) : out[c][i] = Foreign => i > SeqBuf
                         [] program = "echo_stdserv" ->
                              /\ \A i \in Echoes(c) : i =< heard[c] => out[c][i] = i
                              /\ Len(out[c]) > heard[c] =>
                                   /\ peer[c] \in {"half", "closed"}
                                   /\ \A i \in Echoes(c) : i > heard[c] =>
                                        out[c][i] = IF typed[c] > 0 THEN i - LastOf(c) ELSE Foreign
                         [] OTHER -> Exact(c)
  BY DEF EchoRight
<1>1. Net(c) /\ InHand(c) /\ Repeats(c) /\ ByLine(c)
  BY NetOf DEF IInv
<1>2. CASE Plain
  <2>1. \A i \in Echoes(c) : out[c][i] =< heard[c]
    <3>1. \A i \in Echoes(c) : out[c][i] \in 1 .. heard[c] - Len(buf[c])
      BY <1>1, <1>2 DEF InHand
    <3>2. \A x \in 1 .. heard[c] - Len(buf[c]) : x =< heard[c]
      BY <1>1 DEF Net
    <3> QED BY <3>1, <3>2
  <2>2. InOrder(c) /\ (Keeps(c) => Exact(c))
    BY <1>1, <1>2 DEF InHand
  <2> QED BY <1>2, <2>1, <2>2 DEF Plain, Keeps
<1>3. CASE program \in {"server", "server2"}
  <2>1. \A i \in Echoes(c) : out[c][i] =< heard[c]
    BY <1>1, <1>3 DEF Repeats, Earlier, Echoes, Net
  <2>2. NoneSkipped(c) /\ \A i \in Echoes(c) : out[c][i] = Foreign => i > SeqBuf
    BY <1>1, <1>3 DEF Repeats, Unskipped, Late, NoneSkipped, Echoes
  <2> QED BY <1>3, <2>1, <2>2
<1>4. CASE program = "echo_stdserv"
  <2>1. LineSent(c)
    BY <1>1, <1>4 DEF ByLine
  <2>2. ASSUME NEW i \in Echoes(c)
        PROVE  /\ out[c][i] =< heard[c]
               /\ i =< heard[c] => out[c][i] = i
               /\ i > heard[c] => out[c][i] = IF typed[c] > 0 THEN i - LastOf(c) ELSE Foreign
    <3>1. /\ i \in 1 .. Len(out[c]) /\ (i =< heard[c] \/ i > heard[c])
          /\ typed[c] > 0 \/ typed[c] = 0
          /\ i \in Nat /\ heard[c] \in Nat
      BY <1>1 DEF Net, Echoes
    <3>2. i =< heard[c] => out[c][i] = i /\ ~ (i > heard[c])
      BY <2>1, <3>1 DEF LineSent, Twice
    <3>3. i > heard[c] /\ typed[c] > 0 => out[c][i] =< heard[c] /\ out[c][i] = i - LastOf(c)
      BY <2>1, <3>1 DEF LineSent, Twice
    <3>4. i > heard[c] /\ typed[c] = 0 => out[c][i] = Foreign /\ Foreign =< heard[c]
      BY <2>1, <3>1 DEF LineSent, Twice, Foreign
    <3>5. typed[c] = 0 => ~ (typed[c] > 0)
      BY <1>1 DEF Net
    <3> QED BY <3>1, <3>2, <3>3, <3>4, <3>5
  <2>3. Len(out[c]) > heard[c] => peer[c] \in {"half", "closed"}
    BY <2>1 DEF LineSent
  <2> QED BY <1>4, <2>2, <2>3
<1> QED BY <1>2, <1>3, <1>4 DEF Plain

(* The list of ready descriptors says what a read will find.                 *)
LEMMA NeverBlocks == IInv => NeverBlocksNorForgets
<1> SUFFICES ASSUME IInv PROVE NeverBlocksNorForgets
  OBVIOUS
<1>1. Reported /\ ready \in Seq(FDs \cup {Serv})
  BY DEF IInv, TypeOK, RestType
<1>2. \A f : f \in ToSet(ready) <=> Has(ready, f)
  BY <1>1 DEF ToSet, Has
<1>3. \A f \in ToSet(ready) : f \in FDs \cup {Serv}
  BY <1>1 DEF ToSet
<1>4. CASE program = "echo_EPETserv"
  BY <1>1, <1>2, <1>4 DEF Reported, NoEdgeLost, NeverBlocksNorForgets, Due
<1>5. CASE program \in ByLevel
  <2>1. program # "echo_EPETserv"
    BY <1>5 DEF ByLevel
  <2>2. StillReady
    BY <1>1, <1>5 DEF Reported
  <2> QED BY <1>2, <1>3, <2>1, <2>2 DEF StillReady, NeverBlocksNorForgets
<1>6. CASE program \notin ByLevel \cup {"echo_EPETserv"}
  <2>1. ~ \E f : Has(ready, f)
    BY <1>1, <1>6 DEF Reported, Has
  <2> QED BY <1>2, <1>6, <2>1 DEF NeverBlocksNorForgets
<1> QED BY <1>4, <1>5, <1>6

(* In every behaviour, whatever the server, its clients and the sizes of     *)
(* lines, buffers, windows and pipe.                                         *)
THEOREM EchoInductive == Spec => []IInv
BY InitIInv, Inductive, PTL DEF Spec

(* What a client is sent is what it said: EchoRight.                         *)
THEOREM EchoCorrect == Spec => []EchoRight
BY EchoInductive, EchoIsRight, PTL

(* Only who leaves early makes SIGPIPE kill a server: Survives.              *)
THEOREM SurvivesCorrect == Spec => []Survives
<1>1. IInv => Survives
  BY DEF IInv, Survivors
<1> QED BY <1>1, EchoInductive, PTL

(* No read of a server of one process blocks, and no edge is lost:           *)
(* NeverBlocksNorForgets.                                                    *)
THEOREM ReadinessCorrect == Spec => []NeverBlocksNorForgets
BY EchoInductive, NeverBlocks, PTL

(* The logger's file has the bytes of every client in order: LogComplete.    *)
THEOREM LogCorrect == Spec => []LogComplete
<1>1. IInv => LogComplete
  BY DEF IInv, Logging, LogComplete
<1> QED BY <1>1, EchoInductive, PTL

=============================================================================
