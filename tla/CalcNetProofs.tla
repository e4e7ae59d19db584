--------------------------- MODULE CalcNetProofs ---------------------------
(* For any number of clients, any requests, machine, segmentation, loss,     *)
(* doubling and reordering: the TCP calculator answers what was asked, never *)
(* waits for more than was sent and is stopped by a count that says so and   *)
(* by nothing else; the UDP calculators give on an orderly network everyone  *)
(* who waits the right answer, and on any other the answer to a request sent *)
(* from the port it comes to.                                                *)
(*                                                                           *)
(* The argument for TCP.  A connection nobody has read from holds nothing or *)
(* the whole frame of its client's request.  While the server reads one,     *)
(* spc, i and opCount say how far into the frame it is: no less is left than *)
(* what is behind that position, and exactly that if every read is served    *)
(* whole, so that each read finds the field it is for.                       *)
(*                                                                           *)
(* That for UDP comes before UdpTypeOK.                                      *)
EXTENDS TcpCalc, UdpCalc, CalcProofs

AllRequests == UNION {Requests[c] : c \in Clients}

(* Types of all state, the answers left as they are written.                 *)
TypeOK ==
  /\ spc \in {"accept", "count", "operand", "operator", "stopped"}
  /\ cfd \in Clients \cup {None}
  /\ opCount \in -(MaxChar + 1) .. MaxChar /\ i \in Nat
  /\ operand \in [Slots -> [1 .. IntBytes -> Byte]]
  /\ operator \in [Slots -> Byte]
  /\ opResult \in Int
  /\ backlog \in Seq(Clients)
  /\ cst \in [Clients -> {"off", "connected", "sent", "done", "gone"}]
  /\ asked \in [Clients -> AllRequests \cup {None}]
  /\ in \in [Clients -> Seq(Byte)]
  /\ out \in [Clients -> [value : Int, reset : BOOLEAN] \cup {None}]
  /\ answer \in [Clients -> Int \cup {None, Garbage}]
  /\ whole \in BOOLEAN

Serving == spc \in {"count", "operand", "operator"}
Reading == spc \in {"operand", "operator"}

(* A client is accepted once, after it has connected.                        *)
Queue ==
  /\ Distinct(backlog)
  /\ \A c \in Clients : Has(backlog, c) => cst[c] # "off" /\ (Serving => c # cfd)
  /\ Serving => cfd \in Clients /\ cst[cfd] # "off"

(* Nothing has been read of what c sends.                                    *)
Waits(c) == cst[c] = "off" \/ Has(backlog, c) \/ (spc = "count" /\ c = cfd)

Asks(c) == asked[c] \in Requests[c]
Fresh(c) ==
  /\ out[c] = None
  /\ cst[c] \in {"off", "connected"} => in[c] = << >>
  /\ cst[c] = "sent" => in[c] = Frame(asked[c])
  /\ cst[c] = "gone" => in[c] = << >> \/ (Asks(c) /\ in[c] = Frame(asked[c]))
  /\ cst[c] = "done" => spc = "stopped"

Unread ==
  \A c \in Clients :
    /\ cst[c] \in {"sent", "done"} => Asks(c) /\ Char(asked[c].count) > 0
    /\ Waits(c) => Fresh(c)

(* How many bytes of the frame have gone if all reads were served whole.     *)
Position == IF spc = "operand" THEN 1 + i * IntBytes ELSE (1 + opCount * IntBytes) + i
Rest(f, p) == SubSeq(f, p + 1, Len(f))

(* In the middle of a request.                                               *)
Inside == Reading =>
  /\ cst[cfd] \in {"sent", "gone"} /\ out[cfd] = None
  /\ opCount \in 1 .. MaxChar /\ i \in 0 .. opCount - 1
  /\ cst[cfd] = "sent" => /\ opCount = asked[cfd].count
                          /\ Len(in[cfd]) >= Len(Frame(asked[cfd])) - Position

(* What the server has understood of it, if reads are served whole.          *)
AsTyped == whole /\ Reading /\ cst[cfd] = "sent" =>
  /\ in[cfd] = Rest(Frame(asked[cfd]), Position)
  /\ \A s \in 1 .. (IF spc = "operand" THEN i ELSE opCount) :
       IntOf(operand[s]) = asked[cfd].operand[s]
  /\ spc = "operator" => opResult = Partial(Expression(asked[cfd]))[i]

Answered ==
  \A c \in Clients :
    /\ cst[c] \in {"off", "connected"} => out[c] = None
    /\ whole /\ cst[c] = "sent" /\ out[c] # None =>
         out[c] = [value |-> Calculate(Expression(asked[c])), reset |-> FALSE]

IInv == TypeOK /\ Queue /\ Unread /\ Inside /\ AsTyped /\ Answered /\ AnswerRight

-----------------------------------------------------------------------------
(* What is behind a position of a sequence, and behind a later one.          *)
LEMMA RestOf ==
  ASSUME NEW S, NEW f \in Seq(S), NEW p \in 0 .. Len(f)
  PROVE  /\ Rest(f, p) \in Seq(S) /\ Len(Rest(f, p)) = Len(f) - p
         /\ \A b \in 1 .. Len(Rest(f, p)) : Rest(f, p)[b] = f[p + b]
         /\ \A k \in 0 .. Len(Rest(f, p)) :
              SubSeq(Rest(f, p), k + 1, Len(Rest(f, p))) = Rest(f, p + k)
<1> DEFINE q == Rest(f, p)
<1>1. /\ q \in Seq(S) /\ Len(q) = Len(f) - p /\ Len(q) \in Nat
      /\ \A b \in 1 .. Len(q) : q[b] = f[p + b]
  BY DEF Rest
<1> HIDE DEF q
<1>2. ASSUME NEW k \in 0 .. Len(q) PROVE SubSeq(q, k + 1, Len(q)) = Rest(f, p + k)
  <2> DEFINE a == SubSeq(q, k + 1, Len(q))
             z == Rest(f, p + k)
  <2>1. /\ a \in Seq(S) /\ Len(a) = Len(q) - k
        /\ \A b \in 1 .. Len(q) - k : a[b] = q[k + b]
    BY <1>1
  <2>2. /\ z \in Seq(S) /\ Len(z) = Len(q) - k
        /\ \A b \in 1 .. Len(q) - k : z[b] = f[(p + k) + b]
    BY <1>1 DEF Rest
  <2> HIDE DEF a, z
  <2>3. \A b \in 1 .. Len(q) - k : a[b] = z[b]
    <3> SUFFICES ASSUME NEW b \in 1 .. Len(q) - k PROVE a[b] = z[b]
      OBVIOUS
    <3>1. k + b \in 1 .. Len(q) /\ p + (k + b) = (p + k) + b
      BY <1>1
    <3> QED BY <1>1, <2>1, <2>2, <3>1
  <2>4. \A u, v \in Seq(S) : Len(u) = Len(v) /\ (\A b \in 1 .. Len(u) : u[b] = v[b]) => u = v
    OBVIOUS
  <2>5. a = z
    BY <2>1, <2>2, <2>3, <2>4
  <2> QED BY <2>5 DEF a, z
<1> QED BY <1>1, <1>2 DEF q

(* A read takes no more than it asked for and no more than there is, and all *)
(* that it can if it is served whole.                                        *)
LEMMA ReadLengths ==
  ASSUME TypeOK, NEW c \in Clients, NEW n \in Nat \ {0}, NEW k \in Lengths(c, n)
  PROVE  /\ k \in 0 .. Len(in[c]) /\ k =< n /\ (in[c] # << >> => k >= 1)
         /\ whole /\ Len(in[c]) >= n => k = n
         /\ SubSeq(in[c], k + 1, Len(in[c])) \in Seq(Byte)
         /\ Len(SubSeq(in[c], k + 1, Len(in[c]))) = Len(in[c]) - k
         /\ \A b \in 1 .. k : in[c][b] \in Byte
<1> DEFINE q == in[c]
           most == IF Len(q) < n THEN Len(q) ELSE n
<1>1. q \in Seq(Byte) /\ Len(q) \in Nat /\ whole \in BOOLEAN /\ (q # << >> => Len(q) > 0)
  BY DEF TypeOK
<1>2. k \in IF whole \/ most = 0 THEN {most} ELSE 1 .. most
  BY DEF Lengths
<1> HIDE DEF q
<1>3. most \in 0 .. Len(q) /\ most =< n /\ (Len(q) >= n => most = n) /\ (Len(q) > 0 => most > 0)
  BY <1>1
<1> HIDE DEF most
<1>4. /\ k \in 0 .. most /\ (most > 0 => k >= 1) /\ (whole => k = most)
  BY <1>1, <1>2, <1>3
<1>5. k \in 0 .. Len(q) /\ k =< n /\ (q # << >> => k >= 1) /\ (whole /\ Len(q) >= n => k = n)
  BY <1>1, <1>3, <1>4
<1>6. /\ SubSeq(q, k + 1, Len(q)) \in Seq(Byte) /\ Len(SubSeq(q, k + 1, Len(q))) = Len(q) - k
      /\ \A b \in 1 .. k : q[b] \in Byte
  BY <1>1, <1>5
<1> QED BY <1>5, <1>6 DEF q

-----------------------------------------------------------------------------
(* Where everything is in the frame of a request.                            *)
LEMMA Framed ==
  ASSUME NEW r, IsRequest(r)
  PROVE  /\ Frame(r) \in Seq(Byte) /\ Len(Frame(r)) >= 1 /\ Char(Frame(r)[1]) = Char(r.count)
         /\ Char(r.count) \in -(MaxChar + 1) .. MaxChar
<1>1. Typed(r)
  BY DEF IsRequest, Typed
<1>2. r.count \in Int /\ Len(r.operator) \in Nat
  BY <1>1 DEF Typed
<1> DEFINE n == Len(r.operand) * IntBytes
<1>3. /\ Frame(r) \in Seq(Byte) /\ Len(Frame(r)) = 1 + n + Len(r.operator) /\ n \in Nat
      /\ Frame(r)[1] = r.count % Base
  BY <1>1, FrameBytes
<1> HIDE DEF n
<1> DEFINE m == r.count % Base
<1>4. Char(m) = Char(r.count) /\ Char(r.count) \in -(MaxChar + 1) .. MaxChar
  BY ONLY <1>2, CalcFrameAssumption, WordBitsAssumption, Chars
<1>5. Frame(r)[1] = m
  BY <1>3
<1> HIDE DEF m
<1>6. Len(Frame(r)) >= 1
  <2> DEFINE k == Len(r.operator)
             l == Len(Frame(r))
  <2>1. l = 1 + n + k /\ n \in Nat /\ k \in Nat
    BY <1>2, <1>3
  <2> HIDE DEF k, l
  <2>2. l >= 1
    BY ONLY <2>1
  <2> QED BY <2>2 DEF l
<1> QED BY ONLY <1>3, <1>4, <1>5, <1>6

(* The facts about a request that has a value.                               *)
Fields(r, n) ==
  /\ r.count = n /\ n \in 1 .. MaxChar /\ n * IntBytes \in Nat
  /\ Len(Frame(r)) = (1 + n * IntBytes) + (n - 1)
  /\ \A s \in 1 .. n :
       /\ r.operand[s] \in Int /\ Wrap(r.operand[s]) = r.operand[s]
       /\ \A k \in 1 .. IntBytes : Frame(r)[1 + ((s-1) * IntBytes + k)] = Little(r.operand[s])[k]
  /\ \A s \in 1 .. n - 1 : Frame(r)[(1 + n * IntBytes) + s] = r.operator[s]

Worth(r, n) ==
  LET p == Partial(Expression(r))
  IN /\ p[0] = r.operand[1] /\ p[n-1] = Calculate(Expression(r))
     /\ \A s \in 1 .. n - 1 : p[s] = Wrap(Apply(OpOf(r.operator[s]), p[s-1], r.operand[s+1]))

(* What was typed is all in the frame, and worth what is calculated from it. *)
LEMMA Valued ==
  ASSUME NEW r, IsRequest(r), Char(r.count) > 0
  PROVE  /\ Fields(r, r.count) /\ Worth(r, r.count) /\ r.count \in 1 .. MaxChar
         /\ Char(r.count) = r.count
<1> DEFINE n == r.count
           e == Expression(r)
<1>1. /\ Typed(r) /\ n \in 1 .. MaxChar /\ Char(n) = n /\ Len(r.operand) = n
      /\ Len(r.operator) = n - 1 /\ IsExpression(e)
  BY ParseFrame
<1>2. \A s \in 1 .. n : r.operand[s] \in Int /\ Wrap(r.operand[s]) = r.operand[s]
  BY <1>1 DEF IsRequest, Typed
<1>3. Fields(r, n)
  <2>1. LET t == Len(r.operand) * IntBytes
        IN /\ Len(Frame(r)) = 1 + t + Len(r.operator) /\ t \in Nat
           /\ \A s \in 1 .. Len(r.operand) : \A k \in 1 .. IntBytes :
                Frame(r)[1 + ((s-1) * IntBytes + k)] = Little(r.operand[s])[k]
           /\ \A s \in 1 .. Len(r.operator) : Frame(r)[(1 + t) + s] = r.operator[s]
    BY <1>1, FrameBytes
  <2> HIDE DEF n
  <2>2. r.count = n
    BY DEF n
  <2> QED BY ONLY <1>1, <1>2, <2>1, <2>2 DEF Fields
<1>4. e.operand = r.operand /\ Len(e.operator) = n - 1 /\ \A s \in 1 .. n - 1 : e.operator[s] = OpOf(r.operator[s])
  <2>1. r.operator \in Seq(Byte)
    BY <1>1 DEF Typed
  <2>2. DOMAIN r.operator = 1 .. n - 1
    BY <1>1, <2>1
  <2> QED BY <1>1, <2>2 DEF Expression
<1>5. Worth(r, n)
  <2> DEFINE p == Partial(e)
  <2> HIDE DEF n, e
  <2>1. p[0] = e.operand[1] /\ \A s \in 1 .. n - 1 : p[s] = Wrap(Apply(e.operator[s], p[s-1], e.operand[s+1]))
    BY <1>1, <1>4, Partials
  <2>2. p[n-1] = Calculate(e)
    BY <1>4 DEF Calculate
  <2> HIDE DEF p
  <2> QED BY <1>4, <2>1, <2>2 DEF Worth, e, p
<1> QED BY <1>1, <1>3, <1>5

(* What is known of a client's request.                                      *)
LEMMA Asked ==
  ASSUME NEW c \in Clients, Asks(c)
  PROVE  IsRequest(asked[c]) /\ asked[c] # None /\ asked[c] \in AllRequests
BY CalcClientsAssumption DEF Asks, AllRequests

-----------------------------------------------------------------------------
(* Nothing is connected and nothing read.                                    *)
LEMMA InitInv == Init => IInv
<1> SUFFICES ASSUME Init PROVE IInv
  OBVIOUS
<1>1. TypeOK
  <2>1. opCount \in -(MaxChar + 1) .. MaxChar
    BY TcpCalcAssumption DEF Init
  <2>2. operand \in [Slots -> [1 .. IntBytes -> Byte]] /\ operator \in [Slots -> Byte]
    <3>1. 0 \in Byte /\ StackByte \in Byte
      BY TcpCalcAssumption, CalcFrameAssumption, WordBitsAssumption, Bytewise
    <3> QED BY <3>1 DEF Init
  <2>3. whole \in BOOLEAN
    BY TcpCalcAssumption DEF Init
  <2> QED BY <2>1, <2>2, <2>3 DEF Init, TypeOK
<1>2. /\ spc = "accept" /\ backlog = << >> /\ \A c \in Clients : cst[c] = "off" /\ out[c] = None
      /\ in = [c \in Clients |-> << >>]
  BY DEF Init
<1>3. Queue
  BY <1>2 DEF Queue, Distinct, Has, Serving
<1>4. Unread
  BY <1>2 DEF Unread, Fresh
<1>5. Inside /\ AsTyped /\ Answered /\ AnswerRight
  BY <1>2 DEF Inside, AsTyped, Answered, AnswerRight, Reading
<1> QED BY <1>1, <1>3, <1>4, <1>5 DEF IInv

(* What another does while the server is in the middle of a request.         *)
LEMMA ReadingAside ==
  ASSUME IInv, UNCHANGED <<spc, cfd, opCount, operand, opResult, i, whole>>,
         Reading => /\ in'[cfd] = in[cfd] /\ asked'[cfd] = asked[cfd] /\ out'[cfd] = out[cfd]
                    /\ cst'[cfd] \in {"sent", "gone"} /\ (cst'[cfd] = "sent" => cst[cfd] = "sent")
  PROVE  Inside' /\ AsTyped'
<1>1. Reading' = Reading /\ Position' = Position
  BY DEF Reading, Position
<1>2. CASE ~ Reading
  BY <1>1, <1>2 DEF Inside, AsTyped
<1>3. CASE Reading
  <2>1. cfd' = cfd /\ in'[cfd] = in[cfd] /\ asked'[cfd] = asked[cfd] /\ out'[cfd] = out[cfd]
    BY <1>3
  <2>2. Inside'
    BY <1>1, <1>3, <2>1 DEF IInv, Inside
  <2>3. AsTyped'
    BY <1>1, <1>3, <2>1 DEF IInv, AsTyped
  <2> QED BY <2>2, <2>3
<1> QED BY <1>2, <1>3

(* Some client connects.                                                     *)
LEMMA ConnectKeeps ==
  ASSUME IInv, NEW c \in Clients, Connect(c)
  PROVE  IInv'
<1>1. /\ cst[c] = "off" /\ spc # "stopped" /\ backlog' = Append(backlog, c)
      /\ spc' = spc /\ cfd' = cfd /\ in' = in /\ out' = out /\ asked' = asked /\ answer' = answer
      /\ UNCHANGED <<opCount, operand, operator, opResult, i, whole>>
  BY DEF Connect, serverData
<1>2. /\ cst' \in [Clients -> {"off", "connected", "sent", "done", "gone"}]
      /\ \A d \in Clients : cst'[d] = IF d = c THEN "connected" ELSE cst[d]
  BY DEF Connect, IInv, TypeOK
<1>3. backlog \in Seq(Clients) /\ Distinct(backlog) /\ ~ Has(backlog, c)
  BY <1>1 DEF IInv, TypeOK, Queue
<1>4. Distinct(backlog') /\ \A d : Has(backlog', d) <=> Has(backlog, d) \/ d = c
  BY <1>1, <1>3, AppendHas
<1>5. Reading => cfd \in Clients /\ cst[cfd] \in {"sent", "gone"} /\ cfd # c
  BY <1>1 DEF IInv, Inside, Queue, Reading, Serving
<1>6. TypeOK'
  BY <1>1, <1>2, <1>3 DEF IInv, TypeOK
<1>7. Queue'
  BY <1>1, <1>2, <1>4 DEF IInv, Queue, Serving
<1>8. Unread'
  <2> SUFFICES ASSUME NEW d \in Clients
               PROVE  /\ cst'[d] \in {"sent", "done"} => Asks(d)' /\ Char(asked'[d].count) > 0
                      /\ Waits(d)' => Fresh(d)'
    BY DEF Unread
  <2>1. /\ cst[d] \in {"sent", "done"} => Asks(d) /\ Char(asked[d].count) > 0
        /\ Waits(d) => Fresh(d)
    BY DEF IInv, Unread
  <2>2. CASE d = c
    <3>1. Fresh(d)
      BY <1>1, <2>1, <2>2 DEF Waits
    <3> QED BY <1>1, <1>2, <2>2, <3>1 DEF Fresh
  <2>3. CASE d # c
    <3>1. Waits(d)' => Waits(d)
      BY <1>1, <1>2, <1>4, <2>3 DEF Waits
    <3>2. cst'[d] = cst[d]
      BY <1>2, <2>3
    <3> QED BY <1>1, <2>1, <3>1, <3>2 DEF Fresh, Asks
  <2> QED BY <2>2, <2>3
<1>9. Inside' /\ AsTyped'
  BY <1>1, <1>2, <1>5, ReadingAside
<1>10. Answered' /\ AnswerRight'
  BY <1>1, <1>2 DEF IInv, Answered, AnswerRight
<1> QED BY <1>6, <1>7, <1>8, <1>9, <1>10 DEF IInv

(* Some client sends its request.                                            *)
LEMMA SendKeeps ==
  ASSUME IInv, NEW c \in Clients, Send(c)
  PROVE  IInv'
<1>1. PICK r \in Requests[c] :
        /\ asked' = [asked EXCEPT ![c] = r]
        /\ IF Char(r.count) =< 0
             THEN /\ in' = [in EXCEPT ![c] = <<r.count % Base>>]
                  /\ cst' = [cst EXCEPT ![c] = "gone"]
             ELSE /\ in' = [in EXCEPT ![c] = Frame(r)]
                  /\ cst' = [cst EXCEPT ![c] = "sent"]
  BY DEF Send
<1>2. /\ cst[c] = "connected" /\ spc # "stopped"
      /\ UNCHANGED <<spc, cfd, opCount, operand, operator, opResult, i, backlog, out, answer, whole>>
  BY DEF Send, serverData
<1>3. IsRequest(r) /\ r \in AllRequests
  BY CalcClientsAssumption DEF AllRequests
<1>4. Char(r.count) \in -(MaxChar + 1) .. MaxChar /\ Frame(r) \in Seq(Byte) /\ MaxChar \in Int
  <2>1. r.count \in Int
    BY <1>3 DEF IsRequest
  <2>2. MaxChar \in Int
    BY ONLY <2>1, CalcFrameAssumption, WordBitsAssumption, Chars
  <2> QED BY <1>3, <2>2, Framed
<1> DEFINE st == IF Char(r.count) =< 0 THEN "gone" ELSE "sent"
<1>5. in' = [in EXCEPT ![c] = Frame(r)] /\ cst' = [cst EXCEPT ![c] = st]
  <2>1. CASE Char(r.count) =< 0
    <3>1. Frame(r) = <<r.count % Base>>
      <4>1. ~ (Char(r.count) > 0)
        BY <1>4, <2>1
      <4>2. r.operand \in Seq(Int) /\ r.operator \in Seq(Byte) /\ Len(r.operand) = 0 /\ Len(r.operator) = 0
        BY <1>3, <4>1 DEF IsRequest
      <4>3. Operands(r) \in Seq(Byte) /\ Len(Operands(r)) = 0
        <5>1. Typed(r)
          BY <1>3 DEF IsRequest, Typed
        <5>2. Operands(r) \in Seq(Byte) /\ Len(Operands(r)) = Len(r.operand) * IntBytes
          BY ONLY <5>1, CalcFrameAssumption, WordBitsAssumption, OperandBytes
        <5> QED BY <4>2, <5>2, CalcFrameAssumption
      <4>4. r.count % Base \in Byte
        <5>1. r.count \in Int
          BY <1>3 DEF IsRequest
        <5> QED BY ONLY <5>1, CalcFrameAssumption, WordBitsAssumption, Bytewise
      <4>5. \A q \in Seq(Byte) : Len(q) = 0 => q = << >>
        OBVIOUS
      <4>6. Operands(r) = << >> /\ r.operator = << >>
        BY <4>2, <4>3, <4>5
      <4>7. \A b \in Byte : (<<b>> \o << >>) \o << >> = <<b>>
        OBVIOUS
      <4> QED BY <4>4, <4>6, <4>7 DEF Frame
    <3> QED BY <1>1, <2>1, <3>1
  <2>2. CASE ~ (Char(r.count) =< 0)
    BY <1>1, <2>2
  <2> QED BY <2>1, <2>2
<1>6. /\ st \in {"sent", "gone"} /\ (st = "sent" => Char(r.count) > 0)
  BY <1>4
<1> HIDE DEF st
<1>7. /\ cst' \in [Clients -> {"off", "connected", "sent", "done", "gone"}]
      /\ in' \in [Clients -> Seq(Byte)] /\ asked' \in [Clients -> AllRequests \cup {None}]
      /\ \A d \in Clients : /\ cst'[d] = IF d = c THEN st ELSE cst[d]
                            /\ in'[d] = IF d = c THEN Frame(r) ELSE in[d]
                            /\ asked'[d] = IF d = c THEN r ELSE asked[d]
  BY <1>1, <1>3, <1>4, <1>5, <1>6 DEF IInv, TypeOK
<1>8. Reading => cfd \in Clients /\ cst[cfd] \in {"sent", "gone"} /\ cfd # c
  BY <1>2 DEF IInv, Inside, Queue, Reading, Serving
<1>9. TypeOK'
  BY <1>2, <1>7 DEF IInv, TypeOK
<1>10. Queue'
  <2>1. \A d \in Clients : cst[d] # "off" => cst'[d] # "off"
    BY <1>6, <1>7
  <2> QED BY <1>2, <2>1 DEF IInv, Queue, Serving
<1>11. Unread'
  <2> SUFFICES ASSUME NEW d \in Clients
               PROVE  /\ cst'[d] \in {"sent", "done"} => Asks(d)' /\ Char(asked'[d].count) > 0
                      /\ Waits(d)' => Fresh(d)'
    BY DEF Unread
  <2>1. /\ cst[d] \in {"sent", "done"} => Asks(d) /\ Char(asked[d].count) > 0
        /\ Waits(d) => Fresh(d)
    BY DEF IInv, Unread
  <2>2. Waits(d)' => Waits(d)
    BY <1>2, <1>6, <1>7 DEF Waits
  <2>3. CASE d = c
    BY <1>2, <1>6, <1>7, <2>1, <2>2, <2>3 DEF Fresh, Asks
  <2>4. CASE d # c
    BY <1>2, <1>7, <2>1, <2>2, <2>4 DEF Fresh, Asks
  <2> QED BY <2>3, <2>4
<1>12. Inside' /\ AsTyped'
  BY <1>2, <1>7, <1>8, ReadingAside
<1>13. Answered'
  <2>1. out[c] = None
    BY <1>2 DEF IInv, Answered
  <2> QED BY <1>2, <1>6, <1>7, <2>1 DEF IInv, Answered
<1>14. AnswerRight'
  BY <1>2, <1>6, <1>7 DEF IInv, AnswerRight
<1> QED BY <1>9, <1>10, <1>11, <1>12, <1>13, <1>14 DEF IInv

(* The user of some client interrupts it.                                    *)
LEMMA HangUpKeeps ==
  ASSUME IInv, NEW c \in Clients, HangUp(c)
  PROVE  IInv'
<1>1. /\ cst[c] \in {"connected", "sent"}
      /\ UNCHANGED <<spc, cfd, opCount, operand, operator, opResult, i, backlog, in, out, asked,
                     answer, whole>>
  BY DEF HangUp, serverData
<1>2. /\ cst' \in [Clients -> {"off", "connected", "sent", "done", "gone"}]
      /\ \A d \in Clients : cst'[d] = IF d = c THEN "gone" ELSE cst[d]
  BY DEF HangUp, IInv, TypeOK
<1>3. Reading => cfd \in Clients /\ cst[cfd] \in {"sent", "gone"}
  BY DEF IInv, Inside, Queue, Reading, Serving
<1>4. TypeOK'
  BY <1>1, <1>2 DEF IInv, TypeOK
<1>5. Queue'
  <2>1. \A d \in Clients : cst[d] # "off" => cst'[d] # "off"
    BY <1>2
  <2> QED BY <1>1, <2>1 DEF IInv, Queue, Serving
<1>6. Unread'
  <2> SUFFICES ASSUME NEW d \in Clients
               PROVE  /\ cst'[d] \in {"sent", "done"} => Asks(d)' /\ Char(asked'[d].count) > 0
                      /\ Waits(d)' => Fresh(d)'
    BY DEF Unread
  <2>1. /\ cst[d] \in {"sent", "done"} => Asks(d) /\ Char(asked[d].count) > 0
        /\ Waits(d) => Fresh(d)
    BY DEF IInv, Unread
  <2>2. Waits(d)' => Waits(d)
    BY <1>1, <1>2 DEF Waits
  <2>3. CASE d = c
    BY <1>1, <1>2, <2>1, <2>2, <2>3 DEF Fresh, Asks
  <2>4. CASE d # c
    BY <1>1, <1>2, <2>1, <2>2, <2>4 DEF Fresh, Asks
  <2> QED BY <2>3, <2>4
<1>7. Inside' /\ AsTyped'
  BY <1>1, <1>2, <1>3, ReadingAside
<1>8. Answered' /\ AnswerRight'
  BY <1>1, <1>2 DEF IInv, Answered, AnswerRight
<1> QED BY <1>4, <1>5, <1>6, <1>7, <1>8 DEF IInv

(* Some client reads its answer, or is reset.                                *)
LEMMA ReceiveKeeps ==
  ASSUME IInv, NEW c \in Clients, Receive(c)
  PROVE  IInv'
<1>1. /\ cst[c] = "sent" /\ (out[c] # None \/ spc = "stopped")
      /\ UNCHANGED <<spc, cfd, opCount, operand, operator, opResult, i, backlog, in, out, asked, whole>>
  BY DEF Receive, serverData
<1>2. /\ cst' \in [Clients -> {"off", "connected", "sent", "done", "gone"}]
      /\ \A d \in Clients : cst'[d] = IF d = c THEN "done" ELSE cst[d]
  BY DEF Receive, IInv, TypeOK
<1>3. PICK v \in IF out[c] = None THEN {Garbage}
                ELSE {out[c].value} \cup (IF out[c].reset THEN {Garbage} ELSE {}) :
        answer' = [answer EXCEPT ![c] = v]
  BY DEF Receive
<1>4. v \in Int \cup {None, Garbage}
  BY <1>3 DEF IInv, TypeOK
<1>5. /\ answer' \in [Clients -> Int \cup {None, Garbage}]
      /\ \A d \in Clients : answer'[d] = IF d = c THEN v ELSE answer[d]
  BY <1>3, <1>4 DEF IInv, TypeOK
<1>6. Reading => cfd \in Clients /\ cst[cfd] \in {"sent", "gone"} /\ cfd # c
  BY <1>1 DEF IInv, Inside, Queue, Reading, Serving
<1>7. TypeOK'
  BY <1>1, <1>2, <1>5 DEF IInv, TypeOK
<1>8. Queue'
  <2>1. \A d \in Clients : cst[d] # "off" => cst'[d] # "off"
    BY <1>2
  <2> QED BY <1>1, <2>1 DEF IInv, Queue, Serving
<1>9. Unread'
  <2> SUFFICES ASSUME NEW d \in Clients
               PROVE  /\ cst'[d] \in {"sent", "done"} => Asks(d)' /\ Char(asked'[d].count) > 0
                      /\ Waits(d)' => Fresh(d)'
    BY DEF Unread
  <2>1. /\ cst[d] \in {"sent", "done"} => Asks(d) /\ Char(asked[d].count) > 0
        /\ Waits(d) => Fresh(d)
    BY DEF IInv, Unread
  <2>2. Waits(d)' => Waits(d)
    BY <1>1, <1>2 DEF Waits
  <2>3. CASE d = c
    BY <1>1, <1>2, <2>1, <2>2, <2>3 DEF Fresh, Asks
  <2>4. CASE d # c
    BY <1>1, <1>2, <2>1, <2>2, <2>4 DEF Fresh, Asks
  <2> QED BY <2>3, <2>4
<1>10. Inside' /\ AsTyped'
  BY <1>1, <1>2, <1>6, ReadingAside
<1>11. Answered'
  BY <1>1, <1>2 DEF IInv, Answered
<1>12. AnswerRight'
  <2> SUFFICES ASSUME whole', NEW d \in Clients, cst'[d] = "done"
               PROVE  \/ answer'[d] = Calculate(Expression(asked'[d]))
                      \/ answer'[d] = Garbage /\ out'[d] = None /\ spc' = "stopped"
    BY DEF AnswerRight
  <2>1. CASE d # c
    BY <1>1, <1>2, <1>5, <2>1 DEF IInv, AnswerRight
  <2>2. CASE d = c /\ out[c] = None
    BY <1>1, <1>3, <1>5, <2>2
  <2>3. CASE d = c /\ out[c] # None
    <3> DEFINE val == Calculate(Expression(asked[c]))
    <3>1. out[c] = [value |-> val, reset |-> FALSE]
      BY <1>1, <2>3 DEF IInv, Answered
    <3> HIDE DEF val
    <3>2. v = val
      BY <1>3, <2>3, <3>1
    <3> QED BY <1>1, <1>5, <2>3, <3>2 DEF val
  <2> QED BY <2>1, <2>2, <2>3
<1> QED BY <1>7, <1>8, <1>9, <1>10, <1>11, <1>12 DEF IInv

(* The server takes the first connection of its backlog.                     *)
LEMMA AcceptKeeps ==
  ASSUME IInv, Accept
  PROVE  IInv'
<1>1. /\ spc = "accept" /\ backlog # << >> /\ cfd' = Head(backlog) /\ backlog' = Tail(backlog)
      /\ spc' = "count"
      /\ UNCHANGED <<opCount, operand, operator, opResult, i, in, out, cst, asked, answer, whole>>
  BY DEF Accept, serverData, clientVars
<1>2. backlog \in Seq(Clients) /\ Distinct(backlog)
  BY DEF IInv, TypeOK, Queue
<1>3. /\ cfd' \in Clients /\ backlog' \in Seq(Clients) /\ Distinct(backlog') /\ Has(backlog, cfd')
      /\ \A d : Has(backlog', d) => Has(backlog, d) /\ d # cfd'
  BY <1>1, <1>2, TailHas
<1>4. TypeOK'
  BY <1>1, <1>3 DEF IInv, TypeOK
<1>5. Queue'
  BY <1>1, <1>3 DEF IInv, Queue, Serving
<1>6. Unread'
  <2> SUFFICES ASSUME NEW d \in Clients
               PROVE  /\ cst'[d] \in {"sent", "done"} => Asks(d)' /\ Char(asked'[d].count) > 0
                      /\ Waits(d)' => Fresh(d)'
    BY DEF Unread
  <2>1. /\ cst[d] \in {"sent", "done"} => Asks(d) /\ Char(asked[d].count) > 0
        /\ Waits(d) => Fresh(d)
    BY DEF IInv, Unread
  <2>2. Waits(d)' => Waits(d)
    BY <1>1, <1>3 DEF Waits
  <2>3. Waits(d) => Fresh(d)'
    BY <1>1, <2>1 DEF Fresh, Asks
  <2> QED BY <1>1, <2>1, <2>2, <2>3 DEF Asks
<1>7. Inside' /\ AsTyped'
  BY <1>1 DEF Inside, AsTyped, Reading
<1>8. Answered' /\ AnswerRight'
  BY <1>1 DEF IInv, Answered, AnswerRight
<1> QED BY <1>4, <1>5, <1>6, <1>7, <1>8 DEF IInv

(* The first read of a request.                                              *)
LEMMA ReadCountKeeps ==
  ASSUME IInv, ReadCount
  PROVE  /\ IInv'
         /\ opCount > 0 /\ spc' = "stopped" => asked[cfd] # None /\ Char(asked[cfd].count) =< 0
<1>1. PICK k \in Lengths(cfd, 1) :
        /\ Taken(cfd, k)
        /\ opCount' = IF k = 0 THEN opCount ELSE Char(in[cfd][1])
  BY DEF ReadCount
<1>2. /\ spc = "count" /\ Readable(cfd)
      /\ spc' = (IF opCount' =< 0 THEN "stopped" ELSE "operand") /\ i' = 0
      /\ UNCHANGED <<cfd, operand, operator, opResult, backlog, out, cst, asked, answer, whole>>
  BY DEF ReadCount, clientVars
<1>3. /\ TypeOK /\ cfd \in Clients /\ cst[cfd] # "off" /\ ~ Has(backlog, cfd)
      /\ Fresh(cfd) /\ (cst[cfd] \in {"sent", "done"} => Asks(cfd) /\ Char(asked[cfd].count) > 0)
  BY <1>2 DEF IInv, Queue, Unread, Serving, Waits
<1>4. /\ k \in 0 .. Len(in[cfd]) /\ k =< 1 /\ (in[cfd] # << >> => k >= 1)
      /\ SubSeq(in[cfd], k + 1, Len(in[cfd])) \in Seq(Byte)
  BY <1>3, ReadLengths
<1>5. /\ in' \in [Clients -> Seq(Byte)] /\ in'[cfd] = SubSeq(in[cfd], k + 1, Len(in[cfd]))
      /\ \A d \in Clients : d # cfd => in'[d] = in[d]
  BY <1>1, <1>3, <1>4 DEF Taken, TypeOK
<1>6. in[cfd] \in Seq(Byte) /\ MaxChar \in Nat
  <2>1. 0 \in Int
    OBVIOUS
  <2>2. MaxChar \in Nat
    BY ONLY <2>1, CalcFrameAssumption, WordBitsAssumption, Chars
  <2> QED BY <1>3, <2>2 DEF TypeOK
<1>7. cst[cfd] \in {"sent", "gone"}
  BY <1>2, <1>3 DEF Fresh, TypeOK, Readable
<1>8. in[cfd] # << >> => /\ Asks(cfd) /\ in[cfd] = Frame(asked[cfd]) /\ k = 1
                         /\ opCount' = Char(asked[cfd].count)
                         /\ opCount' \in -(MaxChar + 1) .. MaxChar
  <2> SUFFICES ASSUME in[cfd] # << >>
               PROVE  /\ Asks(cfd) /\ in[cfd] = Frame(asked[cfd]) /\ k = 1
                      /\ opCount' = Char(asked[cfd].count)
                      /\ opCount' \in -(MaxChar + 1) .. MaxChar
    OBVIOUS
  <2>1. Asks(cfd) /\ in[cfd] = Frame(asked[cfd])
    BY <1>3, <1>7 DEF Fresh
  <2>2. k = 1
    BY <1>4, <1>6
  <2>3. IsRequest(asked[cfd])
    BY <1>3, <2>1, Asked
  <2>4. Char(Frame(asked[cfd])[1]) = Char(asked[cfd].count) /\ Char(asked[cfd].count) \in -(MaxChar + 1) .. MaxChar
    BY <2>3, Framed
  <2> QED BY <1>1, <2>1, <2>2, <2>4
<1>9. in[cfd] = << >> => opCount' = opCount /\ cst[cfd] = "gone"
  <2> SUFFICES ASSUME in[cfd] = << >> PROVE opCount' = opCount /\ cst[cfd] = "gone"
    OBVIOUS
  <2>1. k = 0
    BY <1>4
  <2>2. cst[cfd] = "gone"
    BY <1>2 DEF Readable
  <2> QED BY <1>1, <2>1, <2>2
<1>10. opCount' \in -(MaxChar + 1) .. MaxChar
  BY <1>3, <1>8, <1>9 DEF TypeOK
<1>11. TypeOK'
  BY <1>2, <1>3, <1>5, <1>10 DEF TypeOK
<1>12. Queue'
  BY <1>2, <1>3 DEF IInv, Queue, Serving
<1>13. Unread'
  <2> SUFFICES ASSUME NEW d \in Clients
               PROVE  /\ cst'[d] \in {"sent", "done"} => Asks(d)' /\ Char(asked'[d].count) > 0
                      /\ Waits(d)' => Fresh(d)'
    BY DEF Unread
  <2>1. /\ cst[d] \in {"sent", "done"} => Asks(d) /\ Char(asked[d].count) > 0
        /\ Waits(d) => Fresh(d)
    BY DEF IInv, Unread
  <2>2. Waits(d)' => Waits(d) /\ d # cfd
    BY <1>2, <1>3 DEF Waits
  <2>3. d # cfd => in'[d] = in[d]
    BY <1>5
  <2>4. Waits(d)' => Fresh(d)'
    BY <1>2, <2>1, <2>2, <2>3 DEF Fresh, Asks
  <2> QED BY <1>2, <2>1, <2>4 DEF Asks
<1>14. Inside' /\ AsTyped'
  <2> SUFFICES ASSUME Reading' PROVE Inside' /\ AsTyped'
    BY DEF Inside, AsTyped
  <2>1. spc' = "operand" /\ opCount' \in 1 .. MaxChar
    <3>1. ~ (opCount' =< 0) /\ spc' = "operand"
      BY <1>2 DEF Reading
    <3> QED BY <1>6, <1>10, <3>1
  <2>2. Position' = 1
    <3>1. IntBytes \in Nat
      BY CalcFrameAssumption
    <3>2. i' = 0
      BY <1>2
    <3> QED BY ONLY <2>1, <3>1, <3>2 DEF Position
  <2>3. cfd' = cfd /\ asked' = asked /\ cst' = cst /\ out' = out /\ i' = 0 /\ out[cfd] = None
    BY <1>2, <1>3 DEF Fresh
  <2>4. cst[cfd] = "sent" => opCount' = asked[cfd].count /\ in'[cfd] = Rest(Frame(asked[cfd]), 1)
                             /\ Len(in'[cfd]) = Len(Frame(asked[cfd])) - 1
    <3> SUFFICES ASSUME cst[cfd] = "sent"
                 PROVE  /\ opCount' = asked[cfd].count /\ in'[cfd] = Rest(Frame(asked[cfd]), 1)
                        /\ Len(in'[cfd]) = Len(Frame(asked[cfd])) - 1
      OBVIOUS
    <3>1. in[cfd] # << >>
      BY <1>9
    <3>2. IsRequest(asked[cfd]) /\ Char(asked[cfd].count) > 0
      BY <1>3, <1>8, <3>1, Asked
    <3>3. Char(asked[cfd].count) = asked[cfd].count
      BY <3>2, Valued
    <3>4. in'[cfd] = Rest(Frame(asked[cfd]), 1)
      BY <1>5, <1>8, <3>1 DEF Rest
    <3>5. Frame(asked[cfd]) \in Seq(Byte) /\ 1 \in 0 .. Len(Frame(asked[cfd]))
      BY <3>2, Framed
    <3>6. Len(Rest(Frame(asked[cfd]), 1)) = Len(Frame(asked[cfd])) - 1
      BY <3>5, RestOf
    <3> QED BY <1>8, <3>1, <3>3, <3>4, <3>6
  <2>5. Inside'
    <3>1. 0 \in 0 .. opCount' - 1
      <4>1. \A m \in Nat : \A x \in 1 .. m : 0 \in 0 .. x - 1
        OBVIOUS
      <4> QED BY ONLY <1>6, <2>1, <4>1, Zenon
    <3>2. cst[cfd] = "sent" => Len(in'[cfd]) >= Len(Frame(asked[cfd])) - 1
      <4>1. cst[cfd] = "sent" => in'[cfd] \in Seq(Byte)
        BY <1>3, <1>5
      <4> QED BY <2>4, <4>1
    <3> QED BY <1>7, <2>1, <2>2, <2>3, <2>4, <3>1, <3>2 DEF Inside
  <2>6. AsTyped'
    <3>1. 1 .. i' = {}
      BY <2>3
    <3> QED BY <2>1, <2>2, <2>3, <2>4, <3>1 DEF AsTyped
  <2> QED BY <2>5, <2>6
<1>15. Answered' /\ AnswerRight'
  BY <1>2 DEF IInv, Answered, AnswerRight
<1>16. opCount > 0 /\ spc' = "stopped" => asked[cfd] # None /\ Char(asked[cfd].count) =< 0
  <2> SUFFICES ASSUME opCount > 0, spc' = "stopped" PROVE asked[cfd] # None /\ Char(asked[cfd].count) =< 0
    OBVIOUS
  <2>1. opCount' =< 0
    BY <1>2
  <2>2. in[cfd] # << >>
    BY <1>3, <1>9, <2>1 DEF TypeOK
  <2> QED BY <1>3, <1>8, <2>1, <2>2, Asked
<1> QED BY <1>11, <1>12, <1>13, <1>14, <1>15, <1>16 DEF IInv

-----------------------------------------------------------------------------
(* A read inside a request: of what is left, and of what stays as it was.    *)
LEMMA ReadFrame ==
  ASSUME IInv, Reading, NEW n \in Nat \ {0}, NEW k \in Lengths(cfd, n), Taken(cfd, k),
         UNCHANGED <<cfd, opCount, backlog, out, cst, asked, answer, whole>>,
         spc' \in {"operand", "operator"}
  PROVE  /\ cfd \in Clients /\ k \in 0 .. Len(in[cfd]) /\ k =< n
         /\ whole /\ Len(in[cfd]) >= n => k = n
         /\ \A b \in 1 .. k : in[cfd][b] \in Byte
         /\ in' \in [Clients -> Seq(Byte)] /\ in'[cfd] = SubSeq(in[cfd], k + 1, Len(in[cfd]))
         /\ Len(in'[cfd]) = Len(in[cfd]) - k
         /\ Queue' /\ Unread' /\ Answered' /\ AnswerRight'
<1>1. TypeOK /\ cfd \in Clients /\ cst[cfd] # "off" /\ ~ Has(backlog, cfd)
  BY DEF IInv, Queue, Reading, Serving
<1>2. /\ k \in 0 .. Len(in[cfd]) /\ k =< n /\ (whole /\ Len(in[cfd]) >= n => k = n)
      /\ SubSeq(in[cfd], k + 1, Len(in[cfd])) \in Seq(Byte)
      /\ Len(SubSeq(in[cfd], k + 1, Len(in[cfd]))) = Len(in[cfd]) - k
      /\ \A b \in 1 .. k : in[cfd][b] \in Byte
  BY <1>1, ReadLengths
<1>3. /\ in' \in [Clients -> Seq(Byte)] /\ in'[cfd] = SubSeq(in[cfd], k + 1, Len(in[cfd]))
      /\ \A d \in Clients : d # cfd => in'[d] = in[d]
  BY <1>1, <1>2 DEF Taken, TypeOK
<1>4. Queue'
  BY DEF IInv, Queue, Serving, Reading
<1>5. Unread'
  <2> SUFFICES ASSUME NEW d \in Clients
               PROVE  /\ cst'[d] \in {"sent", "done"} => Asks(d)' /\ Char(asked'[d].count) > 0
                      /\ Waits(d)' => Fresh(d)'
    BY DEF Unread
  <2>1. /\ cst[d] \in {"sent", "done"} => Asks(d) /\ Char(asked[d].count) > 0
        /\ Waits(d) => Fresh(d)
    BY DEF IInv, Unread
  <2>2. Waits(d)' => Waits(d) /\ d # cfd
    BY <1>1 DEF Waits
  <2>3. spc # "stopped" /\ (d # cfd => in'[d] = in[d])
    BY <1>3 DEF Reading
  <2>4. Waits(d)' => Fresh(d)'
    BY <2>1, <2>2, <2>3 DEF Fresh, Asks
  <2> QED BY <2>1, <2>4 DEF Asks
<1>6. Answered' /\ AnswerRight'
  BY DEF IInv, Answered, AnswerRight, Reading
<1> QED BY <1>1, <1>2, <1>3, <1>4, <1>5, <1>6

(* The frame being read, when nobody has hung up.                            *)
LEMMA Underway ==
  ASSUME IInv, Reading, cst[cfd] = "sent"
  PROVE  LET r == asked[cfd]
         IN /\ Fields(r, opCount) /\ Worth(r, opCount) /\ Frame(r) \in Seq(Byte)
            /\ opCount \in 1 .. MaxChar /\ i \in 0 .. opCount - 1
            /\ Len(in[cfd]) >= Len(Frame(r)) - Position
            /\ in[cfd] \in Seq(Byte)
<1>1. /\ cfd \in Clients /\ opCount = asked[cfd].count /\ opCount \in 1 .. MaxChar /\ i \in 0 .. opCount - 1
      /\ Len(in[cfd]) >= Len(Frame(asked[cfd])) - Position
  BY DEF IInv, Inside, Queue, Reading, Serving
<1>2. Asks(cfd) /\ Char(asked[cfd].count) > 0
  BY <1>1 DEF IInv, Unread
<1>3. IsRequest(asked[cfd])
  BY <1>1, <1>2, Asked
<1>4. Fields(asked[cfd], asked[cfd].count) /\ Worth(asked[cfd], asked[cfd].count)
  BY <1>2, <1>3, Valued
<1>5. Frame(asked[cfd]) \in Seq(Byte)
  BY <1>3, Framed
<1>6. in[cfd] \in Seq(Byte)
  BY <1>1 DEF IInv, TypeOK
<1> QED BY <1>1, <1>4, <1>5, <1>6

(* What is behind a place in the frame, and how far on the next field is.    *)
LEMMA Places ==
  ASSUME NEW r, NEW n, Fields(r, n), NEW k \in 0 .. n - 1
  PROVE  /\ n \in Nat /\ k * IntBytes \in Nat /\ (k + 1) * IntBytes = k * IntBytes + IntBytes
         /\ IntBytes \in Nat \ {0} /\ n * IntBytes \in Nat
         /\ n * IntBytes - k * IntBytes >= n - k /\ (k + 1) * IntBytes =< n * IntBytes
         /\ Len(Frame(r)) = (1 + n * IntBytes) + (n - 1)
<1>1. n \in 1 .. MaxChar /\ n * IntBytes \in Nat /\ Len(Frame(r)) = (1 + n * IntBytes) + (n - 1)
  BY DEF Fields
<1>2. MaxChar \in Nat
  <2>1. 0 \in Int
    OBVIOUS
  <2> QED BY ONLY <2>1, CalcFrameAssumption, WordBitsAssumption, Chars
<1>3. IntBytes \in Nat \ {0}
  BY CalcFrameAssumption
<1>4. \A w \in Nat \ {0} : \A x, y \in Nat : x < y =>
        /\ x * w \in Nat /\ (x + 1) * w = x * w + w /\ y * w - x * w >= y - x
        /\ (x + 1) * w =< y * w
  <2> SUFFICES ASSUME NEW w \in Nat \ {0}, NEW x \in Nat, NEW y \in Nat, x < y
               PROVE  /\ x * w \in Nat /\ (x + 1) * w = x * w + w /\ y * w - x * w >= y - x
                      /\ (x + 1) * w =< y * w
    OBVIOUS
  <2>1. \A d \in Nat : d * w >= d
    OBVIOUS
  <2>2. x * w \in Nat /\ y * w \in Nat /\ (x + 1) * w = x * w + w /\ (y - x) * w = y * w - x * w
    OBVIOUS
  <2>3. y - x \in Nat /\ y - (x + 1) \in Nat /\ (y - (x + 1)) * w = y * w - (x + 1) * w
    OBVIOUS
  <2>4. (y - x) * w >= y - x /\ (y - (x + 1)) * w >= y - (x + 1)
    BY ONLY <2>1, <2>3
  <2> QED BY <2>2, <2>3, <2>4
<1>5. n \in Nat /\ k \in Nat /\ k < n
  BY <1>1, <1>2
<1> QED BY ONLY <1>1, <1>3, <1>4, <1>5

(* Types after a read inside a request.                                      *)
LEMMA TypeKept ==
  ASSUME TypeOK, in' \in [Clients -> Seq(Byte)], spc' \in {"operand", "operator"},
         UNCHANGED <<cfd, opCount, backlog, out, cst, asked, answer, whole>>,
         i' \in Nat, opResult' \in Int, operand' \in [Slots -> [1 .. IntBytes -> Byte]],
         operator' \in [Slots -> Byte]
  PROVE  TypeOK'
BY DEF TypeOK

(* The loop over the operands.                                               *)
LEMMA ReadOperandKeeps ==
  ASSUME IInv, ReadOperand
  PROVE  IInv'
<1>0. IntBytes \in Nat \ {0}
  BY CalcFrameAssumption
<1> DEFINE Put(k, v) == [b \in 1 .. IntBytes |-> IF b =< k THEN in[cfd][b] ELSE v[b]]
<1>1. PICK k \in Lengths(cfd, IntBytes) :
        /\ Taken(cfd, k)
        /\ operand' = [operand EXCEPT ![i+1] = Put(k, operand[i+1])]
  BY DEF ReadOperand
<1>2. /\ spc = "operand" /\ Reading
      /\ IF i + 1 < opCount
           THEN i' = i + 1 /\ UNCHANGED <<spc, opResult>>
           ELSE i' = 0 /\ spc' = "operator" /\ opResult' = IntOf(operand'[1])
      /\ UNCHANGED <<cfd, opCount, operator, backlog, out, cst, asked, answer, whole>>
  BY DEF ReadOperand, clientVars, Reading
<1>3. spc' \in {"operand", "operator"}
  BY <1>2
<1>4. /\ cfd \in Clients /\ k \in 0 .. Len(in[cfd]) /\ k =< IntBytes
      /\ whole /\ Len(in[cfd]) >= IntBytes => k = IntBytes
      /\ \A b \in 1 .. k : in[cfd][b] \in Byte
      /\ in' \in [Clients -> Seq(Byte)] /\ in'[cfd] = SubSeq(in[cfd], k + 1, Len(in[cfd]))
      /\ Len(in'[cfd]) = Len(in[cfd]) - k
      /\ Queue' /\ Unread' /\ Answered' /\ AnswerRight'
  BY <1>0, <1>1, <1>2, <1>3, ReadFrame
<1>5. TypeOK /\ opCount \in 1 .. MaxChar /\ MaxChar \in Nat /\ i \in 0 .. opCount - 1
  <2>1. 0 \in Int
    OBVIOUS
  <2>2. MaxChar \in Nat
    BY ONLY <2>1, CalcFrameAssumption, WordBitsAssumption, Chars
  <2> QED BY <1>2, <2>2 DEF IInv, Inside
<1>6. i + 1 \in Slots /\ 1 \in Slots /\ i + 1 \in 1 .. opCount
  BY <1>5 DEF Slots
<1>7. /\ operand' \in [Slots -> [1 .. IntBytes -> Byte]]
      /\ \A s \in Slots : operand'[s] = IF s = i + 1 THEN Put(k, operand[i+1]) ELSE operand[s]
  <2>1. operand \in [Slots -> [1 .. IntBytes -> Byte]] /\ operand[i+1] \in [1 .. IntBytes -> Byte]
    BY <1>5, <1>6 DEF TypeOK
  <2>2. Put(k, operand[i+1]) \in [1 .. IntBytes -> Byte]
    <3>1. ASSUME NEW b \in 1 .. IntBytes
          PROVE  (IF b =< k THEN in[cfd][b] ELSE operand[i+1][b]) \in Byte
      <4>1. b =< k => b \in 1 .. k
        BY <1>0, <1>4
      <4> QED BY <1>4, <2>1, <4>1
    <3> QED BY <3>1
  <2> HIDE DEF Put
  <2> QED BY <1>1, <2>1, <2>2, ExceptEntry
<1>8. opResult' \in Int /\ i' \in Nat
  <2>1. IntOf(operand'[1]) \in Int
    <3>1. operand'[1] \in [1 .. IntBytes -> Byte]
      BY <1>6, <1>7
    <3>2. \A b \in 1 .. IntBytes : operand'[1][b] \in Int
      BY <3>1, CalcFrameAssumption, WordBitsAssumption, Bytewise
    <3> DEFINE v == operand'[1]
    <3>3. \A b \in 1 .. IntBytes : v[b] \in Int
      BY <3>2
    <3> HIDE DEF v
    <3>4. IntOf(v) \in Int
      BY ONLY <3>3, CalcFrameAssumption, WordBitsAssumption, IntOfInt
    <3> QED BY <3>4 DEF v
  <2> QED BY <1>2, <1>5, <2>1 DEF TypeOK
<1>9. TypeOK'
  <2>1. operator' \in [Slots -> Byte]
    BY <1>2, <1>5 DEF TypeOK
  <2> QED BY <1>2, <1>3, <1>4, <1>5, <1>7, <1>8, <2>1, TypeKept
<1> DEFINE r == asked[cfd]
           w == IntBytes
<1>10. cst[cfd] = "sent" =>
         /\ Fields(r, opCount) /\ Worth(r, opCount) /\ Frame(r) \in Seq(Byte)
         /\ in[cfd] \in Seq(Byte) /\ Len(in[cfd]) >= Len(Frame(r)) - (1 + i * w)
         /\ opCount \in Nat /\ i * w \in Nat /\ (i + 1) * w = i * w + w
         /\ opCount * w \in Nat /\ (i + 1) * w =< opCount * w
         /\ Len(Frame(r)) = (1 + opCount * w) + (opCount - 1)
         /\ Position' = 1 + (i + 1) * w
  <2> SUFFICES ASSUME cst[cfd] = "sent"
               PROVE  /\ Fields(r, opCount) /\ Worth(r, opCount) /\ Frame(r) \in Seq(Byte)
                      /\ in[cfd] \in Seq(Byte) /\ Len(in[cfd]) >= Len(Frame(r)) - (1 + i * w)
                      /\ opCount \in Nat /\ i * w \in Nat /\ (i + 1) * w = i * w + w
                      /\ opCount * w \in Nat /\ (i + 1) * w =< opCount * w
                      /\ Len(Frame(r)) = (1 + opCount * w) + (opCount - 1)
                      /\ Position' = 1 + (i + 1) * w
    OBVIOUS
  <2>1. /\ Fields(r, opCount) /\ Worth(r, opCount) /\ Frame(r) \in Seq(Byte)
        /\ in[cfd] \in Seq(Byte) /\ Len(in[cfd]) >= Len(Frame(r)) - Position
    BY <1>2, Underway
  <2>2. Position = 1 + i * w
    BY <1>2 DEF Position
  <2>3. /\ opCount \in Nat /\ i * w \in Nat /\ (i + 1) * w = i * w + w
        /\ opCount * w \in Nat /\ (i + 1) * w =< opCount * w
        /\ Len(Frame(r)) = (1 + opCount * w) + (opCount - 1)
    BY <1>5, <2>1, Places
  <2>4. Position' = 1 + (i + 1) * w
    <3>1. CASE i + 1 < opCount
      BY <1>2, <3>1 DEF Position
    <3>2. CASE ~ (i + 1 < opCount)
      <4>1. i' = 0 /\ spc' = "operator" /\ opCount' = opCount /\ i + 1 = opCount
        BY <1>2, <1>5, <3>2
      <4>2. Position' = (1 + opCount * w) + 0
        BY <4>1 DEF Position
      <4> QED BY <2>3, <4>1, <4>2
    <3> QED BY <3>1, <3>2
  <2> QED BY <2>1, <2>2, <2>3, <2>4
<1>11. Inside'
  <2>1. /\ cst[cfd] \in {"sent", "gone"} /\ out[cfd] = None
        /\ cst[cfd] = "sent" => opCount = r.count
    BY <1>2 DEF IInv, Inside
  <2>2. i' \in 0 .. opCount - 1
    BY <1>2, <1>5
  <2>3. cst[cfd] = "sent" => Len(in'[cfd]) >= Len(Frame(r)) - Position'
    <3> SUFFICES ASSUME cst[cfd] = "sent" PROVE Len(in'[cfd]) >= Len(Frame(r)) - Position'
      OBVIOUS
    <3> DEFINE a == Len(in[cfd])
               f == Len(Frame(r))
               x == i * w
               y == (i + 1) * w
    <3>1. /\ a \in Nat /\ f \in Nat /\ a >= f - (1 + x) /\ x \in Nat /\ y = x + w /\ w \in Nat
          /\ k \in 0 .. a /\ k =< w /\ Len(in'[cfd]) = a - k /\ Position' = 1 + y
      <4>1. in[cfd] \in Seq(Byte) /\ Frame(r) \in Seq(Byte)
        BY <1>10
      <4>2. a \in Nat /\ f \in Nat
        BY ONLY <4>1
      <4>3. a >= f - (1 + x) /\ x \in Nat /\ y = x + w /\ Position' = 1 + y
        BY <1>10
      <4>4. k \in 0 .. a /\ k =< w /\ Len(in'[cfd]) = a - k
        BY <1>4
      <4> QED BY <1>0, <4>2, <4>3, <4>4
    <3> HIDE DEF a, f, x, y, w
    <3>2. a - k >= f - (1 + y)
      BY ONLY <3>1
    <3> QED BY <3>1, <3>2 DEF f
  <2> HIDE DEF r
  <2> QED BY <1>2, <1>5, <2>1, <2>2, <2>3 DEF Inside, r
<1>12. AsTyped'
  <2> SUFFICES ASSUME whole, cst[cfd] = "sent", Reading'
               PROVE  /\ in'[cfd] = Rest(Frame(r), Position')
                      /\ \A s \in 1 .. (IF spc' = "operand" THEN i' ELSE opCount) :
                           IntOf(operand'[s]) = r.operand[s]
                      /\ spc' = "operator" => opResult' = Partial(Expression(r))[i']
    BY <1>2 DEF AsTyped
  <2>1. in[cfd] = Rest(Frame(r), 1 + i * w) /\ \A s \in 1 .. i : IntOf(operand[s]) = r.operand[s]
    BY <1>2 DEF IInv, AsTyped, Position
  <2> DEFINE f == Frame(r)
             p == 1 + i * w
  <2>2. /\ p \in 0 .. Len(f) /\ p \in Nat /\ w \in Nat /\ Len(f) >= p + w
        /\ f \in Seq(Byte) /\ p + w = 1 + (i + 1) * w
    <3> DEFINE x == i * w
               y == (i + 1) * w
               z == opCount * w
    <3>1. /\ x \in Nat /\ y = x + w /\ y =< z /\ z \in Nat /\ Len(f) = (1 + z) + (opCount - 1)
          /\ opCount \in Nat /\ opCount >= 1 /\ w \in Nat
      BY <1>0, <1>5, <1>10
    <3>2. f \in Seq(Byte) /\ p = 1 + x
      BY <1>10
    <3> HIDE DEF f, p, x, y, z, w
    <3>3. /\ p \in 0 .. Len(f) /\ p \in Nat /\ w \in Nat /\ Len(f) >= p + w
          /\ p + w = 1 + y
      BY ONLY <3>1, <3>2
    <3> QED BY <3>2, <3>3 DEF y
  <2> HIDE DEF f, p
  <2>3. /\ in[cfd] = Rest(f, p) /\ Len(in[cfd]) = Len(f) - p
        /\ \A b \in 1 .. Len(in[cfd]) : in[cfd][b] = f[p + b]
        /\ \A m \in 0 .. Len(in[cfd]) : SubSeq(in[cfd], m + 1, Len(in[cfd])) = Rest(f, p + m)
    <3>1. in[cfd] = Rest(f, p)
      BY <2>1 DEF f, p
    <3> QED BY <2>2, <3>1, RestOf
  <2>4. k = w /\ w \in 0 .. Len(in[cfd])
    BY <1>4, <2>2, <2>3
  <2>5. in'[cfd] = Rest(f, Position')
    <3>1. Position' = p + w
      BY <1>10, <2>2
    <3>2. in'[cfd] = SubSeq(in[cfd], w + 1, Len(in[cfd]))
      BY <1>4, <2>4
    <3> HIDE DEF w
    <3> QED BY <2>3, <2>4, <3>1, <3>2
  <2>6. IntOf(operand'[i+1]) = r.operand[i+1]
    <3> DEFINE v == operand'[i+1]
    <3>1. \A b \in 1 .. w : v[b] = in[cfd][b]
      BY <1>6, <1>7, <2>4
    <3>2. /\ r.operand[i+1] \in Int /\ Wrap(r.operand[i+1]) = r.operand[i+1]
          /\ \A b \in 1 .. w : f[1 + (((i+1)-1) * w + b)] = Little(r.operand[i+1])[b]
      BY <1>6, <1>10 DEF Fields, f
    <3>3. ASSUME NEW b \in 1 .. w PROVE v[b] = Little(r.operand[i+1])[b]
      <4>1. v[b] = f[p + b]
        BY <2>3, <2>4, <3>1
      <4>2. p + b = 1 + (((i+1)-1) * w + b)
        <5> DEFINE x == i * w
        <5>1. (i + 1) - 1 = i /\ x \in Nat
          BY <1>5, <1>10
        <5>2. p = 1 + x
          BY DEF p
        <5> HIDE DEF x, w
        <5>3. p + b = 1 + (x + b)
          BY <5>1, <5>2
        <5> QED BY <5>1, <5>3 DEF x, w
      <4> QED BY <3>2, <4>1, <4>2
    <3> HIDE DEF v, w
    <3>4. \A b \in 1 .. IntBytes : v[b] = Little(r.operand[i+1])[b]
      BY <3>3 DEF w
    <3>5. IntOf(v) = Wrap(r.operand[i+1])
      BY ONLY <3>2, <3>4, CalcFrameAssumption, WordBitsAssumption, RoundTrip
    <3> QED BY <3>2, <3>5 DEF v
  <2>7. \A s \in 1 .. i + 1 : IntOf(operand'[s]) = r.operand[s]
    <3> SUFFICES ASSUME NEW s \in 1 .. i + 1 PROVE IntOf(operand'[s]) = r.operand[s]
      OBVIOUS
    <3>1. s = i + 1 \/ (s \in 1 .. i /\ s # i + 1 /\ s \in Slots)
      BY <1>5 DEF Slots
    <3>2. CASE s \in 1 .. i /\ s # i + 1 /\ s \in Slots
      BY <1>7, <2>1, <3>2
    <3> QED BY <2>6, <3>1, <3>2
  <2>8. CASE i + 1 < opCount
    <3>1. spc' = "operand" /\ i' = i + 1
      BY <1>2, <2>8
    <3> QED BY <2>5, <2>7, <3>1 DEF f
  <2>9. CASE ~ (i + 1 < opCount)
    <3>1. spc' = "operator" /\ i' = 0 /\ opResult' = IntOf(operand'[1]) /\ i + 1 = opCount
      BY <1>2, <1>5, <2>9
    <3>2. IntOf(operand'[1]) = r.operand[1]
      BY <1>5, <2>7
    <3>3. Partial(Expression(r))[0] = r.operand[1]
      BY <1>10 DEF Worth
    <3> HIDE DEF r
    <3> QED BY <2>5, <2>7, <3>1, <3>2, <3>3 DEF f
  <2> QED BY <2>8, <2>9
<1> QED BY <1>4, <1>9, <1>11, <1>12 DEF IInv

(* The loop over the operators.                                              *)
LEMMA ReadOperatorKeeps ==
  ASSUME IInv, ReadOperator
  PROVE  IInv'
<1>1. PICK k \in Lengths(cfd, 1) :
        /\ Taken(cfd, k)
        /\ operator' = [operator EXCEPT ![i+1] = IF k = 0 THEN @ ELSE in[cfd][1]]
  BY DEF ReadOperator
<1>2. /\ spc = "operator" /\ Reading /\ i < opCount - 1 /\ i' = i + 1 /\ spc' = spc
      /\ opResult' = Wrap(Apply(OpOf(operator'[i+1]), opResult, IntOf(operand[i+2])))
      /\ UNCHANGED <<cfd, opCount, operand, backlog, out, cst, asked, answer, whole>>
  BY DEF ReadOperator, clientVars, Reading
<1>3. spc' \in {"operand", "operator"}
  BY <1>2
<1>4. /\ cfd \in Clients /\ k \in 0 .. Len(in[cfd]) /\ k =< 1
      /\ whole /\ Len(in[cfd]) >= 1 => k = 1
      /\ \A b \in 1 .. k : in[cfd][b] \in Byte
      /\ in' \in [Clients -> Seq(Byte)] /\ in'[cfd] = SubSeq(in[cfd], k + 1, Len(in[cfd]))
      /\ Len(in'[cfd]) = Len(in[cfd]) - k
      /\ Queue' /\ Unread' /\ Answered' /\ AnswerRight'
  <2>1. 1 \in Nat \ {0}
    OBVIOUS
  <2> QED BY <1>1, <1>2, <1>3, <2>1, ReadFrame
<1>5. TypeOK /\ opCount \in 1 .. MaxChar /\ MaxChar \in Nat /\ i \in 0 .. opCount - 1
  <2>1. 0 \in Int
    OBVIOUS
  <2>2. MaxChar \in Nat
    BY ONLY <2>1, CalcFrameAssumption, WordBitsAssumption, Chars
  <2> QED BY <1>2, <2>2 DEF IInv, Inside
<1>6. i + 1 \in Slots /\ i + 2 \in Slots /\ i + 1 \in 1 .. opCount - 1 /\ i + 2 \in 1 .. opCount
  BY <1>2, <1>5 DEF Slots
<1>7. /\ operator' \in [Slots -> Byte]
      /\ k = 1 => operator'[i+1] = in[cfd][1]
  <2>1. operator \in [Slots -> Byte] /\ operator[i+1] \in Byte
    BY <1>5, <1>6 DEF TypeOK
  <2>2. (IF k = 0 THEN operator[i+1] ELSE in[cfd][1]) \in Byte
    BY <1>4, <2>1
  <2> QED BY <1>1, <1>6, <2>1, <2>2, ExceptEntry
<1>8. opResult' \in Int /\ i' \in Nat
  <2> DEFINE v == operand[i+2]
             o == OpOf(operator'[i+1])
             z == Apply(o, opResult, IntOf(v))
  <2>1. \A b \in 1 .. IntBytes : v[b] \in Int
    <3>1. v \in [1 .. IntBytes -> Byte]
      BY <1>5, <1>6 DEF TypeOK
    <3> QED BY <3>1, CalcFrameAssumption, WordBitsAssumption, Bytewise
  <2> HIDE DEF v
  <2>2. IntOf(v) \in Int
    BY ONLY <2>1, CalcFrameAssumption, WordBitsAssumption, IntOfInt
  <2>3. opResult \in Int
    BY <1>5 DEF TypeOK
  <2> HIDE DEF o
  <2>4. z \in Int
    BY <2>2, <2>3 DEF Apply
  <2>5. opResult' = Wrap(z)
    BY <1>2 DEF v, o
  <2> HIDE DEF z
  <2>6. Wrap(z) \in Int
    BY ONLY <2>4, CalcFrameAssumption, WordBitsAssumption, Wrapped
  <2> QED BY <1>2, <1>5, <2>5, <2>6
<1>9. TypeOK'
  <2>1. operand' \in [Slots -> [1 .. IntBytes -> Byte]]
    BY <1>2, <1>5 DEF TypeOK
  <2> QED BY <1>2, <1>3, <1>4, <1>5, <1>7, <1>8, <2>1, TypeKept
<1> DEFINE r == asked[cfd]
           t == 1 + opCount * IntBytes
<1>10. Position = t + i /\ Position' = t + (i + 1)
  BY <1>2 DEF Position
<1>11. cst[cfd] = "sent" =>
         /\ Fields(r, opCount) /\ Worth(r, opCount) /\ Frame(r) \in Seq(Byte)
         /\ in[cfd] \in Seq(Byte) /\ Len(in[cfd]) >= Len(Frame(r)) - (t + i)
         /\ t \in Nat /\ Len(Frame(r)) = t + (opCount - 1)
  <2> SUFFICES ASSUME cst[cfd] = "sent"
               PROVE  /\ Fields(r, opCount) /\ Worth(r, opCount) /\ Frame(r) \in Seq(Byte)
                      /\ in[cfd] \in Seq(Byte) /\ Len(in[cfd]) >= Len(Frame(r)) - (t + i)
                      /\ t \in Nat /\ Len(Frame(r)) = t + (opCount - 1)
    OBVIOUS
  <2>1. /\ Fields(r, opCount) /\ Worth(r, opCount) /\ Frame(r) \in Seq(Byte)
        /\ in[cfd] \in Seq(Byte) /\ Len(in[cfd]) >= Len(Frame(r)) - Position
    BY <1>2, Underway
  <2>2. opCount * IntBytes \in Nat /\ Len(Frame(r)) = (1 + opCount * IntBytes) + (opCount - 1)
    BY <2>1 DEF Fields
  <2> QED BY <1>10, <2>1, <2>2
<1>12. Inside'
  <2>1. /\ cst[cfd] \in {"sent", "gone"} /\ out[cfd] = None
        /\ cst[cfd] = "sent" => opCount = r.count
    BY <1>2 DEF IInv, Inside
  <2>2. i' \in 0 .. opCount - 1
    BY <1>2, <1>5
  <2>3. cst[cfd] = "sent" => Len(in'[cfd]) >= Len(Frame(r)) - Position'
    <3> SUFFICES ASSUME cst[cfd] = "sent" PROVE Len(in'[cfd]) >= Len(Frame(r)) - Position'
      OBVIOUS
    <3>1. in[cfd] \in Seq(Byte) /\ Frame(r) \in Seq(Byte)
      BY <1>11
    <3> DEFINE a == Len(in[cfd])
               f == Len(Frame(r))
    <3>2. a \in Nat /\ f \in Nat
      BY ONLY <3>1
    <3>3. a >= f - (t + i) /\ t \in Nat /\ k \in 0 .. a /\ k =< 1 /\ Len(in'[cfd]) = a - k
      BY <1>4, <1>11
    <3> HIDE DEF a, f, t
    <3>4. a - k >= f - (t + (i + 1))
      BY <1>5, <3>2, <3>3
    <3> QED BY <1>10, <3>3, <3>4 DEF f
  <2> HIDE DEF r
  <2> QED BY <1>2, <1>5, <2>1, <2>2, <2>3 DEF Inside, r
<1>13. AsTyped'
  <2> SUFFICES ASSUME whole, cst[cfd] = "sent", Reading'
               PROVE  /\ in'[cfd] = Rest(Frame(r), Position')
                      /\ \A s \in 1 .. opCount : IntOf(operand[s]) = r.operand[s]
                      /\ opResult' = Partial(Expression(r))[i+1]
    BY <1>2 DEF AsTyped
  <2> DEFINE f == Frame(r)
             p == t + i
             e == Partial(Expression(r))
  <2>1. /\ in[cfd] = Rest(f, p) /\ opResult = e[i]
        /\ \A s \in 1 .. opCount : IntOf(operand[s]) = r.operand[s]
    BY <1>2, <1>10 DEF IInv, AsTyped
  <2>2. p \in Nat /\ Len(f) >= p + 1 /\ p \in 0 .. Len(f) /\ f \in Seq(Byte) /\ p + 1 = t + (i + 1)
    <3>1. t \in Nat /\ Len(f) = t + (opCount - 1) /\ f \in Seq(Byte)
      BY <1>11
    <3> HIDE DEF t, f
    <3> QED BY <1>2, <1>5, <3>1
  <2>3. f[p + 1] = r.operator[i+1]
    <3>1. f[t + (i + 1)] = r.operator[i+1]
      BY <1>6, <1>11 DEF Fields
    <3> QED BY <2>2, <3>1
  <2>4. e[i+1] = Wrap(Apply(OpOf(r.operator[i+1]), e[(i+1)-1], r.operand[(i+1)+1]))
    BY <1>6, <1>11 DEF Worth
  <2>5. (i + 1) - 1 = i /\ (i + 1) + 1 = i + 2
    BY <1>5
  <2> HIDE DEF f, p, e, t
  <2>6. /\ Len(in[cfd]) = Len(f) - p
        /\ \A b \in 1 .. Len(in[cfd]) : in[cfd][b] = f[p + b]
        /\ \A m \in 0 .. Len(in[cfd]) : SubSeq(in[cfd], m + 1, Len(in[cfd])) = Rest(f, p + m)
    BY <2>1, <2>2, RestOf
  <2>7. k = 1 /\ 1 \in 0 .. Len(in[cfd]) /\ 1 \in 1 .. Len(in[cfd])
    BY <1>4, <2>2, <2>6
  <2>8. in'[cfd] = Rest(f, Position')
    <3>1. Position' = p + 1
      BY <1>10, <2>2
    <3>2. in'[cfd] = SubSeq(in[cfd], 1 + 1, Len(in[cfd]))
      BY <1>4, <2>7
    <3> QED BY <2>6, <2>7, <3>1, <3>2
  <2>9. operator'[i+1] = r.operator[i+1]
    BY <1>7, <2>3, <2>6, <2>7
  <2>10. opResult' = e[i+1]
    <3>1. IntOf(operand[i+2]) = r.operand[i+2]
      BY <1>6, <2>1
    <3> QED BY <1>2, <2>1, <2>4, <2>5, <2>9, <3>1
  <2> QED BY <2>1, <2>8, <2>10 DEF f, e
<1> QED BY <1>4, <1>9, <1>12, <1>13 DEF IInv

(* The answer.                                                               *)
LEMMA ReplyKeeps ==
  ASSUME IInv, Reply
  PROVE  IInv'
<1>1. /\ spc = "operator" /\ Reading /\ i = opCount - 1 /\ spc' = "accept"
      /\ out' = [out EXCEPT ![cfd] = [value |-> opResult, reset |-> in[cfd] # << >>]]
      /\ UNCHANGED <<cfd, opCount, operand, operator, opResult, i, backlog, in, cst, asked, answer, whole>>
  BY DEF Reply, serverData, clientVars, Reading
<1>2. TypeOK /\ cfd \in Clients /\ ~ Has(backlog, cfd) /\ cst[cfd] \in {"sent", "gone"}
  BY <1>1 DEF IInv, Queue, Inside, Reading, Serving
<1>3. /\ out' \in [Clients -> [value : Int, reset : BOOLEAN] \cup {None}]
      /\ \A d \in Clients : out'[d] = IF d = cfd THEN [value |-> opResult, reset |-> in[cfd] # << >>]
                                                 ELSE out[d]
  <2>1. opResult \in Int /\ out \in [Clients -> [value : Int, reset : BOOLEAN] \cup {None}]
    BY <1>2 DEF TypeOK
  <2>2. [value |-> opResult, reset |-> in[cfd] # << >>] \in [value : Int, reset : BOOLEAN] \cup {None}
    BY <2>1
  <2> QED BY <1>1, <2>1, <2>2, ExceptEntry
<1>4. TypeOK'
  BY <1>1, <1>2, <1>3 DEF TypeOK
<1>5. Queue'
  BY <1>1 DEF IInv, Queue, Serving
<1>6. Unread'
  <2> SUFFICES ASSUME NEW d \in Clients
               PROVE  /\ cst'[d] \in {"sent", "done"} => Asks(d)' /\ Char(asked'[d].count) > 0
                      /\ Waits(d)' => Fresh(d)'
    BY DEF Unread
  <2>1. /\ cst[d] \in {"sent", "done"} => Asks(d) /\ Char(asked[d].count) > 0
        /\ Waits(d) => Fresh(d)
    BY DEF IInv, Unread
  <2>2. Waits(d)' => Waits(d) /\ d # cfd
    BY <1>1, <1>2 DEF Waits
  <2>3. Waits(d)' => Fresh(d)'
    BY <1>1, <1>3, <2>1, <2>2 DEF Fresh, Asks
  <2> QED BY <1>1, <2>1, <2>3 DEF Asks
<1>7. Inside' /\ AsTyped'
  BY <1>1 DEF Inside, AsTyped, Reading
<1>8. whole /\ cst[cfd] = "sent" =>
        opResult = Calculate(Expression(asked[cfd])) /\ in[cfd] = << >>
  <2> SUFFICES ASSUME whole, cst[cfd] = "sent"
               PROVE  opResult = Calculate(Expression(asked[cfd])) /\ in[cfd] = << >>
    OBVIOUS
  <2> DEFINE f == Frame(asked[cfd])
             t == 1 + opCount * IntBytes
  <2>1. /\ in[cfd] = Rest(f, Position) /\ opResult = Partial(Expression(asked[cfd]))[opCount - 1]
        /\ Position = t + (opCount - 1)
    BY <1>1 DEF IInv, AsTyped, Position
  <2>2. Fields(asked[cfd], opCount) /\ Worth(asked[cfd], opCount) /\ f \in Seq(Byte)
    BY <1>1, Underway
  <2>3. Len(f) = t + (opCount - 1)
    BY <2>2 DEF Fields
  <2>4. opResult = Calculate(Expression(asked[cfd]))
    BY <2>1, <2>2 DEF Worth
  <2> HIDE DEF f, t
  <2>5. in[cfd] = << >>
    <3>1. Position = Len(f) /\ Len(f) \in 0 .. Len(f) /\ Len(f) \in Nat
      BY <2>1, <2>2, <2>3
    <3>2. Rest(f, Len(f)) \in Seq(Byte) /\ Len(Rest(f, Len(f))) = Len(f) - Len(f)
      BY <2>2, <3>1, RestOf
    <3>3. \A q \in Seq(Byte) : Len(q) = 0 => q = << >>
      OBVIOUS
    <3> QED BY <2>1, <3>1, <3>2, <3>3
  <2> QED BY <2>4, <2>5
<1>9. Answered'
  <2> SUFFICES ASSUME NEW d \in Clients
               PROVE  /\ cst'[d] \in {"off", "connected"} => out'[d] = None
                      /\ whole' /\ cst'[d] = "sent" /\ out'[d] # None =>
                           out'[d] = [value |-> Calculate(Expression(asked'[d])), reset |-> FALSE]
    BY DEF Answered
  <2>1. CASE d = cfd
    BY <1>1, <1>2, <1>3, <1>8, <2>1
  <2>2. CASE d # cfd
    BY <1>1, <1>3, <2>2 DEF IInv, Answered
  <2> QED BY <2>1, <2>2
<1>10. AnswerRight'
  <2> SUFFICES ASSUME whole', NEW d \in Clients, cst'[d] = "done"
               PROVE  \/ answer'[d] = Calculate(Expression(asked'[d]))
                      \/ answer'[d] = Garbage /\ out'[d] = None /\ spc' = "stopped"
    BY DEF AnswerRight
  <2> QED BY <1>1 DEF IInv, AnswerRight
<1> QED BY <1>4, <1>5, <1>6, <1>7, <1>9, <1>10 DEF IInv

-----------------------------------------------------------------------------
(* Every action keeps the invariant: those of the server, then the clients'. *)
LEMMA NextInv == IInv /\ [Next]_vars => IInv'
<1> SUFFICES ASSUME IInv, [Next]_vars PROVE IInv'
  OBVIOUS
<1>1. CASE Accept  BY <1>1, AcceptKeeps
<1>2. CASE ReadCount  BY <1>2, ReadCountKeeps
<1>3. CASE ReadOperand  BY <1>3, ReadOperandKeeps
<1>4. CASE ReadOperator  BY <1>4, ReadOperatorKeeps
<1>5. CASE Reply  BY <1>5, ReplyKeeps
<1>6. ASSUME NEW c \in Clients, Client(c) PROVE IInv'
  BY <1>6, ConnectKeeps, SendKeeps, HangUpKeeps, ReceiveKeeps DEF Client
<1>7. CASE UNCHANGED vars
  BY <1>7 DEF vars, serverData, clientVars, IInv, TypeOK, Queue, Unread, Inside, AsTyped, Answered,
     AnswerRight, Serving, Reading, Waits, Fresh, Asks, Position
<1> QED BY <1>1, <1>2, <1>3, <1>4, <1>5, <1>6, <1>7 DEF Next, Server

(* The invariant of the server, its clients and the bytes between them.      *)
THEOREM TcpInductive == Spec => []IInv
<1> QED BY InitInv, NextInv, PTL DEF Spec

(* What a client prints is the value of what its user typed, if requests     *)
(* arrive whole and the server has not stopped: whatever earlier clients     *)
(* left in opCount, operand and operator, which are never cleared.           *)
THEOREM TcpAnswersCorrect == Spec => []AnswerRight
<1>1. IInv => AnswerRight  BY DEF IInv
<1> QED BY <1>1, TcpInductive, PTL

(* However a request is cut into pieces, its reads never ask for more than   *)
(* its client has sent: they end before the frame does.                      *)
THEOREM NeverWaitsCorrect == Spec => []NeverWaitsInside
<1>1. IInv => NeverWaitsInside
  <2> SUFFICES ASSUME IInv, Reading, cst[cfd] = "sent"
               PROVE  Len(in[cfd]) >= IF spc = "operand" THEN 2 * opCount - 1 - i ELSE opCount - 1 - i
    BY DEF NeverWaitsInside, Reading
  <2> DEFINE r == asked[cfd]
             f == Len(Frame(r))
             a == Len(in[cfd])
             x == i * IntBytes
             z == opCount * IntBytes
  <2>1. /\ Fields(r, opCount) /\ opCount \in 1 .. MaxChar /\ i \in 0 .. opCount - 1
        /\ a >= f - Position /\ in[cfd] \in Seq(Byte)
    BY Underway
  <2>2. /\ opCount \in Nat /\ x \in Nat /\ z \in Nat /\ z - x >= opCount - i
        /\ f = (1 + z) + (opCount - 1)
    BY <2>1, Places
  <2>3. a \in Nat
    BY ONLY <2>1
  <2>4. CASE spc = "operand"
    <3>1. Position = 1 + x
      BY <2>4 DEF Position
    <3> HIDE DEF a, f, x, z
    <3>2. a >= 2 * opCount - 1 - i
      BY ONLY <2>1, <2>2, <2>3, <3>1
    <3> QED BY <2>4, <3>2 DEF a
  <2>5. CASE spc # "operand"
    <3>1. Position = (1 + z) + i
      BY <2>5 DEF Position
    <3> HIDE DEF a, f, x, z
    <3>2. a >= opCount - 1 - i
      BY ONLY <2>1, <2>2, <2>3, <3>1
    <3> QED BY <2>5, <3>2 DEF a
  <2> QED BY <2>4, <2>5
<1> QED BY <1>1, TcpInductive, PTL

(* Action property: once a count was good, the server stops for the client   *)
(* it is serving, and because that client asked for it.                      *)
THEOREM StopsCorrect == Spec => StopsWhenTold
<1>1. IInv /\ [Next]_vars =>
        [opCount > 0 /\ spc' = "stopped" =>
           asked[cfd] # None /\ Char(asked[cfd].count) =< 0]_<<spc, opCount>>
  <2> SUFFICES ASSUME IInv, [Next]_vars, <<spc, opCount>>' # <<spc, opCount>>,
                      opCount > 0, spc' = "stopped"
               PROVE  asked[cfd] # None /\ Char(asked[cfd].count) =< 0
    OBVIOUS
  <2>1. CASE ReadCount
    BY <2>1, ReadCountKeeps
  <2>2. CASE Accept \/ ReadOperand \/ ReadOperator \/ Reply
    BY <2>2 DEF Accept, ReadOperand, ReadOperator, Reply
  <2>3. ASSUME NEW c \in Clients, Client(c) PROVE FALSE
    BY <2>3 DEF Client, Connect, Send, HangUp, Receive, serverData
  <2>4. CASE UNCHANGED vars
    BY <2>4 DEF vars, serverData
  <2> QED BY <2>1, <2>2, <2>3, <2>4 DEF Next, Server
<1> QED BY <1>1, TcpInductive, PTL DEF Spec, StopsWhenTold

-----------------------------------------------------------------------------
(* UDP.  Every datagram under way is the request of a client, which asks     *)
(* once, or the answer to it, on a port no other waiting client of the host  *)
(* has.  With nothing doubled and nobody interrupted a client's datagram is  *)
(* in one of the two sets until the client takes it.                         *)

(* Types of all state.  What operand and opResult hold before a request has  *)
(* set them, and what a client is sent then, is left open.                   *)
UdpTypeOK ==
  /\ up \in BOOLEAN /\ server \in Servers /\ faults \in Faults
  /\ sin_addr \in Hosts \cup {None}
  /\ cst \in [Clients -> {"off", "waiting", "done", "gone"}]
  /\ port \in [Clients -> Ports \cup {None}]
  /\ asked \in [Clients -> AllRequests \cup {None}]
  /\ host \in [Clients -> Hosts]
  /\ answer = [c \in Clients |-> answer[c]]

Started ==
  \A c \in Clients : /\ cst[c] = "off" => asked[c] = None
                     /\ cst[c] # "off" => Asks(c) /\ port[c] \in Ports

OwnPort ==
  \A c, d \in Clients :
    cst[c] = "waiting" /\ cst[d] = "waiting" /\ host[c] = host[d] /\ port[c] = port[d] => c = d

RequestOf(m, c) ==
  /\ c \in Clients /\ cst[c] # "off"
  /\ m = [from |-> c, port |-> port[c], buf |-> Datagram(asked[c])]

AnswerTo(a, c) ==
  /\ c \in Clients /\ cst[c] # "off" /\ a.for = c /\ a.port = port[c]
  /\ server = "final" => a.to = sin_addr
  /\ server # "final" => a.to = host[c]
  /\ Sensible(c) => a.value = Value(c)

OnTheirWay ==
  /\ \A m \in requests : RequestOf(m, m.from)
  /\ \A a \in answers : AnswerTo(a, a.for)

(* On an orderly network who has a datagram under way waits, for that one.   *)
Single == Orderly =>
  /\ \A m \in requests : cst[m.from] = "waiting"
  /\ \A a \in answers : cst[a.for] = "waiting"
  /\ \A m \in requests, a \in answers : m.from # a.for
  /\ \A a, b \in answers : a.for = b.for => a = b

StoppedBy == server = "week4" /\ \E d \in Clients : asked[d] # None /\ Char(asked[d].count) =< 0

Running == up \/ (server = "final" /\ sin_addr = None) \/ StoppedBy

NoneLost == faults = {} =>
  \A c \in Clients : cst[c] = "waiting" /\ Reaches(c) =>
    \/ \E m \in requests : m.from = c
    \/ \E a \in answers : a.for = c
    \/ StoppedBy

UdpInv == /\ UdpTypeOK /\ Started /\ OwnPort /\ OnTheirWay /\ Single /\ Running /\ NoneLost
          /\ OrderlyRight /\ AnswerOfPort

(* Two expressions with the same operators and operands have one value.      *)
LEMMA SameValue ==
  ASSUME NEW e, NEW g, IsExpression(e), IsExpression(g), g.operator = e.operator,
         \A k \in 1 .. Len(e.operator) + 1 : g.operand[k] = e.operand[k]
  PROVE  Calculate(g) = Calculate(e)
<1> DEFINE N == Len(e.operator)
           P == Partial(e)
           Q == Partial(g)
           G == {k \in 0 .. N : Q[k] = P[k]}
<1>1. /\ N \in Nat /\ P[0] = e.operand[1]
      /\ \A k \in 1 .. N : P[k] = Wrap(Apply(e.operator[k], P[k-1], e.operand[k+1]))
  BY Partials DEF IsExpression
<1>2. /\ Q[0] = g.operand[1]
      /\ \A k \in 1 .. N : Q[k] = Wrap(Apply(e.operator[k], Q[k-1], g.operand[k+1]))
  BY Partials
<1>3. Calculate(e) = P[N] /\ Calculate(g) = Q[N]
  BY DEF Calculate
<1> HIDE DEF P, Q, N
<1>4. 0 \in G
  BY <1>1, <1>2 DEF N
<1>5. \A k \in 0 .. N - 1 : k \in G => k + 1 \in G
  <2> SUFFICES ASSUME NEW k \in 0 .. N - 1, Q[k] = P[k] PROVE k + 1 \in G
    OBVIOUS
  <2>1. k + 1 \in 1 .. N /\ (k + 1) - 1 = k /\ (k + 1) + 1 \in 1 .. N + 1 /\ k + 1 \in 0 .. N
    BY <1>1
  <2>2. g.operand[(k + 1) + 1] = e.operand[(k + 1) + 1]
    BY <2>1 DEF N
  <2>3. Q[k + 1] = P[k + 1]
    BY <1>1, <1>2, <2>1, <2>2
  <2> QED BY <2>1, <2>3
<1>6. 0 .. N \subseteq G
  <2>1. G \in SUBSET (0 .. N)
    OBVIOUS
  <2> HIDE DEF G
  <2> QED BY <1>1, <1>4, <1>5, <2>1, LoopInduction
<1> QED BY <1>1, <1>3, <1>6

(* The sign of a count that the server finds in a datagram, and its answer.  *)
LEMMA Counts ==
  ASSUME NEW r, IsRequest(r)
  PROVE  Char(BufAt(Datagram(r), 0)) = Char(r.count) /\ Char(r.count) \in Int
<1>1. /\ Len(Frame(r)) >= 1 /\ Frame(r) \in Seq(Byte) /\ Char(Frame(r)[1]) = Char(r.count)
      /\ Char(r.count) \in -(MaxChar + 1) .. MaxChar
  BY Framed
<1>2. Char(r.count) \in Int
  <2>1. 0 \in Int
    OBVIOUS
  <2>2. MaxChar \in Nat
    BY ONLY <2>1, CalcFrameAssumption, WordBitsAssumption, Chars
  <2> QED BY <1>1, <2>2
<1>3. BufAt(Frame(r), 0) = Frame(r)[1]
  <2> DEFINE f == Frame(r)
  <2>1. Len(f) \in Nat /\ Len(f) >= 1
    BY <1>1
  <2> HIDE DEF f
  <2>2. BufAt(f, 0) = f[1]
    BY <2>1 DEF BufAt
  <2> QED BY <2>2 DEF f
<1>4. CASE r.count = 0
  <2>1. BufAt(<< >>, 0) = 0
    BY DEF BufAt
  <2> QED BY <1>2, <1>4, <2>1 DEF Datagram
<1>5. CASE r.count # 0
  BY <1>1, <1>2, <1>3, <1>5 DEF Datagram
<1> QED BY <1>4, <1>5

(* A request that has a value and whose operators are read gets that value,  *)
(* whatever the requests before have left in the arrays.                     *)
LEMMA ServedValue ==
  ASSUME NEW c \in Clients, Asks(c), Sensible(c)
  PROVE  ResultOf(Datagram(asked[c])) = Value(c)
<1> DEFINE r == asked[c]
           b == Frame(r)
           n == r.count
           e == Expression(r)
           g == Understood(b)
<1>1. IsRequest(r) /\ Char(n) > 0 /\ (server = "misread" => n = 1)
  BY Asked DEF Sensible
<1>2. /\ n \in 1 .. MaxChar /\ Char(n) = n /\ Len(r.operand) = n /\ Len(r.operator) = n - 1
      /\ Parse(b) = e /\ IsExpression(e) /\ Typed(r)
  BY <1>1, ParseFrame
<1>3. MaxChar \in Nat
  <2>1. 0 \in Int
    OBVIOUS
  <2> QED BY ONLY <2>1, CalcFrameAssumption, WordBitsAssumption, Chars
<1>4. n \in Nat /\ n # 0 /\ Datagram(r) = b
  BY <1>2, <1>3 DEF Datagram
<1>5. Char(BufAt(b, 0)) = n
  BY <1>1, <1>2, <1>4, Counts
<1>6. e.operand = r.operand /\ e.operator = [k \in 1 .. n - 1 |-> OpOf(r.operator[k])]
      /\ Len(e.operator) = n - 1
  <2>1. r.operator \in Seq(Byte)
    BY <1>2 DEF Typed
  <2>2. DOMAIN r.operator = 1 .. n - 1
    BY <1>2, <2>1
  <2> HIDE DEF n
  <2> QED BY <1>2, <1>4, <2>2 DEF Expression
<1> HIDE DEF r, b, n, e
<1>7. g.operator = e.operator
  <2> DEFINE at(k) == OpOf((BufAddress + n * IntBytes + k) % Base)
  <2>1. g.operator = IF server = "misread" THEN [k \in 1 .. n - 1 |-> at(k)] ELSE e.operator
    BY <1>2, <1>5 DEF Understood
  <2>2. CASE server = "misread"
    <3>1. 1 .. n - 1 = {}
      BY <1>1, <2>2
    <3> HIDE DEF at
    <3>2. [k \in 1 .. n - 1 |-> at(k)] = [k \in 1 .. n - 1 |-> OpOf(r.operator[k])]
      BY <3>1
    <3> QED BY <1>6, <2>1, <2>2, <3>2
  <2> QED BY <2>1, <2>2
<1>8. \A k \in 1 .. n : g.operand[k] = e.operand[k]
  <2> SUFFICES ASSUME NEW k \in 1 .. n PROVE g.operand[k] = e.operand[k]
    OBVIOUS
  <2>1. k \in Slots /\ k =< n
    BY <1>2, <1>3, <1>4 DEF Slots
  <2>2. g.operand = Stored(b)
    BY DEF Understood
  <2> QED BY <1>2, <1>5, <2>1, <2>2 DEF Stored
<1>9. IsExpression(g) /\ Len(e.operator) + 1 = n
  <2> HIDE DEF g
  <2>1. Len(e.operator) + 1 = n /\ Len(g.operator) = Len(e.operator)
    BY <1>4, <1>6, <1>7
  <2>2. Len(e.operator) \in Nat /\ \A k \in 1 .. n : e.operand[k] \in Int
    BY <1>2, <2>1 DEF IsExpression
  <2> QED BY ONLY <1>8, <2>1, <2>2 DEF IsExpression
<1>10. Calculate(g) = Calculate(e)
  <2> HIDE DEF g
  <2> QED BY <1>2, <1>7, <1>8, <1>9, SameValue
<1> QED BY <1>1, <1>2, <1>4, <1>5, <1>10 DEF ResultOf, Value, r, e

-----------------------------------------------------------------------------
(* No datagram is under way.                                                 *)
LEMMA UdpInitInv == UdpInit => UdpInv
<1> SUFFICES ASSUME UdpInit PROVE UdpInv
  OBVIOUS
<1>1. /\ up = TRUE /\ server \in Servers /\ host \in Homes /\ faults \in Faults
      /\ sin_addr \in (IF server = "final" THEN SinAddr ELSE {None})
      /\ \A c \in Clients : cst[c] = "off" /\ asked[c] = None
      /\ requests = {} /\ answers = {}
      /\ cst = [c \in Clients |-> "off"] /\ port = [c \in Clients |-> None]
      /\ asked = [c \in Clients |-> None] /\ answer = [c \in Clients |-> None]
  BY DEF UdpInit
<1>2. UdpTypeOK
  BY <1>1, UdpCalcAssumption DEF UdpTypeOK
<1>3. Started /\ OwnPort /\ OnTheirWay /\ Single /\ Running /\ NoneLost
  BY <1>1 DEF Started, OwnPort, OnTheirWay, Single, Running, NoneLost
<1>4. OrderlyRight /\ AnswerOfPort
  BY <1>1 DEF OrderlyRight, AnswerOfPort
<1> QED BY <1>2, <1>3, <1>4 DEF UdpInv

(* What is true of a client that has sent stays true.                        *)
LEMMA Stays ==
  ASSUME UNCHANGED <<host, faults, server>>, server = "final" => sin_addr' = sin_addr,
         NEW c, asked'[c] = asked[c], port'[c] = port[c]
  PROVE  /\ Asks(c)' = Asks(c) /\ Sensible(c)' = Sensible(c) /\ Value(c)' = Value(c)
         /\ Reaches(c)' = Reaches(c)
BY DEF Asks, Sensible, Value, Reaches

(* A client sends its request from a port that is free on its host.          *)
LEMMA SendToKeeps ==
  ASSUME UdpInv, NEW c \in Clients, SendTo(c)
  PROVE  UdpInv'
<1>1. PICK r \in Requests[c], p \in Free(host[c]) :
        /\ asked' = [asked EXCEPT ![c] = r] /\ port' = [port EXCEPT ![c] = p]
        /\ requests' = requests \cup {[from |-> c, port |-> p, buf |-> Datagram(r)]}
        /\ cst' = [cst EXCEPT ![c] = IF Char(r.count) < 0 THEN "gone" ELSE "waiting"]
  BY DEF SendTo
<1>2. /\ cst[c] = "off" /\ answers' = answers /\ answer' = answer /\ up' = up /\ sin_addr' = sin_addr
      /\ UNCHANGED <<host, faults, server>>
  BY DEF SendTo, serverVars, environment
<1>3. /\ p \in Ports /\ \A d \in Clients : host[d] = host[c] /\ cst[d] = "waiting" => port[d] # p
  BY DEF Free, Holds
<1>4. r \in AllRequests /\ IsRequest(r) /\ r # None
  BY CalcClientsAssumption DEF AllRequests
<1> DEFINE st == IF Char(r.count) < 0 THEN "gone" ELSE "waiting"
<1>5. st \in {"gone", "waiting"} /\ (Char(r.count) >= 0 => st = "waiting")
  BY <1>4, Counts
<1>6. /\ cst' \in [Clients -> {"off", "waiting", "done", "gone"}]
      /\ port' \in [Clients -> Ports \cup {None}] /\ asked' \in [Clients -> AllRequests \cup {None}]
      /\ \A d \in Clients : /\ cst'[d] = IF d = c THEN st ELSE cst[d]
                            /\ port'[d] = IF d = c THEN p ELSE port[d]
                            /\ asked'[d] = IF d = c THEN r ELSE asked[d]
  BY <1>1, <1>3, <1>4 DEF UdpInv, UdpTypeOK
<1> HIDE DEF st
<1>7. \A d \in Clients : d # c => /\ asked'[d] = asked[d] /\ port'[d] = port[d] /\ cst'[d] = cst[d]
                                  /\ Asks(d)' = Asks(d) /\ Sensible(d)' = Sensible(d)
                                  /\ Value(d)' = Value(d) /\ Reaches(d)' = Reaches(d)
  BY <1>2, <1>6, Stays
<1>8. UdpTypeOK'
  BY <1>2, <1>6 DEF UdpInv, UdpTypeOK
<1>9. Started'
  BY <1>3, <1>5, <1>6, <1>7 DEF UdpInv, Started, Asks
<1>10. OwnPort'
  BY <1>2, <1>3, <1>6 DEF UdpInv, OwnPort
<1> DEFINE new == [from |-> c, port |-> p, buf |-> Datagram(r)]
<1>11. \A m \in requests : /\ RequestOf(m, m.from) /\ m.from # c
                           /\ RequestOf(m, m.from)'
  <2> SUFFICES ASSUME NEW m \in requests
               PROVE  RequestOf(m, m.from) /\ m.from # c /\ RequestOf(m, m.from)'
    OBVIOUS
  <2>1. RequestOf(m, m.from) /\ m.from # c
    BY <1>2 DEF UdpInv, OnTheirWay, RequestOf
  <2> QED BY <1>7, <2>1 DEF RequestOf
<1>12. RequestOf(new, c)' /\ new.from = c
  BY <1>5, <1>6 DEF RequestOf
<1>13. \A a \in answers : AnswerTo(a, a.for) /\ a.for # c /\ AnswerTo(a, a.for)'
  <2> SUFFICES ASSUME NEW a \in answers
               PROVE  AnswerTo(a, a.for) /\ a.for # c /\ AnswerTo(a, a.for)'
    OBVIOUS
  <2>1. AnswerTo(a, a.for) /\ a.for # c
    BY <1>2 DEF UdpInv, OnTheirWay, AnswerTo
  <2> QED BY <1>2, <1>7, <2>1 DEF AnswerTo
<1>14. requests' = requests \cup {new}
  BY <1>1
<1> HIDE DEF new
<1>15. OnTheirWay'
  BY <1>2, <1>11, <1>12, <1>13, <1>14 DEF OnTheirWay
<1>16. Orderly' => Orderly /\ cst'[c] = "waiting"
  BY <1>2, <1>5, <1>6, <1>7 DEF Orderly
<1>17. Single'
  <2> SUFFICES ASSUME Orderly' PROVE Single'
    BY DEF Single
  <2>1. /\ \A m \in requests : cst[m.from] = "waiting" /\ cst'[m.from] = "waiting"
        /\ \A a \in answers : cst[a.for] = "waiting" /\ cst'[a.for] = "waiting"
        /\ \A m \in requests, a \in answers : m.from # a.for
        /\ \A a, b \in answers : a.for = b.for => a = b
    BY <1>7, <1>11, <1>13, <1>16 DEF UdpInv, Single, RequestOf, AnswerTo
  <2> QED BY <1>2, <1>12, <1>13, <1>14, <1>16, <2>1 DEF Single
<1>18. StoppedBy => StoppedBy'
  <2>1. asked[c] = None
    BY <1>2 DEF UdpInv, Started
  <2> QED BY <1>2, <1>7, <2>1 DEF StoppedBy
<1>19. Running'
  BY <1>2, <1>18 DEF UdpInv, Running
<1>20. NoneLost'
  <2> SUFFICES ASSUME faults = {}, NEW d \in Clients, cst'[d] = "waiting", Reaches(d)'
               PROVE  \/ \E m \in requests' : m.from = d
                      \/ \E a \in answers' : a.for = d
                      \/ StoppedBy'
    BY <1>2 DEF NoneLost
  <2>1. CASE d = c
    BY <1>12, <1>14, <2>1
  <2>2. CASE d # c
    BY <1>2, <1>7, <1>14, <1>18, <2>2 DEF UdpInv, NoneLost
  <2> QED BY <2>1, <2>2
<1>21. OrderlyRight'
  BY <1>2, <1>5, <1>6, <1>7, <1>16 DEF UdpInv, OrderlyRight
<1>22. AnswerOfPort'
  <2> SUFFICES ASSUME NEW d \in Clients, cst'[d] = "done"
               PROVE  \E e \in Clients : /\ port'[e] = port'[d] /\ asked'[e] # None
                                         /\ server # "final" => host[e] = host[d]
                                         /\ Sensible(e)' => answer[d] = Value(e)'
    BY <1>2 DEF AnswerOfPort
  <2>1. d # c /\ cst[d] = "done"
    BY <1>5, <1>6
  <2>2. PICK e \in Clients : /\ port[e] = port[d] /\ asked[e] # None
                             /\ server # "final" => host[e] = host[d]
                             /\ Sensible(e) => answer[d] = Value(e)
    BY <2>1 DEF UdpInv, AnswerOfPort
  <2>3. e # c
    BY <1>2, <2>2 DEF UdpInv, Started
  <2> QED BY <1>7, <2>1, <2>2, <2>3
<1> QED BY <1>8, <1>9, <1>10, <1>15, <1>17, <1>19, <1>20, <1>21, <1>22 DEF UdpInv

(* What a waiting client takes came to its host and port.  When the network  *)
(* is orderly, or it was meant for one who waits where it can be reached, it *)
(* is the client's own.                                                      *)
LEMMA RecvFromKeeps ==
  ASSUME UdpInv, NEW c \in Clients, RecvFrom(c)
  PROVE  UdpInv'
<1>1. PICK a \in answers :
        /\ a.to = host[c] /\ a.port = port[c]
        /\ answer' = [answer EXCEPT ![c] = a.value]
        /\ answers' \in {answers \ {a}} \cup (IF "repeat" \in faults THEN {answers} ELSE {})
  BY DEF RecvFrom
<1>2. /\ cst[c] = "waiting" /\ requests' = requests /\ up' = up /\ sin_addr' = sin_addr
      /\ asked' = asked /\ port' = port /\ cst' = [cst EXCEPT ![c] = "done"]
      /\ UNCHANGED <<host, faults, server>>
  BY DEF RecvFrom, serverVars, environment
<1> DEFINE d == a.for
<1>3. /\ d \in Clients /\ cst[d] # "off" /\ a.port = port[d] /\ AnswerTo(a, d)
      /\ server = "final" => a.to = sin_addr
      /\ server # "final" => a.to = host[d]
      /\ Sensible(d) => a.value = Value(d)
  BY <1>1 DEF UdpInv, OnTheirWay, AnswerTo
<1> HIDE DEF d
<1>4. /\ cst' \in [Clients -> {"off", "waiting", "done", "gone"}]
      /\ \A x \in Clients : cst'[x] = IF x = c THEN "done" ELSE cst[x]
      /\ answer' = [x \in Clients |-> answer'[x]]
      /\ \A x \in Clients : answer'[x] = IF x = c THEN a.value ELSE answer[x]
  BY <1>1, <1>2 DEF UdpInv, UdpTypeOK
<1>5. \A x \in Clients : /\ Asks(x)' = Asks(x) /\ Sensible(x)' = Sensible(x)
                         /\ Value(x)' = Value(x) /\ Reaches(x)' = Reaches(x)
  BY <1>2, Stays
<1>6. UdpTypeOK'
  BY <1>2, <1>4 DEF UdpInv, UdpTypeOK
<1>7. Started'
  BY <1>2, <1>4, <1>5 DEF UdpInv, Started
<1>8. OwnPort'
  BY <1>2, <1>4 DEF UdpInv, OwnPort
<1>9. \A m \in requests : RequestOf(m, m.from)'
  BY <1>2, <1>4 DEF UdpInv, OnTheirWay, RequestOf
<1>10. \A b \in answers : AnswerTo(b, b.for)'
  <2> SUFFICES ASSUME NEW b \in answers PROVE AnswerTo(b, b.for)'
    OBVIOUS
  <2>1. AnswerTo(b, b.for)
    BY DEF UdpInv, OnTheirWay
  <2> QED BY <1>2, <1>4, <1>5, <2>1 DEF AnswerTo
<1>11. OnTheirWay'
  BY <1>1, <1>2, <1>9, <1>10 DEF OnTheirWay
<1>12. Orderly' => Orderly
  BY <1>2, <1>4, <1>5 DEF Orderly
<1>13. cst[d] = "waiting" /\ Reaches(d) => d = c
  BY <1>1, <1>2, <1>3 DEF UdpInv, OwnPort, Reaches
<1>14. Orderly => d = c
  BY <1>1, <1>3, <1>13 DEF UdpInv, Single, Orderly, d
<1>15. faults = {} => answers' = answers \ {a}
  BY <1>1
<1>16. Single'
  <2> SUFFICES ASSUME Orderly' PROVE Single'
    BY DEF Single
  <2>1. Orderly /\ d = c /\ answers' = answers \ {a}
    BY <1>12, <1>14, <1>15 DEF Orderly
  <2>2. /\ \A m \in requests : cst[m.from] = "waiting"
        /\ \A b \in answers : cst[b.for] = "waiting"
        /\ \A m \in requests, b \in answers : m.from # b.for
        /\ \A b, e \in answers : b.for = e.for => b = e
    BY <2>1 DEF UdpInv, Single
  <2>3. /\ \A m \in requests : m.from \in Clients /\ m.from # c
        /\ \A b \in answers' : b.for \in Clients /\ b.for # c
    BY <1>1, <2>1, <2>2 DEF UdpInv, OnTheirWay, RequestOf, AnswerTo, d
  <2> QED BY <1>2, <1>4, <2>1, <2>2, <2>3 DEF Single
<1>17. Running' /\ StoppedBy' = StoppedBy
  BY <1>2 DEF UdpInv, Running, StoppedBy
<1>18. NoneLost'
  <2> SUFFICES ASSUME faults = {}, NEW x \in Clients, cst'[x] = "waiting", Reaches(x)'
               PROVE  \/ \E m \in requests' : m.from = x
                      \/ \E b \in answers' : b.for = x
                      \/ StoppedBy'
    BY <1>2 DEF NoneLost
  <2>1. x # c /\ cst[x] = "waiting" /\ Reaches(x)
    BY <1>4, <1>5
  <2>2. d # x
    BY <1>13, <2>1
  <2> QED BY <1>2, <1>15, <1>17, <2>1, <2>2 DEF UdpInv, NoneLost, d
<1>19. OrderlyRight'
  <2> SUFFICES ASSUME Orderly', NEW x \in Clients, cst'[x] = "done", Sensible(x)'
               PROVE  answer'[x] = Value(x)'
    BY DEF OrderlyRight
  <2>1. CASE x = c
    BY <1>3, <1>4, <1>5, <1>12, <1>14, <2>1
  <2>2. CASE x # c
    BY <1>4, <1>5, <1>12, <2>2 DEF UdpInv, OrderlyRight
  <2> QED BY <2>1, <2>2
<1>20. AnswerOfPort'
  <2> SUFFICES ASSUME NEW x \in Clients, cst'[x] = "done"
               PROVE  \E e \in Clients : /\ port[e] = port[x] /\ asked[e] # None
                                         /\ server # "final" => host[e] = host[x]
                                         /\ Sensible(e) => answer'[x] = Value(e)
    BY <1>2, <1>5 DEF AnswerOfPort
  <2>1. CASE x = c
    <3>1. asked[d] # None
      BY <1>3, CalcClientsAssumption DEF UdpInv, Started, Asks
    <3> QED BY <1>1, <1>3, <1>4, <2>1, <3>1
  <2>2. CASE x # c
    <3>1. PICK e \in Clients : /\ port[e] = port[x] /\ asked[e] # None
                               /\ server # "final" => host[e] = host[x]
                               /\ Sensible(e) => answer[x] = Value(e)
      BY <1>4, <2>2 DEF UdpInv, AnswerOfPort
    <3> QED BY <1>4, <2>2, <3>1
  <2> QED BY <2>1, <2>2
<1> QED BY <1>6, <1>7, <1>8, <1>11, <1>16, <1>17, <1>18, <1>19, <1>20 DEF UdpInv

(* Who is interrupted was so because of a fault: the network is not orderly. *)
LEMMA InterruptKeeps ==
  ASSUME UdpInv, NEW c \in Clients, Interrupt(c)
  PROVE  UdpInv'
<1>1. /\ faults # {} /\ cst[c] = "waiting" /\ cst' = [cst EXCEPT ![c] = "gone"]
      /\ UNCHANGED <<up, sin_addr, port, asked, answer, requests, answers, host, faults, server>>
  BY DEF Interrupt, serverVars, environment
<1>2. /\ cst' \in [Clients -> {"off", "waiting", "done", "gone"}]
      /\ \A x \in Clients : cst'[x] = IF x = c THEN "gone" ELSE cst[x]
  BY <1>1 DEF UdpInv, UdpTypeOK
<1>3. \A x \in Clients : /\ Asks(x)' = Asks(x) /\ Sensible(x)' = Sensible(x)
                         /\ Value(x)' = Value(x) /\ Reaches(x)' = Reaches(x)
  BY <1>1, Stays
<1>4. UdpTypeOK' /\ Started' /\ OwnPort'
  BY <1>1, <1>2, <1>3 DEF UdpInv, UdpTypeOK, Started, OwnPort
<1>5. \A m \in requests : RequestOf(m, m.from)'
  BY <1>1, <1>2 DEF UdpInv, OnTheirWay, RequestOf
<1>6. \A b \in answers : AnswerTo(b, b.for)'
  <2> SUFFICES ASSUME NEW b \in answers PROVE AnswerTo(b, b.for)'
    OBVIOUS
  <2>1. AnswerTo(b, b.for)
    BY DEF UdpInv, OnTheirWay
  <2> QED BY <1>1, <1>2, <1>3, <2>1 DEF AnswerTo
<1>7. ~Orderly' /\ faults' # {}
  BY <1>1 DEF Orderly
<1>8. OnTheirWay' /\ Single' /\ NoneLost' /\ OrderlyRight'
  BY <1>1, <1>5, <1>6, <1>7 DEF OnTheirWay, Single, NoneLost, OrderlyRight
<1>9. Running'
  BY <1>1 DEF UdpInv, Running, StoppedBy
<1>10. AnswerOfPort'
  <2> SUFFICES ASSUME NEW x \in Clients, cst'[x] = "done"
               PROVE  \E e \in Clients : /\ port[e] = port[x] /\ asked[e] # None
                                         /\ server # "final" => host[e] = host[x]
                                         /\ Sensible(e) => answer[x] = Value(e)
    BY <1>1, <1>3 DEF AnswerOfPort
  <2> QED BY <1>2 DEF UdpInv, AnswerOfPort
<1> QED BY <1>4, <1>8, <1>9, <1>10 DEF UdpInv

(* The server answers the one request it took: if it has no route, then none *)
(* of its clients is where it answers to.                                    *)
LEMMA ServeKeeps ==
  ASSUME UdpInv, Serve
  PROVE  UdpInv'
<1>1. PICK d \in requests :
        /\ requests' \in Left(d)
        /\ sin_addr' = IF server = "final" THEN sin_addr ELSE host[d.from]
        /\ opResult' = ResultOf(d.buf)
        /\ IF sin_addr' = None
             THEN up' = FALSE /\ UNCHANGED answers
             ELSE /\ up' = TRUE
                  /\ answers' = answers \cup {[for |-> d.from, to |-> sin_addr',
                                               port |-> d.port, value |-> opResult']}
  BY DEF Serve
<1> DEFINE c == d.from
<1>0. PICK new : new = [for |-> c, to |-> sin_addr', port |-> d.port, value |-> opResult']
  OBVIOUS
<1>2. UNCHANGED <<cst, port, asked, answer, host, faults, server>>
  BY DEF Serve, socketVars, environment
<1>3. /\ c \in Clients /\ cst[c] # "off" /\ d.port = port[c] /\ d.buf = Datagram(asked[c])
      /\ Asks(c)
  BY <1>1 DEF UdpInv, OnTheirWay, RequestOf, Started
<1>4. \A x \in Clients : host[x] \in Hosts /\ host[x] # None
  BY UdpCalcAssumption DEF UdpInv, UdpTypeOK
<1>5. /\ server = "final" => sin_addr' = sin_addr
      /\ server # "final" => sin_addr' = host[c] /\ sin_addr' # None
  BY <1>1, <1>3, <1>4
<1>6. \A x \in Clients : /\ Asks(x)' = Asks(x) /\ Sensible(x)' = Sensible(x)
                         /\ Value(x)' = Value(x) /\ Reaches(x)' = Reaches(x)
  BY <1>2, <1>5, Stays
<1>7. Sensible(c) => opResult' = Value(c)
  BY <1>1, <1>3, ServedValue
<1>8. new.for = c /\ new.to = sin_addr' /\ new.port = port[c] /\ new.value = opResult'
  BY <1>0, <1>3
<1>9. sin_addr' # None => up' = TRUE /\ answers' = answers \cup {new}
  BY <1>0, <1>1
<1>10. sin_addr' = None => answers' = answers /\ server = "final" /\ sin_addr = None
  BY <1>1, <1>5
<1>11. AnswerTo(new, c)'
  BY <1>2, <1>3, <1>5, <1>6, <1>7, <1>8 DEF AnswerTo
<1>12. UdpTypeOK'
  BY <1>1, <1>2, <1>3, <1>4, <1>5 DEF UdpInv, UdpTypeOK
<1>13. Started' /\ OwnPort'
  BY <1>2, <1>6 DEF UdpInv, Started, OwnPort
<1>14. requests' \subseteq requests /\ (faults = {} => requests' = requests \ {d})
  BY <1>1 DEF Left
<1>15. \A m \in requests : RequestOf(m, m.from) /\ RequestOf(m, m.from)'
  BY <1>2 DEF UdpInv, OnTheirWay, RequestOf
<1>16. \A b \in answers : AnswerTo(b, b.for)'
  <2> SUFFICES ASSUME NEW b \in answers PROVE AnswerTo(b, b.for)'
    OBVIOUS
  <2>1. AnswerTo(b, b.for)
    BY DEF UdpInv, OnTheirWay
  <2> QED BY <1>2, <1>5, <1>6, <2>1 DEF AnswerTo
<1>17. OnTheirWay'
  BY <1>8, <1>9, <1>10, <1>11, <1>14, <1>15, <1>16 DEF OnTheirWay
<1>18. Orderly' = Orderly
  BY <1>2, <1>6 DEF Orderly
<1>19. Orderly => sin_addr' # None
  BY <1>3, <1>4, <1>10 DEF Orderly, Reaches
<1>20. Single'
  <2> SUFFICES ASSUME Orderly PROVE Single'
    BY <1>18 DEF Single
  <2>1. /\ \A m \in requests : cst[m.from] = "waiting"
        /\ \A b \in answers : cst[b.for] = "waiting"
        /\ \A m \in requests, b \in answers : m.from # b.for
        /\ \A b, e \in answers : b.for = e.for => b = e
    BY DEF UdpInv, Single
  <2>2. answers' = answers \cup {new} /\ requests' = requests \ {d}
    BY <1>9, <1>14, <1>19 DEF Orderly
  <2>3. \A m \in requests' : m \in requests /\ m.from # c
    <3> SUFFICES ASSUME NEW m \in requests, m.from = c PROVE m = d
      BY <2>2
    <3> QED BY <1>1, <1>15 DEF RequestOf
  <2>4. cst[c] = "waiting" /\ \A b \in answers : b.for # c
    BY <1>1, <2>1
  <2> QED BY <1>2, <1>8, <2>1, <2>2, <2>3, <2>4 DEF Single
<1>21. StoppedBy' = StoppedBy
  BY <1>2 DEF StoppedBy
<1>22. Running'
  BY <1>2, <1>5, <1>9, <1>10 DEF Running
<1>23. NoneLost'
  <2> SUFFICES ASSUME faults = {}, NEW x \in Clients, cst[x] = "waiting", Reaches(x)
               PROVE  \/ \E m \in requests' : m.from = x
                      \/ \E b \in answers' : b.for = x
                      \/ StoppedBy
    BY <1>2, <1>6, <1>21 DEF NoneLost
  <2>1. answers' = answers \cup {new}
    BY <1>4, <1>9, <1>10 DEF Reaches
  <2>2. requests' = requests \ {d}
    BY <1>14
  <2>3. CASE \E m \in requests : m.from = x
    BY <1>8, <2>1, <2>2, <2>3
  <2>4. CASE (\E b \in answers : b.for = x) \/ StoppedBy
    BY <2>1, <2>4
  <2> QED BY <2>3, <2>4 DEF UdpInv, NoneLost
<1>24. OrderlyRight' /\ AnswerOfPort'
  BY <1>2, <1>6, <1>18 DEF UdpInv, OrderlyRight, AnswerOfPort
<1> QED BY <1>12, <1>13, <1>17, <1>20, <1>22, <1>23, <1>24 DEF UdpInv

(* udpserver.c ends because of a count that is not positive.                 *)
LEMMA StopKeeps ==
  ASSUME UdpInv, Stop
  PROVE  UdpInv'
<1>1. PICK d \in requests : /\ Char(BufAt(d.buf, 0)) =< 0 /\ requests' \in Left(d)
                            /\ sin_addr' = host[d.from]
  BY DEF Stop
<1>2. /\ server = "week4" /\ up' = FALSE
      /\ UNCHANGED <<cst, port, asked, answer, answers, host, faults, server>>
  BY DEF Stop, socketVars, environment
<1> DEFINE c == d.from
<1>3. c \in Clients /\ d.buf = Datagram(asked[c]) /\ Asks(c)
  BY <1>1 DEF UdpInv, OnTheirWay, RequestOf, Started
<1>4. Char(asked[c].count) =< 0 /\ asked[c] # None
  <2>1. IsRequest(asked[c]) /\ asked[c] # None
    BY <1>3, Asked
  <2>2. Char(BufAt(Datagram(asked[c]), 0)) = Char(asked[c].count)
    BY <2>1, Counts
  <2> QED BY <1>1, <1>3, <2>1, <2>2
<1>5. StoppedBy'
  BY <1>2, <1>3, <1>4 DEF StoppedBy
<1>6. \A x \in Clients : /\ Asks(x)' = Asks(x) /\ Sensible(x)' = Sensible(x)
                         /\ Value(x)' = Value(x) /\ Reaches(x)' = Reaches(x)
  BY <1>2, Stays
<1>7. UdpTypeOK' /\ Started' /\ OwnPort'
  BY <1>1, <1>2, <1>3, <1>6 DEF UdpInv, UdpTypeOK, Started, OwnPort
<1>8. requests' \subseteq requests /\ Orderly' = Orderly
  BY <1>1, <1>2, <1>6 DEF Left, Orderly
<1>9. \A m \in requests : RequestOf(m, m.from)'
  BY <1>2 DEF UdpInv, OnTheirWay, RequestOf
<1>10. \A b \in answers : AnswerTo(b, b.for)'
  <2> SUFFICES ASSUME NEW b \in answers PROVE AnswerTo(b, b.for)'
    OBVIOUS
  <2>1. AnswerTo(b, b.for)
    BY DEF UdpInv, OnTheirWay
  <2> QED BY <1>2, <1>6, <2>1 DEF AnswerTo
<1>11. OnTheirWay' /\ Single'
  BY <1>2, <1>8, <1>9, <1>10 DEF UdpInv, OnTheirWay, Single
<1>12. Running' /\ NoneLost'
  BY <1>5 DEF Running, NoneLost
<1>13. OrderlyRight' /\ AnswerOfPort'
  BY <1>2, <1>6, <1>8 DEF UdpInv, OrderlyRight, AnswerOfPort
<1> QED BY <1>7, <1>11, <1>12, <1>13 DEF UdpInv

(* Every action keeps the invariant.                                         *)
LEMMA UdpNextInv == UdpInv /\ [UdpNext]_udpVars => UdpInv'
<1> SUFFICES ASSUME UdpInv, [UdpNext]_udpVars PROVE UdpInv'
  OBVIOUS
<1>1. CASE Serve
  BY <1>1, ServeKeeps
<1>2. CASE Stop
  BY <1>2, StopKeeps
<1>3. ASSUME NEW c \in Clients, SendTo(c) PROVE UdpInv'
  BY <1>3, SendToKeeps
<1>4. ASSUME NEW c \in Clients, RecvFrom(c) PROVE UdpInv'
  BY <1>4, RecvFromKeeps
<1>5. ASSUME NEW c \in Clients, Interrupt(c) PROVE UdpInv'
  BY <1>5, InterruptKeeps
<1>6. CASE UNCHANGED udpVars
  <2> USE <1>6 DEF udpVars, serverVars, socketVars, environment
  <2>1. UdpTypeOK' /\ Started' /\ OwnPort'
    BY DEF UdpInv, UdpTypeOK, Started, OwnPort, Asks
  <2>2. OnTheirWay'
    BY DEF UdpInv, OnTheirWay, RequestOf, AnswerTo, Sensible, Value
  <2>3. Single' /\ OrderlyRight'
    BY DEF UdpInv, Single, OrderlyRight, Orderly, Reaches, Sensible, Value
  <2>4. Running' /\ NoneLost'
    BY DEF UdpInv, Running, NoneLost, StoppedBy, Reaches
  <2>5. AnswerOfPort'
    BY DEF UdpInv, AnswerOfPort, Sensible, Value
  <2> QED BY <2>1, <2>2, <2>3, <2>4, <2>5 DEF UdpInv
<1> QED BY <1>1, <1>2, <1>3, <1>4, <1>5, <1>6 DEF UdpNext

(* UdpInv holds of every reachable state of the UDP calculators.             *)
THEOREM UdpInductive == UdpSpec => []UdpInv
BY UdpInitInv, UdpNextInv, PTL DEF UdpSpec

(* On an orderly network each client gets the value of what its user typed,  *)
(* though datagrams overtake one another, no answer names its request and    *)
(* ports are used again; and unless datagrams are lost or doubled or clients *)
(* interrupted, or a count has ended the server, nobody waits in vain.       *)
THEOREM ExchangeCorrect == UdpSpec => []ExchangeRight
<1>1. UdpInv => ExchangeRight
  <2> SUFFICES ASSUME UdpInv PROVE NoneInVain
    BY DEF UdpInv, ExchangeRight
  <2> SUFFICES ASSUME faults = {}, NEW c \in Clients, cst[c] = "waiting", Reaches(c)
               PROVE  \/ up /\ ((\E m \in requests : m.from = c) \/ (\E a \in answers : a.for = c))
                      \/ StoppedBy
    BY DEF NoneInVain, StoppedBy
  <2>1. ~(server = "final" /\ sin_addr = None)
    BY UdpCalcAssumption DEF UdpInv, UdpTypeOK, Reaches
  <2> QED BY <2>1 DEF UdpInv, NoneLost, Running
<1> QED BY <1>1, UdpInductive, PTL

(* Whatever happens to datagrams and clients, an answer is that to a request *)
(* which was sent from the client's port, or from another of its number.     *)
THEOREM AnswerOfPortCorrect == UdpSpec => []AnswerOfPort
<1>1. UdpInv => AnswerOfPort
  BY DEF UdpInv
<1> QED BY <1>1, UdpInductive, PTL

=============================================================================
