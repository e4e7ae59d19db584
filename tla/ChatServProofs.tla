---------------------------- MODULE ChatServProofs ----------------------------
(* For any number of clients, descriptors and lines, whichever server runs:  *)
(* clnt_cnt counts, the broadcasts are in one order, threads that start in   *)
(* time keep to their own descriptors and a calculation is answered once.    *)
(*                                                                           *)
(* The argument.  The thread inside send_msg, and it alone, holds the mutex, *)
(* so its broadcast is the last one in the log.  A thread that starts in     *)
(* time finds in clnt_sock a descriptor nobody else has: accept took it free *)
(* and the next accept has not happened.                                     *)
EXTENDS ChatServ, FiniteSetTheorems, SequenceLemmas, TLAPS

LOCAL INSTANCE SequencesExt

-----------------------------------------------------------------------------
(* The sequence without the entry at k.                                      *)
LEMMA RemoveEntry ==
  ASSUME NEW S, NEW q \in Seq(S), NEW k \in 1 .. Len(q)
  PROVE  /\ RemoveAt(q, k) \in Seq(S)
         /\ Len(RemoveAt(q, k)) = Len(q) - 1
         /\ \A j \in 1 .. Len(q) - 1 : RemoveAt(q, k)[j] = IF j < k THEN q[j] ELSE q[j+1]
<1> DEFINE a == SubSeq(q, 1, k - 1)
           b == SubSeq(q, k + 1, Len(q))
<1>1. /\ a \in Seq(S) /\ Len(a) = k - 1 /\ \A j \in 1 .. k - 1 : a[j] = q[j]
  OBVIOUS
<1>2. /\ b \in Seq(S) /\ Len(b) = Len(q) - k /\ \A j \in 1 .. Len(q) - k : b[j] = q[k + j]
  OBVIOUS
<1>3. RemoveAt(q, k) = a \o b
  BY DEF RemoveAt
<1> HIDE DEF a, b
<1>4. /\ a \o b \in Seq(S) /\ Len(a \o b) = Len(q) - 1
      /\ \A j \in 1 .. Len(q) - 1 : (a \o b)[j] = IF j =< k - 1 THEN a[j] ELSE b[j - (k - 1)]
  BY <1>1, <1>2, ConcatProperties
<1>5. ASSUME NEW j \in 1 .. Len(q) - 1
      PROVE  (a \o b)[j] = IF j < k THEN q[j] ELSE q[j+1]
  <2>1. CASE j < k
    BY <1>1, <1>4, <2>1
  <2>2. CASE ~ (j < k)
    <3>1. ~ (j =< k - 1) /\ j - (k - 1) \in 1 .. Len(q) - k
      BY <2>2
    <3>2. (a \o b)[j] = b[j - (k - 1)]
      BY <1>4, <3>1
    <3>3. b[j - (k - 1)] = q[k + (j - (k - 1))] /\ k + (j - (k - 1)) = j + 1
      BY <1>2, <3>1
    <3> QED BY <2>2, <3>2, <3>3
  <2> QED BY <2>1, <2>2
<1> QED BY <1>3, <1>4, <1>5

(* What is left when an entry in the middle is taken.                        *)
LEMMA RemoveHas ==
  ASSUME NEW S, NEW q \in Seq(S), NEW k \in 1 .. Len(q), Distinct(q)
  PROVE  /\ Distinct(RemoveAt(q, k))
         /\ \A y : Has(RemoveAt(q, k), y) <=> Has(q, y) /\ y # q[k]
<1> DEFINE r == RemoveAt(q, k)
           p(j) == IF j < k THEN j ELSE j + 1
<1>1. /\ Len(q) \in Nat /\ Len(r) = Len(q) - 1
      /\ \A j \in 1 .. Len(q) - 1 : r[j] = IF j < k THEN q[j] ELSE q[j+1]
  BY RemoveEntry
<1> HIDE DEF r
<1>2. ASSUME NEW j \in 1 .. Len(r)
      PROVE  r[j] = q[p(j)] /\ p(j) \in 1 .. Len(q) /\ p(j) # k
  <2>1. CASE j < k
    BY <1>1, <2>1
  <2>2. CASE ~ (j < k)
    BY <1>1, <2>2
  <2> QED BY <2>1, <2>2
<1>3. ASSUME NEW i \in 1 .. Len(q), i # k
      PROVE  \E j \in 1 .. Len(r) : p(j) = i
  <2>1. CASE i < k
    <3>1. i \in 1 .. Len(r) /\ p(i) = i
      BY <1>1, <2>1
    <3> QED BY <3>1
  <2>2. CASE ~ (i < k)
    <3>1. i - 1 \in 1 .. Len(r) /\ p(i - 1) = i
      BY <1>1, <1>3, <2>2
    <3> QED BY <3>1
  <2> QED BY <2>1, <2>2
<1>4. \A i, j \in 1 .. Len(r) : p(i) = p(j) => i = j
  BY <1>1
<1> HIDE DEF p
<1>5. Distinct(r)
  BY <1>2, <1>4 DEF Distinct
<1>6. ASSUME NEW y PROVE Has(r, y) <=> Has(q, y) /\ y # q[k]
  <2>1. ASSUME Has(r, y) PROVE Has(q, y) /\ y # q[k]
    <3>1. PICK j \in 1 .. Len(r) : r[j] = y
      BY <2>1 DEF Has
    <3>2. y = q[p(j)] /\ p(j) \in 1 .. Len(q) /\ p(j) # k
      BY <1>2, <3>1
    <3> QED BY <3>2 DEF Has, Distinct
  <2>2. ASSUME Has(q, y), y # q[k] PROVE Has(r, y)
    <3>1. PICK i \in 1 .. Len(q) : q[i] = y
      BY <2>2 DEF Has
    <3>2. PICK j \in 1 .. Len(r) : p(j) = i
      BY <1>3, <2>2, <3>1
    <3> QED BY <1>2, <3>1, <3>2 DEF Has
  <2> QED BY <2>1, <2>2
<1> QED BY <1>5, <1>6 DEF r

Serving == {"read", "lock", "send", "remove", "close"}   \* it has its descriptor

Msgs == [from : Clients, first : Nat \ {0}, last : Nat] \cup {NoMsg}

TypeOK ==
  /\ server \in {"final", "week10", "calc"}
  /\ prompt \in BOOLEAN
  /\ peer \in [Clients -> {"new", "open", "fin", "error", "reset"}]
  /\ said \in [Clients -> Nat]
  /\ heard \in [Clients -> Nat]
  /\ inbox \in [Clients -> Seq(Nat)]
  /\ backlog \in Seq(Clients)
  /\ conn \in [FDs -> Clients \cup {NoClient}]
  /\ alive \in BOOLEAN
  /\ clnt_socks \in Seq(FDs)
  /\ mutx \in Threads \cup {Free}
  /\ mpc \in {"accept", "register", "create"}
  /\ clnt_sock \in FDs \cup {0}
  /\ created \in Nat
  /\ hpc \in [Threads -> {"none", "start", "done"} \cup Serving]
  /\ sock \in [Threads -> FDs \cup {0}]
  /\ msg \in [Threads -> Msgs]
  /\ next \in [Threads -> Nat]
  /\ number \in [Threads -> Nat]
  /\ log \in Seq([msg : Msgs, members : SUBSET Clients])
  /\ joined \in SUBSET Clients

(* The descriptors the threads are given are descriptors.                    *)
Pointers ==
  /\ mpc # "accept" => clnt_sock \in FDs
  /\ \A t \in Threads : /\ hpc[t] = "start" => clnt_sock \in FDs
                        /\ hpc[t] \in Serving => sock[t] \in FDs

(* Threads are created in order, one for each connection accepted.           *)
Accepted == created + (IF mpc = "accept" THEN 0 ELSE 1)

CreatedInOrder ==
  /\ \A t \in Threads : hpc[t] = "none" <=> t > created
  /\ Accepted + Len(backlog) = Cardinality({c \in Clients : peer[c] # "new"})

Counted == CreatedInOrder /\ CountConserved

(* The thread that is sending has the mutex, and sends the last broadcast.   *)
Exclusion ==
  \A t \in Threads : /\ hpc[t] = "send" <=> mutx = t
                     /\ hpc[t] = "send" => number[t] = Len(log)

Ordered == /\ \A c \in Clients : \A k \in 1 .. Len(inbox[c]) : inbox[c][k] =< Len(log)
           /\ TotalOrder

(* A descriptor on its way from accept to the thread that will serve it.     *)
Handed == mpc # "accept" \/ \E t \in Threads : hpc[t] = "start"

InTime ==
  prompt =>
    /\ \A t, u \in Threads : hpc[t] = "start" => mpc = "accept" /\ (hpc[u] = "start" => u = t)
    /\ Handed => /\ conn[clnt_sock] # NoClient
                 /\ \A t \in Threads : hpc[t] \in Serving => sock[t] # clnt_sock
    /\ \A t \in Threads : hpc[t] \in Serving => conn[sock[t]] # NoClient
    /\ \A t, u \in Threads : hpc[t] \in Serving /\ hpc[u] \in Serving /\ sock[t] = sock[u] => t = u

(* The array holds exactly the descriptors registered and not yet removed.   *)
Current     == {sock[t] : t \in {u \in Threads : hpc[u] \in Serving \ {"close"}}}
                 \cup (IF Handed /\ mpc # "register" THEN {clnt_sock} ELSE {})

Listing ==
  prompt /\ server = "final" =>
    /\ Distinct(clnt_socks)
    /\ \A f \in FDs : Has(clnt_socks, f) <=> f \in Current

(* A calculation is read once: it is in the hands of one thread, or answered.*)
AsksNew(t) == hpc[t] = "lock" /\ msg[t] # NoMsg

ReadOnce ==
  server = "calc" =>
    /\ \A t \in Threads : AsksNew(t) =>
         /\ msg[t].first =< heard[msg[t].from]
         /\ \A u \in Threads : AsksNew(u) /\ msg[u] = msg[t] => u = t
         /\ \A j \in 1 .. Len(log) : log[j].msg # msg[t]
    /\ \A j \in 1 .. Len(log) :
         log[j].msg # NoMsg => log[j].msg.first =< heard[log[j].msg.from]
    /\ AnsweredOnce

IInv == /\ TypeOK /\ Pointers /\ Counted /\ Exclusion /\ Ordered
        /\ InTime /\ Listing /\ ReadOnce

-----------------------------------------------------------------------------
(* However a handler passes its removal, one entry fewer is left.            *)
LEMMA OneFewer ==
  ASSUME TypeOK, NEW t \in Threads, Unlist(t)
  PROVE  /\ clnt_socks' \in Seq(FDs)
         /\ Len(clnt_socks) >= 1 => Len(clnt_socks') = Len(clnt_socks) - 1
<1> DEFINE found == {k \in 1 .. Len(clnt_socks) : clnt_socks[k] = sock[t]}
<1>1. clnt_socks \in Seq(FDs)
  BY DEF TypeOK
<1>2. \/ \E k \in found : clnt_socks' = CloseGap(clnt_socks, k)
      \/ clnt_socks' = SubSeq(clnt_socks, 1, Len(clnt_socks) - 1)
  BY DEF Unlist
<1>3. ASSUME NEW k \in found, clnt_socks' = CloseGap(clnt_socks, k)
      PROVE  clnt_socks' \in Seq(FDs) /\ Len(clnt_socks') = Len(clnt_socks) - 1
  <2>1. PICK m \in 1 .. Len(clnt_socks) : clnt_socks' = RemoveAt(clnt_socks, m)
    BY <1>1, <1>3 DEF CloseGap
  <2> QED BY <1>1, <2>1, RemoveEntry
<1>4. ASSUME clnt_socks' = SubSeq(clnt_socks, 1, Len(clnt_socks) - 1)
      PROVE  /\ clnt_socks' \in Seq(FDs)
             /\ Len(clnt_socks) >= 1 => Len(clnt_socks') = Len(clnt_socks) - 1
  <2>1. CASE Len(clnt_socks) = 0
    <3>1. clnt_socks' = << >>
      BY <1>4, <2>1, SubSeqEmpty
    <3> QED BY <2>1, <3>1
  <2>2. CASE Len(clnt_socks) # 0
    BY <1>1, <1>4, <2>2, FrontLength
  <2> QED BY <2>1, <2>2
<1> HIDE DEF found
<1>5. \A k \in found : k \in 1 .. Len(clnt_socks)
  BY DEF found
<1>6. CASE \E k \in found : clnt_socks' = CloseGap(clnt_socks, k)
  BY <1>3, <1>6
<1> QED BY <1>2, <1>4, <1>6

-----------------------------------------------------------------------------
(* Every step keeps the types.                                               *)
LEMMA NextTypeOK ==
  ASSUME TypeOK, Pointers, [Next]_vars
  PROVE  TypeOK'
<1> USE ChatAssumption DEF TypeOK, Serving
<1>1. ASSUME UNCHANGED <<server, prompt>>, NEW c \in Clients, Connect(c) \/ Say(c) \/ Leave(c)
      PROVE  TypeOK'
  <2>1. CASE Connect(c)  BY <1>1, <2>1 DEF Connect, mainVars, threadVars
  <2>2. CASE Say(c)
    <3>1. said[c] + 1 \in Nat /\ said[c] + 2 \in Nat
      OBVIOUS
    <3>2. said' \in [Clients -> Nat]
      BY <2>2, <3>1 DEF Say
    <3> QED BY <1>1, <2>2, <3>2 DEF Say, mainVars, threadVars
  <2>3. CASE Leave(c)  BY <1>1, <2>3 DEF Leave, mainVars, threadVars
  <2> QED BY <1>1, <2>1, <2>2, <2>3
<1>2. CASE UNCHANGED <<server, prompt>> /\ Accept
  <2>1. PICK f \in FDs : conn' = [conn EXCEPT ![f] = Head(backlog)] /\ clnt_sock' = f
    BY <1>2 DEF Accept
  <2>2. Head(backlog) \in Clients /\ backlog' \in Seq(Clients)
    BY <1>2 DEF Accept
  <2> QED BY <1>2, <2>1, <2>2 DEF Accept, threadVars
<1>3. CASE UNCHANGED <<server, prompt>> /\ Register
  BY <1>3 DEF Register, Pointers, netVars, threadVars
<1>4. CASE UNCHANGED <<server, prompt>> /\ Create
  <2>1. hpc' \in [Threads -> {"none", "start", "done"} \cup Serving] /\ created' \in Nat
    BY <1>4, ExceptEntry DEF Create
  <2> QED BY <1>4, <2>1 DEF Create, netVars
<1>5. ASSUME UNCHANGED <<server, prompt>>, NEW t \in Threads, Start(t)
      PROVE  TypeOK'
  BY <1>5 DEF Start, HandlerTo, netVars, mainVars
<1>6. ASSUME UNCHANGED <<server, prompt>>, NEW t \in Threads, ReadLines(t)
      PROVE  TypeOK'
  <2>1. sock[t] \in FDs /\ conn[sock[t]] \in Clients
    BY <1>6 DEF ReadLines, HandlerTo, Pointers
  <2>2. \A k \in Nat : [from |-> conn[sock[t]], first |-> heard[conn[sock[t]]] + 1, last |-> k] \in Msgs
    BY <2>1 DEF Msgs
  <2>3. hpc' \in [Threads -> {"none", "start", "done"} \cup Serving]
    BY <1>6, ExceptEntry DEF ReadLines, HandlerTo
  <2>4. msg' \in [Threads -> Msgs] /\ heard' \in [Clients -> Nat]
    BY <1>6, <2>1, <2>2, ExceptEntry DEF ReadLines
  <2> QED BY <1>6, <2>3, <2>4 DEF ReadLines, mainVars
<1>7. ASSUME UNCHANGED <<server, prompt>>, NEW t \in Threads, ReadRequest(t)
      PROVE  TypeOK'
  <2>1. sock[t] \in FDs /\ conn[sock[t]] \in Clients
    BY <1>7 DEF ReadRequest, HandlerTo, Pointers
  <2> DEFINE c == conn[sock[t]]
  <2>2. PICK k \in heard[c] + 1 .. heard[c] + 2 :
           /\ heard' = [heard EXCEPT ![c] = k]
           /\ msg' = [msg EXCEPT ![t] = IF heard[c] % 2 = 0
                                       THEN [from |-> c, first |-> heard[c] + 1, last |-> k]
                                       ELSE NoMsg]
    BY <1>7 DEF ReadRequest
  <2>3. heard[c] \in Nat /\ k \in Nat
    BY <2>1
  <2>4. [from |-> c, first |-> heard[c] + 1, last |-> k] \in Msgs /\ NoMsg \in Msgs
    BY <2>1, <2>3 DEF Msgs
  <2>5. heard' \in [Clients -> Nat] /\ msg' \in [Threads -> Msgs]
    BY <2>1, <2>2, <2>3, <2>4
  <2> QED BY <1>7, <2>5 DEF ReadRequest, HandlerTo, mainVars
<1>8. ASSUME UNCHANGED <<server, prompt>>, NEW t \in Threads, ReadFails(t) \/ ReadEnds(t)
      PROVE  TypeOK'
  <2>1. CASE ReadFails(t)  BY <1>8, <2>1 DEF ReadFails, HandlerTo, Msgs, mainVars
  <2>2. CASE ReadEnds(t)  BY <1>8, <2>2 DEF ReadEnds, HandlerTo, netVars, mainVars
  <2> QED BY <1>8, <2>1, <2>2
<1>9. ASSUME UNCHANGED <<server, prompt>>, NEW t \in Threads, Lock(t)
      PROVE  TypeOK'
  BY <1>9 DEF Lock, HandlerTo, netVars, mainVars
<1>10. ASSUME UNCHANGED <<server, prompt>>, NEW t \in Threads, Write(t)
       PROVE  TypeOK'
  <2>1. peer' \in [Clients -> {"new", "open", "fin", "error", "reset"}] /\ alive' \in BOOLEAN
    <3> DEFINE P == {"new", "open", "fin", "error", "reset"}
    <3>1. \/ peer' = peer
          \/ \E c : \E p \in P : peer' = [peer EXCEPT ![c] = p]
      BY <1>10 DEF Write
    <3>2. ASSUME NEW c, NEW p \in P PROVE [peer EXCEPT ![c] = p] \in [Clients -> P]
      <4> HIDE DEF P
      <4> QED BY ExceptEntry DEF P
    <3>3. alive' \in BOOLEAN
      BY <1>10 DEF Write
    <3>4. CASE peer' # peer
      <4>1. PICK c : \E p \in P : peer' = [peer EXCEPT ![c] = p]
        BY <3>1, <3>4
      <4>2. peer' \in [Clients -> P]
        BY <4>1, <3>2
      <4> QED BY <4>2, <3>3
    <3> QED BY <3>3, <3>4
  <2>2. inbox' \in [Clients -> Seq(Nat)]
    <3>1. \/ inbox' = inbox
          \/ \E c : inbox' = [inbox EXCEPT ![c] = Append(inbox[c], number[t])]
      BY <1>10 DEF Write
    <3>2. ASSUME NEW c PROVE [inbox EXCEPT ![c] = Append(inbox[c], number[t])] \in [Clients -> Seq(Nat)]
      <4>1. c \in Clients => Append(inbox[c], number[t]) \in Seq(Nat)
        OBVIOUS
      <4>2. inbox \in [Clients -> Seq(Nat)]
        OBVIOUS
      <4> QED BY <4>1, <4>2, ExceptEntry
    <3>3. CASE inbox' # inbox
      <4>1. PICK c : inbox' = [inbox EXCEPT ![c] = Append(inbox[c], number[t])]
        BY <3>1, <3>3
      <4> QED BY <4>1, <3>2
    <3> QED BY <3>3
  <2> QED BY <1>10, <2>1, <2>2 DEF Write, HandlerTo, mainVars
<1>11. ASSUME UNCHANGED <<server, prompt>>, NEW t \in Threads, Unlock(t)
       PROVE  TypeOK'
  BY <1>11 DEF Unlock, HandlerTo, netVars, mainVars
<1>12. ASSUME UNCHANGED <<server, prompt>>, NEW t \in Threads, Unlist(t)
       PROVE  TypeOK'
  BY <1>12, OneFewer DEF Unlist, HandlerTo, netVars, mainVars
<1>13. ASSUME UNCHANGED <<server, prompt>>, NEW t \in Threads, Close(t)
       PROVE  TypeOK'
  BY <1>13 DEF Close, HandlerTo, mainVars
<1>14. CASE UNCHANGED vars
  BY <1>14 DEF vars, netVars, mainVars, threadVars
<1> QED
  BY <1>1, <1>2, <1>3, <1>4, <1>5, <1>6, <1>7, <1>8, <1>9, <1>10, <1>11, <1>12, <1>13, <1>14
     DEF Next, Client, Main, Handler, Over

-----------------------------------------------------------------------------
(* What a handler's step does to the threads, and leaves to main.            *)
LEMMA HandlerStep ==
  ASSUME TypeOK, NEW t \in Threads, Handler(t)
  PROVE  /\ UNCHANGED <<backlog, mpc, clnt_sock, created>>
         /\ hpc[t] \in {"start"} \cup Serving
         /\ hpc' = [hpc EXCEPT ![t] = hpc'[t]] /\ hpc'[t] \in Serving \cup {"done"}
         /\ IF hpc[t] = "start"
              THEN sock' = [sock EXCEPT ![t] = clnt_sock] /\ hpc'[t] = "read"
              ELSE sock' = sock
         /\ hpc'[t] = "done" <=> hpc[t] = "close"
         /\ hpc'[t] = "close" <=> hpc[t] = "remove"
         /\ Unlist(t) \/ (hpc[t] # "remove" /\ clnt_socks' = clnt_socks)
         /\ IF hpc[t] = "close" THEN conn' = [conn EXCEPT ![sock[t]] = NoClient] ELSE conn' = conn
<1> USE DEF TypeOK, HandlerTo, Serving, netVars, mainVars
<1>1. CASE Start(t)  BY <1>1 DEF Start
<1>2. CASE ReadLines(t)  BY <1>2 DEF ReadLines
<1>3. CASE ReadRequest(t)  BY <1>3 DEF ReadRequest
<1>4. CASE ReadFails(t)  BY <1>4 DEF ReadFails
<1>5. CASE ReadEnds(t)  BY <1>5 DEF ReadEnds
<1>6. CASE Lock(t)  BY <1>6 DEF Lock
<1>7. CASE Write(t)  BY <1>7 DEF Write
<1>8. CASE Unlock(t)  BY <1>8 DEF Unlock
<1>9. CASE Unlist(t)  BY <1>9 DEF Unlist
<1>10. CASE Close(t)  BY <1>10 DEF Close
<1> QED BY <1>1, <1>2, <1>3, <1>4, <1>5, <1>6, <1>7, <1>8, <1>9, <1>10 DEF Handler

(* What a client's step leaves alone.                                        *)
LEMMA ClientStep ==
  ASSUME TypeOK, Client
  PROVE  /\ UNCHANGED <<heard, inbox, conn, clnt_socks, mutx, mainVars, threadVars, log, joined>>
         /\ \A c \in Clients : peer'[c] = "new" => peer[c] = "new"
<1>1. PICK c \in Clients : Connect(c) \/ Say(c) \/ Leave(c)
  BY DEF Client
<1> QED BY <1>1 DEF Connect, Say, Leave, TypeOK

(* Every step passes descriptors on as descriptors.                          *)
LEMMA NextPointers ==
  ASSUME TypeOK, Pointers, [Next]_vars
  PROVE  Pointers'
<1> USE DEF TypeOK, Pointers, Serving
<1>1. CASE Client
  BY <1>1, ClientStep DEF mainVars, threadVars
<1>2. CASE Accept
  BY <1>2 DEF Accept, threadVars
<1>3. CASE Register
  BY <1>3 DEF Register, threadVars
<1>4. CASE Create
  BY <1>4 DEF Create
<1>5. ASSUME NEW t \in Threads, Handler(t) PROVE Pointers'
  BY <1>5, HandlerStep
<1>6. CASE UNCHANGED vars
  BY <1>6 DEF vars, mainVars, threadVars
<1> QED BY <1>1, <1>2, <1>3, <1>4, <1>5, <1>6 DEF Next, Main, Over

-----------------------------------------------------------------------------
(* Cardinalities: the threads and the clients are finitely many.             *)
LEMMA Finite ==
  /\ Cardinality(Clients) \in Nat /\ IsFiniteSet(Threads)
  /\ \A T \in SUBSET Clients : IsFiniteSet(T) /\ Cardinality(T) \in Nat
                              /\ Cardinality(T) =< Cardinality(Clients)
  /\ \A T \in SUBSET Threads : IsFiniteSet(T) /\ Cardinality(T) \in Nat
<1>1. IsFiniteSet(Clients)
  BY ChatAssumption
<1>2. Cardinality(Clients) \in Nat
  BY <1>1, FS_CardinalityType
<1>3. IsFiniteSet(Threads)
  BY <1>2, FS_Interval DEF Threads
<1>4. ASSUME NEW T \in SUBSET Clients
      PROVE  IsFiniteSet(T) /\ Cardinality(T) \in Nat /\ Cardinality(T) =< Cardinality(Clients)
  BY <1>1, FS_Subset, FS_CardinalityType
<1>5. ASSUME NEW T \in SUBSET Threads PROVE IsFiniteSet(T) /\ Cardinality(T) \in Nat
  BY <1>3, FS_Subset, FS_CardinalityType
<1> QED BY <1>2, <1>3, <1>4, <1>5

(* The first n numbers are n.                                                *)
LEMMA UpTo ==
  ASSUME NEW n \in Nat
  PROVE  IsFiniteSet(1 .. n) /\ Cardinality(1 .. n) = n
<1>1. 1 \in Int /\ n \in Int
  OBVIOUS
<1>2. /\ IsFiniteSet(1 .. n)
      /\ Cardinality(1 .. n) = IF 1 > n THEN 0 ELSE n - 1 + 1
  BY <1>1, FS_Interval, Zenon
<1> QED BY <1>2

(* The threads past their removal.                                           *)
Past == {t \in Threads : hpc[t] \in {"close", "done"}}

(* A thread that has not passed its removal is not counted out yet.          *)
LEMMA SomeLeft ==
  ASSUME TypeOK, Counted, NEW t \in Threads, hpc[t] = "remove"
  PROVE  Len(clnt_socks) >= 1
<1> USE DEF TypeOK
<1>1. t =< created /\ created \in Nat /\ t \in Nat /\ t # 0
  BY DEF Counted, CreatedInOrder, Threads
<1>2. Past \in SUBSET ((1 .. created) \ {t})
  <2> SUFFICES ASSUME NEW u \in Past PROVE u \in 1 .. created /\ u # t
    OBVIOUS
  <2>1. u \in Threads /\ hpc[u] # "none" /\ hpc[u] # "remove"
    BY DEF Past
  <2> QED BY <2>1 DEF Counted, CreatedInOrder, Threads
<1> DEFINE all == 1 .. created
<1>3. IsFiniteSet(all) /\ Cardinality(all) = created /\ t \in all
  <2>1. IsFiniteSet(all) /\ Cardinality(all) = created
    BY <1>1, UpTo
  <2>2. t \in all
    BY <1>1
  <2> QED BY <2>1, <2>2
<1> HIDE DEF all
<1>4. IsFiniteSet(all \ {t}) /\ Cardinality(all \ {t}) = created - 1
  <2>1. Cardinality(all \ {t}) = IF t \in all THEN Cardinality(all) - 1 ELSE Cardinality(all)
    BY <1>3, FS_RemoveElement
  <2>2. IsFiniteSet(all \ {t})
    BY <1>3, FS_RemoveElement
  <2> QED BY <1>3, <2>1, <2>2
<1>5. Cardinality(Past) =< created - 1
  <2>1. Past \in SUBSET (all \ {t})
    BY <1>2 DEF all
  <2>2. Cardinality(Past) =< Cardinality(all \ {t})
    BY <1>4, <2>1, FS_Subset
  <2> QED BY <1>4, <2>2
<1>6. Cardinality(Past) \in Nat
  BY Finite DEF Past
<1> QED BY <1>1, <1>5, <1>6 DEF Counted, CountConserved, Past

(* Only Connect makes a client one that has come.                            *)
Came == {c \in Clients : peer[c] # "new"}

(* A handler, who serves those that have come, makes nobody come.            *)
LEMMA HandlerCame ==
  ASSUME TypeOK, NEW t \in Threads, Handler(t)
  PROVE  Came' = Came
<1> USE DEF TypeOK, netVars, mainVars, Came
<1>1. CASE Start(t)  BY <1>1 DEF Start
<1>2. CASE ReadLines(t)  BY <1>2 DEF ReadLines
<1>3. CASE ReadRequest(t)  BY <1>3 DEF ReadRequest
<1>4. CASE ReadFails(t)  BY <1>4 DEF ReadFails
<1>5. CASE ReadEnds(t)  BY <1>5 DEF ReadEnds
<1>6. CASE Lock(t)  BY <1>6 DEF Lock
<1>7. CASE Write(t)
  <2>1. CASE peer' = peer
    BY <2>1
  <2>2. CASE peer' # peer
    <3>1. PICK c : /\ peer[c] \in {"fin", "error"}
                   /\ \E q \in {"reset", "fin"} : peer' = [peer EXCEPT ![c] = q]
      BY <1>7, <2>2 DEF Write
    <3>2. PICK q \in {"reset", "fin"} : peer' = [peer EXCEPT ![c] = q]
      BY <3>1
    <3>3. \A d \in Clients : peer'[d] = IF d = c THEN q ELSE peer[d]
      BY <3>2
    <3> QED BY <3>1, <3>3
  <2> QED BY <2>1, <2>2
<1>8. CASE Unlock(t)  BY <1>8 DEF Unlock
<1>9. CASE Unlist(t)  BY <1>9 DEF Unlist
<1>10. CASE Close(t)  BY <1>10 DEF Close
<1> QED BY <1>1, <1>2, <1>3, <1>4, <1>5, <1>6, <1>7, <1>8, <1>9, <1>10 DEF Handler

(* The array's length and the threads past their removal, step by step.      *)
LEMMA NextCounted ==
  ASSUME TypeOK, Counted, [Next]_vars
  PROVE  Counted'
<1> USE DEF TypeOK
<1>0. /\ created \in Nat /\ Len(backlog) \in Nat /\ Len(clnt_socks) \in Nat
      /\ Past \in SUBSET Threads /\ Cardinality(Past) \in Nat /\ IsFiniteSet(Past)
      /\ Came \in SUBSET Clients /\ Cardinality(Came) \in Nat /\ IsFiniteSet(Came)
      /\ Cardinality(Came) =< Cardinality(Clients) /\ Cardinality(Clients) \in Nat
  BY Finite DEF Past, Came
<1>1. CASE Client
  <2>1. PICK c \in Clients : Connect(c) \/ Say(c) \/ Leave(c)
    BY <1>1 DEF Client
  <2>2. UNCHANGED <<mpc, created, hpc, clnt_socks>> /\ Past' = Past
    BY <1>1, ClientStep DEF mainVars, threadVars, Past
  <2>3. \/ Cardinality(Came') = Cardinality(Came) + 1 /\ Len(backlog') = Len(backlog) + 1
        \/ Came' = Came /\ backlog' = backlog
    <3>1. CASE Connect(c)
      <4>1. Came' = Came \cup {c} /\ c \notin Came
        BY <3>1 DEF Connect, Came
      <4>2. Cardinality(Came') = Cardinality(Came) + 1
        BY <1>0, <4>1, FS_AddElement
      <4>3. Len(backlog') = Len(backlog) + 1
        BY <3>1 DEF Connect
      <4> QED BY <4>2, <4>3
    <3>2. CASE Say(c) \/ Leave(c)
      BY <3>2 DEF Say, Leave, Came
    <3> QED BY <2>1, <3>1, <3>2
  <2>4. Accepted' = Accepted /\ Accepted \in Nat
    BY <1>0, <2>2 DEF Accepted
  <2>5. CreatedInOrder'
    <3>1. Accepted + Len(backlog) = Cardinality(Came)
      BY DEF Counted, CreatedInOrder, Came
    <3>2. Accepted' + Len(backlog') = Cardinality(Came')
      <4>1. CASE Came' = Came /\ backlog' = backlog
        BY <2>4, <3>1, <4>1
      <4>2. CASE Cardinality(Came') = Cardinality(Came) + 1 /\ Len(backlog') = Len(backlog) + 1
        BY <1>0, <2>4, <3>1, <4>2
      <4> QED BY <2>3, <4>1, <4>2
    <3> QED BY <2>2, <3>2 DEF Counted, CreatedInOrder, Came
  <2>6. CountConserved'
    BY <2>2 DEF Counted, CountConserved, Past
  <2> QED BY <2>5, <2>6 DEF Counted
<1>2. CASE Accept
  <2>1. /\ UNCHANGED <<created, hpc, clnt_socks, peer>> /\ Past' = Past /\ Came' = Came
        /\ mpc = "accept" /\ mpc' = "register" /\ Len(backlog') = Len(backlog) - 1
    BY <1>2 DEF Accept, threadVars, Past, Came
  <2>2. CreatedInOrder'
    BY <1>0, <2>1 DEF Counted, CreatedInOrder, Accepted, Came
  <2>3. CountConserved'
    BY <2>1 DEF Counted, CountConserved, Past
  <2> QED BY <2>2, <2>3 DEF Counted
<1>3. CASE Register
  <2>1. /\ UNCHANGED <<created, hpc, backlog, peer>> /\ Past' = Past /\ Came' = Came
        /\ mpc = "register" /\ mpc' = "create" /\ Len(clnt_socks') = Len(clnt_socks) + 1
    BY <1>3 DEF Register, threadVars, netVars, Past, Came
  <2>2. CreatedInOrder'
    BY <2>1 DEF Counted, CreatedInOrder, Accepted
  <2>3. CountConserved'
    BY <1>0, <2>1 DEF Counted, CountConserved, Past
  <2> QED BY <2>2, <2>3 DEF Counted
<1>4. CASE Create
  <2>1. /\ UNCHANGED <<clnt_socks, backlog, peer>> /\ Came' = Came
        /\ mpc = "create" /\ mpc' = "accept" /\ created' = created + 1
        /\ hpc' = [hpc EXCEPT ![created + 1] = "start"]
    BY <1>4 DEF Create, netVars, Came
  <2>2. created + 1 \in Threads
    BY <1>0, <2>1 DEF Counted, CreatedInOrder, Accepted, Came, Threads
  <2>3. \A t \in Threads : hpc'[t] = IF t = created + 1 THEN "start" ELSE hpc[t]
    BY <2>1, <2>2
  <2>4. hpc[created + 1] = "none"
    BY <1>0, <2>2 DEF Counted, CreatedInOrder
  <2>5. Past' = Past
    BY <2>3, <2>4 DEF Past
  <2>6. \A t \in Threads : hpc'[t] = "none" <=> t > created'
    <3> SUFFICES ASSUME NEW t \in Threads PROVE hpc'[t] = "none" <=> t > created'
      OBVIOUS
    <3>1. t \in Nat /\ (hpc[t] = "none" <=> t > created)
      BY DEF Counted, CreatedInOrder, Threads
    <3> QED BY <1>0, <2>1, <2>3, <3>1
  <2>7. CreatedInOrder'
    BY <1>0, <2>1, <2>6 DEF Counted, CreatedInOrder, Accepted, Came
  <2>8. CountConserved'
    <3>1. Len(clnt_socks) = created + 1 - Cardinality(Past)
      BY <2>1 DEF Counted, CountConserved, Past
    <3>2. Len(clnt_socks') = created' + 0 - Cardinality(Past')
      BY <1>0, <2>1, <2>5, <3>1
    <3> QED BY <2>1, <3>2 DEF CountConserved, Past
  <2> QED BY <2>7, <2>8 DEF Counted
<1>5. ASSUME NEW t \in Threads, Handler(t) PROVE Counted'
  <2>1. UNCHANGED <<backlog, mpc, created>> /\ Came' = Came
    BY <1>5, HandlerStep, HandlerCame
  <2>2. /\ hpc[t] \in {"start"} \cup Serving /\ hpc'[t] \in Serving \cup {"done"}
        /\ \A u \in Threads : u # t => hpc'[u] = hpc[u]
        /\ hpc'[t] = "done" <=> hpc[t] = "close"
        /\ hpc'[t] = "close" <=> hpc[t] = "remove"
    <3>1. hpc' = [hpc EXCEPT ![t] = hpc'[t]]
      BY <1>5, HandlerStep
    <3>2. \A u \in Threads : u # t => hpc'[u] = hpc[u]
      BY <3>1
    <3> QED BY <1>5, <3>2, HandlerStep
  <2>3. CreatedInOrder'
    <3>1. \A u \in Threads : hpc'[u] = "none" <=> hpc[u] = "none"
      BY <2>2 DEF Serving
    <3> QED BY <2>1, <3>1 DEF Counted, CreatedInOrder, Accepted, Came
  <2>4. CASE hpc[t] = "remove"
    <3>1. Past' = Past \cup {t} /\ t \notin Past
      BY <2>2, <2>4 DEF Past
    <3>2. Cardinality(Past') = Cardinality(Past) + 1
      BY <1>0, <3>1, FS_AddElement
    <3>3. Unlist(t)
      BY <1>5, <2>4, HandlerStep
    <3>4. Len(clnt_socks') = Len(clnt_socks) - 1
      BY <2>4, <3>3, OneFewer, SomeLeft
    <3>5. /\ Len(clnt_socks) = created + (IF mpc = "create" THEN 1 ELSE 0) - Cardinality(Past)
          /\ created \in Nat /\ Cardinality(Past) \in Nat
      BY <1>0 DEF Counted, CountConserved, Past
    <3>6. Len(clnt_socks') = created' + (IF mpc' = "create" THEN 1 ELSE 0) - Cardinality(Past')
      BY ONLY <2>1, <3>2, <3>4, <3>5
    <3>7. CountConserved'
      BY <3>6 DEF CountConserved, Past
    <3> QED BY <2>3, <3>7 DEF Counted
  <2>5. CASE hpc[t] # "remove"
    <3>1. Past' = Past
      BY <2>2, <2>5 DEF Past, Serving
    <3>2. clnt_socks' = clnt_socks
      <4>1. ~ Unlist(t)
        BY <2>5 DEF Unlist, HandlerTo
      <4> QED BY <1>5, <4>1, HandlerStep
    <3>3. CountConserved'
      BY <2>1, <3>1, <3>2 DEF Counted, CountConserved, Past
    <3> QED BY <2>3, <3>3 DEF Counted
  <2> QED BY <2>4, <2>5
<1>6. CASE UNCHANGED vars
  BY <1>6 DEF vars, netVars, mainVars, threadVars, Counted, CreatedInOrder, Accepted, CountConserved
<1> QED BY <1>1, <1>2, <1>3, <1>4, <1>5, <1>6 DEF Next, Main, Over

-----------------------------------------------------------------------------
(* The mutex.  A thread is in send_msg when it holds it; while it does, no   *)
(* broadcast begins.                                                         *)
LEMMA NextExclusion ==
  ASSUME TypeOK, Exclusion, Counted, [Next]_vars
  PROVE  Exclusion'
<1> USE DEF TypeOK, Exclusion, Serving
<1>0. \A t \in Threads : t # Free
  BY DEF Threads, Free
<1>1. CASE Client
  BY <1>1, ClientStep DEF mainVars, threadVars
<1>2. CASE Accept \/ Register
  BY <1>2 DEF Accept, Register, threadVars
<1>3. CASE Create
  <2>1. hpc[created + 1] = "none" \/ created + 1 \notin Threads
    BY DEF Counted, CreatedInOrder, Threads
  <2>2. \A t \in Threads : hpc'[t] = "send" <=> hpc[t] = "send"
    BY <1>3, <2>1 DEF Create
  <2> QED BY <1>3, <2>2 DEF Create
<1>4. ASSUME NEW t \in Threads, Lock(t) PROVE Exclusion'
  <2>1. /\ mutx = Free /\ mutx' = t
        /\ \A u \in Threads : hpc'[u] = IF u = t THEN "send" ELSE hpc[u]
        /\ number'[t] = Len(log) + 1
        /\ Len(log') = Len(log) + 1
    BY <1>4 DEF Lock, HandlerTo
  <2> QED BY <1>0, <2>1
<1>5. ASSUME NEW t \in Threads, Unlock(t) PROVE Exclusion'
  <2>1. /\ hpc[t] = "send" /\ mutx' = Free /\ UNCHANGED <<number, log>>
        /\ \A u \in Threads : hpc'[u] = IF u = t THEN "read" ELSE hpc[u]
    BY <1>5 DEF Unlock, HandlerTo
  <2>2. mutx = t
    BY <2>1
  <2> QED BY <1>0, <2>1, <2>2
<1>6. ASSUME NEW t \in Threads, Handler(t), ~ Lock(t), ~ Unlock(t) PROVE Exclusion'
  <2>1. /\ UNCHANGED <<mutx, number, log>> 
        /\ \A u \in Threads : hpc'[u] = "send" <=> hpc[u] = "send"
    <3>1. CASE Start(t)  BY <3>1 DEF Start, HandlerTo
    <3>2. CASE ReadLines(t)  BY <3>2 DEF ReadLines, HandlerTo
    <3>3. CASE ReadRequest(t)  BY <3>3 DEF ReadRequest, HandlerTo
    <3>4. CASE ReadFails(t)  BY <3>4 DEF ReadFails, HandlerTo
    <3>5. CASE ReadEnds(t)  BY <3>5 DEF ReadEnds, HandlerTo
    <3>6. CASE Write(t)  BY <3>6 DEF Write, HandlerTo
    <3>7. CASE Unlist(t)  BY <3>7 DEF Unlist, HandlerTo
    <3>8. CASE Close(t)  BY <3>8 DEF Close, HandlerTo
    <3> QED BY <1>6, <3>1, <3>2, <3>3, <3>4, <3>5, <3>6, <3>7, <3>8 DEF Handler
  <2> QED BY <2>1
<1>7. CASE UNCHANGED vars
  BY <1>7 DEF vars, threadVars
<1> QED BY <1>1, <1>2, <1>3, <1>4, <1>5, <1>6, <1>7 DEF Next, Main, Over

(* What is written is the number of the last broadcast, so the numbers never *)
(* fall: whoever writes, and whoever starts in between.                      *)
LEMMA NextOrdered ==
  ASSUME TypeOK, Exclusion, Ordered, [Next]_vars
  PROVE  Ordered'
<1> USE DEF TypeOK
<1>1. CASE UNCHANGED <<inbox, log>>
  BY <1>1 DEF Ordered, TotalOrder
<1>2. ASSUME NEW t \in Threads, Lock(t) PROVE Ordered'
  <2>1. inbox' = inbox /\ Len(log') = Len(log) + 1
    BY <1>2 DEF Lock, netVars
  <2>2. ASSUME NEW c \in Clients, NEW k \in 1 .. Len(inbox[c]) PROVE inbox[c][k] =< Len(log) + 1
    <3>1. inbox[c] \in Seq(Nat) /\ inbox[c][k] \in Nat /\ Len(log) \in Nat
      OBVIOUS
    <3>2. inbox[c][k] =< Len(log)
      BY DEF Ordered
    <3> QED BY <3>1, <3>2
  <2> QED BY <2>1, <2>2 DEF Ordered, TotalOrder
<1>3. ASSUME NEW t \in Threads, Write(t), ~ UNCHANGED inbox PROVE Ordered'
  <2>1. log' = log /\ number[t] = Len(log)
    BY <1>3 DEF Write, HandlerTo, Exclusion
  <2>2. PICK c : inbox' = [inbox EXCEPT ![c] = Append(inbox[c], number[t])]
    BY <1>3 DEF Write
  <2>3. ASSUME NEW d \in Clients
        PROVE  /\ \A k \in 1 .. Len(inbox'[d]) : inbox'[d][k] =< Len(log)
               /\ \A j, k \in 1 .. Len(inbox'[d]) : j < k => inbox'[d][j] =< inbox'[d][k]
    <3> DEFINE q == inbox[d]
    <3>1. /\ q \in Seq(Nat) /\ Len(log) \in Nat
          /\ \A k \in 1 .. Len(q) : q[k] =< Len(log)
          /\ \A j, k \in 1 .. Len(q) : j < k => q[j] =< q[k]
      BY DEF Ordered, TotalOrder
    <3>2. inbox'[d] = q \/ inbox'[d] = Append(q, Len(log))
      BY <2>1, <2>2
    <3> HIDE DEF q
    <3>3. CASE inbox'[d] = q
      BY <3>1, <3>3
    <3>4. CASE inbox'[d] = Append(q, Len(log))
      <4>1. /\ Len(inbox'[d]) = Len(q) + 1
            /\ \A k \in 1 .. Len(q) : inbox'[d][k] = q[k]
            /\ inbox'[d][Len(q) + 1] = Len(log)
        BY <3>1, <3>4
      <4>2. ASSUME NEW k \in 1 .. Len(q) + 1 PROVE k \in 1 .. Len(q) \/ k = Len(q) + 1
        <5>1. Len(q) \in Nat
          BY <3>1, LenProperties
        <5> QED BY <5>1, LastOrBefore
      <4>3. ASSUME NEW k \in 1 .. Len(q) + 1 PROVE inbox'[d][k] =< Len(log)
        <5>1. CASE k \in 1 .. Len(q)
          BY <3>1, <4>1, <5>1
        <5>2. CASE k = Len(q) + 1
          BY <3>1, <4>1, <5>2
        <5> QED BY <4>2, <5>1, <5>2
      <4>4. ASSUME NEW j \in 1 .. Len(q) + 1, NEW k \in 1 .. Len(q) + 1, j < k
            PROVE  inbox'[d][j] =< inbox'[d][k]
        <5>1. j \in 1 .. Len(q)
          BY <3>1, <4>4
        <5>2. CASE k \in 1 .. Len(q)
          BY <3>1, <4>1, <4>4, <5>1, <5>2
        <5>3. CASE k = Len(q) + 1
          BY <4>1, <4>3, <5>3
        <5> QED BY <4>2, <5>2, <5>3
      <4> QED BY <4>1, <4>3, <4>4
    <3> QED BY <3>2, <3>3, <3>4
  <2> QED BY <2>1, <2>3 DEF Ordered, TotalOrder
<1>4. CASE Client
  BY <1>1, <1>4, ClientStep
<1>5. CASE Main
  BY <1>1, <1>5 DEF Main, Accept, Register, Create, netVars
<1>6. ASSUME NEW t \in Threads, Handler(t), ~ Lock(t), ~ Write(t) PROVE Ordered'
  BY <1>1, <1>6 DEF Handler, Start, ReadLines, ReadRequest, ReadFails, ReadEnds, Unlock, Unlist,
                    Close, netVars
<1>7. ASSUME NEW t \in Threads, Write(t), UNCHANGED inbox PROVE Ordered'
  BY <1>1, <1>7 DEF Write
<1>8. CASE UNCHANGED vars
  BY <1>1, <1>8 DEF vars, netVars
<1> QED BY <1>2, <1>3, <1>4, <1>5, <1>6, <1>7, <1>8 DEF Next, Over

-----------------------------------------------------------------------------
(* Threads that start in time: a descriptor is handed to one thread, and     *)
(* stays a connection until that thread has closed it.                       *)
LEMMA NextInTime ==
  ASSUME TypeOK, Pointers, Counted, InTime, [Next]_vars
  PROVE  InTime'
<1> USE DEF TypeOK
<1> SUFFICES ASSUME prompt, prompt'
             PROVE  InTime'
  <2>1. prompt' = prompt
    BY DEF Next, Over, vars
  <2> QED BY <2>1 DEF InTime
<1>0. NoClient \notin Clients
  BY NoClientAssumption
<1>1. CASE UNCHANGED <<mpc, clnt_sock, hpc, sock, conn>>
  BY <1>1 DEF InTime, Handed
<1>2. CASE Client
  BY <1>1, <1>2, ClientStep DEF mainVars, threadVars
<1>3. CASE Accept
  <2>1. /\ UNCHANGED <<hpc, sock>> /\ mpc' = "register"
        /\ \A t \in Threads : hpc[t] # "start"
    BY <1>3 DEF Accept, threadVars
  <2>2. PICK f \in FDs : /\ conn[f] = NoClient /\ clnt_sock' = f
                         /\ conn' = [conn EXCEPT ![f] = Head(backlog)]
    BY <1>3 DEF Accept
  <2>3. Head(backlog) \in Clients
    BY <1>3 DEF Accept
  <2>4. \A g \in FDs : conn'[g] = IF g = f THEN Head(backlog) ELSE conn[g]
    BY <2>2
  <2>5. \A t \in Threads : hpc[t] \in Serving => sock[t] \in FDs /\ sock[t] # f
    BY <2>2 DEF InTime, Pointers
  <2>6. Head(backlog) # NoClient
    BY <1>0, <2>3
  <2>7. \A t \in Threads : hpc'[t] = hpc[t] /\ sock'[t] = sock[t]
    BY <2>1
  <2>8. \A t \in Threads : hpc[t] \in Serving => conn'[sock[t]] = conn[sock[t]]
    BY <2>4, <2>5
  <2> QED BY <2>1, <2>2, <2>4, <2>5, <2>6, <2>7, <2>8 DEF InTime, Handed
<1>4. CASE Register
  BY <1>4 DEF Register, netVars, threadVars, InTime, Handed
<1>5. CASE Create
  <2>1. /\ UNCHANGED <<sock, conn, clnt_sock>> /\ mpc = "create" /\ mpc' = "accept"
        /\ hpc' = [hpc EXCEPT ![created + 1] = "start"]
    BY <1>5 DEF Create, netVars
  <2>2. \A t \in Threads : hpc'[t] = IF t = created + 1 THEN "start" ELSE hpc[t]
    BY <2>1
  <2>3. \A t \in Threads : hpc[t] # "start"
    BY <2>1 DEF InTime
  <2>4. /\ conn[clnt_sock] # NoClient
        /\ \A t \in Threads : hpc[t] \in Serving => sock[t] # clnt_sock
    BY <2>1 DEF InTime, Handed
  <2>5. \A t \in Threads : hpc'[t] \in Serving => hpc[t] \in Serving
    BY <2>2 DEF Serving
  <2> QED BY <2>1, <2>2, <2>3, <2>4, <2>5 DEF InTime, Handed
<1>6. ASSUME NEW t \in Threads, Handler(t) PROVE InTime'
  <2>1. UNCHANGED <<mpc, clnt_sock>>
    BY <1>6, HandlerStep
  <2>2. /\ hpc[t] \in {"start"} \cup Serving /\ hpc'[t] \in Serving \cup {"done"}
        /\ \A u \in Threads : u # t => hpc'[u] = hpc[u]
        /\ hpc'[t] = "done" <=> hpc[t] = "close"
    <3>1. hpc' = [hpc EXCEPT ![t] = hpc'[t]]
      BY <1>6, HandlerStep
    <3>2. \A u \in Threads : u # t => hpc'[u] = hpc[u]
      BY <3>1
    <3> QED BY <1>6, <3>2, HandlerStep
  <2>3. "start" \notin Serving \cup {"done"} /\ "done" \notin Serving /\ "close" \in Serving
    BY DEF Serving
  <2>4. CASE hpc[t] = "start"
    <3>1. sock' = [sock EXCEPT ![t] = clnt_sock] /\ hpc'[t] = "read" /\ conn' = conn
      BY <1>6, <2>4, HandlerStep
    <3>2. \A u \in Threads : sock'[u] = IF u = t THEN clnt_sock ELSE sock[u]
      BY <3>1
    <3>3. /\ mpc = "accept" /\ \A u \in Threads : hpc[u] = "start" => u = t
          /\ conn[clnt_sock] # NoClient
          /\ \A u \in Threads : hpc[u] \in Serving => sock[u] # clnt_sock
      BY <2>4 DEF InTime, Handed
    <3>4. ~ Handed'
      BY <2>1, <2>2, <2>3, <3>3 DEF Handed
    <3>5. \A u \in Threads : u # t => (hpc'[u] \in Serving <=> hpc[u] \in Serving)
      BY <2>2
    <3>6. \A u \in Threads : hpc'[u] # "start"
      BY <2>2, <2>3, <3>3
    <3> QED BY <3>1, <3>2, <3>3, <3>4, <3>5, <3>6 DEF InTime
  <2>5. CASE hpc[t] \in Serving
    <3>1. sock' = sock
      BY <1>6, <2>3, <2>5, HandlerStep
    <3>2. \A u \in Threads : /\ hpc'[u] \in Serving => hpc[u] \in Serving
                             /\ hpc'[u] = "start" <=> hpc[u] = "start"
      BY <2>2, <2>3, <2>5
    <3>3. Handed' <=> Handed
      BY <2>1, <3>2 DEF Handed
    <3>4. CASE hpc[t] = "close"
      <4>1. conn' = [conn EXCEPT ![sock[t]] = NoClient] /\ sock[t] \in FDs
        BY <1>6, <2>5, <3>4, HandlerStep DEF Pointers
      <4>2. ~ (hpc'[t] \in Serving)
        BY <2>2, <2>3, <3>4
      <4>3. \A u \in Threads : hpc'[u] \in Serving =>
               /\ hpc[u] \in Serving /\ sock[u] \in FDs /\ conn'[sock[u]] = conn[sock[u]]
        BY <2>5, <3>2, <4>1, <4>2 DEF InTime, Pointers
      <4>4. Handed => /\ conn[clnt_sock] # NoClient
                      /\ \A u \in Threads : hpc[u] \in Serving => sock[u] # clnt_sock
        BY DEF InTime
      <4>5. Handed => clnt_sock \in FDs /\ conn'[clnt_sock] = conn[clnt_sock]
        <5>1. Handed => clnt_sock \in FDs
          BY DEF Pointers, Handed
        <5> QED BY <2>5, <4>1, <4>4, <5>1
      <4> QED BY <2>1, <3>1, <3>2, <3>3, <4>3, <4>4, <4>5 DEF InTime
    <3>5. CASE hpc[t] # "close"
      <4>1. conn' = conn
        BY <1>6, <3>5, HandlerStep
      <4> QED BY <2>1, <3>1, <3>2, <3>3, <4>1 DEF InTime
    <3> QED BY <3>4, <3>5
  <2> QED BY <2>2, <2>4, <2>5
<1>7. CASE UNCHANGED vars
  BY <1>1, <1>7 DEF vars, netVars, mainVars, threadVars
<1> QED BY <1>2, <1>3, <1>4, <1>5, <1>6, <1>7 DEF Next, Main, Over

-----------------------------------------------------------------------------
(* A handler that passes its removal takes out its own descriptor.           *)
LEMMA TakesOwn ==
  ASSUME TypeOK, Pointers, Listing, prompt, server = "final",
         NEW t \in Threads, Unlist(t)
  PROVE  /\ sock[t] \in FDs /\ Has(clnt_socks, sock[t])
         /\ Distinct(clnt_socks')
         /\ \A f : Has(clnt_socks', f) <=> Has(clnt_socks, f) /\ f # sock[t]
<1>1. clnt_socks \in Seq(FDs) /\ Distinct(clnt_socks)
  BY DEF TypeOK, Listing
<1>2. sock[t] \in FDs /\ sock[t] \in Current
  BY DEF Unlist, HandlerTo, Serving, Pointers, Current
<1>3. Has(clnt_socks, sock[t])
  BY <1>2 DEF Listing
<1>4. PICK k \in 1 .. Len(clnt_socks) : clnt_socks[k] = sock[t] /\ clnt_socks' = CloseGap(clnt_socks, k)
  BY <1>3 DEF Unlist, Has
<1>5. clnt_socks' = RemoveAt(clnt_socks, k)
  BY <1>4 DEF CloseGap
<1> QED BY <1>1, <1>2, <1>3, <1>4, <1>5, RemoveHas

(* The array holds what has been registered and not yet removed.             *)
LEMMA NextListing ==
  ASSUME TypeOK, Pointers, Counted, InTime, Listing, [Next]_vars
  PROVE  Listing'
<1> USE DEF TypeOK
<1> SUFFICES ASSUME prompt, server = "final", prompt', server' = "final"
             PROVE  Listing'
  <2>1. prompt' = prompt /\ server' = server
    BY DEF Next, Over, vars
  <2> QED BY <2>1 DEF Listing
<1>0. Distinct(clnt_socks) /\ \A f \in FDs : Has(clnt_socks, f) <=> f \in Current
  BY DEF Listing
<1>1. CASE Current' = Current /\ clnt_socks' = clnt_socks
  BY <1>0, <1>1 DEF Listing
<1>2. CASE Client
  <2>1. UNCHANGED <<mpc, clnt_sock, hpc, sock, clnt_socks>>
    BY <1>2, ClientStep DEF mainVars, threadVars
  <2>2. Current' = Current
    BY <2>1 DEF Current, Handed
  <2> QED BY <1>1, <2>1, <2>2
<1>3. CASE Accept
  <2>1. /\ UNCHANGED <<hpc, sock, clnt_socks>> /\ mpc = "accept" /\ mpc' = "register"
        /\ \A t \in Threads : hpc[t] # "start"
    BY <1>3 DEF Accept, threadVars
  <2>2. Current' = Current
    BY <2>1 DEF Current, Handed
  <2> QED BY <1>1, <2>1, <2>2
<1>4. CASE Register
  <2>1. /\ UNCHANGED <<hpc, sock, clnt_sock>> /\ mpc = "register" /\ mpc' = "create"
        /\ clnt_socks' = Append(clnt_socks, clnt_sock)
    BY <1>4 DEF Register, threadVars
  <2>2. clnt_sock \in FDs
    BY <2>1 DEF Pointers
  <2>3. \A t \in Threads : hpc[t] \in Serving => sock[t] # clnt_sock
    BY <2>1 DEF InTime, Handed
  <2>4. clnt_sock \notin Current
    BY <2>1, <2>3 DEF Current
  <2>5. Current' = Current \cup {clnt_sock}
    BY <2>1 DEF Current, Handed
  <2>6. ~ Has(clnt_socks, clnt_sock)
    BY <1>0, <2>2, <2>4
  <2>7. /\ Distinct(clnt_socks')
        /\ \A f : Has(clnt_socks', f) <=> Has(clnt_socks, f) \/ f = clnt_sock
    BY <1>0, <2>1, <2>2, <2>6, AppendHas
  <2> QED BY <1>0, <2>5, <2>7 DEF Listing
<1>5. CASE Create
  <2>1. /\ UNCHANGED <<sock, clnt_sock, clnt_socks>> /\ mpc = "create" /\ mpc' = "accept"
        /\ hpc' = [hpc EXCEPT ![created + 1] = "start"]
    BY <1>5 DEF Create
  <2>2. created + 1 \in Threads
    <3>1. created \in Nat /\ Len(backlog) \in Nat /\ Cardinality(Came) =< Cardinality(Clients)
          /\ Cardinality(Came) \in Nat /\ Cardinality(Clients) \in Nat
      BY Finite DEF Came
    <3>2. created + 1 + Len(backlog) = Cardinality(Came)
      BY <2>1 DEF Counted, CreatedInOrder, Accepted, Came
    <3> QED BY <3>1, <3>2 DEF Threads
  <2>3. hpc[created + 1] = "none"
    BY <2>2 DEF Counted, CreatedInOrder
  <2>4. \A t \in Threads : hpc'[t] = IF t = created + 1 THEN "start" ELSE hpc[t]
    BY <2>1
  <2>5. Handed /\ Handed'
    BY <2>1, <2>2, <2>4 DEF Handed
  <2>6. {u \in Threads : hpc'[u] \in Serving \ {"close"}}
          = {u \in Threads : hpc[u] \in Serving \ {"close"}}
    BY <2>3, <2>4 DEF Serving
  <2>7. Current' = Current
    BY <2>1, <2>5, <2>6 DEF Current
  <2> QED BY <1>1, <2>1, <2>7
<1>6. ASSUME NEW t \in Threads, Handler(t) PROVE Listing'
  <2>1. UNCHANGED <<mpc, clnt_sock>>
    BY <1>6, HandlerStep
  <2>2. /\ hpc[t] \in {"start"} \cup Serving /\ hpc'[t] \in Serving \cup {"done"}
        /\ \A u \in Threads : u # t => hpc'[u] = hpc[u]
        /\ hpc'[t] = "done" <=> hpc[t] = "close"
        /\ hpc'[t] = "close" <=> hpc[t] = "remove"
    <3>1. hpc' = [hpc EXCEPT ![t] = hpc'[t]]
      BY <1>6, HandlerStep
    <3>2. \A u \in Threads : u # t => hpc'[u] = hpc[u]
      BY <3>1
    <3> QED BY <1>6, <3>2, HandlerStep
  <2>3. CASE hpc[t] = "start"
    <3>1. sock' = [sock EXCEPT ![t] = clnt_sock] /\ hpc'[t] = "read"
      BY <1>6, <2>3, HandlerStep
    <3>2. clnt_socks' = clnt_socks
      <4>1. ~ Unlist(t)
        BY <2>3 DEF Unlist, HandlerTo
      <4> QED BY <1>6, <4>1, HandlerStep
    <3>3. \A u \in Threads : sock'[u] = IF u = t THEN clnt_sock ELSE sock[u]
      BY <3>1
    <3>4. mpc = "accept" /\ \A u \in Threads : hpc[u] = "start" => u = t
      BY <2>3 DEF InTime
    <3>5. Handed /\ ~ Handed'
      BY <2>1, <2>2, <2>3, <3>1, <3>4 DEF Handed
    <3>6. Current = {sock[u] : u \in {v \in Threads : hpc[v] \in Serving \ {"close"}}} \cup {clnt_sock}
      BY <3>4, <3>5 DEF Current
    <3>7. Current' = {sock'[u] : u \in {v \in Threads : hpc'[v] \in Serving \ {"close"}}}
      BY <3>5 DEF Current
    <3>8. {v \in Threads : hpc'[v] \in Serving \ {"close"}}
            = {v \in Threads : hpc[v] \in Serving \ {"close"}} \cup {t}
      BY <2>2, <3>1 DEF Serving
    <3>9. t \notin {v \in Threads : hpc[v] \in Serving \ {"close"}}
      BY <2>3 DEF Serving
    <3> DEFINE on == {v \in Threads : hpc[v] \in Serving \ {"close"}}
    <3>10. Current' = Current
      <4>1. /\ on \subseteq Threads /\ t \notin on
            /\ Current = {sock[u] : u \in on} \cup {clnt_sock}
            /\ Current' = {sock'[u] : u \in on \cup {t}}
        BY <3>6, <3>7, <3>8, <3>9
      <4> HIDE DEF on
      <4>2. {sock'[u] : u \in on \cup {t}} = {sock'[u] : u \in on} \cup {sock'[t]}
        OBVIOUS
      <4>3. {sock'[u] : u \in on} = {sock[u] : u \in on}
        BY <3>3, <4>1
      <4> QED BY <3>3, <4>1, <4>2, <4>3
    <3> QED BY <1>1, <3>2, <3>10
  <2>4. ASSUME hpc[t] \in Serving
        PROVE  /\ sock' = sock /\ (Handed' <=> Handed)
               /\ Handed => sock[t] # clnt_sock
               /\ \A u \in Threads : u # t /\ hpc[u] \in Serving => sock[u] # sock[t]
    <3>1. sock' = sock
      BY <1>6, <2>4, HandlerStep DEF Serving
    <3>2. \A u \in Threads : hpc'[u] = "start" <=> hpc[u] = "start"
      BY <2>2, <2>4 DEF Serving
    <3> QED BY <2>1, <2>4, <3>1, <3>2 DEF InTime, Handed
  <2>5. CASE hpc[t] = "remove"
    <3>1. Unlist(t)
      BY <1>6, <2>5, HandlerStep
    <3>2. {v \in Threads : hpc'[v] \in Serving \ {"close"}}
            = {v \in Threads : hpc[v] \in Serving \ {"close"}} \ {t}
      BY <2>2, <2>5 DEF Serving
    <3>3. Current' = Current \ {sock[t]}
      BY <2>1, <2>4, <2>5, <3>2 DEF Current, Serving
    <3> QED BY <1>0, <3>1, <3>3, TakesOwn DEF Listing
  <2>6. CASE hpc[t] \in Serving \ {"remove"}
    <3>1. clnt_socks' = clnt_socks
      <4>1. ~ Unlist(t)
        BY <2>6 DEF Unlist, HandlerTo
      <4> QED BY <1>6, <4>1, HandlerStep
    <3>2. {v \in Threads : hpc'[v] \in Serving \ {"close"}}
            = {v \in Threads : hpc[v] \in Serving \ {"close"}}
      BY <2>2, <2>6 DEF Serving
    <3>3. Current' = Current
      BY <2>1, <2>4, <2>6, <3>2 DEF Current
    <3> QED BY <1>1, <3>1, <3>3
  <2> QED BY <2>2, <2>3, <2>5, <2>6
<1>7. CASE UNCHANGED vars
  <2>1. Current' = Current /\ clnt_socks' = clnt_socks
    BY <1>7 DEF vars, mainVars, threadVars, Current, Handed
  <2> QED BY <1>1, <2>1
<1> QED BY <1>2, <1>3, <1>4, <1>5, <1>6, <1>7 DEF Next, Main, Over

-----------------------------------------------------------------------------
(* A broadcast's message is one.                                             *)
LEMMA LogMsg ==
  ASSUME TypeOK
  PROVE  \A j \in 1 .. Len(log) : log[j].msg \in Msgs
<1> SUFFICES ASSUME NEW j \in 1 .. Len(log) PROVE log[j].msg \in Msgs
  OBVIOUS
<1>1. log \in Seq([msg : Msgs, members : SUBSET Clients])
  BY DEF TypeOK
<1>2. log[j] \in [msg : Msgs, members : SUBSET Clients]
  BY <1>1, ElementOfSeq
<1> QED BY <1>2

(* Who still asks what.  ReadRequest alone makes a thread ask, and what it   *)
(* asks begins where nothing has been read before.                           *)
LEMMA NextReadOnce ==
  ASSUME TypeOK, Pointers, Counted, ReadOnce, [Next]_vars
  PROVE  ReadOnce'
<1> USE DEF TypeOK
<1> SUFFICES ASSUME server = "calc", server' = "calc"
             PROVE  ReadOnce'
  <2>1. server' = server
    BY DEF Next, Over, vars
  <2> QED BY <2>1 DEF ReadOnce
<1> DEFINE Old(m, h) == m.first =< h[m.from]
<1>0. /\ \A t \in Threads : AsksNew(t) =>
             /\ Old(msg[t], heard)
             /\ \A u \in Threads : AsksNew(u) /\ msg[u] = msg[t] => u = t
             /\ \A j \in 1 .. Len(log) : log[j].msg # msg[t]
      /\ \A j \in 1 .. Len(log) : log[j].msg # NoMsg => Old(log[j].msg, heard)
      /\ \A j, k \in 1 .. Len(log) : j < k /\ log[j].msg # NoMsg => log[j].msg # log[k].msg
  BY DEF ReadOnce, AnsweredOnce
<1>1. ASSUME UNCHANGED <<heard, log>>,
             \A t \in Threads : AsksNew(t)' => AsksNew(t) /\ msg'[t] = msg[t]
      PROVE  ReadOnce'
  BY <1>0, <1>1 DEF ReadOnce, AnsweredOnce
<1>2. CASE Client
  BY <1>1, <1>2, ClientStep DEF mainVars, threadVars, AsksNew
<1>3. CASE Accept \/ Register
  BY <1>1, <1>3 DEF Accept, Register, netVars, threadVars, AsksNew
<1>4. CASE Create
  <2>1. UNCHANGED <<heard, log, msg>> /\ hpc' = [hpc EXCEPT ![created + 1] = "start"]
    BY <1>4 DEF Create, netVars
  <2>2. \A t \in Threads : hpc'[t] = "lock" => hpc[t] = "lock"
    BY <2>1
  <2> QED BY <1>1, <2>1, <2>2 DEF AsksNew
<1>5. ASSUME NEW t \in Threads, ReadRequest(t) PROVE ReadOnce'
  <2> DEFINE c == conn[sock[t]]
             n == heard[c] + 1
  <2>1. hpc[t] = "read" /\ c \in Clients /\ heard[c] \in Nat /\ log' = log
    BY <1>5 DEF ReadRequest, HandlerTo, Pointers, Serving
  <2>2. PICK k \in heard[c] + 1 .. heard[c] + 2 :
           /\ heard' = [heard EXCEPT ![c] = k]
           /\ \/ msg' = [msg EXCEPT ![t] = [from |-> c, first |-> n, last |-> k]]
              \/ msg' = [msg EXCEPT ![t] = NoMsg]
    BY <1>5, <2>1 DEF ReadRequest
  <2>3. \A u \in Threads : hpc'[u] = IF u = t THEN "lock" ELSE hpc[u]
    BY <1>5 DEF ReadRequest, HandlerTo
  <2>4. /\ \A d \in Clients : heard'[d] \in Nat /\ heard[d] \in Nat /\ heard[d] =< heard'[d]
        /\ heard'[c] >= n
    <3>1. heard \in [Clients -> Nat] /\ k \in Nat /\ k >= n /\ n = heard[c] + 1
      BY <2>1, <2>2
    <3>2. \A d \in Clients : heard'[d] = IF d = c THEN k ELSE heard[d]
      BY <2>2, <3>1
    <3> HIDE DEF c, n
    <3> QED BY ONLY <2>1, <3>1, <3>2
  <2>5. /\ \A u \in Threads : u # t => msg'[u] = msg[u] /\ (AsksNew(u)' <=> AsksNew(u))
        /\ AsksNew(t)' => msg'[t] = [from |-> c, first |-> n, last |-> k]
        /\ ~ AsksNew(t)
    <3>1. \A u \in Threads : u # t => msg'[u] = msg[u]
      BY <2>2
    <3>2. msg'[t] = NoMsg \/ msg'[t] = [from |-> c, first |-> n, last |-> k]
      BY <2>2
    <3> QED BY <2>1, <2>3, <3>1, <3>2 DEF AsksNew
  <2>6. ASSUME NEW m \in Msgs, m # NoMsg, Old(m, heard)
        PROVE  /\ Old(m, heard')
               /\ m # [from |-> c, first |-> n, last |-> k]
    <3>1. m.from \in Clients /\ m.first \in Nat
      BY <2>6 DEF Msgs
    <3>2. m.first =< heard[m.from]
      BY <2>6
    <3>3. m.first =< heard'[m.from]
      <4>1. heard[m.from] \in Nat /\ heard'[m.from] \in Nat /\ heard[m.from] =< heard'[m.from]
        BY <2>4, <3>1
      <4> QED BY ONLY <3>1, <3>2, <4>1
    <3>4. m.from = c => m.first # n
      BY <2>1, <3>1, <3>2
    <3> QED BY <3>3, <3>4
  <2>7. /\ \A u \in Threads : msg[u] \in Msgs /\ (AsksNew(u) => msg[u] # NoMsg)
        /\ \A j \in 1 .. Len(log) : log[j].msg \in Msgs
    <3>1. \A u \in Threads : msg[u] \in Msgs /\ (AsksNew(u) => msg[u] # NoMsg)
      BY DEF AsksNew
    <3> QED BY <3>1, LogMsg
  <2>8. AsksNew(t)' => Old(msg'[t], heard')
    BY <2>1, <2>4, <2>5
  <2> DEFINE new == [from |-> c, first |-> n, last |-> k]
  <2>9. new # NoMsg
    BY <2>1, NoClientAssumption DEF NoMsg
  <2> HIDE DEF Old, new, n
  <2>10. \A u \in Threads : AsksNew(u)' =>
            /\ Old(msg'[u], heard')
            /\ \A v \in Threads : AsksNew(v)' /\ msg'[v] = msg'[u] => v = u
            /\ \A j \in 1 .. Len(log) : log[j].msg # msg'[u]
    <3> SUFFICES ASSUME NEW u \in Threads, AsksNew(u)'
                 PROVE  /\ Old(msg'[u], heard')
                        /\ \A v \in Threads : AsksNew(v)' /\ msg'[v] = msg'[u] => v = u
                        /\ \A j \in 1 .. Len(log) : log[j].msg # msg'[u]
      OBVIOUS
    <3>1. \A v \in Threads : v # t /\ AsksNew(v) => msg[v] # new /\ Old(msg[v], heard')
      BY <1>0, <2>6, <2>7 DEF new
    <3>2. \A j \in 1 .. Len(log) : log[j].msg # new
      BY <1>0, <2>6, <2>7, <2>9 DEF new
    <3>3. CASE u = t
      <4>1. msg'[u] = new
        BY <2>5, <3>3 DEF new
      <4> QED BY <2>5, <2>8, <3>1, <3>2, <3>3, <4>1
    <3>4. CASE u # t
      <4>1. AsksNew(u) /\ msg'[u] = msg[u]
        BY <2>5, <3>4
      <4>2. AsksNew(t)' => msg'[t] = new
        BY <2>5 DEF new
      <4> QED BY <1>0, <2>5, <3>1, <3>4, <4>1, <4>2
    <3> QED BY <3>3, <3>4
  <2>11. \A j \in 1 .. Len(log) : log[j].msg # NoMsg => Old(log[j].msg, heard')
    BY <1>0, <2>6, <2>7
  <2> QED BY <1>0, <2>1, <2>10, <2>11 DEF ReadOnce, AnsweredOnce, Old
<1>6. ASSUME NEW t \in Threads, Lock(t) PROVE ReadOnce'
  <2>1. /\ hpc[t] = "lock" /\ UNCHANGED <<heard, msg>>
        /\ \A u \in Threads : hpc'[u] = IF u = t THEN "send" ELSE hpc[u]
    BY <1>6 DEF Lock, HandlerTo, netVars
  <2>2. /\ Len(log) \in Nat /\ Len(log') = Len(log) + 1 /\ log'[Len(log) + 1].msg = msg[t]
        /\ \A j \in 1 .. Len(log) : log'[j] = log[j]
    BY <1>6 DEF Lock
  <2>3. \A u \in Threads : AsksNew(u)' => AsksNew(u) /\ u # t
    BY <2>1 DEF AsksNew
  <2>4. msg[t] # NoMsg => AsksNew(t)
    BY <2>1 DEF AsksNew
  <2>5. ASSUME NEW j \in 1 .. Len(log) + 1
        PROVE  /\ log'[j].msg # NoMsg => Old(log'[j].msg, heard)
               /\ \A u \in Threads : AsksNew(u) /\ u # t => log'[j].msg # msg[u]
    <3>1. CASE j \in 1 .. Len(log)
      BY <1>0, <2>2, <3>1
    <3>2. CASE j = Len(log) + 1
      <4>1. \A u \in Threads : AsksNew(u) /\ u # t => msg[t] # msg[u]
        BY <1>0, <2>4 DEF AsksNew
      <4> QED BY <1>0, <2>2, <2>4, <3>2, <4>1
    <3> QED BY <2>2, <3>1, <3>2, LastOrBefore
  <2>6. ASSUME NEW j \in 1 .. Len(log) + 1, NEW k \in 1 .. Len(log) + 1, j < k,
               log'[j].msg # NoMsg
        PROVE  log'[j].msg # log'[k].msg
    <3>1. j \in 1 .. Len(log)
      BY <2>2, <2>6
    <3>2. CASE k \in 1 .. Len(log)
      BY <1>0, <2>2, <2>6, <3>1, <3>2
    <3>3. CASE k = Len(log) + 1
      <4>1. log'[j].msg = log[j].msg
        BY <2>2, <3>1
      <4>2. CASE msg[t] = NoMsg
        BY <2>2, <2>6, <3>3, <4>2
      <4>3. CASE msg[t] # NoMsg
        BY <1>0, <2>2, <2>4, <3>1, <3>3, <4>1, <4>3
      <4> QED BY <4>2, <4>3
    <3> QED BY <2>2, <3>2, <3>3, LastOrBefore
  <2> HIDE DEF Old
  <2>7. \A u \in Threads : AsksNew(u)' =>
          /\ Old(msg'[u], heard')
          /\ \A v \in Threads : AsksNew(v)' /\ msg'[v] = msg'[u] => v = u
          /\ \A j \in 1 .. Len(log') : log'[j].msg # msg'[u]
    BY <1>0, <2>1, <2>2, <2>3, <2>5
  <2>8. \A j \in 1 .. Len(log') : log'[j].msg # NoMsg => Old(log'[j].msg, heard')
    BY <2>1, <2>2, <2>5
  <2>9. \A j, k \in 1 .. Len(log') : j < k /\ log'[j].msg # NoMsg => log'[j].msg # log'[k].msg
    BY <2>2, <2>6
  <2> QED BY <2>7, <2>8, <2>9 DEF ReadOnce, AnsweredOnce, Old
<1>7. ASSUME NEW t \in Threads, Handler(t), ~ ReadRequest(t), ~ Lock(t) PROVE ReadOnce'
  <2> USE DEF HandlerTo, AsksNew, netVars
  <2>1. CASE Start(t)  BY <1>1, <2>1 DEF Start
  <2>2. CASE ReadLines(t)  BY <2>2 DEF ReadLines
  <2>3. CASE ReadFails(t)  BY <1>1, <2>3 DEF ReadFails
  <2>4. CASE ReadEnds(t)  BY <1>1, <2>4 DEF ReadEnds
  <2>5. CASE Write(t)  BY <1>1, <2>5 DEF Write
  <2>6. CASE Unlock(t)  BY <1>1, <2>6 DEF Unlock
  <2>7. CASE Unlist(t)  BY <1>1, <2>7 DEF Unlist
  <2>8. CASE Close(t)  BY <1>1, <2>8 DEF Close
  <2> QED BY <1>7, <2>1, <2>2, <2>3, <2>4, <2>5, <2>6, <2>7, <2>8 DEF Handler
<1>8. CASE UNCHANGED vars
  BY <1>1, <1>8 DEF vars, netVars, threadVars, AsksNew
<1> QED BY <1>2, <1>3, <1>4, <1>5, <1>6, <1>7, <1>8 DEF Next, Main, Over

-----------------------------------------------------------------------------
(* The program starts in the invariant.                                      *)
LEMMA InitIInv == Init => IInv
<1> SUFFICES ASSUME Init PROVE IInv
  OBVIOUS
<1>1. TypeOK
  <2>1. NoMsg \in Msgs
    BY DEF Msgs
  <2>2. << >> \in Seq([msg : Msgs, members : SUBSET Clients])
    OBVIOUS
  <2>3. /\ server \in {"final", "week10", "calc"} /\ prompt \in BOOLEAN
        /\ peer \in [Clients -> {"new", "open", "fin", "error", "reset"}]
        /\ said \in [Clients -> Nat] /\ heard \in [Clients -> Nat]
        /\ inbox \in [Clients -> Seq(Nat)] /\ backlog \in Seq(Clients)
        /\ conn \in [FDs -> Clients \cup {NoClient}] /\ alive \in BOOLEAN
    BY ChatAssumption DEF Init
  <2>4. /\ clnt_socks \in Seq(FDs) /\ mutx \in Threads \cup {Free}
        /\ mpc \in {"accept", "register", "create"} /\ clnt_sock \in FDs \cup {0}
        /\ created \in Nat /\ sock \in [Threads -> FDs \cup {0}]
        /\ hpc \in [Threads -> {"none", "start", "done"} \cup Serving]
        /\ next \in [Threads -> Nat] /\ number \in [Threads -> Nat]
        /\ joined \in SUBSET Clients
    BY DEF Init
  <2>5. msg \in [Threads -> Msgs] /\ log \in Seq([msg : Msgs, members : SUBSET Clients])
    BY <2>1, <2>2 DEF Init
  <2> QED BY <2>3, <2>4, <2>5 DEF TypeOK
<1>2. Pointers
  BY DEF Init, Pointers, Serving
<1>3. Counted
  <2>1. {c \in Clients : peer[c] # "new"} = {} /\ {t \in Threads : hpc[t] \in {"close", "done"}} = {}
    BY DEF Init
  <2>2. Cardinality({}) = 0
    BY FS_EmptySet
  <2>3. CreatedInOrder
    <3>1. \A t \in Threads : hpc[t] = "none" /\ t > 0
      BY DEF Init, Threads
    <3>2. Accepted = 0 /\ backlog = << >> /\ created = 0
      BY DEF Init, Accepted
    <3>3. Accepted + Len(backlog) = Cardinality({c \in Clients : peer[c] # "new"})
      <4>1. Accepted + Len(backlog) = 0
        BY <3>2
      <4>2. Cardinality({c \in Clients : peer[c] # "new"}) = 0
        BY <2>1, <2>2, Zenon
      <4> QED BY <4>1, <4>2
    <3> QED BY <3>1, <3>2, <3>3 DEF CreatedInOrder
  <2>4. CountConserved
    <3>1. Len(clnt_socks) = 0 /\ created = 0 /\ mpc # "create"
      BY DEF Init
    <3>2. Cardinality({t \in Threads : hpc[t] \in {"close", "done"}}) = 0
      BY <2>1, <2>2, Zenon
    <3> QED BY <3>1, <3>2 DEF CountConserved
  <2> QED BY <2>3, <2>4 DEF Counted
<1>4. Exclusion
  BY DEF Init, Exclusion, Threads, Free
<1>5. Ordered
  BY DEF Init, Ordered, TotalOrder
<1>6. InTime
  BY DEF Init, InTime, Handed, Serving
<1>7. Listing
  <2>1. Current = {}
    BY DEF Init, Current, Handed, Serving
  <2>2. Distinct(clnt_socks) /\ \A f : ~ Has(clnt_socks, f)
    BY DEF Init, Distinct, Has
  <2> QED BY <2>1, <2>2 DEF Listing
<1>8. ReadOnce
  BY DEF Init, ReadOnce, AsksNew, AnsweredOnce
<1> QED BY <1>1, <1>2, <1>3, <1>4, <1>5, <1>6, <1>7, <1>8 DEF IInv

(* Every step of every thread keeps it.                                      *)
LEMMA NextIInv ==
  ASSUME IInv, [Next]_vars
  PROVE  IInv'
BY NextTypeOK, NextPointers, NextCounted, NextExclusion, NextOrdered, NextInTime, NextListing,
   NextReadOnce DEF IInv

(* The invariant holds in every behaviour of every one of the servers.       *)
THEOREM Inductive == Spec => []IInv
<1>1. Init => IInv
  BY InitIInv
<1>2. IInv /\ [Next]_vars => IInv'
  BY NextIInv
<1> QED BY <1>1, <1>2, PTL DEF Spec

(* chat_serv.c, week10/calc_serv.c: the variables keep their types, and every*)
(* descriptor that a thread works on is one.                                 *)
THEOREM TypeCorrect == Spec => [](TypeOK /\ Pointers)
<1>1. IInv => TypeOK /\ Pointers
  BY DEF IInv
<1> QED BY <1>1, Inductive, PTL

(* clnt_cnt is the number of connections registered and not yet removed,     *)
(* though the older loop takes out another's entry and a late thread may not *)
(* find its own.                                                             *)
THEOREM CountCorrect == Spec => []CountConserved
<1>1. IInv => CountConserved
  BY DEF IInv, Counted
<1> QED BY <1>1, Inductive, PTL

(* The mutex puts the broadcasts in one order for every client.              *)
THEOREM OrderCorrect == Spec => []TotalOrder
<1>1. IInv => TotalOrder
  BY DEF IInv, Ordered
<1> QED BY <1>1, Inductive, PTL

(* Threads that read clnt_sock in time serve a descriptor each.              *)
THEOREM HandlersCorrect == Spec => []OneHandlerEach
<1>1. IInv => OneHandlerEach
  <2> SUFFICES ASSUME IInv, prompt PROVE OneHandlerEach
    BY DEF OneHandlerEach
  <2>1. server = "final" => Distinct(clnt_socks)
    BY DEF IInv, Listing
  <2>2. \A t, u \in Threads : hpc[t] \in Serving /\ hpc[u] \in Serving /\ sock[t] = sock[u] => t = u
    BY DEF IInv, InTime
  <2> QED BY <2>1, <2>2 DEF OneHandlerEach, Distinct, Serving
<1> QED BY <1>1, Inductive, PTL

(* The calculator answers a calculation no more than once, whatever it reads *)
(* of a request, and though a failed read makes it write again.              *)
THEOREM AnswersCorrect == Spec => []AnsweredOnce
<1>1. IInv => AnsweredOnce
  BY DEF IInv, ReadOnce, AnsweredOnce
<1> QED BY <1>1, Inductive, PTL

(* A handler in time takes its own descriptor out of clnt_socks, and leaves  *)
(* every other one: an action property.                                      *)
THEOREM RemovalCorrect == Spec => RemovesOwn
<1> DEFINE Own(t) == prompt /\ server = "final" /\ hpc[t] = "remove" /\ hpc'[t] = "close" =>
                       /\ sock[t] \in ToSet(clnt_socks)
                       /\ ToSet(clnt_socks') = ToSet(clnt_socks) \ {sock[t]}
<1>1. ASSUME IInv, [Next]_vars, NEW t \in Threads PROVE Own(t)
  <2> SUFFICES ASSUME prompt, server = "final", hpc[t] = "remove", hpc'[t] = "close"
               PROVE  /\ sock[t] \in ToSet(clnt_socks)
                      /\ ToSet(clnt_socks') = ToSet(clnt_socks) \ {sock[t]}
    OBVIOUS
  <2>0. TypeOK /\ Pointers /\ Listing
    BY <1>1 DEF IInv
  <2>1. Unlist(t)
    <3>1. CASE Client  BY <2>0, <3>1, ClientStep DEF threadVars
    <3>2. CASE Accept \/ Register  BY <3>2 DEF Accept, Register, threadVars
    <3>3. CASE Create
      <4>1. hpc' = [hpc EXCEPT ![created + 1] = "start"]
        BY <3>3 DEF Create
      <4> QED BY <2>0, <4>1 DEF TypeOK
    <3>4. ASSUME NEW u \in Threads, Handler(u) PROVE Unlist(t)
      <4>1. hpc' = [hpc EXCEPT ![u] = hpc'[u]]
        BY <2>0, <3>4, HandlerStep
      <4>2. u = t
        BY <2>0, <4>1 DEF TypeOK
      <4> QED BY <2>0, <3>4, <4>2, HandlerStep
    <3>5. CASE UNCHANGED vars  BY <3>5 DEF vars, threadVars
    <3> QED BY <1>1, <3>1, <3>2, <3>3, <3>4, <3>5 DEF Next, Main, Over
  <2>2. \A x : x \in ToSet(clnt_socks) <=> Has(clnt_socks, x)
    <3>1. clnt_socks \in Seq(FDs)
      BY <2>0 DEF TypeOK
    <3> QED BY <3>1 DEF ToSet, Has
  <2>3. clnt_socks' \in Seq(FDs)
    BY <2>0, <2>1, OneFewer
  <2>4. \A x : x \in ToSet(clnt_socks') <=> Has(clnt_socks', x)
    BY <2>3 DEF ToSet, Has
  <2>5. /\ Has(clnt_socks, sock[t])
        /\ \A f : Has(clnt_socks', f) <=> Has(clnt_socks, f) /\ f # sock[t]
    BY <2>0, <2>1, TakesOwn
  <2> QED BY <2>2, <2>4, <2>5
<1> HIDE DEF Own
<1>2. IInv /\ [Next]_vars => [\A t \in Threads : Own(t)]_vars
  BY <1>1
<1>3. Spec => [][\A t \in Threads : Own(t)]_vars
  BY <1>2, Inductive, PTL DEF Spec
<1> QED BY <1>3 DEF RemovesOwn, Own

-----------------------------------------------------------------------------
(* `send to all` holds where clients take turns at leaving and talking: the  *)
(* final server, threads in time, Quiet.  Nobody is then written to who has  *)
(* gone, so the server lives; a client is registered once, and stays in the  *)
(* array until it has gone; and while a broadcast goes round, the array and  *)
(* the descriptors in it are what they were when it began.                   *)
Calm == Quiet /\ Prompts = {TRUE} /\ Servers = {"final"}

Peaceful ==
  /\ prompt /\ server = "final" /\ alive
  /\ \A c \in Clients : peer[c] \in {"new", "open", "fin"}
  /\ NobodyTalks \/ NobodyLeaves

(* A client is in backlog, then on its way to clnt_socks, then joined.       *)
JoinsOnce ==
  /\ Distinct(backlog)
  /\ \A c \in Clients : Has(backlog, c) => /\ peer[c] # "new"
                                            /\ c \notin joined
                                            /\ \A f \in FDs : conn[f] # c
  /\ mpc = "register" => conn[clnt_sock] \notin joined
  /\ \A c \in joined : peer[c] # "new"
  /\ \A f \in FDs : conn[f] # NoClient => peer[conn[f]] # "new"

StaysListed ==
  /\ \A t \in Threads : hpc[t] \in {"remove", "close"} => peer[conn[sock[t]]] = "fin"
  /\ \A c \in joined : peer[c] = "open" => Listed(c)

(* Who has not got a broadcast that it is owed is still ahead in the array.  *)
Got(c, b)   == \E k \in 1 .. Len(inbox[c]) : inbox[c][k] = b
Ahead(t, c) == \E j \in 1 .. Len(clnt_socks) : next[t] =< j /\ conn[clnt_socks[j]] = c

Owed ==
  /\ \A t \in Threads : hpc[t] = "send" => next[t] # 0
  /\ \A b \in 1 .. Len(log) :
       /\ log[b].members \subseteq joined
       /\ \A c \in log[b].members : peer[c] = "open" =>
            Got(c, b) \/ \E t \in Threads : hpc[t] = "send" /\ number[t] = b /\ Ahead(t, c)

QInv == Peaceful /\ JoinsOnce /\ StaysListed /\ Owed

(* A descriptor of the array is that of a client, and remains it whatever    *)
(* happens: accept takes free ones, and a handler closes what it took out.   *)
LEMMA ListedStay ==
  ASSUME IInv, prompt, server = "final", [Next]_vars, NEW f, Has(clnt_socks, f)
  PROVE  f \in FDs /\ conn[f] \in Clients /\ conn'[f] = conn[f]
<1>0. TypeOK /\ Pointers /\ InTime /\ Listing
  BY DEF IInv
<1>1. f \in FDs
  BY <1>0 DEF TypeOK, Has
<1>2. f \in Current
  BY <1>0, <1>1 DEF Listing
<1>3. conn[f] # NoClient
  BY <1>0, <1>2 DEF Current, InTime
<1>4. conn[f] \in Clients
  BY <1>0, <1>1, <1>3 DEF TypeOK
<1>5. CASE Client  BY <1>0, <1>1, <1>4, <1>5, ClientStep
<1>6. CASE Accept
  BY <1>0, <1>1, <1>3, <1>4, <1>6 DEF Accept, TypeOK
<1>7. CASE Register \/ Create
  BY <1>1, <1>4, <1>7 DEF Register, Create, netVars
<1>8. ASSUME NEW t \in Threads, Handler(t) PROVE conn'[f] = conn[f]
  <2>1. CASE hpc[t] = "close"
    <3>1. sock[t] # f
      BY <1>0, <1>2, <2>1 DEF Current, InTime, Serving
    <3>2. conn' = [conn EXCEPT ![sock[t]] = NoClient]
      BY <1>0, <1>8, <2>1, HandlerStep
    <3> QED BY <1>0, <1>1, <3>1, <3>2 DEF TypeOK
  <2>2. CASE hpc[t] # "close"
    BY <1>0, <1>8, <2>2, HandlerStep
  <2> QED BY <2>1, <2>2
<1>9. CASE UNCHANGED vars
  BY <1>1, <1>4, <1>9 DEF vars, netVars
<1> QED BY <1>1, <1>4, <1>5, <1>6, <1>7, <1>8, <1>9 DEF Next, Main, Over

(* Who is in the array: Register adds one client, Unlist takes out one.      *)
LEMMA ListedHas ==
  ASSUME NEW c
  PROVE  Listed(c) <=> \E f : Has(clnt_socks, f) /\ conn[f] = c
BY DEF Listed, Has

(* Who is listed: Register adds the one whose descriptor it appends, Unlist  *)
(* takes out at most its own, and no other step changes the array.           *)
LEMMA ListedStep ==
  ASSUME IInv, prompt, server = "final", [Next]_vars, NEW c
  PROVE  /\ clnt_socks' = clnt_socks => (Listed(c)' <=> Listed(c))
         /\ Register => (Listed(c)' <=> Listed(c) \/ c = conn[clnt_sock])
         /\ \A t \in Threads : Unlist(t) => /\ Listed(c)' => Listed(c)
                                            /\ Listed(c) /\ c # conn[sock[t]] => Listed(c)'
<1>0. TypeOK /\ Pointers /\ InTime /\ Listing
  BY DEF IInv
<1>1. \A f : Has(clnt_socks, f) => conn'[f] = conn[f]
  BY ListedStay
<1>2. Listed(c) <=> \E f : Has(clnt_socks, f) /\ conn[f] = c
  BY ListedHas
<1>3. Listed(c)' <=> \E f : Has(clnt_socks', f) /\ conn'[f] = c
  BY DEF Listed, Has
<1>4. ASSUME clnt_socks' = clnt_socks PROVE Listed(c)' <=> Listed(c)
  BY <1>1, <1>2, <1>3, <1>4
<1>5. ASSUME Register PROVE Listed(c)' <=> Listed(c) \/ c = conn[clnt_sock]
  <2>1. /\ clnt_socks \in Seq(FDs) /\ clnt_sock \in FDs /\ Distinct(clnt_socks)
        /\ clnt_socks' = Append(clnt_socks, clnt_sock) /\ conn' = conn
    BY <1>0, <1>5 DEF Register, netVars, TypeOK, Pointers, Listing
  <2>2. \A t \in Threads : hpc[t] \in Serving => sock[t] # clnt_sock
    BY <1>0, <1>5 DEF Register, InTime, Handed
  <2>3. clnt_sock \notin Current
    BY <1>5, <2>2 DEF Register, Current
  <2>4. ~ Has(clnt_socks, clnt_sock)
    BY <1>0, <2>1, <2>3 DEF Listing
  <2>5. \A f : Has(clnt_socks', f) <=> Has(clnt_socks, f) \/ f = clnt_sock
    BY <2>1, <2>4, AppendHas
  <2> QED BY <1>2, <1>3, <2>1, <2>5
<1>6. ASSUME NEW t \in Threads, Unlist(t)
      PROVE  (Listed(c)' => Listed(c)) /\ (Listed(c) /\ c # conn[sock[t]] => Listed(c)')
  <2>1. \A f : Has(clnt_socks', f) <=> Has(clnt_socks, f) /\ f # sock[t]
    BY <1>0, <1>6, TakesOwn
  <2> QED BY <1>1, <1>2, <1>3, <2>1
<1> HIDE DEF Listed
<1> QED BY <1>4, <1>5, <1>6

(* What a handler leaves alone in quiet: nobody it writes to has gone.       *)
LEMMA QuietHandler ==
  ASSUME IInv, QInv, NEW t \in Threads, Handler(t)
  PROVE  /\ UNCHANGED <<peer, said, alive, joined, backlog>>
         /\ NobodyTalks => NobodyTalks'
<1>0. TypeOK /\ Pointers /\ InTime /\ Peaceful /\ Owed
  BY DEF IInv, QInv
<1>1. prompt /\ server = "final" /\ \A c \in Clients : peer[c] \in {"new", "open", "fin"}
  BY <1>0 DEF Peaceful
<1>2. hpc[t] \in Serving => sock[t] \in FDs /\ conn[sock[t]] \in Clients
  BY <1>0, <1>1 DEF InTime, Pointers, TypeOK
<1>3. hpc[t] \in {"lock", "send"} => ~ NobodyTalks
  BY DEF NobodyTalks
<1>4. hpc \in [Threads -> {"none", "start", "done"} \cup Serving]
  BY <1>0 DEF TypeOK
<1> USE DEF HandlerTo
<1>5. CASE Start(t)
  BY <1>4, <1>5 DEF Start, netVars, NobodyTalks
<1>6. CASE ReadLines(t)
  <2>1. ~ NobodyTalks
    <3>1. hpc[t] = "read" /\ \E k : k \in heard[conn[sock[t]]] + 1 .. said[conn[sock[t]]]
      BY <1>6 DEF ReadLines
    <3>2. heard[conn[sock[t]]] \in Nat
      BY <1>0, <1>2, <3>1 DEF Serving, TypeOK
    <3>3. heard[conn[sock[t]]] # said[conn[sock[t]]]
      BY <3>1, <3>2
    <3> QED BY <1>2, <3>1, <3>3 DEF NobodyTalks, Serving
  <2> QED BY <1>6, <2>1 DEF ReadLines
<1>7. CASE ReadRequest(t)  BY <1>1, <1>7 DEF ReadRequest
<1>8. CASE ReadFails(t)
  <2>1. hpc[t] = "read" /\ (conn[sock[t]] = NoClient \/ peer[conn[sock[t]]] = "error")
    BY <1>8 DEF ReadFails
  <2> QED BY <1>1, <1>2, <2>1, NoClientAssumption DEF Serving
<1>9. CASE ReadEnds(t)
  BY <1>4, <1>9 DEF ReadEnds, netVars, NobodyTalks
<1>10. CASE Lock(t)
  BY <1>3, <1>10 DEF Lock, netVars
<1>11. CASE Write(t)
  <2> DEFINE c == conn[clnt_socks[next[t]]]
  <2>1. hpc[t] = "send" /\ NobodyLeaves
    BY <1>0, <1>3, <1>11 DEF Write, Peaceful
  <2>2. next[t] \in 1 .. Len(clnt_socks)
    BY <1>0, <1>11, <2>1 DEF Write, Owed, TypeOK
  <2>3. Has(clnt_socks, clnt_socks[next[t]]) /\ Listed(c)
    BY <2>2 DEF Has, Listed
  <2>4. clnt_socks[next[t]] \in FDs /\ c # NoClient
    <3>1. clnt_socks[next[t]] \in FDs
      BY <1>0, <2>2 DEF TypeOK
    <3>2. clnt_socks[next[t]] \in Current
      BY <1>1, <2>3, <3>1 DEF IInv, Listing
    <3> QED BY <1>0, <1>1, <3>1, <3>2 DEF Current, InTime
  <2>5. c \in Clients
    BY <1>0, <2>4 DEF TypeOK
  <2>6. peer[c] \in {"new", "open"}
    BY <2>1, <2>3, <2>5 DEF NobodyLeaves, Gone
  <2> HIDE DEF c
  <2>7. UNCHANGED <<peer, alive>>
    BY <1>11, <2>4, <2>6 DEF Write, c
  <2> QED BY <1>3, <1>11, <2>7 DEF Write
<1>12. CASE Unlock(t)
  BY <1>3, <1>12 DEF Unlock, netVars
<1>13. CASE Unlist(t)
  BY <1>4, <1>13 DEF Unlist, netVars, NobodyTalks
<1>14. CASE Close(t)
  BY <1>4, <1>14 DEF Close, NobodyTalks
<1> QED
  BY <1>5, <1>6, <1>7, <1>8, <1>9, <1>10, <1>11, <1>12, <1>13, <1>14 DEF Handler

(* The same of clients and main, and that a client leaves in peace.          *)
LEMMA QuietOthers ==
  ASSUME Quiet, IInv, QInv, Client \/ Main
  PROVE  /\ alive' = alive
         /\ \A c \in Clients : peer'[c] \in {"new", "open", "fin"}
         /\ \A c \in Clients : peer'[c] = "open" => peer[c] \in {"new", "open"}
         /\ \A c \in Clients : peer[c] # "new" => peer'[c] # "new"
         /\ \A c \in Clients : peer[c] = "fin" => peer'[c] = "fin"
<1>1. TypeOK /\ \A c \in Clients : peer[c] \in {"new", "open", "fin"}
  BY DEF IInv, QInv, Peaceful
<1>2. peer \in [Clients -> {"new", "open", "fin", "error", "reset"}]
  BY <1>1 DEF TypeOK
<1>3. CASE Main
  BY <1>1, <1>3 DEF Main, Accept, Register, Create, netVars
<1>4. CASE Client
  <2>1. PICK c \in Clients : Connect(c) \/ Say(c) \/ Leave(c)
    BY <1>4 DEF Client
  <2>2. CASE Connect(c)  BY <1>1, <1>2, <2>2 DEF Connect
  <2>3. CASE Say(c)  BY <1>1, <2>3 DEF Say
  <2>4. CASE Leave(c)
    <3>1. peer[c] = "open" /\ alive' = alive /\ peer' = [peer EXCEPT ![c] = "fin"]
      BY <2>4 DEF Leave
    <3> QED BY <1>1, <1>2, <3>1
  <2> QED BY <2>1, <2>2, <2>3, <2>4
<1> QED BY <1>3, <1>4

(* Nobody talks, or nobody is leaving.                                       *)
LEMMA NextPeaceful ==
  ASSUME Quiet, IInv, QInv, [Next]_vars
  PROVE  Peaceful'
<1>0. TypeOK /\ Peaceful /\ JoinsOnce
  BY DEF IInv, QInv
<1>1. prompt /\ server = "final" /\ alive /\ prompt' /\ server' = "final"
  BY <1>0 DEF Peaceful, Next, Over, vars
<1>2. \A c : clnt_socks' = clnt_socks => (Listed(c)' <=> Listed(c))
  BY <1>1, ListedStep
<1>3. ASSUME NobodyLeaves, UNCHANGED <<peer, joined>>, \A c : Listed(c)' => Listed(c)
      PROVE  NobodyLeaves'
  BY <1>3 DEF NobodyLeaves, Gone
<1>4. CASE Client
  <2>1. PICK c \in Clients : Connect(c) \/ Say(c) \/ Leave(c)
    BY <1>4 DEF Client
  <2>2. UNCHANGED <<heard, hpc, clnt_socks, joined>>
    BY <1>0, <1>4, ClientStep DEF threadVars
  <2>3. CASE Connect(c)
    <3>1. said' = said /\ peer' = [peer EXCEPT ![c] = "open"]
      BY <2>3 DEF Connect
    <3>2. NobodyTalks => NobodyTalks'
      BY <2>2, <3>1 DEF NobodyTalks
    <3>3. \A d \in Clients : Gone(d)' => Gone(d)
      BY <1>0, <3>1 DEF Gone, TypeOK
    <3>4. NobodyLeaves => NobodyLeaves'
      BY <1>2, <2>2, <3>3 DEF NobodyLeaves
    <3>5. NobodyTalks \/ NobodyLeaves
      BY <1>0 DEF Peaceful
    <3>6. (NobodyTalks \/ NobodyLeaves)'
      BY <3>2, <3>4, <3>5
    <3> QED BY <1>1, <1>4, <3>6, QuietOthers DEF Peaceful
  <2>4. CASE Say(c)
    <3>1. NobodyLeaves /\ peer' = peer
      BY <2>4 DEF Say
    <3>2. NobodyLeaves'
      BY <1>2, <1>3, <2>2, <3>1
    <3> QED BY <1>1, <1>4, <3>2, QuietOthers DEF Peaceful
  <2>5. CASE Leave(c)
    <3>1. NobodyTalks /\ said' = said
      BY <2>5 DEF Leave
    <3>2. NobodyTalks'
      BY <2>2, <3>1 DEF NobodyTalks
    <3> QED BY <1>1, <1>4, <3>2, QuietOthers DEF Peaceful
  <2> QED BY <2>1, <2>3, <2>4, <2>5
<1>5. CASE Main
  <2>1. UNCHANGED <<heard, said, peer>>
    BY <1>5 DEF Main, Accept, Register, Create, netVars
  <2>2. \A t \in Threads : hpc'[t] \in {"lock", "send"} => hpc[t] \in {"lock", "send"}
    <3>1. hpc \in [Threads -> {"none", "start", "done"} \cup Serving]
      BY <1>0 DEF TypeOK
    <3>2. hpc' = hpc \/ \E n : hpc' = [hpc EXCEPT ![n] = "start"]
      BY <1>5 DEF Main, Accept, Register, Create, threadVars
    <3> QED BY <3>1, <3>2
  <2>3. NobodyTalks => NobodyTalks'
    BY <2>1, <2>2 DEF NobodyTalks
  <2>4. ASSUME NobodyLeaves PROVE NobodyLeaves'
    <3>1. CASE Accept \/ Create
      <4>1. UNCHANGED <<joined, clnt_socks>>
        BY <3>1 DEF Accept, Create
      <4> QED BY <1>2, <1>3, <2>1, <2>4, <4>1
    <3>2. CASE Register
      <4>1. \A c : Listed(c)' <=> Listed(c) \/ c = conn[clnt_sock]
        BY <1>1, <3>2, ListedStep
      <4>2. conn[clnt_sock] \notin joined /\ joined \subseteq joined'
        BY <1>0, <3>2 DEF Register, JoinsOnce
      <4>3. \A c \in Clients : Gone(c)' <=> Gone(c)
        BY <2>1 DEF Gone
      <4> QED BY <2>4, <4>1, <4>2, <4>3 DEF NobodyLeaves
    <3> QED BY <1>5, <3>1, <3>2 DEF Main
  <2>5. (NobodyTalks \/ NobodyLeaves)'
    BY <1>0, <2>3, <2>4 DEF Peaceful
  <2> QED BY <1>1, <1>5, <2>5, QuietOthers DEF Peaceful
<1>6. ASSUME NEW t \in Threads, Handler(t) PROVE Peaceful'
  <2>1. UNCHANGED <<peer, said, alive, joined>> /\ (NobodyTalks => NobodyTalks')
    BY <1>6, QuietHandler
  <2>2. \A c : Listed(c)' => Listed(c)
    <3>1. CASE Unlist(t)
      BY <1>1, <3>1, ListedStep
    <3>2. CASE ~ Unlist(t)
      <4>1. clnt_socks' = clnt_socks
        BY <1>0, <1>6, <3>2, HandlerStep
      <4> QED BY <1>2, <4>1
    <3> QED BY <3>1, <3>2
  <2>3. (NobodyTalks \/ NobodyLeaves)'
    BY <1>0, <1>3, <2>1, <2>2 DEF Peaceful
  <2> QED BY <1>0, <1>1, <2>1, <2>3 DEF Peaceful
<1>7. CASE UNCHANGED vars
  <2>1. UNCHANGED <<server, prompt, peer, said, heard, hpc, clnt_socks, conn, joined, alive>>
    BY <1>7 DEF vars, netVars, threadVars
  <2> QED BY <1>0, <2>1 DEF Peaceful, NobodyTalks, NobodyLeaves, Gone, Listed
<1> QED BY <1>4, <1>5, <1>6, <1>7 DEF Next, Over

(* Nobody is registered twice.                                               *)
LEMMA NextJoinsOnce ==
  ASSUME Quiet, IInv, QInv, [Next]_vars
  PROVE  JoinsOnce'
<1>0. TypeOK /\ Pointers /\ InTime /\ Peaceful /\ JoinsOnce
  BY DEF IInv, QInv
<1>1. prompt /\ server = "final" /\ NoClient \notin Clients
  BY <1>0, NoClientAssumption DEF Peaceful
<1>2. backlog \in Seq(Clients) /\ joined \subseteq Clients
  BY <1>0 DEF TypeOK
<1>3. \A f \in FDs : conn[f] # NoClient => conn[f] \in Clients
  BY <1>0 DEF TypeOK
<1>4. CASE Client
  <2>1. PICK c \in Clients : Connect(c) \/ Say(c) \/ Leave(c)
    BY <1>4 DEF Client
  <2>2. UNCHANGED <<conn, mpc, clnt_sock, joined>>
    BY <1>0, <1>4, ClientStep DEF mainVars
  <2>3. \A d \in Clients : peer[d] # "new" => peer'[d] # "new"
    BY <1>4, QuietOthers
  <2>4. CASE Connect(c)
    <3>1. peer[c] = "new" /\ peer' = [peer EXCEPT ![c] = "open"] /\ backlog' = Append(backlog, c)
      BY <2>4 DEF Connect
    <3>2. ~ Has(backlog, c) /\ c \notin joined /\ \A f \in FDs : conn[f] # c
      BY <1>0, <1>1, <3>1 DEF JoinsOnce
    <3>3. Distinct(backlog') /\ \A x : Has(backlog', x) <=> Has(backlog, x) \/ x = c
      BY <1>0, <1>2, <3>1, <3>2, AppendHas DEF JoinsOnce
    <3>4. peer'[c] # "new"
      BY <1>0, <3>1 DEF TypeOK
    <3> QED BY <1>0, <1>2, <1>3, <2>2, <2>3, <3>2, <3>3, <3>4 DEF JoinsOnce
  <2>5. CASE Say(c) \/ Leave(c)
    <3>1. backlog' = backlog
      BY <2>5 DEF Say, Leave
    <3> QED BY <1>0, <1>2, <1>3, <2>2, <2>3, <3>1 DEF JoinsOnce
  <2> QED BY <2>1, <2>4, <2>5
<1>5. CASE Accept
  <2>1. UNCHANGED <<peer, joined>> /\ backlog # << >> /\ backlog' = Tail(backlog)
    BY <1>5 DEF Accept
  <2>2. PICK f \in FDs : clnt_sock' = f /\ conn' = [conn EXCEPT ![f] = Head(backlog)]
    BY <1>5 DEF Accept
  <2>3. /\ Distinct(backlog') /\ Has(backlog, Head(backlog))
        /\ \A x : Has(backlog', x) => Has(backlog, x) /\ x # Head(backlog)
    BY <1>0, <1>2, <2>1, TailHas DEF JoinsOnce
  <2>4. \A g \in FDs : conn'[g] = IF g = f THEN Head(backlog) ELSE conn[g]
    BY <1>0, <2>2 DEF TypeOK
  <2>5. Head(backlog) \in Clients
    BY <1>2, <2>1
  <2> QED BY <1>0, <2>1, <2>2, <2>3, <2>4, <2>5 DEF JoinsOnce
<1>6. CASE Register
  <2>1. /\ UNCHANGED <<peer, backlog, conn, clnt_sock>> /\ mpc' = "create" /\ clnt_sock \in FDs
        /\ joined' = joined \cup ({conn[clnt_sock]} \ {NoClient})
    BY <1>0, <1>6 DEF Register, netVars, Pointers
  <2> QED BY <1>0, <2>1 DEF JoinsOnce
<1>7. CASE Create
  BY <1>0, <1>7 DEF Create, netVars, JoinsOnce
<1>8. ASSUME NEW t \in Threads, Handler(t) PROVE JoinsOnce'
  <2>1. UNCHANGED <<peer, joined, backlog, mpc, clnt_sock>>
    BY <1>0, <1>8, QuietHandler, HandlerStep
  <2>2. /\ \A f \in FDs : conn'[f] = conn[f] \/ conn'[f] = NoClient
        /\ mpc = "register" => conn'[clnt_sock] = conn[clnt_sock]
    <3>1. CASE hpc[t] = "close"
      <4>1. conn' = [conn EXCEPT ![sock[t]] = NoClient]
        BY <1>0, <1>8, <3>1, HandlerStep
      <4>2. mpc = "register" => clnt_sock \in FDs /\ clnt_sock # sock[t]
        BY <1>0, <1>1, <3>1 DEF Pointers, InTime, Handed, Serving
      <4> QED BY <1>0, <4>1, <4>2 DEF TypeOK
    <3>2. CASE hpc[t] # "close"
      BY <1>0, <1>8, <3>2, HandlerStep
    <3> QED BY <3>1, <3>2
  <2> QED BY <1>0, <1>1, <2>1, <2>2 DEF JoinsOnce
<1>9. CASE UNCHANGED vars
  BY <1>0, <1>9 DEF vars, netVars, mainVars, JoinsOnce
<1> QED BY <1>4, <1>5, <1>6, <1>7, <1>8, <1>9 DEF Next, Main, Over

(* Who has not gone stays in the array.                                      *)
LEMMA NextStaysListed ==
  ASSUME Quiet, IInv, QInv, [Next]_vars
  PROVE  StaysListed'
<1>0. TypeOK /\ Pointers /\ InTime /\ Listing /\ Peaceful /\ JoinsOnce /\ StaysListed
  BY DEF IInv, QInv
<1>1. /\ prompt /\ server = "final" /\ NoClient \notin Clients
      /\ \A c \in Clients : peer[c] \in {"new", "open", "fin"}
  BY <1>0, NoClientAssumption DEF Peaceful
<1>2. \A c : clnt_socks' = clnt_socks => (Listed(c)' <=> Listed(c))
  BY <1>1, ListedStep
<1>3. \A t \in Threads : hpc[t] \in Serving => sock[t] \in FDs /\ conn[sock[t]] \in Clients
  BY <1>0, <1>1 DEF Pointers, InTime, TypeOK
<1> DEFINE Ending(t) == hpc[t] \in {"remove", "close"}
<1>4. \A t \in Threads : Ending(t) => peer[conn[sock[t]]] = "fin"
  BY <1>0 DEF StaysListed
<1>5. \A c \in joined : c \in Clients /\ peer[c] # "new"
  BY <1>0 DEF JoinsOnce, TypeOK
<1>6. CASE Client
  <2>1. /\ UNCHANGED <<conn, hpc, sock, clnt_socks, joined>>
        /\ \A c \in Clients : peer'[c] = "open" => peer[c] \in {"new", "open"}
        /\ \A c \in Clients : peer[c] = "fin" => peer'[c] = "fin"
    BY <1>0, <1>6, ClientStep, QuietOthers DEF threadVars
  <2>2. \A t \in Threads : Ending(t) => peer'[conn[sock[t]]] = "fin"
    BY <1>3, <1>4, <2>1 DEF Serving
  <2>3. \A c \in joined : peer'[c] = "open" => Listed(c)'
    BY <1>0, <1>2, <1>5, <2>1 DEF StaysListed
  <2> QED BY <2>1, <2>2, <2>3 DEF StaysListed
<1>7. CASE Main
  <2>1. peer' = peer /\ UNCHANGED sock
    BY <1>7 DEF Main, Accept, Register, Create, netVars, threadVars
  <2>2. \A t \in Threads : Ending(t)' => Ending(t)
    <3>1. hpc \in [Threads -> {"none", "start", "done"} \cup Serving]
      BY <1>0 DEF TypeOK
    <3>2. hpc' = hpc \/ \E n : hpc' = [hpc EXCEPT ![n] = "start"]
      BY <1>7 DEF Main, Accept, Register, Create, threadVars
    <3> QED BY <3>1, <3>2
  <2>3. \A t \in Threads : Ending(t) => conn'[sock[t]] = conn[sock[t]]
    <3>1. CASE Accept
      <4>1. PICK f \in FDs : conn[f] = NoClient /\ conn' = [conn EXCEPT ![f] = Head(backlog)]
        BY <3>1 DEF Accept
      <4> QED BY <1>0, <1>1, <1>3, <4>1 DEF TypeOK, Serving
    <3>2. CASE Register \/ Create
      BY <3>2 DEF Register, Create, netVars
    <3> QED BY <1>7, <3>1, <3>2 DEF Main
  <2>4. \A c \in joined' : peer[c] = "open" => Listed(c)'
    <3>1. CASE Accept \/ Create
      <4>1. UNCHANGED <<joined, clnt_socks>>
        BY <3>1 DEF Accept, Create
      <4> QED BY <1>0, <1>2, <4>1 DEF StaysListed
    <3>2. CASE Register
      <4>1. \A c : Listed(c)' <=> Listed(c) \/ c = conn[clnt_sock]
        BY <1>1, <3>2, ListedStep
      <4>2. \A c \in joined' : c \in joined \/ c = conn[clnt_sock]
        BY <3>2 DEF Register
      <4> QED BY <1>0, <4>1, <4>2 DEF StaysListed
    <3> QED BY <1>7, <3>1, <3>2 DEF Main
  <2>5. \A t \in Threads : Ending(t)' => peer'[conn'[sock'[t]]] = "fin"
    BY <1>4, <2>1, <2>2, <2>3
  <2> QED BY <2>1, <2>4, <2>5 DEF StaysListed
<1>8. ASSUME NEW t \in Threads, Handler(t) PROVE StaysListed'
  <2>1. UNCHANGED <<peer, joined>>
    BY <1>8, QuietHandler
  <2>2. /\ \A u \in Threads : u # t => hpc'[u] = hpc[u] /\ sock'[u] = sock[u]
        /\ hpc'[t] = "done" <=> hpc[t] = "close"
        /\ hpc'[t] = "close" <=> hpc[t] = "remove"
    <3>1. hpc' = [hpc EXCEPT ![t] = hpc'[t]]
      BY <1>0, <1>8, HandlerStep
    <3>2. sock' = sock \/ sock' = [sock EXCEPT ![t] = clnt_sock]
      BY <1>0, <1>8, HandlerStep
    <3>3. \A u \in Threads : u # t => hpc'[u] = hpc[u] /\ sock'[u] = sock[u]
      BY <1>0, <3>1, <3>2 DEF TypeOK
    <3> QED BY <1>0, <1>8, <3>3, HandlerStep
  <2>3. ASSUME NEW u \in Threads, u # t, Ending(u)' PROVE peer'[conn'[sock'[u]]] = "fin"
    <3>1. Ending(u) /\ hpc[u] \in Serving
      BY <2>2, <2>3 DEF Serving
    <3>2. conn'[sock[u]] = conn[sock[u]]
      <4>1. CASE hpc[t] = "close"
        <5>1. sock[u] # sock[t] /\ sock[u] \in FDs
          BY <1>0, <1>1, <1>3, <2>3, <3>1, <4>1 DEF InTime, Serving
        <5>2. conn' = [conn EXCEPT ![sock[t]] = NoClient]
          BY <1>0, <1>8, <4>1, HandlerStep
        <5> QED BY <1>0, <5>1, <5>2 DEF TypeOK
      <4>2. CASE hpc[t] # "close"
        BY <1>0, <1>8, <4>2, HandlerStep
      <4> QED BY <4>1, <4>2
    <3> QED BY <1>4, <2>1, <2>2, <2>3, <3>1, <3>2
  <2>4. ASSUME Ending(t)' PROVE peer'[conn'[sock'[t]]] = "fin"
    <3>1. ReadEnds(t) \/ Unlist(t)
      <4>1. hpc' = [hpc EXCEPT ![t] = hpc'[t]] /\ hpc'[t] \in {"remove", "close"}
        BY <1>0, <1>8, <2>4, HandlerStep
      <4>2. hpc[t] \in {"start"} \cup Serving /\ hpc \in [Threads -> {"none", "start", "done"} \cup Serving]
        BY <1>0, <1>8, HandlerStep DEF TypeOK
      <4> QED BY <1>8, <4>1, <4>2
            DEF Handler, Start, ReadLines, ReadRequest, ReadFails, Lock, Write, Unlock, Close, HandlerTo
    <3>2. CASE ReadEnds(t)
      <4>1. UNCHANGED <<conn, sock>> /\ hpc[t] = "read" /\ peer[conn[sock[t]]] \in {"fin", "reset"}
        BY <3>2 DEF ReadEnds, HandlerTo, netVars
      <4> QED BY <1>1, <1>3, <2>1, <4>1 DEF Serving
    <3>3. CASE Unlist(t)
      BY <1>4, <2>1, <3>3 DEF Unlist, HandlerTo, netVars
    <3> QED BY <3>1, <3>2, <3>3
  <2>5. ASSUME NEW c \in joined, peer[c] = "open" PROVE Listed(c)'
    <3>1. Listed(c)
      BY <1>0, <2>5 DEF StaysListed
    <3>2. CASE Unlist(t)
      <4>1. c # conn[sock[t]]
        BY <1>4, <2>5, <3>2 DEF Unlist, HandlerTo
      <4> QED BY <1>1, <3>1, <3>2, <4>1, ListedStep
    <3>3. CASE ~ Unlist(t)
      <4>1. clnt_socks' = clnt_socks
        BY <1>0, <1>8, <3>3, HandlerStep
      <4> QED BY <1>2, <3>1, <4>1
    <3> QED BY <3>2, <3>3
  <2>6. \A u \in Threads : Ending(u)' => peer'[conn'[sock'[u]]] = "fin"
    BY <2>3, <2>4
  <2> QED BY <2>1, <2>5, <2>6 DEF StaysListed
<1>9. CASE UNCHANGED vars
  <2>1. UNCHANGED <<peer, hpc, sock, clnt_socks, conn, joined>>
    BY <1>9 DEF vars, netVars, threadVars
  <2> QED BY <1>0, <2>1 DEF StaysListed, Listed
<1> QED BY <1>6, <1>7, <1>8, <1>9 DEF Next, Over

(* A broadcast in progress stays ahead of whom it has not reached.           *)
LEMMA NextOwed ==
  ASSUME Quiet, IInv, QInv, [Next]_vars
  PROVE  Owed'
<1>0. /\ TypeOK /\ Pointers /\ Exclusion /\ InTime /\ Listing
      /\ Peaceful /\ JoinsOnce /\ StaysListed /\ Owed
  BY DEF IInv, QInv
<1>1. prompt /\ server = "final"
  BY <1>0 DEF Peaceful
<1>2. \A j \in 1 .. Len(clnt_socks) : conn'[clnt_socks[j]] = conn[clnt_socks[j]]
  BY <1>1, ListedStay DEF Has
<1>3. \A c \in joined : c \in Clients /\ peer[c] # "new"
  BY <1>0 DEF JoinsOnce, TypeOK
<1>4. /\ \A t \in Threads : hpc[t] = "send" => next[t] # 0
      /\ \A b \in 1 .. Len(log) :
           /\ log[b].members \subseteq joined
           /\ \A c \in log[b].members : peer[c] = "open" =>
                Got(c, b) \/ \E t \in Threads : hpc[t] = "send" /\ number[t] = b /\ Ahead(t, c)
  BY <1>0 DEF Owed
<1>5. /\ hpc \in [Threads -> {"none", "start", "done"} \cup Serving] /\ Len(log) \in Nat
      /\ \A t \in Threads : next[t] \in Nat
  BY <1>0 DEF TypeOK
<1>6. \A t \in Threads : hpc[t] = "send" => mutx = t /\ mutx # Free
  BY <1>0 DEF Exclusion, Threads, Free
\* a step after which whoever sends was sending, and has as far to go
<1>7. ASSUME log' = log, joined \subseteq joined', inbox' = inbox,
             \A c \in joined : peer'[c] = "open" => peer[c] = "open",
             \A t \in Threads : hpc'[t] = "send" <=> hpc[t] = "send",
             \A t \in Threads : hpc[t] = "send" =>
                next'[t] = next[t] /\ number'[t] = number[t] /\ clnt_socks' = clnt_socks
      PROVE  Owed'
  <2>1. \A t \in Threads : \A c : hpc[t] = "send" /\ Ahead(t, c) => Ahead(t, c)'
    BY <1>2, <1>7 DEF Ahead
  <2>2. \A c, b : Got(c, b) => Got(c, b)'
    BY <1>7 DEF Got
  <2>3. \A t \in Threads : hpc'[t] = "send" => next'[t] # 0
    BY <1>4, <1>7
  <2>4. ASSUME NEW b \in 1 .. Len(log), NEW c \in log[b].members, peer'[c] = "open"
        PROVE  Got(c, b)' \/ \E t \in Threads : hpc'[t] = "send" /\ number'[t] = b /\ Ahead(t, c)'
    <3>1. peer[c] = "open"
      BY <1>4, <1>7, <2>4
    <3> QED BY <1>4, <1>7, <2>1, <2>2, <2>4, <3>1
  <2> QED BY <1>4, <1>7, <2>3, <2>4 DEF Owed
<1>8. CASE Client
  <2>1. UNCHANGED <<inbox, conn, clnt_socks, threadVars, log, joined>>
    BY <1>0, <1>8, ClientStep
  <2>2. \A c \in Clients : peer'[c] = "open" => peer[c] \in {"new", "open"}
    BY <1>8, QuietOthers
  <2> QED BY <1>3, <1>7, <2>1, <2>2 DEF threadVars
<1>9. CASE Main
  <2>1. UNCHANGED <<peer, inbox, log, next, number>> /\ joined \subseteq joined'
    BY <1>9 DEF Main, Accept, Register, Create, netVars, threadVars
  <2>2. \A t \in Threads : hpc'[t] = "send" <=> hpc[t] = "send"
    <3>1. CASE Create
      <4>1. hpc[created + 1] = "none" \/ created + 1 \notin Threads
        BY <1>0 DEF IInv, Counted, CreatedInOrder, TypeOK, Threads
      <4>2. hpc' = [hpc EXCEPT ![created + 1] = "start"]
        BY <3>1 DEF Create
      <4> QED BY <1>5, <4>1, <4>2
    <3>2. CASE Accept \/ Register
      BY <3>2 DEF Accept, Register, threadVars
    <3> QED BY <1>9, <3>1, <3>2 DEF Main
  <2>3. (\E t \in Threads : hpc[t] = "send") => clnt_socks' = clnt_socks
    BY <1>6, <1>9 DEF Main, Accept, Register, Create
  <2> QED BY <1>7, <2>1, <2>2, <2>3
<1>10. ASSUME NEW t \in Threads, Lock(t) PROVE Owed'
  <2>1. /\ mutx = Free /\ UNCHANGED <<peer, inbox, conn, clnt_socks, joined>>
        /\ next' = [next EXCEPT ![t] = 1] /\ number' = [number EXCEPT ![t] = Len(log) + 1]
        /\ hpc' = [hpc EXCEPT ![t] = "send"]
        /\ log' = Append(log, [msg |-> msg[t], members |-> {c \in joined : peer[c] = "open"}])
    BY <1>10 DEF Lock, HandlerTo, netVars
  <2>2. \A u \in Threads : hpc[u] # "send"
    BY <1>6, <2>1
  <2>3. hpc'[t] = "send" /\ next'[t] = 1 /\ number'[t] = Len(log) + 1
    BY <1>0, <2>1 DEF TypeOK
  <2>4. \A u \in Threads : hpc'[u] = "send" => u = t
    BY <1>5, <2>1, <2>2
  <2>5. /\ Len(log') = Len(log) + 1
        /\ \A b \in 1 .. Len(log) : log'[b] = log[b]
        /\ log'[Len(log) + 1].members = {c \in joined : peer[c] = "open"}
    BY <1>0, <2>1 DEF TypeOK
  <2>6. \A c, b : Got(c, b)' <=> Got(c, b)
    BY <2>1 DEF Got
  <2>7. ASSUME NEW c \in joined, peer[c] = "open" PROVE Ahead(t, c)'
    <3>1. PICK j \in 1 .. Len(clnt_socks) : conn[clnt_socks[j]] = c
      BY <1>0, <2>7 DEF StaysListed, Listed
    <3>2. 1 =< j
      OBVIOUS
    <3> QED BY <2>1, <2>3, <3>1, <3>2 DEF Ahead
  <2>8. ASSUME NEW b \in 1 .. Len(log) + 1
        PROVE  /\ log'[b].members \subseteq joined'
               /\ \A c \in log'[b].members : peer'[c] = "open" =>
                    \/ Got(c, b)'
                    \/ \E u \in Threads : hpc'[u] = "send" /\ number'[u] = b /\ Ahead(u, c)'
    <3>1. CASE b \in 1 .. Len(log)
      BY <1>4, <2>1, <2>2, <2>5, <2>6, <3>1
    <3>2. CASE b = Len(log) + 1
      BY <2>1, <2>3, <2>5, <2>7, <3>2
    <3> QED BY <1>5, <3>1, <3>2, LastOrBefore
  <2>9. \A u \in Threads : hpc'[u] = "send" => next'[u] # 0
    BY <2>3, <2>4
  <2> QED BY <2>5, <2>8, <2>9 DEF Owed
<1>11. ASSUME NEW t \in Threads, Write(t) PROVE Owed'
  <2>1. /\ hpc[t] = "send" /\ hpc' = hpc /\ UNCHANGED <<clnt_socks, conn, number, log, joined>>
        /\ next[t] =< Len(clnt_socks) /\ next' = [next EXCEPT ![t] = next[t] + 1]
    BY <1>5, <1>11 DEF Write, HandlerTo, mainVars
  <2>2. peer' = peer
    BY <1>11, QuietHandler DEF Handler
  <2>3. next[t] \in 1 .. Len(clnt_socks) /\ next'[t] = next[t] + 1
    BY <1>0, <1>4, <1>5, <2>1 DEF TypeOK
  <2>4. \A u \in Threads : hpc[u] = "send" => u = t
    BY <1>6, <2>1
  <2> DEFINE d == conn[clnt_socks[next[t]]]
  <2>5. /\ inbox' = inbox \/ \E e : inbox' = [inbox EXCEPT ![e] = Append(inbox[e], number[t])]
        /\ d # NoClient /\ peer[d] = "open" => inbox' = [inbox EXCEPT ![d] = Append(inbox[d], number[t])]
    BY <1>11 DEF Write
  <2>6. ASSUME NEW c \in Clients, NEW b, Got(c, b) PROVE Got(c, b)'
    <3>1. inbox[c] \in Seq(Nat)
      BY <1>0 DEF TypeOK
    <3>2. inbox'[c] = inbox[c] \/ inbox'[c] = Append(inbox[c], number[t])
      BY <1>0, <2>5 DEF TypeOK
    <3>3. PICK k \in 1 .. Len(inbox[c]) : inbox[c][k] = b
      BY <2>6 DEF Got
    <3>4. k \in 1 .. Len(inbox'[c]) /\ inbox'[c][k] = b
      BY <3>1, <3>2, <3>3
    <3> QED BY <3>4 DEF Got
  <2>7. ASSUME NEW c \in Clients, peer[c] = "open", Ahead(t, c)
        PROVE  Got(c, number[t])' \/ Ahead(t, c)'
    <3>1. PICK j \in 1 .. Len(clnt_socks) : next[t] =< j /\ conn[clnt_socks[j]] = c
      BY <2>7 DEF Ahead
    <3>2. CASE j = next[t]
      <4>1. inbox' = [inbox EXCEPT ![c] = Append(inbox[c], number[t])]
        BY <2>5, <2>7, <3>1, <3>2, NoClientAssumption
      <4>2. inbox'[c] = Append(inbox[c], number[t]) /\ inbox[c] \in Seq(Nat)
        BY <1>0, <4>1 DEF TypeOK
      <4>3. Len(inbox[c]) + 1 \in 1 .. Len(inbox'[c]) /\ inbox'[c][Len(inbox[c]) + 1] = number[t]
        BY <4>2
      <4>4. Got(c, number[t])'
        BY <2>1, <4>3 DEF Got
      <4> QED BY <4>4
    <3>3. CASE j # next[t]
      <4>1. next'[t] =< j
        BY <2>3, <3>1, <3>3
      <4> QED BY <2>1, <3>1, <4>1 DEF Ahead
    <3> QED BY <3>2, <3>3
  <2>8. \A u \in Threads : hpc'[u] = "send" => next'[u] # 0
    BY <2>1, <2>3, <2>4
  <2>9. ASSUME NEW b \in 1 .. Len(log), NEW c \in log[b].members, peer[c] = "open"
        PROVE  Got(c, b)' \/ \E u \in Threads : hpc'[u] = "send" /\ number'[u] = b /\ Ahead(u, c)'
    <3>1. c \in Clients
      BY <1>3, <1>4, <2>9
    <3>2. CASE Got(c, b)
      BY <2>6, <3>1, <3>2
    <3>3. CASE ~ Got(c, b)
      <4>1. number[t] = b /\ Ahead(t, c)
        BY <1>4, <2>4, <2>9, <3>3
      <4> QED BY <2>1, <2>7, <2>9, <3>1, <4>1
    <3> QED BY <3>2, <3>3
  <2> QED BY <1>4, <2>1, <2>2, <2>8, <2>9 DEF Owed
<1>12. ASSUME NEW t \in Threads, Unlock(t) PROVE Owed'
  <2>1. /\ hpc[t] = "send" /\ hpc' = [hpc EXCEPT ![t] = "read"] /\ next[t] > Len(clnt_socks)
        /\ UNCHANGED <<peer, inbox, conn, clnt_socks, number, next, log, joined>>
    BY <1>12 DEF Unlock, HandlerTo, netVars
  <2>2. \A u \in Threads : hpc[u] = "send" => u = t
    BY <1>6, <2>1
  <2>3. \A c : ~ Ahead(t, c)
    <3>1. \A j \in 1 .. Len(clnt_socks) : ~ (next[t] =< j)
      BY <1>0, <1>5, <2>1 DEF TypeOK
    <3> QED BY <3>1 DEF Ahead
  <2>4. \A b \in 1 .. Len(log) : \A c \in log[b].members : peer[c] = "open" => Got(c, b)
    BY <1>4, <2>2, <2>3
  <2>5. \A c, b : Got(c, b)' <=> Got(c, b)
    BY <2>1 DEF Got
  <2>6. \A u \in Threads : hpc'[u] # "send"
    BY <1>5, <2>1, <2>2
  <2> QED BY <1>4, <2>1, <2>4, <2>5, <2>6 DEF Owed
<1>13. ASSUME NEW t \in Threads, Handler(t), ~ Lock(t), ~ Write(t), ~ Unlock(t) PROVE Owed'
  <2>1. UNCHANGED <<peer, joined>>
    BY <1>13, QuietHandler
  <2>2. UNCHANGED <<inbox, log, next, number>>
    BY <1>13 DEF Handler, Start, ReadLines, ReadRequest, ReadFails, ReadEnds, Unlist, Close, netVars
  <2>3. \A u \in Threads : hpc'[u] = "send" <=> hpc[u] = "send"
    BY <1>5, <1>13 DEF Handler, HandlerTo, Start, ReadLines, ReadRequest, ReadFails, ReadEnds, Unlist, Close
  <2>4. (\E u \in Threads : hpc[u] = "send") => clnt_socks' = clnt_socks
    <3>1. CASE Unlist(t)
      BY <1>6, <3>1 DEF Unlist
    <3>2. CASE ~ Unlist(t)
      BY <1>0, <1>13, <3>2, HandlerStep
    <3> QED BY <3>1, <3>2
  <2> QED BY <1>7, <2>1, <2>2, <2>3, <2>4
<1>14. CASE UNCHANGED vars
  BY <1>7, <1>14 DEF vars, netVars, threadVars
<1> QED BY <1>8, <1>9, <1>10, <1>11, <1>12, <1>13, <1>14 DEF Next, Over

(* In quiet, the invariant and its addition hold in every behaviour.         *)
LEMMA QuietInductive ==
  ASSUME Calm
  PROVE  Spec => [](IInv /\ QInv)
<1>1. Init => IInv /\ QInv
  <2> SUFFICES ASSUME Init PROVE QInv
    BY InitIInv
  <2>1. Peaceful
    BY DEF Calm, Init, Peaceful, NobodyTalks
  <2>2. JoinsOnce
    BY DEF Init, JoinsOnce, Distinct, Has
  <2>3. StaysListed
    BY DEF Init, StaysListed
  <2>4. Owed
    BY DEF Init, Owed
  <2> QED BY <2>1, <2>2, <2>3, <2>4 DEF QInv
<1>2. IInv /\ QInv /\ [Next]_vars => (IInv /\ QInv)'
  <2> SUFFICES ASSUME IInv, QInv, [Next]_vars PROVE (IInv /\ QInv)'
    OBVIOUS
  <2>1. Quiet
    BY DEF Calm
  <2> QED BY <2>1, NextIInv, NextPeaceful, NextJoinsOnce, NextStaysListed, NextOwed DEF QInv
<1> QED BY <1>1, <1>2, PTL DEF Spec

(* The final server sends to all: a broadcast that is over has reached every *)
(* client that was registered and connected when it began and still is,      *)
(* where threads start in time and nobody leaves while somebody talks.       *)
THEOREM SendCorrect ==
  ASSUME Calm
  PROVE  Spec => []SendToAll
<1>1. IInv /\ QInv => SendToAll
  <2> SUFFICES ASSUME QInv PROVE SendToAll
    OBVIOUS
  <2>1. alive /\ Owed
    BY DEF QInv, Peaceful
  <2> QED BY <2>1 DEF Owed, SendToAll, InProgress, Got
<1>2. Spec => [](IInv /\ QInv)
  BY QuietInductive
<1> QED BY <1>1, <1>2, PTL

(* In that quiet nobody is written to who has gone: SIGPIPE, which nothing   *)
(* handles, does not end the server.                                         *)
THEOREM Lives ==
  ASSUME Calm
  PROVE  Spec => []alive
<1>1. IInv /\ QInv => alive
  BY DEF QInv, Peaceful
<1>2. Spec => [](IInv /\ QInv)
  BY QuietInductive
<1> QED BY <1>1, <1>2, PTL

=============================================================================
