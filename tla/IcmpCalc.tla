------------------------------ MODULE IcmpCalc ------------------------------
(* network_programming_final/icmp_calculator: every running copy of the      *)
(* program is a parent that sends requests to one address and a child that   *)
(* listens on a raw socket.  A raw socket is given every ICMP packet that    *)
(* comes to the host: a child answers the requests of all copies and shows   *)
(* the answers to all copies of its host.                                    *)
EXTENDS Checksum, FiniteSets

CONSTANTS
  Procs,         \* running copies of the program
  Hosts, HostOf, Target,   \* [Procs -> Hosts]: where it runs, what it calls
  Pid,           \* [Procs -> ids], its pid as the 16 bits of the header hold it
  SeqMod,        \* 2^16 in the program: the header's sequence is 16 bits wide
  MsgSize,       \* chars of msg: 56 in the program, a packet being 64
  ICMP_CALC_REQ, ICMP_CALC_RES,   \* the types: 20 and 21
  Requests,      \* [Procs -> what its user may type]
  MaxSent        \* bound: [Procs -> the number of its requests]

(* calc_req asks for operands if the count is above one; the drafts do if it *)
(* is one, too.                                                              *)
IsTyped(r) == IF Char(r.count) > 1 THEN IsRequest(r)
              ELSE /\ r.count \in Int /\ r.operator = <<>>
                   /\ \/ r.operand = <<>>
                      \/ Char(r.count) = 1 /\ r.operand \in Seq(Int) /\ Len(r.operand) = 1

ASSUME IcmpCalcAssumption ==
  /\ HostOf \in [Procs -> Hosts] /\ Target \in [Procs -> Hosts]
  /\ \A p, q \in Procs : HostOf[p] = HostOf[q] /\ Pid[p] = Pid[q] => p = q
  /\ Pid \in [Procs -> 0 .. Short - 1] /\ SeqMod \in 1 .. Short
  /\ ICMP_CALC_REQ \in Byte /\ ICMP_CALC_RES \in Byte /\ ICMP_CALC_REQ # ICMP_CALC_RES
  /\ \A p \in Procs : \A r \in Requests[p] : IsTyped(r) /\ Len(Frame(r)) =< MsgSize
  /\ MaxSent \in [Procs -> Nat]
  /\ MsgSize \in Nat /\ MsgSize % 2 = 0 /\ IntBytes =< MsgSize /\ MsgSize + 8 =< Short

VARIABLES
  cnt,           \* [Procs -> the number of the parent's next request]
  inbox,         \* [Procs -> packets that wait in the child's socket]
  shown,         \* [Procs -> answers the child has printed]
  asked          \* history: [Procs -> what was typed]

vars == <<cnt, inbox, shown, asked>>

Init == /\ cnt = [p \in Procs |-> 1]
        /\ inbox = [p \in Procs |-> {}]
        /\ shown = [p \in Procs |-> {}]
        /\ asked = [p \in Procs |-> <<>>]

(* The bytes of struct packet, msg being the bytes before its zeros.         *)
Bytes(type, check, id, seq, msg) ==
  <<type, 0, check % Base, check \div Base, id % Base, id \div Base, seq % Base, seq \div Base>>
    \o msg \o [k \in 1 .. MsgSize - Len(msg) |-> 0]

(* A packet as it is filled in, from zeros, the checksum last, with the      *)
(* source address of the IP header; by and n are history, the request it is  *)
(* or answers.                                                               *)
Packet(type, id, seq, msg, src, by, n) ==
  [type |-> type, check |-> checksum[Bytes(type, 0, id, seq, msg)], id |-> id,
   seq |-> seq, msg |-> msg, src |-> src, by |-> by, n |-> n]

Listeners(h) == {q \in Procs : HostOf[q] = h}

(* sendto: a copy for every raw socket of the host.  Packets that wait       *)
(* overtake one another; one that waits for ever is lost.                    *)
Sent(box, m, h) == [q \in Procs |-> IF q \in Listeners(h) THEN box[q] \cup {m} ELSE box[q]]

(* calculate, of this program: a single operand is no expression.            *)
calculate[data \in Seq(Byte)] ==
  IF Char(BufAt(data, 0)) =< 1 THEN -1 ELSE Calculate(Parse(data))

-----------------------------------------------------------------------------
\* Mutant: the sequence is not counted up.
RequestSame(p) ==
  /\ Len(asked[p]) < MaxSent[p]
  /\ \E r \in Requests[p] :
       /\ asked' = [asked EXCEPT ![p] = Append(@, r)]
       /\ inbox' = Sent(inbox, Packet(ICMP_CALC_REQ, Pid[p], 1, Frame(r),
                                        HostOf[p], p, cnt[p]), Target[p])
  /\ cnt' = [cnt EXCEPT ![p] = @ + 1]
  /\ UNCHANGED shown

(* One turn of the parent's loop in calc_req.                                *)
Request(p) ==
  /\ Len(asked[p]) < MaxSent[p]
  /\ \E r \in Requests[p] :
       /\ asked' = [asked EXCEPT ![p] = Append(@, r)]
       /\ inbox' = Sent(inbox, Packet(ICMP_CALC_REQ, Pid[p], cnt[p] % SeqMod, Frame(r),
                                        HostOf[p], p, cnt[p]), Target[p])
  /\ cnt' = [cnt EXCEPT ![p] = @ + 1]
  /\ UNCHANGED shown

Taken(q, m) == [inbox EXCEPT ![q] = @ \ {m}]

(* What calc_res sends for m, a set of one: its type, the sequence of m, but *)
(* this copy's pid.                                                          *)
Replies(type, q, m) ==
  { Packet(type, Pid[q], m.seq, Little(result), HostOf[q], m.by, m.n) :
      result \in {calculate[m.msg]} }

\* Mutant: the request packet is turned round and sent back.
AnswerEcho(q) ==
  \E m \in inbox[q] :
    /\ m.type = ICMP_CALC_REQ
    /\ \E pckt \in Replies(ICMP_CALC_REQ, q, m) :
         inbox' = Sent(Taken(q, m), pckt, m.src)
    /\ UNCHANGED <<cnt, shown, asked>>

\* Mutant: sendto(sd, .., addr), the address this copy calls.
AnswerTarget(q) ==
  \E m \in inbox[q] :
    /\ m.type = ICMP_CALC_REQ
    /\ \E pckt \in Replies(ICMP_CALC_RES, q, m) :
         inbox' = Sent(Taken(q, m), pckt, Target[q])
    /\ UNCHANGED <<cnt, shown, asked>>

\* Mutant: children answer the requests of other copies' hosts only.
AnswerOthers(q) ==
  \E m \in inbox[q] :
    /\ m.type = ICMP_CALC_REQ
    /\ \E pckt \in Replies(ICMP_CALC_RES, q, m) :
         inbox' = IF m.src = HostOf[q] THEN Taken(q, m)
                                       ELSE Sent(Taken(q, m), pckt, m.src)
    /\ UNCHANGED <<cnt, shown, asked>>

(* The child, calc_res: a request is answered to where it came from;         *)
Answer(q) ==
  \E m \in inbox[q] :
    /\ m.type = ICMP_CALC_REQ
    /\ \E pckt \in Replies(ICMP_CALC_RES, q, m) :
         inbox' = Sent(Taken(q, m), pckt, m.src)
    /\ UNCHANGED <<cnt, shown, asked>>

(* an answer is printed, whoever asked.                                      *)
Show(q) ==
  \E m \in inbox[q] :
    /\ m.type = ICMP_CALC_RES
    /\ shown' = [shown EXCEPT ![q] = @ \cup
                   {[id |-> m.id, seq |-> m.seq, result |-> IntOf(m.msg),
                     by |-> m.by, n |-> m.n]}]
    /\ inbox' = Taken(q, m)
    /\ UNCHANGED <<cnt, asked>>

Listener(q) == Answer(q) \/ Show(q)
Next == \E p \in Procs : Request(p) \/ Listener(p)

Spec == Init /\ [][Next]_vars
(* Nothing is lost: a child takes in turn whatever reaches its socket.       *)
FairSpec == Spec /\ \A q \in Procs : WF_vars(Listener(q))

-----------------------------------------------------------------------------
(* The value of what was typed; a count of one or less has none: -1.         *)
Value(r) == IF Char(r.count) =< 1 THEN -1 ELSE Calculate(Expression(r))

(* Every answer a copy prints belongs to a request sent from its own host:   *)
(* it has its value, and its id is that of a copy on the host that was asked. *)
AnswerRight ==
  \A q \in Procs : \A a \in shown[q] :
    /\ HostOf[a.by] = HostOf[q]
    /\ a.n =< Len(asked[a.by])
    /\ a.result = Value(asked[a.by][a.n])
    /\ \E r \in Listeners(Target[a.by]) : a.id = Pid[r]

(* With one copy on a host and sequence numbers that have not come round, a  *)
(* user can tell the answers apart: one id and sequence, one answer, and to  *)
(* a request of his own.                                                     *)
Unambiguous ==
  \A q \in Procs : Listeners(HostOf[q]) = {q} /\ cnt[q] - 1 =< SeqMod =>
    \A a, b \in shown[q] : a.by = q /\ (a.id = b.id /\ a.seq = b.seq => a = b)

(* Every packet under way verifies: with its checksum in place, its shorts    *)
(* add up to all ones, whatever was in the packet and whoever filled it in.  *)
Verifies ==
  \A q \in Procs : \A m \in inbox[q] :
    AllOnes(Bytes(m.type, m.check, m.id, m.seq, m.msg))

(* Children that hear one another, and themselves, do not answer answers:    *)
(* when the users have stopped typing the network falls silent.              *)
Quiet == <>[](\A q \in Procs : inbox[q] = {})

=============================================================================
