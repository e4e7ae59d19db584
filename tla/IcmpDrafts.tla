----------------------------- MODULE IcmpDrafts ----------------------------
(* The other programs of week11 that share the host's ICMP packets with the  *)
(* final calculator: its drafts icmp_calc.c, calc_ping_server.c (which only  *)
(* listens) and calc_ping_client.c (which calls calculate without defining   *)
(* it: its text is what is modelled), and myping.c.  The drafts take the     *)
(* result -1 for the end: a listener that prints it exits.                   *)
EXTENDS IcmpCalc

CONSTANTS
  Kinds,                        \* which programs may run together: {[Procs -> kind]}
  WidePid,                      \* whose pid has more than the 16 bits of the header
  ICMP_ECHO, ICMP_ECHOREPLY     \* the types: 8 and 0

Drafts    == {"icmp_calc", "calc_ping_server", "calc_ping_client"}
Answerers == Drafts \cup {"icmp_calc_final"}

ASSUME IcmpDraftsAssumption ==
  /\ Kinds \subseteq [Procs -> Answerers \cup {"myping"}]
  /\ WidePid \subseteq Procs
  /\ ICMP_ECHO \in Byte /\ ICMP_ECHOREPLY \in Byte
  /\ {ICMP_ECHO, ICMP_ECHOREPLY} \cap {ICMP_CALC_REQ, ICMP_CALC_RES} = {}

VARIABLES
  kind,          \* [Procs -> which program it is]
  parent,        \* [Procs -> "asks", "waits" for its child, or "gone"]
  listening,     \* [Procs -> is its listener running?]
  pinged         \* [Procs -> what a listener of myping has displayed]

draftVars == <<kind, parent, listening, pinged>>
allVars   == <<vars, draftVars>>

DInit == /\ Init
         /\ kind \in Kinds
         /\ parent = [p \in Procs |-> IF kind[p] = "calc_ping_server" THEN "gone" ELSE "asks"]
         /\ listening = [p \in Procs |-> TRUE]
         /\ pinged = [p \in Procs |-> {}]

-----------------------------------------------------------------------------
\* Mutant: the parent returns after its first request, whatever the count.
AskOnce(p) ==
  /\ kind[p] \in Answerers /\ parent[p] = "asks"
  /\ Request(p)
  /\ parent' = [parent EXCEPT ![p] = IF kind[p] = "icmp_calc" THEN "waits" ELSE @]
  /\ UNCHANGED <<kind, listening, pinged>>

(* calc, calc_req: the parent of icmp_calc returns after a count that asks   *)
(* for nothing, and waits for its child; the others go on.                   *)
Ask(p) ==
  /\ kind[p] \in Answerers /\ parent[p] = "asks"
  /\ Request(p)
  /\ parent' = [parent EXCEPT ![p] =
                  IF kind[p] = "icmp_calc" /\ asked'[p][cnt[p]].count =< 1 THEN "waits" ELSE @]
  /\ UNCHANGED <<kind, listening, pinged>>

(* ping: an echo request; the kernel of the other host replies to it.        *)
Ping(p) ==
  /\ kind[p] = "myping" /\ cnt[p] =< MaxSent[p]
  /\ LET Echo(type, h) == Packet(type, Pid[p], cnt[p] % SeqMod, << >>, h, p, cnt[p])
     IN inbox' = Sent(Sent(inbox, Echo(ICMP_ECHO, HostOf[p]), Target[p]),
                      Echo(ICMP_ECHOREPLY, Target[p]), HostOf[p])
  /\ cnt' = [cnt EXCEPT ![p] = @ + 1]
  /\ UNCHANGED <<shown, asked, draftVars>>

(* wait(0).                                                                  *)
Wait(p) ==
  /\ parent[p] = "waits" /\ ~listening[p]
  /\ parent' = [parent EXCEPT ![p] = "gone"]
  /\ UNCHANGED <<vars, kind, listening, pinged>>

-----------------------------------------------------------------------------
(* display, calc_res: a request is answered, by whichever program;           *)
Respond(q) ==
  /\ kind[q] \in Answerers /\ listening[q]
  /\ Answer(q)
  /\ UNCHANGED draftVars

(* an answer is printed, and with -1 a draft ends;                           *)
Prints(q) ==
  /\ kind[q] \in Answerers /\ listening[q]
  /\ Show(q)
  /\ listening' = [listening EXCEPT ![q] =
       ~(kind[q] \in Drafts /\ \E a \in shown'[q] \ shown[q] : a.result = -1)]
  /\ UNCHANGED <<kind, parent, pinged>>

(* myping displays any packet whose id is its pid, an int.                   *)
Own(q, m) == q \notin WidePid /\ m.id = Pid[q]

Display(q) ==
  /\ kind[q] = "myping"
  /\ \E m \in inbox[q] :
       /\ Own(q, m)
       /\ pinged' = [pinged EXCEPT ![q] = @ \cup {[type |-> m.type, seq |-> m.seq,
                                                   by |-> m.by, n |-> m.n]}]
       /\ inbox' = Taken(q, m)
  /\ UNCHANGED <<cnt, shown, asked, kind, parent, listening>>

(* What else comes is passed over, and nobody reads for a listener that has  *)
(* exited.                                                                   *)
PassOver(q) ==
  \E m \in inbox[q] :
    /\ \/ ~listening[q]
       \/ kind[q] = "myping" /\ ~Own(q, m)
       \/ kind[q] \in Answerers /\ m.type \notin {ICMP_CALC_REQ, ICMP_CALC_RES}
    /\ inbox' = Taken(q, m)
    /\ UNCHANGED <<cnt, shown, asked, draftVars>>

Listens(q) == Respond(q) \/ Prints(q) \/ Display(q) \/ PassOver(q) \/ Wait(q)
DNext == \E p \in Procs : Ask(p) \/ Ping(p) \/ Listens(p)

DSpec == DInit /\ [][DNext]_allVars
(* Nothing is lost: a listener takes in turn whatever reaches its socket.    *)
DFairSpec == DSpec /\ \A q \in Procs : WF_allVars(Listens(q))

-----------------------------------------------------------------------------
Answering(r) == kind[r] \in Answerers /\ listening[r]

(* When nothing is lost, every listener on the host that was asked answers   *)
(* every request, and every listener on the asking host prints each of these *)
(* answers, but for those that an answer of -1 has ended.  A ping is         *)
(* displayed with its reply, if the pid fits the header.                     *)
AllAnswered ==
  \A p \in Procs : \A n \in 1 .. cnt[p] - 1 :
    /\ kind[p] \in Answerers =>
         \A q \in Listeners(HostOf[p]), r \in Listeners(Target[p]) :
           Answering(q) /\ Answering(r) => \E a \in shown[q] : a.by = p /\ a.n = n /\ a.id = Pid[r]
    /\ kind[p] = "myping" /\ p \notin WidePid =>
         \E x \in pinged[p] : x.by = p /\ x.n = n /\ x.type = ICMP_ECHOREPLY

Answered == []<>AllAnswered

(* A user of icmp_calc who has typed a count of nothing does not wait for    *)
(* ever while anybody on the host that was asked is left to answer it.       *)
EndsWhenTold ==
  []<>(\A p \in Procs : parent[p] = "waits" => \A r \in Listeners(Target[p]) : ~Answering(r))
=============================================================================
