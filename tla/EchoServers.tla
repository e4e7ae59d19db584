---------------------------- MODULE EchoServers ----------------------------
(* Every echo server of the repository with its clients: which one runs is   *)
(* chosen at the start.                                                      *)
EXTENDS EchoReady, EchoFork, EchoSeq

CONSTANT Programs

ByLevel    == {"echo_selectserv", "echo_epollserv", "echo_EPLTserv"}
OneClient  == {"echo_stdserv", "server", "server2", "server3"}
OneProcess == ByLevel \cup {"echo_EPETserv"} \cup OneClient
Forking    == {"echo_mpserv", "echo_storeserv"}

ASSUME EchoServersAssumption ==
  /\ Programs \subseteq OneProcess \cup Forking
  /\ \A p \in Programs : /\ BufSize[p] \in Nat \ {0} /\ Turns[p] \in Nat
                         /\ Inbox[p] \in Nat \ {0}
  /\ "echo_stdserv" \in Programs =>
       \A c \in Clients : \A k \in 1 .. Len(Lines[c]) : Lines[c][k] =< Inbox["echo_stdserv"]

vars == <<netVars, readyVars, forkVars, seqVars>>

Init == program \in Programs /\ NetInit /\ ReadyInit /\ ForkInit /\ SeqInit

(* Nobody does anything any more, of what is modelled.                       *)
Over == (\A c \in Clients : cst[c] # "new" \/ c \in dead) /\ UNCHANGED vars

Next ==
  \/ (\E c \in Clients : Client(c)) /\ UNCHANGED <<readyVars, forkVars, seqVars>>
  \/ ByReadiness /\ UNCHANGED <<forkVars, seqVars>>
  \/ ByForking   /\ UNCHANGED <<readyVars, seqVars>>
  \/ InTurn      /\ UNCHANGED <<readyVars, forkVars>>
  \/ Over

Spec == Init /\ [][Next]_vars

(* Every process of the server is scheduled, a client that is in a read gets *)
(* what comes, and a write that has begun goes on as long as there is room.  *)
(* Users type when they like, or never.                                      *)
FairSpec ==
  /\ Spec
  /\ WF_vars(ByReadiness /\ UNCHANGED <<forkVars, seqVars>>)
  /\ WF_vars(InTurn /\ UNCHANGED <<readyVars, forkVars>>)
  /\ WF_vars(ByForking /\ (AcceptAndFork \/ Reap) /\ UNCHANGED <<readyVars, seqVars>>)
  /\ WF_vars(ByForking /\ Logger /\ UNCHANGED <<readyVars, seqVars>>)
  /\ \A c \in Clients :
       /\ WF_vars(ByForking /\ Child(c) /\ UNCHANGED <<readyVars, seqVars>>)
       /\ WF_vars(Reading(c) /\ UNCHANGED <<readyVars, forkVars, seqVars>>)
       /\ WF_vars(Writing(c) /\ UNCHANGED <<readyVars, forkVars, seqVars>>)

-----------------------------------------------------------------------------
Echoes(c) == 1 .. Len(out[c])
Exact(c)  == \A i \in Echoes(c) : out[c][i] = i
LastOf(c) == Lines[c][typed[c]]

(* No byte is sent twice or before an earlier one; no byte is skipped.       *)
InOrder(c)   == \A i, j \in Echoes(c) : i < j => out[c][i] < out[c][j]
NoneSkipped(c) == \A i \in Echoes(c) :
                    out[c][i] > 1 => \E j \in 1 .. i - 1 : out[c][j] = out[c][i] - 1

(* What a client is sent is what it said, from the beginning.  A socket that *)
(* does not block may leave gaps, once its window has been full.  A buffer   *)
(* that is not cleared repeats bytes of the same client, and until a read    *)
(* has filled it, with SeqBuf bytes that are sent first, nothing else.  The  *)
(* loop on feof sends the last line once more; only to who has said nothing  *)
(* it sends what was there before, of another client or of the stack.        *)
EchoRight ==
  \A c \in Clients :
    /\ \A i \in Echoes(c) : out[c][i] =< heard[c]
    /\ CASE program = "echo_EPETserv" -> InOrder(c) /\ (said[c] =< Window => Exact(c))
         [] program \in {"server", "server2"} ->
              NoneSkipped(c) /\ \A i \in Echoes(c) : out[c][i] = Foreign => i > SeqBuf
         [] program = "echo_stdserv" ->
              /\ \A i \in Echoes(c) : i =< heard[c] => out[c][i] = i
              /\ Len(out[c]) > heard[c] =>
                   /\ peer[c] \in {"half", "closed"}
                   /\ \A i \in Echoes(c) : i > heard[c] =>
                        out[c][i] = IF typed[c] > 0 THEN i - LastOf(c) ELSE Foreign
         [] OTHER -> Exact(c)

(* A client that closed before it had read all that it had been sent, or the *)
(* last byte that it had said.                                               *)
LeftEarly(c) == /\ cst[c] = "gone"
                /\ \/ got[c] < Len(out[c])
                   \/ said[c] > 0 /\ \A k \in 1 .. got[c] : out[c][k] # said[c]

(* Only such a client makes SIGPIPE kill a server, and of a server that      *)
(* forks only its own child.                                                 *)
Survives ==
  \A c \in dead : IF program \in OneProcess THEN \E d \in Clients : LeftEarly(d)
                                            ELSE LeftEarly(c)

(* A client that does not read, because its user types nothing or because    *)
(* its own write is blocked, with the window full: a write to it blocks.     *)
HoldsUp(c) == /\ buf[c] # << >> /\ Len(out[c]) - got[c] = Window
              /\ peer[c] = "open" /\ c \notin Split /\ cst[c] \in {"typing", "writing"}

(* Who the server cannot attend to: its process is dead, somebody else has   *)
(* the turn or it has served its number, the log has jammed its child, or it *)
(* is held up, by the client itself or, as there is one process, by another. *)
Unattended(c) == \/ c \in dead
                 \/ program \in OneClient /\ client # c
                 \/ Jammed(c)
                 \/ \E d \in Clients : HoldsUp(d) /\ (d = c \/ program \in OneProcess)

(* Unless it remains unattended for ever, whoever says something and stays   *)
(* is sent as many bytes; a socket that does not block drops what its window *)
(* does not take.                                                            *)
Echoed ==
  \A c \in Clients :
    []<>~Unattended(c) =>
      (said[c] > Len(out[c])) ~> \/ said[c] =< Len(out[c]) \/ ~Stays(c)
                                 \/ program = "echo_EPETserv" /\ said[c] > Window

(* Likewise whoever leaves, or has said all, has its connection closed.      *)
Released ==
  \A c \in Clients :
    []<>~Unattended(c) => (cst[c] \in {"gone", "reading"}) ~> (peer[c] = "closed")

=============================================================================
