------------------------------- MODULE MpStore -------------------------------
(* What the multiplexing calculator promises to its clients: one store of    *)
(* calculation records, one operation at a time.  There is no server here,   *)
(* no second process, no pipe and no socket; MpServ implements this.         *)
(*                                                                           *)
(* A client sends one request in its life and is served at most once.  A     *)
(* save is committed to the store and then acknowledged with the value; a    *)
(* load is answered with the records of its id, in the order they were       *)
(* committed.  A connection that is closed without a request is served too:  *)
(* the server does not notice that readv returned 0 and works on the request *)
(* it served before, so all such a connection can do is to repeat one.       *)
EXTENDS MpData

VARIABLES
  db,        \* every committed record
  busy,      \* the clients (at most one) whose save is committed, not answered
  sent,      \* the request of each client
  reply      \* the answer of each client

vars == <<db, busy, sent, reply>>

Init == /\ db = << >>
        /\ busy = {}
        /\ sent = [c \in Clients |-> NoReq]
        /\ reply = [c \in Clients |-> NoReply]

Unserved(c) == reply[c] = NoReply /\ c \notin busy

Send(c, r) == /\ sent[c] = NoReq
              /\ Unserved(c)
              /\ sent' = [sent EXCEPT ![c] = r]
              /\ UNCHANGED <<db, busy, reply>>

(* The records a save served for c may add: its own or, if it sent nothing,  *)
(* one that is in the store already.                                         *)
SavedBy(c) == IF sent[c] = NoReq
                THEN {db[k] : k \in 1 .. Len(db)}
                ELSE {Record(r) : r \in {s \in {sent[c]} : s.mode = "save"}}

Commit(c) == /\ busy = {}
             /\ Unserved(c)
             /\ \E rec \in SavedBy(c) : db' = Append(db, rec)
             /\ busy' = {c}
             /\ UNCHANGED <<sent, reply>>

Acknowledge(c) == /\ busy = {c}
                  /\ reply' = [reply EXCEPT ![c] = Result(db[Len(db)].req.value)]
                  /\ busy' = {}
                  /\ UNCHANGED <<db, sent>>

(* The ids a load served for c may ask for.                                  *)
LoadedBy(c) == IF sent[c] = NoReq
                 THEN Ids
                 ELSE {r.id : r \in {s \in {sent[c]} : s.mode = "load"}}

Load(c) == /\ busy = {}
           /\ Unserved(c)
           /\ \E i \in LoadedBy(c) :
                 reply' = [reply EXCEPT ![c] = Listing(db, i)]
           /\ UNCHANGED <<db, busy, sent>>

Next == \E c \in Clients : \/ \E r \in Requests : Send(c, r)
                           \/ Commit(c)
                           \/ Acknowledge(c)
                           \/ Load(c)

Spec == Init /\ [][Next]_vars

=============================================================================
