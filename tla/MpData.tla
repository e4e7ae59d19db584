-------------------------------- MODULE MpData --------------------------------
(* The data of the multiplexing calculator (op_mpserv.c and op_mpclnt.c):    *)
(* requests, records and replies, and what the store program computes from   *)
(* them.  MpServ (the two processes) and MpStore (what they promise) share   *)
(* it.                                                                       *)
EXTENDS Calc

CONSTANTS
  Clients,       \* one run of op_mpclnt each: one connection
  Ids,           \* what users type at the ID: prompt
  Exprs,         \* the calculations they ask for
  ReplyMax       \* how many records the DATA_MAX bytes of a load reply hold

ASSUME ReplyMaxAssumption == ReplyMax \in Nat \ {0}

NoId   == [id |-> "none"]         \* an id buffer nobody filled
NoExpr == [expr |-> "none"]       \* a request buffer nobody filled

Modes == {"save", "load", "quit", "other"}

(* What op_mpclnt can put on the wire.  "other" is a mode the program does   *)
(* not know; "cut" is the single byte of an operand count that is not        *)
(* positive, after which the client closes.                                  *)
Requests ==   [mode : {"save", "other"}, id : Ids, calc : Exprs]
         \cup [mode : {"load"}, id : Ids, calc : {NoExpr}]
         \cup [mode : {"quit", "cut"}, id : {NoId}, calc : {NoExpr}]

NoReq == [mode |-> "none", id |-> NoId, calc |-> NoExpr]

(* The text calculate() leaves in calcRes: the expression and its value.     *)
CalcString(e) == [expr |-> e, value |-> Calculate(e)]
Record(r)     == [id |-> r.id, req |-> CalcString(r.calc)]
Records       == [id : Ids, req : {CalcString(e) : e \in Exprs}]

(* The load branch of store_loop: the entries of the id, as many of them as  *)
(* write(fdsB[1], res, DATA_MAX) takes.                                      *)
\* Mutant: the loop over the entries starts at 1.
MatchesFrom1(s, i) ==
  LET res[n \in 0 .. Len(s)] ==
        IF n =< 1 THEN << >>
        ELSE IF s[n].id = i THEN Append(res[n-1], s[n]) ELSE res[n-1]
  IN res[Len(s)]

Matches(s, i) ==
  LET res[n \in 0 .. Len(s)] ==
        IF n = 0 THEN << >>
        ELSE IF s[n].id = i THEN Append(res[n-1], s[n]) ELSE res[n-1]
  IN res[Len(s)]

Cut(s)        == IF Len(s) > ReplyMax THEN SubSeq(s, 1, ReplyMax) ELSE s

NoReply   == [kind |-> "none"]
Result(n) == [kind |-> "result", value |-> n]
NotExist  == [kind |-> "notexist"]
Listing(s, i) == IF Matches(s, i) = << >>
                   THEN NotExist
                   ELSE [kind |-> "listing", recs |-> Cut(Matches(s, i))]

=============================================================================
