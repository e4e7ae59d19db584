---------------------------- MODULE MpServProofs ----------------------------
(* For any number of clients, ids, calculations and descriptors: the parent  *)
(* and the child of op_mpserv.c stay in step, nothing saved is lost and no   *)
(* load gets an answer meant for another.                                    *)
(*                                                                           *)
(* The argument.  Pipe A is a chain: each block is the one the child reads   *)
(* after the block before it, the first is the one it reads next, and behind *)
(* the last is the one the parent writes next.  The records numbered by the  *)
(* chain are those committed and not yet stored.                             *)
(*                                                                           *)
(* Then that the two processes and their pipes implement the atomic store of *)
(* MpStore, and that a load lists every save acknowledged before it was      *)
(* sent.  A client is in one place: not yet connected, in the backlog,       *)
(* behind one descriptor, or done.  So a request is read once and answered   *)
(* once; while it is served the parent's buffers are that client's request   *)
(* or, if it sent none, the request served before, whose record is           *)
(* committed already.                                                        *)
EXTENDS MpServ, SequenceLemmas

LOCAL INSTANCE SequencesExt

-----------------------------------------------------------------------------
(* The loop of store_loop that collects the records of an id, for stores of  *)
(* any length, by induction over the indices 0 .. n of the loop.             *)

(* res after n turns of the loop, given what it was after n - 1.             *)
Turn(s, i, res, n) ==
  IF n = 0 THEN << >>
  ELSE IF s[n].id = i THEN Append(res[n-1], s[n]) ELSE res[n-1]

Computes(s, i, res, n) == \A k \in 0 .. n : res[k] = Turn(s, i, res, k)

(* The first turn and the ones after it.                                     *)
LEMMA Turns ==
  ASSUME NEW s, NEW i, NEW res, NEW N \in Nat, Computes(s, i, res, N)
  PROVE  /\ res[0] = << >>
         /\ \A n \in 0 .. N - 1 :
              res[n+1] = IF s[n+1].id = i THEN Append(res[n], s[n+1]) ELSE res[n]
<1>1. res[0] = Turn(s, i, res, 0)
  BY DEF Computes
<1>2. ASSUME NEW n \in 0 .. N - 1
      PROVE  res[n+1] = IF s[n+1].id = i THEN Append(res[n], s[n+1]) ELSE res[n]
  <2>1. n + 1 \in 0 .. N /\ n + 1 # 0 /\ (n + 1) - 1 = n
    OBVIOUS
  <2>2. res[n+1] = Turn(s, i, res, n + 1)
    BY <2>1 DEF Computes
  <2> QED BY <2>1, <2>2 DEF Turn
<1> QED BY <1>1, <1>2 DEF Turn

(* The buffer of every turn exists: the loop can be run to any n.            *)
LEMMA LoopRuns ==
  ASSUME NEW S, NEW s \in Seq(S), NEW i
  PROVE  \E res \in [0 .. Len(s) -> Seq(S)] : Computes(s, i, res, Len(s))
<1> DEFINE G == {n \in 0 .. Len(s) : \E res \in [0 .. n -> Seq(S)] : Computes(s, i, res, n)}
<1>1. 0 \in G
  <2> DEFINE res == [k \in 0 .. 0 |-> << >>]
  <2>1. res \in [0 .. 0 -> Seq(S)] /\ Computes(s, i, res, 0) /\ 0 \in 0 .. Len(s)
    BY DEF Computes, Turn
  <2> QED BY <2>1
<1>2. \A n \in 0 .. Len(s) - 1 : n \in G => n + 1 \in G
  <2> SUFFICES ASSUME NEW n \in 0 .. Len(s) - 1, n \in G PROVE n + 1 \in G
    OBVIOUS
  <2>1. PICK res \in [0 .. n -> Seq(S)] : Computes(s, i, res, n)
    OBVIOUS
  <2> DEFINE last == Turn(s, i, res, n + 1)
             longer == [k \in 0 .. n + 1 |-> IF k = n + 1 THEN last ELSE res[k]]
  <2>2. last \in Seq(S)
    BY DEF Turn
  <2>3. longer \in [0 .. n + 1 -> Seq(S)]
    BY <2>2
  <2>4. Computes(s, i, longer, n + 1)
    <3> SUFFICES ASSUME NEW k \in 0 .. n + 1 PROVE longer[k] = Turn(s, i, longer, k)
      BY DEF Computes
    <3>1. CASE k = n + 1
      <4>1. longer[k] = last /\ longer[k-1] = res[n]
        BY <3>1
      <4> HIDE DEF longer
      <4> QED BY <3>1, <4>1 DEF Turn
    <3>2. CASE k \in 0 .. n
      <4>1. longer[k] = res[k] /\ (k # 0 => longer[k-1] = res[k-1])
        BY <3>2
      <4> HIDE DEF longer
      <4> QED BY <3>2, <4>1, <2>1 DEF Computes, Turn
    <3> QED BY <3>1, <3>2
  <2>5. n + 1 \in 0 .. Len(s)
    OBVIOUS
  <2> HIDE DEF longer
  <2> QED BY <2>3, <2>4, <2>5
<1>3. G \in SUBSET (0 .. Len(s)) /\ Len(s) \in Nat
  OBVIOUS
<1>4. Len(s) \in G
  <2> HIDE DEF G
  <2>1. 0 .. Len(s) \subseteq G
    BY <1>1, <1>2, <1>3, LoopInduction
  <2> QED BY <2>1, <1>3
<1> QED BY <1>4

(* Matches is the buffer after the last turn of a run of the loop.           *)
LEMMA MatchesLoop ==
  ASSUME NEW S, NEW s \in Seq(S), NEW i
  PROVE  \E res \in [0 .. Len(s) -> Seq(S)] :
            Computes(s, i, res, Len(s)) /\ Matches(s, i) = res[Len(s)]
<1> DEFINE Loop(f) == f = [n \in 0 .. Len(s) |-> Turn(s, i, f, n)]
           F == CHOOSE f : Loop(f)
<1>1. PICK res \in [0 .. Len(s) -> Seq(S)] : Computes(s, i, res, Len(s))
  BY LoopRuns
<1>2. Loop(res)
  BY <1>1 DEF Computes
<1>3. Matches(s, i) = F[Len(s)]
  BY DEF Matches, Turn
<1>4. Loop(F)
  <2> HIDE DEF Loop
  <2> QED BY <1>2
<1> HIDE DEF F
<1>5. Computes(s, i, F, Len(s))
  BY <1>4 DEF Computes
<1>6. DOMAIN F = 0 .. Len(s) /\ F = [n \in DOMAIN F |-> F[n]]
  BY <1>4
<1>7. Len(s) \in Nat
  OBVIOUS
<1> DEFINE H == {n \in 0 .. Len(s) : F[n] \in Seq(S)}
<1>8. 0 \in H
  <2>1. F[0] = << >>
    BY <1>5, <1>7, Turns
  <2> QED BY <2>1
<1>9. \A n \in 0 .. Len(s) - 1 : n \in H => n + 1 \in H
  <2> SUFFICES ASSUME NEW n \in 0 .. Len(s) - 1, F[n] \in Seq(S)
               PROVE  F[n+1] \in Seq(S)
    OBVIOUS
  <2> HIDE DEF H
  <2>1. F[n+1] = IF s[n+1].id = i THEN Append(F[n], s[n+1]) ELSE F[n]
    BY <1>5, <1>7, Turns
  <2> QED BY <2>1
<1>10. H \in SUBSET (0 .. Len(s)) /\ Len(s) \in Nat
  OBVIOUS
<1>11. \A n \in 0 .. Len(s) : F[n] \in Seq(S)
  <2> HIDE DEF H
  <2>1. 0 .. Len(s) \subseteq H
    BY <1>8, <1>9, <1>10, LoopInduction
  <2> QED BY <2>1 DEF H
<1>12. F \in [0 .. Len(s) -> Seq(S)]
  BY <1>6, <1>11
<1> QED BY <1>3, <1>5, <1>12

(* Matches is a sequence of entries of the store.                            *)
LEMMA MatchesType ==
  ASSUME NEW S, NEW s \in Seq(S), NEW i
  PROVE  Matches(s, i) \in Seq(S)
<1>1. PICK res \in [0 .. Len(s) -> Seq(S)] :
            Computes(s, i, res, Len(s)) /\ Matches(s, i) = res[Len(s)]
  BY MatchesLoop
<1> QED BY <1>1

(* Every entry of the id is among them.                                      *)
LEMMA MatchesAll ==
  ASSUME NEW S, NEW s \in Seq(S), NEW i, NEW m \in 1 .. Len(s), s[m].id = i
  PROVE  \E j \in 1 .. Len(Matches(s, i)) : Matches(s, i)[j] = s[m]
<1>1. PICK res \in [0 .. Len(s) -> Seq(S)] :
            Computes(s, i, res, Len(s)) /\ Matches(s, i) = res[Len(s)]
  BY MatchesLoop
<1> DEFINE Lists(n) == \E j \in 1 .. Len(res[n]) : res[n][j] = s[m]
           G == {n \in 0 .. Len(s) : n >= m => Lists(n)}
<1>0. Len(s) \in Nat /\ ~ (0 >= m)
  OBVIOUS
<1>2. 0 \in G
  <2> HIDE DEF Lists
  <2> QED BY <1>0
<1>3. \A n \in 0 .. Len(s) - 1 : n \in G => n + 1 \in G
  <2> SUFFICES ASSUME NEW n \in 0 .. Len(s) - 1, n \in G, n + 1 >= m PROVE Lists(n + 1)
    OBVIOUS
  <2>1. res[n] \in Seq(S) /\ s[n+1] \in S
    BY <1>1
  <2>2. res[n+1] = IF s[n+1].id = i THEN Append(res[n], s[n+1]) ELSE res[n]
    <3> HIDE DEF G, Lists
    <3>1. n + 1 \in 0 .. Len(s) /\ n + 1 # 0 /\ (n + 1) - 1 = n
      BY <1>0
    <3>2. res[n+1] = Turn(s, i, res, n + 1)
      BY <1>1, <3>1 DEF Computes
    <3> QED BY <3>1, <3>2 DEF Turn
  <2>3. CASE n + 1 = m
    <3>1. res[n+1] = Append(res[n], s[m])
      BY <2>2, <2>3
    <3>2. Len(res[n+1]) = Len(res[n]) + 1 /\ res[n+1][Len(res[n]) + 1] = s[m]
      BY <3>1, <2>1, <2>3
    <3> QED BY <3>2, <2>1
  <2>4. CASE n + 1 # m
    <3>0. n >= m
      BY <2>4
    <3>1. PICK j \in 1 .. Len(res[n]) : res[n][j] = s[m]
      <4>1. Lists(n)
        <5> HIDE DEF Lists
        <5> QED BY <3>0
      <4> QED BY ONLY <4>1
    <3>2. j \in 1 .. Len(res[n+1]) /\ res[n+1][j] = res[n][j]
      <4> HIDE DEF G, Lists
      <4>1. CASE res[n+1] = res[n]
        BY <4>1
      <4>2. CASE res[n+1] = Append(res[n], s[n+1])
        BY <2>1, <4>2
      <4> QED BY <2>2, <4>1, <4>2
    <3> QED BY <3>1, <3>2
  <2> QED BY <2>3, <2>4
<1>4. G \in SUBSET (0 .. Len(s)) /\ Len(s) \in Nat
  OBVIOUS
<1>5. Len(s) \in G
  <2> HIDE DEF G
  <2>1. 0 .. Len(s) \subseteq G
    BY <1>2, <1>3, <1>4, LoopInduction
  <2> QED BY <2>1, <1>4
<1>6. Lists(Len(s))
  BY <1>5
<1> QED BY <1>1, <1>6

(* So a listing with fewer than ReplyMax entries has every entry of the id.  *)
LEMMA ListingAll ==
  ASSUME NEW S, NEW s \in Seq(S), NEW m \in 1 .. Len(s)
  PROVE  LET answer == Listing(s, s[m].id)
         IN /\ answer.kind = "listing"
            /\ \/ Len(answer.recs) = ReplyMax
               \/ \E j \in 1 .. Len(answer.recs) : answer.recs[j] = s[m]
<1> DEFINE all == Matches(s, s[m].id)
<1>1. all \in Seq(S) /\ \E j \in 1 .. Len(all) : all[j] = s[m]
  BY MatchesType, MatchesAll
<1>2. Listing(s, s[m].id) = [kind |-> "listing", recs |-> Cut(all)]
  BY <1>1 DEF Listing
<1> HIDE DEF all
<1>3. CASE Len(all) > ReplyMax
  <2>1. Len(Cut(all)) = ReplyMax
    BY <1>1, <1>3, ReplyMaxAssumption DEF Cut
  <2> QED BY <1>2, <2>1
<1>4. CASE ~ (Len(all) > ReplyMax)
  BY <1>1, <1>2, <1>4 DEF Cut
<1> QED BY <1>3, <1>4

(* So a load is answered with records, at most ReplyMax of them.             *)
LEMMA ListingType ==
  ASSUME NEW s \in Seq(Records), NEW i
  PROVE  Listing(s, i) \in {NotExist} \cup [kind : {"listing"}, recs : Seq(Records)]
<1>1. Matches(s, i) \in Seq(Records)
  BY MatchesType
<1>2. Cut(Matches(s, i)) \in Seq(Records)
  BY <1>1, ReplyMaxAssumption DEF Cut
<1> QED BY <1>1, <1>2 DEF Listing

-----------------------------------------------------------------------------
(* The chain.  Where the child stands once it has read block b, and the      *)
(* number of the record it is then at.                                       *)
AfterMode(m) == CASE m = "save" -> "id"
                  [] m = "load" -> "loadId"
                  [] m = "quit" -> "exited"
                  [] OTHER -> "mode"

After(b) == CASE b.kind = "mode" -> AfterMode(b.val)
              [] b.kind = "id" -> "req"
              [] b.kind = "loadId" -> "find"
              [] OTHER -> "mode"

RecAfter(b) == IF b.kind = "req" THEN b.rec + 1 ELSE b.rec

(* From a child at pc, with n records to come before the next one it stores. *)
Chain(p, pc, n) ==
  /\ p # << >> => p[1].kind = pc /\ p[1].rec = n
  /\ \A k \in 1 .. Len(p) - 1 : /\ p[k+1].kind = After(p[k])
                                /\ p[k+1].rec = RecAfter(p[k])

EndPc(p, pc) == IF p = << >> THEN pc ELSE After(p[Len(p)])
EndRec(p, n) == IF p = << >> THEN n ELSE RecAfter(p[Len(p)])

Next1 == Len(store) + 1       \* the number of the record the child is at

-----------------------------------------------------------------------------
(* What the parent's program counter says of the end of the chain.           *)
ParentAt ==
  LET end == EndPc(pipeA, cpc)
  IN /\ ppc = "id" => mode \in {"save", "load"} /\ end = AfterMode(mode)
     /\ ppc = "calc" => mode = "save" /\ end = "req"
     /\ ppc = "await" => /\ mode = "load"
                         /\ pipeB = << >> => end = "find"
                         /\ pipeB # << >> => end = "mode"
     /\ ppc = "result" => mode = "save"
     /\ ppc = "answer" => mode = "load"
     /\ ppc \in {"wait", "stopped"} => end = "exited"
     /\ ppc \notin {"id", "calc", "await", "wait", "stopped"} => end = "mode"

(* What the blocks and the child's buffers hold: the id and the text of the  *)
(* record they are part of, or the id of the request now being written.      *)
IdOf(n) == IF n =< Len(committed) THEN committed[n].id ELSE id

BlockHolds(b) ==
  /\ b.rec \in 1 .. Len(committed) + 1
  /\ b.kind = "id" => b.val = IdOf(b.rec) /\ (b.rec > Len(committed) => ppc = "calc")
  /\ b.kind = "loadId" => b.val = id /\ ppc = "await"
  /\ b.kind = "req" => b.rec =< Len(committed) /\ b.val = committed[b.rec].req

ChildHolds ==
  /\ cpc = "req" => slotId = IdOf(Next1) /\ (Next1 > Len(committed) => ppc = "calc")
  /\ cpc = "find" => loadId = id /\ ppc = "await"

Contents == ChildHolds /\ \A k \in 1 .. Len(pipeA) : BlockHolds(pipeA[k])

Commands ==
  /\ Chain(pipeA, cpc, Next1)
  /\ EndRec(pipeA, Next1) = Len(committed) + 1
  /\ ParentAt
  /\ Contents
  /\ Len(store) =< Len(committed)
  /\ \A k \in 1 .. Len(store) : store[k] = committed[k]
  /\ AnswerIsForThisLoad

(* The descriptors the parent scans, and what readv can find behind them.    *)
Serving ==
  /\ ppc # "stopped" => \A f \in reads \ {SERV} : conn[f] \in Clients
  /\ ppc # "stopped" /\ SERV \in cpy_reads => backlog # << >>
  /\ ppc \notin {"select", "scan", "stopped"} => fd \in FDs /\ fd \notin cpy_reads
  /\ \A c \in Clients : unread[c] => sent[c] \in Requests
  /\ NoSaveOfGarbage

IInv == TypeOK /\ Serving /\ Commands

-----------------------------------------------------------------------------
(* A block's length is that of the read it is meant for.                     *)
LEMMA BlockLen ==
  ASSUME NEW b \in Blocks
  PROVE  /\ b.kind \in {"mode", "id", "loadId", "req"}
         /\ b.kind = "mode" => b.len = MODE_SIZE /\ b.val \in Modes
         /\ b.kind \in {"id", "loadId"} => b.len = ID_SIZE /\ b.val \in Ids
         /\ b.kind = "req" => b.len = LOAD_MAX /\ b.val \in {CalcString(e) : e \in Exprs}
         /\ b.rec \in Nat
  BY DEF Blocks

(* A write of the block the chain ends before makes it one longer.           *)
LEMMA Extend ==
  ASSUME NEW p \in Seq(Blocks), NEW b \in Blocks, NEW pc, NEW n \in Nat,
         Chain(p, pc, n), EndPc(p, pc) = b.kind, EndRec(p, n) = b.rec
  PROVE  /\ Chain(Append(p, b), pc, n)
         /\ EndPc(Append(p, b), pc) = After(b)
         /\ EndRec(Append(p, b), n) = RecAfter(b)
<1> DEFINE q == Append(p, b)
<1>1. q \in Seq(Blocks) /\ q # << >> /\ Len(q) = Len(p) + 1 /\ q[Len(q)] = b
  OBVIOUS
<1>2. \A k \in 1 .. Len(p) : q[k] = p[k]
  OBVIOUS
<1>3. CASE p = << >>
  <2>1. Len(q) = 1 /\ q[1] = b
    BY <1>3
  <2> HIDE DEF q
  <2> QED BY <1>1, <1>3, <2>1 DEF Chain, EndPc, EndRec
<1>4. CASE p # << >>
  <2>1. Len(p) \in Nat /\ Len(p) >= 1 /\ q[1] = p[1]
    BY <1>4, <1>2
  <2>2. q[Len(p) + 1].kind = After(q[Len(p)]) /\ q[Len(p) + 1].rec = RecAfter(q[Len(p)])
    BY <1>1, <1>2, <1>4, <2>1 DEF EndPc, EndRec
  <2> HIDE DEF q
  <2>3. \A k \in 1 .. Len(q) - 1 : /\ q[k+1].kind = After(q[k])
                                   /\ q[k+1].rec = RecAfter(q[k])
    <3> SUFFICES ASSUME NEW k \in 1 .. Len(p)
                 PROVE  q[k+1].kind = After(q[k]) /\ q[k+1].rec = RecAfter(q[k])
      BY <1>1
    <3>1. CASE k = Len(p)  BY <3>1, <2>2
    <3>2. CASE k \in 1 .. Len(p) - 1
      <4>1. q[k] = p[k] /\ q[k+1] = p[k+1]
        BY <1>2, <3>2, <2>1
      <4> QED BY <4>1, <3>2 DEF Chain
    <3> QED BY <3>1, <3>2, <2>1
  <2>4. q[1].kind = pc /\ q[1].rec = n
    BY <1>4, <2>1 DEF Chain
  <2> QED BY <1>1, <2>3, <2>4 DEF Chain, EndPc, EndRec
<1> QED BY <1>3, <1>4

(* A read of the first block leaves a chain from where the child now is, to  *)
(* the same end.                                                             *)
LEMMA Shrink ==
  ASSUME NEW p \in Seq(Blocks), NEW pc, NEW n \in Nat,
         p # << >>, Chain(p, pc, n)
  PROVE  /\ Chain(Tail(p), After(p[1]), RecAfter(p[1]))
         /\ EndPc(Tail(p), After(p[1])) = EndPc(p, pc)
         /\ EndRec(Tail(p), RecAfter(p[1])) = EndRec(p, n)
<1> DEFINE q == Tail(p)
<1>1. q \in Seq(Blocks) /\ Len(p) \in Nat /\ Len(p) >= 1 /\ Len(q) = Len(p) - 1
  OBVIOUS
<1>2. \A k \in 1 .. Len(q) : q[k] = p[k+1]
  OBVIOUS
<1> HIDE DEF q
<1>3. q = << >> <=> Len(p) = 1
  BY <1>1
<1>4. \A k \in 1 .. Len(q) - 1 : /\ q[k+1].kind = After(q[k])
                                 /\ q[k+1].rec = RecAfter(q[k])
  <2> SUFFICES ASSUME NEW k \in 1 .. Len(q) - 1
               PROVE  q[k+1].kind = After(q[k]) /\ q[k+1].rec = RecAfter(q[k])
    OBVIOUS
  <2>1. q[k] = p[k+1] /\ q[k+1] = p[k+2] /\ k + 1 \in 1 .. Len(p) - 1
    BY <1>1, <1>2
  <2>2. p[(k+1)+1].kind = After(p[k+1]) /\ p[(k+1)+1].rec = RecAfter(p[k+1])
    BY <2>1 DEF Chain
  <2> QED BY <2>1, <2>2
<1>5. q # << >> => /\ q[1].kind = After(p[1]) /\ q[1].rec = RecAfter(p[1])
                   /\ q[Len(q)] = p[Len(p)]
  <2> SUFFICES ASSUME q # << >>
               PROVE  /\ q[1].kind = After(p[1]) /\ q[1].rec = RecAfter(p[1])
                      /\ q[Len(q)] = p[Len(p)]
    OBVIOUS
  <2>1. 1 \in 1 .. Len(p) - 1 /\ q[1] = p[1+1] /\ q[Len(q)] = p[Len(p)]
    BY <1>1, <1>2, <1>3
  <2> QED BY <2>1 DEF Chain
<1> QED BY <1>3, <1>4, <1>5, <1>1 DEF Chain, EndPc, EndRec, q

-----------------------------------------------------------------------------
(* The initial state satisfies the invariant.                                *)
LEMMA InitIInv == Init => IInv
<1> SUFFICES ASSUME Init PROVE IInv
  OBVIOUS
<1> USE DEF Init
<1>1. TypeOK
  BY MaxFdAssumption DEF TypeOK, Modes, Replies, FDs, SERV
<1>2. Serving
  BY DEF Serving, NoSaveOfGarbage
<1>3. Chain(pipeA, cpc, Next1) /\ EndRec(pipeA, Next1) = Len(committed) + 1 /\ ParentAt
  BY DEF Chain, EndRec, ParentAt, EndPc, Next1
<1>4. Contents /\ AnswerIsForThisLoad /\ \A k \in 1 .. Len(store) : store[k] = committed[k]
  BY DEF Contents, ChildHolds, AnswerIsForThisLoad
<1>5. Len(store) =< Len(committed)
  OBVIOUS
<1> QED BY <1>1, <1>2, <1>3, <1>4, <1>5 DEF IInv, Commands

-----------------------------------------------------------------------------
(* A read of the child takes exactly the block it is meant for.              *)
LEMMA ReadsBlock ==
  ASSUME IInv, pipeA # << >>
  PROVE  /\ pipeA[1] \in Blocks /\ pipeA[1].kind = cpc
         /\ cpc \in {"mode", "id", "loadId", "req"}
         /\ cpc = "mode" => AfterRead(pipeA, MODE_SIZE) = Tail(pipeA)
         /\ cpc \in {"id", "loadId"} => AfterRead(pipeA, ID_SIZE) = Tail(pipeA)
         /\ cpc = "req" => AfterRead(pipeA, LOAD_MAX) = Tail(pipeA)
         /\ Tail(pipeA) \in Seq(Blocks)
<1>1. pipeA \in Seq(Blocks) /\ pipeA[1] \in Blocks /\ Tail(pipeA) \in Seq(Blocks)
  BY DEF IInv, TypeOK
<1>2. pipeA[1].kind = cpc
  BY DEF IInv, Commands, Chain
<1> QED BY <1>1, <1>2, BlockLen DEF AfterRead, MODE_SIZE, ID_SIZE, LOAD_MAX

-----------------------------------------------------------------------------
(* Every step keeps the types.                                               *)
LEMMA NextTypeOK ==
  ASSUME IInv, [Next]_vars
  PROVE  TypeOK'
<1> USE DEF IInv, TypeOK
<1>1. ASSUME NEW c \in Clients, Connect(c) PROVE TypeOK'
  BY <1>1 DEF Connect, parentVars, childVars
<1>2. ASSUME NEW c \in Clients, NEW r \in Requests, Send(c, r) PROVE TypeOK'
  BY <1>2 DEF Send, parentVars, childVars
<1>3. ASSUME NEW c \in Clients, Leave(c) PROVE TypeOK'
  BY <1>3 DEF Leave, parentVars, childVars
<1>4. CASE Select
  BY <1>4 DEF Select, Ready, clientVars, childVars
<1>5. CASE ScanDone
  BY <1>5 DEF ScanDone, clientVars, childVars
<1>6. CASE Accept
  BY <1>6 DEF Accept, ScanReaches, Serving, FDs, SERV, childVars
<1>7. ASSUME NEW f \in FDs, Readv(f) PROVE TypeOK'
  <2>1. conn[f] \in Clients /\ (unread[conn[f]] => sent[conn[f]] \in Requests)
    BY <1>7 DEF Readv, ScanReaches, Serving, FDs, SERV
  <2>2. mode' \in Modes /\ id' \in Ids \cup {NoId} /\ calc' \in Exprs \cup {NoExpr}
    BY <1>7, <2>1 DEF Readv, Requests, Modes
  <2> QED BY <1>7, <2>1, <2>2 DEF Readv, ScanReaches, childVars
<1>8. CASE WriteMode
  BY <1>8 DEF WriteMode, ParentTo, WriteA, ModeBlock, Block, Blocks, childVars
<1>9. CASE WriteId
  BY <1>9 DEF WriteId, ParentTo, WriteA, IdBlock, Block, Blocks, childVars, Commands, ParentAt, Serving, NoSaveOfGarbage
<1>10. CASE WriteReq
  BY <1>10 DEF WriteReq, ParentTo, WriteA, ReqBlock, Block, Blocks, childVars, Commands, ParentAt, Serving, NoSaveOfGarbage, Records
<1>11. CASE WriteResult
  <2>1. calc \in Exprs
    BY <1>11 DEF WriteResult, ParentTo, Commands, ParentAt, Serving, NoSaveOfGarbage
  <2>2. Result(Calculate(calc)) \in Replies
    BY <2>1 DEF Replies
  <2> QED BY <1>11, <2>2 DEF WriteResult, ParentTo, Answer, childVars
<1>12. CASE ReadLoad
  <2>1. pipeB' = Tail(pipeB) /\ pipeB # << >>
    BY <1>12 DEF ReadLoad, AfterRead, Commands, AnswerIsForThisLoad
  <2>2. /\ pipeB' \in Seq([kind : {"answer"}, val : Replies, len : {9, DATA_MAX}, rec : Nat])
        /\ load' \in Replies
    <3> DEFINE Answers == [kind : {"answer"}, val : Replies, len : {9, DATA_MAX}, rec : Nat]
    <3>1. pipeB \in Seq(Answers) /\ load' = pipeB[1].val
      BY <1>12 DEF ReadLoad
    <3>2. pipeB[1] \in Answers /\ Tail(pipeB) \in Seq(Answers)
      <4> HIDE DEF Answers
      <4> QED BY <3>1, <2>1
    <3> QED BY <2>1, <3>1, <3>2
  <2> QED BY <1>12, <2>2 DEF ReadLoad, ParentTo, childVars
<1>13. CASE WriteLoad
  BY <1>13 DEF WriteLoad, ParentTo, Answer, childVars
<1>14. CASE Close
  BY <1>14 DEF Close, Serving, childVars
<1>15. CASE Wait
  BY <1>15 DEF Wait, ParentTo, childVars
<1>16. CASE ReadMode
  <2>1. pipeA' = Tail(pipeA) /\ pipeA # << >> /\ pipeA \in Seq(Blocks)
    BY <1>16, ReadsBlock DEF ReadMode, ReadA
  <2> QED BY <1>16, <2>1 DEF ReadMode, ReadA, clientVars, parentVars
<1>17. CASE ReadSlotId
  <2>1. pipeA' = Tail(pipeA) /\ pipeA' \in Seq(Blocks) /\ pipeA[1].val \in Ids
    BY <1>17, ReadsBlock, BlockLen DEF ReadSlotId, ReadA
  <2> QED BY <1>17, <2>1 DEF ReadSlotId, ReadA, clientVars, parentVars
<1>18. CASE ReadReq
  <2>1. /\ pipeA' = Tail(pipeA) /\ pipeA' \in Seq(Blocks)
        /\ pipeA[1].val \in {CalcString(e) : e \in Exprs}
    BY <1>18, ReadsBlock, BlockLen DEF ReadReq, ReadA
  <2>2. slotId \in Ids
    <3>1. slotId = IdOf(Next1) /\ Next1 \in Nat \ {0} /\ (Next1 > Len(committed) => ppc = "calc")
      BY <1>18 DEF ReadReq, ReadA, Commands, Contents, ChildHolds, Next1
    <3>2. CASE Next1 =< Len(committed)
      <4>1. committed[Next1] \in Records
        BY <3>1, <3>2
      <4> QED BY <3>1, <3>2, <4>1 DEF IdOf, Records
    <3>3. CASE ppc = "calc"
      <4>1. id \in Ids
        BY <3>3 DEF Commands, ParentAt, Serving, NoSaveOfGarbage
      <4> QED BY <3>1, <3>2, <4>1 DEF IdOf
    <3> QED BY <3>1, <3>2, <3>3
  <2>3. store' \in Seq(Records)
    BY <1>18, <2>1, <2>2 DEF ReadReq, Records
  <2> QED BY <1>18, <2>1, <2>3 DEF ReadReq, ReadA, clientVars, parentVars
<1>19. CASE ReadLoadId
  <2>1. pipeA' = Tail(pipeA) /\ pipeA' \in Seq(Blocks) /\ pipeA[1].val \in Ids
    BY <1>19, ReadsBlock, BlockLen DEF ReadLoadId, ReadA
  <2> QED BY <1>19, <2>1 DEF ReadLoadId, ReadA, clientVars, parentVars
<1>20. CASE Find
  BY <1>20, ListingType DEF Find, Block, Replies, clientVars, parentVars
<1>21. CASE UNCHANGED vars
  BY <1>21 DEF vars, clientVars, parentVars, childVars
<1> QED
  BY <1>1, <1>2, <1>3, <1>4, <1>5, <1>6, <1>7, <1>8, <1>9, <1>10, <1>11, <1>12, <1>13, <1>14,
     <1>15, <1>16, <1>17, <1>18, <1>19, <1>20, <1>21
     DEF Next, Client, Parent, Child, SelectTimeout, Stopped

-----------------------------------------------------------------------------
(* Every step keeps what the parent scans and readv finds.                   *)
LEMMA NextServing ==
  ASSUME IInv, [Next]_vars
  PROVE  Serving'
<1> USE DEF IInv, TypeOK, Serving, NoSaveOfGarbage
<1>1. ASSUME NEW c \in Clients, Connect(c) PROVE Serving'
  <2>1. backlog' # << >>
    <3>1. backlog \in Seq(Clients) /\ backlog' = Append(backlog, c)
      BY <1>1 DEF Connect
    <3> QED BY <3>1 DEF SERV
  <2> QED BY <1>1, <2>1 DEF Connect, parentVars
<1>2. ASSUME NEW c \in Clients, NEW r \in Requests, Send(c, r) PROVE Serving'
  <2>1. ASSUME NEW d \in Clients, unread'[d] PROVE sent'[d] \in Requests
    BY <1>2, <2>1 DEF Send
  <2> QED BY <1>2, <2>1 DEF Send, parentVars
<1>3. ASSUME NEW c \in Clients, Leave(c) PROVE Serving'
  BY <1>3 DEF Leave, parentVars
<1>4. CASE Select
  BY <1>4 DEF Select, Ready, clientVars
<1>5. CASE ScanDone
  BY <1>5 DEF ScanDone, clientVars
<1>6. CASE Accept
  BY <1>6 DEF Accept, ScanReaches, FDs, SERV
<1>7. ASSUME NEW f \in FDs, Readv(f) PROVE Serving'
  <2>1. conn[f] \in Clients /\ (unread[conn[f]] => sent[conn[f]] \in Requests)
    BY <1>7 DEF Readv, ScanReaches, FDs, SERV
  <2>2. NoSaveOfGarbage'
    BY <1>7, <2>1 DEF Readv, Requests
  <2> QED BY <1>7, <2>1, <2>2 DEF Readv, ScanReaches, FDs, SERV
<1>8. CASE WriteMode \/ WriteId \/ WriteReq \/ WriteResult \/ ReadLoad \/ WriteLoad
  BY <1>8 DEF WriteMode, WriteId, WriteReq, WriteResult, ReadLoad, WriteLoad, ParentTo
<1>9. CASE Close
  BY <1>9 DEF Close
<1>10. CASE Wait
  BY <1>10 DEF Wait, ParentTo
<1>11. CASE Child
  BY <1>11 DEF Child, ReadMode, ReadSlotId, ReadReq, ReadLoadId, Find, clientVars, parentVars
<1>12. CASE UNCHANGED vars
  BY <1>12 DEF vars, clientVars, parentVars
<1> QED
  BY <1>1, <1>2, <1>3, <1>4, <1>5, <1>6, <1>7, <1>8, <1>9, <1>10, <1>11, <1>12
     DEF Next, Client, Parent, SelectTimeout, Stopped

-----------------------------------------------------------------------------
(* A step of the parent or of a client that touches neither the pipes nor    *)
(* the child keeps the commands in order: the parent stays between two       *)
(* commands, or where it is.                                                 *)
Waits == ppc \in {"id", "calc", "result", "await", "answer", "wait", "stopped"}

(* Steps that leave the pipes and the child alone: the parent stays where    *)
(* the end of the pipe says.                                                 *)
LEMMA Aside ==
  ASSUME IInv, UNCHANGED <<pipeA, pipeB, childVars, committed>>,
         \/ UNCHANGED <<ppc, mode, id>>
         \/ ppc \in {"result", "answer"} /\ ppc' = "close" /\ UNCHANGED <<mode, id>>
         \/ ppc = "wait" /\ ppc' = "stopped" /\ UNCHANGED <<mode, id>>
         \/ ~Waits /\ ~Waits'
  PROVE  Commands'
<1> USE DEF IInv, Commands, childVars
<1>1. ParentAt'
  BY DEF ParentAt, EndPc, Waits, AnswerIsForThisLoad
<1>2. Contents'
  <2>1. ChildHolds'
    BY DEF Contents, ChildHolds, IdOf, Next1, Waits, TypeOK
  <2>2. ASSUME NEW k \in 1 .. Len(pipeA) PROVE BlockHolds(pipeA[k])'
    <3>1. pipeA[k] \in Blocks /\ BlockHolds(pipeA[k]) /\ pipeA[k]' = pipeA[k]
      BY DEF Contents, TypeOK
    <3>2. pipeA[k].rec \in Nat /\ Len(committed) \in Nat
      BY <3>1, BlockLen DEF TypeOK
    <3> QED BY <3>1, <3>2 DEF BlockHolds, IdOf, Waits
  <2> QED BY <2>1, <2>2 DEF Contents
<1>3. AnswerIsForThisLoad'
  BY DEF AnswerIsForThisLoad, Waits
<1>4. /\ (Chain(pipeA, cpc, Next1) /\ EndRec(pipeA, Next1) = Len(committed) + 1)'
      /\ Len(store') =< Len(committed')
  BY DEF Chain, EndRec, Next1
<1> QED BY <1>1, <1>2, <1>3, <1>4

(* A write to pipe A of the block the chain ends before.                     *)
LEMMA Writes ==
  ASSUME IInv, NEW b \in Blocks, WriteA(b), UNCHANGED <<pipeB, childVars>>,
         EndPc(pipeA, cpc) = b.kind, b.rec = Len(committed) + 1
  PROVE  /\ Chain(pipeA, cpc, Next1)'
         /\ EndPc(pipeA', cpc') = After(b)
         /\ EndRec(pipeA, Next1)' = RecAfter(b)
         /\ pipeA' # << >>
         /\ \A k \in 1 .. Len(pipeA') : k = Len(pipeA) + 1 \/ k \in 1 .. Len(pipeA)
         /\ \A k \in 1 .. Len(pipeA) : pipeA'[k] = pipeA[k]
         /\ pipeA'[Len(pipeA) + 1] = b
<1>1. pipeA \in Seq(Blocks) /\ Next1 \in Nat
  BY DEF IInv, TypeOK, Next1
<1>2. Chain(pipeA, cpc, Next1) /\ EndRec(pipeA, Next1) = b.rec
  BY DEF IInv, Commands
<1>3. pipeA' = Append(pipeA, b) /\ cpc' = cpc /\ Next1' = Next1
  BY DEF WriteA, childVars, Next1
<1>4. /\ Chain(pipeA', cpc', Next1')
      /\ EndPc(pipeA', cpc') = After(b)
      /\ EndRec(pipeA', Next1') = RecAfter(b)
  BY <1>1, <1>2, <1>3, Extend
<1>5. /\ pipeA' # << >>
      /\ \A k \in 1 .. Len(pipeA') : k = Len(pipeA) + 1 \/ k \in 1 .. Len(pipeA)
      /\ \A k \in 1 .. Len(pipeA) : pipeA'[k] = pipeA[k]
      /\ pipeA'[Len(pipeA) + 1] = b
  BY <1>1, <1>3
<1> QED BY <1>4, <1>5 DEF Chain, EndRec

(* The parent writes the mode of a command.                                  *)
LEMMA WriteModeCommands ==
  ASSUME IInv, WriteMode
  PROVE  Commands'
<1> DEFINE b == ModeBlock(mode)
<1> USE DEF IInv, Commands
<1>1. b \in Blocks /\ b.kind = "mode" /\ b.rec = Len(committed) + 1 /\ b.val = mode
  BY DEF ModeBlock, Block, Blocks, TypeOK
<1>2. /\ WriteA(b) /\ ppc = "mode" /\ UNCHANGED <<mode, id, pipeB, childVars, committed>>
      /\ ppc' = CASE mode \in {"save", "load"} -> "id" [] mode = "quit" -> "wait" [] OTHER -> "close"
  BY DEF WriteMode, ParentTo
<1> HIDE DEF b
<1>3. EndPc(pipeA, cpc) = "mode" /\ pipeB = << >>
  BY <1>2 DEF ParentAt, AnswerIsForThisLoad
<1>4. /\ Chain(pipeA, cpc, Next1)'
      /\ EndPc(pipeA', cpc') = After(b)
      /\ EndRec(pipeA, Next1)' = RecAfter(b)
      /\ \A k \in 1 .. Len(pipeA') : k = Len(pipeA) + 1 \/ k \in 1 .. Len(pipeA)
      /\ \A k \in 1 .. Len(pipeA) : pipeA'[k] = pipeA[k]
      /\ pipeA'[Len(pipeA) + 1] = b
  BY <1>1, <1>2, <1>3, Writes
<1>5. RecAfter(b) = Len(committed') + 1
  BY <1>1, <1>2 DEF RecAfter
<1>6. ParentAt'
  BY <1>1, <1>2, <1>4, <1>3 DEF ParentAt, After, AfterMode, TypeOK, Modes
<1>7. ChildHolds'
  BY <1>2 DEF Contents, ChildHolds, IdOf, Next1, childVars, TypeOK
<1>8. ASSUME NEW k \in 1 .. Len(pipeA') PROVE BlockHolds(pipeA[k])'
  <2>1. CASE k = Len(pipeA) + 1
    BY <1>1, <1>2, <1>4, <2>1 DEF BlockHolds, TypeOK
  <2>2. CASE k \in 1 .. Len(pipeA)
    <3>1. BlockHolds(pipeA[k]) /\ pipeA[k] \in Blocks /\ pipeA'[k] = pipeA[k]
      BY <1>4, <2>2 DEF Contents, TypeOK
    <3> QED BY <3>1, <1>2, BlockLen DEF BlockHolds, IdOf, TypeOK
  <2> QED BY <1>4, <2>1, <2>2
<1>9. AnswerIsForThisLoad'
  BY <1>2, <1>3 DEF AnswerIsForThisLoad
<1>10. Len(store') =< Len(committed') /\ \A k \in 1 .. Len(store') : store'[k] = committed'[k]
  BY <1>2 DEF childVars
<1> QED BY <1>4, <1>5, <1>6, <1>7, <1>8, <1>9, <1>10 DEF Contents

(* The parent writes the id.                                                 *)
LEMMA WriteIdCommands ==
  ASSUME IInv, WriteId
  PROVE  Commands'
<1> DEFINE b == IdBlock(id)
<1> USE DEF IInv, Commands
<1>1. /\ WriteA(b) /\ ppc = "id" /\ ppc' = IF mode = "save" THEN "calc" ELSE "await"
      /\ UNCHANGED <<mode, id, pipeB, childVars, committed>>
  BY DEF WriteId, ParentTo
<1>2. mode \in {"save", "load"} /\ EndPc(pipeA, cpc) = AfterMode(mode) /\ pipeB = << >>
  BY <1>1 DEF ParentAt, AnswerIsForThisLoad
<1>3. id \in Ids
  BY <1>2 DEF Serving, NoSaveOfGarbage
<1>4. /\ b \in Blocks /\ b.kind = AfterMode(mode) /\ b.rec = Len(committed) + 1 /\ b.val = id
      /\ b.kind = IF mode = "save" THEN "id" ELSE "loadId"
  BY <1>2, <1>3 DEF IdBlock, Block, Blocks, TypeOK, AfterMode
<1> HIDE DEF b
<1>5. /\ Chain(pipeA, cpc, Next1)'
      /\ EndPc(pipeA', cpc') = After(b)
      /\ EndRec(pipeA, Next1)' = RecAfter(b)
      /\ pipeA' # << >>
      /\ \A k \in 1 .. Len(pipeA') : k = Len(pipeA) + 1 \/ k \in 1 .. Len(pipeA)
      /\ \A k \in 1 .. Len(pipeA) : pipeA'[k] = pipeA[k]
      /\ pipeA'[Len(pipeA) + 1] = b
  BY <1>1, <1>2, <1>4, Writes
<1>6. RecAfter(b) = Len(committed') + 1
  BY <1>1, <1>2, <1>4 DEF RecAfter
<1>7. ParentAt'
  BY <1>1, <1>2, <1>4, <1>5 DEF ParentAt, After
<1>8. ChildHolds'
  BY <1>1 DEF Contents, ChildHolds, IdOf, Next1, childVars, TypeOK
<1>9. ASSUME NEW k \in 1 .. Len(pipeA') PROVE BlockHolds(pipeA[k])'
  <2>1. CASE k = Len(pipeA) + 1
    BY <1>1, <1>2, <1>4, <1>5, <2>1 DEF BlockHolds, IdOf, TypeOK
  <2>2. CASE k \in 1 .. Len(pipeA)
    <3>1. BlockHolds(pipeA[k]) /\ pipeA'[k] = pipeA[k]
      BY <1>5, <2>2 DEF Contents
    <3>2. pipeA[k].kind # "loadId" /\ (pipeA[k].kind = "id" => pipeA[k].rec =< Len(committed))
      <4>1. ppc # "await" /\ ppc # "calc" /\ Len(committed) \in Nat
        BY <1>1 DEF TypeOK
      <4>2. pipeA[k].rec \in 1 .. Len(committed) + 1
        BY <3>1 DEF BlockHolds
      <4> QED BY ONLY <3>1, <4>1, <4>2 DEF BlockHolds
    <3> QED BY <3>1, <3>2, <1>1 DEF BlockHolds, IdOf
  <2> QED BY <1>5, <2>1, <2>2
<1>10. AnswerIsForThisLoad'
  BY <1>1, <1>2 DEF AnswerIsForThisLoad
<1>11. Len(store') =< Len(committed') /\ \A k \in 1 .. Len(store') : store'[k] = committed'[k]
  BY <1>1 DEF childVars
<1> QED BY <1>5, <1>6, <1>7, <1>8, <1>9, <1>10, <1>11 DEF Contents

(* The parent writes the text of a save and, history, commits the record.    *)
LEMMA WriteReqCommands ==
  ASSUME IInv, WriteReq
  PROVE  Commands'
<1> DEFINE b == ReqBlock(CalcString(calc))
<1> USE DEF IInv, Commands
<1>1. /\ WriteA(b) /\ ppc = "calc" /\ ppc' = "result"
      /\ UNCHANGED <<mode, id, pipeB, childVars>>
      /\ committed' = Append(committed, [id |-> id, req |-> CalcString(calc)])
  BY DEF WriteReq, ParentTo
<1>2. mode = "save" /\ EndPc(pipeA, cpc) = "req" /\ pipeB = << >>
  BY <1>1 DEF ParentAt, AnswerIsForThisLoad
<1>3. id \in Ids /\ calc \in Exprs
  BY <1>2 DEF Serving, NoSaveOfGarbage
<1>4. b \in Blocks /\ b.kind = "req" /\ b.rec = Len(committed) + 1 /\ b.val = CalcString(calc)
  BY <1>3 DEF ReqBlock, Block, Blocks, TypeOK
<1> HIDE DEF b
<1>5. /\ Chain(pipeA, cpc, Next1)'
      /\ EndPc(pipeA', cpc') = After(b)
      /\ EndRec(pipeA, Next1)' = RecAfter(b)
      /\ pipeA' # << >>
      /\ \A k \in 1 .. Len(pipeA') : k = Len(pipeA) + 1 \/ k \in 1 .. Len(pipeA)
      /\ \A k \in 1 .. Len(pipeA) : pipeA'[k] = pipeA[k]
      /\ pipeA'[Len(pipeA) + 1] = b
  BY <1>1, <1>2, <1>4, Writes
<1>6. /\ Len(committed') = Len(committed) + 1
      /\ \A n \in 1 .. Len(committed) : committed'[n] = committed[n]
      /\ committed'[Len(committed) + 1] = [id |-> id, req |-> CalcString(calc)]
      /\ Len(committed) \in Nat
  BY <1>1 DEF TypeOK
<1>7. RecAfter(b) = Len(committed') + 1
  BY <1>4, <1>6 DEF RecAfter
<1>8. ParentAt'
  BY <1>1, <1>2, <1>4, <1>5 DEF ParentAt, After
<1>9. \A n \in Nat \ {0} : n =< Len(committed) + 1 => n =< Len(committed') /\ committed'[n].id = IdOf(n)
  BY <1>6 DEF IdOf
<1>10. ChildHolds'
  <2> SUFFICES ASSUME cpc' = "req"
               PROVE  slotId' = IdOf(Next1)' /\ (Next1' =< Len(committed'))
    BY <1>1, <1>6 DEF Contents, ChildHolds, childVars, Next1, TypeOK
  <2>1. slotId' = IdOf(Next1) /\ Next1' = Next1 /\ Next1 \in Nat \ {0}
    BY <1>1 DEF Contents, ChildHolds, childVars, Next1, TypeOK
  <2>2. Next1 =< Len(committed) + 1
    BY DEF Next1, TypeOK
  <2> QED BY <2>1, <2>2, <1>9 DEF IdOf
<1>11. ASSUME NEW k \in 1 .. Len(pipeA') PROVE BlockHolds(pipeA[k])'
  <2>1. CASE k = Len(pipeA) + 1
    BY <1>4, <1>5, <1>6, <2>1 DEF BlockHolds
  <2>2. CASE k \in 1 .. Len(pipeA)
    <3>1. BlockHolds(pipeA[k]) /\ pipeA[k] \in Blocks /\ pipeA'[k] = pipeA[k]
      BY <1>5, <2>2 DEF Contents, TypeOK
    <3>2. pipeA[k].kind # "loadId" /\ pipeA[k].rec \in 1 .. Len(committed) + 1
      BY <3>1, <1>1 DEF BlockHolds
    <3>3. /\ pipeA[k].rec =< Len(committed') /\ IdOf(pipeA[k].rec) = committed'[pipeA[k].rec].id
          /\ pipeA[k].rec =< Len(committed) => committed'[pipeA[k].rec] = committed[pipeA[k].rec]
      BY <3>2, <1>6, <1>9
    <3>4. pipeA[k].rec \in 1 .. Len(committed') + 1
      BY <3>2, <3>3
    <3> QED BY <3>1, <3>2, <3>3, <3>4 DEF BlockHolds, IdOf
  <2> QED BY <1>5, <2>1, <2>2
<1>12. AnswerIsForThisLoad'
  BY <1>1, <1>2 DEF AnswerIsForThisLoad
<1>13. Len(store') =< Len(committed') /\ \A k \in 1 .. Len(store') : store'[k] = committed'[k]
  BY <1>1, <1>6 DEF childVars, TypeOK
<1> QED BY <1>5, <1>7, <1>8, <1>10, <1>11, <1>12, <1>13 DEF Contents

-----------------------------------------------------------------------------
(* A read of the child shortens the chain by the block it reads.             *)
LEMMA Reads ==
  ASSUME IInv, pipeA # << >>, pipeA' = Tail(pipeA), cpc' = After(pipeA[1]),
         Next1' = RecAfter(pipeA[1]), UNCHANGED <<ppc, mode, id, pipeB, committed>>
  PROVE  /\ (Chain(pipeA, cpc, Next1) /\ EndRec(pipeA, Next1) = Len(committed) + 1)'
         /\ ParentAt'
         /\ \A k \in 1 .. Len(pipeA') : BlockHolds(pipeA[k])'
         /\ AnswerIsForThisLoad'
<1> USE DEF IInv, Commands
<1>1. pipeA \in Seq(Blocks) /\ Next1 \in Nat
  BY DEF TypeOK, Next1
<1>2. /\ Chain(pipeA', cpc', Next1')
      /\ EndPc(pipeA', cpc') = EndPc(pipeA, cpc)
      /\ EndRec(pipeA', Next1') = EndRec(pipeA, Next1)
  BY <1>1, Shrink
<1>3. (Chain(pipeA, cpc, Next1) /\ EndRec(pipeA, Next1) = Len(committed) + 1)'
  BY <1>2 DEF Chain, EndRec
<1>4. ParentAt'
  BY <1>2 DEF ParentAt
<1>5. ASSUME NEW k \in 1 .. Len(pipeA') PROVE BlockHolds(pipeA[k])'
  <2>1. k + 1 \in 1 .. Len(pipeA) /\ pipeA'[k] = pipeA[k+1]
    BY <1>1
  <2>2. BlockHolds(pipeA[k+1])
    BY <2>1 DEF Contents
  <2> QED BY <2>1, <2>2 DEF BlockHolds, IdOf
<1>6. AnswerIsForThisLoad'
  BY DEF AnswerIsForThisLoad
<1> QED BY <1>3, <1>4, <1>5, <1>6

(* The child reads a mode, an id, a text or the id to look for.              *)
LEMMA ChildReadsCommands ==
  ASSUME IInv, ReadMode \/ ReadSlotId \/ ReadReq \/ ReadLoadId
  PROVE  Commands'
<1> DEFINE b == pipeA[1]
<1> USE DEF IInv, Commands
<1>1. pipeA # << >> /\ UNCHANGED <<ppc, mode, id, pipeB, committed>>
  BY DEF ReadMode, ReadSlotId, ReadReq, ReadLoadId, ReadA, parentVars
<1>2. b \in Blocks /\ b.kind = cpc /\ b.rec = Next1 /\ BlockHolds(b)
  BY <1>1, ReadsBlock DEF Chain, Contents, TypeOK
<1>3. pipeA' = Tail(pipeA)
  BY <1>1, ReadsBlock DEF ReadMode, ReadSlotId, ReadReq, ReadLoadId, ReadA
<1>4. CASE ReadMode
  <2>1. cpc = "mode" /\ cpc' = AfterMode(b.val) /\ UNCHANGED <<loadId, slotId, store>>
    BY <1>2, <1>4 DEF ReadMode, ReadA, ModeOf, AfterMode
  <2>2. cpc' = After(b) /\ Next1' = RecAfter(b)
    BY <1>2, <2>1 DEF After, RecAfter, Next1
  <2>3. ChildHolds'
    BY <2>1 DEF ChildHolds, AfterMode
  <2> QED BY <1>1, <1>3, <2>1, <2>2, <2>3, Reads DEF Contents
<1>5. CASE ReadSlotId
  <2>1. cpc = "id" /\ cpc' = "req" /\ slotId' = b.val /\ UNCHANGED <<loadId, store>>
    BY <1>5 DEF ReadSlotId, ReadA
  <2>2. cpc' = After(b) /\ Next1' = RecAfter(b)
    BY <1>2, <2>1 DEF After, RecAfter, Next1
  <2>3. ChildHolds'
    BY <1>1, <1>2, <2>1 DEF ChildHolds, BlockHolds, IdOf, Next1
  <2> QED BY <1>1, <1>3, <2>1, <2>2, <2>3, Reads DEF Contents
<1>6. CASE ReadLoadId
  <2>1. cpc = "loadId" /\ cpc' = "find" /\ loadId' = b.val /\ UNCHANGED <<slotId, store>>
    BY <1>6 DEF ReadLoadId, ReadA
  <2>2. cpc' = After(b) /\ Next1' = RecAfter(b)
    BY <1>2, <2>1 DEF After, RecAfter, Next1
  <2>3. ChildHolds'
    BY <1>1, <1>2, <2>1 DEF ChildHolds, BlockHolds
  <2> QED BY <1>1, <1>3, <2>1, <2>2, <2>3, Reads DEF Contents
<1>7. CASE ReadReq
  <2>1. /\ cpc = "req" /\ cpc' = "mode" /\ UNCHANGED <<loadId, slotId>>
        /\ store' = Append(store, [id |-> slotId, req |-> b.val])
    BY <1>7 DEF ReadReq, ReadA
  <2>2. /\ Len(store') = Len(store) + 1
        /\ \A k \in 1 .. Len(store) : store'[k] = store[k]
        /\ store'[Len(store) + 1] = [id |-> slotId, req |-> b.val]
    BY <2>1 DEF TypeOK
  <2>3. cpc' = After(b) /\ Next1' = RecAfter(b)
    BY <1>2, <2>1, <2>2 DEF After, RecAfter, Next1
  <2>4. ChildHolds'
    BY <2>1 DEF ChildHolds
  <2>5. Next1 =< Len(committed) /\ slotId = committed[Next1].id /\ b.val = committed[Next1].req
    BY <1>2, <2>1 DEF BlockHolds, Contents, ChildHolds, IdOf
  <2>6. committed[Next1] = [id |-> slotId, req |-> b.val]
    <3>1. committed[Next1] \in Records
      BY <2>5 DEF Next1, TypeOK
    <3> QED BY <2>5, <3>1 DEF Records
  <2>7. Len(store') =< Len(committed') /\ \A k \in 1 .. Len(store') : store'[k] = committed'[k]
    <3>1. Len(store') = Next1 /\ Len(store) \in Nat /\ committed' = committed
      BY <1>1, <2>2 DEF Next1, TypeOK
    <3>2. store'[Next1] = committed[Next1]
      BY <2>2, <2>6 DEF Next1
    <3>3. \A k \in 1 .. Len(store) : store'[k] = committed[k]
      BY <2>2
    <3> QED BY <3>1, <3>2, <3>3, <2>5 DEF Next1
  <2> QED BY <1>1, <1>3, <2>3, <2>4, <2>7, Reads DEF Contents
<1> QED BY <1>4, <1>5, <1>6, <1>7

(* The child answers a load: its store is then all that is committed, and    *)
(* the id it looks for the one the parent waits with.                        *)
LEMMA FindCommands ==
  ASSUME IInv, Find
  PROVE  Commands'
<1> USE DEF IInv, Commands
<1>1. /\ cpc = "find" /\ cpc' = "mode"
      /\ UNCHANGED <<ppc, mode, id, pipeA, loadId, slotId, store, committed>>
  BY DEF Find, clientVars, parentVars
<1>2. loadId = id /\ ppc = "await" /\ mode = "load"
  BY <1>1 DEF Contents, ChildHolds, ParentAt
<1>3. pipeA = << >>
  <2> SUFFICES ASSUME pipeA # << >> PROVE FALSE
    OBVIOUS
  <2> QED BY <1>1, ReadsBlock
<1>4. EndPc(pipeA, cpc) = "find" /\ pipeB = << >>
  BY <1>1, <1>2, <1>3 DEF EndPc, ParentAt
<1>5. Len(store) = Len(committed)
  BY <1>3 DEF EndRec, Next1, TypeOK
<1>6. store = committed
  <2>1. store \in Seq(Records) /\ committed \in Seq(Records)
    BY DEF TypeOK
  <2>2. \A k \in 1 .. Len(store) : store[k] = committed[k]
    OBVIOUS
  <2> QED BY <1>5, <2>1, <2>2, SeqEqual
<1>7. Len(pipeB') = 1 /\ pipeB'[1].val = Listing(committed, id) /\ pipeB' # << >>
  <2>1. PICK b : pipeB' = Append(<< >>, b) /\ b.val = Listing(committed, id)
    BY <1>2, <1>4, <1>6 DEF Find, Block
  <2>2. pipeB' = <<b>>
    BY <2>1
  <2> QED BY <2>1, <2>2
<1>8. AnswerIsForThisLoad'
  BY <1>1, <1>2, <1>7 DEF AnswerIsForThisLoad
<1>9. ParentAt'
  BY <1>1, <1>2, <1>3, <1>7 DEF ParentAt, EndPc
<1>10. Contents'
  BY <1>1, <1>3 DEF Contents, ChildHolds
<1>11. (Chain(pipeA, cpc, Next1) /\ EndRec(pipeA, Next1) = Len(committed) + 1)'
  BY <1>1, <1>3 DEF Chain, EndRec, Next1
<1> QED BY <1>1, <1>8, <1>9, <1>10, <1>11

(* The parent takes the answer.                                              *)
LEMMA ReadLoadCommands ==
  ASSUME IInv, ReadLoad
  PROVE  Commands'
<1> USE DEF IInv, Commands
<1>1. /\ ppc = "await" /\ ppc' = "answer" /\ pipeB # << >>
      /\ UNCHANGED <<mode, id, pipeA, cpc, loadId, slotId, store, committed>>
  BY DEF ReadLoad, ParentTo, childVars
<1>2. pipeB' = << >>
  <2>1. pipeB' = Tail(pipeB) /\ Len(pipeB) = 1
    BY <1>1 DEF ReadLoad, AfterRead, AnswerIsForThisLoad
  <2>2. pipeB \in Seq([kind : {"answer"}, val : Replies, len : {9, DATA_MAX}, rec : Nat])
    BY DEF TypeOK
  <2> QED BY <2>1, <2>2
<1>3. EndPc(pipeA, cpc) = "mode" /\ mode = "load"
  BY <1>1 DEF ParentAt
<1>4. cpc # "find" /\ \A k \in 1 .. Len(pipeA) : pipeA[k].kind # "loadId"
  <2>1. ASSUME cpc = "find" PROVE FALSE
    <3>1. pipeA = << >>
      <4> SUFFICES ASSUME pipeA # << >> PROVE FALSE
        OBVIOUS
      <4> QED BY <2>1, ReadsBlock
    <3> QED BY <2>1, <3>1, <1>3 DEF EndPc
  <2>2. ASSUME NEW k \in 1 .. Len(pipeA), pipeA[k].kind = "loadId" PROVE FALSE
    <3>1. After(pipeA[k]) = "find"
      BY <2>2 DEF After
    <3>2. CASE k = Len(pipeA)
      BY <3>1, <3>2, <1>3 DEF EndPc
    <3>3. CASE k \in 1 .. Len(pipeA) - 1
      <4>1. pipeA[k+1].kind = "find" /\ pipeA[k+1] \in Blocks
        BY <3>1, <3>3 DEF Chain, TypeOK
      <4> QED BY <4>1, BlockLen
    <3> QED BY <3>2, <3>3
  <2> QED BY <2>1, <2>2
<1>5. ParentAt'
  BY <1>1, <1>2, <1>3 DEF ParentAt
<1>6. ChildHolds'
  BY <1>1, <1>4 DEF Contents, ChildHolds, IdOf, Next1
<1>7. ASSUME NEW k \in 1 .. Len(pipeA) PROVE BlockHolds(pipeA[k])'
  <2>1. BlockHolds(pipeA[k]) /\ pipeA[k].kind # "loadId"
    BY <1>4 DEF Contents
  <2> QED BY <2>1, <1>1 DEF BlockHolds, IdOf
<1>8. Contents'
  BY <1>1, <1>6, <1>7 DEF Contents
<1>9. (Chain(pipeA, cpc, Next1) /\ EndRec(pipeA, Next1) = Len(committed) + 1)'
  BY <1>1 DEF Chain, EndRec, Next1
<1> QED BY <1>1, <1>2, <1>5, <1>8, <1>9 DEF AnswerIsForThisLoad

-----------------------------------------------------------------------------
(* Every step keeps the commands in order.                                   *)
LEMMA NextCommands ==
  ASSUME IInv, [Next]_vars
  PROVE  Commands'
<1>1. ASSUME NEW c \in Clients, Connect(c) \/ Leave(c) \/ \E r \in Requests : Send(c, r)
      PROVE  Commands'
  BY <1>1, Aside DEF Connect, Send, Leave, parentVars
<1>2. CASE Select \/ ScanDone \/ Accept \/ \E f \in FDs : Readv(f)
  BY <1>2, Aside DEF Select, ScanDone, Accept, Readv, ScanReaches, Waits
<1>3. CASE Close \/ WriteResult \/ WriteLoad
  BY <1>3, Aside DEF Close, WriteResult, WriteLoad, ParentTo, Waits
<1>4. CASE WriteMode  BY <1>4, WriteModeCommands
<1>5. CASE WriteId  BY <1>5, WriteIdCommands
<1>6. CASE WriteReq  BY <1>6, WriteReqCommands
<1>7. CASE ReadLoad  BY <1>7, ReadLoadCommands
<1>8. CASE Wait
  BY <1>8, Aside DEF Wait, ParentTo
<1>9. CASE ReadMode \/ ReadSlotId \/ ReadReq \/ ReadLoadId
  BY <1>9, ChildReadsCommands
<1>10. CASE Find  BY <1>10, FindCommands
<1>11. CASE UNCHANGED vars
  BY <1>11, Aside DEF vars, parentVars
<1> QED
  BY <1>1, <1>2, <1>3, <1>4, <1>5, <1>6, <1>7, <1>8, <1>9, <1>10, <1>11
     DEF Next, Client, Parent, Child, SelectTimeout, Stopped

-----------------------------------------------------------------------------
(* Every step preserves the invariant.                                       *)
LEMMA NextIInv == IInv /\ [Next]_vars => IInv'
<1> SUFFICES ASSUME IInv, [Next]_vars PROVE IInv'
  OBVIOUS
<1> QED BY NextTypeOK, NextServing, NextCommands DEF IInv

(* The invariant holds in every reachable state.                             *)
THEOREM Inductive == Spec => []IInv
  BY InitIInv, NextIInv, PTL DEF Spec

(* Every variable of the two processes, the pipes and the clients keeps to   *)
(* what the C variable can hold.                                             *)
THEOREM TypeCorrect == Spec => []TypeOK
<1>1. IInv => TypeOK  BY DEF IInv
<1> QED BY <1>1, Inductive, PTL

(* The child always reads the block meant for it, however far the parent is  *)
(* ahead: commands have no boundaries in the pipe and need none.             *)
THEOREM ChildInStepCorrect == Spec => []ChildInStep
<1>1. IInv => ChildInStep  BY DEF IInv, Commands, Chain, ChildInStep
<1> QED BY <1>1, Inductive, PTL

(* No load is given the answer of another.                                   *)
THEOREM AnswerIsForThisLoadCorrect == Spec => []AnswerIsForThisLoad
<1>1. IInv => AnswerIsForThisLoad  BY DEF IInv, Commands
<1> QED BY <1>1, Inductive, PTL

(* What has been acknowledged is stored in that order, and before the child  *)
(* exits.                                                                    *)
THEOREM NothingLostCorrect == Spec => []NothingLost
<1>1. IInv => NothingLost
  <2> SUFFICES ASSUME IInv PROVE NothingLost
    OBVIOUS
  <2> USE DEF IInv, Commands
  <2>1. store \in Seq(Records) /\ committed \in Seq(Records) /\ Len(store) =< Len(committed)
    BY DEF TypeOK
  <2>2. SubSeq(store, 1, Len(store)) = SubSeq(committed, 1, Len(store))
    BY <2>1
  <2>3. ASSUME cpc = "exited" PROVE store = committed
    <3>1. pipeA = << >>
      <4> SUFFICES ASSUME pipeA # << >> PROVE FALSE
        OBVIOUS
      <4> QED BY <2>3, ReadsBlock
    <3>2. Len(store) = Len(committed)
      BY <3>1 DEF EndRec, Next1, TypeOK
    <3> QED BY <2>1, <3>2, SeqEqual
  <2> QED BY <2>1, <2>2, <2>3 DEF NothingLost, IsPrefix
<1> QED BY <1>1, Inductive, PTL

(* The uninitialised and half overwritten buffers are never stored.          *)
THEOREM NoSaveOfGarbageCorrect == Spec => []NoSaveOfGarbage
<1>1. IInv => NoSaveOfGarbage  BY DEF IInv, Serving
<1> QED BY <1>1, Inductive, PTL

-----------------------------------------------------------------------------
(* The refinement.                                                           *)

(* A request is being served.                                                *)
Serves == ppc \notin {"select", "scan", "stopped"}

Held == reads \ {SERV}        \* the descriptors of accepted connections

(* Each client is in one place.                                              *)
OnePlace ==
  /\ Distinct(backlog)
  /\ ppc # "stopped" =>
       /\ \A f, g \in Held : conn[f] = conn[g] => f = g
       /\ \A f \in Held, k \in 1 .. Len(backlog) : conn[f] # backlog[k]
  /\ \A c \in Clients : phase[c] = "new" =>
       /\ sent[c] = NoReq /\ reply[c] = NoReply
       /\ \A k \in 1 .. Len(backlog) : backlog[k] # c
       /\ ppc # "stopped" => \A f \in Held : conn[f] # c

(* What it sent, if anything, has not been read.                             *)
Pending(c) == reply[c] = NoReply /\ (sent[c] # NoReq => unread[c])

(* A client waits its turn unread and unanswered.                           *)
Queued ==
  /\ \A k \in 1 .. Len(backlog) : Pending(backlog[k])
  /\ ppc # "stopped" => \A f \in Held : (Serves => f # fd) => Pending(conn[f])
  /\ \A c \in Clients : reply[c] # NoReply => sent[c] # NoReq \/ phase[c] = "gone"

(* What select found ready still is.                                         *)
Reported == ppc # "stopped" => \A f \in cpy_reads \ {SERV} : Readable(f)

(* What mode, id and calc hold once the request r was read whole.            *)
Holds(r) == /\ mode = (IF r.mode = "cut" THEN "other" ELSE r.mode)
            /\ r.mode # "cut" => id = r.id /\ calc = r.calc

Committed(rec) == \E k \in 1 .. Len(committed) : committed[k] = rec
Saving == [id |-> id, req |-> CalcString(calc)]

(* The client being served, its request and its answer.                      *)
Current ==
  /\ Serves => /\ fd \in Held
               /\ sent[conn[fd]] # NoReq \/ phase[conn[fd]] = "gone"
               /\ ppc # "close" => reply[conn[fd]] = NoReply
               /\ sent[conn[fd]] # NoReq => Holds(sent[conn[fd]])
  /\ ppc = "result" => committed # << >> /\ committed[Len(committed)] = Saving
  /\ ppc = "answer" => load = Listing(committed, id)

(* A save left in the buffers has been committed.                            *)
Leftover ==
  mode = "save" => \/ ppc \in {"mode", "id", "calc"} /\ sent[conn[fd]] # NoReq
                   \/ Committed(Saving)

(* What has been acknowledged is committed, and listed.                      *)
Acknowledged ==
  /\ \A d \in Clients : sent[d].mode = "save" /\ reply[d] # NoReply => Committed(Record(sent[d]))
  /\ \A c \in Clients : \A d \in acked[c] : reply[d] # NoReply
  /\ AckedSavesAreLoaded

Service == OnePlace /\ Queued /\ Reported /\ Current /\ Leftover /\ Acknowledged

RInv == IInv /\ Service

-----------------------------------------------------------------------------
(* The store holds what a client has sent, if it has sent anything.          *)
LEMMA NoReqIsNoRequest == NoReq \notin Requests
  BY DEF NoReq, Requests

(* The initial state satisfies the invariant.                                *)
LEMMA InitService == Init => Service
<1> SUFFICES ASSUME Init PROVE Service
  OBVIOUS
<1> USE DEF Init
<1>1. Len(backlog) = 0 /\ Held = {} /\ ~Serves
  BY DEF Held, Serves
<1>2. OnePlace /\ Queued /\ Reported
  BY <1>1 DEF OnePlace, Distinct, Queued, Reported
<1>3. Current /\ Leftover
  BY <1>1 DEF Current, Leftover
<1>4. Acknowledged
  BY DEF Acknowledged, AckedSavesAreLoaded
<1> QED BY <1>2, <1>3, <1>4 DEF Service

(* The child touches neither the clients nor the parent.                     *)
LEMMA ChildLeaves == Child => UNCHANGED <<clientVars, parentVars, committed>>
  BY DEF Child, ReadMode, ReadSlotId, ReadReq, ReadLoadId, Find

(* What the parent's writes and its read of an answer leave alone.           *)
Writing == WriteMode \/ WriteId \/ WriteReq \/ WriteResult \/ ReadLoad \/ WriteLoad

(* They touch no client but the one being served, and that one only at the   *)
(* last.                                                                     *)
LEMMA WritingLeaves ==
  ASSUME IInv, Writing
  PROVE  /\ UNCHANGED <<phase, sent, unread, acked, backlog, conn, reads, cpy_reads, fd, mode, id, calc>>
         /\ ppc \in {"mode", "id", "calc", "result", "await", "answer"}
         /\ ppc' \in {"id", "calc", "result", "await", "answer", "wait", "close"}
         /\ UNCHANGED reply \/ ppc' = "close"
         /\ \A c \in Clients : c # conn[fd] => reply'[c] = reply[c]
<1> USE DEF IInv, TypeOK, ParentTo
<1>1. CASE WriteMode  BY <1>1 DEF WriteMode
<1>2. CASE WriteId  BY <1>2 DEF WriteId
<1>3. CASE WriteReq  BY <1>3 DEF WriteReq
<1>4. CASE WriteResult  BY <1>4 DEF WriteResult, Answer
<1>5. CASE ReadLoad  BY <1>5 DEF ReadLoad
<1>6. CASE WriteLoad  BY <1>6 DEF WriteLoad, Answer
<1> QED BY <1>1, <1>2, <1>3, <1>4, <1>5, <1>6 DEF Writing

-----------------------------------------------------------------------------
-----------------------------------------------------------------------------
(* A client stays in one place.                                              *)
LEMMA NextOnePlace ==
  ASSUME RInv, [Next]_vars
  PROVE  OnePlace'
<1> USE DEF RInv, IInv, TypeOK, Service, Held
<1>1. ASSUME NEW c \in Clients, Connect(c) PROVE OnePlace'
  <2>1. /\ phase[c] = "new" /\ backlog' = Append(backlog, c) /\ ppc # "stopped"
        /\ phase' = [phase EXCEPT ![c] = "open"]
        /\ UNCHANGED <<sent, reply, conn, ppc, reads>>
    BY <1>1 DEF Connect, parentVars
  <2>2. /\ Distinct(backlog')
        /\ \A k \in 1 .. Len(backlog') :
              backlog'[k] = c \/ (k \in 1 .. Len(backlog) /\ backlog'[k] = backlog[k])
    BY <2>1, AppendEntries DEF OnePlace
  <2>3. \A f \in Held, k \in 1 .. Len(backlog') : conn[f] # backlog'[k]
    BY <2>1, <2>2 DEF OnePlace
  <2> QED BY <2>1, <2>2, <2>3 DEF OnePlace
<1>2. ASSUME NEW c \in Clients, NEW r \in Requests, Send(c, r) PROVE OnePlace'
  BY <1>2 DEF Send, parentVars, OnePlace
<1>3. ASSUME NEW c \in Clients, Leave(c) PROVE OnePlace'
  BY <1>3 DEF Leave, parentVars, OnePlace
<1>4. CASE Select \/ ScanDone
  BY <1>4 DEF Select, ScanDone, clientVars, OnePlace
<1>5. CASE Accept
  <2>1. PICK f \in FDs : /\ conn' = [conn EXCEPT ![f] = Head(backlog)]
                         /\ reads' = reads \cup {f}
    BY <1>5 DEF Accept
  <2>2. /\ backlog' = Tail(backlog) /\ backlog # << >> /\ ppc = "scan"
        /\ UNCHANGED <<phase, sent, reply, ppc>>
    BY <1>5 DEF Accept, ScanReaches, Serving
  <2>3. /\ Head(backlog) = backlog[1] /\ 1 \in 1 .. Len(backlog) /\ backlog[1] \in Clients
        /\ Distinct(backlog')
        /\ \A k \in 1 .. Len(backlog') : /\ backlog'[k] = backlog[k+1] /\ k + 1 \in 1 .. Len(backlog)
                                        /\ backlog'[k] # backlog[1]
    BY <2>2, TailEntries DEF OnePlace
  <2>6. conn'[f] = backlog[1] /\ \A g \in Held' : g # f => conn'[g] = conn[g] /\ g \in Held
    BY <2>1, <2>3 DEF FDs
  <2>7. \A g \in Held' : g # f => conn'[g] # backlog[1]
    BY <2>2, <2>3, <2>6 DEF OnePlace
  <2>8. \A g, h \in Held' : conn'[g] = conn'[h] => g = h
    BY <2>2, <2>6, <2>7 DEF OnePlace
  <2>9. ASSUME NEW g \in Held', NEW k \in 1 .. Len(backlog') PROVE conn'[g] # backlog'[k]
    <3>1. CASE g = f  BY <2>3, <2>6, <3>1
    <3>2. CASE g # f  BY <2>2, <2>3, <2>6, <3>2 DEF OnePlace
    <3> QED BY <3>1, <3>2
  <2>10. ASSUME NEW c \in Clients, phase[c] = "new"
         PROVE  /\ \A k \in 1 .. Len(backlog') : backlog'[k] # c
                /\ \A g \in Held' : conn'[g] # c
    BY <2>2, <2>3, <2>6, <2>10 DEF OnePlace
  <2> QED BY <2>2, <2>3, <2>8, <2>9, <2>10 DEF OnePlace
<1>6. ASSUME NEW f \in FDs, Readv(f) PROVE OnePlace'
  BY <1>6 DEF Readv, ScanReaches, OnePlace
<1>7. CASE Writing
  <2>1. UNCHANGED <<phase, sent, backlog, conn, reads, fd>> /\ Serves /\ ppc' # "stopped"
    BY <1>7, WritingLeaves DEF Serves
  <2>2. fd \in Held /\ conn[fd] \in Clients
    BY <2>1 DEF Current, Serving, Serves
  <2>3. \A c \in Clients : c # conn[fd] => reply'[c] = reply[c]
    BY <1>7, <2>2, WritingLeaves
  <2>4. ASSUME NEW c \in Clients, phase[c] = "new" PROVE reply'[c] = NoReply
    <3>1. c # conn[fd]
      BY <2>1, <2>2, <2>4 DEF OnePlace, Serves
    <3> QED BY <2>3, <2>4, <3>1 DEF OnePlace
  <2>5. UNCHANGED <<phase, sent, backlog, conn, Held>> /\ ppc # "stopped"
    BY <2>1 DEF Serves
  <2> QED BY <2>4, <2>5 DEF OnePlace
<1>8. CASE Close
  BY <1>8 DEF Close, OnePlace
<1>9. CASE Wait
  BY <1>9 DEF Wait, ParentTo, OnePlace, Distinct
<1>10. CASE Child
  BY <1>10, ChildLeaves DEF clientVars, parentVars, OnePlace
<1>11. CASE UNCHANGED vars
  BY <1>11 DEF vars, clientVars, parentVars, OnePlace
<1> QED
  BY <1>1, <1>2, <1>3, <1>4, <1>5, <1>6, <1>7, <1>8, <1>9, <1>10, <1>11
     DEF Next, Client, Parent, Writing, SelectTimeout, Stopped

-----------------------------------------------------------------------------
(* Whoever waits has not been read nor answered.                             *)
LEMMA NextQueued ==
  ASSUME RInv, [Next]_vars
  PROVE  Queued'
<1> USE DEF RInv, IInv, TypeOK, Service, Held, Pending
<1>1. ASSUME NEW c \in Clients, Connect(c) PROVE Queued'
  <2>1. /\ phase[c] = "new" /\ backlog' = Append(backlog, c)
        /\ phase' = [phase EXCEPT ![c] = "open"]
        /\ UNCHANGED <<sent, unread, reply, conn, ppc, reads, fd>>
    BY <1>1 DEF Connect, parentVars
  <2>2. \A k \in 1 .. Len(backlog') :
           backlog'[k] = c \/ (k \in 1 .. Len(backlog) /\ backlog'[k] = backlog[k])
    BY <2>1, AppendEntries DEF OnePlace
  <2>3. sent[c] = NoReq /\ reply[c] = NoReply
    BY <2>1 DEF OnePlace
  <2>4. \A d \in Clients : reply'[d] # NoReply => sent'[d] # NoReq \/ phase'[d] = "gone"
    BY <2>1, <2>3 DEF Queued
  <2>5. Serves' = Serves
    BY <2>1 DEF Serves
  <2> QED BY <2>1, <2>2, <2>3, <2>4, <2>5 DEF Queued
<1>2. ASSUME NEW c \in Clients, NEW r \in Requests, Send(c, r) PROVE Queued'
  <2>1. /\ sent' = [sent EXCEPT ![c] = r] /\ unread' = [unread EXCEPT ![c] = TRUE]
        /\ UNCHANGED <<phase, reply, backlog, conn, ppc, reads, fd>>
    BY <1>2 DEF Send, parentVars
  <2>2. \A d \in Clients : Pending(d) => Pending(d)'
    BY <2>1
  <2>3. \A d \in Clients : reply'[d] # NoReply => sent'[d] # NoReq \/ phase'[d] = "gone"
    BY <2>1, NoReqIsNoRequest DEF Queued
  <2>4. Serves' = Serves
    BY <2>1 DEF Serves
  <2> HIDE DEF Pending
  <2>5. ASSUME NEW k \in 1 .. Len(backlog) PROVE Pending(backlog[k])'
    BY <2>1, <2>2 DEF Queued
  <2>6. ASSUME ppc # "stopped", NEW f \in Held, Serves => f # fd PROVE Pending(conn[f])'
    BY <2>1, <2>2, <2>6 DEF Queued, Serving
  <2> QED BY <2>1, <2>3, <2>4, <2>5, <2>6 DEF Queued
<1>3. ASSUME NEW c \in Clients, Leave(c) PROVE Queued'
  BY <1>3 DEF Leave, parentVars, Queued, Serves
<1>4. CASE Select \/ ScanDone
  BY <1>4 DEF Select, ScanDone, clientVars, Queued, Serves
<1>5. CASE Accept
  <2>1. PICK f \in FDs : /\ conn' = [conn EXCEPT ![f] = Head(backlog)]
                         /\ reads' = reads \cup {f}
    BY <1>5 DEF Accept
  <2>2. /\ backlog' = Tail(backlog) /\ backlog # << >> /\ ppc = "scan"
        /\ UNCHANGED <<phase, sent, unread, reply, ppc>>
    BY <1>5 DEF Accept, ScanReaches, Serving
  <2>3. /\ Head(backlog) = backlog[1] /\ 1 \in 1 .. Len(backlog)
        /\ \A k \in 1 .. Len(backlog') : backlog'[k] = backlog[k+1] /\ k + 1 \in 1 .. Len(backlog)
    BY <2>2, TailEntries DEF OnePlace
  <2>4. conn'[f] = backlog[1] /\ \A g \in Held' : g # f => conn'[g] = conn[g] /\ g \in Held
    BY <2>1, <2>3 DEF FDs
  <2>5. ~Serves /\ ~Serves'
    BY <2>2 DEF Serves
  <2>6. ASSUME NEW k \in 1 .. Len(backlog') PROVE Pending(backlog[k])'
    BY <2>2, <2>3 DEF Queued
  <2>7. ASSUME NEW g \in Held' PROVE Pending(conn[g])'
    <3>1. CASE g = f  BY <2>2, <2>3, <2>4, <3>1 DEF Queued
    <3>2. CASE g # f  BY <2>2, <2>4, <2>5, <3>2 DEF Queued
    <3> QED BY <3>1, <3>2
  <2> HIDE DEF Pending
  <2> QED BY <2>2, <2>6, <2>7 DEF Queued
<1>6. ASSUME NEW f \in FDs, Readv(f) PROVE Queued'
  <2>1. /\ unread' = [unread EXCEPT ![conn[f]] = FALSE] /\ f \in Held /\ fd' = f /\ Serves' /\ ~Serves
        /\ UNCHANGED <<phase, sent, reply, backlog, conn, reads>> /\ ppc # "stopped"
    BY <1>6 DEF Readv, ScanReaches, Serves, FDs, SERV
  <2>2. \A k \in 1 .. Len(backlog) : backlog[k] # conn[f]
    BY <2>1 DEF OnePlace
  <2>3. \A g \in Held : g # f => conn[g] # conn[f] /\ conn[g] \in Clients
    BY <2>1 DEF OnePlace, Serving
  <2>4. \A d \in Clients : d # conn[f] /\ Pending(d) => Pending(d)'
    BY <2>1
  <2> HIDE DEF Pending
  <2>5. ASSUME NEW k \in 1 .. Len(backlog) PROVE Pending(backlog[k])'
    BY <2>1, <2>2, <2>4 DEF Queued
  <2>6. ASSUME NEW g \in Held, g # f PROVE Pending(conn[g])'
    BY <2>1, <2>3, <2>4, <2>6 DEF Queued
  <2> QED BY <2>1, <2>5, <2>6 DEF Queued
<1>7. CASE Writing
  <2>1. UNCHANGED <<phase, sent, unread, backlog, conn, reads, fd>> /\ Serves /\ Serves'
    BY <1>7, WritingLeaves DEF Serves
  <2>2. fd \in Held /\ conn[fd] \in Clients /\ ppc # "stopped"
    BY <2>1 DEF Current, Serving, Serves
  <2>3. \A c \in Clients : c # conn[fd] => reply'[c] = reply[c]
    BY <1>7, WritingLeaves
  <2>4. ASSUME NEW k \in 1 .. Len(backlog) PROVE Pending(backlog[k])'
    BY <2>1, <2>2, <2>3 DEF Queued, OnePlace
  <2>5. ASSUME NEW f \in Held, f # fd PROVE Pending(conn[f])'
    <3>1. conn[f] \in Clients /\ conn[f] # conn[fd] /\ Pending(conn[f])
      BY <2>1, <2>2, <2>5 DEF Queued, OnePlace, Serving
    <3> QED BY <2>1, <2>3, <3>1
  <2>6. ASSUME NEW c \in Clients, reply'[c] # NoReply PROVE sent[c] # NoReq \/ phase[c] = "gone"
    BY <2>1, <2>3, <2>6 DEF Queued, Current
  <2> HIDE DEF Pending
  <2> QED BY <2>1, <2>4, <2>5, <2>6 DEF Queued
<1>8. CASE Close
  <2>1. /\ Serves /\ ~Serves' /\ reads' = reads \ {fd} /\ conn' = [conn EXCEPT ![fd] = NoClient]
        /\ UNCHANGED <<phase, sent, unread, reply, backlog>> /\ ppc # "stopped"
    BY <1>8 DEF Close, Serves
  <2>2. \A f \in Held' : f \in Held /\ f # fd /\ conn'[f] = conn[f]
    BY <2>1 DEF FDs
  <2> QED BY <2>1, <2>2 DEF Queued
<1>9. CASE Wait
  BY <1>9 DEF Wait, ParentTo, Queued
<1>10. CASE Child
  BY <1>10, ChildLeaves DEF clientVars, parentVars, Queued, Serves
<1>11. CASE UNCHANGED vars
  BY <1>11 DEF vars, clientVars, parentVars, Queued, Serves
<1> QED
  BY <1>1, <1>2, <1>3, <1>4, <1>5, <1>6, <1>7, <1>8, <1>9, <1>10, <1>11
     DEF Next, Client, Parent, Writing, SelectTimeout, Stopped

-----------------------------------------------------------------------------
(* What select reported can only be undone by reading it.                    *)
LEMMA NextReported ==
  ASSUME RInv, [Next]_vars
  PROVE  Reported'
<1> USE DEF RInv, IInv, TypeOK, Service
<1> DEFINE Found == cpy_reads \ {SERV}
<1>1. ppc # "stopped" => \A f \in Found : f \in FDs /\ f \in Held /\ conn[f] \in Clients /\ Readable(f)
  BY DEF Reported, Serving, FDs, Held
<1>2. ASSUME NEW c \in Clients, Connect(c) \/ Leave(c) \/ \E r \in Requests : Send(c, r)
      PROVE  Reported'
  <2>1. /\ UNCHANGED <<conn, parentVars>> /\ \A d \in Clients : unread[d] => unread'[d]
        /\ \A d \in Clients : phase[d] = "gone" => phase'[d] = "gone"
    BY <1>2 DEF Connect, Leave, Send
  <2> QED BY <1>1, <2>1 DEF Reported, Readable, parentVars
<1>3. CASE Select
  BY <1>3 DEF Select, Ready, Reported, Readable, clientVars
<1>4. CASE ScanDone
  BY <1>4 DEF ScanDone, Reported, Readable, clientVars
<1>5. CASE Accept
  <2>1. PICK f \in FDs : conn[f] = NoClient /\ conn' = [conn EXCEPT ![f] = Head(backlog)]
    BY <1>5 DEF Accept
  <2>2. /\ UNCHANGED <<phase, unread>> /\ Found' \subseteq Found /\ ppc # "stopped"
    BY <1>5 DEF Accept, ScanReaches
  <2>3. \A g \in Found' : conn'[g] = conn[g]
    BY <1>1, <2>1, <2>2, NoClientAssumption
  <2> QED BY <1>1, <2>2, <2>3, NoClientAssumption DEF Reported, Readable
<1>6. ASSUME NEW f \in FDs, Readv(f) PROVE Reported'
  <2>1. /\ unread' = [unread EXCEPT ![conn[f]] = FALSE] /\ UNCHANGED <<phase, conn>>
        /\ Found' = Found \ {f} /\ f \in Found /\ ppc # "stopped"
    BY <1>6 DEF Readv, ScanReaches, FDs, SERV
  <2>2. \A g \in Found' : conn[g] # conn[f]
    BY <1>1, <2>1 DEF OnePlace
  <2> QED BY <1>1, <2>1, <2>2 DEF Reported, Readable
<1>7. CASE Writing
  <2>1. UNCHANGED <<phase, unread, conn, cpy_reads>> /\ ppc # "stopped"
    BY <1>7, WritingLeaves
  <2> QED BY <2>1 DEF Reported, Readable
<1>8. CASE Close
  <2>1. /\ UNCHANGED <<phase, unread, cpy_reads>> /\ conn' = [conn EXCEPT ![fd] = NoClient]
        /\ ppc # "stopped" /\ fd \notin cpy_reads
    BY <1>8 DEF Close, Serving
  <2> QED BY <1>1, <2>1 DEF Reported, Readable
<1>9. CASE Wait
  BY <1>9 DEF Wait, ParentTo, Reported
<1>10. CASE Child
  BY <1>10, ChildLeaves DEF clientVars, parentVars, Reported, Readable
<1>11. CASE UNCHANGED vars
  BY <1>11 DEF vars, clientVars, parentVars, Reported, Readable
<1> QED
  BY <1>2, <1>3, <1>4, <1>5, <1>6, <1>7, <1>8, <1>9, <1>10, <1>11
     DEF Next, Client, Parent, Writing, SelectTimeout, Stopped

-----------------------------------------------------------------------------
(* The buffers are those of the client being served.                         *)
LEMMA NextCurrent ==
  ASSUME RInv, [Next]_vars
  PROVE  Current'
<1> USE DEF RInv, IInv, TypeOK, Service, Held
<1>1. ASSUME NEW c \in Clients, Connect(c) \/ Leave(c) PROVE Current'
  <2>1. /\ UNCHANGED <<sent, reply, conn, parentVars, committed>>
        /\ phase[c] # "gone" /\ \E p \in {"open", "gone"} : phase' = [phase EXCEPT ![c] = p]
    BY <1>1 DEF Connect, Leave
  <2>2. \A d \in Clients : phase[d] = "gone" => phase'[d] = "gone"
    BY <2>1
  <2>3. Serves => conn[fd] \in Clients
    BY DEF Current, Serving, Serves
  <2> QED BY <2>1, <2>2, <2>3 DEF Current, Serves, Holds, Saving, parentVars
<1>2. ASSUME NEW c \in Clients, NEW r \in Requests, Send(c, r) PROVE Current'
  <2>1. /\ sent' = [sent EXCEPT ![c] = r] /\ sent[c] = NoReq /\ phase[c] = "open"
        /\ UNCHANGED <<phase, reply, conn, parentVars, committed>>
    BY <1>2 DEF Send
  <2>2. Serves => conn[fd] \in Clients /\ conn[fd] # c
    BY <2>1 DEF Current, Serving, Serves
  <2> QED BY <2>1, <2>2 DEF Current, Serves, Holds, Saving, parentVars
<1>3. CASE Select \/ ScanDone \/ Accept
  BY <1>3 DEF Select, ScanDone, Accept, ScanReaches, Current, Serves
<1>4. ASSUME NEW f \in FDs, Readv(f) PROVE Current'
  <2> DEFINE c == conn[f]
             whole == unread[c] /\ sent[c].mode # "cut"
  <2>1. /\ f \in Held /\ ppc = "scan" /\ ppc' = "mode" /\ fd' = f
        /\ UNCHANGED <<phase, sent, reply, conn, reads>>
        /\ mode' = IF whole THEN sent[c].mode ELSE IF unread[c] THEN "other" ELSE mode
        /\ id'   = IF whole THEN sent[c].id ELSE id
        /\ calc' = IF whole THEN sent[c].calc ELSE calc
    BY <1>4 DEF Readv, ScanReaches, FDs, SERV
  <2>2. c \in Clients /\ reply[c] = NoReply /\ (sent[c] # NoReq => unread[c])
    BY <2>1 DEF Serving, Queued, Pending, Serves
  <2>3. sent[c] # NoReq \/ phase[c] = "gone"
    <3>1. unread[c] \/ phase[c] = "gone"
      BY <1>4, <2>1 DEF Readv, ScanReaches, Reported, Readable, FDs, SERV
    <3> QED BY <3>1, <2>2, NoReqIsNoRequest DEF Serving
  <2>4. sent[c] # NoReq => Holds(sent[c])'
    BY <2>1, <2>2 DEF Holds
  <2> QED BY <2>1, <2>2, <2>3, <2>4 DEF Current
<1>5. CASE Writing
  <2>1. /\ UNCHANGED <<phase, sent, conn, reads, fd, mode, id, calc>> /\ Serves
        /\ ppc' # "close" => reply' = reply
        /\ ppc # "close"
    BY <1>5, WritingLeaves DEF Serves
  <2>2. /\ fd \in Held
        /\ sent'[conn[fd]] # NoReq \/ phase'[conn[fd]] = "gone"
        /\ ppc' # "close" => reply'[conn[fd]] = NoReply
        /\ sent'[conn[fd]] # NoReq => Holds(sent[conn[fd]])'
    BY <2>1 DEF Current, Holds
  <2>3. CASE WriteReq
    <3>1. ppc' = "result" /\ committed' = Append(committed, Saving)
      BY <2>3 DEF WriteReq, ParentTo, Saving
    <3>2. committed' # << >> /\ committed'[Len(committed')] = Saving
      BY <3>1, Appended
    <3> QED BY <2>1, <2>2, <3>1, <3>2 DEF Current, Saving
  <2>4. CASE ReadLoad
    <3>1. ppc' = "answer" /\ committed' = committed /\ load' = Listing(committed, id)
      BY <2>4 DEF ReadLoad, ParentTo, Commands, AnswerIsForThisLoad
    <3> QED BY <2>1, <2>2, <3>1 DEF Current
  <2>5. CASE WriteMode \/ WriteId \/ WriteResult \/ WriteLoad
    <3>1. ppc' # "result" /\ ppc' # "answer"
      BY <2>5 DEF WriteMode, WriteId, WriteResult, WriteLoad, ParentTo
    <3> QED BY <2>1, <2>2, <3>1 DEF Current
  <2> QED BY <1>5, <2>3, <2>4, <2>5 DEF Writing
<1>6. CASE Close
  BY <1>6 DEF Close, Current, Serves
<1>7. CASE Wait
  BY <1>7 DEF Wait, ParentTo, Current, Serves
<1>8. CASE Child
  BY <1>8, ChildLeaves DEF clientVars, parentVars, Current, Serves, Holds, Saving
<1>9. CASE UNCHANGED vars
  BY <1>9 DEF vars, clientVars, parentVars, Current, Serves, Holds, Saving
<1> QED
  BY <1>1, <1>2, <1>3, <1>4, <1>5, <1>6, <1>7, <1>8, <1>9
     DEF Next, Client, Parent, Writing, SelectTimeout, Stopped

-----------------------------------------------------------------------------
(* A record that is committed stays committed.                               *)
LEMMA CommittedStays ==
  ASSUME RInv, [Next]_vars, NEW rec, Committed(rec)
  PROVE  Committed(rec)'
<1> USE DEF RInv, IInv, TypeOK
<1>1. PICK k \in 1 .. Len(committed) : committed[k] = rec
  BY DEF Committed
<1>2. committed' = committed \/ committed' = Append(committed, Saving)
  BY ChildLeaves DEF Next, Client, Connect, Send, Leave, Parent, Select, SelectTimeout, ScanDone,
     Accept, Readv, WriteMode, WriteId, WriteReq, WriteResult, ReadLoad, WriteLoad, Close, Wait,
     Stopped, vars, Saving
<1>3. k \in 1 .. Len(committed') /\ committed'[k] = rec
  <2>1. CASE committed' = committed
    BY <1>1, <2>1
  <2>2. CASE committed' = Append(committed, Saving)
    <3> HIDE DEF Saving
    <3> QED BY <1>1, <2>2, Appended
  <2> QED BY <1>2, <2>1, <2>2
<1> QED BY <1>3 DEF Committed

(* A save in the buffers is the current request or is committed.             *)
LEMMA NextLeftover ==
  ASSUME RInv, [Next]_vars
  PROVE  Leftover'
<1> USE DEF RInv, IInv, TypeOK, Service
<1> DEFINE Fresh == ppc \in {"mode", "id", "calc"} /\ sent[conn[fd]] # NoReq
<1>1. Fresh => conn[fd] \in Clients
  BY DEF Serving, Current, Serves, Held
<1>2. Committed(Saving) /\ UNCHANGED <<id, calc>> => Committed(Saving)'
  BY CommittedStays DEF Saving
<1>3. ASSUME NEW c \in Clients, Connect(c) \/ Leave(c) \/ \E r \in Requests : Send(c, r)
      PROVE  Leftover'
  <2>1. UNCHANGED <<conn, parentVars>>
    BY <1>3 DEF Connect, Leave, Send
  <2>2. Fresh => sent'[conn[fd]] # NoReq
    BY <1>1, <1>3, NoReqIsNoRequest DEF Connect, Leave, Send
  <2> QED BY <1>2, <2>1, <2>2 DEF Leftover, parentVars
<1>4. CASE Select \/ ScanDone \/ Accept
  BY <1>2, <1>4 DEF Select, ScanDone, Accept, ScanReaches, Leftover
<1>5. ASSUME NEW f \in FDs, Readv(f) PROVE Leftover'
  <2> DEFINE c == conn[f]
             whole == unread[c] /\ sent[c].mode # "cut"
  <2>1. /\ f \in Held /\ ppc = "scan" /\ ppc' = "mode" /\ fd' = f /\ conn' = conn /\ sent' = sent
        /\ mode' = IF whole THEN sent[c].mode ELSE IF unread[c] THEN "other" ELSE mode
        /\ ~whole => UNCHANGED <<id, calc>>
    BY <1>5 DEF Readv, ScanReaches, FDs, SERV, Held
  <2>2. unread[c] => sent[c] # NoReq
    BY <2>1, NoReqIsNoRequest DEF Serving, Held
  <2>3. ~whole /\ mode' = "save" => Committed(Saving)'
    BY <1>2, <2>1 DEF Leftover
  <2> QED BY <2>1, <2>2, <2>3 DEF Leftover
<1>6. CASE WriteMode \/ WriteId
  <2>1. /\ UNCHANGED <<sent, conn, fd, mode, id, calc>> /\ ppc \in {"mode", "id"}
        /\ mode = "save" => ppc' \in {"id", "calc"}
    BY <1>6 DEF WriteMode, WriteId, ParentTo
  <2> QED BY <1>2, <2>1 DEF Leftover
<1>7. CASE WriteReq
  <2>1. committed' = Append(committed, Saving) /\ UNCHANGED <<id, calc>>
    BY <1>7 DEF WriteReq, ParentTo, Saving
  <2>2. Len(committed') \in 1 .. Len(committed') /\ committed'[Len(committed')] = Saving
    BY <2>1, Appended
  <2> QED BY <2>1, <2>2 DEF Leftover, Committed, Saving
<1>8. CASE WriteResult \/ ReadLoad \/ WriteLoad \/ Close \/ Wait
  BY <1>2, <1>8 DEF WriteResult, ReadLoad, WriteLoad, Close, Wait, ParentTo, Leftover
<1>9. CASE Child
  BY <1>2, <1>9, ChildLeaves DEF clientVars, parentVars, Leftover
<1>10. CASE UNCHANGED vars
  BY <1>2, <1>10 DEF vars, clientVars, parentVars, Leftover
<1> QED
  BY <1>3, <1>4, <1>5, <1>6, <1>7, <1>8, <1>9, <1>10
     DEF Next, Client, Parent, SelectTimeout, Stopped

-----------------------------------------------------------------------------
(* Who has been answered keeps the answer, and the history of the request;   *)
(* the only answers given are to the client being served.                    *)
LEMMA AnswersStay ==
  ASSUME RInv, [Next]_vars, NEW c \in Clients
  PROVE  /\ reply[c] # NoReply =>
              reply'[c] = reply[c] /\ sent'[c] = sent[c] /\ acked'[c] = acked[c]
         /\ acked'[c] = acked[c] \/ acked'[c] = {d \in Clients : reply[d] # NoReply}
         /\ reply[c] = NoReply /\ reply'[c] # NoReply =>
              /\ c = conn[fd] /\ sent'[c] = sent[c] /\ acked'[c] = acked[c]
              /\ (sent[c] # NoReq => Holds(sent[c]))
              /\ \/ ppc = "result"
                 \/ ppc = "answer" /\ reply'[c] = Listing(committed, id)
<1> USE DEF RInv, IInv, TypeOK, Service
<1>1. ASSUME NEW d \in Clients, NEW r \in Requests, Send(d, r)
      PROVE  /\ reply' = reply /\ reply[d] = NoReply
             /\ c # d => sent'[c] = sent[c] /\ acked'[c] = acked[c]
             /\ c = d => acked'[c] = {e \in Clients : reply[e] # NoReply}
  BY <1>1 DEF Send, Queued
<1>2. CASE WriteResult
  <2>1. /\ ppc = "result" /\ UNCHANGED <<sent, acked>> /\ Serves
        /\ reply' = [reply EXCEPT ![conn[fd]] = Result(Calculate(calc))]
    BY <1>2 DEF WriteResult, ParentTo, Answer, Serves
  <2>2. /\ reply[conn[fd]] = NoReply
        /\ sent[conn[fd]] # NoReq => Holds(sent[conn[fd]])
    BY <2>1 DEF Current
  <2> QED BY <2>1, <2>2
<1>3. CASE WriteLoad
  <2>1. /\ ppc = "answer" /\ UNCHANGED <<sent, acked>> /\ Serves
        /\ reply' = [reply EXCEPT ![conn[fd]] = load]
    BY <1>3 DEF WriteLoad, ParentTo, Answer, Serves
  <2>2. /\ reply[conn[fd]] = NoReply /\ load = Listing(committed, id)
        /\ sent[conn[fd]] # NoReq => Holds(sent[conn[fd]])
    BY <2>1 DEF Current
  <2> QED BY <2>1, <2>2
<1>4. ASSUME ~WriteResult, ~WriteLoad, ~ \E d \in Clients, r \in Requests : Send(d, r)
      PROVE  UNCHANGED <<reply, sent, acked>>
  BY <1>4, ChildLeaves
     DEF Next, Client, Connect, Leave, Parent, Select, SelectTimeout, ScanDone, Accept, Readv,
         WriteMode, WriteId, WriteReq, ReadLoad, Close, Wait, ParentTo, Stopped, vars, clientVars
<1> QED BY <1>1, <1>2, <1>3, <1>4

(* What is acknowledged is committed, and a later load lists it.             *)
LEMMA NextAcknowledged ==
  ASSUME RInv, [Next]_vars
  PROVE  Acknowledged'
<1> USE DEF RInv, IInv, TypeOK, Service
<1>1. ASSUME NEW d \in Clients, sent'[d].mode = "save", reply'[d] # NoReply
      PROVE  Committed(Record(sent[d]))'
  <2>1. CASE reply[d] # NoReply
    BY <1>1, <2>1, AnswersStay, CommittedStays DEF Acknowledged
  <2>2. CASE reply[d] = NoReply
    <3>1. /\ sent'[d] = sent[d] /\ (sent[d] # NoReq => Holds(sent[d]))
          /\ ppc \in {"result", "answer"}
      BY <1>1, <2>2, AnswersStay
    <3>2. mode = "save" /\ id = sent[d].id /\ calc = sent[d].calc
      BY <1>1, <3>1 DEF Holds, NoReq
    <3>3. Committed(Saving) /\ Saving = Record(sent[d])
      BY <3>1, <3>2 DEF Leftover, Saving, Record
    <3> QED BY <3>1, <3>3, CommittedStays
  <2> QED BY <2>1, <2>2
<1>2. ASSUME NEW c \in Clients, NEW d \in acked'[c]
      PROVE  d \in Clients /\ reply[d] # NoReply
  BY <1>2, AnswersStay DEF Acknowledged
<1>3. ASSUME NEW c \in Clients, NEW d \in acked'[c],
             reply'[c] # NoReply, sent'[c].mode = "load", sent'[d].mode = "save",
             sent'[d].id = sent'[c].id
      PROVE  /\ reply'[c].kind = "listing"
             /\ \/ Len(reply'[c].recs) = ReplyMax
                \/ \E k \in 1 .. Len(reply'[c].recs) : reply'[c].recs[k] = Record(sent'[d])
  <2>1. d \in Clients /\ reply[d] # NoReply /\ sent'[d] = sent[d]
    BY <1>2, <1>3, AnswersStay
  <2>2. CASE reply[c] # NoReply
    <3>1. sent'[c] = sent[c] /\ reply'[c] = reply[c] /\ d \in acked[c]
      BY <1>3, <2>2, AnswersStay
    <3> QED BY <1>3, <2>1, <2>2, <3>1 DEF Acknowledged, AckedSavesAreLoaded
  <2>3. CASE reply[c] = NoReply
    <3>1. /\ sent'[c] = sent[c] /\ (sent[c] # NoReq => Holds(sent[c]))
          /\ ppc = "result" \/ (ppc = "answer" /\ reply'[c] = Listing(committed, id))
      BY <1>3, <2>3, AnswersStay
    <3>2. mode = "load" /\ id = sent[c].id
      BY <1>3, <3>1 DEF Holds, NoReq
    <3>3. reply'[c] = Listing(committed, id)
      BY <3>1, <3>2 DEF Commands, ParentAt
    <3>4. PICK m \in 1 .. Len(committed) : committed[m] = Record(sent[d])
      BY <1>3, <2>1 DEF Acknowledged, Committed
    <3>5. committed[m].id = id
      BY <1>3, <2>1, <3>1, <3>2, <3>4 DEF Record
    <3>6. LET answer == Listing(committed, committed[m].id)
          IN /\ answer.kind = "listing"
             /\ \/ Len(answer.recs) = ReplyMax
                \/ \E k \in 1 .. Len(answer.recs) : answer.recs[k] = committed[m]
      BY ListingAll
    <3> QED BY <2>1, <3>3, <3>4, <3>5, <3>6
  <2> QED BY <2>2, <2>3
<1>4. AckedSavesAreLoaded'
  BY <1>3 DEF AckedSavesAreLoaded
<1>5. \A c \in Clients : \A d \in acked'[c] : reply'[d] # NoReply
  BY <1>2, AnswersStay
<1> QED BY <1>1, <1>4, <1>5 DEF Acknowledged

-----------------------------------------------------------------------------
(* The invariant of the whole service.                                       *)
LEMMA NextRInv == RInv /\ [Next]_vars => RInv'
  BY NextIInv, NextOnePlace, NextQueued, NextReported, NextCurrent, NextLeftover, NextAcknowledged
     DEF RInv, Service

(* The invariant under the refinement holds of every behaviour: each client  *)
(* is in one place, and what it is answered is what it asked.                *)
THEOREM ServiceInductive == Spec => []RInv
<1>1. Init => RInv
  BY InitIInv, InitService DEF RInv
<1> QED BY <1>1, NextRInv, PTL DEF Spec

(* A load lists every save of its id acknowledged to anybody before the load *)
(* was sent, or is full: whatever is in the pipes when the load is served.   *)
THEOREM AckedSavesAreLoadedCorrect == Spec => []AckedSavesAreLoaded
<1>1. RInv => AckedSavesAreLoaded
  BY DEF RInv, Service, Acknowledged
<1> QED BY <1>1, ServiceInductive, PTL

-----------------------------------------------------------------------------
(* The refinement.  The client whose save is committed and not answered.     *)
Busy == IF ppc = "result" THEN {conn[fd]} ELSE {}

(* What a record looks like that is being saved.                             *)
LEMMA SavingFields == Saving.req.value = Calculate(calc)
  BY DEF Saving, CalcString

(* The store's data is the server's.                                         *)
LEMMA SameData ==
  /\ Abs!NoReq = NoReq /\ Abs!NoReply = NoReply /\ Abs!Requests = Requests
  /\ \A n : Abs!Result(n) = Result(n)
  /\ \A r : Abs!Record(r) = Record(r)
  /\ \A s, i : Abs!Listing(s, i) = Listing(s, i)
<1>1. Abs!NoExpr = NoExpr /\ Abs!NoId = NoId /\ Abs!NotExist = NotExist
  BY DEF Abs!NoExpr, NoExpr, Abs!NoId, NoId, Abs!NotExist, NotExist
<1>2. Abs!NoReq = NoReq /\ Abs!NoReply = NoReply /\ Abs!Requests = Requests
  BY <1>1 DEF Abs!NoReq, NoReq, Abs!NoReply, NoReply, Abs!Requests, Requests
<1>3. \A n : Abs!Result(n) = Result(n)
  BY DEF Abs!Result, Result
<1>4. \A op, a, b : Abs!Apply(op, a, b) = Apply(op, a, b)
  BY DEF Abs!Apply, Apply
<1>5. \A n : Abs!Wrap(n) = Wrap(n)
  <2>1. Abs!TwoTo = TwoTo
    BY DEF Abs!TwoTo, TwoTo
  <2> QED BY <2>1 DEF Abs!Wrap, Wrap
<1>6. \A e : Abs!Partial(e) = Partial(e)
  BY <1>4, <1>5 DEF Abs!Partial, Partial
<1>7. \A e : Abs!CalcString(e) = CalcString(e)
  BY <1>6 DEF Abs!CalcString, CalcString, Abs!Calculate, Calculate
<1>8. \A r : Abs!Record(r) = Record(r)
  BY <1>7 DEF Abs!Record, Record
<1>9. \A s, i : Abs!Matches(s, i) = Matches(s, i)
  BY DEF Abs!Matches, Matches
<1>10. \A s : Abs!Cut(s) = Cut(s)
  BY DEF Abs!Cut, Cut
<1>11. \A s, i : Abs!Listing(s, i) = Listing(s, i)
  BY <1>1, <1>9, <1>10 DEF Abs!Listing, Listing
<1> QED BY <1>2, <1>3, <1>8, <1>11

(* Nothing is stored and nobody has asked, in either specification.          *)
LEMMA InitRefines == Init => Abs!Init
  BY SameData DEF Init, Abs!Init

(* A request sent.                                                           *)
LEMMA SendRefines ==
  ASSUME RInv, NEW c \in Clients, NEW r \in Requests, Send(c, r)
  PROVE  Abs!Send(c, r) /\ UNCHANGED Busy
<1> USE DEF RInv, IInv, TypeOK, Service
<1>1. /\ sent[c] = NoReq /\ sent' = [sent EXCEPT ![c] = r] /\ phase[c] = "open"
      /\ UNCHANGED <<committed, reply, conn, ppc, fd>>
  BY DEF Send, parentVars
<1>2. reply[c] = NoReply
  BY <1>1 DEF Queued
<1>3. c \notin Busy /\ Busy' = Busy
  BY <1>1 DEF Busy, Current, Serves
<1> QED BY <1>1, <1>2, <1>3, SameData DEF Abs!Send, Abs!Unserved, Busy

(* A save committed: the request of the client being served or, when that    *)
(* hung up, a record of the store.                                           *)
LEMMA WriteReqRefines ==
  ASSUME RInv, WriteReq
  PROVE  Abs!Commit(conn[fd])
<1> USE DEF RInv, IInv, TypeOK, Service
<1>1. /\ ppc = "calc" /\ ppc' = "result" /\ committed' = Append(committed, Saving)
      /\ UNCHANGED <<sent, reply, conn, fd>>
  BY DEF WriteReq, ParentTo, Saving
<1>2. Busy = {} /\ Busy' = {conn[fd]}
  BY <1>1 DEF Busy
<1>3. reply[conn[fd]] = NoReply /\ mode = "save"
  BY <1>1 DEF Current, Serves, Commands, ParentAt
<1>4. Saving \in Abs!SavedBy(conn[fd])
  <2>1. CASE sent[conn[fd]] = NoReq
    <3>1. Committed(Saving)
      BY <1>3, <2>1 DEF Leftover
    <3> QED BY <2>1, <3>1, SameData DEF Committed, Abs!SavedBy
  <2>2. CASE sent[conn[fd]] # NoReq
    <3>1. sent[conn[fd]].mode = "save" /\ id = sent[conn[fd]].id /\ calc = sent[conn[fd]].calc
      BY <1>1, <1>3, <2>2 DEF Current, Serves, Holds
    <3>2. Saving = Record(sent[conn[fd]])
      BY <3>1 DEF Saving, Record
    <3> QED BY <2>2, <3>1, <3>2, SameData DEF Abs!SavedBy
  <2> QED BY <2>1, <2>2
<1> QED BY <1>1, <1>2, <1>3, <1>4, SameData DEF Abs!Commit, Abs!Unserved, Busy

(* A save acknowledged with the value just committed.                        *)
LEMMA WriteResultRefines ==
  ASSUME RInv, WriteResult
  PROVE  Abs!Acknowledge(conn[fd])
<1> USE DEF RInv, Service
<1>1. /\ ppc = "result" /\ ppc' = "close" /\ UNCHANGED <<committed, sent>>
      /\ reply' = [reply EXCEPT ![conn[fd]] = Result(Calculate(calc))]
  BY DEF WriteResult, ParentTo, Answer
<1>2. committed[Len(committed)].req.value = Calculate(calc)
  BY <1>1, SavingFields DEF Current
<1> QED BY <1>1, <1>2, SameData DEF Abs!Acknowledge

(* A load answered.                                                          *)
LEMMA WriteLoadRefines ==
  ASSUME RInv, WriteLoad
  PROVE  Abs!Load(conn[fd])
<1> USE DEF RInv, IInv, TypeOK, Service
<1>1. /\ ppc = "answer" /\ ppc' = "close" /\ UNCHANGED <<committed, sent>>
      /\ reply' = [reply EXCEPT ![conn[fd]] = load]
  BY DEF WriteLoad, ParentTo, Answer
<1>2. load = Listing(committed, id) /\ reply[conn[fd]] = NoReply
  BY <1>1 DEF Current, Serves
<1>3. mode = "load" /\ id \in Ids
  BY <1>1 DEF Commands, ParentAt, Serving, NoSaveOfGarbage
<1>4. id \in Abs!LoadedBy(conn[fd])
  <2>1. CASE sent[conn[fd]] = NoReq
    BY <1>3, <2>1, SameData DEF Abs!LoadedBy
  <2>2. CASE sent[conn[fd]] # NoReq
    <3>1. sent[conn[fd]].mode = "load" /\ id = sent[conn[fd]].id
      BY <1>1, <1>3, <2>2 DEF Current, Serves, Holds
    <3> QED BY <2>2, <3>1, SameData DEF Abs!LoadedBy
  <2> QED BY <2>1, <2>2
<1> QED BY <1>1, <1>2, <1>4, SameData DEF Abs!Load, Abs!Unserved

(* Every other step is invisible to the clients.                             *)
LEMMA OthersStutter ==
  ASSUME RInv, [Next]_vars, ~WriteReq, ~WriteResult, ~WriteLoad,
         ~ \E c \in Clients, r \in Requests : Send(c, r)
  PROVE  UNCHANGED <<committed, Busy, sent, reply>>
<1>1. CASE \E c \in Clients : Connect(c) \/ Leave(c)
  BY <1>1 DEF Connect, Leave, parentVars, Busy
<1>2. CASE Select \/ ScanDone \/ Accept \/ \E f \in FDs : Readv(f)
  BY <1>2 DEF Select, ScanDone, Accept, Readv, ScanReaches, clientVars, Busy
<1>3. CASE WriteMode \/ WriteId \/ ReadLoad \/ Close \/ Wait
  BY <1>3 DEF WriteMode, WriteId, ReadLoad, Close, Wait, ParentTo, Busy
<1>4. CASE Child
  BY <1>4, ChildLeaves DEF clientVars, parentVars, Busy
<1>5. CASE UNCHANGED vars
  BY <1>5 DEF vars, clientVars, parentVars, Busy
<1> QED BY <1>1, <1>2, <1>3, <1>4, <1>5 DEF Next, Client, Parent, SelectTimeout, Stopped

(* Every step of parent, child or client is a step of the abstract store or  *)
(* none.                                                                     *)
LEMMA StepRefines ==
  ASSUME RInv, [Next]_vars
  PROVE  [Abs!Next]_(Abs!vars)
<1>1. ASSUME NEW c \in Clients, NEW r \in Requests, Send(c, r) PROVE Abs!Next
  BY <1>1, SendRefines, SameData DEF Abs!Next
<1>2. Serves => conn[fd] \in Clients
  BY DEF RInv, IInv, Service, Current, Serving, Serves, Held
<1>3. CASE WriteReq
  BY <1>2, <1>3, WriteReqRefines DEF Abs!Next, Serves, WriteReq, ParentTo
<1>4. CASE WriteResult
  BY <1>2, <1>4, WriteResultRefines DEF Abs!Next, Serves, WriteResult, ParentTo
<1>5. CASE WriteLoad
  BY <1>2, <1>5, WriteLoadRefines DEF Abs!Next, Serves, WriteLoad, ParentTo
<1>6. CASE /\ ~WriteReq /\ ~WriteResult /\ ~WriteLoad
           /\ ~ \E c \in Clients, r \in Requests : Send(c, r)
  BY <1>6, OthersStutter DEF Busy, Abs!vars
<1> QED BY <1>1, <1>3, <1>4, <1>5, <1>6

(* The two processes, their pipes and the sockets are the atomic store.      *)
THEOREM Refines == Spec => Implements
<1>1. Spec => []RInv /\ [][Next]_vars
  BY ServiceInductive, PTL DEF Spec
<1>2. RInv /\ [Next]_vars => [Abs!Next]_(Abs!vars)
  BY StepRefines
<1>3. Spec => Abs!Init
  BY InitRefines DEF Spec
<1> QED BY <1>1, <1>2, <1>3, PTL DEF Implements, Abs!Spec

(* Nobody is answered twice, or an answer changed.                           *)
THEOREM AnsweredOnce ==
  Spec => [][\A c \in Clients : reply[c] # NoReply => reply'[c] = reply[c]]_vars
<1>1. RInv /\ [Next]_vars => \A c \in Clients : reply[c] # NoReply => reply'[c] = reply[c]
  BY AnswersStay
<1> QED BY <1>1, ServiceInductive, PTL DEF Spec

-----------------------------------------------------------------------------
(* Neither process waits for the other.  The parent can go no further before *)
(* the child does something: a write that does not fit, an answer that is    *)
(* not there, the end of the child.                                          *)
ParentWaits ==
  \/ ppc = "mode" /\ ~Fits(pipeA, ModeBlock(mode))
  \/ ppc = "id"   /\ ~Fits(pipeA, IdBlock(id))
  \/ ppc = "calc" /\ ~Fits(pipeA, ReqBlock(CalcString(calc)))
  \/ ppc = "await" /\ pipeB = << >>
  \/ ppc = "wait" /\ cpc # "exited"

(* The child has something to read, or room for its answer.                  *)
ChildMoves ==
  \/ cpc \in {"mode", "id", "req", "loadId"} /\ pipeA # << >>
  \/ cpc = "find" /\ \A n \in {9, DATA_MAX} : Fits(pipeB, Block("answer", Listing(store, loadId), n))

NeverBothWait == ParentWaits => ChildMoves

(* An empty pipe has room for every block.                                   *)
LEMMA EmptyFits ==
  ASSUME NEW b, b.len \in {MODE_SIZE, ID_SIZE, LOAD_MAX, 9, DATA_MAX}
  PROVE  Fits(<< >>, b)
<1> DEFINE f == [k \in 0 .. 0 |-> 0]
           Is(g) == g = [k \in 0 .. Len(<< >>) |-> IF k = 0 THEN 0 ELSE g[k-1] + << >>[k].len]
           u == CHOOSE g : Is(g)
<1>1. \A g : g = [k \in 0 .. 0 |-> IF k = 0 THEN 0 ELSE g[k-1] + << >>[k].len] =>
             g[0] = 0
  OBVIOUS
<1>2. Is(f)
  BY \A k \in 0 .. 0 : k = 0
<1>3. Is(u)
  <2> HIDE DEF Is, f
  <2> QED BY <1>2
<1>4. Bytes(<< >>) = u[0]
  BY DEF Bytes
<1>5. u[0] = 0
  <2> HIDE DEF u
  <2> QED BY <1>3
<1> QED BY <1>4, <1>5, PipeMaxAssumption DEF Fits, MODE_SIZE, ID_SIZE, LOAD_MAX, DATA_MAX

(* Whatever the parent waits for, the child can move: what fills pipe A is   *)
(* what the child reads next, and while an answer is awaited the pipe ends   *)
(* with the id that asks for it, so that pipe B is empty when the child has  *)
(* come there.                                                               *)
THEOREM NeverBothWaitCorrect == Spec => []NeverBothWait
<1>1. IInv => NeverBothWait
  <2> SUFFICES ASSUME IInv, ParentWaits PROVE ChildMoves
    BY DEF NeverBothWait
  <2>1. CASE pipeA # << >>
    <3>1. pipeA[1] \in Blocks /\ pipeA[1].kind = cpc
      <4>1. 1 \in 1 .. Len(pipeA) /\ pipeA \in Seq(Blocks)
        BY <2>1 DEF IInv, TypeOK
      <4> QED BY <2>1, <4>1 DEF IInv, Commands, Chain
    <3> QED BY <2>1, <3>1 DEF Blocks, ChildMoves
  <2>2. CASE pipeA = << >>
    <3>1. EndPc(pipeA, cpc) = cpc
      BY <2>2 DEF EndPc
    <3>2. ppc # "wait" \/ cpc = "exited"
      BY <3>1 DEF IInv, Commands, ParentAt
    <3>3. /\ Fits(pipeA, ModeBlock(mode)) /\ Fits(pipeA, IdBlock(id))
          /\ Fits(pipeA, ReqBlock(CalcString(calc)))
      <4>1. \A b : b.len \in {MODE_SIZE, ID_SIZE, LOAD_MAX} => Fits(pipeA, b)
        BY <2>2, EmptyFits
      <4> QED BY <4>1 DEF ModeBlock, IdBlock, ReqBlock, Block
    <3>4. ppc = "await" /\ pipeB = << >>
      BY <3>2, <3>3 DEF ParentWaits
    <3>5. cpc = "find"
      BY <3>1, <3>4 DEF IInv, Commands, ParentAt
    <3>6. \A n \in {9, DATA_MAX} : Fits(pipeB, Block("answer", Listing(store, loadId), n))
      BY <3>4, EmptyFits DEF Block
    <3> QED BY <3>5, <3>6 DEF ChildMoves
  <2> QED BY <2>1, <2>2
<1> QED BY <1>1, Inductive, PTL

=============================================================================
