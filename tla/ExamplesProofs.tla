--------------------------- MODULE ExamplesProofs ---------------------------
(* The small programs, for any number of rounds, turns, visitors and presses *)
(* of CTRL+C and any inputs.  The argument, program by program:              *)
(*   semaphore      there is one token, in a semaphore or with a thread; the *)
(*                  reader is ahead by the number that is waiting            *)
(*   mutex          total is what the two threads have added, and what a     *)
(*                  thread has loaded is still total                         *)
(*   thread3, 4     total, and what a thread has loaded, are bounded by what *)
(*                  each thread could have stored by its turn                *)
(*   assign_server  a visitor is in one place: away, in the queue, with its  *)
(*                  child, or in the log when that has ended                 *)
(*   processes      for each program where its processes are, what is in the *)
(*                  pipes and what the clock says, by the parent's next call *)
EXTENDS Examples, SequenceLemmas, TLAPS

-----------------------------------------------------------------------------
(* week10/semaphore.c.  There is one token: a unit of sem_one or sem_two, or *)
(* a thread between its sem_wait and its sem_post.                           *)
Tokens == sem_one + sem_two + (IF rpc # "wait" THEN 1 ELSE 0)
                            + (IF apc # "wait" THEN 1 ELSE 0)

(* The reader is ahead by the number that is waiting to be added; that       *)
(* number is what sum lacks of typed.                                        *)
Ahead  == sem_one > 0 \/ apc # "wait"
ToAdd  == rpc = "post" \/ sem_one > 0 \/ apc = "add"

TakeTurns == /\ TypeOK
             /\ Tokens = 1
             /\ ri = ai + (IF Ahead THEN 1 ELSE 0)
             /\ typed = sum + (IF ToAdd THEN num ELSE 0)

(* It holds at the start.                                                    *)
LEMMA InitTakeTurns == Init => TakeTurns
  BY SemaphoreAssumption DEF Init, TakeTurns, TypeOK, Tokens, Ahead, ToAdd

(* Every step of either thread preserves it.                                 *)
LEMMA NextTakeTurns ==
  ASSUME TakeTurns, [Next]_vars
  PROVE  TakeTurns'
<1> USE SemaphoreAssumption DEF TakeTurns, TypeOK, Tokens, Ahead, ToAdd, readVars, accuVars
<1>1. CASE ReadWait  BY <1>1 DEF ReadWait
<1>2. CASE ReadScan  BY <1>2 DEF ReadScan
<1>3. CASE ReadPost  BY <1>3 DEF ReadPost
<1>4. CASE AccuWait  BY <1>4 DEF AccuWait
<1>5. CASE AccuAdd   BY <1>5 DEF AccuAdd
<1>6. CASE AccuPost  BY <1>6 DEF AccuPost
<1>7. CASE Join \/ UNCHANGED vars  BY <1>7 DEF Join, vars
<1> QED
  BY <1>1, <1>2, <1>3, <1>4, <1>5, <1>6, <1>7 DEF Next, Read, Accu

-----------------------------------------------------------------------------
(* mutex.c, thread3.c and thread4.c.                                         *)
Loops == IF program = "thread3" THEN 5 ELSE Ones      \* turns of each thread

CounterTypeOK ==
  /\ program \in CounterPrograms
  /\ total \in Int
  /\ holder \in Threads \cup {Free}
  /\ at \in [Threads -> {"top", "locked", "loaded", "stored"}]
  /\ turn \in [Threads -> 0 .. Loops]
  /\ reg \in [Threads -> Int]
  /\ \A t \in Threads : at[t] \in {"locked", "loaded"} => turn[t] < Loops

(* With the mutex: who is not at the top of its loop holds it, and total is  *)
(* all that has been added.                                                  *)
Guarded ==
  /\ \A t \in Threads : at[t] # "top" <=> holder = t
  /\ at[2] = "top" => turn[2] \in {0, Ones}
  /\ at[2] = "stored" => turn[2] = Ones
  /\ total = turn[2] - turn[1]
  /\ \A t \in Threads : at[t] = "loaded" => reg[t] = total

(* Without: what total and the loaded values lie between.  The least that a  *)
(* thread of thread3 can load grows with what it has itself stored.          *)
Least(t) == IF t = 1 THEN (IF turn[1] >= 3 THEN 6 ELSE IF turn[1] = 2 THEN 3 ELSE turn[1])
                     ELSE (IF turn[2] >= 1 THEN 1 ELSE 0)
Square(n, c) == n * (n + c)
Most         == Square(turn[1], 1) + Square(turn[2], 11)       \* twice that

Between3(n) == 2 * n =< Most
Between4(n) == -turn[1] =< n /\ n =< turn[2]

Bounded ==
  /\ \A t \in Threads : at[t] \in {"top", "loaded"}
  /\ program = "thread3" =>
       /\ Between3(total) /\ \A t \in Threads : at[t] = "loaded" => Between3(reg[t])
       /\ \A t \in Threads : Least(t) =< total /\ (at[t] = "loaded" => Least(t) =< reg[t])
       /\ turn[1] = 5 /\ turn[2] = 5 => 11 =< total
  /\ program = "thread4" =>
       Between4(total) /\ \A t \in Threads : at[t] = "loaded" => Between4(reg[t])

Counted == program \in CounterPrograms =>
             CounterTypeOK /\ (IF program = "mutex" THEN Guarded ELSE Bounded)

(* What a thread adds in turn k + 1.                                         *)
Addend(t, k) == IF program = "thread3" THEN 5 * (t - 1) + k + 1
                ELSE IF t = 1 THEN -1 ELSE 1

(* The text of a thread's loop, turn by turn.                                *)
LEMMA AddendsAre ==
  ASSUME NEW t \in Threads
  PROVE  /\ Loops \in Nat \ {0}
         /\ Len(Addends(t)) = Loops
         /\ \A k \in 0 .. Loops - 1 :
               Addends(t)[k+1] = Addend(t, k) /\ Addend(t, k) \in Int
<1>1. Loops \in Nat \ {0}
  BY CounterAssumption DEF Loops
<1>2. CASE program = "thread3"
  BY <1>2 DEF Loops, Addends, Range3, Addend, Threads
<1>3. CASE program # "thread3"
  <2>1. \A x : Len(Each(x)) = Ones /\ \A k \in 0 .. Ones - 1 : Each(x)[k+1] = x
    BY CounterAssumption DEF Each
  <2> DEFINE x == IF t = 1 THEN -1 ELSE 1
  <2>2. Addends(t) = Each(x) /\ Loops = Ones
    BY <1>3 DEF Addends, Loops
  <2>3. x \in Int /\ \A k : Addend(t, k) = x
    BY <1>3 DEF Addend
  <2> HIDE DEF x
  <2> QED BY <1>1, <2>1, <2>2, <2>3
<1> QED BY <1>1, <1>2, <1>3

(* A thread is where a step of it begins and goes where it ends; the store   *)
(* ends its turn.                                                            *)
LEMMA NextCounterTypeOK ==
  ASSUME CounterTypeOK, Count /\ Counts
  PROVE  CounterTypeOK'
<1>1. PICK t \in Threads : Thread(t)
  BY DEF Count
<1>2. program' = program /\ Loops' = Loops
  BY DEF Counts, Loops
<1>3. /\ Loops \in Nat \ {0} /\ Len(Addends(t)) = Loops
      /\ \A k \in 0 .. Loops - 1 :
            Addends(t)[k+1] = Addend(t, k) /\ Addend(t, k) \in Int
  BY AddendsAre
<1> USE DEF CounterTypeOK
<1>4. CASE Lock(t)
  BY <1>2, <1>3, <1>4 DEF Lock, GoTo, More, Locks, Free, Threads
<1>5. CASE Load(t)
  BY <1>2, <1>3, <1>5 DEF Load, GoTo, More
<1>6. CASE Store(t)
  <2>1. /\ turn[t] \in 0 .. Loops - 1 /\ reg[t] \in Int
        /\ Addends(t)[turn[t] + 1] \in Int
    BY <1>3, <1>6 DEF Store
  <2>2. total' \in Int
    BY <2>1, <1>6 DEF Store
  <2>3. /\ turn' = [turn EXCEPT ![t] = turn[t] + 1] /\ turn'[t] = turn[t] + 1
        /\ turn' \in [Threads -> 0 .. Loops]
    BY <1>3, <2>1, <1>6 DEF Store
  <2>4. PICK a \in {"top", "locked", "stored"} :
           at' = [at EXCEPT ![t] = a] /\ (a = "locked" => turn'[t] < Loops)
    BY <1>3, <1>6 DEF Store, GoTo
  <2>5. UNCHANGED <<holder, reg>>
    BY <1>6 DEF Store
  <2> QED BY <1>2, <2>1, <2>2, <2>3, <2>4, <2>5
<1>7. CASE Unlock(t)
  BY <1>2, <1>3, <1>7 DEF Unlock, GoTo, Free
<1> QED BY <1>1, <1>4, <1>5, <1>6, <1>7 DEF Thread

(* With the mutex: only the holder steps, so that what the other one has     *)
(* loaded does not grow old.                                                 *)
LEMMA NextGuarded ==
  ASSUME CounterTypeOK, program = "mutex", Guarded, Count /\ Counts
  PROVE  Guarded'
<1>1. PICK t \in Threads : Thread(t)
  BY DEF Count
<1>2. program' = program
  BY DEF Counts
<1>3. /\ Loops = Ones /\ Ones \in Nat \ {0} /\ Len(Addends(t)) = Ones
      /\ \A k \in 0 .. Ones - 1 : Addends(t)[k+1] = IF t = 1 THEN -1 ELSE 1
  BY AddendsAre, CounterAssumption DEF Loops, Addend
<1>4. /\ t \in {1, 2} /\ holder \in {0, 1, 2} /\ Threads = {1, 2}
      /\ turn[1] \in 0 .. Ones /\ turn[2] \in 0 .. Ones
  BY <1>3 DEF CounterTypeOK, Free, Threads
<1>5. CASE Lock(t)
  BY <1>3, <1>4, <1>5 DEF CounterTypeOK, Guarded, Lock, GoTo, More, Locks, Free
<1>6. CASE Load(t)
  BY <1>3, <1>4, <1>6 DEF CounterTypeOK, Guarded, Load, GoTo, More, Locks
<1>7. CASE Store(t)
  <2>1. turn[t] \in 0 .. Ones - 1 /\ reg[t] = total /\ total = turn[2] - turn[1]
    BY <1>3, <1>4, <1>7 DEF CounterTypeOK, Guarded, Store
  <2>2. total' = total + (IF t = 1 THEN -1 ELSE 1)
    BY <1>3, <1>7, <2>1 DEF Store
  <2>3. turn' = [turn EXCEPT ![t] = turn[t] + 1]
    BY <1>7 DEF Store
  <2>4. turn'[t] = turn[t] + 1 /\ \A u \in Threads \ {t} : turn'[u] = turn[u]
    BY <2>3 DEF CounterTypeOK
  <2>5. total' = turn'[2] - turn'[1]
    BY <1>4, <2>1, <2>2, <2>4
  <2> DEFINE a == IF t = 2 /\ turn'[t] < Ones THEN "locked" ELSE "stored"
  <2>6. at' = [at EXCEPT ![t] = a]
    <3>1. Locks(t) = (IF t = 1 THEN "turn" ELSE "loop")
      BY DEF Locks
    <3>2. at' = [at EXCEPT ![t] = CASE Locks(t) = "never" -> "top"
                 [] Locks(t) = "loop" /\ turn'[t] < Len(Addends(t)) -> "locked"
                 [] OTHER -> "stored"]
      BY <1>7 DEF Store, GoTo
    <3>3. (CASE Locks(t) = "never" -> "top"
             [] Locks(t) = "loop" /\ turn'[t] < Len(Addends(t)) -> "locked"
             [] OTHER -> "stored") = a
      <4>1. CASE t = 1  BY <3>1, <4>1
      <4>2. CASE t = 2  BY <1>3, <3>1, <4>2
      <4> QED BY <1>4, <4>1, <4>2
    <3> QED BY <3>2, <3>3
  <2>7. at[t] = "loaded" /\ UNCHANGED <<holder, reg>>
    BY <1>7 DEF Store
  <2>8. \A u \in Threads : at'[u] = IF u = t THEN a ELSE at[u]
    BY <2>6 DEF CounterTypeOK
  <2>9. turn'[2] \in 0 .. Ones /\ (t = 2 => a = "locked" \/ turn'[2] = Ones)
    <3>1. CASE t = 1
      <4>1. turn'[2] = turn[2]
        BY <1>4, <2>4, <3>1
      <4> QED BY <1>4, <3>1, <4>1
    <3>2. CASE t = 2  BY <1>3, <1>4, <2>1, <2>4, <3>2
    <3> QED BY <1>4, <3>1, <3>2
  <2>10. a \in {"locked", "stored"}
    OBVIOUS
  <2> HIDE DEF a
  <2>11. \A u \in Threads : at'[u] # "top" <=> holder' = u
    BY <2>7, <2>8, <2>10 DEF Guarded
  <2>12. \A u \in Threads : at'[u] # "loaded"
    BY <1>4, <2>7, <2>8, <2>10 DEF Guarded
  <2>13. at'[2] = "top" => turn'[2] \in {0, Ones}
    BY <1>4, <2>4, <2>8, <2>10 DEF Guarded
  <2>14. at'[2] = "stored" => turn'[2] = Ones
    BY <1>4, <2>4, <2>8, <2>9 DEF Guarded
  <2> QED BY <2>5, <2>11, <2>12, <2>13, <2>14 DEF Guarded
<1>8. CASE Unlock(t)
  BY <1>3, <1>4, <1>8 DEF CounterTypeOK, Guarded, Unlock, GoTo, Free
<1> QED BY <1>1, <1>5, <1>6, <1>7, <1>8 DEF Thread

(* How the bound grows with a turn.                                          *)
LEMMA SquareGrows ==
  ASSUME NEW n \in Int, NEW c \in Int
  PROVE  /\ Square(n, c) \in Int
         /\ Square(n + 1, c) = Square(n, c) + 2 * n + (c + 1)
<1>1. Square(n + 1, c) = n * (n + c) + n + (n + c) + 1
  BY DEF Square
<1> QED BY <1>1 DEF Square

(* Without: whoever stores adds to what was total at an earlier turn of the  *)
(* other one, or at its own.                                                 *)
LEMMA NextBounded ==
  ASSUME CounterTypeOK, program # "mutex", Bounded, Count /\ Counts
  PROVE  Bounded'
<1>1. PICK t \in Threads : Thread(t)
  BY DEF Count
<1>2. program' = program
  BY DEF Counts
<1>3. /\ Loops \in Nat \ {0} /\ Len(Addends(t)) = Loops
      /\ \A k \in 0 .. Loops - 1 : Addends(t)[k+1] = Addend(t, k)
  BY AddendsAre
<1>4. /\ t \in {1, 2} /\ Threads = {1, 2}
      /\ turn[1] \in 0 .. Loops /\ turn[2] \in 0 .. Loops
  BY DEF CounterTypeOK, Threads
<1>5. Locks(t) = "never"
  BY DEF Locks
<1>6. at[t] \in {"top", "loaded"} /\ ~Lock(t) /\ ~Unlock(t)
  BY <1>5 DEF Bounded, Lock, Unlock
<1>7. CASE Load(t)
  <2>1. /\ reg' = [reg EXCEPT ![t] = total] /\ at' = [at EXCEPT ![t] = "loaded"]
        /\ UNCHANGED <<total, holder, turn>>
    BY <1>7 DEF Load, GoTo
  <2>2. \A u \in Threads : at'[u] = (IF u = t THEN "loaded" ELSE at[u])
                         /\ reg'[u] = (IF u = t THEN total ELSE reg[u])
    BY <2>1 DEF CounterTypeOK
  <2>3. Most' = Most /\ \A u \in Threads : Least(u)' = Least(u)
    BY <2>1 DEF Most, Least
  <2>4. \A u \in Threads : at'[u] \in {"top", "loaded"}
    BY <2>2 DEF Bounded
  <2>5. CASE program = "thread3"
    BY <1>2, <2>1, <2>2, <2>3, <2>4, <2>5 DEF Bounded, Between3
  <2>6. CASE program # "thread3"
    BY <1>2, <2>1, <2>2, <2>4, <2>6 DEF Bounded, Between4
  <2> QED BY <2>5, <2>6
<1>8. CASE Store(t)
  <2> DEFINE k == turn[t]
  <2>1. /\ k \in 0 .. Loops - 1 /\ at[t] = "loaded" /\ reg[t] \in Int
    BY <1>3, <1>8 DEF CounterTypeOK, Store
  <2>2. /\ total' = reg[t] + Addend(t, k)
        /\ turn' = [turn EXCEPT ![t] = k + 1] /\ at' = [at EXCEPT ![t] = "top"]
        /\ UNCHANGED <<holder, reg>>
    BY <1>3, <1>5, <1>8, <2>1 DEF Store, GoTo
  <2>3. \A u \in Threads : at'[u] = (IF u = t THEN "top" ELSE at[u])
                         /\ turn'[u] = (IF u = t THEN k + 1 ELSE turn[u])
    BY <2>2 DEF CounterTypeOK
  <2>4. CASE program = "thread3"
    <3>1. turn[1] \in 0 .. 5 /\ turn[2] \in 0 .. 5 /\ k \in 0 .. 4
      BY <1>4, <2>1, <2>4 DEF Loops
    <3>2. /\ 2 * reg[t] =< Most /\ Least(t) =< reg[t] /\ Addend(t, k) = 5 * (t - 1) + k + 1
      BY <2>1, <2>4 DEF Bounded, Between3, Addend
    <3>3. Most' = Most + 2 * Addend(t, k) /\ Most \in Int
      <4>1. /\ turn'[1] \in Int /\ turn'[2] \in Int
            /\ t = 1 => turn'[1] = turn[1] + 1 /\ turn'[2] = turn[2] /\ k = turn[1]
            /\ t = 2 => turn'[1] = turn[1] /\ turn'[2] = turn[2] + 1 /\ k = turn[2]
        BY <1>4, <2>3, <3>1
      <4>2. /\ Square(turn[1], 1) \in Int /\ Square(turn[2], 11) \in Int
            /\ Square(turn[1] + 1, 1) = Square(turn[1], 1) + 2 * turn[1] + 2
            /\ Square(turn[2] + 1, 11) = Square(turn[2], 11) + 2 * turn[2] + 12
        <5>1. /\ Square(turn[1], 1) \in Int
              /\ Square(turn[1] + 1, 1) = Square(turn[1], 1) + 2 * turn[1] + (1 + 1)
          <6>1. turn[1] \in Int /\ 1 \in Int
            BY <3>1
          <6> QED BY <6>1, SquareGrows, Zenon
        <5>2. /\ Square(turn[2], 11) \in Int
              /\ Square(turn[2] + 1, 11) = Square(turn[2], 11) + 2 * turn[2] + (11 + 1)
          <6>1. turn[2] \in Int /\ 11 \in Int
            BY <3>1
          <6> QED BY <6>1, SquareGrows, Zenon
        <5> QED BY <3>1, <5>1, <5>2
      <4>3. /\ Most = Square(turn[1], 1) + Square(turn[2], 11)
            /\ Most' = Square(turn'[1], 1) + Square(turn'[2], 11)
        BY DEF Most
      <4>4. CASE t = 1
        BY <3>1, <3>2, <4>1, <4>2, <4>3, <4>4
      <4>5. CASE t = 2
        BY <3>1, <3>2, <4>1, <4>2, <4>3, <4>5
      <4> QED BY <1>4, <4>4, <4>5
    <3>4. 2 * total' =< Most'
      BY <1>4, <2>1, <2>2, <3>1, <3>2, <3>3
    <3>5. \A u \in Threads : Least(u)' =< total'
      BY <1>4, <2>1, <2>2, <2>3, <3>1, <3>2 DEF Least
    <3>6. turn'[1] = 5 /\ turn'[2] = 5 => 11 =< total'
      BY <1>4, <2>1, <2>2, <2>3, <3>1, <3>2 DEF Least
    <3>7. ASSUME NEW u \in Threads, at'[u] = "loaded"
          PROVE  2 * reg'[u] =< Most' /\ Least(u)' =< reg'[u]
      <4>1. u # t /\ at[u] = "loaded" /\ reg'[u] = reg[u] /\ turn'[u] = turn[u]
        BY <2>2, <2>3, <3>7
      <4>2. 2 * reg[u] =< Most /\ Least(u) =< reg[u] /\ reg[u] \in Int
        BY <2>4, <4>1 DEF Bounded, Between3, CounterTypeOK
      <4>3. Least(u)' = Least(u)
        BY <1>4, <4>1 DEF Least
      <4> QED BY <1>4, <3>1, <3>2, <3>3, <4>1, <4>2, <4>3
    <3>8. \A u \in Threads : at'[u] \in {"top", "loaded"}
      BY <2>3 DEF Bounded
    <3> QED BY <1>2, <2>4, <3>4, <3>5, <3>6, <3>7, <3>8 DEF Bounded, Between3
  <2>5. CASE program # "thread3"
    BY <1>2, <1>4, <2>1, <2>2, <2>3, <2>5 DEF Bounded, CounterTypeOK, Between4, Addend
  <2> QED BY <2>4, <2>5
<1> QED BY <1>1, <1>6, <1>7, <1>8 DEF Thread

(* At the start, and after a step of any program.                            *)
LEMMA InitCounted == ExInit => Counted
  BY CounterAssumption
     DEF ExInit, CounterInit, Counted, CounterTypeOK, Guarded, Bounded, Between3, Between4,
         Most, Square, Least, Loops, Threads, Free, CounterPrograms

(* Loads, stores, locks and unlocks keep the account of what has been        *)
(* added.                                                                    *)
LEMMA NextCounted ==
  ASSUME Counted, [ExNext]_exVars
  PROVE  Counted'
<1>1. CASE Count /\ Counts
  <2>1. program' = program /\ program \in CounterPrograms
    BY <1>1 DEF Count, Counts
  <2>2. CounterTypeOK'
    BY <1>1, <2>1, NextCounterTypeOK DEF Counted
  <2>3. IF program = "mutex" THEN Guarded' ELSE Bounded'
    BY <1>1, <2>1, NextGuarded, NextBounded DEF Counted
  <2> QED BY <2>1, <2>2, <2>3 DEF Counted
<1>2. CASE UNCHANGED <<program, counterVars>>
  <2>1. UNCHANGED <<program, total, holder, at, turn, reg>>
    BY <1>2 DEF counterVars
  <2>2. Counted' <=> Counted
    BY <2>1 DEF Counted, CounterTypeOK, Guarded, Bounded, Between3, Between4, Most, Least,
                Loops, CounterPrograms
  <2> QED BY <2>2
<1>3. (Count /\ Counts) \/ UNCHANGED <<program, counterVars>>
  BY DEF ExNext, exVars, Alternates, Counts, Calls, Halves, Logging
<1> QED BY <1>1, <1>2, <1>3

-----------------------------------------------------------------------------
(* assign_server.c.  Every visitor is away, in the queue, with its child,    *)
(* or, its child ended, in the log if it was answered.                       *)
Lines == linesOut \o linesIn

AssignTypeOK ==
  /\ will \in [Visitors -> {"asks", "bad", "leaves"}]
  /\ visit \in [Visitors -> {"away", "waiting", "answered", "gone"}]
  /\ queue \in Seq(Visitors)
  /\ clerk \in [Visitors -> {"none", "reads", "answers", "logs", "zombie", "removed"}]
  /\ linesIn \in Seq(Visitors) /\ linesOut \in Seq(Visitors)

InOnePlace ==
  /\ Distinct(queue)
  /\ \A v \in Visitors : Has(queue, v) => clerk[v] = "none" /\ visit[v] # "away"
  /\ \A v \in Visitors : visit[v] = "away" => clerk[v] = "none"
  /\ \A v \in Visitors : clerk[v] \in {"answers", "logs"} => will[v] # "bad"
  /\ \A v \in Visitors : clerk[v] = "logs" => visit[v] # "waiting"

Logged ==
  /\ Distinct(Lines)
  /\ \A v \in Visitors : Has(Lines, v) =>
        clerk[v] \in {"zombie", "removed"} /\ will[v] # "bad" /\ visit[v] \notin {"away", "waiting"}
  /\ \A v \in Visitors : visit[v] = "answered" => clerk[v] = "logs" \/ Has(Lines, v)

Assigned == AssignTypeOK /\ InOnePlace /\ Logged

(* The log by its two parts: a line is put at its end, and the logger's      *)
(* taking the pipe's leaves it as it is.                                     *)
LEMMA LinesGrow ==
  ASSUME NEW S, NEW q \in Seq(S), NEW r \in Seq(S), NEW x \in S
  PROVE  /\ q \o r \in Seq(S)
         /\ q \o Append(r, x) = Append(q \o r, x)
         /\ (q \o r) \o << >> = q \o r
<1>1. q \o r \in Seq(S) /\ <<x>> \in Seq(S) /\ << >> \in Seq(S)
  OBVIOUS
<1>2. Append(r, x) = r \o <<x>> /\ Append(q \o r, x) = (q \o r) \o <<x>>
  BY <1>1, AppendIsConcat
<1>3. (q \o r) \o <<x>> = q \o (r \o <<x>>)
  BY <1>1, ConcatAssociative
<1>4. (q \o r) \o << >> = q \o r
  BY <1>1, ConcatEmptySeq
<1> QED BY <1>1, <1>2, <1>3, <1>4

(* Every step of the server's processes keeps each visitor in one place.     *)
LEMMA NextAssigned ==
  ASSUME Assigned, Everyone
  PROVE  Assigned'
<1>1. AssignTypeOK /\ InOnePlace /\ Logged /\ Lines \in Seq(Visitors)
  BY DEF Assigned, AssignTypeOK, Lines
<1>2. ASSUME NEW v \in Visitors, Arrive(v) PROVE Assigned'
  <2>1. /\ visit[v] = "away" /\ queue' = Append(queue, v)
        /\ visit' = [visit EXCEPT ![v] = IF will[v] = "asks" THEN "waiting" ELSE "gone"]
        /\ UNCHANGED <<will, clerk, linesIn, linesOut>>
    BY <1>2 DEF Arrive
  <2>2. /\ visit' \in [Visitors -> {"away", "waiting", "answered", "gone"}]
        /\ visit'[v] \in {"waiting", "gone"}
        /\ \A u \in Visitors \ {v} : visit'[u] = visit[u]
    BY <1>1, <2>1 DEF AssignTypeOK
  <2>3. ~Has(queue, v) /\ clerk[v] = "none"
    BY <1>1, <2>1 DEF InOnePlace
  <2>4. /\ queue' \in Seq(Visitors) /\ Distinct(queue')
        /\ \A u : Has(queue', u) <=> Has(queue, u) \/ u = v
    BY <1>1, <2>1, <2>3, AppendHas DEF AssignTypeOK, InOnePlace
  <2>5. Lines' = Lines
    BY <2>1 DEF Lines
  <2>6. AssignTypeOK' /\ InOnePlace'
    BY <1>1, <2>1, <2>2, <2>3, <2>4 DEF AssignTypeOK, InOnePlace
  <2>7. Logged'
    BY <1>1, <2>1, <2>2, <2>3, <2>5 DEF Logged
  <2> QED BY <2>6, <2>7 DEF Assigned
<1>3. CASE Assign
  <2> DEFINE h == Head(queue)
  <2>1. /\ queue # << >> /\ queue' = Tail(queue)
        /\ clerk' = [clerk EXCEPT ![h] = "reads"]
        /\ UNCHANGED <<will, visit, linesIn, linesOut>>
    BY <1>3 DEF Assign
  <2>2. /\ queue' \in Seq(Visitors) /\ h \in Visitors
        /\ Distinct(queue') /\ Has(queue, h)
        /\ \A u : Has(queue', u) => Has(queue, u) /\ u # h
    BY <1>1, <2>1, TailHas DEF AssignTypeOK, InOnePlace
  <2> HIDE DEF h
  <2>3. clerk[h] = "none" /\ visit[h] # "away"
    BY <1>1, <2>2 DEF InOnePlace
  <2>4. /\ clerk' \in [Visitors -> {"none", "reads", "answers", "logs", "zombie", "removed"}]
        /\ clerk'[h] = "reads" /\ \A u \in Visitors \ {h} : clerk'[u] = clerk[u]
    BY <1>1, <2>1, <2>2 DEF AssignTypeOK
  <2>5. Lines' = Lines
    BY <2>1 DEF Lines
  <2>6. AssignTypeOK' /\ InOnePlace'
    BY <1>1, <2>1, <2>2, <2>3, <2>4 DEF AssignTypeOK, InOnePlace
  <2>7. Logged'
    BY <1>1, <2>1, <2>2, <2>3, <2>4, <2>5 DEF Logged
  <2> QED BY <2>6, <2>7 DEF Assigned
<1>4. ASSUME NEW v \in Visitors, NEW to \in {"answers", "zombie", "removed"},
             clerk' = [clerk EXCEPT ![v] = to],
             IF to = "removed" THEN clerk[v] = "zombie" ELSE clerk[v] = "reads",
             to = "answers" => will[v] # "bad",
             UNCHANGED <<will, visit, queue, linesIn, linesOut>>
      PROVE  Assigned'
  <2>1. /\ clerk' \in [Visitors -> {"none", "reads", "answers", "logs", "zombie", "removed"}]
        /\ clerk'[v] = to /\ \A u \in Visitors \ {v} : clerk'[u] = clerk[u]
    BY <1>1, <1>4 DEF AssignTypeOK
  <2>2. Lines' = Lines
    BY <1>4 DEF Lines
  <2>3. AssignTypeOK' /\ InOnePlace'
    BY <1>1, <1>4, <2>1 DEF AssignTypeOK, InOnePlace
  <2>4. Logged'
    BY <1>1, <1>4, <2>1, <2>2 DEF Logged
  <2> QED BY <2>3, <2>4 DEF Assigned
<1>5. CASE ReadChildproc
  <2>1. PICK v \in Visitors : clerk[v] = "zombie" /\ clerk' = [clerk EXCEPT ![v] = "removed"]
    BY <1>5 DEF ReadChildproc
  <2>2. UNCHANGED <<will, visit, queue, linesIn, linesOut>>
    BY <1>5 DEF ReadChildproc
  <2> QED BY <1>4, <2>1, <2>2
<1>6. ASSUME NEW v \in Visitors, ClerkReads(v) PROVE Assigned'
  BY <1>4, <1>6 DEF ClerkReads, Steps, Dies
<1>7. ASSUME NEW v \in Visitors, ClerkAnswers(v) PROVE Assigned'
  <2>1. /\ clerk[v] = "answers" /\ clerk' = [clerk EXCEPT ![v] = "logs"]
        /\ visit' = [visit EXCEPT ![v] = IF visit[v] = "waiting" THEN "answered" ELSE visit[v]]
        /\ UNCHANGED <<will, queue, linesIn, linesOut>>
    BY <1>7 DEF ClerkAnswers, Steps
  <2>2. /\ clerk' \in [Visitors -> {"none", "reads", "answers", "logs", "zombie", "removed"}]
        /\ clerk'[v] = "logs" /\ \A u \in Visitors \ {v} : clerk'[u] = clerk[u]
    BY <1>1, <2>1 DEF AssignTypeOK
  <2>3. /\ visit' \in [Visitors -> {"away", "waiting", "answered", "gone"}]
        /\ visit'[v] # "waiting" /\ (visit'[v] = "away" => visit[v] = "away")
        /\ \A u \in Visitors \ {v} : visit'[u] = visit[u]
    BY <1>1, <2>1 DEF AssignTypeOK
  <2>4. Lines' = Lines
    BY <2>1 DEF Lines
  <2>5. AssignTypeOK' /\ InOnePlace'
    BY <1>1, <2>1, <2>2, <2>3 DEF AssignTypeOK, InOnePlace
  <2>6. Logged'
    BY <1>1, <2>1, <2>2, <2>3, <2>4 DEF Logged
  <2> QED BY <2>5, <2>6 DEF Assigned
<1>8. ASSUME NEW v \in Visitors, ClerkLogs(v) PROVE Assigned'
  <2>1. /\ clerk[v] = "logs" /\ clerk' = [clerk EXCEPT ![v] = "zombie"]
        /\ linesIn' = Append(linesIn, v) /\ UNCHANGED <<will, visit, queue, linesOut>>
    BY <1>8 DEF ClerkLogs, Dies
  <2>2. /\ clerk' \in [Visitors -> {"none", "reads", "answers", "logs", "zombie", "removed"}]
        /\ clerk'[v] = "zombie" /\ \A u \in Visitors \ {v} : clerk'[u] = clerk[u]
    BY <1>1, <2>1 DEF AssignTypeOK
  <2>3. Lines' = Append(Lines, v) /\ linesIn' \in Seq(Visitors)
    BY <1>1, <2>1, LinesGrow DEF Lines, AssignTypeOK
  <2>4. ~Has(Lines, v) /\ will[v] # "bad" /\ visit[v] \notin {"away", "waiting"}
    BY <1>1, <2>1 DEF Logged, InOnePlace
  <2>5. Distinct(Lines') /\ \A u : Has(Lines', u) <=> Has(Lines, u) \/ u = v
    BY <1>1, <2>3, <2>4, AppendHas DEF Logged
  <2>6. AssignTypeOK' /\ InOnePlace'
    BY <1>1, <2>1, <2>2, <2>3 DEF AssignTypeOK, InOnePlace
  <2>7. Logged'
    BY <1>1, <2>1, <2>2, <2>4, <2>5 DEF Logged
  <2> QED BY <2>6, <2>7 DEF Assigned
<1>9. CASE LogLines
  <2>1. Lines' = Lines /\ linesOut' \in Seq(Visitors) /\ linesIn' \in Seq(Visitors)
    <3>1. linesOut' = linesOut \o linesIn /\ linesIn' = << >>
      BY <1>9 DEF LogLines
    <3>2. (linesOut \o linesIn) \o << >> = linesOut \o linesIn
      BY <1>1, ConcatEmptySeq DEF Lines
    <3> QED BY <1>1, <3>1, <3>2 DEF Lines
  <2>2. UNCHANGED <<will, visit, queue, clerk>>
    BY <1>9 DEF LogLines
  <2>3. AssignTypeOK' /\ InOnePlace'
    BY <1>1, <2>1, <2>2 DEF AssignTypeOK, InOnePlace
  <2>4. Logged'
    BY <1>1, <2>1, <2>2 DEF Logged
  <2> QED BY <2>3, <2>4 DEF Assigned
<1>10. ASSUME NEW v \in Visitors, Arrive(v) \/ Clerk(v) PROVE Assigned'
  BY <1>2, <1>6, <1>7, <1>8, <1>10 DEF Clerk
<1> QED BY <1>3, <1>5, <1>9, <1>10, Zenon DEF Everyone

(* At the start nobody has come.                                             *)
LEMMA InitAssigned == ExInit => Assigned
<1> SUFFICES ASSUME ExInit PROVE Assigned
  OBVIOUS
<1>1. /\ will \in [Visitors -> {"asks", "bad", "leaves"}]
      /\ visit = [v \in Visitors |-> "away"] /\ clerk = [v \in Visitors |-> "none"]
      /\ queue = << >> /\ linesIn = << >> /\ linesOut = << >>
  BY DEF ExInit, AssignInit
<1>2. Lines = << >>
  BY <1>1 DEF Lines
<1> QED BY <1>1, <1>2 DEF Assigned, AssignTypeOK, InOnePlace, Logged, Distinct, Has

-----------------------------------------------------------------------------
(* All of it together: a step of one program leaves the state of the others  *)
(* as it is.                                                                 *)
ExInv == TakeTurns /\ Counted /\ Assigned

(* The invariant of the small programs.                                      *)
THEOREM ExInductive == ExSpec => []ExInv
<1>1. ExInit => ExInv
  BY InitTakeTurns, InitCounted, InitAssigned DEF ExInit, ExInv
<1>2. ExInv /\ [ExNext]_exVars => ExInv'
  <2> SUFFICES ASSUME ExInv, [ExNext]_exVars PROVE ExInv'
    OBVIOUS
  <2>1. TakeTurns'
    <3>1. [Next]_vars
      BY DEF ExNext, exVars, Alternates, Counts, Calls, Halves, Logging
    <3> QED BY <3>1, NextTakeTurns DEF ExInv
  <2>2. Counted'
    BY NextCounted DEF ExInv
  <2>3. Assigned'
    <3>1. Everyone \/ UNCHANGED assignVars
      BY DEF ExNext, exVars, Alternates, Counts, Calls, Halves, Assigns
    <3>2. CASE UNCHANGED assignVars
      <4>1. UNCHANGED <<will, visit, queue, clerk, linesIn, linesOut>>
        BY <3>2 DEF assignVars
      <4> QED BY <4>1 DEF ExInv, Assigned, AssignTypeOK, InOnePlace, Logged, Lines
    <3> QED BY <3>1, <3>2, NextAssigned DEF ExInv
  <2> QED BY <2>1, <2>2, <2>3 DEF ExInv
<1> QED BY <1>1, <1>2, PTL DEF ExSpec

(* num has one user at a time: with one token, not both threads are between  *)
(* their sem_wait and their sem_post.                                        *)
THEOREM AlternateCorrect == ExSpec => []Alternate
<1>1. ExInv => Alternate
  BY DEF ExInv, TakeTurns, TypeOK, Tokens, Alternate
<1> QED BY <1>1, ExInductive, PTL

(* The sum is right when accu prints it: the reader is not ahead then,       *)
(* because it has no further turn.                                           *)
THEOREM ResultCorrect == ExSpec => []ResultRight
<1>1. ExInv => ResultRight
  BY DEF ExInv, TakeTurns, TypeOK, Tokens, Ahead, ToAdd, ResultRight
<1> QED BY <1>1, ExInductive, PTL

(* mutex.c ends with 0 and its subtracting thread sees all or nothing of the *)
(* additions; thread3.c and thread4.c end between their bounds.              *)
THEOREM CounterCorrect == ExSpec => []CounterRight
<1>1. ASSUME ExInv PROVE CounterRight
  <2>1. CASE program = "mutex"
    <3>1. CounterTypeOK /\ Guarded /\ Loops = Ones
      BY <1>1, <2>1 DEF ExInv, Counted, CounterPrograms, Loops
    <3>2. ASSUME at[1] = "loaded" PROVE reg[1] + turn[1] \in {0, Ones}
      <4>1. holder = 1 /\ at[2] = "top" /\ reg[1] = turn[2] - turn[1]
        BY <3>1, <3>2 DEF Guarded, Threads
      <4> QED BY <3>1, <4>1, CounterAssumption DEF Guarded, CounterTypeOK, Threads
    <3>3. ASSUME Joined PROVE total = 0
      <4>1. \A t \in Threads : turn[t] = Ones
        BY <3>1, <3>3, AddendsAre, CounterAssumption DEF Joined, Ended, More, CounterTypeOK
      <4> QED BY <3>1, <4>1, CounterAssumption DEF Guarded, Threads
    <3> QED BY <2>1, <3>2, <3>3 DEF CounterRight
  <2>2. CASE program = "thread3"
    <3>1. CounterTypeOK /\ Bounded /\ Loops = 5
      BY <1>1, <2>2 DEF ExInv, Counted, CounterPrograms, Loops
    <3>2. ASSUME Joined PROVE 6 + 5 =< total /\ total =< 55
      <4>1. turn[1] = 5 /\ turn[2] = 5
        <5>1. \A t \in Threads : turn[t] = 5
          <6> SUFFICES ASSUME NEW t \in Threads PROVE turn[t] = 5
            OBVIOUS
          <6>1. Len(Addends(t)) = 5 /\ turn[t] \in 0 .. 5
            BY <3>1, AddendsAre DEF CounterTypeOK
          <6>2. ~ (turn[t] < Len(Addends(t)))
            BY <3>2 DEF Joined, Ended, More
          <6> QED BY <6>1, <6>2
        <5> QED BY <5>1 DEF Threads
      <4> QED BY <2>2, <3>1, <4>1 DEF Bounded, Between3, Most, Square, CounterTypeOK
    <3> QED BY <2>2, <3>2 DEF CounterRight
  <2>3. CASE program = "thread4"
    <3>1. CounterTypeOK /\ Bounded /\ Loops = Ones
      BY <1>1, <2>3 DEF ExInv, Counted, CounterPrograms, Loops
    <3>2. -turn[1] =< total /\ total =< turn[2]
      BY <2>3, <3>1 DEF Bounded, Between4
    <3> QED BY <2>3, <3>1, <3>2, CounterAssumption DEF CounterRight, CounterTypeOK, Threads
  <2> QED BY <2>1, <2>2, <2>3 DEF CounterRight
<1> QED BY <1>1, ExInductive, PTL

(* Whoever assign_server answers is logged, once and after the answer; a bad *)
(* count is neither answered nor logged.                                     *)
THEOREM LoggedCorrect == ExSpec => []LoggedOnce
<1>1. ASSUME ExInv PROVE LoggedOnce
  <2>1. AssignTypeOK /\ Logged /\ Lines \in Seq(Visitors)
    BY <1>1 DEF ExInv, Assigned, AssignTypeOK, Lines
  <2>2. \A j, k \in 1 .. Len(Lines) : j # k => Lines[j] # Lines[k]
    BY <2>1 DEF Logged, Distinct
  <2>3. \A k \in 1 .. Len(Lines) : Lines[k] \in Visitors /\ Has(Lines, Lines[k])
    BY <2>1 DEF Has
  <2>4. \A k \in 1 .. Len(Lines) : will[Lines[k]] # "bad" /\ visit[Lines[k]] # "waiting"
    BY <2>1, <2>3 DEF Logged
  <2>5. \A v \in Visitors : visit[v] = "answered" =>
           clerk[v] = "logs" \/ \E k \in 1 .. Len(Lines) : Lines[k] = v
    BY <2>1 DEF Logged, Has
  <2> QED BY <2>2, <2>4, <2>5 DEF LoggedOnce, Lines
<1> QED BY <1>1, ExInductive, PTL

-----------------------------------------------------------------------------
(* No thread waits for what no thread will do.  A thread can go on: it is    *)
(* inside its section, or at a semaphore or a mutex that lets it in.         *)
ReadGoes == rpc # "wait" \/ (ri < Rounds /\ sem_two > 0)
AccuGoes == apc # "wait" \/ (ai < Rounds /\ sem_one > 0)

ThreadGoes(t) ==
  \/ at[t] \in {"loaded", "stored"}
  \/ at[t] = (IF Locks(t) = "never" THEN "top" ELSE "locked") /\ More(t)
  \/ at[t] = "top" /\ holder = Free /\ Locks(t) = "turn" /\ More(t)
  \/ at[t] = "top" /\ holder = Free /\ Locks(t) = "loop" /\ turn[t] = 0

ThreadsGoOn ==
  /\ Finished \/ ReadGoes \/ AccuGoes
  /\ program \in CounterPrograms => Joined \/ \E t \in Threads : ThreadGoes(t)

(* The two semaphores and the mutex never stop all threads: the one token is *)
(* where a thread that has turns left can take it, and who holds the mutex   *)
(* is not waiting for anything.                                              *)
THEOREM ThreadsGoOnCorrect == ExSpec => []ThreadsGoOn
<1>1. ASSUME ExInv PROVE Finished \/ ReadGoes \/ AccuGoes
  BY <1>1, SemaphoreAssumption
     DEF ExInv, TakeTurns, TypeOK, Tokens, Ahead, Finished, ReadGoes, AccuGoes
<1>2. ASSUME ExInv, program \in CounterPrograms, \A t \in Threads : ~ThreadGoes(t)
      PROVE  Joined
  <2>1. CounterTypeOK
    BY <1>2 DEF ExInv, Counted
  <2>2. \A t \in Threads : /\ turn[t] \in 0 .. Loops /\ Len(Addends(t)) = Loops /\ Loops \in Nat \ {0}
                           /\ at[t] \in {"top", "locked", "loaded", "stored"}
                           /\ at[t] = "locked" => turn[t] < Loops
    BY <2>1, AddendsAre DEF CounterTypeOK
  <2>3. CASE program = "mutex"
    <3>1. Guarded /\ Loops = Ones
      BY <1>2, <2>3 DEF ExInv, Counted, Loops
    <3>2. Locks(1) = "turn" /\ Locks(2) = "loop"
      BY <2>3 DEF Locks
    <3>3. at[1] = "top" /\ at[2] = "top"
      BY <1>2, <2>2, <3>2 DEF ThreadGoes, More, Threads
    <3>4. holder = Free /\ turn[2] \in {0, Ones}
      BY <2>1, <3>1, <3>3 DEF Guarded, Threads, Free, CounterTypeOK
    <3>5. ~More(1) /\ ~More(2)
      BY <1>2, <2>2, <3>1, <3>2, <3>3, <3>4 DEF ThreadGoes, More, Threads
    <3> QED BY <3>3, <3>5 DEF Joined, Ended, Threads
  <2>4. CASE program # "mutex"
    <3>1. \A t \in Threads : at[t] \in {"top", "loaded"} /\ Locks(t) = "never"
      BY <1>2, <2>4 DEF ExInv, Counted, Bounded, Locks
    <3> QED BY <1>2, <3>1 DEF Joined, Ended, ThreadGoes
  <2> QED BY <2>3, <2>4
<1>3. ExInv => ThreadsGoOn
  BY <1>1, <1>2 DEF ThreadsGoOn
<1> QED BY <1>3, ExInductive, PTL

-----------------------------------------------------------------------------
(* The programs of processes.  What each process calls, by number: the name  *)
(* of the call and its arguments.                                            *)
LEMMA Fields ==
  /\ \A x : Forks(x)[1] = "fork" /\ Forks(x)[2] = x
  /\ \A x : Sleeps(x)[1] = "sleep" /\ Sleeps(x)[2] = x
  /\ \A x : Polls(x)[1] = "poll" /\ Polls(x)[2] = x
  /\ \A x : Reads(x)[1] = "read" /\ Reads(x)[2] = x
  /\ \A x : Alarms(x)[1] = "alarm" /\ Alarms(x)[2] = x
  /\ \A x, y : Writes(x, y)[1] = "write" /\ Writes(x, y)[2] = x /\ Writes(x, y)[3] = y
  /\ Waits[1] = "wait" /\ Joins[1] = "join" /\ Puts[1] = "puts"
BY DEF Forks, Sleeps, Waits, Joins, Puts, Polls, Writes, Reads, Alarms

(* n times the one call.                                                     *)
LEMMA TimesOne ==
  ASSUME NEW n \in Nat, NEW x
  PROVE  Times(n, <<x>>) = [i \in 1 .. n |-> x]
<1>1. Len(<<x>>) = 1 /\ <<x>>[1] = x
  OBVIOUS
<1>2. n * Len(<<x>>) = n /\ \A i \in 1 .. n : 1 + ((i - 1) % 1) = 1
  BY <1>1
<1> QED BY <1>1, <1>2 DEF Times

(* The five turns of the threads: every other call is a sleep.               *)
LEMMA TimesTwo ==
  ASSUME NEW x, NEW y
  PROVE  Times(5, <<x, y>>) = [i \in 1 .. 10 |-> IF i \in {1, 3, 5, 7, 9} THEN x ELSE y]
<1>1. Len(<<x, y>>) = 2 /\ <<x, y>>[1] = x /\ <<x, y>>[2] = y
  OBVIOUS
<1>2. 5 * Len(<<x, y>>) = 10
        /\ \A i \in 1 .. 10 : 1 + ((i - 1) % 2) = IF i \in {1, 3, 5, 7, 9} THEN 1 ELSE 2
  BY <1>1
<1> QED BY <1>1, <1>2 DEF Times

(* A text that begins with the calls a and goes on with n times x.           *)
LEMMA Repeated ==
  ASSUME NEW a, NEW n \in Nat, NEW x, NEW m \in Nat, Len(a) = m, a = [i \in 1 .. m |-> a[i]]
  PROVE  /\ Len(a \o Times(n, <<x>>)) = m + n
         /\ \A k \in 1 .. m : (a \o Times(n, <<x>>))[k] = a[k]
         /\ \A k \in m + 1 .. m + n : (a \o Times(n, <<x>>))[k] = x
<1> DEFINE b == Times(n, <<x>>)
           S == {a[i] : i \in 1 .. m} \cup {x}
<1>1. b = [i \in 1 .. n |-> x]
  BY TimesOne
<1>2. a \in Seq(S) /\ Len(a) = m
  <2>1. \A i \in 1 .. m : a[i] \in S
    OBVIOUS
  <2> HIDE DEF S
  <2>2. [i \in 1 .. m |-> a[i]] \in Seq(S) /\ Len([i \in 1 .. m |-> a[i]]) = m
    BY <2>1
  <2> QED BY <2>2
<1>3. b \in Seq(S) /\ Len(b) = n
  <2>1. x \in S
    OBVIOUS
  <2> HIDE DEF S
  <2>2. [i \in 1 .. n |-> x] \in Seq(S) /\ Len([i \in 1 .. n |-> x]) = n
    BY <2>1
  <2> QED BY <1>1, <2>2
<1> HIDE DEF b, S
<1>4. /\ Len(a \o b) = m + n /\ \A k \in 1 .. m : (a \o b)[k] = a[k]
      /\ \A k \in 1 .. n : (a \o b)[m + k] = b[k]
  BY <1>2, <1>3, Concatenated
<1>5. ASSUME NEW k \in m + 1 .. m + n PROVE (a \o b)[k] = x
  <2>1. k - m \in 1 .. n /\ m + (k - m) = k
    OBVIOUS
  <2> QED BY <1>1, <1>4, <2>1
<1> QED BY <1>4, <1>5 DEF b

(* The three parts of a program are its processes.                           *)
LEMMA TextIs ==
  ASSUME NEW a, NEW b, NEW c, Text = With(a, b, c)
  PROVE  Text["parent"] = a /\ Text["one"] = b /\ Text["two"] = c
BY DEF With, Nothing, Procs, Children

(* The calls of wait.c.                                                      *)
LEMMA TextWait ==
  ASSUME program = "wait"
  PROVE  /\ Len(Text["parent"]) = 5
         /\ Text["parent"][1][1] = "fork" /\ Text["parent"][1][2] = "one"
         /\ Text["parent"][2][1] = "fork" /\ Text["parent"][2][2] = "two"
         /\ Text["parent"][3][1] = "wait"
         /\ Text["parent"][4][1] = "wait"
         /\ Text["parent"][5][1] = "sleep" /\ Text["parent"][5][2] = 30
         /\ Len(Text["one"]) = 0
         /\ Len(Text["two"]) = 0
<1>1. Text = wait
  BY DEF Text
<1>2. /\ Text["parent"] = <<Forks("one"), Forks("two"), Waits, Waits, Sleeps(30)>>
      /\ Text["one"] = << >> /\ Text["two"] = << >>
  BY <1>1, TextIs DEF wait
<1>3. /\ Len(Text["parent"]) = 5 /\ Text["parent"][1] = Forks("one")
      /\ Text["parent"][2] = Forks("two") /\ Text["parent"][3] = Waits
      /\ Text["parent"][4] = Waits /\ Text["parent"][5] = Sleeps(30)
      /\ Len(Text["one"]) = 0
      /\ Len(Text["two"]) = 0
  BY <1>2
<1> HIDE DEF Text
<1> QED BY ONLY <1>3, Fields

(* The calls of waitpid.c.                                                   *)
LEMMA TextWaitpid ==
  ASSUME program = "waitpid"
  PROVE  /\ Len(Text["parent"]) = 2
         /\ Text["parent"][1][1] = "fork" /\ Text["parent"][1][2] = "one"
         /\ Text["parent"][2][1] = "poll" /\ Text["parent"][2][2] = 3
         /\ Len(Text["one"]) = 1
         /\ Text["one"][1][1] = "sleep" /\ Text["one"][1][2] = 15
         /\ Len(Text["two"]) = 0
<1>1. Text = waitpid
  BY DEF Text
<1>2. /\ Text["parent"] = <<Forks("one"), Polls(3)>>
      /\ Text["one"] = <<Sleeps(15)>> /\ Text["two"] = << >>
  BY <1>1, TextIs DEF waitpid
<1>3. /\ Len(Text["parent"]) = 2 /\ Text["parent"][1] = Forks("one") /\ Text["parent"][2] = Polls(3)
      /\ Len(Text["one"]) = 1 /\ Text["one"][1] = Sleeps(15)
      /\ Len(Text["two"]) = 0
  BY <1>2
<1> HIDE DEF Text
<1> QED BY ONLY <1>3, Fields

(* The calls of zombie.c.                                                    *)
LEMMA TextZombie ==
  ASSUME program = "zombie"
  PROVE  /\ Len(Text["parent"]) = 2
         /\ Text["parent"][1][1] = "fork" /\ Text["parent"][1][2] = "one"
         /\ Text["parent"][2][1] = "sleep" /\ Text["parent"][2][2] = 30
         /\ Len(Text["one"]) = 0
         /\ Len(Text["two"]) = 0
<1>1. Text = zombie
  BY DEF Text
<1>2. /\ Text["parent"] = <<Forks("one"), Sleeps(30)>>
      /\ Text["one"] = << >> /\ Text["two"] = << >>
  BY <1>1, TextIs DEF zombie
<1>3. /\ Len(Text["parent"]) = 2 /\ Text["parent"][1] = Forks("one")
      /\ Text["parent"][2] = Sleeps(30)
      /\ Len(Text["one"]) = 0
      /\ Len(Text["two"]) = 0
  BY <1>2
<1> HIDE DEF Text
<1> QED BY ONLY <1>3, Fields

(* The calls of pipe1.c.                                                     *)
LEMMA TextPipeOne ==
  ASSUME program = "pipe1"
  PROVE  /\ Len(Text["parent"]) = 2
         /\ Text["parent"][1][1] = "fork" /\ Text["parent"][1][2] = "one"
         /\ Text["parent"][2][1] = "read" /\ Text["parent"][2][2] = 1
         /\ Len(Text["one"]) = 1
         /\ Text["one"][1][1] = "write" /\ Text["one"][1][2] = 1 /\ Text["one"][1][3] = "who"
         /\ Len(Text["two"]) = 0
<1>1. Text = pipe1
  BY DEF Text
<1>2. /\ Text["parent"] = <<Forks("one"), Reads(1)>>
      /\ Text["one"] = <<Writes(1, "who")>> /\ Text["two"] = << >>
  BY <1>1, TextIs DEF pipe1
<1>3. /\ Len(Text["parent"]) = 2 /\ Text["parent"][1] = Forks("one") /\ Text["parent"][2] = Reads(1)
      /\ Len(Text["one"]) = 1 /\ Text["one"][1] = Writes(1, "who")
      /\ Len(Text["two"]) = 0
  BY <1>2
<1> HIDE DEF Text
<1> QED BY ONLY <1>3, Fields

(* The calls of pipe2.c.                                                     *)
LEMMA TextPipeTwo ==
  ASSUME program = "pipe2"
  PROVE  /\ Len(Text["parent"]) = 4
         /\ Text["parent"][1][1] = "fork" /\ Text["parent"][1][2] = "one"
         /\ Text["parent"][2][1] = "read" /\ Text["parent"][2][2] = 1
         /\ Text["parent"][3][1] = "write" /\ Text["parent"][3][2] = 1 /\ Text["parent"][3][3] = "thanks"
         /\ Text["parent"][4][1] = "sleep" /\ Text["parent"][4][2] = 3
         /\ Len(Text["one"]) = 3
         /\ Text["one"][1][1] = "write" /\ Text["one"][1][2] = 1 /\ Text["one"][1][3] = "who"
         /\ Text["one"][2][1] = "sleep" /\ Text["one"][2][2] = 2
         /\ Text["one"][3][1] = "read" /\ Text["one"][3][2] = 1
         /\ Len(Text["two"]) = 0
<1>1. Text = pipe2
  BY DEF Text
<1>2. /\ Text["parent"] = <<Forks("one"), Reads(1), Writes(1, "thanks"), Sleeps(3)>>
      /\ Text["one"] = <<Writes(1, "who"), Sleeps(2), Reads(1)>> /\ Text["two"] = << >>
  BY <1>1, TextIs DEF pipe2
<1>3. /\ Len(Text["parent"]) = 4 /\ Text["parent"][1] = Forks("one")
      /\ Text["parent"][2] = Reads(1) /\ Text["parent"][3] = Writes(1, "thanks")
      /\ Text["parent"][4] = Sleeps(3)
      /\ Len(Text["one"]) = 3 /\ Text["one"][1] = Writes(1, "who") /\ Text["one"][2] = Sleeps(2)
      /\ Text["one"][3] = Reads(1)
      /\ Len(Text["two"]) = 0
  BY <1>2
<1> HIDE DEF Text
<1> QED BY ONLY <1>3, Fields

(* The calls of pipe3.c.                                                     *)
LEMMA TextPipeThree ==
  ASSUME program = "pipe3"
  PROVE  /\ Len(Text["parent"]) = 4
         /\ Text["parent"][1][1] = "fork" /\ Text["parent"][1][2] = "one"
         /\ Text["parent"][2][1] = "read" /\ Text["parent"][2][2] = 1
         /\ Text["parent"][3][1] = "write" /\ Text["parent"][3][2] = 2 /\ Text["parent"][3][3] = "thanks"
         /\ Text["parent"][4][1] = "sleep" /\ Text["parent"][4][2] = 3
         /\ Len(Text["one"]) = 2
         /\ Text["one"][1][1] = "write" /\ Text["one"][1][2] = 1 /\ Text["one"][1][3] = "who"
         /\ Text["one"][2][1] = "read" /\ Text["one"][2][2] = 2
         /\ Len(Text["two"]) = 0
<1>1. Text = pipe3
  BY DEF Text
<1>2. /\ Text["parent"] = <<Forks("one"), Reads(1), Writes(2, "thanks"), Sleeps(3)>>
      /\ Text["one"] = <<Writes(1, "who"), Reads(2)>> /\ Text["two"] = << >>
  BY <1>1, TextIs DEF pipe3
<1>3. /\ Len(Text["parent"]) = 4 /\ Text["parent"][1] = Forks("one")
      /\ Text["parent"][2] = Reads(1) /\ Text["parent"][3] = Writes(2, "thanks")
      /\ Text["parent"][4] = Sleeps(3)
      /\ Len(Text["one"]) = 2 /\ Text["one"][1] = Writes(1, "who") /\ Text["one"][2] = Reads(2)
      /\ Len(Text["two"]) = 0
  BY <1>2
<1> HIDE DEF Text
<1> QED BY ONLY <1>3, Fields

(* The calls of remove_zombie.c.                                             *)
LEMMA TextRemove ==
  ASSUME program = "remove_zombie"
  PROVE  /\ Len(Text["parent"]) = 7
         /\ Text["parent"][1][1] = "fork" /\ Text["parent"][1][2] = "one"
         /\ Text["parent"][2][1] = "fork" /\ Text["parent"][2][2] = "two"
         /\ \A k \in 3 .. 7 : Text["parent"][k][1] = "sleep" /\ Text["parent"][k][2] = 5
         /\ \A c \in Children : /\ Len(Text[c]) = 1
                                /\ Text[c][1][1] = "sleep" /\ Text[c][1][2] = 10
<1>1. Text = remove_zombie
  BY DEF Text
<1>2. /\ Text["parent"] = <<Forks("one"), Forks("two")>> \o Times(5, <<Sleeps(5)>>)
      /\ \A c \in Children : Text[c] = <<Sleeps(10)>>
  BY <1>1, TextIs DEF remove_zombie, Children
<1>3. \A c \in Children : Len(Text[c]) = 1 /\ Text[c][1] = Sleeps(10)
  BY <1>2
<1>4. /\ Len(Text["parent"]) = 7
      /\ \A k \in 1 .. 2 : Text["parent"][k] = <<Forks("one"), Forks("two")>>[k]
      /\ \A k \in 3 .. 7 : Text["parent"][k] = Sleeps(5)
  <2> DEFINE a == <<Forks("one"), Forks("two")>>
             x == Sleeps(5)
             m == 2
             n == 5
  <2>1. /\ m \in Nat /\ n \in Nat /\ m + n = 7 /\ m + 1 = 3
        /\ Len(a) = m /\ a = [i \in 1 .. m |-> a[i]]
    OBVIOUS
  <2> HIDE DEF Text, a, x, m, n
  <2>2. /\ Len(a \o Times(n, <<x>>)) = m + n
        /\ \A k \in 1 .. m : (a \o Times(n, <<x>>))[k] = a[k]
        /\ \A k \in m + 1 .. m + n : (a \o Times(n, <<x>>))[k] = x
    BY <2>1, Repeated
  <2> QED BY <1>2, <2>1, <2>2 DEF a, x, m, n
<1>5. Text["parent"][1] = Forks("one") /\ Text["parent"][2] = Forks("two")
  BY <1>4
<1> HIDE DEF Text
<1> QED BY ONLY <1>3, <1>4, <1>5, Fields

(* The calls of thread1.c and thread2.c.                                     *)
LEMMA TextThread ==
  ASSUME HasThreads
  PROVE  /\ Len(Text["parent"]) = 2
         /\ Text["parent"][1][1] = "fork" /\ Text["parent"][1][2] = "one"
         /\ program = "thread1" => Text["parent"][2][1] = "sleep" /\ Text["parent"][2][2] = 10
         /\ program = "thread2" => Text["parent"][2][1] = "join"
         /\ Len(Text["one"]) = 10
         /\ \A k \in {1, 3, 5, 7, 9} : Text["one"][k][1] = "sleep" /\ Text["one"][k][2] = 1
         /\ \A k \in {2, 4, 6, 8, 10} : Text["one"][k][1] = "puts"
         /\ Len(Text["two"]) = 0
<1> DEFINE w == IF program = "thread1" THEN Sleeps(10) ELSE Joins
<1>1. program \in {"thread1", "thread2"}
  BY DEF HasThreads
<1>2. /\ Text["parent"] = <<Forks("one"), w>> /\ Text["two"] = << >>
      /\ Text["one"] = Times(5, <<Sleeps(1), Puts>>)
  <2>1. CASE program = "thread1"
    <3>1. Text = thread1
      BY <2>1 DEF Text
    <3> QED BY <2>1, <3>1, TextIs DEF thread1
  <2>2. CASE program = "thread2"
    <3>1. Text = thread2
      BY <2>2 DEF Text
    <3> QED BY <2>2, <3>1, TextIs DEF thread2
  <2> QED BY <1>1, <2>1, <2>2
<1>3. /\ Len(Text["parent"]) = 2 /\ Len(Text["two"]) = 0
      /\ Text["parent"][1] = Forks("one") /\ Text["parent"][2] = w
  BY <1>2
<1>4. /\ Len(Text["one"]) = 10
      /\ \A k \in 1 .. 10 : Text["one"][k] = IF k \in {1, 3, 5, 7, 9} THEN Sleeps(1) ELSE Puts
  <2> HIDE DEF Text
  <2>1. Text["one"] = [i \in 1 .. 10 |-> IF i \in {1, 3, 5, 7, 9} THEN Sleeps(1) ELSE Puts]
    BY <1>2, TimesTwo
  <2> QED BY <2>1
<1> HIDE DEF Text
<1>5. /\ \A k \in {1, 3, 5, 7, 9} : Text["one"][k] = Sleeps(1)
      /\ \A k \in {2, 4, 6, 8, 10} : Text["one"][k] = Puts
  BY ONLY <1>4
<1> QED BY <1>3, <1>4, <1>5, Fields

(* The calls of signal.c and sigaction.c.                                    *)
LEMMA TextSignal ==
  ASSUME program \in {"signal", "sigaction"}
  PROVE  /\ Len(Text["parent"]) = 4
         /\ Text["parent"][1][1] = "alarm" /\ Text["parent"][1][2] = 2
         /\ \A k \in 2 .. 4 : Text["parent"][k][1] = "sleep" /\ Text["parent"][k][2] = 100
         /\ \A c \in Children : Len(Text[c]) = 0
<1>1. Text = IF program = "signal" THEN signal ELSE sigaction
  BY DEF Text
<1>2. /\ Text["parent"] = <<Alarms(2)>> \o Times(3, <<Sleeps(100)>>)
      /\ \A c \in Children : Text[c] = << >>
  <2>1. Text = With(<<Alarms(2)>> \o Times(3, <<Sleeps(100)>>), << >>, << >>)
    BY <1>1 DEF signal, sigaction
  <2> HIDE DEF Text
  <2> QED BY <2>1, TextIs DEF Children
<1>3. \A c \in Children : Len(Text[c]) = 0
  BY <1>2
<1>4. /\ Len(Text["parent"]) = 4
      /\ \A k \in 1 .. 1 : Text["parent"][k] = <<Alarms(2)>>[k]
      /\ \A k \in 2 .. 4 : Text["parent"][k] = Sleeps(100)
  <2> DEFINE a == <<Alarms(2)>>
             x == Sleeps(100)
             m == 1
             n == 3
  <2>1. /\ m \in Nat /\ n \in Nat /\ m + n = 4 /\ m + 1 = 2
        /\ Len(a) = m /\ a = [i \in 1 .. m |-> a[i]]
    OBVIOUS
  <2> HIDE DEF Text, a, x, m, n
  <2>2. /\ Len(a \o Times(n, <<x>>)) = m + n
        /\ \A k \in 1 .. m : (a \o Times(n, <<x>>))[k] = a[k]
        /\ \A k \in m + 1 .. m + n : (a \o Times(n, <<x>>))[k] = x
    BY <2>1, Repeated
  <2> QED BY <1>2, <2>1, <2>2 DEF a, x, m, n
<1>5. Text["parent"][1] = Alarms(2)
  BY <1>4
<1> HIDE DEF Text
<1> QED BY ONLY <1>3, <1>4, <1>5, Fields

-----------------------------------------------------------------------------
(* What is kept of every program: who there is, and what his state can be.   *)
States == {"unborn", "runs", "sleeps", "zombie", "removed", "gone"}

ProcShape ==
  /\ pc \in [Procs -> Nat] /\ state \in [Procs -> States]
  /\ wake = [p \in Procs |-> wake[p]] /\ printed = [p \in Procs |-> printed[p]]
  /\ pipe = [i \in 1 .. 2 |-> pipe[i]]

(* An EXCEPT of a function is a function of the same domain.                 *)
LEMMA Excepted ==
  ASSUME NEW S, NEW f, f = [x \in S |-> f[x]], NEW a, NEW e
  PROVE  [f EXCEPT ![a] = e] = [x \in S |-> [f EXCEPT ![a] = e][x]]
OBVIOUS

(* Every call, handler and tick keeps who there is.                          *)
LEMMA ShapeKept ==
  ASSUME ProcShape, Runs \/ Types \/ UNCHANGED procVars
  PROVE  ProcShape'
<1> DEFINE T(f) == f = [p \in Procs |-> f[p]]
           O(f) == f = [i \in 1 .. 2 |-> f[i]]
<1>0. /\ pc \in [Procs -> Nat] /\ state \in [Procs -> States] /\ T(wake) /\ T(printed) /\ O(pipe)
  BY DEF ProcShape
<1>1. "runs" \in States /\ "sleeps" \in States /\ "removed" \in States
      /\ "zombie" \in States /\ "gone" \in States
  BY DEF States
<1> SUFFICES /\ pc' \in [Procs -> Nat] /\ state' \in [Procs -> States]
             /\ T(wake)' /\ T(printed)' /\ O(pipe)'
  BY DEF ProcShape
<1>2. \A f : T(f) => \A a, e : T([f EXCEPT ![a] = e])
  BY Excepted
<1>3. \A f : O(f) => \A a, e : O([f EXCEPT ![a] = e])
  BY Excepted
<1> HIDE DEF T, O, ProcShape, States
<1>4. \A f \in [Procs -> States] : \A a : \A e \in States : [f EXCEPT ![a] = e] \in [Procs -> States]
  OBVIOUS
<1>5. ASSUME NEW p \in Procs, Process(p)
      PROVE  /\ pc' \in [Procs -> Nat] /\ state' \in [Procs -> States]
             /\ T(wake') /\ T(printed') /\ O(pipe')
  <2>1. Done(p) \/ pc' = pc => pc' \in [Procs -> Nat]
    BY <1>0 DEF Done
  <2> HIDE DEF Done
  <2>2. CASE DoFork(p)  BY <1>0, <1>1, <1>4, <2>1, <2>2 DEF DoFork
  <2>3. CASE DoSleep(p)  BY <1>0, <1>1, <1>2, <1>4, <2>1, <2>3 DEF DoSleep, Becomes
  <2>4. CASE WakeUp(p)  BY <1>0, <1>1, <1>4, <2>1, <2>4 DEF WakeUp, Becomes
  <2>5. CASE DoWait(p)  BY <1>0, <1>1, <1>4, <2>1, <2>5 DEF DoWait, Becomes
  <2>6. CASE DoPoll(p)  BY <1>0, <1>1, <1>2, <1>4, <2>1, <2>6 DEF DoPoll, Becomes
  <2>7. CASE DoJoin(p)  BY <1>0, <2>1, <2>7 DEF DoJoin
  <2>8. CASE DoWrite(p)  BY <1>0, <1>3, <2>1, <2>8 DEF DoWrite
  <2>9. CASE DoRead(p)  BY <1>0, <1>2, <1>3, <2>1, <2>9 DEF DoRead
  <2>10. CASE DoPuts(p)  BY <1>0, <1>2, <2>1, <2>10 DEF DoPuts
  <2>11. CASE DoAlarm(p)  BY <1>0, <2>1, <2>11 DEF DoAlarm
  <2>12. CASE Exit(p)  BY <1>0, <1>1, <2>1, <2>12 DEF Exit
  <2> QED BY <1>5, <2>2, <2>3, <2>4, <2>5, <2>6, <2>7, <2>8, <2>9, <2>10, <2>11, <2>12 DEF Process
<1>6. CASE read_childproc
  BY <1>0, <1>1, <1>4, <1>6 DEF read_childproc
<1>7. CASE timeout
  BY <1>0, <1>1, <1>2, <1>4, <1>7 DEF timeout, Becomes
<1>8. CASE keycontrol \/ Ring \/ Tick \/ Press \/ UNCHANGED procVars
  BY <1>0, <1>1, <1>4, <1>8 DEF keycontrol, Becomes, Ring, Tick, Press, procVars
<1> QED BY <1>5, <1>6, <1>7, <1>8 DEF Runs, Types, Now

(* The clock moves on when nobody has anything to do, and past nothing that  *)
(* is due.                                                                   *)
LEMMA Ticks ==
  ASSUME Tick
  PROVE  /\ \A p \in Procs : Blocked(p)
         /\ \A p \in Procs : state[p] = "sleeps" => clock' =< wake[p]
         /\ Alive("parent") => pending = {}
         /\ alarm # 0 => clock' =< alarm
         /\ clock' > clock
         /\ (\E p \in Procs : state[p] = "sleeps" /\ clock' = wake[p]) \/ (alarm # 0 /\ clock' = alarm)
         /\ UNCHANGED <<pc, state, wake, pending, alarm, pipe, printed, keys>>
BY DEF Tick, Idle, Due

(* Who is at a call is in his program, at that place.                        *)
LEMMA AtCall ==
  ASSUME ProcShape, NEW p \in Procs, NEW op, At(p, op)
  PROVE  /\ state[p] = "runs" /\ pc[p] \in 0 .. Len(Text[p]) - 1
         /\ Text[p][pc[p] + 1][1] = op
BY DEF At, Call, ProcShape

(* What the end of a process changes.                                        *)
LEMMA Exits ==
  ASSUME ProcShape, NEW p \in Procs, Exit(p)
  PROVE  /\ state[p] = "runs" /\ pc[p] = Len(Text[p])
         /\ state'[p] = IF p \in Children /\ ~HasThreads /\ Alive("parent") THEN "zombie" ELSE "gone"
         /\ \A q \in Procs \ {p} :
              state'[q] = IF p = "parent" /\ HasThreads THEN "gone" ELSE state[q]
         /\ program # "remove_zombie" => pending' = pending
         /\ alarm' = IF p = "parent" THEN 0 ELSE alarm
         /\ UNCHANGED <<clock, pc, wake, pipe, printed, keys>>
<1>1. /\ p \in {"one", "two", "parent"} /\ Procs = {"one", "two", "parent"}
      /\ Children = {"one", "two"}
  BY DEF Procs, Children
<1> HIDE DEF Procs, Children, Text
<1> DEFINE end  == IF p \in Children /\ ~HasThreads /\ Alive("parent") THEN "zombie" ELSE "gone"
           ends == IF p = "parent" /\ HasThreads THEN Procs ELSE {p}
<1>2. /\ state' = [q \in Procs |-> IF q \in ends THEN end ELSE state[q]]
      /\ state[p] = "runs" /\ pc[p] = Len(Text[p])
      /\ program # "remove_zombie" => pending' = pending
      /\ alarm' = IF p = "parent" THEN 0 ELSE alarm
      /\ UNCHANGED <<clock, pc, wake, pipe, printed, keys>>
  BY DEF Exit
<1> HIDE DEF end
<1>3. state'[p] = end
  BY <1>1, <1>2
<1>4. \A q \in Procs \ {p} : state'[q] = IF p = "parent" /\ HasThreads THEN "gone" ELSE state[q]
  BY <1>1, <1>2 DEF end
<1> QED BY <1>2, <1>3, <1>4 DEF end

(* Who runs and is blocked is at a wait, a join or a read.                   *)
LEMMA Busy ==
  ASSUME ProcShape, NEW p \in Procs, Blocked(p), state[p] = "runs"
  PROVE  /\ pc[p] \in 0 .. Len(Text[p]) - 1
         /\ \/ Text[p][pc[p] + 1][1] = "wait"
            \/ Text[p][pc[p] + 1][1] = "join" /\ state["one"] # "gone"
            \/ Text[p][pc[p] + 1][1] = "read" /\ pipe[Text[p][pc[p] + 1][2]] = << >>
BY DEF Blocked, Alive, At, Call, ProcShape

-----------------------------------------------------------------------------
(* wait.c: each wait removes one child.                                      *)
WaitInv ==
  /\ pending = {} /\ alarm = 0 /\ pc["parent"] \in 0 .. 5
  /\ state["parent"] \in {"runs", "sleeps", "gone"}
  /\ state["parent"] = "gone" => pc["parent"] = 5
  /\ \A c \in Children : state[c] \in {"unborn", "runs", "zombie", "removed"}
  /\ pc["parent"] = 0 => state["one"] = "unborn" /\ state["two"] = "unborn"
  /\ pc["parent"] = 1 => state["one"] \in {"runs", "zombie"} /\ state["two"] = "unborn"
  /\ pc["parent"] = 2 => \A c \in Children : state[c] \in {"runs", "zombie"}
  /\ pc["parent"] = 3 => \/ state["one"] = "removed" /\ state["two"] \in {"runs", "zombie"}
                         \/ state["two"] = "removed" /\ state["one"] \in {"runs", "zombie"}
  /\ pc["parent"] >= 4 => state["one"] = "removed" /\ state["two"] = "removed"

(* wait.c: every step keeps it.                                              *)
LEMMA WaitKeeps ==
  ASSUME program = "wait", ProcShape, WaitInv, Runs \/ Types
  PROVE  WaitInv'
<1> HIDE DEF Text
<1>1. /\ pc \in [Procs -> Nat] /\ state \in [Procs -> States] /\ ~HasThreads
      /\ Procs = {"one", "two", "parent"} /\ Children = {"one", "two"}
  BY DEF ProcShape, HasThreads, Procs, Children
<1>2. ASSUME NEW p \in Procs, NEW op, At(p, op)
      PROVE  /\ p = "parent" /\ state[p] = "runs"
             /\ pc[p] \in 0 .. 1 => op = "fork"
             /\ pc[p] \in 2 .. 3 => op = "wait"
             /\ pc[p] = 4 => op = "sleep"
             /\ pc[p] < 5
  <2>1. state[p] = "runs" /\ pc[p] \in 0 .. Len(Text[p]) - 1 /\ Text[p][pc[p] + 1][1] = op
    BY <1>2, AtCall
  <2>2. p = "parent" /\ pc[p] \in 0 .. 4
    <3>1. p # "one"
      BY <2>1, TextWait
    <3>2. p # "two"
      BY <2>1, TextWait
    <3>3. p = "parent"
      BY <1>1, <3>1, <3>2
    <3>4. Len(Text["parent"]) = 5
      BY TextWait
    <3> QED BY <2>1, <3>3, <3>4
  <2> QED BY <2>1, <2>2, TextWait
<1>3. ASSUME NEW p \in Procs, Process(p) PROVE WaitInv'
  <2>1. CASE DoFork(p)
    BY <1>1, <1>2, <2>1, TextWait DEF DoFork, Call, Done, WaitInv
  <2>2. CASE DoSleep(p)
    BY <1>1, <1>2, <2>2 DEF DoSleep, Done, Becomes, WaitInv
  <2>3. CASE WakeUp(p)
    BY <1>1, <2>3 DEF WakeUp, Becomes, WaitInv
  <2>4. CASE DoWait(p)
    BY <1>1, <1>2, <2>4 DEF DoWait, Done, Becomes, Zombies, WaitInv
  <2>5. CASE Exit(p)
    BY <1>1, <2>5, TextWait, Exits DEF Alive, WaitInv
  <2>6. ASSUME NEW op \in {"poll", "join", "write", "read", "puts", "alarm"}, At(p, op) PROVE FALSE
    BY <1>1, <1>2, <2>6 DEF WaitInv
  <2> QED BY <1>3, <2>1, <2>2, <2>3, <2>4, <2>5, <2>6
          DEF Process, DoPoll, DoJoin, DoWrite, DoRead, DoPuts, DoAlarm
<1>4. CASE Tick
  BY <1>4, Ticks DEF WaitInv
<1> QED BY <1>3, <1>4 DEF Runs, Types, Now, read_childproc, timeout, keycontrol, Ring, Press, WaitInv

(* waitpid.c: the loop ends when it has removed the child.                   *)
WaitpidInv ==
  /\ pending = {} /\ alarm = 0 /\ pc["parent"] \in 0 .. 2
  /\ state["parent"] \in {"runs", "sleeps", "gone"}
  /\ state["parent"] = "gone" => pc["parent"] = 2
  /\ pc["parent"] = 0 => state["one"] = "unborn"
  /\ pc["parent"] = 1 => state["one"] \in {"runs", "sleeps", "zombie"}
  /\ pc["parent"] = 2 => state["one"] = "removed"
  /\ state["two"] = "unborn"

(* waitpid.c: every step keeps it.                                           *)
LEMMA WaitpidKeeps ==
  ASSUME program = "waitpid", ProcShape, WaitpidInv, Runs \/ Types
  PROVE  WaitpidInv'
<1> HIDE DEF Text
<1>1. /\ pc \in [Procs -> Nat] /\ state \in [Procs -> States] /\ ~HasThreads
      /\ Procs = {"one", "two", "parent"} /\ Children = {"one", "two"}
  BY DEF ProcShape, HasThreads, Procs, Children
<1>2. ASSUME NEW p \in Procs, NEW op, At(p, op)
      PROVE  /\ state[p] = "runs"
             /\ \/ p = "parent" /\ pc[p] = 0 /\ op = "fork"
                \/ p = "parent" /\ pc[p] = 1 /\ op = "poll"
                \/ p = "one" /\ pc["parent"] = 1 /\ op = "sleep"
  <2>1. state[p] = "runs" /\ pc[p] \in 0 .. Len(Text[p]) - 1 /\ Text[p][pc[p] + 1][1] = op
    BY <1>2, AtCall
  <2>2. p # "two"
    BY <2>1, TextWaitpid
  <2>3. CASE p = "one"
    <3>1. Len(Text["one"]) = 1 /\ Text["one"][1][1] = "sleep"
      BY TextWaitpid
    <3>2. pc["one"] = 0
      BY <2>1, <2>3, <3>1
    <3> QED BY <2>1, <2>3, <3>1, <3>2 DEF WaitpidInv
  <2>4. CASE p = "parent"
    <3>1. Len(Text["parent"]) = 2 /\ Text["parent"][1][1] = "fork" /\ Text["parent"][2][1] = "poll"
      BY TextWaitpid
    <3>2. pc["parent"] \in 0 .. 1
      BY <2>1, <2>4, <3>1
    <3> QED BY <2>1, <2>4, <3>1, <3>2
  <2> QED BY <1>1, <2>2, <2>3, <2>4
<1>3. ASSUME NEW p \in Procs, Process(p) PROVE WaitpidInv'
  <2>1. CASE DoFork(p)
    BY <1>1, <1>2, <2>1, TextWaitpid DEF DoFork, Call, Done, WaitpidInv
  <2>2. CASE DoSleep(p)
    BY <1>1, <1>2, <2>2 DEF DoSleep, Done, Becomes, WaitpidInv
  <2>3. CASE WakeUp(p)
    BY <1>1, <2>3 DEF WakeUp, Becomes, WaitpidInv
  <2>4. CASE DoPoll(p)
    BY <1>1, <1>2, <2>4 DEF DoPoll, Done, Becomes, Zombies, WaitpidInv
  <2>5. CASE Exit(p)
    BY <1>1, <2>5, TextWaitpid, Exits DEF Alive, WaitpidInv
  <2>6. ASSUME NEW op \in {"wait", "join", "write", "read", "puts", "alarm"}, At(p, op) PROVE FALSE
    BY <1>1, <1>2, <2>6
  <2> QED BY <1>3, <2>1, <2>2, <2>3, <2>4, <2>5, <2>6
          DEF Process, DoWait, DoJoin, DoWrite, DoRead, DoPuts, DoAlarm
<1>4. CASE Tick
  BY <1>4, Ticks DEF WaitpidInv
<1> QED BY <1>3, <1>4 DEF Runs, Types, Now, read_childproc, timeout, keycontrol, Ring, Press, WaitpidInv

(* zombie.c: thirty seconds are more than the child needs to end.            *)
ZombieInv ==
  /\ pending = {} /\ alarm = 0 /\ pc["parent"] \in 0 .. 2 /\ clock \in {0, 30}
  /\ pc["parent"] < 2 => state["parent"] = "runs" /\ clock = 0
  /\ pc["parent"] = 2 => \/ state["parent"] = "sleeps" /\ wake["parent"] = 30
                         \/ state["parent"] \in {"runs", "gone"} /\ clock = 30
  /\ state["one"] \in (IF pc["parent"] = 0 THEN {"unborn"} ELSE {"runs", "zombie"})
  /\ clock = 30 => state["one"] = "zombie"
  /\ state["two"] = "unborn"

(* zombie.c: every step keeps it.                                            *)
LEMMA ZombieKeeps ==
  ASSUME program = "zombie", ProcShape, ZombieInv, Runs \/ Types
  PROVE  ZombieInv'
<1> HIDE DEF Text
<1>1. /\ pc \in [Procs -> Nat] /\ state \in [Procs -> States] /\ ~HasThreads
      /\ Procs = {"one", "two", "parent"} /\ Children = {"one", "two"}
      /\ wake = [p \in Procs |-> wake[p]]
  BY DEF ProcShape, HasThreads, Procs, Children
<1>2. ASSUME NEW p \in Procs, NEW op, At(p, op)
      PROVE  /\ state[p] = "runs" /\ p = "parent"
             /\ (pc[p] = 0 /\ op = "fork") \/ (pc[p] = 1 /\ op = "sleep")
  <2>1. state[p] = "runs" /\ pc[p] \in 0 .. Len(Text[p]) - 1 /\ Text[p][pc[p] + 1][1] = op
    BY <1>2, AtCall
  <2>2. p # "two"
    BY <2>1, TextZombie
  <2>3. p # "one"
    BY <2>1, TextZombie
  <2>4. Len(Text["parent"]) = 2 /\ Text["parent"][1][1] = "fork" /\ Text["parent"][2][1] = "sleep"
    BY TextZombie
  <2>5. p = "parent"
    BY <1>1, <2>2, <2>3
  <2>6. pc["parent"] \in 0 .. 1
    <3>1. pc["parent"] \in 0 .. Len(Text["parent"]) - 1
      BY <2>1, <2>5
    <3> QED BY <2>4, <3>1
  <2> QED BY <2>1, <2>4, <2>5, <2>6
<1>3. ASSUME NEW p \in Procs, Process(p) PROVE ZombieInv'
  <2>1. CASE DoFork(p)
    BY <1>1, <1>2, <2>1, TextZombie DEF DoFork, Call, Done, ZombieInv
  <2>2. CASE DoSleep(p)
    BY <1>1, <1>2, <2>2, TextZombie DEF DoSleep, Call, Done, Becomes, ZombieInv
  <2>3. CASE WakeUp(p)
    BY <1>1, <2>3 DEF WakeUp, Becomes, ZombieInv
  <2>4. CASE Exit(p)
    BY <1>1, <2>4, TextZombie, Exits DEF Alive, ZombieInv
  <2>5. ASSUME NEW op \in {"wait", "poll", "join", "write", "read", "puts", "alarm"}, At(p, op) PROVE FALSE
    BY <1>1, <1>2, <2>5
  <2> QED BY <1>3, <2>1, <2>2, <2>3, <2>4, <2>5
          DEF Process, DoWait, DoPoll, DoJoin, DoWrite, DoRead, DoPuts, DoAlarm
<1>4. CASE Tick
  <2>1. state["parent"] # "runs"
    BY <1>1, <1>4, Ticks, Busy, TextZombie DEF ZombieInv
  <2>2. state["one"] # "runs"
    BY <1>1, <1>4, Ticks, Busy, TextZombie DEF ZombieInv
  <2> QED BY <1>1, <1>4, <2>1, <2>2, Ticks DEF ZombieInv
<1> QED BY <1>3, <1>4 DEF Runs, Types, Now, read_childproc, timeout, keycontrol, Ring, Press, ZombieInv

(* Short texts, put together by the calls on a pipe.                         *)
LEMMA PutTogether ==
  \A m : /\ << >> \o <<m>> = <<m>> /\ Append(<< >>, m) = <<m>> /\ <<m>> # << >>
OBVIOUS

(* The first message in a pipe, and the first that is read.                  *)
LEMMA Written ==
  ASSUME ProcShape, NEW p \in Procs, DoWrite(p), NEW i \in 1 .. 2, NEW m,
         Call(p)[2] = i, Call(p)[3] = m, pipe[i] = << >>
  PROVE  /\ pc'[p] = pc[p] + 1 /\ \A q \in Procs \ {p} : pc'[q] = pc[q]
         /\ pipe'[i] = <<m>> /\ \A j \in 1 .. 2 : j # i => pipe'[j] = pipe[j]
         /\ UNCHANGED <<clock, state, wake, pending, alarm, printed, keys>>
<1>1. /\ pipe' = [pipe EXCEPT ![i] = Append(pipe[i], m)] /\ pc' = [pc EXCEPT ![p] = pc[p] + 1]
      /\ UNCHANGED <<clock, state, wake, pending, alarm, printed, keys>>
  BY DEF DoWrite, Done
<1>2. Append(pipe[i], m) = <<m>>
  BY PutTogether
<1>3. pc \in [Procs -> Nat] /\ pipe = [j \in 1 .. 2 |-> pipe[j]]
  BY DEF ProcShape
<1> QED BY <1>1, <1>2, <1>3

(* The read of a pipe with one message in it.                                *)
LEMMA ReadAll ==
  ASSUME ProcShape, NEW p \in Procs, DoRead(p), NEW i \in 1 .. 2, NEW m,
         Call(p)[2] = i, pipe[i] = <<m>>, printed[p] = << >>
  PROVE  /\ pc'[p] = pc[p] + 1 /\ \A q \in Procs \ {p} : pc'[q] = pc[q]
         /\ pipe'[i] = << >> /\ \A j \in 1 .. 2 : j # i => pipe'[j] = pipe[j]
         /\ printed'[p] = <<m>> /\ \A q \in Procs \ {p} : printed'[q] = printed[q]
         /\ UNCHANGED <<clock, state, wake, pending, alarm, keys>>
<1>1. /\ pipe' = [pipe EXCEPT ![i] = << >>] /\ pc' = [pc EXCEPT ![p] = pc[p] + 1]
      /\ printed' = [printed EXCEPT ![p] = printed[p] \o pipe[i]]
      /\ UNCHANGED <<clock, state, wake, pending, alarm, keys>>
  BY DEF DoRead, Done
<1>2. printed[p] \o pipe[i] = <<m>>
  BY PutTogether
<1>3. /\ pc \in [Procs -> Nat] /\ pipe = [j \in 1 .. 2 |-> pipe[j]]
      /\ printed = [q \in Procs |-> printed[q]]
  BY DEF ProcShape
<1> QED BY <1>1, <1>2, <1>3

(* pipe1.c: a parent that reads what its child has written.                  *)
PipeOneInv ==
  /\ pending = {} /\ alarm = 0 /\ pc["parent"] \in 0 .. 2 /\ pc["one"] \in 0 .. 1
  /\ state["parent"] \in {"runs", "gone"} /\ state["two"] = "unborn"
  /\ state["parent"] = "gone" => pc["parent"] = 2
  /\ pc["parent"] = 0 => state["one"] = "unborn" /\ pc["one"] = 0
  /\ pc["parent"] = 2 => pc["one"] = 1
  /\ state["one"] \in {"unborn", "runs"} \/ pc["one"] = 1
  /\ state["one"] \in {"unborn", "runs", "zombie", "gone"}
  /\ pipe[1] = IF pc["one"] = 1 /\ pc["parent"] < 2 THEN <<"who">> ELSE << >>
  /\ printed["parent"] = IF pc["parent"] = 2 THEN <<"who">> ELSE << >>

(* pipe1.c: every step keeps it.                                             *)
LEMMA PipeOneKeeps ==
  ASSUME program = "pipe1", ProcShape, PipeOneInv, Runs \/ Types
  PROVE  PipeOneInv'
<1> HIDE DEF Text
<1>1. /\ pc \in [Procs -> Nat] /\ state \in [Procs -> States] /\ ~HasThreads
      /\ Procs = {"one", "two", "parent"} /\ Children = {"one", "two"}
      /\ printed = [p \in Procs |-> printed[p]] /\ pipe = [i \in 1 .. 2 |-> pipe[i]]
  BY DEF ProcShape, HasThreads, Procs, Children
<1>2. ASSUME NEW p \in Procs, NEW op, At(p, op)
      PROVE  /\ state[p] = "runs"
             /\ \/ p = "parent" /\ pc[p] = 0 /\ op = "fork"
                \/ p = "parent" /\ pc[p] = 1 /\ op = "read"
                \/ p = "one" /\ pc[p] = 0 /\ op = "write"
  <2>1. state[p] = "runs" /\ pc[p] \in 0 .. Len(Text[p]) - 1 /\ Text[p][pc[p] + 1][1] = op
    BY <1>2, AtCall
  <2>2. p # "two"
    BY <2>1, TextPipeOne
  <2>3. CASE p = "one"
    <3>1. Len(Text["one"]) = 1 /\ Text["one"][1][1] = "write"
      BY TextPipeOne
    <3>2. pc["one"] = 0
      BY <2>1, <2>3, <3>1
    <3> QED BY <2>1, <2>3, <3>1, <3>2
  <2>4. CASE p = "parent"
    <3>1. Len(Text["parent"]) = 2 /\ Text["parent"][1][1] = "fork" /\ Text["parent"][2][1] = "read"
      BY TextPipeOne
    <3>2. pc["parent"] \in 0 .. 1
      BY <2>1, <2>4, <3>1
    <3> QED BY <2>1, <2>4, <3>1, <3>2
  <2> QED BY <1>1, <2>2, <2>3, <2>4
<1>3. ASSUME NEW p \in Procs, Process(p) PROVE PipeOneInv'
  <2>1. CASE DoFork(p)
    BY <1>1, <1>2, <2>1, TextPipeOne DEF DoFork, Call, Done, PipeOneInv
  <2>2. CASE WakeUp(p)
    BY <1>1, <2>2 DEF WakeUp, PipeOneInv
  <2>3. CASE DoWrite(p)
    <3>1. p = "one" /\ pc["one"] = 0 /\ state["one"] = "runs"
      BY <1>2, <2>3 DEF DoWrite
    <3>2. pc["parent"] = 1 /\ pipe[1] = << >>
      BY <3>1 DEF PipeOneInv
    <3>3. 1 \in 1 .. 2 /\ Call(p)[2] = 1 /\ Call(p)[3] = "who"
      BY <3>1, TextPipeOne DEF Call
    <3> QED BY <1>1, <2>3, <3>1, <3>2, <3>3, Written DEF PipeOneInv
  <2>4. CASE DoRead(p)
    <3>1. p = "parent" /\ pc["parent"] = 1 /\ state["parent"] = "runs"
      BY <1>2, <2>4 DEF DoRead
    <3>2. pipe[Call(p)[2]] # << >> /\ Call(p)[2] = 1
      BY <2>4, <3>1, TextPipeOne DEF DoRead, Call
    <3>3. pc["one"] = 1 /\ pipe[1] = <<"who">> /\ printed["parent"] = << >>
      BY <3>1, <3>2 DEF PipeOneInv
    <3> QED BY <1>1, <2>4, <3>1, <3>2, <3>3, ReadAll DEF PipeOneInv
  <2>5. CASE Exit(p)
    BY <1>1, <2>5, TextPipeOne, Exits DEF Alive, PipeOneInv
  <2>6. ASSUME NEW op \in {"sleep", "wait", "poll", "join", "puts", "alarm"}, At(p, op) PROVE FALSE
    BY <1>1, <1>2, <2>6
  <2> QED BY <1>3, <2>1, <2>2, <2>3, <2>4, <2>5, <2>6
          DEF Process, DoSleep, DoWait, DoPoll, DoJoin, DoPuts, DoAlarm
<1>4. CASE Tick
  BY <1>4, Ticks DEF PipeOneInv
<1> QED BY <1>3, <1>4 DEF Runs, Types, Now, read_childproc, timeout, keycontrol, Ring, Press, PipeOneInv

(* pipe3.c: the answer comes through a pipe of its own.                      *)
PipeThreeInv ==
  /\ pending = {} /\ alarm = 0 /\ pc["parent"] \in 0 .. 4 /\ pc["one"] \in 0 .. 2 /\ clock \in {0, 3}
  /\ pc["parent"] < 4 => state["parent"] = "runs" /\ clock = 0
  /\ pc["parent"] = 4 => \/ state["parent"] = "sleeps" /\ wake["parent"] = 3
                         \/ state["parent"] \in {"runs", "gone"} /\ clock = 3
  /\ clock = 3 => pc["one"] = 2
  /\ pc["parent"] = 0 => state["one"] = "unborn" /\ pc["one"] = 0
  /\ pc["parent"] > 0 => \/ state["one"] = "runs"
                         \/ state["one"] \in {"zombie", "gone"} /\ pc["one"] = 2
  /\ pc["parent"] >= 2 => pc["one"] >= 1
  /\ pc["one"] = 2 => pc["parent"] >= 3
  /\ pipe[1] = IF pc["one"] > 0 /\ pc["parent"] < 2 THEN <<"who">> ELSE << >>
  /\ pipe[2] = IF pc["parent"] > 2 /\ pc["one"] < 2 THEN <<"thanks">> ELSE << >>
  /\ printed["parent"] = IF pc["parent"] >= 2 THEN <<"who">> ELSE << >>
  /\ printed["one"] = IF pc["one"] = 2 THEN <<"thanks">> ELSE << >>
  /\ state["two"] = "unborn"

(* pipe3.c: every step keeps it.                                             *)
LEMMA PipeThreeKeeps ==
  ASSUME program = "pipe3", ProcShape, PipeThreeInv, Runs \/ Types
  PROVE  PipeThreeInv'
<1> HIDE DEF Text
<1>1. /\ pc \in [Procs -> Nat] /\ state \in [Procs -> States] /\ ~HasThreads
      /\ Procs = {"one", "two", "parent"} /\ Children = {"one", "two"}
      /\ wake = [p \in Procs |-> wake[p]]
  BY DEF ProcShape, HasThreads, Procs, Children
<1>2. ASSUME NEW p \in Procs, NEW op, At(p, op)
      PROVE  /\ state[p] = "runs"
             /\ \/ p = "parent" /\ pc[p] = 0 /\ op = "fork"
                \/ p = "parent" /\ pc[p] = 1 /\ op = "read"
                \/ p = "parent" /\ pc[p] = 2 /\ op = "write"
                \/ p = "parent" /\ pc[p] = 3 /\ op = "sleep"
                \/ p = "one" /\ pc[p] = 0 /\ op = "write"
                \/ p = "one" /\ pc[p] = 1 /\ op = "read"
  <2>1. state[p] = "runs" /\ pc[p] \in 0 .. Len(Text[p]) - 1 /\ Text[p][pc[p] + 1][1] = op
    BY <1>2, AtCall
  <2>2. p # "two"
    BY <2>1, TextPipeThree
  <2>3. CASE p = "one"
    <3>1. Len(Text["one"]) = 2 /\ Text["one"][1][1] = "write" /\ Text["one"][2][1] = "read"
      BY TextPipeThree
    <3>2. pc["one"] \in 0 .. 1
      BY <2>1, <2>3, <3>1
    <3> QED BY <2>1, <2>3, <3>1, <3>2
  <2>4. CASE p = "parent"
    <3>1. /\ Len(Text["parent"]) = 4 /\ Text["parent"][1][1] = "fork" /\ Text["parent"][2][1] = "read"
          /\ Text["parent"][3][1] = "write" /\ Text["parent"][4][1] = "sleep"
      BY TextPipeThree
    <3>2. pc["parent"] \in 0 .. 3
      BY <2>1, <2>4, <3>1
    <3> QED BY <2>1, <2>4, <3>1, <3>2
  <2> QED BY <1>1, <2>2, <2>3, <2>4
<1>3. ASSUME NEW p \in Procs, Process(p) PROVE PipeThreeInv'
  <2>1. CASE DoFork(p)
    BY <1>1, <1>2, <2>1, TextPipeThree DEF DoFork, Call, Done, PipeThreeInv
  <2>2. CASE DoSleep(p)
    BY <1>1, <1>2, <2>2, TextPipeThree DEF DoSleep, Call, Done, Becomes, PipeThreeInv
  <2>3. CASE WakeUp(p)
    BY <1>1, <2>3 DEF WakeUp, Becomes, PipeThreeInv
  <2>4. CASE DoWrite(p)
    <3>1. CASE p = "one"
      <4>1. pc["one"] = 0 /\ state["one"] = "runs"
        BY <1>2, <2>4, <3>1 DEF DoWrite
      <4>2. pc["parent"] = 1 /\ pipe[1] = << >>
        BY <4>1 DEF PipeThreeInv
      <4>3. 1 \in 1 .. 2 /\ 2 \in 1 .. 2 /\ Call(p)[2] = 1 /\ Call(p)[3] = "who"
        BY <3>1, <4>1, TextPipeThree DEF Call
      <4> QED BY <1>1, <2>4, <3>1, <4>1, <4>2, <4>3, Written DEF PipeThreeInv
    <3>2. CASE p # "one"
      <4>1. p = "parent" /\ pc["parent"] = 2 /\ state["parent"] = "runs"
        BY <1>2, <2>4, <3>2 DEF DoWrite
      <4>2. pc["one"] = 1 /\ pipe[2] = << >>
        BY <4>1 DEF PipeThreeInv
      <4>3. 1 \in 1 .. 2 /\ 2 \in 1 .. 2 /\ Call(p)[2] = 2 /\ Call(p)[3] = "thanks"
        BY <4>1, TextPipeThree DEF Call
      <4> QED BY <1>1, <2>4, <4>1, <4>2, <4>3, Written DEF PipeThreeInv
    <3> QED BY <3>1, <3>2
  <2>5. CASE DoRead(p)
    <3>1. CASE p = "one"
      <4>1. pc["one"] = 1 /\ state["one"] = "runs"
        BY <1>2, <2>5, <3>1 DEF DoRead
      <4>2. 1 \in 1 .. 2 /\ 2 \in 1 .. 2 /\ Call(p)[2] = 2 /\ pipe[Call(p)[2]] # << >>
        BY <2>5, <3>1, <4>1, TextPipeThree DEF DoRead, Call
      <4>3. pipe[2] = <<"thanks">> /\ printed["one"] = << >> /\ pc["parent"] >= 3
        BY <4>1, <4>2 DEF PipeThreeInv
      <4> QED BY <1>1, <2>5, <3>1, <4>1, <4>2, <4>3, ReadAll DEF PipeThreeInv
    <3>2. CASE p # "one"
      <4>1. p = "parent" /\ pc["parent"] = 1 /\ state["parent"] = "runs"
        BY <1>2, <2>5, <3>2 DEF DoRead
      <4>2. 1 \in 1 .. 2 /\ 2 \in 1 .. 2 /\ Call(p)[2] = 1 /\ pipe[Call(p)[2]] # << >>
        BY <2>5, <4>1, TextPipeThree DEF DoRead, Call
      <4>3. pipe[1] = <<"who">> /\ printed["parent"] = << >> /\ pc["one"] = 1
        BY <4>1, <4>2 DEF PipeThreeInv
      <4> QED BY <1>1, <2>5, <4>1, <4>2, <4>3, ReadAll DEF PipeThreeInv
    <3> QED BY <3>1, <3>2
  <2>6. CASE Exit(p)
    BY <1>1, <2>6, TextPipeThree, Exits DEF Alive, PipeThreeInv
  <2>7. ASSUME NEW op \in {"wait", "poll", "join", "puts", "alarm"}, At(p, op) PROVE FALSE
    BY <1>1, <1>2, <2>7
  <2> QED BY <1>3, <2>1, <2>2, <2>3, <2>4, <2>5, <2>6, <2>7
          DEF Process, DoWait, DoPoll, DoJoin, DoPuts, DoAlarm
<1>4. CASE Tick
  <2>1. state["one"] = "runs" => pc["one"] = 1 /\ pipe[2] = << >>
    <3> SUFFICES ASSUME state["one"] = "runs" PROVE pc["one"] = 1 /\ pipe[2] = << >>
      OBVIOUS
    <3>1. Blocked("one") /\ "one" \in Procs
      BY <1>1, <1>4, Ticks
    <3>2. /\ Len(Text["one"]) = 2 /\ Text["one"][1][1] = "write"
          /\ Text["one"][2][1] = "read" /\ Text["one"][2][2] = 2
      BY TextPipeThree
    <3>3. pc["one"] \in 0 .. Len(Text["one"]) - 1 /\ pc["one"] + 1 # 1
      BY <3>1, <3>2, Busy
    <3>4. pc["one"] = 1
      BY <3>2, <3>3
    <3> QED BY <3>1, <3>2, <3>4, Busy
  <2>2. state["parent"] = "runs" => pc["parent"] = 1 /\ pipe[1] = << >>
    BY <1>1, <1>4, Ticks, Busy, TextPipeThree DEF PipeThreeInv
  <2>3. state["parent"] # "runs" /\ pc["parent"] = 4
    BY <2>1, <2>2 DEF PipeThreeInv
  <2>4. pc["one"] = 2
    BY <2>1, <2>3 DEF PipeThreeInv
  <2> QED BY <1>1, <1>4, <2>3, <2>4, Ticks DEF PipeThreeInv
<1> QED BY <1>3, <1>4 DEF Runs, Types, Now, read_childproc, timeout, keycontrol, Ring, Press, PipeThreeInv

(* pipe2.c: one pipe for both directions, and a sleep for the parent to have *)
(* read before the child does.                                               *)
PipeTwoInv ==
  /\ pending = {} /\ alarm = 0 /\ pc["parent"] \in 0 .. 4 /\ pc["one"] \in 0 .. 3
  /\ clock \in {0, 2, 3}
  /\ pc["parent"] < 4 => state["parent"] = "runs" /\ clock = 0
  /\ pc["parent"] = 4 => \/ state["parent"] = "sleeps" /\ wake["parent"] = 3
                         \/ state["parent"] \in {"runs", "gone"} /\ clock = 3
  /\ clock > 0 => pc["one"] >= 2
  /\ clock = 3 => pc["one"] = 3
  /\ pc["parent"] = 0 => state["one"] = "unborn" /\ pc["one"] = 0
  /\ pc["parent"] > 0 => \/ state["one"] = "runs" /\ (pc["one"] >= 2 => clock >= 2)
                         \/ state["one"] = "sleeps" /\ pc["one"] = 2 /\ wake["one"] = 2
                         \/ state["one"] \in {"zombie", "gone"} /\ pc["one"] = 3
  /\ pc["parent"] >= 2 => pc["one"] >= 1
  /\ pc["one"] = 3 => pc["parent"] = 4
  /\ pipe[1] = IF pc["one"] > 0 /\ pc["parent"] < 2 THEN <<"who">>
               ELSE IF pc["parent"] > 2 /\ pc["one"] < 3 THEN <<"thanks">>
               ELSE << >>
  /\ printed["parent"] = IF pc["parent"] >= 2 THEN <<"who">> ELSE << >>
  /\ printed["one"] = IF pc["one"] = 3 THEN <<"thanks">> ELSE << >>
  /\ state["two"] = "unborn"

(* pipe2.c: every step keeps it.                                             *)
LEMMA PipeTwoKeeps ==
  ASSUME program = "pipe2", ProcShape, PipeTwoInv, Runs \/ Types
  PROVE  PipeTwoInv'
<1> HIDE DEF Text
<1>1. /\ pc \in [Procs -> Nat] /\ state \in [Procs -> States] /\ ~HasThreads
      /\ Procs = {"one", "two", "parent"} /\ Children = {"one", "two"}
      /\ wake = [p \in Procs |-> wake[p]]
  BY DEF ProcShape, HasThreads, Procs, Children
<1>2. ASSUME NEW p \in Procs, NEW op, At(p, op)
      PROVE  /\ state[p] = "runs"
             /\ \/ p = "parent" /\ pc[p] = 0 /\ op = "fork"
                \/ p = "parent" /\ pc[p] = 1 /\ op = "read"
                \/ p = "parent" /\ pc[p] = 2 /\ op = "write"
                \/ p = "parent" /\ pc[p] = 3 /\ op = "sleep"
                \/ p = "one" /\ pc[p] = 0 /\ op = "write"
                \/ p = "one" /\ pc[p] = 1 /\ op = "sleep"
                \/ p = "one" /\ pc[p] = 2 /\ op = "read"
  <2>1. state[p] = "runs" /\ pc[p] \in 0 .. Len(Text[p]) - 1 /\ Text[p][pc[p] + 1][1] = op
    BY <1>2, AtCall
  <2>2. p # "two"
    BY <2>1, TextPipeTwo
  <2>3. CASE p = "one"
    <3>1. /\ Len(Text["one"]) = 3 /\ Text["one"][1][1] = "write" /\ Text["one"][2][1] = "sleep"
          /\ Text["one"][3][1] = "read"
      BY TextPipeTwo
    <3>2. pc["one"] \in 0 .. 2
      BY <2>1, <2>3, <3>1
    <3> QED BY <2>1, <2>3, <3>1, <3>2
  <2>4. CASE p = "parent"
    <3>1. /\ Len(Text["parent"]) = 4 /\ Text["parent"][1][1] = "fork" /\ Text["parent"][2][1] = "read"
          /\ Text["parent"][3][1] = "write" /\ Text["parent"][4][1] = "sleep"
      BY TextPipeTwo
    <3>2. pc["parent"] \in 0 .. 3
      BY <2>1, <2>4, <3>1
    <3> QED BY <2>1, <2>4, <3>1, <3>2
  <2> QED BY <1>1, <2>2, <2>3, <2>4
<1>3. ASSUME NEW p \in Procs, Process(p) PROVE PipeTwoInv'
  <2>1. CASE DoFork(p)
    BY <1>1, <1>2, <2>1, TextPipeTwo DEF DoFork, Call, Done, PipeTwoInv
  <2>2. CASE DoSleep(p)
    <3>1. CASE p = "one"
      BY <1>1, <1>2, <2>2, <3>1, TextPipeTwo DEF DoSleep, Call, Done, Becomes, PipeTwoInv
    <3>2. CASE p # "one"
      BY <1>1, <1>2, <2>2, <3>2, TextPipeTwo DEF DoSleep, Call, Done, Becomes, PipeTwoInv
    <3> QED BY <3>1, <3>2
  <2>3. CASE WakeUp(p)
    BY <1>1, <2>3 DEF WakeUp, Becomes, PipeTwoInv
  <2>4. CASE DoWrite(p)
    <3>1. CASE p = "one"
      <4>1. pc["one"] = 0 /\ state["one"] = "runs"
        BY <1>2, <2>4, <3>1 DEF DoWrite
      <4>2. pc["parent"] = 1 /\ pipe[1] = << >>
        BY <4>1 DEF PipeTwoInv
      <4>3. 1 \in 1 .. 2 /\ Call(p)[2] = 1 /\ Call(p)[3] = "who"
        BY <3>1, <4>1, TextPipeTwo DEF Call
      <4> QED BY <1>1, <2>4, <3>1, <4>1, <4>2, <4>3, Written DEF PipeTwoInv
    <3>2. CASE p # "one"
      <4>1. p = "parent" /\ pc["parent"] = 2 /\ state["parent"] = "runs"
        BY <1>2, <2>4, <3>2 DEF DoWrite
      <4>2. pc["one"] \in 1 .. 2 /\ pipe[1] = << >>
        BY <4>1 DEF PipeTwoInv
      <4>3. 1 \in 1 .. 2 /\ Call(p)[2] = 1 /\ Call(p)[3] = "thanks"
        BY <4>1, TextPipeTwo DEF Call
      <4> QED BY <1>1, <2>4, <4>1, <4>2, <4>3, Written DEF PipeTwoInv
    <3> QED BY <3>1, <3>2
  <2>5. CASE DoRead(p)
    <3>1. CASE p = "one"
      <4>1. pc["one"] = 2 /\ state["one"] = "runs"
        BY <1>2, <2>5, <3>1 DEF DoRead
      <4>2. 1 \in 1 .. 2 /\ Call(p)[2] = 1
        BY <2>5, <3>1, <4>1, TextPipeTwo DEF DoRead, Call
      <4>3. pipe[1] = <<"thanks">> /\ printed["one"] = << >> /\ pc["parent"] = 4 /\ clock = 2
        BY <4>1 DEF PipeTwoInv
      <4> QED BY <1>1, <2>5, <3>1, <4>1, <4>2, <4>3, ReadAll DEF PipeTwoInv
    <3>2. CASE p # "one"
      <4>1. p = "parent" /\ pc["parent"] = 1 /\ state["parent"] = "runs"
        BY <1>2, <2>5, <3>2 DEF DoRead
      <4>2. 1 \in 1 .. 2 /\ Call(p)[2] = 1 /\ pipe[Call(p)[2]] # << >>
        BY <2>5, <4>1, TextPipeTwo DEF DoRead, Call
      <4>3. pipe[1] = <<"who">> /\ printed["parent"] = << >> /\ pc["one"] \in 1 .. 2
        BY <4>1, <4>2 DEF PipeTwoInv
      <4> QED BY <1>1, <2>5, <4>1, <4>2, <4>3, ReadAll DEF PipeTwoInv
    <3> QED BY <3>1, <3>2
  <2>6. CASE Exit(p)
    BY <1>1, <2>6, TextPipeTwo, Exits DEF Alive, PipeTwoInv
  <2>7. ASSUME NEW op \in {"wait", "poll", "join", "puts", "alarm"}, At(p, op) PROVE FALSE
    BY <1>1, <1>2, <2>7
  <2> QED BY <1>3, <2>1, <2>2, <2>3, <2>4, <2>5, <2>6, <2>7
          DEF Process, DoWait, DoPoll, DoJoin, DoPuts, DoAlarm
<1>4. CASE Tick
  <2>1. state["one"] = "runs" => pc["one"] = 2 /\ pipe[1] = << >>
    <3> SUFFICES ASSUME state["one"] = "runs" PROVE pc["one"] = 2 /\ pipe[1] = << >>
      OBVIOUS
    <3>1. Blocked("one") /\ "one" \in Procs
      BY <1>1, <1>4, Ticks
    <3>2. /\ Len(Text["one"]) = 3 /\ Text["one"][1][1] = "write" /\ Text["one"][2][1] = "sleep"
          /\ Text["one"][3][1] = "read" /\ Text["one"][3][2] = 1
      BY TextPipeTwo
    <3>3. pc["one"] \in 0 .. Len(Text["one"]) - 1 /\ pc["one"] + 1 \notin {1, 2}
      BY <3>1, <3>2, Busy
    <3>4. pc["one"] = 2
      BY <3>2, <3>3
    <3> QED BY <3>1, <3>2, <3>4, Busy
  <2>2. state["parent"] = "runs" => pc["parent"] = 1 /\ pipe[1] = << >>
    BY <1>1, <1>4, Ticks, Busy, TextPipeTwo DEF PipeTwoInv
  <2>3. state["parent"] # "runs" /\ pc["parent"] = 4
    BY <2>1, <2>2 DEF PipeTwoInv
  <2>4. state["one"] # "runs" /\ pc["one"] >= 2
    BY <2>1, <2>3 DEF PipeTwoInv
  <2>5. state["one"] = "sleeps" => wake["one"] > clock
    BY <1>1, <1>4, Ticks DEF Blocked, Alive, At
  <2> QED BY <1>1, <1>4, <2>3, <2>4, <2>5, Ticks DEF PipeTwoInv
<1> QED BY <1>3, <1>4 DEF Runs, Types, Now, read_childproc, timeout, keycontrol, Ring, Press, PipeTwoInv

(* remove_zombie.c.  As long as no child is removed the parent has slept for *)
(* five seconds at a time, no more than three times, since the children end  *)
(* in the second five and the signal is handled before time goes on.         *)
NoneYet ==
  /\ clock \in {0, 5, 10} /\ pc["parent"] \in 0 .. 5
  /\ \A c \in Children :
       /\ state[c] \in {"unborn", "runs", "sleeps", "zombie"}
       /\ state[c] = "runs" => (pc[c] = 0 /\ clock = 0) \/ (pc[c] = 1 /\ clock = 10)
       /\ state[c] = "sleeps" => pc[c] = 1 /\ wake[c] = 10
  /\ pending # {} <=> \E c \in Children : state[c] = "zombie"
  /\ pc["parent"] < 2 => clock = 0 /\ state["parent"] = "runs"
  /\ pc["parent"] >= 1 => state["one"] # "unborn"
  /\ pc["parent"] >= 2 => state["two"] # "unborn"
  /\ pc["parent"] >= 2 =>
       \/ state["parent"] = "runs" /\ clock = 5 * (pc["parent"] - 2)
       \/ /\ state["parent"] = "sleeps" /\ wake["parent"] = 5 * (pc["parent"] - 2)
          /\ clock =< wake["parent"] /\ pc["parent"] >= 3

RemoveInv ==
  /\ alarm = 0 /\ pending \subseteq {"SIGCHLD"}
  /\ \A c \in Children : pc[c] = 0 \/ state[c] # "unborn"
  /\ pc["parent"] = 0 => state["one"] = "unborn"
  /\ pc["parent"] < 2 => state["two"] = "unborn"
  /\ NoneYet \/ \E c \in Children : state[c] = "removed"

(* remove_zombie.c: every step, the handler of SIGCHLD included, keeps it.   *)
LEMMA RemoveKeeps ==
  ASSUME program = "remove_zombie", ProcShape, RemoveInv, Runs \/ Types
  PROVE  RemoveInv'
<1> HIDE DEF Text
<1>1. /\ pc \in [Procs -> Nat] /\ state \in [Procs -> States] /\ ~HasThreads
      /\ Procs = {"one", "two", "parent"} /\ Children = {"one", "two"}
      /\ wake = [p \in Procs |-> wake[p]]
  BY DEF ProcShape, HasThreads, Procs, Children
<1>2. ASSUME NEW p \in Procs, NEW op, At(p, op)
      PROVE  /\ state[p] = "runs"
             /\ \/ p = "parent" /\ pc[p] = 0 /\ op = "fork" /\ Call(p)[2] = "one"
                \/ p = "parent" /\ pc[p] = 1 /\ op = "fork" /\ Call(p)[2] = "two"
                \/ p = "parent" /\ pc[p] \in 2 .. 6 /\ op = "sleep" /\ Call(p)[2] = 5
                \/ p \in Children /\ pc[p] = 0 /\ op = "sleep" /\ Call(p)[2] = 10
  <2>1. state[p] = "runs" /\ pc[p] \in 0 .. Len(Text[p]) - 1 /\ Text[p][pc[p] + 1][1] = op
    BY <1>2, AtCall
  <2>2. CASE p \in Children
    <3>1. Len(Text[p]) = 1 /\ Text[p][1][1] = "sleep" /\ Text[p][1][2] = 10
      BY <2>2, TextRemove
    <3>2. pc[p] = 0
      BY <2>1, <3>1
    <3> QED BY <2>1, <2>2, <3>1, <3>2 DEF Call
  <2>3. CASE p \notin Children
    <3>1. p = "parent"
      BY <1>1, <2>3
    <3>2. /\ Len(Text["parent"]) = 7
          /\ Text["parent"][1][1] = "fork" /\ Text["parent"][1][2] = "one"
          /\ Text["parent"][2][1] = "fork" /\ Text["parent"][2][2] = "two"
          /\ \A k \in 3 .. 7 : Text["parent"][k][1] = "sleep" /\ Text["parent"][k][2] = 5
      BY TextRemove
    <3>3. pc["parent"] \in 0 .. 6
      BY <2>1, <3>1, <3>2
    <3>4. CASE pc["parent"] \in 2 .. 6
      <4>1. pc["parent"] + 1 \in 3 .. 7
        BY <3>4
      <4> QED BY <2>1, <3>1, <3>2, <3>4, <4>1 DEF Call
    <3> QED BY <2>1, <3>1, <3>2, <3>3, <3>4 DEF Call
  <2> QED BY <2>2, <2>3
<1>3. ASSUME NEW p \in Procs, Process(p) PROVE RemoveInv'
  <2>1. CASE DoFork(p)
    BY <1>1, <1>2, <2>1 DEF DoFork, Done, RemoveInv, NoneYet
  <2>2. CASE DoSleep(p)
    <3>1. CASE p = "parent"
      BY <1>1, <1>2, <2>2, <3>1 DEF DoSleep, Done, Becomes, RemoveInv, NoneYet
    <3>2. CASE p # "parent"
      BY <1>1, <1>2, <2>2, <3>2 DEF DoSleep, Done, Becomes, RemoveInv, NoneYet
    <3> QED BY <3>1, <3>2
  <2>3. CASE WakeUp(p)
    BY <1>1, <2>3 DEF WakeUp, Becomes, RemoveInv, NoneYet
  <2>4. CASE Exit(p)
    <3>1. CASE p = "parent"
      <4>1. pc["parent"] = 7 /\ pc' = pc /\ alarm' = 0 /\ \A c \in Children : state'[c] = state[c]
        BY <1>1, <2>4, <3>1, TextRemove, Exits
      <4>2. pending' = pending
        BY <1>1, <2>4, <3>1 DEF Exit
      <4> QED BY <4>1, <4>2 DEF RemoveInv, NoneYet
    <3>2. CASE p # "parent"
      <4>1. p \in Children /\ pc[p] = 1 /\ state[p] = "runs" /\ pc' = pc /\ alarm' = alarm
            /\ UNCHANGED <<clock, wake>> /\ \A q \in Procs \ {p} : state'[q] = state[q]
        BY <1>1, <2>4, <3>2, TextRemove, Exits
      <4>2. CASE NoneYet
        <5>1. Alive("parent")
          BY <4>2 DEF Alive, NoneYet
        <5>2. state'[p] = "zombie" /\ pending' = pending \cup {"SIGCHLD"}
          BY <2>4, <4>1, <5>1, <1>1, Exits DEF Exit
        <5> QED BY <1>1, <4>1, <4>2, <5>2 DEF RemoveInv, NoneYet
      <4>3. CASE ~NoneYet
        <5>1. pending' \subseteq pending \cup {"SIGCHLD"}
          BY <2>4 DEF Exit
        <5>2. PICK c \in Children : state[c] = "removed"
          BY <4>3 DEF RemoveInv
        <5>3. c # p /\ state'[c] = "removed" /\ c \in Children
          BY <1>1, <4>1, <5>2
        <5>4. state'[p] # "unborn"
          BY <1>1, <2>4, Exits
        <5> QED BY <1>1, <4>1, <5>1, <5>3, <5>4 DEF RemoveInv
      <4> QED BY <4>2, <4>3
    <3> QED BY <3>1, <3>2
  <2>5. ASSUME NEW op \in {"wait", "poll", "join", "write", "read", "puts", "alarm"}, At(p, op) PROVE FALSE
    BY <1>1, <1>2, <2>5
  <2> QED BY <1>3, <2>1, <2>2, <2>3, <2>4, <2>5
          DEF Process, DoWait, DoPoll, DoJoin, DoWrite, DoRead, DoPuts, DoAlarm
<1>4. CASE read_childproc
  <2>1. CASE \E c \in Children : state[c] = "removed"
    BY <1>1, <1>4, <2>1 DEF read_childproc, Zombies, Alive, RemoveInv
  <2>2. CASE Zombies # {}
    BY <1>1, <1>4, <2>2 DEF read_childproc, Zombies, Alive, RemoveInv
  <2>3. CASE NoneYet /\ Zombies = {}
    BY <1>4, <2>3 DEF read_childproc, Zombies, NoneYet
  <2> QED BY <2>1, <2>2, <2>3 DEF RemoveInv
<1>5. CASE timeout \/ keycontrol
  BY <1>1, <1>5 DEF timeout, keycontrol, Becomes, RemoveInv, NoneYet
<1>6. CASE Tick
  <2>1. CASE NoneYet
    <3>1. \A p \in Procs : state[p] # "runs"
      BY <1>2, <1>6, Ticks DEF Blocked, Alive
    <3> QED BY <1>1, <1>6, <2>1, <3>1, Ticks DEF NoneYet, RemoveInv, Alive
  <2>2. CASE ~NoneYet
    BY <1>6, <2>2, Ticks DEF RemoveInv
  <2> QED BY <2>1, <2>2
<1> QED BY <1>3, <1>4, <1>5, <1>6 DEF Runs, Types, Now, Ring, Press, RemoveInv

(* thread1.c, thread2.c: the thread's lines, and main's wait for its end, by *)
(* a sleep that is longer than those of the thread or by a join.             *)
ThreadInv ==
  /\ pending = {} /\ alarm = 0 /\ pc["parent"] \in 0 .. 2 /\ pc["one"] \in 0 .. 10
  /\ state["two"] \in {"unborn", "gone"}
  /\ pc["parent"] = 0 => state["one"] = "unborn" /\ pc["one"] = 0
  /\ pc["parent"] > 0 => \/ state["one"] \in {"runs", "sleeps"}
                         \/ state["one"] = "gone" /\ pc["one"] = 10
  /\ Len(printed["one"]) \in Nat /\ printed["one"] \in Seq({"line"})
  /\ 2 * Len(printed["one"]) \in {pc["one"], pc["one"] - 1}
  /\ state["parent"] \in {"runs", "sleeps", "gone"}
  /\ state["parent"] = "gone" => pc["parent"] = 2
  /\ program = "thread2" /\ pc["parent"] = 2 => state["one"] = "gone"

(* The clock of thread1.c.                                                   *)
ThreadClock ==
  /\ clock \in 0 .. 5 \cup {10}
  /\ state["one"] = "runs" => 2 * clock \in {pc["one"], pc["one"] + 1}
  /\ state["one"] = "sleeps" => /\ wake["one"] \in 1 .. 5 /\ 2 * wake["one"] = pc["one"] + 1
                                /\ clock \in {wake["one"], wake["one"] - 1}
  /\ pc["parent"] < 2 => state["parent"] = "runs" /\ clock = 0
  /\ pc["parent"] = 2 => \/ state["parent"] = "sleeps" /\ wake["parent"] = 10
                         \/ state["parent"] \in {"runs", "gone"} /\ clock = 10
  /\ clock = 10 => state["one"] = "gone"

(* thread1.c, thread2.c: every step keeps it.                                *)
LEMMA ThreadKeeps ==
  ASSUME HasThreads, ProcShape, ThreadInv, program = "thread1" => ThreadClock, Runs \/ Types,
         program' = program
  PROVE  ThreadInv' /\ (program = "thread1" => ThreadClock)'
<1> HIDE DEF Text
<1>1. /\ pc \in [Procs -> Nat] /\ state \in [Procs -> States] /\ program \in {"thread1", "thread2"}
      /\ Procs = {"one", "two", "parent"} /\ Children = {"one", "two"}
      /\ wake = [p \in Procs |-> wake[p]] /\ printed = [p \in Procs |-> printed[p]]
  BY DEF ProcShape, HasThreads, Procs, Children
<1>2. ASSUME NEW p \in Procs, NEW op, At(p, op)
      PROVE  /\ state[p] = "runs"
             /\ \/ p = "parent" /\ pc[p] = 0 /\ op = "fork" /\ Call(p)[2] = "one"
                \/ p = "parent" /\ pc[p] = 1 /\ op = "sleep" /\ program = "thread1" /\ Call(p)[2] = 10
                \/ p = "parent" /\ pc[p] = 1 /\ op = "join" /\ program = "thread2"
                \/ p = "one" /\ pc[p] \in {0, 2, 4, 6, 8} /\ op = "sleep" /\ Call(p)[2] = 1
                \/ p = "one" /\ pc[p] \in {1, 3, 5, 7, 9} /\ op = "puts"
  <2>1. state[p] = "runs" /\ pc[p] \in 0 .. Len(Text[p]) - 1 /\ Text[p][pc[p] + 1][1] = op
    BY <1>2, AtCall
  <2>2. p # "two"
    BY <2>1, TextThread
  <2>3. CASE p = "one"
    <3>1. /\ Len(Text["one"]) = 10
          /\ \A k \in {1, 3, 5, 7, 9} : Text["one"][k][1] = "sleep" /\ Text["one"][k][2] = 1
          /\ \A k \in {2, 4, 6, 8, 10} : Text["one"][k][1] = "puts"
      BY TextThread
    <3>2. pc["one"] \in 0 .. 9
      BY <2>1, <2>3, <3>1
    <3>3. CASE pc["one"] \in {0, 2, 4, 6, 8}
      <4>1. pc["one"] + 1 \in {1, 3, 5, 7, 9}
        BY <3>3
      <4> QED BY <2>1, <2>3, <3>1, <3>3, <4>1 DEF Call
    <3>4. CASE pc["one"] \in {1, 3, 5, 7, 9}
      <4>1. pc["one"] + 1 \in {2, 4, 6, 8, 10}
        BY <3>4
      <4> QED BY <2>1, <2>3, <3>1, <3>4, <4>1 DEF Call
    <3> QED BY <3>2, <3>3, <3>4
  <2>4. CASE p = "parent"
    <3>1. /\ Len(Text["parent"]) = 2 /\ Text["parent"][1][1] = "fork" /\ Text["parent"][1][2] = "one"
          /\ program = "thread1" => Text["parent"][2][1] = "sleep" /\ Text["parent"][2][2] = 10
          /\ program = "thread2" => Text["parent"][2][1] = "join"
      BY TextThread
    <3>2. pc["parent"] \in 0 .. 1
      BY <2>1, <2>4, <3>1
    <3> QED BY <1>1, <2>1, <2>4, <3>1, <3>2 DEF Call
  <2> QED BY <1>1, <2>2, <2>3, <2>4
<1>3. ASSUME NEW p \in Procs, Process(p) PROVE ThreadInv' /\ (program = "thread1" => ThreadClock')
  <2>1. CASE DoFork(p)
    <3>1. /\ p = "parent" /\ pc["parent"] = 0 /\ state["parent"] = "runs"
          /\ pc' = [pc EXCEPT !["parent"] = pc["parent"] + 1] /\ state' = [state EXCEPT !["one"] = "runs"]
          /\ UNCHANGED <<clock, wake, pending, alarm, pipe, printed, keys>>
      <4>1. p = "parent" /\ pc["parent"] = 0 /\ state["parent"] = "runs" /\ Call(p)[2] = "one"
        BY <1>2, <2>1 DEF DoFork
      <4> QED BY <2>1, <4>1 DEF DoFork, Done
    <3>2. /\ pc'["parent"] = 1 /\ pc'["one"] = pc["one"] /\ state'["one"] = "runs"
          /\ state'["parent"] = "runs" /\ state'["two"] = state["two"]
      BY <1>1, <3>1
    <3> QED BY <1>1, <3>1, <3>2 DEF ThreadInv, ThreadClock
  <2>2. CASE DoSleep(p)
    <3>1. CASE p = "one"
      BY <1>1, <1>2, <2>2, <3>1 DEF DoSleep, Done, Becomes, ThreadInv, ThreadClock
    <3>2. CASE p # "one"
      BY <1>1, <1>2, <2>2, <3>2 DEF DoSleep, Done, Becomes, ThreadInv, ThreadClock
    <3> QED BY <3>1, <3>2
  <2>3. CASE WakeUp(p)
    BY <1>1, <2>3 DEF WakeUp, Becomes, ThreadInv, ThreadClock
  <2>4. CASE DoJoin(p)
    BY <1>1, <1>2, <2>4 DEF DoJoin, Done, ThreadInv
  <2>5. CASE DoPuts(p)
    <3>1. p = "one" /\ pc["one"] \in {1, 3, 5, 7, 9} /\ state["one"] = "runs"
      BY <1>2, <2>5 DEF DoPuts
    <3>2. /\ pc' = [pc EXCEPT !["one"] = pc["one"] + 1]
          /\ printed' = [printed EXCEPT !["one"] = Append(printed["one"], "line")]
          /\ UNCHANGED <<clock, state, wake, pending, alarm, pipe, keys>>
      BY <2>5, <3>1 DEF DoPuts, Done
    <3>3. /\ pc'["one"] = pc["one"] + 1 /\ pc'["parent"] = pc["parent"]
          /\ printed'["one"] = Append(printed["one"], "line")
      BY <1>1, <3>2
    <3>4. /\ printed'["one"] \in Seq({"line"}) /\ Len(printed'["one"]) = Len(printed["one"]) + 1
      BY <3>3 DEF ThreadInv
    <3>5. 2 * Len(printed["one"]) = pc["one"] - 1 /\ Len(printed["one"]) \in Nat
      BY <3>1 DEF ThreadInv
    <3> QED BY <3>1, <3>2, <3>3, <3>4, <3>5 DEF ThreadInv, ThreadClock
  <2>6. CASE Exit(p)
    <3>1. /\ state[p] = "runs" /\ pc[p] = Len(Text[p]) /\ pc' = pc /\ pending' = pending
          /\ alarm' = 0 /\ state'[p] = "gone"
          /\ \A q \in Procs \ {p} : state'[q] = IF p = "parent" THEN "gone" ELSE state[q]
          /\ UNCHANGED <<clock, wake, printed>>
      BY <1>1, <2>6, Exits DEF ThreadInv
    <3>2. CASE p = "one"
      <4>1. pc["one"] = 10
        BY <3>1, <3>2, TextThread
      <4> QED BY <1>1, <3>1, <3>2, <4>1 DEF ThreadInv, ThreadClock
    <3>3. CASE p = "parent"
      <4>1. pc["parent"] = 2
        BY <3>1, <3>3, TextThread
      <4> QED BY <1>1, <3>1, <3>3, <4>1 DEF ThreadInv, ThreadClock
    <3>4. p # "two"
      BY <3>1 DEF ThreadInv
    <3> QED BY <1>1, <3>2, <3>3, <3>4
  <2>7. ASSUME NEW op \in {"wait", "poll", "write", "read", "alarm"}, At(p, op) PROVE FALSE
    BY <1>1, <1>2, <2>7
  <2> QED BY <1>3, <2>1, <2>2, <2>3, <2>4, <2>5, <2>6, <2>7
          DEF Process, DoWait, DoPoll, DoWrite, DoRead, DoAlarm
<1>4. CASE Tick
  <2>1. ThreadInv'
    BY <1>4, Ticks DEF ThreadInv
  <2>2. ASSUME program = "thread1" PROVE ThreadClock'
    <3>1. state["parent"] # "runs" /\ state["one"] # "runs"
      BY <1>1, <1>2, <1>4, <2>2, Ticks DEF Blocked, Alive
    <3>2. pc["parent"] = 2
      BY <2>2, <3>1 DEF ThreadClock, ThreadInv
    <3>3. state["two"] # "sleeps"
      BY DEF ThreadInv
    <3> QED BY <1>1, <1>4, <2>2, <3>1, <3>2, <3>3, Ticks DEF ThreadClock, ThreadInv
  <2> QED BY <2>1, <2>2
<1>5. ThreadInv' /\ (program = "thread1" => ThreadClock')
  BY <1>3, <1>4, <1>1 DEF Runs, Types, Now, read_childproc, timeout, keycontrol, Ring, Press, ThreadInv
<1> QED BY <1>5

(* signal.c, sigaction.c.  Every alarm comes two seconds after the one       *)
(* before; rung says that time has come to the next one, which is not        *)
(* handled yet.  Time moves on in a sleep only, and a handler ends it: so    *)
(* there are no more alarms than sleeps, however often CTRL+C is pressed.    *)
Rings == Len(printed["parent"])
Rung  == clock = 2 * Rings + 2
Begun == pc["parent"] - 1       \* sleeps

TimeOuts == Seq({"Time out!"})

SignalTypes ==
  /\ \A c \in Children : state[c] = "unborn"
  /\ pending \subseteq {"SIGALRM", "SIGINT"} /\ (program = "sigaction" => "SIGINT" \notin pending)
  /\ pc["parent"] \in 0 .. 4 /\ clock \in Nat
  /\ printed["parent"] \in TimeOuts /\ Rings \in Nat
  /\ state["parent"] \in {"runs", "sleeps", "gone"}
  /\ state["parent"] = "sleeps" => wake["parent"] \in Nat /\ wake["parent"] >= 100

SignalStart ==
  pc["parent"] = 0 => /\ state["parent"] = "runs" /\ clock = 0 /\ alarm = 0
                      /\ Rings = 0 /\ "SIGALRM" \notin pending

SignalClock ==
  pc["parent"] > 0 /\ state["parent"] # "gone" =>
    /\ \/ alarm = 2 * Rings + 2 /\ "SIGALRM" \notin pending /\ (Rung \/ clock = 2 * Rings)
       \/ alarm = 0 /\ "SIGALRM" \in pending /\ Rung
    /\ Rings =< Begun
    /\ (Rung \/ state["parent"] = "sleeps") => Rings + 1 =< Begun
    /\ program = "sigaction" => /\ state["parent"] = "runs" => ~Rung /\ Rings = Begun
                                /\ state["parent"] = "sleeps" => Rings + 1 = Begun

SignalEnd ==
  state["parent"] = "gone" =>
    /\ pc["parent"] = 4 /\ alarm = 0 /\ clock =< 6 /\ Rings =< 3
    /\ program = "sigaction" => clock = 6 /\ Rings = 3

SignalInv == SignalTypes /\ SignalStart /\ SignalClock /\ SignalEnd

(* A line more.                                                              *)
LEMMA OneMore ==
  ASSUME NEW S, NEW s \in Seq(S), NEW e \in S
  PROVE  Append(s, e) \in Seq(S) /\ Len(Append(s, e)) = Len(s) + 1
OBVIOUS

(* signal.c, sigaction.c: every step, CTRL+C included, keeps it.             *)
LEMMA SignalKeeps ==
  ASSUME program \in {"signal", "sigaction"}, program' = program, ProcShape, SignalInv, Runs \/ Types
  PROVE  SignalInv'
<1> HIDE DEF Text
<1>1. /\ pc \in [Procs -> Nat] /\ state \in [Procs -> States] /\ ~HasThreads
      /\ Procs = {"one", "two", "parent"} /\ Children = {"one", "two"}
      /\ wake = [p \in Procs |-> wake[p]] /\ printed = [p \in Procs |-> printed[p]]
  BY DEF ProcShape, HasThreads, Procs, Children
<1>0. /\ pc["parent"] \in 0 .. 4 /\ clock \in Nat /\ Rings \in Nat
      /\ state["parent"] \in {"runs", "sleeps", "gone"}
  BY DEF SignalInv, SignalTypes
<1>2. ASSUME NEW p \in Procs, NEW op, At(p, op)
      PROVE  /\ state[p] = "runs" /\ p = "parent"
             /\ \/ pc[p] = 0 /\ op = "alarm" /\ Call(p)[2] = 2
                \/ pc[p] \in 1 .. 3 /\ op = "sleep" /\ Call(p)[2] = 100
  <2>1. state[p] = "runs" /\ pc[p] \in 0 .. Len(Text[p]) - 1 /\ Text[p][pc[p] + 1][1] = op
    BY <1>2, AtCall
  <2>2. p = "parent"
    BY <1>1, <2>1 DEF SignalInv, SignalTypes
  <2>3. /\ Len(Text["parent"]) = 4 /\ Text["parent"][1][1] = "alarm" /\ Text["parent"][1][2] = 2
        /\ \A k \in 2 .. 4 : Text["parent"][k][1] = "sleep" /\ Text["parent"][k][2] = 100
    BY TextSignal
  <2>4. pc["parent"] \in 0 .. 3
    BY <2>1, <2>2, <2>3
  <2>5. CASE pc["parent"] \in 1 .. 3
    <3>1. pc["parent"] + 1 \in 2 .. 4
      BY <2>5
    <3> QED BY <2>1, <2>2, <2>3, <2>5, <3>1 DEF Call
  <2> QED BY <2>1, <2>2, <2>3, <2>4, <2>5 DEF Call
<1>3. ASSUME NEW p \in Procs, Process(p) PROVE SignalInv'
  <2>1. CASE DoAlarm(p)
    <3>1. /\ p = "parent" /\ pc["parent"] = 0 /\ Call(p)[2] = 2
      BY <1>2, <2>1 DEF DoAlarm
    <3>2. /\ pc'["parent"] = 1 /\ alarm' = clock + 2
          /\ UNCHANGED <<clock, state, wake, pending, pipe, printed, keys>>
      BY <1>1, <2>1, <3>1 DEF DoAlarm, Done
    <3>3. SignalTypes' /\ Rings' = Rings
      <4>1. Rings' = Rings
        BY <3>2 DEF Rings
      <4> QED BY <3>2, <4>1 DEF SignalInv, SignalTypes
    <3>4. clock = 0 /\ Rings = 0 /\ state["parent"] = "runs" /\ "SIGALRM" \notin pending
      BY <3>1 DEF SignalInv, SignalStart
    <3> QED BY <3>2, <3>3, <3>4 DEF SignalInv, SignalStart, SignalClock, SignalEnd, Rung, Begun
  <2>2. CASE DoSleep(p)
    <3>1. p = "parent" /\ pc["parent"] \in 1 .. 3 /\ state["parent"] = "runs" /\ Call(p)[2] = 100
      BY <1>2, <2>2 DEF DoSleep
    <3>2. /\ pc'["parent"] = pc["parent"] + 1 /\ state'["parent"] = "sleeps"
          /\ wake'["parent"] = clock + 100 /\ \A c \in Children : state'[c] = state[c]
          /\ UNCHANGED <<clock, pending, alarm, pipe, printed, keys>>
      BY <1>1, <2>2, <3>1 DEF DoSleep, Done, Becomes
    <3>3. SignalTypes' /\ Rings' = Rings /\ Rings \in Nat /\ clock \in Nat
      BY <3>1, <3>2 DEF SignalInv, SignalTypes, Rings
    <3> QED BY <3>1, <3>2, <3>3 DEF SignalInv, SignalStart, SignalClock, SignalEnd, Rung, Begun
  <2>3. CASE WakeUp(p)
    <3>1. p = "parent" /\ state["parent"] = "sleeps" /\ wake["parent"] =< clock
      BY <1>1, <2>3 DEF WakeUp, SignalInv, SignalTypes
    <3>2. Rings \in Nat /\ clock \in Nat /\ pc["parent"] \in 0 .. 4 /\ clock >= 100
      <4>1. wake["parent"] \in Nat /\ wake["parent"] >= 100
        BY <3>1 DEF SignalInv, SignalTypes
      <4> QED BY <1>0, <3>1, <4>1
    <3>3. pc["parent"] > 0
      BY <3>1, <3>2 DEF SignalInv, SignalStart
    <3> QED BY <3>1, <3>2, <3>3 DEF SignalInv, SignalClock, Rung, Begun
  <2>4. CASE Exit(p)
    <3>1. p = "parent"
      BY <1>1, <2>4, Exits DEF SignalInv, SignalTypes
    <3>2. /\ pc["parent"] = 4 /\ state["parent"] = "runs" /\ alarm' = 0 /\ state'["parent"] = "gone"
          /\ \A c \in Children : state'[c] = state[c]
          /\ UNCHANGED <<clock, pc, wake, pending, printed>>
      BY <1>1, <2>4, <3>1, Exits, TextSignal
    <3>3. SignalTypes' /\ Rings' = Rings /\ Rings \in Nat /\ clock \in Nat
      <4>1. Rings' = Rings
        BY <3>2 DEF Rings
      <4> QED BY <1>0, <3>2, <4>1 DEF SignalInv, SignalTypes
    <3> QED BY <3>2, <3>3 DEF SignalInv, SignalStart, SignalClock, SignalEnd, Rung, Begun
  <2>5. ASSUME NEW op \in {"fork", "wait", "poll", "join", "write", "read", "puts"}, At(p, op) PROVE FALSE
    BY <1>1, <1>2, <2>5
  <2> QED BY <1>3, <2>1, <2>2, <2>3, <2>4, <2>5
          DEF Process, DoFork, DoWait, DoPoll, DoJoin, DoWrite, DoRead, DoPuts
<1>4. CASE read_childproc
  BY <1>4 DEF read_childproc, SignalInv, SignalTypes
<1>5. CASE timeout
  <2>1. /\ "SIGALRM" \in pending /\ Alive("parent") /\ pending' = pending \ {"SIGALRM"}
        /\ alarm' = clock + 2 /\ state'["parent"] = "runs" /\ \A c \in Children : state'[c] = state[c]
        /\ printed'["parent"] = Append(printed["parent"], "Time out!")
        /\ UNCHANGED <<clock, pc, wake>>
    BY <1>1, <1>5 DEF timeout, Becomes
  <2>2. printed["parent"] \in TimeOuts
    BY DEF SignalInv, SignalTypes
  <2>3. printed'["parent"] \in TimeOuts /\ Rings' = Rings + 1
    <3> DEFINE lines == printed["parent"]
               S     == {"Time out!"}
    <3>2. lines \in Seq(S) /\ "Time out!" \in S
      BY <2>2 DEF TimeOuts
    <3>3. printed'["parent"] = Append(lines, "Time out!") /\ Rings = Len(lines)
      BY <2>1 DEF Rings
    <3> HIDE DEF lines, S
    <3>1. Append(lines, "Time out!") \in Seq(S) /\ Len(Append(lines, "Time out!")) = Len(lines) + 1
      BY <3>2, OneMore
    <3>4. printed'["parent"] \in Seq(S) /\ Rings' = Rings + 1
      BY <3>1, <3>3 DEF Rings
    <3> QED BY <3>4 DEF TimeOuts, S
  <2>4. SignalTypes'
    <3>1. Rings' \in Nat
      BY <1>0, <2>3
    <3>2. pending' \subseteq {"SIGALRM", "SIGINT"} /\ (program' = "sigaction" => "SIGINT" \notin pending')
      BY <2>1 DEF SignalInv, SignalTypes
    <3>3. \A c \in Children : state'[c] = "unborn"
      BY <2>1 DEF SignalInv, SignalTypes
    <3> QED BY <1>0, <2>1, <2>3, <3>1, <3>2, <3>3 DEF SignalTypes
  <2>5. pc["parent"] # 0 /\ state["parent"] # "gone"
    BY <2>1 DEF SignalInv, SignalStart, Alive
  <2>6. /\ clock = 2 * Rings + 2 /\ Rings + 1 =< Begun
        /\ program = "sigaction" => state["parent"] = "sleeps" /\ Rings + 1 = Begun
    <3>3. pc["parent"] > 0
      BY <1>0, <2>5
    <3>4. /\ \/ alarm = 2 * Rings + 2 /\ "SIGALRM" \notin pending /\ (Rung \/ clock = 2 * Rings)
             \/ alarm = 0 /\ "SIGALRM" \in pending /\ Rung
          /\ (Rung \/ state["parent"] = "sleeps") => Rings + 1 =< Begun
      BY <2>5, <3>3 DEF SignalInv, SignalClock
    <3>1. Rung /\ Rings + 1 =< Begun
      BY <2>1, <3>4
    <3>2. program = "sigaction" => state["parent"] = "sleeps" /\ Rings + 1 = Begun
      BY <1>0, <2>5, <3>1, <3>3 DEF SignalInv, SignalClock
    <3> QED BY <3>1, <3>2 DEF Rung
  <2>7. Rings' = Rings + 1 /\ Rings' \in Nat /\ clock' = 2 * Rings' /\ alarm' = 2 * Rings' + 2 /\ Begun' = Begun
    <3>1. Begun' = Begun
      BY <2>1 DEF Begun
    <3>2. Rings' = Rings + 1 /\ clock' = clock /\ alarm' = clock + 2 /\ clock = 2 * Rings + 2
      BY <2>1, <2>3, <2>6
    <3> QED BY ONLY <1>0, <3>1, <3>2
  <2>8. ~Rung' /\ "SIGALRM" \notin pending' /\ pc'["parent"] # 0 /\ Rings' =< Begun'
    <3>1. clock' # 2 * Rings' + 2 /\ Rings' =< Begun'
      <4>1. Rings + 1 =< Begun
        BY <2>6
      <4> QED BY ONLY <1>0, <2>7, <4>1
    <3> QED BY <2>1, <2>5, <3>1 DEF Rung
  <2>9. program' = "sigaction" => Rings' = Begun'
    BY <2>6, <2>7
  <2>10. SignalStart'
    BY <2>8 DEF SignalStart
  <2>11. SignalEnd'
    BY <2>1 DEF SignalEnd
  <2>12. SignalClock'
    BY <2>1, <2>7, <2>8, <2>9 DEF SignalClock
  <2> QED BY <2>4, <2>10, <2>11, <2>12 DEF SignalInv
<1>6. CASE keycontrol
  <2>1. /\ "SIGINT" \in pending /\ Alive("parent") /\ pending' = pending \ {"SIGINT"}
        /\ state'["parent"] = "runs" /\ \A c \in Children : state'[c] = state[c]
        /\ UNCHANGED <<clock, pc, wake, alarm, printed>>
    BY <1>1, <1>6 DEF keycontrol, Becomes
  <2>2. SignalTypes' /\ Rings' = Rings /\ Rings \in Nat /\ clock \in Nat /\ program = "signal"
    BY <2>1 DEF SignalInv, SignalTypes, Rings
  <2>3. state["parent"] # "gone"
    BY <2>1 DEF Alive
  <2> QED BY <2>1, <2>2, <2>3 DEF SignalInv, SignalStart, SignalClock, SignalEnd, Rung, Begun
<1>7. CASE Press
  BY <1>7 DEF Press, SignalInv, SignalTypes, SignalStart, SignalClock, SignalEnd, Rung, Begun, Rings
<1>8. CASE Ring
  <2>1. /\ alarm # 0 /\ alarm =< clock /\ pending' = pending \cup {"SIGALRM"} /\ alarm' = 0
        /\ UNCHANGED <<clock, pc, state, wake, printed>>
    BY <1>8 DEF Ring
  <2>2. SignalTypes' /\ Rings' = Rings /\ Rings \in Nat /\ clock \in Nat
    BY <2>1 DEF SignalInv, SignalTypes, Rings
  <2>3. state["parent"] # "gone" /\ pc["parent"] # 0
    BY <2>1 DEF SignalInv, SignalStart, SignalEnd
  <2> QED BY <2>1, <2>2, <2>3 DEF SignalInv, SignalStart, SignalClock, SignalEnd, Rung, Begun
<1>9. CASE Tick
  <2>1. state["parent"] # "runs"
    BY <1>1, <1>2, <1>9, Ticks DEF Blocked, Alive
  <2>2. clock' > clock /\ UNCHANGED <<pc, state, wake, pending, alarm, printed>>
    BY <1>9, Ticks
  <2>3. state["parent"] = "sleeps"
    <3>1. ASSUME state["parent"] = "gone" PROVE FALSE
      <4>1. alarm = 0 /\ \A p \in Procs : state[p] # "sleeps"
        BY <1>1, <3>1 DEF SignalInv, SignalTypes, SignalEnd
      <4> QED BY <1>9, <4>1, Ticks
    <3> QED BY <2>1, <3>1 DEF SignalInv, SignalTypes
  <2>4. /\ pending = {} /\ Rings \in Nat /\ clock \in Nat /\ pc["parent"] \in 0 .. 4
        /\ wake["parent"] \in Nat /\ wake["parent"] >= 100
    BY <1>9, <2>3, Ticks DEF Alive, SignalInv, SignalTypes
  <2>5. /\ alarm = 2 * Rings + 2 /\ (Rung \/ clock = 2 * Rings) /\ Rings + 1 =< Begun
        /\ program = "sigaction" => Rings + 1 = Begun
    BY <2>3, <2>4 DEF SignalInv, SignalStart, SignalClock
  <2>6. Rings =< 2 /\ alarm \in Nat /\ alarm # 0 /\ alarm < 100
    BY <2>4, <2>5 DEF Begun
  <2>7. clock' =< alarm /\ (clock' = alarm \/ clock' = wake["parent"])
    BY <1>1, <1>9, <2>6, Ticks DEF SignalInv, SignalTypes
  <2>8. clock' = alarm
    BY <2>4, <2>6, <2>7
  <2>9. SignalTypes' /\ Rings' = Rings /\ Begun' = Begun
    BY <2>2, <2>4, <2>6, <2>8 DEF SignalInv, SignalTypes, Rings, Begun
  <2> QED BY <2>2, <2>3, <2>4, <2>5, <2>8, <2>9 DEF SignalInv, SignalStart, SignalClock, SignalEnd, Rung
<1> QED BY <1>3, <1>4, <1>5, <1>6, <1>7, <1>8, <1>9 DEF Runs, Types, Now

-----------------------------------------------------------------------------
(* The programs together.                                                    *)
ProcInv ==
  /\ ProcShape
  /\ program = "wait"          => WaitInv
  /\ program = "waitpid"       => WaitpidInv
  /\ program = "zombie"        => ZombieInv
  /\ program = "remove_zombie" => RemoveInv
  /\ program = "pipe1"         => PipeOneInv
  /\ program = "pipe2"         => PipeTwoInv
  /\ program = "pipe3"         => PipeThreeInv
  /\ HasThreads                => ThreadInv
  /\ program = "thread1"       => ThreadClock
  /\ program \in {"signal", "sigaction"} => SignalInv

(* Where every program begins: only the parent runs, at its first call, and  *)
(* nothing was written, printed or raised.                                   *)
LEMMA ProcBegins ==
  ASSUME ProcInit
  PROVE  ProcInv
<1>1. /\ pc = [p \in Procs |-> 0] /\ wake = [p \in Procs |-> 0] /\ pipe = [i \in 1 .. 2 |-> << >>]
      /\ printed = [p \in Procs |-> << >>]
      /\ state = [p \in Procs |-> IF p = "parent" THEN "runs" ELSE "unborn"]
  BY DEF ProcInit, Nothing
<1>2. /\ Procs = {"one", "two", "parent"} /\ Children = {"one", "two"}
  BY DEF Procs, Children
<1>3. /\ clock = 0 /\ alarm = 0 /\ pending = {}
      /\ pc["parent"] = 0 /\ pc["one"] = 0 /\ pc["two"] = 0
      /\ state["parent"] = "runs" /\ state["one"] = "unborn" /\ state["two"] = "unborn"
      /\ pipe[1] = << >> /\ pipe[2] = << >>
      /\ printed["parent"] = << >> /\ printed["one"] = << >>
  BY <1>1, <1>2 DEF ProcInit
<1>4. ProcShape
  <2>1. pc \in [Procs -> Nat] /\ state \in [Procs -> States]
    BY <1>1 DEF States
  <2>2. /\ wake = [p \in Procs |-> wake[p]] /\ pipe = [i \in 1 .. 2 |-> pipe[i]]
        /\ printed = [p \in Procs |-> printed[p]]
    BY <1>1
  <2> QED BY <2>1, <2>2 DEF ProcShape
<1>5. WaitInv /\ WaitpidInv /\ ZombieInv
  BY <1>2, <1>3 DEF WaitInv, WaitpidInv, ZombieInv
<1>6. PipeOneInv /\ PipeTwoInv /\ PipeThreeInv
  BY <1>3 DEF PipeOneInv, PipeTwoInv, PipeThreeInv
<1>7. RemoveInv
  BY <1>2, <1>3 DEF RemoveInv, NoneYet
<1>8. ThreadInv /\ ThreadClock
  <2>1. Len(printed["one"]) = 0 /\ printed["one"] \in Seq({"line"})
    BY <1>3
  <2> QED BY <1>3, <2>1 DEF ThreadInv, ThreadClock
<1>9. SignalInv
  <2>1. Rings = 0 /\ printed["parent"] \in TimeOuts
    BY <1>3 DEF Rings, TimeOuts
  <2> QED BY <1>2, <1>3, <2>1 DEF SignalInv, SignalTypes, SignalStart, SignalClock, SignalEnd
<1> QED BY <1>4, <1>5, <1>6, <1>7, <1>8, <1>9 DEF ProcInv

(* A step that leaves the program and its variables alone.                   *)
LEMMA ProcUntouched ==
  ASSUME ProcInv, program' = program, UNCHANGED procVars
  PROVE  ProcInv'
<1>1. UNCHANGED <<clock, pc, state, wake, pending, alarm, pipe, printed>>
  BY DEF procVars
<1>2. ProcShape' = ProcShape /\ WaitInv' = WaitInv /\ WaitpidInv' = WaitpidInv /\ ZombieInv' = ZombieInv
  BY <1>1 DEF ProcShape, WaitInv, WaitpidInv, ZombieInv
<1>3. PipeOneInv' = PipeOneInv /\ PipeTwoInv' = PipeTwoInv /\ PipeThreeInv' = PipeThreeInv
  BY <1>1 DEF PipeOneInv, PipeTwoInv, PipeThreeInv
<1>4. RemoveInv' = RemoveInv /\ HasThreads' = HasThreads /\ ThreadInv' = ThreadInv /\ ThreadClock' = ThreadClock
  BY <1>1 DEF RemoveInv, NoneYet, HasThreads, ThreadInv, ThreadClock
<1>5. SignalInv' = SignalInv
  BY <1>1 DEF SignalInv, SignalTypes, SignalStart, SignalClock, SignalEnd, Rung, Begun, Rings
<1> QED BY <1>2, <1>3, <1>4, <1>5 DEF ProcInv

(* A call of the program.                                                    *)
LEMMA ProcCalled ==
  ASSUME ProcInv, program' = program, Runs \/ Types
  PROVE  ProcInv'
<1>1. ProcShape /\ ProcShape'
  BY ShapeKept DEF ProcInv
<1>2. program = "wait" => WaitInv'
  BY <1>1, WaitKeeps DEF ProcInv
<1>3. program = "waitpid" => WaitpidInv'
  BY <1>1, WaitpidKeeps DEF ProcInv
<1>4. program = "zombie" => ZombieInv'
  BY <1>1, ZombieKeeps DEF ProcInv
<1>5. program = "remove_zombie" => RemoveInv'
  BY <1>1, RemoveKeeps DEF ProcInv
<1>6. program = "pipe1" => PipeOneInv'
  BY <1>1, PipeOneKeeps DEF ProcInv
<1>7. program = "pipe2" => PipeTwoInv'
  BY <1>1, PipeTwoKeeps DEF ProcInv
<1>8. program = "pipe3" => PipeThreeInv'
  BY <1>1, PipeThreeKeeps DEF ProcInv
<1>9. HasThreads' = HasThreads /\ (program = "thread1" => HasThreads)
  BY DEF HasThreads
<1>10. HasThreads => ThreadInv' /\ (program = "thread1" => ThreadClock')
  BY <1>1, ThreadKeeps DEF ProcInv
<1>11. program \in {"signal", "sigaction"} => SignalInv'
  BY <1>1, SignalKeeps DEF ProcInv
<1> QED BY <1>1, <1>2, <1>3, <1>4, <1>5, <1>6, <1>7, <1>8, <1>9, <1>10, <1>11 DEF ProcInv

(* Each of the processes' programs keeps its own invariant, of where every   *)
(* process is, of what is in the pipes and of what the clock says.           *)
THEOREM ProcInductive == ExSpec => []ProcInv
<1>1. ExInit => ProcInv
  BY ProcBegins DEF ExInit
<1>2. ProcInv /\ [ExNext]_exVars => ProcInv'
  <2> SUFFICES ASSUME ProcInv, [ExNext]_exVars PROVE ProcInv'
    OBVIOUS
  <2>1. CASE (Runs \/ Types) /\ Calls
    BY <2>1, ProcCalled DEF Calls
  <2>2. CASE UNCHANGED <<program, procVars>>
    BY <2>2, ProcUntouched
  <2> QED BY <2>1, <2>2 DEF ExNext, exVars, Alternates, Counts, Halves, Logging
<1> QED BY <1>1, <1>2, PTL DEF ExSpec

(* wait.c, waitpid.c, remove_zombie.c, zombie.c: the parent that ends has    *)
(* removed as many children as it waits for, in whatever order they ended.   *)
THEOREM ChildrenRemovedCorrect == ExSpec => []ChildrenRemoved
<1>1. ProcInv => ChildrenRemoved
  <2> SUFFICES ASSUME ProcInv, state["parent"] = "gone" PROVE ChildrenRemoved
    BY DEF ChildrenRemoved, ParentGone
  <2>1. CASE program = "wait"
    BY <2>1 DEF ProcInv, WaitInv, ChildrenRemoved, Removed, Children
  <2>2. CASE program = "waitpid"
    BY <2>2 DEF ProcInv, WaitpidInv, ChildrenRemoved, Removed
  <2>3. CASE program = "zombie"
    BY <2>3 DEF ProcInv, ZombieInv, ChildrenRemoved
  <2>4. CASE program = "remove_zombie"
    <3>1. RemoveInv
      BY <2>4 DEF ProcInv
    <3>2. ~NoneYet
      BY DEF NoneYet
    <3> QED BY <2>4, <3>1, <3>2 DEF RemoveInv, ChildrenRemoved, Removed
  <2>5. CASE program \notin {"wait", "waitpid", "zombie", "remove_zombie"}
    BY <2>5 DEF ChildrenRemoved
  <2> QED BY <2>1, <2>2, <2>3, <2>4, <2>5
<1> QED BY <1>1, ProcInductive, PTL

(* pipe1.c to pipe3.c, thread1.c, thread2.c, signal.c, sigaction.c: the      *)
(* sleeps are long enough, however often CTRL+C is pressed (any MaxKeys).    *)
THEOREM SleepsSufficeCorrect == ExSpec => []SleepsSuffice
<1>1. ProcInv => SleepsSuffice
  <2> SUFFICES ASSUME ProcInv, state["parent"] = "gone" PROVE SleepsSuffice
    BY DEF SleepsSuffice, ParentGone
  <2>1. CASE program = "pipe1"
    BY <2>1 DEF ProcInv, PipeOneInv, SleepsSuffice, HasThreads
  <2>2. CASE program = "pipe2"
    <3>1. PipeTwoInv
      BY <2>2 DEF ProcInv
    <3>2. pc["parent"] = 4 /\ clock = 3 /\ pc["one"] = 3
      BY <3>1 DEF PipeTwoInv
    <3>3. printed["parent"] = <<"who">> /\ printed["one"] = <<"thanks">>
      BY <3>1, <3>2 DEF PipeTwoInv
    <3> QED BY <2>2, <3>3 DEF SleepsSuffice, HasThreads
  <2>3. CASE program = "pipe3"
    <3>1. PipeThreeInv
      BY <2>3 DEF ProcInv
    <3>2. pc["parent"] = 4 /\ clock = 3 /\ pc["one"] = 2
      BY <3>1 DEF PipeThreeInv
    <3>3. printed["parent"] = <<"who">> /\ printed["one"] = <<"thanks">>
      BY <3>1, <3>2 DEF PipeThreeInv
    <3> QED BY <2>3, <3>3 DEF SleepsSuffice, HasThreads
  <2>4. CASE HasThreads
    <3>1. ThreadInv /\ (program = "thread1" => ThreadClock)
      BY <2>4 DEF ProcInv
    <3>2. pc["parent"] = 2
      BY <3>1 DEF ThreadInv
    <3>3. state["one"] = "gone"
      <4>1. CASE program = "thread1"
        BY <3>1, <3>2, <4>1 DEF ThreadClock
      <4>2. CASE program = "thread2"
        BY <3>1, <3>2, <4>2 DEF ThreadInv
      <4> QED BY <2>4, <4>1, <4>2 DEF HasThreads
    <3>4. pc["one"] = 10
      BY <3>1, <3>2, <3>3 DEF ThreadInv
    <3>5. Len(printed["one"]) \in Nat /\ 2 * Len(printed["one"]) \in {10, 9}
      BY <3>1, <3>4 DEF ThreadInv
    <3> DEFINE lines == Len(printed["one"])
    <3>6. lines = 5
      <4>1. lines \in Nat /\ (2 * lines = 10 \/ 2 * lines = 9)
        BY <3>5
      <4> HIDE DEF lines
      <4> QED BY ONLY <4>1
    <3> QED BY <2>4, <3>6 DEF SleepsSuffice, HasThreads
  <2>5. CASE program \in {"signal", "sigaction"}
    <3>1. SignalEnd
      BY <2>5 DEF ProcInv, SignalInv
    <3>2. /\ clock =< 6 /\ Len(printed["parent"]) =< 3
          /\ program = "sigaction" => clock = 6 /\ Len(printed["parent"]) = 3
      BY <3>1 DEF SignalEnd, Rings
    <3> QED BY <2>5, <3>2 DEF SleepsSuffice, HasThreads
  <2>6. CASE ~HasThreads /\ program \notin {"pipe1", "pipe2", "pipe3", "signal", "sigaction"}
    BY <2>6 DEF SleepsSuffice
  <2> QED BY <2>1, <2>2, <2>3, <2>4, <2>5, <2>6
<1> QED BY <1>1, ProcInductive, PTL

=============================================================================
