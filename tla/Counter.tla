------------------------------ MODULE Counter ------------------------------
(* Two threads that change one variable:                                     *)
(*   week10/mutex.c     one adds 1 with the mutex held throughout its loop,  *)
(*                      the other takes 1 off with a lock for each turn      *)
(*   week10/thread4.c   the same without a mutex, with one thread of a kind  *)
(*                      where it has fifty (it calls pthreads but includes   *)
(*                      windows.h: its text is what is modelled)             *)
(*   week10/thread3.c   1 .. 5 and 6 .. 10 are added up without a mutex      *)
(* num+=1 is a load and a store; a compiler that keeps num in a register     *)
(* only makes fewer of them.                                                 *)
EXTENDS Example, Integers, Sequences

CONSTANT Ones          \* turns of the loops of mutex.c and thread4.c: 50000

ASSUME CounterAssumption == Ones \in Nat \ {0}

Free == 0

VARIABLES
  total,         \* the global: num or sum
  holder,        \* who holds the mutex, or Free
  at,            \* [thread -> "top", "locked", "loaded" or "stored"]
  turn,          \* [thread -> turns of its loop done]
  reg            \* [thread -> what it has loaded]

counterVars == <<total, holder, at, turn, reg>>

Threads == {1, 2}
Each(x) == [i \in 1 .. Ones |-> x]

(* What thread t adds, turn by turn: main creates the one that subtracts     *)
(* first, and gives thread_summation its two ranges.                         *)
Range3(t)  == [i \in 1 .. 5 |-> 5 * (t - 1) + i]
Addends(t) == IF program = "thread3" THEN Range3(t) ELSE Each(IF t = 1 THEN -1 ELSE 1)

(* Where the thread has the mutex: for its loop, for each turn, or nowhere.  *)
\* Mutant: thread_inc does not lock.
DesOnly(t) == IF program # "mutex" THEN "never" ELSE IF t = 1 THEN "turn" ELSE "never"

Locks(t) == IF program # "mutex" THEN "never" ELSE IF t = 1 THEN "turn" ELSE "loop"

CounterInit == /\ total = 0 /\ holder = Free
               /\ at = [t \in Threads |-> "top"]
               /\ turn = [t \in Threads |-> 0]
               /\ reg = [t \in Threads |-> 0]

More(t) == turn[t] < Len(Addends(t))
GoTo(t, where) == at' = [at EXCEPT ![t] = where]

Lock(t) ==
  /\ at[t] = "top" /\ holder = Free
  /\ CASE Locks(t) = "loop" -> turn[t] = 0
       [] Locks(t) = "turn" -> More(t)
       [] OTHER             -> FALSE
  /\ holder' = t /\ GoTo(t, "locked")
  /\ UNCHANGED <<total, turn, reg>>

Load(t) ==
  /\ More(t)
  /\ at[t] = (IF Locks(t) = "never" THEN "top" ELSE "locked")
  /\ reg' = [reg EXCEPT ![t] = total] /\ GoTo(t, "loaded")
  /\ UNCHANGED <<total, holder, turn>>

(* After the store a thread that locks for its loop goes on while it holds   *)
(* the mutex, the other kinds begin the next turn.                           *)
Store(t) ==
  /\ at[t] = "loaded"
  /\ total' = reg[t] + Addends(t)[turn[t] + 1]
  /\ turn' = [turn EXCEPT ![t] = @ + 1]
  /\ GoTo(t, CASE Locks(t) = "never" -> "top"
               [] Locks(t) = "loop" /\ turn'[t] < Len(Addends(t)) -> "locked"
               [] OTHER -> "stored")
  /\ UNCHANGED <<holder, reg>>

Unlock(t) ==
  /\ at[t] = "stored"
  /\ holder' = Free /\ GoTo(t, "top")
  /\ UNCHANGED <<total, turn, reg>>

Ended(t) == at[t] = "top" /\ ~More(t)

Thread(t) == Lock(t) \/ Load(t) \/ Store(t) \/ Unlock(t)

CounterPrograms == {"mutex", "thread3", "thread4"}
(* main joins both and prints the result.                                    *)
Joined == \A t \in Threads : Ended(t)
Count  == program \in CounterPrograms /\ (\E t \in Threads : Thread(t))

-----------------------------------------------------------------------------
(* With the mutex nothing is lost, and the thread that subtracts sees each   *)
(* time all of the other's additions or none of them.  Without it a program  *)
(* ends anywhere between two bounds: at worst one thread's first store and   *)
(* the other's last are all that is left.                                    *)
CounterRight ==
  CASE program = "mutex" ->
         /\ at[1] = "loaded" => reg[1] + turn[1] \in {0, Ones}
         /\ Joined => total = 0
    [] program = "thread3" -> Joined => 6 + 5 =< total /\ total =< 55
    [] program = "thread4" -> Joined => -Ones =< total /\ total =< Ones
    [] OTHER -> TRUE
=============================================================================
