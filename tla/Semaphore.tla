----------------------------- MODULE Semaphore -----------------------------
(* week10/semaphore.c: one thread reads numbers into the shared variable num *)
(* and another adds them up; two semaphores, sem_one counting the numbers to *)
(* be added and sem_two the room for the next one, make them take turns.     *)
EXTENDS Integers

CONSTANTS
  Rounds,        \* turns of both loops: 5 in the program
  Inputs         \* what the user may type

ASSUME SemaphoreAssumption == Rounds \in Nat /\ Inputs \subseteq Int

VARIABLES
  sem_one, sem_two, num,       \* the globals
  rpc, ri,                     \* thread read: where it is, its i
  apc, ai, sum,                \* thread accu: where it is, its i and sum
  typed                        \* history: the sum of what num was set to

readVars == <<rpc, ri>>
accuVars == <<apc, ai, sum>>
vars == <<sem_one, sem_two, num, readVars, accuVars, typed>>

\* Mutant: sem_init(&sem_two, 0, 2).
InitTwo == /\ sem_one = 0 /\ sem_two = 2
           /\ num = 0
           /\ rpc = "wait" /\ ri = 0
           /\ apc = "wait" /\ ai = 0 /\ sum = 0
           /\ typed = 0

Init == /\ sem_one = 0 /\ sem_two = 1
        /\ num = 0
        /\ rpc = "wait" /\ ri = 0
        /\ apc = "wait" /\ ai = 0 /\ sum = 0
        /\ typed = 0

\* Mutant: i <= 5.
ReadWaitSix == /\ rpc = "wait" /\ ri =< Rounds
               /\ sem_two > 0
               /\ sem_two' = sem_two - 1
               /\ rpc' = "scan"
               /\ UNCHANGED <<sem_one, num, ri, accuVars, typed>>

(* read: sem_wait(&sem_two); scanf("%d", &num); sem_post(&sem_one).          *)
ReadWait == /\ rpc = "wait" /\ ri < Rounds
            /\ sem_two > 0
            /\ sem_two' = sem_two - 1
            /\ rpc' = "scan"
            /\ UNCHANGED <<sem_one, num, ri, accuVars, typed>>

(* What is not a number leaves num as it is.                                 *)
ReadScan == /\ rpc = "scan"
            /\ num' \in Inputs \cup {num}
            /\ typed' = typed + num'
            /\ rpc' = "post"
            /\ UNCHANGED <<sem_one, sem_two, ri, accuVars>>

ReadPost == /\ rpc = "post"
            /\ sem_one' = sem_one + 1
            /\ ri' = ri + 1
            /\ rpc' = "wait"
            /\ UNCHANGED <<sem_two, num, accuVars, typed>>

Read == ReadWait \/ ReadScan \/ ReadPost

(* accu: sem_wait(&sem_one); sum += num; sem_post(&sem_two).                 *)
AccuWait == /\ apc = "wait" /\ ai < Rounds
            /\ sem_one > 0
            /\ sem_one' = sem_one - 1
            /\ apc' = "add"
            /\ UNCHANGED <<sem_two, num, readVars, ai, sum, typed>>

\* Mutant: sum =+ num.
AccuSet == /\ apc = "add"
           /\ sum' = num
           /\ apc' = "post"
           /\ UNCHANGED <<sem_one, sem_two, num, readVars, ai, typed>>

AccuAdd == /\ apc = "add"
           /\ sum' = sum + num
           /\ apc' = "post"
           /\ UNCHANGED <<sem_one, sem_two, num, readVars, ai, typed>>

AccuPost == /\ apc = "post"
            /\ sem_two' = sem_two + 1
            /\ ai' = ai + 1
            /\ apc' = "wait"
            /\ UNCHANGED <<sem_one, num, readVars, sum, typed>>

Accu == AccuWait \/ AccuAdd \/ AccuPost

(* Both loops are over: main joins the threads and ends.                     *)
Finished == ri = Rounds /\ rpc = "wait" /\ ai = Rounds /\ apc = "wait"
Join == Finished /\ UNCHANGED vars

Next == Read \/ Accu \/ Join

Spec == Init /\ [][Next]_vars
FairSpec == Spec /\ WF_vars(Read) /\ WF_vars(Accu)

-----------------------------------------------------------------------------
(* The semaphores are never negative and num is a number.                    *)
TypeOK == /\ sem_one \in Nat /\ sem_two \in Nat
          /\ num \in Int /\ typed \in Int /\ sum \in Int
          /\ rpc \in {"wait", "scan", "post"} /\ ri \in 0 .. Rounds
          /\ apc \in {"wait", "add", "post"} /\ ai \in 0 .. Rounds
          /\ rpc # "wait" => ri < Rounds
          /\ apc # "wait" => ai < Rounds

(* num has one user at a time: no number is overwritten before it is added   *)
(* and none is read while it is being written.                               *)
Alternate == ~(rpc \in {"scan", "post"} /\ apc \in {"add", "post"})

(* The result that accu prints is the sum of what was typed.                 *)
ResultRight == (ai = Rounds /\ apc = "wait") => sum = typed /\ ri = Rounds

=============================================================================
