----------------------------- MODULE Processes -----------------------------
(* Programs of a parent with up to two children, or of a main thread with    *)
(* another, that rely on wait, on signals and on the length of their sleeps: *)
(* week7/remove_zombie.c, wait.c, waitpid.c, zombie.c, pipe1.c, pipe2.c,     *)
(* pipe3.c, signal.c, sigaction.c, week10/thread1.c, thread2.c.  A program   *)
(* is what each of its processes does, call by call; the actions are the     *)
(* calls.  Time moves on when nobody can do anything before: the sleeps of   *)
(* these programs are meant to be long against everything else.              *)
EXTENDS Example, Integers, Sequences, FiniteSets

CONSTANT MaxKeys       \* how often the user presses CTRL+C

ASSUME ProcessesAssumption == MaxKeys \in Nat

VARIABLES
  clock,         \* seconds since the program began
  pc,            \* [process -> calls done]
  state,         \* [process -> "unborn", "runs", "sleeps", "zombie", "removed" or "gone"]
  wake,          \* [process -> when its sleep ends]
  pending,       \* signals the parent has not handled: a set, they do not queue
  alarm,         \* when SIGALRM is due, 0 for never
  pipe,          \* [1 .. 2 -> what was written and not yet read]
  printed,       \* [process -> what it read and printed, or its lines]
  keys           \* how often CTRL+C was pressed

procVars == <<clock, pc, state, wake, pending, alarm, pipe, printed, keys>>

Children == {"one", "two"}
Procs    == Children \cup {"parent"}

Forks(c)     == <<"fork", c>>
Sleeps(n)    == <<"sleep", n>>
Waits        == <<"wait">>
Polls(n)     == <<"poll", n>>      \* while(!waitpid(-1, .., WNOHANG)) sleep(n)
Joins        == <<"join">>
Writes(i, m) == <<"write", i, m>>
Reads(i)     == <<"read", i>>
Puts        == <<"puts">>
Alarms(n)    == <<"alarm", n>>
Times(n, s) == [i \in 1 .. n * Len(s) |-> s[1 + ((i - 1) % Len(s))]]

Nothing == [p \in Procs |-> << >>]
With(parent, one, two) == [Nothing EXCEPT !["parent"] = parent, !["one"] = one, !["two"] = two]

remove_zombie == With(<<Forks("one"), Forks("two")>> \o Times(5, <<Sleeps(5)>>), <<Sleeps(10)>>, <<Sleeps(10)>>)

\* Mutant: the second wait is forgotten.
waitOnce == With(<<Forks("one"), Forks("two"), Waits, Sleeps(30)>>, << >>, << >>)

wait    == With(<<Forks("one"), Forks("two"), Waits, Waits, Sleeps(30)>>, << >>, << >>)
waitpid == With(<<Forks("one"), Polls(3)>>, <<Sleeps(15)>>, << >>)
zombie  == With(<<Forks("one"), Sleeps(30)>>, << >>, << >>)
pipe1   == With(<<Forks("one"), Reads(1)>>, <<Writes(1, "who")>>, << >>)

pipe2   == With(<<Forks("one"), Reads(1), Writes(1, "thanks"), Sleeps(3)>>,
                <<Writes(1, "who"), Sleeps(2), Reads(1)>>, << >>)
pipe3   == With(<<Forks("one"), Reads(1), Writes(2, "thanks"), Sleeps(3)>>,
                <<Writes(1, "who"), Reads(2)>>, << >>)
thread1 == With(<<Forks("one"), Sleeps(10)>>, Times(5, <<Sleeps(1), Puts>>), << >>)
thread2 == With(<<Forks("one"), Joins>>, Times(5, <<Sleeps(1), Puts>>), << >>)
signal  == With(<<Alarms(2)>> \o Times(3, <<Sleeps(100)>>), << >>, << >>)
sigaction == With(<<Alarms(2)>> \o Times(3, <<Sleeps(100)>>), << >>, << >>)

Text ==
  CASE program = "remove_zombie" -> remove_zombie
    [] program = "wait"          -> wait
    [] program = "waitpid"       -> waitpid
    [] program = "zombie"        -> zombie
    [] program = "pipe1"         -> pipe1
    [] program = "pipe2"         -> pipe2
    [] program = "pipe3"         -> pipe3
    [] program = "thread1"       -> thread1
    [] program = "thread2"       -> thread2
    [] program = "signal"        -> signal
    [] program = "sigaction"     -> sigaction
    [] OTHER                     -> Nothing

ProcPrograms == {"remove_zombie", "wait", "waitpid", "zombie", "pipe1", "pipe2", "pipe3",
                 "thread1", "thread2", "signal", "sigaction"}
HasThreads == program \in {"thread1", "thread2"}

ProcInit == /\ clock = 0 /\ keys = 0 /\ alarm = 0 /\ pending = {}
            /\ pc = [p \in Procs |-> 0]
            /\ state = [p \in Procs |-> IF p = "parent" THEN "runs" ELSE "unborn"]
            /\ wake = [p \in Procs |-> 0]
            /\ pipe = [i \in 1 .. 2 |-> << >>]
            /\ printed = Nothing

-----------------------------------------------------------------------------
Zombies   == {c \in Children : state[c] = "zombie"}
Alive(p)  == state[p] \in {"runs", "sleeps"}
Call(p)   == Text[p][pc[p] + 1]
At(p, op) == state[p] = "runs" /\ pc[p] < Len(Text[p]) /\ Call(p)[1] = op
Done(p)   == pc' = [pc EXCEPT ![p] = @ + 1]
Becomes(p, s) == state' = [state EXCEPT ![p] = s]

DoFork(p) ==
  /\ At(p, "fork") /\ Done(p)
  /\ state' = [state EXCEPT ![Call(p)[2]] = "runs"]
  /\ UNCHANGED <<clock, wake, pending, alarm, pipe, printed, keys>>

DoSleep(p) ==
  /\ At(p, "sleep") /\ Done(p)
  /\ Becomes(p, "sleeps") /\ wake' = [wake EXCEPT ![p] = clock + Call(p)[2]]
  /\ UNCHANGED <<clock, pending, alarm, pipe, printed, keys>>

WakeUp(p) ==
  /\ state[p] = "sleeps" /\ wake[p] =< clock /\ Becomes(p, "runs")
  /\ UNCHANGED <<clock, pc, wake, pending, alarm, pipe, printed, keys>>

DoWait(p) ==
  /\ At(p, "wait") /\ Done(p)
  /\ \E c \in Zombies : Becomes(c, "removed")
  /\ UNCHANGED <<clock, wake, pending, alarm, pipe, printed, keys>>

(* A turn of the loop: there is a zombie, and the loop ends, or there is not *)
(* and the process sleeps before it asks again.                              *)
DoPoll(p) ==
  /\ At(p, "poll")
  /\ \/ /\ Done(p) /\ UNCHANGED wake
        /\ \E c \in Zombies : Becomes(c, "removed")
     \/ /\ Zombies = {} /\ UNCHANGED pc
        /\ Becomes(p, "sleeps") /\ wake' = [wake EXCEPT ![p] = clock + Call(p)[2]]
  /\ UNCHANGED <<clock, pending, alarm, pipe, printed, keys>>

DoJoin(p) ==
  /\ At(p, "join") /\ state["one"] = "gone" /\ Done(p)
  /\ UNCHANGED <<clock, state, wake, pending, alarm, pipe, printed, keys>>

DoWrite(p) ==
  /\ At(p, "write") /\ Done(p)
  /\ pipe' = [pipe EXCEPT ![Call(p)[2]] = Append(@, Call(p)[3])]
  /\ UNCHANGED <<clock, state, wake, pending, alarm, printed, keys>>

(* One read takes all there is.                                              *)
DoRead(p) ==
  /\ At(p, "read") /\ Done(p)
  /\ pipe[Call(p)[2]] # << >>
  /\ printed' = [printed EXCEPT ![p] = @ \o pipe[Call(p)[2]]]
  /\ pipe' = [pipe EXCEPT ![Call(p)[2]] = << >>]
  /\ UNCHANGED <<clock, state, wake, pending, alarm, keys>>

DoPuts(p) ==
  /\ At(p, "puts") /\ Done(p)
  /\ printed' = [printed EXCEPT ![p] = Append(@, "line")]
  /\ UNCHANGED <<clock, state, wake, pending, alarm, pipe, keys>>

DoAlarm(p) ==
  /\ At(p, "alarm") /\ Done(p)
  /\ alarm' = clock + Call(p)[2]
  /\ UNCHANGED <<clock, state, wake, pending, pipe, printed, keys>>

(* A process that has come to its end: a child is a zombie and raises        *)
(* SIGCHLD, unless its parent is gone; main's end is the end of the threads. *)
Exit(p) ==
  /\ state[p] = "runs" /\ pc[p] = Len(Text[p])
  /\ LET end  == IF p \in Children /\ ~HasThreads /\ Alive("parent") THEN "zombie" ELSE "gone"
         ends == IF p = "parent" /\ HasThreads THEN Procs ELSE {p}
     IN state' = [q \in Procs |-> IF q \in ends THEN end ELSE state[q]]
  /\ pending' = IF p \in Children /\ program = "remove_zombie" /\ Alive("parent")
                THEN pending \cup {"SIGCHLD"} ELSE pending
  /\ alarm' = IF p = "parent" THEN 0 ELSE alarm
  /\ UNCHANGED <<clock, pc, wake, pipe, printed, keys>>

(* The handlers: if the parent was asleep its sleep is over.                 *)
(* read_childproc: one waitpid(-1, .., WNOHANG).                             *)
read_childproc ==
  /\ "SIGCHLD" \in pending /\ Alive("parent")
  /\ pending' = pending \ {"SIGCHLD"}
  /\ LET awake == [state EXCEPT !["parent"] = "runs"]
     IN IF Zombies = {} THEN state' = awake
        ELSE \E c \in Zombies : state' = [awake EXCEPT ![c] = "removed"]
  /\ UNCHANGED <<clock, pc, wake, alarm, pipe, printed, keys>>

\* Mutant: the handler does not set the next alarm.
timeoutOnce ==
  /\ "SIGALRM" \in pending /\ Alive("parent")
  /\ pending' = pending \ {"SIGALRM"}
  /\ printed' = [printed EXCEPT !["parent"] = Append(@, "Time out!")]
  /\ alarm' = 0
  /\ Becomes("parent", "runs")
  /\ UNCHANGED <<clock, pc, wake, pipe, keys>>

(* timeout: puts("Time out!") and the next alarm.                            *)
timeout ==
  /\ "SIGALRM" \in pending /\ Alive("parent")
  /\ pending' = pending \ {"SIGALRM"}
  /\ printed' = [printed EXCEPT !["parent"] = Append(@, "Time out!")]
  /\ alarm' = clock + 2
  /\ Becomes("parent", "runs")
  /\ UNCHANGED <<clock, pc, wake, pipe, keys>>

keycontrol ==
  /\ "SIGINT" \in pending /\ Alive("parent")
  /\ pending' = pending \ {"SIGINT"}
  /\ Becomes("parent", "runs")
  /\ UNCHANGED <<clock, pc, wake, alarm, pipe, printed, keys>>

Press ==
  /\ program = "signal" /\ keys < MaxKeys /\ Alive("parent")
  /\ keys' = keys + 1 /\ pending' = pending \cup {"SIGINT"}
  /\ UNCHANGED <<clock, pc, state, wake, alarm, pipe, printed>>

Ring ==
  /\ alarm # 0 /\ alarm =< clock
  /\ pending' = pending \cup {"SIGALRM"} /\ alarm' = 0
  /\ UNCHANGED <<clock, pc, state, wake, pipe, printed, keys>>

Process(p) == \/ DoFork(p) \/ DoSleep(p) \/ WakeUp(p) \/ DoWait(p) \/ DoPoll(p) \/ DoJoin(p)
              \/ DoWrite(p) \/ DoRead(p) \/ DoPuts(p) \/ DoAlarm(p) \/ Exit(p)

(* Who has nothing to do before something happens: a wait without a zombie,  *)
(* a join before the thread's end, a read of a pipe that every process keeps *)
(* open for writing.                                                         *)
Blocked(p) == \/ ~Alive(p)
              \/ state[p] = "sleeps" /\ wake[p] > clock
              \/ At(p, "wait") /\ Zombies = {}
              \/ At(p, "join") /\ state["one"] # "gone"
              \/ At(p, "read") /\ pipe[Call(p)[2]] = << >>

Idle == /\ \A p \in Procs : Blocked(p)
        /\ Alive("parent") => pending = {}
        /\ alarm = 0 \/ alarm > clock

Now == (\E p \in Procs : Process(p)) \/ read_childproc \/ timeout \/ keycontrol \/ Ring

(* The clock goes to the next moment at which something is due.              *)
Due  == {wake[p] : p \in {q \in Procs : state[q] = "sleeps"}} \cup ({alarm} \ {0})
Tick == /\ Idle
        /\ \E t \in Due : t > clock /\ (\A u \in Due : t =< u) /\ clock' = t
        /\ UNCHANGED <<pc, state, wake, pending, alarm, pipe, printed, keys>>

Runs  == program \in ProcPrograms /\ (Now \/ Tick)
Types == program \in ProcPrograms /\ Press

AllGone == \A p \in Procs : ~Alive(p)

-----------------------------------------------------------------------------
ParentGone  == state["parent"] = "gone"
Removed(c)  == state[c] = "removed"

(* When the parent ends it has removed as many children as the program waits *)
(* for: both, the one, of two that end together at least one; or, to show    *)
(* what becomes of it, none.                                                 *)
ChildrenRemoved ==
  ParentGone =>
    CASE program = "wait"          -> \A c \in Children : Removed(c)
      [] program = "waitpid"       -> Removed("one")
      [] program = "remove_zombie" -> \E c \in Children : Removed(c)
      [] program = "zombie"        -> state["one"] = "zombie"
      [] OTHER                     -> TRUE

(* What the program's own comment shows: two processes removed.              *)
BothRemoved == ParentGone /\ program = "remove_zombie" => \A c \in Children : Removed(c)

(* The sleeps are long enough for their purpose: each end of a pipe reads    *)
(* what the other wrote, and not its own question; a thread prints its five  *)
(* lines before main ends; an alarm that is set again cuts each sleep short, *)
(* at every second second and never later, CTRL+C or not.                    *)
SleepsSuffice ==
  ParentGone =>
    CASE program = "pipe1" -> printed["parent"] = <<"who">>
      [] program \in {"pipe2", "pipe3"} -> /\ printed["parent"] = <<"who">>
                                           /\ printed["one"] = <<"thanks">>
      [] HasThreads -> Len(printed["one"]) = 5
      [] program = "signal"    -> clock =< 6 /\ Len(printed["parent"]) =< 3
      [] program = "sigaction" -> clock = 6 /\ Len(printed["parent"]) = 3
      [] OTHER -> TRUE
=============================================================================
