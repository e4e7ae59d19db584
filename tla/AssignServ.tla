----------------------------- MODULE AssignServ ----------------------------
(* week7/assign_server.c: a calculator that forks a child for every request. *)
(* The child answers it and hands a line to the logger, a child of its own,  *)
(* through a pipe.  What the request is worth is left out: TcpCalc has it.   *)
(* The logger puts lines into a stream that it would flush at the end of the *)
(* pipe; the parent keeps the pipe open for ever.                            *)
EXTENDS Example, Integers, Sequences, FiniteSets

CONSTANTS
  Visitors,      \* runs of the TCP calculator's client
  LogRoom        \* lines that the pipe holds

ASSUME AssignAssumption == LogRoom \in Nat \ {0}

VARIABLES
  will,          \* [Visitors -> "asks", "bad" count, or "leaves"]: never changes
  visit,         \* [Visitors -> "away", "waiting", "answered", "gone"]
  queue,         \* connections waiting for accept
  clerk,         \* its child: "none", "reads", "answers", "logs", "zombie", "removed"
  due,           \* SIGCHLD is pending
  linesIn,       \* lines in the pipe, by the visitor they are about
  linesOut       \* lines the logger has taken

assignVars == <<will, visit, queue, clerk, due, linesIn, linesOut>>

AssignPrograms == {"assign_server"}

AssignInit == /\ will \in IF program \in AssignPrograms
                           THEN [Visitors -> {"asks", "bad", "leaves"}]
                           ELSE {[v \in Visitors |-> "asks"]}
              /\ visit = [v \in Visitors |-> "away"]
              /\ queue = << >>
              /\ clerk = [v \in Visitors |-> "none"]
              /\ due = FALSE
              /\ linesIn = << >> /\ linesOut = << >>

Dies(v) == clerk' = [clerk EXCEPT ![v] = "zombie"] /\ due' = TRUE
Steps(v, from, to) == clerk[v] = from /\ clerk' = [clerk EXCEPT ![v] = to] /\ UNCHANGED due

-----------------------------------------------------------------------------
(* tcp_client.c: only who asks waits for an answer.                          *)
Arrive(v) == /\ visit[v] = "away"
             /\ visit' = [visit EXCEPT ![v] = IF will[v] = "asks" THEN "waiting" ELSE "gone"]
             /\ queue' = Append(queue, v)
             /\ UNCHANGED <<will, clerk, due, linesIn, linesOut>>

(* The parent: accept, fork, close(clnt_sock).                               *)
Assign == /\ queue # << >>
          /\ clerk' = [clerk EXCEPT ![Head(queue)] = "reads"]
          /\ queue' = Tail(queue)
          /\ UNCHANGED <<will, visit, due, linesIn, linesOut>>

(* read_childproc: one waitpid for a signal.                                 *)
ReadChildproc ==
  /\ due /\ due' = FALSE
  /\ \E v \in Visitors :
       clerk[v] = "zombie" /\ clerk' = [clerk EXCEPT ![v] = "removed"]
  /\ UNCHANGED <<will, visit, queue, linesIn, linesOut>>

\* Mutant: a count that is not positive does not end the child.
ClerkReadsOn(v) ==
  /\ Steps(v, "reads", "answers")
  /\ UNCHANGED <<will, visit, queue, linesIn, linesOut>>

(* The child reads the request.  A count that is not positive takes it out   *)
(* of the loop, to its end; without a count opCount is what the stack held.  *)
ClerkReads(v) ==
  /\ \/ will[v] \in {"asks", "leaves"} /\ Steps(v, "reads", "answers")
     \/ will[v] \in {"bad", "leaves"} /\ clerk[v] = "reads" /\ Dies(v)
  /\ UNCHANGED <<will, visit, queue, linesIn, linesOut>>

(* write(clnt_sock, &result, 4).                                             *)
ClerkAnswers(v) ==
  /\ Steps(v, "answers", "logs")
  /\ visit' = [visit EXCEPT ![v] = IF @ = "waiting" THEN "answered" ELSE @]
  /\ UNCHANGED <<will, queue, linesIn, linesOut>>

(* write(fds[1], log, ..), which waits for room; wait(NULL) has no child to  *)
(* wait for; close and return.                                               *)
ClerkLogs(v) ==
  /\ clerk[v] = "logs" /\ Dies(v)
  /\ Len(linesIn) < LogRoom
  /\ linesIn' = Append(linesIn, v)
  /\ UNCHANGED <<will, visit, queue, linesOut>>

Clerk(v) == ClerkReads(v) \/ ClerkAnswers(v) \/ ClerkLogs(v)

(* read(fds[0], ..) and fwrite: of whatever is in the pipe.                  *)
LogLines == /\ linesIn # << >>
            /\ linesOut' = linesOut \o linesIn /\ linesIn' = << >>
            /\ UNCHANGED <<will, visit, queue, clerk, due>>

Everyone == \/ \E v \in Visitors : Arrive(v) \/ Clerk(v)
            \/ Assign \/ ReadChildproc \/ LogLines
Assigns  == program \in AssignPrograms /\ Everyone

(* Everybody has come, every child has ended and every line is the logger's. *)
AllServed == /\ \A v \in Visitors : visit[v] \notin {"away", "waiting"}
             /\ queue = << >> /\ linesIn = << >> /\ ~due
             /\ \A v \in Visitors : clerk[v] \in {"zombie", "removed"}

-----------------------------------------------------------------------------
(* In whatever order children answer, end and are removed: whoever is        *)
(* answered is logged, once and after the answer; a bad count is neither     *)
(* answered nor logged, and ends nobody but its own child.                   *)
LoggedOnce ==
  LET lines == linesOut \o linesIn
  IN /\ \A j, k \in 1 .. Len(lines) : j # k => lines[j] # lines[k]
     /\ \A k \in 1 .. Len(lines) : will[lines[k]] # "bad" /\ visit[lines[k]] # "waiting"
     /\ \A v \in Visitors :
          visit[v] = "answered" => clerk[v] = "logs" \/ \E k \in 1 .. Len(lines) : lines[k] = v
=============================================================================
