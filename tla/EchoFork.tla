------------------------------ MODULE EchoFork ------------------------------
(* The echo servers that fork a child for every connection:                  *)
(*   week7/echo_mpserv.c       the echo alone                                *)
(*   week7/echo_storeserv.c    every child also writes what it has echoed    *)
(*                             into a pipe, from which a logger, a child of  *)
(*                             its own, reads ten times before it ends       *)
(*   week7/na_server.c         the same, with another name for the file      *)
(* Parent, logger and children all keep both ends of the pipe open, so a     *)
(* write to it never fails: without a reader it blocks once the pipe is full.*)
(* A child that ends raises SIGCHLD; the handler calls waitpid once.  That   *)
(* the signal interrupts accept changes nothing: the loop accepts again.     *)
EXTENDS EchoNet

CONSTANTS
  ForkBuf,       \* bytes of one read, by a child or by the logger
  LogReads,      \* how often the logger reads: 10 in the programs
  PipeMax        \* bytes that the pipe holds

logger == "logger"

ASSUME EchoForkAssumption ==
  /\ ForkBuf \in Nat \ {0} /\ LogReads \in Nat /\ PipeMax \in Nat \ {0}
  /\ logger \notin Clients

VARIABLES
  child,         \* [Clients and logger -> "none", "run", "zombie", "reaped"]
  entry,         \* the bytes a child has echoed, or echoes, and has yet to log
  pipe, logged,  \* [client, byte]s on their way to the logger, and given to fwrite
  reads,         \* what is i in the logger's loop
  sigchld        \* the signal is pending for the parent

forkVars == <<child, entry, pipe, logged, reads, sigchld>>
logVars  == <<pipe, logged, reads>>

Logs == program = "echo_storeserv"

ForkInit ==
  /\ child = [p \in Clients \cup {logger} |->
                IF p = logger /\ Logs THEN "run" ELSE "none"]
  /\ entry = [c \in Clients |-> << >>]
  /\ pipe = << >> /\ logged = << >> /\ reads = 0
  /\ sigchld = FALSE

Runs(c)  == child[c] = "run" /\ c \notin dead
Ends(p)  == child' = [child EXCEPT ![p] = "zombie"] /\ sigchld' = TRUE
Reads(c) == Runs(c) /\ buf[c] = << >> /\ entry[c] = << >>

-----------------------------------------------------------------------------
(* The parent: accept, fork, and its copy of the socket closed.              *)
AcceptAndFork ==
  /\ TakeBacklog
  /\ child' = [child EXCEPT ![Head(backlog)] = "run"]
  /\ UNCHANGED <<entry, logVars, sigchld>>

(* read_childproc.                                                           *)
Reap ==
  /\ sigchld
  /\ sigchld' = FALSE
  /\ \/ \E p \in DOMAIN child : child[p] = "zombie" /\ child' = [child EXCEPT ![p] = "reaped"]
     \/ (\A p \in DOMAIN child : child[p] # "zombie") /\ UNCHANGED child
  /\ UNCHANGED <<netVars, entry, logVars>>

(* A child: the loop of read, write to the client and write to the pipe.     *)
ChildReads(c) ==
  /\ Reads(c) /\ Read(c, ForkBuf)
  /\ entry' = [entry EXCEPT ![c] = IF Logs THEN buf'[c] ELSE << >>]
  /\ UNCHANGED <<child, logVars, sigchld>>

ChildFails(c) == Reads(c) /\ ReadFails(c) /\ UNCHANGED forkVars

ChildEchoes(c) ==
  /\ Runs(c) /\ Write(c, TRUE, {c})
  /\ IF c \in dead' THEN Ends(c) /\ UNCHANGED <<entry, logVars>> ELSE UNCHANGED forkVars

\* Mutant: a pipe that does not block takes what fits.
ChildLogsSome(c) ==
  /\ Runs(c) /\ buf[c] = << >> /\ entry[c] # << >>
  /\ pipe' = IF Len(pipe) = PipeMax THEN pipe ELSE Append(pipe, <<c, entry[c][1]>>)
  /\ entry' = [entry EXCEPT ![c] = << >>]
  /\ UNCHANGED <<netVars, child, logged, reads, sigchld>>

ChildLogs(c) ==
  /\ Runs(c) /\ buf[c] = << >> /\ entry[c] # << >>
  /\ Len(pipe) + Len(entry[c]) =< PipeMax
  /\ pipe' = pipe \o [k \in 1 .. Len(entry[c]) |-> <<c, entry[c][k]>>]
  /\ entry' = [entry EXCEPT ![c] = << >>]
  /\ UNCHANGED <<netVars, child, logged, reads, sigchld>>

ChildEnds(c) ==
  /\ Reads(c) /\ Ended(c)
  /\ Close(c) /\ Ends(c)
  /\ UNCHANGED <<entry, logVars>>

Child(c) == ChildReads(c) \/ ChildFails(c) \/ ChildEchoes(c) \/ ChildLogs(c) \/ ChildEnds(c)

Logger ==
  /\ child[logger] = "run" /\ pipe # << >>
  /\ LET n == IF Len(pipe) < ForkBuf THEN Len(pipe) ELSE ForkBuf
     IN logged' = logged \o SubSeq(pipe, 1, n) /\ pipe' = SubSeq(pipe, n + 1, Len(pipe))
  /\ reads' = reads + 1
  /\ IF reads' = LogReads THEN Ends(logger) ELSE UNCHANGED <<child, sigchld>>
  /\ UNCHANGED <<netVars, entry>>

echo_mpserv    == program = "echo_mpserv" /\ (AcceptAndFork \/ Reap \/ \E c \in Clients : Child(c))
echo_storeserv == /\ program = "echo_storeserv"
                  /\ AcceptAndFork \/ Reap \/ Logger \/ \E c \in Clients : Child(c)

ByForking == echo_mpserv \/ echo_storeserv

-----------------------------------------------------------------------------
(* The logger has gone and the pipe has no room for what a child wants to    *)
(* write: that child never reads again.                                      *)
Jammed(c) == /\ child[logger] \in {"zombie", "reaped"}
             /\ entry[c] # << >> /\ Len(pipe) + Len(entry[c]) > PipeMax

(* The file, and behind it what is on its way there.                         *)
Content == logged \o pipe
Places  == 1 .. Len(Content)

(* However the children race for the pipe, its content after the file's is,  *)
(* for every client, what its child has read and not yet to log: in order,   *)
(* nothing twice; when the child has closed the connection, everything.      *)
LogComplete ==
  Logs =>
    /\ \A j, k \in Places :
         j < k /\ Content[j][1] = Content[k][1] => Content[j][2] < Content[k][2]
    /\ \A c \in Clients :
         /\ {Content[k][2] : k \in {j \in Places : Content[j][1] = c}}
              = 1 .. heard[c] - Len(entry[c])
         /\ peer[c] = "closed" => heard[c] = said[c] /\ entry[c] = << >>

=============================================================================
