----------------------------- MODULE HalfClose -----------------------------
(* week10/sep_serv.c and sep_serv2.c with their client sep_clnt.c.  A server *)
(* has two streams on one connection, closes the one it writes to, and waits *)
(* for thanks on the other; the client thanks when it has read to the end.   *)
(* The two differ in the descriptor under the stream that is closed.         *)
EXTENDS Example, Integers, Sequences, FiniteSets

VARIABLES
  spc,           \* the server: "greet", "shutdown", "fclose", "fgets", "done"
  open,          \* its descriptors of the connection: "clnt_sock", "dup"
  shut,          \* its side of the connection has ended, a FIN is on its way
  cpc,           \* the client: "fgets", "thank", "fclose", "done"
  toClient,      \* lines on the way to the client
  toServer,      \* and to the server
  reply,         \* the client's side has ended
  clientOut,     \* what the client has printed
  serverOut      \* what the server has printed

halfVars == <<spc, open, shut, cpc, toClient, toServer, reply, clientOut, serverOut>>

SepPrograms == {"sep_serv", "sep_serv2"}
Greetings   == <<"Hi~ client?", "I love all of the world", "You are awesome!">>
Thanks      == "Thank you!"

\* Mutant: writefp = fdopen(clnt_sock, "w") in both.
WritefpShared == "clnt_sock"

(* fdopen(clnt_sock, "w"), or fdopen(dup(clnt_sock), "w").                   *)
Writefp == IF program = "sep_serv2" THEN "dup" ELSE "clnt_sock"
Readfp  == "clnt_sock"

HalfInit == /\ spc = "greet" /\ open = {Readfp, Writefp} /\ shut = FALSE
            /\ cpc = "fgets" /\ reply = FALSE
            /\ toClient = << >> /\ toServer = << >>
            /\ clientOut = << >> /\ serverOut = << >>

-----------------------------------------------------------------------------
(* fputs, fputs, fputs, fflush.                                              *)
Greet == /\ spc = "greet"
         /\ toClient' = Greetings
         /\ spc' = IF program = "sep_serv2" THEN "shutdown" ELSE "fclose"
         /\ UNCHANGED <<open, shut, cpc, toServer, reply, clientOut, serverOut>>

(* shutdown(fileno(writefp), SHUT_WR) ends the server's side, however many   *)
(* descriptors there are.                                                    *)
Shutdown == /\ spc = "shutdown"
            /\ shut' = TRUE /\ spc' = "fclose"
            /\ UNCHANGED <<open, cpc, toClient, toServer, reply, clientOut, serverOut>>

(* fclose(writefp) closes its descriptor; the last one ends the connection.  *)
CloseWritefp == /\ spc = "fclose"
                /\ open' = open \ {Writefp}
                /\ shut' = (shut \/ open' = {})
                /\ spc' = "fgets"
                /\ UNCHANGED <<cpc, toClient, toServer, reply, clientOut, serverOut>>

(* fgets(buf, .., readfp) fails on a closed descriptor; otherwise it waits   *)
(* for a line or the end; fputs and fclose(readfp).                          *)
Hear == /\ spc = "fgets"
        /\ Readfp \in open => toServer # << >> \/ reply
        /\ serverOut' = IF Readfp \in open THEN toServer ELSE << >>
        /\ open' = open \ {Readfp} /\ shut' = TRUE /\ spc' = "done"
        /\ UNCHANGED <<cpc, toClient, toServer, reply, clientOut>>

(* One turn of the client's loop.                                            *)
PrintLine == /\ cpc = "fgets"
             /\ \/ /\ toClient # << >>
                   /\ clientOut' = Append(clientOut, Head(toClient))
                   /\ toClient' = Tail(toClient)
                   /\ UNCHANGED cpc
                \/ /\ toClient = << >> /\ shut
                   /\ cpc' = "thank"
                   /\ UNCHANGED <<toClient, clientOut>>
             /\ UNCHANGED <<spc, open, shut, toServer, reply, serverOut>>

(* fputs, fflush: what comes to a connection without a descriptor is refused.*)
Thank == /\ cpc = "thank"
         /\ toServer' = IF open # {} THEN <<Thanks>> ELSE << >>
         /\ cpc' = "fclose"
         /\ UNCHANGED <<spc, open, shut, toClient, reply, clientOut, serverOut>>

(* fclose(writefp) closes sock; fclose(readfp) finds it closed.              *)
CloseBoth == /\ cpc = "fclose"
             /\ reply' = TRUE /\ cpc' = "done"
             /\ UNCHANGED <<spc, open, shut, toClient, toServer, clientOut, serverOut>>

SepServer == Greet \/ Shutdown \/ CloseWritefp \/ Hear
SepClient == PrintLine \/ Thank \/ CloseBoth
Converses == program \in SepPrograms /\ (SepServer \/ SepClient)
BothClosed == spc = "done" /\ cpc = "done"

-----------------------------------------------------------------------------
(* The client prints the whole greeting.  The server that closes a duplicate *)
(* hears the thanks; the one that closes the only descriptor never does.     *)
Heard == program \in SepPrograms =>
           /\ clientOut = Greetings
           /\ serverOut = IF program = "sep_serv2" THEN <<Thanks>> ELSE << >>
=============================================================================
