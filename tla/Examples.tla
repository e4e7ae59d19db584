----------------------------- MODULE Examples ------------------------------
(* One of the small programs, chosen at the start.                           *)
EXTENDS Semaphore, Counter, Processes, HalfClose, AssignServ

exVars == <<program, vars, counterVars, procVars, halfVars, assignVars>>

ExInit == program \in Programs /\ Init /\ CounterInit /\ ProcInit /\ HalfInit /\ AssignInit

(* A step of one program leaves the variables of the others alone.           *)
Alternates ==
  program = "semaphore" /\ UNCHANGED <<program, counterVars, procVars, halfVars, assignVars>>
Counts    == UNCHANGED <<program, vars, procVars, halfVars, assignVars>>
Calls     == UNCHANGED <<program, vars, counterVars, halfVars, assignVars>>
Halves    == UNCHANGED <<program, vars, counterVars, procVars, assignVars>>
Logging   == UNCHANGED <<program, vars, counterVars, procVars, halfVars>>

ProgramEnded == CASE program = "semaphore"       -> Finished
                  [] program \in CounterPrograms -> Joined
                  [] program \in SepPrograms     -> BothClosed
                  [] program \in AssignPrograms  -> AllServed
                  [] OTHER                       -> AllGone

ExNext == \/ Next /\ Alternates
          \/ Count /\ Counts
          \/ Runs /\ Calls
          \/ Types /\ Calls
          \/ Converses /\ Halves
          \/ Assigns /\ Logging
          \/ ProgramEnded /\ UNCHANGED exVars

ExSpec == ExInit /\ [][ExNext]_exVars

(* Every thread and process is scheduled, and whoever is to visit            *)
(* assign_server comes; the user need not press a key.                       *)
ExFairSpec ==
  /\ ExSpec
  /\ WF_exVars(Read /\ Alternates) /\ WF_exVars(Accu /\ Alternates)
  /\ \A t \in Threads : WF_exVars(program \in CounterPrograms /\ Thread(t) /\ Counts)
  /\ WF_exVars(Runs /\ Calls)
  /\ WF_exVars(program \in SepPrograms /\ SepServer /\ Halves)
  /\ WF_exVars(program \in SepPrograms /\ SepClient /\ Halves)
  /\ WF_exVars(Assigns /\ Logging)

(* No thread and no process waits for ever: every program ends (the server:  *)
(* with everybody served), and the two ends of a half-closed connection have *)
(* then heard what they can hear.                                            *)
Ends == <>(ProgramEnded /\ Heard)
=============================================================================
