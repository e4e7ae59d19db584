----------------------------- MODULE MCChatServ -----------------------------
EXTENDS ChatServ, TLC

CONSTANTS c1, c2, c3

\* how many lines each client sends
Silent == [c \in Clients |-> 0]
OneLine == [c \in Clients |-> 1]
TwoLines == [c \in Clients |-> 2]
Uneven == [c \in Clients |-> IF c = c1 THEN 2 ELSE IF c = c2 THEN 1 ELSE 0]

\* sound where every client sends the same number of lines
Perms == Permutations(Clients)
=============================================================================
