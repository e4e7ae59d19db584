------------------------------ MODULE Example ------------------------------
(* The small programs of week7 and week10 that show one mechanism each: which*)
(* of them runs.                                                             *)
CONSTANT Programs
VARIABLE program
=============================================================================
