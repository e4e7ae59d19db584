---------------------------- MODULE MCExamples -----------------------------
EXTENDS Examples

\* -1, 0 and 2: sums of different inputs differ
MCInputs == {-1, 0, 2}

MCPrograms == {"semaphore"} \cup CounterPrograms \cup ProcPrograms \cup SepPrograms
                \cup AssignPrograms

ReapOnly == {"remove_zombie"}
=============================================================================
