---------------------------- MODULE MCRepairBatch ----------------------------
(* Instance of RepairBatch for TLC: two aliases, batches of up to three     *)
(* candidates (an alias may occur twice).  The two readers its consent      *)
(* prompt may use, and the texts of MCReports that a batch is reported in,  *)
(* are compared with what they promise beforehand.                          *)
EXTENDS RepairBatch, TLC, MCReports

CONSTANTS alias1, alias2, NoLine

Aliases  == {alias1, alias2}
Symmetry == Permutations(Aliases)

Readers == INSTANCE Prompt WITH BufferSize <- 4, kMaxRedirectedLineBytes <- 3

Inputs == UNION {[1 .. k -> {"y", " ", "\r", "\n"}] : k \in 1 .. 6}

\* Each reader takes one line from any input, and says yes when the line does.
ASSUME ReadersTakeOneLine ==
  \A input \in Inputs : /\ Readers!ConsoleReadsLines(input)
                        /\ Readers!RedirectedReadsLines(input)
==============================================================================
