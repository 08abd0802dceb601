--------------------------- MODULE MCVerticalSlice ---------------------------
(* VerticalSlice on the seed data, for TLC. *)
EXTENDS VerticalSlice, SeedData

\* All the cases of the code, those that the run leaves out included.
ASSUME SeedAssumption == HasTransactions(CASES)

\* The case that the page asks for.
MCCases == [c \in {"CASE-1001"} |-> CASES[c]]
=============================================================================
