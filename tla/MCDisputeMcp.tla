---------------------------- MODULE MCDisputeMcp ----------------------------
(* DisputeMcp on the seed data, for TLC. *)
EXTENDS DisputeMcp, SeedData

\* All the cases of the code, those that the run leaves out included.
ASSUME SeedAssumption == AgreesWithTables(CASES)

Callers == Permutations(Calls)

\* Two of the three cases: they share their merchant and nothing else.
MCCases == [c \in {"CASE-1001", "CASE-1002"} |-> CASES[c]]

\* Every id is known to one group of tools and unknown to the others.
MCIds == {"TXN-2001", "TXN-2002", "CUST-3001", "CASE-1002"}
=============================================================================
