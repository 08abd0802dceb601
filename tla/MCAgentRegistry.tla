-------------------------- MODULE MCAgentRegistry --------------------------
(* Instances of AgentRegistry for TLC. *)
EXTENDS AgentRegistry, TLC

\* Connections, agents and skills are interchangeable in the safety runs.
Symmetry == Permutations(Requests) \cup Permutations(Agents) \cup Permutations(Skills)
=============================================================================
