---------------------------- MODULE MCAgentCache ----------------------------
(* Model values of AgentCache for TLC.                                     *)
EXTENDS AgentCache, TLC

\* Requests, and administrators, are interchangeable.
Symmetry == Permutations(Requests) \cup Permutations(Admins)

=============================================================================
