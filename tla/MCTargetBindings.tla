-------------------------- MODULE MCTargetBindings --------------------------
(* Model values of TargetBindings for TLC.                                 *)
EXTENDS TargetBindings, TLC

\* Endpoints, urls and tokens are interchangeable.
Symmetry == Permutations(Endpoints) \cup Permutations(Urls) \cup Permutations(Tokens)

=============================================================================
