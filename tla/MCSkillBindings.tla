-------------------------- MODULE MCSkillBindings --------------------------
(* Model values of SkillBindings for TLC.                                  *)
EXTENDS SkillBindings, TLC

\* Skills, contents, agents and requests are interchangeable.
Symmetry == Permutations(Skills) \cup Permutations(Contents)
               \cup Permutations(Agents) \cup Permutations(Requests)

=============================================================================
