--------------------------- MODULE MCHistoryWindow ---------------------------
(* Model values of HistoryWindow for TLC.                                  *)
EXTENDS HistoryWindow

\* Skills are interchangeable.
Symmetry == Permutations(Skills)

=============================================================================
