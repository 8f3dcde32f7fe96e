--------------------------- MODULE MCPendingTasks ---------------------------
(* Model values and bounds of PendingTasks for TLC.                        *)
EXTENDS PendingTasks, FiniteSetsExt, TLC

\* Elements of each set are interchangeable, the conversations are not: only
\* some of them are orderly.
Symmetry ==
    Permutations(Agents) \cup Permutations(Targets) \cup Permutations(Tasks)
        \cup Permutations(Rounds) \cup Permutations(Calls)

\* Bound: the downstream tasks ask two questions in all.
TwoQuestions == MapThenSumSet(LAMBDA k : task[k].n, Tasks) <= 2

\* Bound: one agent is rebound or deleted, the others stay as they were.
OneChanged ==
    LET Touched(a) == a \notin alive \/ bound[a] # Targets
    IN  \A a, b \in Agents : Touched(a) /\ Touched(b) => a = b

\* Bound: with an agent rebound, one call at a time is under way.
ReboundAlone ==
    (\E a \in Agents : bound[a] # Targets)
        => \A c, d \in Calls : call[c] # FreeCall /\ call[d] # FreeCall => c = d

=============================================================================
