---------------------------- MODULE MCConversations ----------------------------
(* Model values of Conversations for TLC.                                  *)
EXTENDS Conversations, TLC

\* Visitors, browsers and requests are interchangeable.
Symmetry == Permutations(Visitors) \cup Permutations(Browsers)
               \cup Permutations(Requests)

=============================================================================
