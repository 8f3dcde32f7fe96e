SPECIFICATION Spec
CONSTANTS
  Threads = {h1, h2}
  Agents = {a1, a2}
  Targets = {x1, x2}
  Tasks = {k1, k2}
  Rounds = {r1}
  Calls = {c1, c2}
  MaxAsk = 2
  Orderly = {h1}
  None = None
SYMMETRY Symmetry
CONSTRAINT TwoQuestions OneChanged ReboundAlone
INVARIANT AnswerReachesAsker ShownIsStored ConversationsApart RowsOfLiveAgents
