SPECIFICATION Spec
CONSTANTS
  Skills = {s1}
  Contents = {c1, c2}
  Agents = {a1}
  Requests = {r1, r2}
  None = None
SYMMETRY Symmetry
INVARIANT ApprovedIsReviewed
