SPECIFICATION Spec
CONSTANTS
  Skills = {s1, s2}
  Contents = {c1, c2}
  Agents = {a1, a2}
  Requests = {r1}
  None = None
SYMMETRY Symmetry
INVARIANT ApprovedIsReviewed RunsReviewedOnly SnapshotsCurrent NoDanglingSkill
