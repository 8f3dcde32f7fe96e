SPECIFICATION Spec
CONSTANTS
  Threads = {t1}
  Titles = {x1}
  Users = {u1}
  Visitors = {v1, v2}
  Browsers = {b1, b2}
  Requests = {r1, r2}
  Untitled = Untitled
  None = None
SYMMETRY Symmetry
INVARIANT ClaimComplete
PROPERTY OwnerKept OnlyOwnersWrite
