SPECIFICATION Spec
CONSTANTS
  Endpoints = {e1, e2}
  Default = a0
  Agents = {a0, a1}
  Urls = {u1, u2}
  Tokens = {t1, t2}
  None = None
  Unset = Unset
SYMMETRY Symmetry
PROPERTY ManualKept
