SPECIFICATION Spec
CONSTANTS
  Skills = {s1, s2}
  Keep = 3
  Batch = 2
  Budget = 1
  MaxCalls = 2
  MaxMessages = 8
SYMMETRY Symmetry
INVARIANT TypeOK NoOrphanResult CoveredWasGiven GapIsBounded LoadedSkillVisible Recovers
