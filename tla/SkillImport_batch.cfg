SPECIFICATION ImportSpec
CONSTANTS
  Names = {"s1", "s2"}
  Scripts = {"run.py"}
  Packages <- MCPackages
  Wishes <- MCWishes
  MaxFiles = 4
  MaxFileBytes = 2
  MaxScriptBytes = 1
  MaxSkillBytes = 6
  MaxRedirects = 1
  None = None
INVARIANT ScriptsAtHome ImportedEdits
PROPERTY OverwritesOnDemand
