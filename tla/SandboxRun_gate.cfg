SPECIFICATION FairSpec
CONSTANTS
  Requests = {r1, r2}
  Slots = 1
  Timeouts = {1, 2}
  Default = 2
  MaxRestarts = 1
INVARIANT SlotsBoundScripts TimeoutMeansKilled GivesUpWhenDelayed
PROPERTY TurnComes
