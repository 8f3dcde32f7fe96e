SPECIFICATION FairSpec
CONSTANTS
  Artifacts = {f1, f2}
  Retries = 2
CHECK_DEADLOCK FALSE
INVARIANT TextOfOneAttempt NotEmptyHanded SuspendedTaskWaits
PROPERTY Ends
