SPECIFICATION FairSpec
CONSTANTS
  Chats = {ch1}
  MaxEvents = 2
  MaxDeliveries = 2
  MaxCrashes = 1
  QueueLimit = 2
  Capacity = 1
  Workers = {w1,w2}
  None = None
INVARIANT TypeOK HandledOnce NothingDropped
PROPERTY ImplementsTurns Drains
CHECK_DEADLOCK FALSE
