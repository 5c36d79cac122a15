CONSTANTS
  MaxMessages = 3
  Producers = {ws, client}
  Consumers = {sm}
  Message = {m1, m2}
  NoMessage = NoMessage
  NoThread = NoThread
SPECIFICATION FairSpec
INVARIANTS TypeOK MutualExclusion NoLostWakeup
PROPERTIES ImplementsLossyQueue EnqueueReturns QueuedIsTaken
