CONSTANTS
  MaxMessages = 2
  MaxCallbackEntries = 2
  Keys = {yaml, json}
  NoKey = NoKey
  MaxPayloads = 2
  MaxStarts = 2
SPECIFICATION FairSpec
INVARIANTS TypeOK ThreadsUseLiveInstance StoppedMeansQuiet PayloadOwnership
  OnlyDropsLeak ListensUntilStopped
PROPERTIES ImplementsService EveryMatchIsCalled StopReturnsIfQueued QueuedIsHandled
CHECK_DEADLOCK FALSE
