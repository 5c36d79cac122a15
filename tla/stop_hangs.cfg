CONSTANTS
  MaxMessages = 2
  MaxCallbackEntries = 1
  Keys = {yaml}
  NoKey = NoKey
  MaxPayloads = 3
  MaxStarts = 1
SPECIFICATION FairSpec
PROPERTY StopReturns
CHECK_DEADLOCK FALSE
