CONSTANTS
  MaxMessages = 2
  MaxCallbackEntries = 1
  Keys = {yaml}
  NoKey = NoKey
  MaxPayloads = 1
  MaxStarts = 2
SPECIFICATION Spec
INVARIANT ListensOnceStarted
CHECK_DEADLOCK FALSE
