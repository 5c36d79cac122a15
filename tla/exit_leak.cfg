CONSTANTS
  MaxMessages = 2
  MaxCallbackEntries = 1
  Keys = {yaml}
  NoKey = NoKey
  MaxPayloads = 1
  MaxStarts = 1
SPECIFICATION Spec
INVARIANT FreedMeansNoLeak
CHECK_DEADLOCK FALSE
