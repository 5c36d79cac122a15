CONSTANTS
  Thread = {t1, t2}
  Path <- Directories
  DefaultPath <- DefaultDirectory
  Stamp <- MCStamp
  StampSize = 2
  NUL = NUL
  MaxPath = 5
  MaxLineSize = 10
  Prefix <- LinePrefixes
  Text <- LineTexts
  MaxCalls = 3
  MaxClock = 1
SPECIFICATION Spec
INVARIANTS SettledNamePrevails LazyNameIsDefault ColoursStayOutOfFile
SYMMETRY ThreadSymmetry
CHECK_DEADLOCK FALSE
