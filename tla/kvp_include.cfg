CONSTANTS
  f1 = f1
  f2 = f2
  f3 = f3
  f4 = f4
  f5 = f5
  f6 = f6
  f7 = f7
  NoFile = NoFile
  File = {f1, f2, f3, f4}
  PlainKey = {"name", f1, f2, f3, f4}
  Value = {"item", f1, f2, f3, f4}
  MaxNesting = 3
  IncludeKey = {"include", "include_1"}
  MaxIncludeDepth = 3
  FileSystems <- Mixed
SPECIFICATION Spec
INVARIANTS TypeOK IncludesPrevail FullyExpanded KeysKeepWithinLimit
