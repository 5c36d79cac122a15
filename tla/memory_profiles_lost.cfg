CONSTANTS
  PlainKey <- NodeKeys
  Value <- NodeValues
  MaxNesting = 2
  IncludeKey = {"include", "include_1"}
  MaxIncludeDepth = 5
  Source <- Sources
  Key = {"common", "own", "other", "include_1", "values"}
  MaxProfiles = 3
  MaxElementSize = 8
  WordMax = 63
  ByteMax = 7
  InitialBufferSize = 2
  Overrun <- MCOverrun
  Content <- Nodes
  QueryKey <- QueryKeys
  Ranges = {7, 15, 63}
  BufferSizes = {1, 2, 9}
  Memories = {1, 2, 4, 8}
  IntMax = 3
  Maps <- MCMaps
  Defaults <- MCDefaults
SPECIFICATION Spec
INVARIANT AllProfilesPresent
