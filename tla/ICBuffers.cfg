SPECIFICATION Spec
CONSTANTS
  a1 = a1
  a2 = a2
  b1 = b1
  s1 = s1
  s2 = s2
  s3 = s3
  Callers <- OneThread
  Commands <- AllCommands
  All = All
  MaxChunks = 3
  Buffers <- OneBuffer
  Usages <- AnyUsage
  Slices <- TwoSlices
  ChunkCapacity = 2
  DeferredContext = TRUE
SYMMETRY SliceSymmetry
INVARIANTS NothingDropped UsesIssuedSlice InFlightIsTaken FreeSlicesAreIdle MappedIsFinal
PROPERTIES MapReturnsIdle
