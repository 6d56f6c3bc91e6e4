SPECIFICATION ThreadSpec
CONSTANTS
  a1 = a1
  a2 = a2
  b1 = b1
  s1 = s1
  s2 = s2
  s3 = s3
  Callers <- TwoThreads
  Commands <- AllCommands
  All = All
  MaxChunks = 2
  Buffers <- OneBuffer
  Usages <- Staging
  Slices <- TwoSlices
  ChunkCapacity = 2
  DeferredContext = FALSE
INVARIANT ExecutedHaveRun
PROPERTIES MapReturns SlicesComeBack SynchronizeCovers SynchronizeReturns StopCompletes
