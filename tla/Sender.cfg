\* The queue, the worker and the coordinator, every interleaving.
SPECIFICATION FairSpec
CONSTANTS
  Capacity = 2
  MaxChunks = 5
  MaxBatch = 2
INVARIANTS Inv InOrder NoChunkStranded GoneAfterReturn
PROPERTIES NothingAfterFailure CallsReturn
