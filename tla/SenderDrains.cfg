\* A stop that reports success has delivered every admitted chunk.
SPECIFICATION Spec
CONSTANTS
  Capacity = 2
  MaxChunks = 2
  MaxBatch = 2
INVARIANTS StopIsComplete
