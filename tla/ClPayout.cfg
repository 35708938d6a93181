SPECIFICATION Spec
CONSTANTS
  Event = {1, 2, 3}
  blockOf <- MCBlockOf
  Poison = {2}
  Floor = 1
  MaxBlock = 3
  ChunkBlocks = 2
  ChunksPerTick = 1
  MaxEntries = 3
  GasFit = 2
  MaxFaults = 2
INVARIANTS NothingForgotten
PROPERTIES NeverPastCeiling HealthyIsPaid EveryBlockScanned
CHECK_DEADLOCK FALSE
