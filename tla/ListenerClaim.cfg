SPECIFICATION Spec
CONSTANTS
  a1 = a1
  c1 = c1
  f1 = f1
  NoEvent = NoEvent
  Event <- MCEvent
  kind <- MCKind
  MaxBlock = 2
  block <- MCBlock
  Log <- MCLog
  Chunk = 1
  TickBlocks = 2
  LagAlert = 0
  FromBlock = 1
  MaxFaults = 1
  MaxErrors = 1
INVARIANTS ClaimedOnce BackfillForgetsNothing
PROPERTIES SucceededIsFinal EveryBlockPassed
CHECK_DEADLOCK FALSE
