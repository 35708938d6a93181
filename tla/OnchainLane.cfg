SPECIFICATION Spec
CONSTANTS
  claim = claim
  fee = fee
  batch1 = batch1
  batch2 = batch2
  lab = lab
  NoTask = none
  Task = {claim, fee, batch1, batch2, lab}
  work <- MCWork
  after <- MCAfter
  WaitList <- ListenerWaits
  MaxWait = 2
INVARIANTS OneAtATime FifoPerLane NoTaskStranded
PROPERTIES EveryTaskSettles ShutdownWaits
CHECK_DEADLOCK FALSE
