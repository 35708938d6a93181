\* The orchestrator ends and the POS is shown an end: one payment, patches that
\* overtake each other, two errors or lost patches, one restart.
SPECIFICATION FairSpec
CONSTANTS
  Pay = {p1}
  None = None
  MaxAttempts = 2
  Window = 3
  MaxInFlight = 4
  MaxFaults = 2
  MaxRestarts = 1
PROPERTIES EveryRunEnds TheEndIsShown
CHECK_DEADLOCK FALSE
