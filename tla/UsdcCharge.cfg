\* Two payments of one session id, adjacent patches may swap, one error.
SPECIFICATION Spec
CONSTANTS
  Pay = {p1, p2}
  None = None
  MaxAttempts = 2
  Window = 2
  MaxInFlight = 2
  MaxFaults = 1
  MaxRestarts = 1
SYMMETRY PaymentSymmetry
INVARIANTS SuccessMeansCharged MintedOnlyAsSigned SignatureConsumedOnce
CHECK_DEADLOCK FALSE
