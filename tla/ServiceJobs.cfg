SPECIFICATION FairSpec
CONSTANTS
  Request = {"q1", "q2"}
  Mixes <- MCMixes
  Purchases <- MCPurchases
  LateErrors <- MCLateErrors
  FeeFirst <- MCFeeFirst
  Borrowers <- MCBorrowers
  Script <- MCScript
  Queue <- MCQueue
  Single <- MCSingle
  Effect <- MCEffect
  Unique <- MCUnique
  KeyOf <- MCKeyOf
  MaxFaults = 1
  SaleFaults = 4
  MayRestart = FALSE
INVARIANTS WalletAlone NoStrandedJob NeverTwice ErrorIsTrue FeeOnlyForSuccess
PROPERTIES PaidSaleIsBooked EveryRequestAnswered
CHECK_DEADLOCK FALSE
