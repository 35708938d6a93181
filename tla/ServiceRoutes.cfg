SPECIFICATION FairSpec
CONSTANTS
  Request = {"q1"}
  Mixes <- MCEach
  Purchases <- MCPurchases
  LateErrors <- MCLateErrors
  FeeFirst <- MCFeeFirst
  Borrowers <- MCBorrowers
  Script <- MCScript
  Queue <- MCQueue
  Single <- MCSingle
  Effect <- MCEffect
  Unique <- MCUnique
  KeyOf <- MCKeyOf
  MaxFaults = 1
  SaleFaults = 1
  MayRestart = TRUE
INVARIANTS KeysKept AnsweredOnce NoEscape NobodyForgotten DoneIsDone
CHECK_DEADLOCK FALSE
