SPECIFICATION PressSpec
CONSTANTS
  k1 = k1
  k2 = k2
  j1 = j1
  j2 = j2
  j3 = j3
  j4 = j4
  Worker = {"AAtoEOA", "registerPOS", "purchaseBUnit", "cardRedeem"}
  Client = {j1, j2, j3, j4}
  Mixes <- MCMixes
  MaxUnseen = 1
  Roster <- MCRoster
  GenesisInitiator = k1
  Nobody = nobody
INVARIANTS StartedInOrder NonceExclusive
PROPERTIES EveryRequestAnswered
CHECK_DEADLOCK FALSE
