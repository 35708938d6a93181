SPECIFICATION Spec
CONSTANTS
  k1 = k1
  k2 = k2
  k3 = k3
  Client = {c1, c2, c3}
  Roster <- MCRoster
  GenesisInitiator = k2
  Nobody = nobody
SYMMETRY Jobs
INVARIANTS SlotsExclusive NoSlotLost
PROPERTIES SlotsSpec
