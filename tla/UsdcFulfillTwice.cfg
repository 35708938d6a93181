SPECIFICATION Spec
CONSTANTS
  r1 = r1
  r2 = r2
  r3 = r3
  seat = seat
  wallet = wallet
  bridge = bridge
  fuel = fuel
  Payment = {seat, wallet, bridge, fuel}
  kind <- MCKind
  Request = {r1, r2, r3}
  Key = {g, k}
  Initiator = g
  NoKey = nokey
  Mixes <- MCMixes
  Amount = 2
  Fee = 1
  Reserve = {0, 2, 7}
  MaxFaults = 1
INVARIANTS IdempotentOnUsdcTx
CHECK_DEADLOCK FALSE
