SPECIFICATION MCSpec
CONSTANTS
  None = None
  w1 = w1
  w2 = w2
  w3 = w3
  s1 = s1
  r = r
  a = a
  b = b
  Vtxos = {w1, w2, w3, s1}
  Atomic = {s1}
  Txs = {r, a, b}
  ProofsOf <- MCProofsOf
  Rounds = {c1}
  c1 = c1
  SatsOf <- MCSatsOf
  Grace = 1
  MaxFaults = 1
  MaxDrops = 1
  MaxExits = 1
  MaxLies = 1
PROPERTIES ForgetsOnlySettled RowsKeepProofs VaultConverges
CHECK_DEADLOCK FALSE
