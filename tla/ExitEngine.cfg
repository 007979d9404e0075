SPECIFICATION LiveSpec
CONSTANTS
  None = None
  v1 = v1
  v2 = v2
  r = r
  s = s
  a = a
  b = b
  Vtxos = {v1, v2}
  Txs = {r, s, a, b}
  ChainOf <- MCChainOf
  AncestorsOf <- MCAncestorsOf
  Dropped = {v1}
  Dests = {"fuel"}
  Calls = {"c1"}
  MaxFee = 2
  MaxSweeps = 2
  MaxStarts = 2
  MaxCrashes = 1
INVARIANTS PageIsTrue NoStrandedExit
PROPERTY EveryExitEnds
CHECK_DEADLOCK FALSE
