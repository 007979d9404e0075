SPECIFICATION FuelSpec
CONSTANTS
  Addrs = {a1, a2}
  Coins = {k1, k2}
  Calls = {c1, c2}
  MaxFee = 2
  MaxIssues = 2
  NoAddr = NoAddr
SYMMETRY Symmetry
INVARIANTS SendsGoToVerified NoSilentBoost
CHECK_DEADLOCK FALSE
