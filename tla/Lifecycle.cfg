SPECIFICATION MCSpec
CONSTANTS
  Keys = {k1, k2}
  k1 = k1
  Servers = {s1, s2}
  Default = s1
  None = None
  Boot = Boot
  Posts = {p1}
  MaxRestarts = 1
  MaxEdits = 1
INVARIANT NothingOrphaned
PROPERTIES OneServerPerWallet PassesTakeTurns EndsUpReady
CHECK_DEADLOCK FALSE
