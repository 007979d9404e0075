SPECIFICATION MCSpec
CONSTANTS
  r1 = r1
  r2 = r2
  k1 = k1
  k2 = k2
  Relays = {r1, r2}
  Requests = {q1}
  Other = Other
  Skew = 2
  Lookback = 4
  SeenMax = 3
  Silence = 1
  MaxCrashes = 1
  Tickers = {sub, dog}
  Publishers = {pub}
  Base = 1
  MaxDelay = 4
  Stable = 3
  FailCap = 3
  Accounts = {k1, k2}
  Operator = Operator
  Nobody = Nobody
  Lists <- MCLists
  Fallback <- MCFallback
  Stamps = {1, 2}
  ListOf <- MCListOf
  MaxQueue = 2
  Grace = 1
  MaxNotes = 4
INVARIANTS NoGap NeverDeaf ListsAreCurrent QueueMoves
PROPERTIES HandedOutOnce LeftAlone
CHECK_DEADLOCK FALSE
