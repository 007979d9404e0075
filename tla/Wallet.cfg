SPECIFICATION MCSpec
CONSTANTS
  Invoices = {h1, h2}
  Confirms = {c1, c2, c3}
  Offboards = {o1}
  Requests = {q1}
  MaxCrashes = 1
  Deposits = {d1}
  Rotations = {r1, r2}
  NoOutpoint = NoOutpoint
  MaxRestarts = 1
  Vtxos = {v1, v2, v3}
  Cap = 2
  Tick = 2
  Round = 1
  FailQuiet = 2
  DoneQuiet = 3
  Pages = {p1}
  OfferRelays = {r1, r2}
  OfferKeys = {k1, k2}
  Elsewhere = Elsewhere
  Nowhere = Nowhere
  MaxDeaths = 1
  Dust = 3
  Slack = 2
  MaxOpReturns = 2
  Pocket = 4
  PocketCount = 2
  TxIds = {0, 1, 2, 3}
  MaxRows = 4
  MaxSecond = 3
  PageSize = 2
INVARIANTS OffersAreKept HistoryIsTrue BoardingIsTrue RenewedInTime AmountsAddUp PagesShowAll
CHECK_DEADLOCK FALSE
