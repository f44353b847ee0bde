\* Money in tenths: a purchase at 20 costs 220 and one at 10 costs 110, so that
\* the capital pays for one lot or two, but not for one of each.
SPECIFICATION FairSpec
CONSTANTS
  Monitors = {m1}
  Prices = {10, 20}
  Limits = {10}
  Stops = {0}
  Targets = {20}
  ShareCounts = {1}
  Capitals = {320}
  CommissionRate = 1
  TaxRate = 1
  FeeScale = 10
  MaxOrders = 3
INVARIANTS TypeOK Solvent FillsOnce ExitsMatchSales ExitsWereDue
PROPERTIES CashFollowsLog MarketOrdersSettle PassEnds Refinement
