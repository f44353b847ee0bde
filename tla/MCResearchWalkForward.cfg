SPECIFICATION BTSpec
CONSTANTS
  DMCallers = {walker}
  Walker = walker
  StockCodes <- MCCodes
  LastDay = 5
  MonthDays = 2
  Listed <- MCListed
  DMCacheOn = TRUE
  Ranges <- MCRanges
  MaxAsked = 0
  CodesTested <- MCTested
  Grid <- MCGrid
  Signals <- MCSignals
  CostRate = 6
  MinBars = 2
  Windows = 1
  RatioPct = 70
INVARIANT OutOfSampleTested
CHECK_DEADLOCK FALSE
