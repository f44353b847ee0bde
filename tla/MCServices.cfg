SPECIFICATION ServicesSpec
CONSTANTS
  DMCallers = {walker, page1}
  Walker = walker
  StockCodes <- MCCodes
  LastDay = 4
  MonthDays = 2
  Listed <- MCListed
  DMCacheOn = TRUE
  Ranges <- MCPageRanges
  MaxAsked = 1
  CodesTested <- MCTested
  Grid <- MCOne
  Signals <- MCSignals
  CostRate = 6
  MinBars = 2
  Windows = 2
  RatioPct = 70
  None = None
  Default = Default
  NotScanned = NotScanned
  Unreadable = Unreadable
  Missing = None
  Unavailable = None
  Evaluated = {"a", "b"}
  Figures <- MCFigures
  Climates <- MCClimates
  Histories <- MCHistories
  Records <- MCRecords
  Unknown = None
  Week = 4
  Workdays = 3
  Lookback = 4
  Holidays = {9}
  FirstDay = 9
  MaxDay = 10
  Stocks <- MCStocks
  Top = 2
  Closes <- MCCloses
  MarketTables <- MCMarkets
  Period = 3
  Spare = 2
  Streak = 2
  SwingWindow = 1
  AtrPeriod = 2
  RiskPeriod = 2
  Calls = {call1, call2}
  Fresh = 2
  LastSvcDay = 4
  WindowTurn = 2
  LongestMa = 3
  BarsOn <- MCBarsOn
  BarsLastYear = 4
  Adjustable = {"a"}
  Dispositions = {{"b"}}
  Tables <- MCTables
  HeldCodes = {"a", "b"}
  MaxPositions = 2
  LotSize = 10
  FeeRate = 14
  TaxRate = 30
  MinHistory = 5
  Capital = 100000
  Amount = 50000
  Tickers = {"a", "b", "u", "v"}
  TopStocks = 1
  MaxOrders = 4
  Faults = TRUE
  Parts = {"research", "scan", "ratio", "basis", "conclude", "rank", "advice", "mood", "lists", "practice", "tests", "rules", "survey", "journal"}
INVARIANTS DailyBarsStored NoLookAhead  BetterIsJudgedBetter AdviceAgrees
  RadarShowsSaved PositionsHaveOrders QuickTestBalances CrowdOpposes CountedOnce
PROPERTY ExcludedStayOut
CHECK_DEADLOCK FALSE
