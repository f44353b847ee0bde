--------------------------- MODULE ServicesProofs ---------------------------
(***************************************************************************)
(* Proofs about the services a page asks and about the session of a page,  *)
(* for every value of the constants: the rules of the large traders and of *)
(* the hedge advice, the portfolio, the universe of codes, the restored    *)
(* watch list, the scans, the conclusions and the confidence, the books of *)
(* the paper trading page and of the quick backtest.  The lemmas on        *)
(* induction and folds are those of DataManagerProofs.                     *)
(***************************************************************************)
EXTENDS DataManagerProofs, Portfolio, MarketServices, MarketDownloads, Advice, Conclusions,
        TradingRules, Session, SequenceTheorems

-----------------------------------------------------------------------------
(* TradingRules: what the large traders leave to the crowd.                   *)

\* A percentage that is cut off at 0 is the larger of the two.
LEMMA CutAtZero ==
  ASSUME NEW x \in Int
  PROVE  Max({0, x}) = IF x > 0 THEN x ELSE 0
<1> DEFINE m == IF x > 0 THEN x ELSE 0
<1>1. m \in {0, x} /\ \A y \in {0, x} : m >= y
  OBVIOUS
<1>2. \A z \in {0, x} : (\A y \in {0, x} : z >= y) => z = m
  OBVIOUS
<1> QED
  BY <1>1, <1>2 DEF Max

\* The verdict on a table of whole percentages never has the crowd lean the way
\* the large traders lean.
LEMMA CrowdAgainst ==
  ASSUME NEW five \in TraderRows, NEW ten \in TraderRows,
         AnalyzeTraders([top5 |-> five, top10 |-> ten])
  PROVE  CrowdOpposes'
<1> DEFINE table == [top5 |-> five, top10 |-> ten]
           buy  == Top10(table, "buy")
           sell == Top10(table, "sell")
<1>1. buy \in Int /\ sell \in Int
  BY DEF Top10, TraderRows
<1>2. /\ Retail(table, "buy") = IF 100 - buy > 0 THEN 100 - buy ELSE 0
      /\ Retail(table, "sell") = IF 100 - sell > 0 THEN 100 - sell ELSE 0
  BY <1>1, CutAtZero DEF Retail
<1>3. Leaning(buy - sell, 2)
        * Leaning(Retail(table, "buy") - Retail(table, "sell"), 5) # 1
  <2> HIDE DEF buy, sell, table
  <2>1. buy - sell > 2 => Retail(table, "buy") - Retail(table, "sell") <= 5
    BY <1>1, <1>2
  <2>2. buy - sell < -2 => Retail(table, "buy") - Retail(table, "sell") >= -5
    BY <1>1, <1>2
  <2>3. Retail(table, "buy") - Retail(table, "sell") \in Int
    BY <1>1, <1>2
  <2> QED
    BY <1>1, <2>1, <2>2, <2>3 DEF Leaning
<1>4. decision'.result = Missing
      \/ /\ decision'.result.large = Leaning(buy - sell, 2)
         /\ decision'.result.retail = Leaning(Retail(table, "buy") - Retail(table, "sell"), 5)
  BY DEF AnalyzeTraders
<1> QED
  BY <1>3, <1>4 DEF CrowdOpposes

\* Whatever percentages a table has and whichever of its rows are missing, the
\* crowd never leans the way the large traders lean.
THEOREM CrowdIsContrary == RulesSpec => []CrowdOpposes
<1>1. RulesInit => CrowdOpposes
  BY DEF RulesInit, CrowdOpposes
<1>2. ASSUME CrowdOpposes, RulesNext PROVE CrowdOpposes'
  <2>1. CASE \E five, ten \in TraderRows : AnalyzeTraders([top5 |-> five, top10 |-> ten])
    BY <2>1, CrowdAgainst
  <2>2. CASE \E bars, net : DetectPhase(bars, net)
    BY <2>2 DEF DetectPhase, CrowdOpposes
  <2>3. CASE \E bars : CalculateLevels(bars)
    BY <2>3 DEF CalculateLevels, CrowdOpposes
  <2>4. CASE \E bars, lots, shares : AnalyzeRisk(bars, lots, shares)
    BY <2>4 DEF AnalyzeRisk, CrowdOpposes
  <2>5. CASE \E c, basis, lots, beta, price, spot : AdviseHedge(c, basis, lots, beta, price, spot)
    BY <2>5 DEF AdviseHedge, CrowdOpposes
  <2>6. CASE \E short, long : AnalyzeFx(short, long)
    BY <2>6 DEF AnalyzeFx, CrowdOpposes
  <2> QED
    BY <1>2, <2>1, <2>2, <2>3, <2>4, <2>5, <2>6 DEF RulesNext
<1>3. CrowdOpposes /\ UNCHANGED decision => CrowdOpposes'
  BY DEF CrowdOpposes
<1> QED
  BY <1>1, <1>2, <1>3, PTL DEF RulesSpec

-----------------------------------------------------------------------------
(* Advice: the market's against a stock's.                                    *)

LEMMA Sides ==
  ASSUME NEW x \in Int, NEW low \in Int, NEW high \in Int
  PROVE  Side(x, low, high) \in {-1, 0, 1}
BY DEF Side

\* From the same tables, with a ratio, the two directions are not opposite.
LEMMA DirectionsAgree ==
  ASSUME NEW m \in MarketTables, NEW lots, FuturesData(m).ratio # 0
  PROVE  OverviewDirection(m) * StockAdvice(m, lots).direction # -1
<1>1. PICK d : d = FuturesData(m)
  OBVIOUS
<1>2. d.basis \in Int /\ d.foreign \in Int /\ d.ratio \in Int
  BY <1>1, MarketTablesAssumption DEF FuturesData, Or0, Figure
<1>3. Or0(m.net) \in Int
  BY MarketTablesAssumption DEF Or0, Figure
<1>4. PICK a \in {-1, 0, 1} : a = Side(d.basis, -1, 1)
  BY <1>2, Sides
<1>5. PICK b \in {-1, 0, 1} : b = Side(d.foreign, -5000, 5000)
  BY <1>2, Sides
<1>6. PICK c \in {-1, 0, 1} : c = Side(d.ratio, 80, 120)
  BY <1>2, Sides
<1>7. PICK n \in {-1, 0, 1} : n = Side(Or0(m.net), 0, 0)
  BY <1>3, Sides
<1>8. PICK f \in {-1, 0, 1} : f = Side(d.foreign, -3000, 3000)
  BY <1>2, Sides
<1>9. PICK q \in {0, 1} : q = IF RunMarginAnalysis(m) = "squeeze_alert" THEN 1 ELSE 0
  OBVIOUS
<1>10. (b = 1 => f = 1) /\ (b = -1 => f = -1)
  BY <1>2, <1>5, <1>8 DEF Side
<1>11. OverviewDirection(m) = Side(a + b - c, -1, 1)
  BY <1>1, <1>4, <1>5, <1>6 DEF OverviewDirection
<1>12. StockScore(m) = q + n + a + f - c
  BY <1>1, <1>4, <1>6, <1>7, <1>8, <1>9 DEF StockScore
<1>13. StockAdvice(m, lots).direction = Side(q + n + a + f - c, -1, 1)
  BY <1>12 DEF StockAdvice
<1>14. ~ (a + b - c > 1 /\ q + n + a + f - c < -1) /\ ~ (a + b - c < -1 /\ q + n + a + f - c > 1)
  BY <1>10
<1> QED
  BY <1>11, <1>13, <1>14 DEF Side

\* Whatever the tables say, and whichever requests raise, the advice for the
\* market and the advice for a stock do not oppose each other, as long as there
\* is a put-call ratio.
THEOREM AdviceIsConsistent == AdviceSpec => []AdviceAgrees
<1>1. AdviceInit => AdviceAgrees
  BY DEF AdviceInit, AdviceAgrees
<1>2. ASSUME AdviceAgrees, AdviceNext PROVE AdviceAgrees'
  <2>1. CASE \E m \in MarketTables, lots \in Nat : Advise(m, lots)
    BY <2>1, DirectionsAgree DEF Advise, AdviceAgrees
  <2>2. CASE UNCHANGED advice
    BY <1>2, <2>2 DEF AdviceAgrees
  <2> QED
    BY <1>2, <2>1, <2>2 DEF AdviceNext, NextMaDay, ScanToDataframe, GetCurrent, Recalculate
<1>3. AdviceAgrees /\ UNCHANGED adviceVars => AdviceAgrees'
  BY DEF AdviceAgrees, adviceVars
<1> QED
  BY <1>1, <1>2, <1>3, PTL DEF AdviceSpec

-----------------------------------------------------------------------------
(* Portfolio: every position is in one of the lists.                          *)

\* The ids given out are those of the open positions and as many as were closed,
\* and what was closed is a sequence.
JournalInv ==
  /\ opened \in Nat
  /\ IsFiniteSet(DOMAIN positions)
  /\ DOMAIN positions \subseteq 1 .. opened
  /\ \A id \in DOMAIN positions : positions[id] \in Position
  /\ closed \in Seq(Exits)
  /\ CountedOnce

LEMMA JournalBegins == PortfolioInit => JournalInv
<1> SUFFICES ASSUME PortfolioInit PROVE JournalInv
  OBVIOUS
<1>1. DOMAIN positions = {} /\ closed \in Seq(Exits) /\ Len(closed) = 0
  BY DEF PortfolioInit
<1>2. IsFiniteSet({}) /\ Cardinality({}) = 0
  BY FS_EmptySet
<1> QED
  BY <1>1, <1>2 DEF PortfolioInit, JournalInv, CountedOnce

LEMMA Adding ==
  ASSUME JournalInv, NEW position \in Position, AddPosition(position)
  PROVE  JournalInv'
<1>1. PICK ids : ids = DOMAIN positions
  OBVIOUS
<1>2. opened + 1 \notin ids /\ opened \in Nat /\ IsFiniteSet(ids) /\ ids \subseteq 1 .. opened
  BY <1>1 DEF JournalInv
<1>3. /\ IsFiniteSet(ids \union {opened + 1})
      /\ Cardinality(ids \union {opened + 1}) = Cardinality(ids) + 1
      /\ Cardinality(ids) \in Nat
  BY <1>2, FS_AddElement, FS_CardinalityType
<1>4. /\ DOMAIN positions' = ids \union {opened + 1} /\ opened' = opened + 1 /\ closed' = closed
      /\ \A id \in DOMAIN positions' :
           positions'[id] = IF id = opened + 1 THEN position ELSE positions[id]
  BY <1>1 DEF AddPosition
<1>5. ids \union {opened + 1} \subseteq 1 .. opened + 1
  BY <1>2
<1>6. \A id \in DOMAIN positions' : positions'[id] \in Position
  BY <1>1, <1>4 DEF JournalInv
<1>7. Len(closed) \in Nat /\ closed' \in Seq(Exits)
  BY <1>4 DEF JournalInv
<1>8. CountedOnce'
  BY <1>1, <1>2, <1>3, <1>4, <1>7 DEF JournalInv, CountedOnce
<1> QED
  BY <1>2, <1>3, <1>4, <1>5, <1>6, <1>7, <1>8 DEF JournalInv

LEMMA Closing ==
  ASSUME JournalInv, NEW id \in Ids, NEW price \in Int, ClosePosition(id, price)
  PROVE  JournalInv'
<1>1. PICK ids : ids = DOMAIN positions
  OBVIOUS
<1>2. id \in ids /\ opened \in Nat /\ IsFiniteSet(ids) /\ ids \subseteq 1 .. opened
  BY <1>1 DEF JournalInv, ClosePosition
<1>3. /\ IsFiniteSet(ids \ {id}) /\ Cardinality(ids \ {id}) = Cardinality(ids) - 1
      /\ Cardinality(ids) \in Nat
  BY <1>2, FS_RemoveElement, FS_CardinalityType
<1>4. PICK exit \in Exits : exit = [position |-> positions[id], exit |-> price]
  BY <1>1, <1>2 DEF JournalInv, Exits
<1>5. /\ DOMAIN positions' = ids \ {id} /\ opened' = opened /\ closed' = Append(closed, exit)
      /\ \A i \in DOMAIN positions' : positions'[i] = positions[i]
  BY <1>1, <1>4 DEF ClosePosition
<1>6. closed \in Seq(Exits) /\ closed' \in Seq(Exits) /\ Len(closed') = Len(closed) + 1
  BY <1>5 DEF JournalInv
<1>7. \A i \in DOMAIN positions' : positions'[i] \in Position
  BY <1>1, <1>5 DEF JournalInv
<1>8. CountedOnce'
  BY <1>1, <1>2, <1>3, <1>5, <1>6 DEF JournalInv, CountedOnce
<1> QED
  BY <1>2, <1>3, <1>5, <1>6, <1>7, <1>8 DEF JournalInv

\* However positions are opened, closed and asked about, by ids that are there or
\* not, each that was opened is open or counts once among the closed ones.
THEOREM EachCountsOnce == PortfolioSpec => []CountedOnce
<1>1. ASSUME JournalInv, PortfolioNext PROVE JournalInv'
  <2>1. CASE \E position \in Position : AddPosition(position)
    BY <1>1, <2>1, Adding
  <2>2. CASE \E id \in Ids, price \in Int : ClosePosition(id, price)
    BY <1>1, <2>2, Closing
  <2>3. CASE \E quotes, m, stop, budget : Query(quotes, m, stop, budget)
    BY <1>1, <2>3 DEF Query, JournalInv, CountedOnce
  <2> QED
    BY <1>1, <2>1, <2>2, <2>3 DEF PortfolioNext
<1>2. JournalInv /\ UNCHANGED portfolioVars => JournalInv'
  BY DEF JournalInv, CountedOnce, portfolioVars
<1>3. JournalInv => CountedOnce
  BY DEF JournalInv
<1> QED
  BY <1>1, <1>2, <1>3, JournalBegins, PTL DEF PortfolioSpec

-----------------------------------------------------------------------------
(* MarketServices: builds of the universe beside the black list.              *)

\* What one step does to the universe, as the property says it.
NoneComesBack ==
  \A c \in Calls :
    calls[c].waits = "table" /\ calls'[c] = Idle
      => blacklist' \intersect Codes(universe') \subseteq Codes(universe)

CallsInv == DOMAIN calls = Calls

\* Who is given something new to wait for had nothing or waited for the cache.
LEMMA Waiting ==
  ASSUME CallsInv, NEW c \in Calls, NEW w, calls' = [calls EXCEPT ![c] = w],
         calls[c].waits # "table"
  PROVE  NoneComesBack /\ CallsInv'
<1>1. \A d \in Calls : calls[d].waits = "table" => calls'[d] = calls[d]
  BY DEF CallsInv
<1>2. \A d \in Calls : calls[d].waits = "table" => calls[d] # Idle
  BY DEF Idle
<1> QED
  BY <1>1, <1>2 DEF NoneComesBack, CallsInv

LEMMA AllTheSame ==
  ASSUME CallsInv, UNCHANGED calls
  PROVE  NoneComesBack /\ CallsInv'
BY DEF NoneComesBack, CallsInv, Idle

LEMMA Building ==
  ASSUME CallsInv, NEW c \in Calls, NEW op, NEW force, BeginBuild(c, op, force),
         calls[c].waits # "table"
  PROVE  NoneComesBack /\ CallsInv'
BY Waiting DEF BeginBuild

\* The black list is read when the table has come.
LEMMA Built ==
  ASSUME CallsInv, NEW c \in Calls, NEW table, NEW disposition, EndBuild(c, table, disposition)
  PROVE  NoneComesBack /\ CallsInv'
<1>1. \/ universe' = universe
      \/ blacklist' \intersect Codes(universe') = {}
  BY DEF EndBuild, Layers, Codes
<1>2. CallsInv'
  BY DEF EndBuild, CallsInv
<1> QED
  BY <1>1, <1>2 DEF NoneComesBack

LEMMA UniverseStep ==
  ASSUME CallsInv, UniverseNext
  PROVE  NoneComesBack /\ CallsInv'
<1>1. ASSUME NEW c \in Calls, GetUniverse(c) PROVE NoneComesBack /\ CallsInv'
  <2>1. calls[c].waits # "table" /\ calls' = [calls EXCEPT ![c] = [waits |-> "cache"]]
    BY <1>1 DEF GetUniverse, Idle
  <2> QED
    BY <2>1, Waiting
<1>2. ASSUME NEW c \in Calls, Restored(c) PROVE NoneComesBack /\ CallsInv'
  BY <1>2, Waiting, Building DEF Restored
<1>3. ASSUME NEW c \in Calls, GetFilterReport(c) \/ GetMonthlyDiff(c)
      PROVE NoneComesBack /\ CallsInv'
  <2>1. calls[c] = Idle
    BY <1>3 DEF GetFilterReport, GetMonthlyDiff
  <2>2. BeginBuild(c, "report", FALSE) \/ BeginBuild(c, "diff", TRUE)
    BY <1>3 DEF GetFilterReport, GetMonthlyDiff
  <2>3. Idle.waits # "table"
    BY DEF Idle
  <2> QED
    BY <2>1, <2>2, <2>3, Building
<1>4. ASSUME NEW c \in Calls, NEW force \in BOOLEAN, BuildUniverse(c, force)
      PROVE NoneComesBack /\ CallsInv'
  BY <1>4, Building DEF BuildUniverse, Idle
<1>5. ASSUME NEW add, NEW remove, ManualAdjust(add, remove) PROVE NoneComesBack /\ CallsInv'
  BY <1>5, AllTheSame DEF ManualAdjust
<1>6. ASSUME Restart PROVE NoneComesBack /\ CallsInv'
  BY <1>6 DEF Restart, NoneComesBack, CallsInv, Codes
<1>7. ASSUME NextSvcDay \/ Expire PROVE NoneComesBack /\ CallsInv'
  BY <1>7, AllTheSame DEF NextSvcDay, Expire
<1> QED
  BY <1>1, <1>2, <1>3, <1>4, <1>5, <1>6, <1>7, Built DEF UniverseNext

\* However builds, restarts, the cache's expiry and adjustments by hand
\* interleave, no build brings a code of the black list back.
THEOREM ExcludedStay == MarketSpec => ExcludedStayOut
<1>1. ServicesInit => CallsInv
  BY DEF ServicesInit, CallsInv
<1>2. ASSUME CallsInv, [MarketNext]_servicesVars PROVE NoneComesBack /\ CallsInv'
  <2>1. CASE UniverseNext
    BY <1>2, <2>1, UniverseStep
  <2>2. CASE UNCHANGED calls
    BY <1>2, <2>2, AllTheSame
  <2> QED
    BY <1>2, <2>1, <2>2 DEF MarketNext, UpdateRegime, GetRegime, CalculateBreadth, AskFlow,
                            DetectRotation, universeVars, servicesVars
<1>3. ASSUME CallsInv, [MarketNext]_servicesVars
      PROVE  [\A c \in Calls :
                calls[c].waits = "table" /\ calls'[c] = Idle
                  => blacklist' \intersect Codes(universe') \subseteq Codes(universe)]_servicesVars
  BY <1>2, <1>3 DEF NoneComesBack
<1> QED
  BY <1>1, <1>2, <1>3, PTL DEF MarketSpec, ExcludedStayOut

-----------------------------------------------------------------------------
(* Session: the list that is restored.                                        *)

LEMMA Showing ==
  ASSUME NEW p, NEW c, NEW found, Shown(p, c, found), page' = p, RadarShowsSaved \/ p = "radar"
  PROVE  RadarShowsSaved'
<1>1. CASE p = "radar"
  BY <1>1 DEF Shown, ShowRadar, RestoredList, Persisted, RadarShowsSaved
<1>2. CASE p # "radar"
  BY <1>2 DEF RadarShowsSaved
<1> QED
  BY <1>1, <1>2

\* Whatever the pages do, and after every reload and failure to save, the radar
\* page is without a list only if the file has none.
THEOREM RadarHasSaved == SessionSpec => []RadarShowsSaved
<1>1. SessionInit => RadarShowsSaved
  BY DEF SessionInit, RadarShowsSaved
<1>2. ASSUME RadarShowsSaved, ListClicks PROVE RadarShowsSaved'
  <2>1. CASE NewSession
    BY <2>1 DEF NewSession, RadarShowsSaved
  <2>2. ASSUME NEW p, NEW found, Visit(p, found) PROVE RadarShowsSaved'
    BY <2>2, Showing DEF Visit, RadarShowsSaved
  <2>3. ASSUME NEW c, NEW found, SwitchMarket(c, found) PROVE RadarShowsSaved'
    BY <1>2, <2>3, Showing DEF SwitchMarket
  <2>4. CASE GoRadar
    BY <2>2, <2>4 DEF GoRadar
  <2>5. CASE LoadWatchlist
    BY <1>2, <2>5 DEF LoadWatchlist, RadarShowsSaved, Persisted
  <2>6. ASSUME NEW codes, ScanTyped(codes) PROVE RadarShowsSaved'
    BY <2>6 DEF ScanTyped, RestoredList, Persisted, RadarShowsSaved
  <2>7. CASE ClearWatchlist \/ (\E codes \in Seq(Tickers) : AddPicks(codes))
             \/ (\E found : ScanPicks(found))
    BY <2>7 DEF ClearWatchlist, AddPicks, ScanPicks, RadarShowsSaved
  <2>8. CASE \E table, ranked, bullish : AddChips(table, ranked, bullish)
    BY <2>8 DEF AddChips, RadarShowsSaved
  <2>9. CASE \E codes, historyOf, strategy : RunBacktest(codes, historyOf, strategy)
    BY <2>9 DEF RunBacktest, RadarShowsSaved
  <2> QED
    BY <1>2, <2>1, <2>2, <2>3, <2>4, <2>5, <2>6, <2>7, <2>8, <2>9 DEF ListClicks
<1>3. ASSUME RadarShowsSaved, PaperClicks PROVE RadarShowsSaved'
  <2>1. CASE GoPaper
    BY <2>1 DEF GoPaper, Visit, RadarShowsSaved
  <2>2. CASE page = "paper" /\ UNCHANGED page
    BY <2>2 DEF RadarShowsSaved
  <2> QED
    BY <1>3, <2>1, <2>2 DEF PaperClicks, StopPaper, StartPaper, QuickBuild, ManualBuy, Sell, OnPaper
<1>4. RadarShowsSaved /\ UNCHANGED sessionVars => RadarShowsSaved'
  BY DEF RadarShowsSaved, Persisted, sessionVars, lists
<1> QED
  BY <1>1, <1>2, <1>3, <1>4, PTL DEF SessionSpec, SessionNext

-----------------------------------------------------------------------------
(* MarketDownloads: the tables of a scan.                                     *)

\* Days between two others have a last one.
LEMMA LastDayOf ==
  ASSUME NEW a \in Int, NEW b \in Int, NEW S \in SUBSET (a .. b), S # {}
  PROVE  Max(S) \in S /\ \A x \in S : x <= Max(S)
<1> DEFINE T == {n \in Nat : b - n \in S}
<1>1. T \subseteq Nat /\ T # {}
  <2>1. PICK x \in S : TRUE
    OBVIOUS
  <2>2. b - x \in Nat /\ b - (b - x) = x
    BY <2>1
  <2> QED
    BY <2>1, <2>2
<1>2. PICK n \in T : \A k \in T : ~ (<<k, n>> \in OpToRel(<, Nat))
  BY <1>1, NatLessThanWellFounded, WFMin
<1>3. \A k \in T : n <= k
  <2> HIDE DEF T
  <2> TAKE k \in T
  <2>1. k \in Nat /\ n \in Nat
    BY <1>1
  <2>2. k < n => <<k, n>> \in OpToRel(<, Nat)
    BY <2>1 DEF OpToRel
  <2>3. ~ (k < n)
    BY <1>2, <2>2
  <2> QED
    BY <2>1, <2>3
<1>4. n \in Nat /\ b - n \in S
  BY <1>2
<1>5. \A x \in S : x <= b - n
  <2> TAKE x \in S
  <2>1. b - x \in Nat /\ b - (b - x) = x
    OBVIOUS
  <2>2. b - x \in T
    BY <2>1
  <2>3. n <= b - x
    BY <1>3, <2>2
  <2> QED
    BY <1>4, <2>1, <2>3
<1> HIDE DEF T
<1>6. \A x \in S : x >= b - n => x = b - n
  BY <1>4, <1>5
<1>7. b - n \in S /\ \A y \in S : b - n >= y
  BY <1>4, <1>5
<1>8. \A z \in S : (\A y \in S : z >= y) => z = b - n
  BY <1>4, <1>6
<1>9. Max(S) = b - n
  BY <1>7, <1>8 DEF Max
<1> QED
  BY <1>4, <1>5, <1>9

\* The day a download is for lies within the days it looks back to, and does not
\* go back when a day passes.
LEMMA TradingDate ==
  ASSUME NEW d \in Int
  PROVE  FindTradingDate(d) \in d - Lookback + 1 .. d
<1>1. Lookback \in Nat \ {0}
  BY DaysAssumption
<1> DEFINE days == {x \in d - Lookback + 1 .. d : IsWorkday(x)}
<1>2. CASE days = {}
  BY <1>1, <1>2 DEF FindTradingDate
<1>3. CASE days # {}
  <2>1. days \in SUBSET (d - Lookback + 1 .. d) /\ d - Lookback + 1 \in Int
    BY <1>1
  <2>2. Max(days) \in days
    BY <1>3, <2>1, LastDayOf
  <2> QED
    BY <1>3, <2>1, <2>2 DEF FindTradingDate
<1> QED
  BY <1>2, <1>3

LEMMA NoWayBack ==
  ASSUME NEW d \in Int, NEW e \in Int, e = d + 1
  PROVE  FindTradingDate(d) <= FindTradingDate(e)
<1>1. Lookback \in Nat \ {0}
  BY DaysAssumption
<1> DEFINE days == {x \in d - Lookback + 1 .. d : IsWorkday(x)}
           next == {x \in e - Lookback + 1 .. e : IsWorkday(x)}
           day  == FindTradingDate(d)
           new  == FindTradingDate(e)
<1>2. /\ day \in d - Lookback + 1 .. d
      /\ new \in e - Lookback + 1 .. e
  BY TradingDate
<1>3. CASE new = e
  BY <1>1, <1>2, <1>3
<1>4. CASE new # e
  <2>1. next # {} /\ new = Max(next)
    <3>1. new = IF next = {} THEN e ELSE Max(next)
      BY DEF FindTradingDate
    <3> QED
      BY <1>4, <3>1
  <2>2. next \in SUBSET (e - Lookback + 1 .. e) /\ e - Lookback + 1 \in Int
    BY <1>1
  <2>3. new \in next /\ \A x \in next : x <= new
    BY <2>1, <2>2, LastDayOf
  <2>4. new \in days
    BY <1>1, <1>4, <2>3
  <2>5. days \in SUBSET (d - Lookback + 1 .. d) /\ d - Lookback + 1 \in Int
    BY <1>1
  <2>6. day = Max(days)
    BY <2>4 DEF FindTradingDate
  <2>7. day \in days
    BY <2>4, <2>5, <2>6, LastDayOf
  <2>8. CASE day = d - Lookback + 1
    BY <1>1, <1>2, <2>8
  <2>9. CASE day # d - Lookback + 1
    <3>1. day \in next
      BY <1>1, <2>7, <2>9
    <3> QED
      BY <2>3, <3>1
  <2> QED
    BY <2>8, <2>9
<1> QED
  BY <1>3, <1>4

\* What a request finds is empty or of one of the days it tries.
LEMMA FindsADay ==
  ASSUME NEW t, NEW key \in Int, NEW tries \in Nat \ {0}, NEW lost
  PROVE  Found(t, key, tries, lost) \in {Empty} \union (key - tries + 1 .. key)
<1> DEFINE days == {x \in key - tries + 1 .. key :
                      IsTradingDay(x) /\ x <= published[t] /\ <<t, x>> \notin lost}
<1>1. CASE days = {}
  BY <1>1 DEF Found
<1>2. CASE days # {}
  <2>1. days \in SUBSET (key - tries + 1 .. key) /\ key - tries + 1 \in Int
    OBVIOUS
  <2>2. Max(days) \in days
    BY <1>2, <2>1, LastDayOf
  <2> QED
    BY <1>2, <2>1, <2>2 DEF Found
<1> QED
  BY <1>1, <1>2

\* A memory: what is kept of a day under the daily table's date is of that day or
\* empty, and the date is the one of the newest daily table.
MemoryOf(m, key) ==
  /\ m = [cached |-> [k \in Keys |-> m.cached[k]], last |-> m.last]
  /\ m.last \in Int
  /\ \A t \in FollowingDaily : \A d \in DOMAIN m.cached[t] : m.cached[t][d] \in {d, Empty}
  /\ \A k \in DOMAIN m.cached["twse_daily"] :
       /\ k \in Int /\ k <= key
       /\ m.cached["twse_daily"][k] \in Int \ {NoDay}
       /\ k = key => m.last = m.cached["twse_daily"][k]

\* The day of the tables that follow the daily one.
DayOf(m, key) == IF m.last = NoDay THEN key ELSE m.last

LEMMA KeepingMemory ==
  ASSUME NEW m, NEW key, MemoryOf(m, key), NEW k \in Keys, NEW d, NEW table
  PROVE  /\ Keep(m, k, d, table).last = m.last
         /\ Keep(m, k, d, table) = [cached |-> [j \in Keys |-> Keep(m, k, d, table).cached[j]],
                                    last |-> m.last]
         /\ \A j \in Keys \ {k} : Keep(m, k, d, table).cached[j] = m.cached[j]
         /\ Keep(m, k, d, table).cached[k] = Entered(m.cached[k], d, table)
BY DEF MemoryOf, Keep

\* A table that neither is the daily one nor follows it leaves the rest alone.
LEMMA KeepAnother ==
  ASSUME NEW m, NEW key, MemoryOf(m, key), NEW k \in Keys, NEW d, NEW table,
         k \notin FollowingDaily, k # "twse_daily"
  PROVE  MemoryOf(Keep(m, k, d, table), key)
<1>1. PICK n : n = Keep(m, k, d, table)
  OBVIOUS
<1>2. /\ n = [cached |-> [j \in Keys |-> n.cached[j]], last |-> n.last]
      /\ n.last = m.last
      /\ \A j \in Keys \ {k} : n.cached[j] = m.cached[j]
  BY <1>1, KeepingMemory
<1>3. FollowingDaily \union {"twse_daily"} \subseteq Keys \ {k}
  BY DEF FollowingDaily, Keys, AllTables, LookingBack, KeepingFailures, OfToday, Others
<1>4. /\ \A t \in FollowingDaily : n.cached[t] = m.cached[t]
      /\ n.cached["twse_daily"] = m.cached["twse_daily"]
  BY <1>2, <1>3
<1> HIDE DEF FollowingDaily
<1> QED
  BY <1>1, <1>2, <1>4 DEF MemoryOf

LEMMA KeepFollowing ==
  ASSUME NEW m, NEW key, MemoryOf(m, key), NEW t \in FollowingDaily, NEW d, NEW table \in {d, Empty}
  PROVE  /\ MemoryOf(Keep(m, t, d, table), key)
         /\ Keep(m, t, d, table).last = m.last
<1>1. PICK n : n = Keep(m, t, d, table)
  OBVIOUS
<1>2. t \in Keys /\ t # "twse_daily" /\ "twse_daily" \in Keys /\ FollowingDaily \subseteq Keys
  BY DEF FollowingDaily, Keys, AllTables, LookingBack, KeepingFailures, OfToday, Others
<1>3. /\ n = [cached |-> [j \in Keys |-> n.cached[j]], last |-> n.last]
      /\ n.last = m.last
      /\ \A j \in Keys \ {t} : n.cached[j] = m.cached[j]
      /\ n.cached[t] = Entered(m.cached[t], d, table)
  BY <1>1, <1>2, KeepingMemory
<1>4. /\ \A s \in FollowingDaily \ {t} : n.cached[s] = m.cached[s]
      /\ n.cached["twse_daily"] = m.cached["twse_daily"]
  BY <1>2, <1>3
<1>5. \A e \in DOMAIN n.cached[t] : n.cached[t][e] \in {e, Empty}
  <2>1. \A e \in DOMAIN m.cached[t] : m.cached[t][e] \in {e, Empty}
    BY DEF MemoryOf
  <2>2. PICK f : f = m.cached[t]
    OBVIOUS
  <2>3. n.cached[t] = Entered(f, d, table)
    BY <1>3, <2>2
  <2>4. \A e \in DOMAIN f : f[e] \in {e, Empty}
    BY <2>1, <2>2
  <2>5. PICK g : g = n.cached[t]
    OBVIOUS
  <2>6. DOMAIN g = DOMAIN f \union {d} /\ g[d] = table /\ \A e \in DOMAIN f \ {d} : g[e] = f[e]
    <3>1. g = Entered(f, d, table)
      BY <2>3, <2>5
    <3> QED
      BY <3>1 DEF Entered
  <2>7. \A e \in DOMAIN g : g[e] \in {e, Empty}
    BY <2>4, <2>6
  <2> QED
    BY <2>5, <2>7
<1>6. \A s \in FollowingDaily : \A e \in DOMAIN n.cached[s] : n.cached[s][e] \in {e, Empty}
  BY <1>4, <1>5 DEF MemoryOf
<1> QED
  BY <1>1, <1>3, <1>4, <1>6 DEF MemoryOf

LEMMA KeepDaily ==
  ASSUME NEW m, NEW key \in Int, MemoryOf(m, key), NEW table \in Int \ {NoDay}
  PROVE  /\ MemoryOf(Keep(Remember(m, "twse_daily", key, table), "twse_daily", key, table), key)
         /\ Keep(Remember(m, "twse_daily", key, table), "twse_daily", key, table).last = table
<1>1. PICK p : p = Remember(m, "twse_daily", key, table)
  OBVIOUS
<1>2. "twse_daily" \in Keys /\ FollowingDaily \subseteq Keys \ {"twse_daily"}
  BY DEF FollowingDaily, Keys, AllTables, LookingBack, KeepingFailures, OfToday, Others
<1>3. /\ p.cached = m.cached /\ p.last = table
      /\ p = [cached |-> [k \in Keys |-> p.cached[k]], last |-> p.last]
  BY <1>1 DEF Remember, MemoryOf
<1>4. PICK n : n = Keep(p, "twse_daily", key, table)
  OBVIOUS
<1>5. /\ n = [cached |-> [j \in Keys |-> n.cached[j]], last |-> n.last]
      /\ n.last = table
      /\ \A t \in FollowingDaily : n.cached[t] = m.cached[t]
      /\ n.cached["twse_daily"] = Entered(m.cached["twse_daily"], key, table)
  BY <1>2, <1>3, <1>4 DEF Keep
<1>6. \A k \in DOMAIN n.cached["twse_daily"] :
        /\ k \in Int /\ k <= key
        /\ n.cached["twse_daily"][k] \in Int \ {NoDay}
        /\ k = key => n.last = n.cached["twse_daily"][k]
  <2>1. \A k \in DOMAIN m.cached["twse_daily"] :
          k \in Int /\ k <= key /\ m.cached["twse_daily"][k] \in Int \ {NoDay}
    BY DEF MemoryOf
  <2>2. PICK f : f = m.cached["twse_daily"]
    OBVIOUS
  <2>3. PICK g : g = n.cached["twse_daily"]
    OBVIOUS
  <2>4. /\ DOMAIN g = DOMAIN f \union {key} /\ g[key] = table
        /\ \A k \in DOMAIN f \ {key} : g[k] = f[k]
    <3>1. g = Entered(f, key, table)
      BY <1>5, <2>2, <2>3
    <3> QED
      BY <3>1 DEF Entered
  <2>5. \A k \in DOMAIN g :
          k \in Int /\ k <= key /\ g[k] \in Int \ {NoDay} /\ (k = key => n.last = g[k])
    BY <1>5, <2>1, <2>2, <2>4
  <2> QED
    BY <2>3, <2>5
<1> QED
  BY <1>1, <1>4, <1>5, <1>6 DEF MemoryOf

\* What follows the daily table is of its day or empty.
LEMMA Follows ==
  ASSUME today \in Int, NEW m, NEW key, key = FindTradingDate(today), MemoryOf(m, key),
         NEW t \in FollowingDaily, NEW lost
  PROVE  /\ FetchFollowing(m, t, lost).table \in {DayOf(m, key), Empty}
         /\ MemoryOf(FetchFollowing(m, t, lost).memory, key)
         /\ FetchFollowing(m, t, lost).memory.last = m.last
<1>1. PICK day \in Int : day = DayOf(m, key)
  <2>1. Lookback \in Nat
    BY DaysAssumption
  <2>2. key \in Int
    BY <2>1, TradingDate
  <2> QED
    BY <2>2 DEF DayOf, MemoryOf
<1>2. PICK table : table = Found(t, day, 1, lost)
  OBVIOUS
<1>3. table \in {day, Empty}
  <2>1. table \in {Empty} \union (day - 1 + 1 .. day)
    BY <1>2, FindsADay
  <2> QED
    BY <2>1
<1>4. CASE Known(m, t, day)
  <2>1. m.cached[t][day] \in {day, Empty}
    BY <1>4 DEF MemoryOf, Known
  <2>2. FetchFollowing(m, t, lost) = Reply(m, m.cached[t][day])
    BY <1>1, <1>4 DEF FetchFollowing, DayOf
  <2> QED
    BY <1>1, <2>1, <2>2 DEF Reply
<1>5. CASE ~ Known(m, t, day)
  <2>1. \/ FetchFollowing(m, t, lost) = Reply(Keep(m, t, day, table), table)
        \/ FetchFollowing(m, t, lost) = Reply(m, Empty)
    BY <1>1, <1>2, <1>5 DEF FetchFollowing, DayOf
  <2>2. MemoryOf(Keep(m, t, day, table), key) /\ Keep(m, t, day, table).last = m.last
    BY <1>3, KeepFollowing
  <2> QED
    BY <1>1, <1>3, <2>1, <2>2 DEF Reply
<1> QED
  BY <1>4, <1>5

\* The daily table is empty or of the day the others follow.
LEMMA FetchesDaily ==
  ASSUME today \in Nat, today >= FirstDay, NEW m, NEW key, key = FindTradingDate(today),
         MemoryOf(m, key), NEW lost
  PROVE  LET daily == FetchBack(m, "twse_daily", lost)
         IN  /\ MemoryOf(daily.memory, key)
             /\ daily.table \in {DayOf(daily.memory, key), Empty}
<1> DEFINE daily == FetchBack(m, "twse_daily", lost)
<1>1. Lookback \in Nat \ {0} /\ FirstDay \in Nat /\ FirstDay >= 2 * Lookback
  BY DaysAssumption
<1>2. key \in today - Lookback + 1 .. today
  BY TradingDate
<1>3. PICK table : table = Found("twse_daily", key, Lookback, lost)
  OBVIOUS
<1>4. table \in {Empty} \union (key - Lookback + 1 .. key)
  BY <1>1, <1>2, <1>3, FindsADay
<1>5. key \in Int /\ table \in Int \ {NoDay}
  BY <1>1, <1>2, <1>4 DEF Empty, NoDay
<1>6. CASE Known(m, "twse_daily", key)
  <2>1. daily = Reply(m, m.cached["twse_daily"][key])
    BY <1>6 DEF FetchBack
  <2>2. m.last = m.cached["twse_daily"][key] /\ m.last # NoDay
    BY <1>6 DEF MemoryOf, Known
  <2> QED
    BY <2>1, <2>2 DEF Reply, DayOf
<1>7. CASE ~ Known(m, "twse_daily", key) /\ table # Empty
  <2>1. PICK n : n = Keep(Remember(m, "twse_daily", key, table), "twse_daily", key, table)
    OBVIOUS
  <2>2. daily = Reply(n, table)
    BY <1>3, <1>7, <2>1 DEF FetchBack
  <2>3. MemoryOf(n, key) /\ n.last = table
    BY <1>5, <2>1, KeepDaily
  <2> QED
    BY <1>5, <2>2, <2>3 DEF Reply, DayOf
<1>8. CASE ~ Known(m, "twse_daily", key) /\ table = Empty
  <2>1. daily = Reply(m, Empty)
    BY <1>3, <1>8 DEF FetchBack
  <2> QED
    BY <2>1 DEF Reply
<1> QED
  BY <1>6, <1>7, <1>8

\* Tables of one day or empty.
LEMMA OneDay ==
  ASSUME NEW a, NEW b, NEW c, NEW d, NEW day, {a, b, c, d} \subseteq {day, Empty}
  PROVE  Cardinality({a, b, c, d} \ {Empty}) <= 1
<1>1. {a, b, c, d} \ {Empty} = {} \/ {a, b, c, d} \ {Empty} = {day}
  OBVIOUS
<1>2. Cardinality({}) = 0 /\ Cardinality({day}) = 1
  BY FS_EmptySet, FS_Singleton
<1> QED
  BY <1>1, <1>2

\* How the process remembers between the steps.
ScanInv ==
  /\ today \in Nat /\ today >= FirstDay
  /\ MemoryOf(Memory, FindTradingDate(today))
  /\ ScansOneDay

LEMMA ScanBegins == DownloadInit => ScanInv
<1> SUFFICES ASSUME DownloadInit PROVE ScanInv
  OBVIOUS
<1>1. "twse_daily" \in Keys /\ FollowingDaily \subseteq Keys
  BY DEF FollowingDaily, Keys, AllTables, LookingBack, KeepingFailures, OfToday, Others
<1>2. \A k \in Keys : DOMAIN cached[k] = {}
  BY DEF DownloadInit
<1>3. MemoryOf(Memory, FindTradingDate(today))
  BY <1>1, <1>2 DEF DownloadInit, MemoryOf, Memory, NoDay
<1>4. Cardinality({screened.daily, screened.otc, screened.inst, screened.otcInst} \ {Empty}) <= 1
  BY OneDay DEF DownloadInit, Nothing
<1> QED
  BY <1>3, <1>4, DaysAssumption DEF DownloadInit, ScanInv, ScansOneDay

LEMMA DayPasses ==
  ASSUME ScanInv, NextDay
  PROVE  ScanInv'
<1>1. PICK key : key = FindTradingDate(today)
  OBVIOUS
<1>2. PICK e \in Nat : e = today + 1 /\ today' = e
  BY DEF ScanInv, NextDay
<1>3. PICK new : new = FindTradingDate(e)
  OBVIOUS
<1>4. today \in Int /\ Lookback \in Nat /\ FirstDay \in Nat
  BY DaysAssumption DEF ScanInv
<1>5. key \in Int /\ new \in Int /\ key <= new
  BY <1>1, <1>2, <1>3, <1>4, NoWayBack, TradingDate
<1>6. FindTradingDate(today)' = new
  BY <1>2, <1>3 DEF FindTradingDate
<1>7. PICK m : m = Memory /\ Memory' = m
  BY DEF NextDay, Memory
<1>8. MemoryOf(m, key)
  BY <1>1, <1>7 DEF ScanInv
<1>9. new # key => new \notin DOMAIN m.cached["twse_daily"]
  BY <1>5, <1>8 DEF MemoryOf
<1>10. MemoryOf(m, new)
  BY <1>5, <1>8, <1>9 DEF MemoryOf
<1>11. ScansOneDay'
  BY DEF ScanInv, NextDay, ScansOneDay
<1> QED
  BY <1>2, <1>4, <1>6, <1>7, <1>10, <1>11 DEF ScanInv, MemoryOf

\* A step of this day after which the process remembers m.
LEMMA Remembering ==
  ASSUME ScanInv, UNCHANGED today, NEW m, Recall(m), MemoryOf(m, FindTradingDate(today)),
         ScansOneDay'
  PROVE  ScanInv'
<1>1. PICK key : key = FindTradingDate(today)
  OBVIOUS
<1>2. FindTradingDate(today)' = key
  BY <1>1 DEF FindTradingDate
<1>3. Memory' = [cached |-> m.cached, last |-> m.last]
  BY DEF Recall, Memory
<1>4. Memory' = m
  BY <1>3 DEF MemoryOf
<1>5. MemoryOf(m, key)
  BY <1>1
<1> QED
  BY <1>2, <1>4, <1>5 DEF ScanInv, MemoryOf

LEMMA Fetching ==
  ASSUME ScanInv, NEW t \in AllTables, NEW lost, Fetch(t, lost)
  PROVE  ScanInv'
<1>1. PICK key : key = FindTradingDate(today)
  OBVIOUS
<1>2. PICK m : m = Memory /\ MemoryOf(m, key)
  BY <1>1 DEF ScanInv
<1>3. today \in Nat /\ today >= FirstDay /\ ScansOneDay'
  BY DEF ScanInv, Fetch, ScansOneDay
<1>4. t \in Keys \/ t \in Others
  BY DEF Keys
<1>5. CASE t \in LookingBack /\ Recall(FetchBack(Memory, t, lost).memory)
  <2>1. CASE t = "twse_daily"
    <3>1. PICK n : n = FetchBack(m, "twse_daily", lost).memory
      OBVIOUS
    <3>2. MemoryOf(n, key)
      BY <1>1, <1>2, <1>3, <3>1, FetchesDaily
    <3>3. Recall(n)
      BY <1>2, <1>5, <2>1, <3>1
    <3> QED
      BY <1>1, <1>3, <3>2, <3>3, Remembering DEF Fetch
  <2>2. CASE t # "twse_daily"
    <3>1. PICK n : n = FetchBack(m, t, lost).memory
      OBVIOUS
    <3>2. t \in Keys /\ t \notin FollowingDaily
      BY <1>5 DEF Keys, AllTables, LookingBack, FollowingDaily, Others
    <3>3. \/ n = m
          \/ n = Keep(m, t, key, Found(t, key, Lookback, lost))
      BY <1>1, <2>2, <3>1 DEF FetchBack, Remember, Reply
    <3>4. MemoryOf(n, key)
      BY <1>2, <2>2, <3>2, <3>3, KeepAnother
    <3>5. Recall(n)
      BY <1>2, <1>5, <3>1
    <3> QED
      BY <1>1, <1>3, <3>4, <3>5, Remembering DEF Fetch
  <2> QED
    BY <2>1, <2>2
<1>6. CASE t \in KeepingFailures /\ Recall(FetchKeeping(Memory, t, lost).memory)
  <2>1. PICK n : n = FetchKeeping(m, t, lost).memory
    OBVIOUS
  <2>2. t \in Keys /\ t \notin FollowingDaily /\ t # "twse_daily"
    BY <1>6 DEF Keys, AllTables, KeepingFailures, FollowingDaily, Others
  <2>3. \/ n = m
        \/ n = Keep(m, t, key, Found(t, key, Lookback, lost))
    BY <1>1, <2>1 DEF FetchKeeping, Reply
  <2>4. MemoryOf(n, key)
    BY <1>2, <2>2, <2>3, KeepAnother
  <2>5. Recall(n)
    BY <1>2, <1>6, <2>1
  <2> QED
    BY <1>1, <1>3, <2>4, <2>5, Remembering DEF Fetch
<1>7. CASE t \in FollowingDaily /\ Recall(FetchFollowing(Memory, t, lost).memory)
  <2>1. PICK n : n = FetchFollowing(m, t, lost).memory
    OBVIOUS
  <2>2. MemoryOf(n, key)
    BY <1>1, <1>2, <1>3, <1>7, <2>1, Follows
  <2>3. Recall(n)
    BY <1>2, <1>7, <2>1
  <2> QED
    BY <1>1, <1>3, <2>2, <2>3, Remembering DEF Fetch
<1>8. CASE t \in OfToday /\ Recall(FetchOfToday(Memory, t, lost).memory)
  <2>1. PICK n : n = FetchOfToday(m, t, lost).memory
    OBVIOUS
  <2>2. t \in Keys /\ t \notin FollowingDaily /\ t # "twse_daily"
    BY <1>8 DEF Keys, AllTables, OfToday, FollowingDaily, Others
  <2>3. \/ n = m
        \/ n = Keep(m, t, today, Found(t, today, 1, lost))
    BY <2>1 DEF FetchOfToday, Reply
  <2>4. MemoryOf(n, key)
    BY <1>2, <2>2, <2>3, KeepAnother
  <2>5. Recall(n)
    BY <1>2, <1>8, <2>1
  <2> QED
    BY <1>1, <1>3, <2>4, <2>5, Remembering DEF Fetch
<1> QED
  BY <1>5, <1>6, <1>7, <1>8 DEF Fetch

LEMMA FetchingBasis ==
  ASSUME ScanInv, NEW lost, FetchBasis(lost)
  PROVE  ScanInv'
<1>1. PICK key : key = FindTradingDate(today)
  OBVIOUS
<1>2. PICK m : m = Memory /\ MemoryOf(m, key)
  BY <1>1 DEF ScanInv
<1>3. ScansOneDay' /\ UNCHANGED today
  BY DEF ScanInv, FetchBasis, ScansOneDay
<1>4. \A k \in {"futures_daily", "basis"} :
        k \in Keys /\ k \notin FollowingDaily /\ k # "twse_daily"
  BY DEF Keys, FollowingDaily
<1>5. PICK f : f = FuturesDaily(m, key, lost).memory
  OBVIOUS
<1>6. MemoryOf(f, key)
  <2>1. f = m \/ \E tables : f = Keep(m, "futures_daily", key, tables)
    BY <1>5 DEF FuturesDaily, Reply
  <2> QED
    BY <1>2, <1>4, <2>1, KeepAnother
<1>7. PICK n : n = FuturesBasis(m, lost).memory
  OBVIOUS
<1>8. MemoryOf(n, key)
  <2>1. n = m \/ \E basis : n = Keep(f, "basis", key, basis)
    BY <1>1, <1>5, <1>7 DEF FuturesBasis, Reply
  <2> QED
    BY <1>2, <1>4, <1>6, <2>1, KeepAnother
<1>9. Recall(n)
  BY <1>2, <1>7 DEF FetchBasis
<1> QED
  BY <1>1, <1>3, <1>8, <1>9, Remembering

LEMMA Scanning ==
  ASSUME ScanInv, NEW lost, Scan(lost)
  PROVE  ScanInv'
<1>1. PICK key : key = FindTradingDate(today)
  OBVIOUS
<1>2. PICK m : m = Memory /\ MemoryOf(m, key)
  BY <1>1 DEF ScanInv
<1>3. today \in Nat /\ today >= FirstDay /\ UNCHANGED today
  BY DEF ScanInv, Scan
<1>4. PICK daily : daily = FetchBack(m, "twse_daily", lost)
  OBVIOUS
<1>5. PICK day : day = DayOf(daily.memory, key)
  OBVIOUS
<1>6. MemoryOf(daily.memory, key) /\ daily.table \in {day, Empty}
  BY <1>1, <1>2, <1>3, <1>4, <1>5, FetchesDaily
<1>7. PICK otc : otc = FetchFollowing(daily.memory, "tpex_daily", lost)
  OBVIOUS
<1>8. PICK inst : inst = FetchFollowing(otc.memory, "twse_institutional", lost)
  OBVIOUS
<1>9. PICK otcInst : otcInst = FetchFollowing(inst.memory, "tpex_institutional", lost)
  OBVIOUS
<1>10. {"tpex_daily", "twse_institutional", "tpex_institutional"} \subseteq FollowingDaily
  BY DEF FollowingDaily
<1>11. /\ otc.table \in {day, Empty}
       /\ MemoryOf(otc.memory, key)
       /\ DayOf(otc.memory, key) = day
  BY <1>1, <1>3, <1>5, <1>6, <1>7, <1>10, Follows DEF DayOf
<1>12. /\ inst.table \in {day, Empty}
       /\ MemoryOf(inst.memory, key)
       /\ DayOf(inst.memory, key) = day
  BY <1>1, <1>3, <1>8, <1>10, <1>11, Follows DEF DayOf
<1>13. /\ otcInst.table \in {day, Empty}
       /\ MemoryOf(otcInst.memory, key)
  BY <1>1, <1>3, <1>9, <1>10, <1>12, Follows
<1>14. CASE daily.table = Empty /\ otc.table = Empty
  <2>1. Recall(otc.memory) /\ screened' = Nothing
    BY <1>2, <1>4, <1>7, <1>14 DEF Scan
  <2>2. ScansOneDay'
    <3>1. Cardinality({Empty, Empty, Empty, Empty} \ {Empty}) <= 1
      BY OneDay
    <3> QED
      BY <2>1, <3>1 DEF ScansOneDay, Nothing
  <2> QED
    BY <1>1, <1>3, <1>11, <2>1, <2>2, Remembering
<1>15. CASE ~ (daily.table = Empty /\ otc.table = Empty)
  <2>1. /\ Recall(otcInst.memory)
        /\ screened' = [daily |-> daily.table, otc |-> otc.table, inst |-> inst.table,
                         otcInst |-> otcInst.table, asked |-> otcInst.memory.last]
    BY <1>2, <1>4, <1>7, <1>8, <1>9, <1>15 DEF Scan
  <2>2. ScansOneDay'
    <3>1. Cardinality({daily.table, otc.table, inst.table, otcInst.table} \ {Empty}) <= 1
      BY <1>6, <1>11, <1>12, <1>13, OneDay
    <3> QED
      BY <2>1, <3>1 DEF ScansOneDay
  <2> QED
    BY <1>1, <1>3, <1>13, <2>1, <2>2, Remembering
<1> QED
  BY <1>14, <1>15

\* In whatever order days pass, tables come out, get lost and are asked for, no
\* scan puts the tables of different days together.
THEOREM ScansAreOfOneDay == DownloadSpec => []ScansOneDay
<1>1. ASSUME ScanInv, DownloadNext PROVE ScanInv'
  <2>1. CASE \E t \in AllTables : Publish(t)
    BY <1>1, <2>1 DEF Publish, ScanInv, MemoryOf, Memory, FindTradingDate, ScansOneDay
  <2> QED
    BY <1>1, <2>1, DayPasses, Fetching, FetchingBasis, Scanning DEF DownloadNext
<1>2. ScanInv /\ UNCHANGED downloadVars => ScanInv'
  BY DEF ScanInv, MemoryOf, Memory, FindTradingDate, ScansOneDay, downloadVars
<1>3. ScanInv => ScansOneDay
  BY DEF ScanInv
<1> QED
  BY <1>1, <1>2, <1>3, ScanBegins, PTL DEF DownloadSpec
-----------------------------------------------------------------------------
(* Conclusions: a better score is not judged worse.                           *)

\* The smallest of some numbers is what Min chooses.
LEMMA MinIs ==
  ASSUME NEW S \in SUBSET Int, NEW m \in S, \A x \in S : m <= x
  PROVE  Min(S) = m
<1>1. \A z \in S : (\A y \in S : z <= y) => z = m
  <2>1. m \in Int /\ \A z \in S : z \in Int
    OBVIOUS
  <2> QED
    BY <2>1
<1> QED
  BY <1>1 DEF Min

\* What a list of two bounds gives is what the first bound reached gives.
LEMMA TwoSteps ==
  ASSUME NEW x, NEW a, NEW u, NEW b, NEW v, NEW o
  PROVE  Steps(x, <<<<a, u>>, <<b, v>>>>, o) = IF x >= a THEN u ELSE IF x >= b THEN v ELSE o
<1>1. PICK s : s = <<<<a, u>>, <<b, v>>>>
  OBVIOUS
<1>2. PICK S : S = {i \in DOMAIN s : x >= s[i][1]}
  OBVIOUS
<1>3. Steps(x, s, o) = IF S = {} THEN o ELSE s[Min(S)][2]
  BY <1>2 DEF Steps
<1>4. S = {i \in 1 .. 2 : x >= s[i][1]} /\ s[1] = <<a, u>> /\ s[2] = <<b, v>>
  BY <1>1, <1>2
<1>5. CASE x >= a
  <2>1. 1 \in S /\ S \in SUBSET Int /\ \A i \in S : 1 <= i
    BY <1>4, <1>5
  <2>2. Min(S) = 1
    BY <2>1, MinIs
  <2> QED
    BY <1>1, <1>3, <1>4, <1>5, <2>1, <2>2
<1>6. CASE ~(x >= a) /\ x >= b
  <2>1. S = {2}
    BY <1>4, <1>6
  <2>2. 2 \in S /\ S \in SUBSET Int /\ \A i \in S : 2 <= i
    BY <2>1
  <2>3. Min(S) = 2
    BY <2>2, MinIs
  <2> QED
    BY <1>1, <1>3, <1>4, <1>6, <2>2, <2>3
<1>7. CASE ~(x >= a) /\ ~(x >= b)
  <2>1. S = {}
    BY <1>4, <1>7
  <2> QED
    BY <1>1, <1>3, <1>7, <2>1
<1> QED
  BY <1>5, <1>6, <1>7

\* The same of three bounds, the lists of _score_to_raw_level and _flow_stability.
LEMMA ThreeSteps ==
  ASSUME NEW x, NEW a, NEW u, NEW b, NEW v, NEW c, NEW w, NEW o
  PROVE  Steps(x, <<<<a, u>>, <<b, v>>, <<c, w>>>>, o) =
           IF x >= a THEN u ELSE IF x >= b THEN v ELSE IF x >= c THEN w ELSE o
<1>1. PICK s : s = <<<<a, u>>, <<b, v>>, <<c, w>>>>
  OBVIOUS
<1>2. PICK S : S = {i \in DOMAIN s : x >= s[i][1]}
  OBVIOUS
<1>3. Steps(x, s, o) = IF S = {} THEN o ELSE s[Min(S)][2]
  BY <1>2 DEF Steps
<1>4. /\ S = {i \in {1, 2, 3} : x >= s[i][1]}
      /\ s[1] = <<a, u>> /\ s[2] = <<b, v>> /\ s[3] = <<c, w>>
  <2>1. DOMAIN s = {1, 2, 3}
    BY <1>1
  <2> QED
    BY <1>1, <1>2, <2>1
<1>5. CASE x >= a
  <2>1. 1 \in S /\ S \in SUBSET Int /\ \A i \in S : 1 <= i
    BY <1>4, <1>5
  <2>2. Min(S) = 1
    BY <2>1, MinIs
  <2> QED
    BY <1>1, <1>3, <1>4, <1>5, <2>1, <2>2
<1>6. CASE ~(x >= a) /\ x >= b
  <2>1. 2 \in S /\ 1 \notin S
    BY <1>4, <1>6
  <2>2. S \in SUBSET Int /\ \A i \in S : 2 <= i
    BY <1>4, <2>1
  <2>3. Min(S) = 2
    BY <2>1, <2>2, MinIs
  <2> QED
    BY <1>1, <1>3, <1>4, <1>6, <2>1, <2>3
<1>7. CASE ~(x >= a) /\ ~(x >= b) /\ x >= c
  <2>1. S = {3}
    BY <1>4, <1>7
  <2>2. 3 \in S /\ S \in SUBSET Int /\ \A i \in S : 3 <= i
    BY <2>1
  <2>3. Min(S) = 3
    BY <2>2, MinIs
  <2> QED
    BY <1>1, <1>3, <1>4, <1>7, <2>2, <2>3
<1>8. CASE ~(x >= a) /\ ~(x >= b) /\ ~(x >= c)
  <2>1. S = {}
    BY <1>4, <1>8
  <2> QED
    BY <1>1, <1>3, <1>8, <2>1
<1> QED
  BY <1>5, <1>6, <1>7, <1>8

\* The largest and the smallest of two numbers.
LEMMA OfTwo ==
  ASSUME NEW x \in Int, NEW y \in Int
  PROVE  /\ Min({x, y}) \in Int /\ Max({x, y}) \in Int
         /\ x <= y => Min({x, y}) = x /\ Max({x, y}) = y
         /\ ~(x <= y) => Min({x, y}) = y /\ Max({x, y}) = x
<1>1. CASE x <= y
  <2>1. \A z \in {x, y} : (\A w \in {x, y} : z <= w) => z = x
    BY <1>1
  <2>2. \A z \in {x, y} : (\A w \in {x, y} : z >= w) => z = y
    BY <1>1
  <2>3. \A w \in {x, y} : x <= w /\ y >= w
    BY <1>1
  <2> QED
    BY <1>1, <2>1, <2>2, <2>3 DEF Min, Max
<1>2. CASE ~(x <= y)
  <2>1. \A z \in {x, y} : (\A w \in {x, y} : z <= w) => z = y
    BY <1>2
  <2>2. \A z \in {x, y} : (\A w \in {x, y} : z >= w) => z = x
    BY <1>2
  <2>3. \A w \in {x, y} : y <= w /\ x >= w
    BY <1>2
  <2> QED
    BY <1>2, <2>1, <2>2, <2>3 DEF Min, Max
<1> QED
  BY <1>1, <1>2

\* A score that is capped is a whole number.
LEMMA CappedIsInt ==
  ASSUME NEW x \in Int, NEW top \in Int
  PROVE  Capped(x, top) \in Int
<1>1. Min({x, top}) \in Int
  BY OfTwo
<1>2. PICK m \in Int : m = Min({x, top})
  BY <1>1
<1>3. Max({0, m}) \in Int
  BY OfTwo
<1> QED
  BY <1>2, <1>3 DEF Capped

\* The total of the five scores is a whole number.
LEMMA TotalIsInt ==
  ASSUME NEW f \in Figures
  PROVE  TotalScore(f) \in Int
<1>1. f.foreign \in Int /\ f.trust \in Int /\ f.ret \in Int
  BY FiguresAssumption
<1>2. FundFlow(f) \in Int
  <2>1. PICK x \in Int : x = 50 + 5 * f.foreign + 8 * f.trust
    BY <1>1
  <2>2. Capped(x, 100) \in Int
    BY CappedIsInt
  <2> QED
    BY <2>1, <2>2 DEF FundFlow
<1>3. RelativeStrength(f) \in Int
  <2>1. PICK x \in Int : x = 500 + 5 * (f.ret - 10)
    BY <1>1
  <2>2. Capped(x, 1000) \in Int
    BY CappedIsInt
  <2> QED
    BY <2>1, <2>2 DEF RelativeStrength
<1> QED
  BY <1>2, <1>3 DEF TotalScore

\* The judgements of two totals: the levels and the strengths keep their order.
LEMMA LevelsFollow ==
  ASSUME NEW t \in Int, NEW u \in Int, t >= u, NEW q \in BOOLEAN
  PROVE  /\ RawLevel(t, q) \in Int /\ RawLevel(u, q) \in Int /\ RawLevel(t, q) >= RawLevel(u, q)
         /\ RawLevel(t, q) <= -1 => t < 1000
<1>1. \A x : RawLevel(x, q) =
        IF q /\ x >= 2000
          THEN IF x >= 3200 THEN 5 ELSE IF x >= 2800 THEN 4 ELSE IF x >= 2400 THEN 3 ELSE 2
          ELSE IF x >= 1600 THEN 1 ELSE IF x >= 1000 THEN 0 ELSE IF x >= 600 THEN -1 ELSE -2
  BY ThreeSteps DEF RawLevel
<1> QED
  BY <1>1

\* The strength that a chart asks for: the higher total has it if the lower one has.
LEMMA StrengthsFollow ==
  ASSUME NEW t \in Int, NEW u \in Int, t >= u, NEW technical
  PROVE  /\ SignalStrength(t, technical) \in Int /\ SignalStrength(u, technical) \in Int
         /\ SignalStrength(t, technical) >= SignalStrength(u, technical)
         /\ technical = 1 => SignalStrength(u, technical) >= 1
         /\ technical # 1 /\ t < 1000 => SignalStrength(t, technical) < 1
<1>1. CASE technical = 1
  <2>1. \A x : SignalStrength(x, technical) = IF x >= 2800 THEN 3 ELSE IF x >= 2000 THEN 2 ELSE 1
    BY <1>1, TwoSteps DEF SignalStrength
  <2> QED
    BY <1>1, <2>1
<1>2. CASE technical = -1
  <2>1. \A x : SignalStrength(x, technical) = IF x >= 2000 THEN -1 ELSE IF x >= 1200 THEN -2 ELSE -3
    BY <1>2, TwoSteps DEF SignalStrength
  <2> QED
    BY <1>2, <2>1
<1>3. CASE technical # 1 /\ technical # -1
  <2>1. \A x : SignalStrength(x, technical) = IF x >= 2400 THEN 1 ELSE IF x >= 1600 THEN 0 ELSE -1
    BY <1>3, TwoSteps DEF SignalStrength
  <2> QED
    BY <1>3, <2>1
<1> QED
  BY <1>1, <1>2, <1>3

\* A conflict of the better one alone is that of a higher level.
LEMMA FlagsFollow ==
  ASSUME NEW a, NEW t \in Int, NEW u \in Int, t >= u, NEW q \in BOOLEAN,
         ConflictFlags(a, SignalStrength(t, a.technical), RawLevel(t, q)) # {},
         ConflictFlags(a, SignalStrength(u, a.technical), RawLevel(u, q)) = {}
  PROVE  RawLevel(t, q) >= RawLevel(u, q) + 1
<1>1. PICK x, y, r, s : /\ x = SignalStrength(t, a.technical) /\ y = SignalStrength(u, a.technical)
                        /\ r = RawLevel(t, q) /\ s = RawLevel(u, q)
  OBVIOUS
<1>2. /\ r \in Int /\ s \in Int /\ r >= s /\ (r <= -1 => t < 1000)
  BY <1>1, LevelsFollow
<1>3. /\ x \in Int /\ y \in Int /\ x >= y /\ (a.technical = 1 => y >= 1)
      /\ a.technical # 1 /\ t < 1000 => x < 1
  BY <1>1, StrengthsFollow
<1>4. ~(s >= 3 /\ a.technical = -1)
  <2>1. "COUNTER_TREND" \notin ConflictFlags(a, y, s)
    BY <1>1
  <2> QED
    BY <2>1 DEF ConflictFlags
<1>5. ~(y <= -1 /\ s >= 3) /\ ~(y >= 1 /\ s <= -1)
  <2>1. "SIGNAL_CLASH" \notin ConflictFlags(a, y, s)
    BY <1>1
  <2> QED
    BY <2>1 DEF ConflictFlags
<1>6. ~(a.technical * a.institutional = -1)
  <2>1. "ASPECT_CONFLICT" \notin ConflictFlags(a, y, s)
    BY <1>1
  <2> QED
    BY <2>1 DEF ConflictFlags
<1>7. \/ r >= 3 /\ a.technical = -1
      \/ x <= -1 /\ r >= 3
      \/ x >= 1 /\ r <= -1
      \/ a.technical * a.institutional = -1
  <2>1. PICK flag : flag \in ConflictFlags(a, x, r)
    BY <1>1
  <2> QED
    BY <2>1 DEF ConflictFlags
<1> SUFFICES r >= s + 1
  BY <1>1
<1>8. CASE r >= 3 /\ a.technical = -1
  BY <1>2, <1>4, <1>8
<1>9. CASE x <= -1 /\ r >= 3
  BY <1>2, <1>3, <1>5, <1>9
<1>10. CASE x >= 1 /\ r <= -1
  BY <1>2, <1>3, <1>5, <1>10
<1> QED
  BY <1>6, <1>7, <1>8, <1>9, <1>10

\* So the final levels keep the order of the scores.
LEMMA FinalsFollow ==
  ASSUME NEW f \in Figures, NEW g \in Figures, NEW climate, Aspects(f) = Aspects(g),
         TotalScore(f) >= TotalScore(g)
  PROVE  Conclude(f, climate).final >= Conclude(g, climate).final
<1>1. PICK t \in Int, u \in Int : t = TotalScore(f) /\ u = TotalScore(g)
  BY TotalIsInt
<1>2. t >= u
  BY <1>1
<1>3. PICK a, q : a = Aspects(f) /\ q = IsQualified(a)
  OBVIOUS
<1>4. q \in BOOLEAN
  BY <1>3 DEF IsQualified
<1>5. PICK r, s : r = RawLevel(t, q) /\ s = RawLevel(u, q)
  OBVIOUS
<1>6. r \in Int /\ s \in Int /\ r >= s
  BY <1>2, <1>4, <1>5, LevelsFollow
<1>7. PICK F, G : /\ F = ConflictFlags(a, SignalStrength(t, a.technical), r)
                  /\ G = ConflictFlags(a, SignalStrength(u, a.technical), s)
  OBVIOUS
<1>8. F # {} /\ G = {} => r >= s + 1
  BY <1>2, <1>4, <1>5, <1>7, FlagsFollow
<1>9. /\ Conclude(f, climate).final = FinalLevel(r, Downgrade(climate, F))
      /\ Conclude(g, climate).final = FinalLevel(s, Downgrade(climate, G))
  BY <1>1, <1>3, <1>5, <1>7 DEF Conclude
<1>10. PICK d \in Int, e \in Int : d = Downgrade(climate, F) /\ e = Downgrade(climate, G)
  BY DEF Downgrade
<1>11. e - d \in {-1, 0, 1} /\ (e - d = 1 => F # {} /\ G = {})
  BY <1>10 DEF Downgrade
<1>12. r + d >= s + e
  BY <1>6, <1>8, <1>10, <1>11
<1>13. FinalLevel(r, d) >= FinalLevel(s, e)
  <2>1. PICK m \in Int, n \in Int : m = r + d /\ n = s + e
    BY <1>6, <1>10
  <2>2. ASSUME NEW k \in Int
        PROVE  Max({-2, k}) = IF -2 <= k THEN k ELSE -2
    <3>1. PICK low \in Int : low = -2
      OBVIOUS
    <3>2. Max({low, k}) = IF low <= k THEN k ELSE low
      BY OfTwo
    <3> QED
      BY <3>1, <3>2
  <2>3. Max({-2, m}) >= Max({-2, n})
    BY <1>12, <2>1, <2>2
  <2> QED
    BY <2>1, <2>3 DEF FinalLevel
<1> QED
  BY <1>9, <1>10, <1>13

\* Rounding keeps the order, and the sign.
LEMMA Rounding ==
  ASSUME NEW d \in {4, 120}, NEW m \in Int, NEW n \in Int, m <= n
  PROVE  /\ HalfEven(m, d) \in Int /\ HalfEven(n, d) \in Int
         /\ HalfEven(m, d) <= HalfEven(n, d)
         /\ 0 <= m => 0 <= HalfEven(m, d)
<1>1. PICK p \in Int, q \in Int : p = m \div d /\ q = n \div d
  OBVIOUS
<1>2. PICK r \in 0 .. d - 1, s \in 0 .. d - 1 : r = m % d /\ s = n % d
  OBVIOUS
<1>3. m = d * p + r /\ n = d * q + s
  BY <1>1, <1>2
<1>4. p < q \/ (p = q /\ r <= s)
  <2>1. CASE d = 4
    BY <1>3, <2>1
  <2>2. CASE d = 120
    BY <1>3, <2>2
  <2> QED
    BY <2>1, <2>2
<1>5. 0 <= m => 0 <= p
  BY <1>1
<1>6. PICK a, b : a = 2 * r /\ b = 2 * s
  OBVIOUS
<1>7. /\ HalfEven(m, d) = IF a < d \/ (a = d /\ p % 2 = 0) THEN p ELSE p + 1
      /\ HalfEven(n, d) = IF b < d \/ (b = d /\ q % 2 = 0) THEN q ELSE q + 1
  BY <1>1, <1>2, <1>6 DEF HalfEven
<1>8. a \in Int /\ b \in Int /\ (r <= s => a <= b)
  BY <1>6
<1>9. CASE p < q
  BY <1>5, <1>7, <1>9
<1>10. CASE p = q /\ a <= b
  BY <1>5, <1>7, <1>8, <1>10
<1> QED
  BY <1>4, <1>8, <1>9, <1>10

\* More days are no less complete.
LEMMA CompletenessFollows ==
  ASSUME NEW g \in Histories, NEW h \in Histories, g.days <= h.days, g.flow = h.flow
  PROVE  /\ DataCompleteness(g, 120) \in Int /\ DataCompleteness(h, 120) \in Int
         /\ DataCompleteness(g, 120) <= DataCompleteness(h, 120)
<1>1. PICK x \in Nat, y \in Nat : x = g.days /\ y = h.days
  BY HistoriesAssumption
<1>2. PICK u \in Nat, v \in Nat : u = Min({x, 120}) /\ v = Min({y, 120}) /\ u <= v
  <2>1. Min({x, 120}) = IF x <= 120 THEN x ELSE 120
    BY OfTwo
  <2>2. Min({y, 120}) = IF y <= 120 THEN y ELSE 120
    BY OfTwo
  <2>3. x <= y
    BY <1>1
  <2> QED
    BY <2>1, <2>2, <2>3
<1>3. PICK s, t : s = HalfEven(100 * u, 120) /\ t = HalfEven(100 * v, 120)
  OBVIOUS
<1>4. s \in Int /\ t \in Int /\ s <= t /\ 0 <= s
  <2>1. PICK m \in Int, n \in Int : m = 100 * u /\ n = 100 * v /\ m <= n /\ 0 <= m
    BY <1>2
  <2> QED
    BY <1>3, <2>1, Rounding
<1>5. PICK known : known = (g.flow # Unavailable /\ g.flow.known)
  OBVIOUS
<1>6. /\ DataCompleteness(g, 120) = IF x = 0 THEN 0 ELSE IF known THEN Min({100, s + 10}) ELSE s
      /\ DataCompleteness(h, 120) = IF y = 0 THEN 0 ELSE IF known THEN Min({100, t + 10}) ELSE t
  BY <1>1, <1>2, <1>3, <1>5 DEF DataCompleteness
<1>7. ASSUME NEW k \in Int
      PROVE  Min({100, k}) = IF 100 <= k THEN 100 ELSE k
  BY OfTwo
<1>8. Min({100, s + 10}) = (IF 100 <= s + 10 THEN 100 ELSE s + 10)
      /\ Min({100, t + 10}) = (IF 100 <= t + 10 THEN 100 ELSE t + 10)
  BY <1>4, <1>7
<1>9. x <= y
  BY <1>1
<1>10. CASE known
  BY <1>4, <1>6, <1>8, <1>9, <1>10
<1>11. CASE ~known
  BY <1>4, <1>6, <1>9, <1>11
<1> QED
  BY <1>10, <1>11

\* What the models, the flow and the regime add are whole points.
LEMMA PointsAreInts ==
  ASSUME NEW h \in Histories
  PROVE  /\ ModelAccuracy(h.ml) \in Int
         /\ FlowStability(h.flow) \in Int
         /\ StrategyFit(h.regime) \in Int
<1>1. ModelAccuracy(h.ml) \in Int
  <2>1. CASE h.ml = Unavailable
    BY <2>1 DEF ModelAccuracy
  <2>2. CASE h.ml # Unavailable
    <3>1. PICK x \in Int : x = h.ml
      BY <2>2, HistoriesAssumption
    <3>2. Capped(x, 100) \in Int
      BY CappedIsInt
    <3> QED
      BY <2>2, <3>1, <3>2 DEF ModelAccuracy
  <2> QED
    BY <2>1, <2>2
<1>2. FlowStability(h.flow) \in Int
  <2>1. PICK flow : flow = h.flow
    OBVIOUS
  <2>2. CASE flow = Unavailable
    BY <2>1, <2>2 DEF FlowStability
  <2>3. CASE flow # Unavailable
    <3>1. PICK longest : longest = Max({flow.foreign, -flow.foreign, flow.trust, -flow.trust})
      OBVIOUS
    <3>2. PICK base : base = Steps(longest, <<<<10, 90>>, <<5, 70>>, <<3, 55>>>>, 40)
      OBVIOUS
    <3>3. base = IF longest >= 10 THEN 90 ELSE IF longest >= 5 THEN 70 ELSE IF longest >= 3 THEN 55 ELSE 40
      BY <3>2, ThreeSteps
    <3>4. base \in Int /\ base + 15 \in Int
      BY <3>3
    <3>5. Min({100, base + 15}) \in Int
      BY <3>4, OfTwo
    <3>6. PICK sides : sides = flow.foreign * flow.trust
      OBVIOUS
    <3>7. FlowStability(flow) = IF sides > 0 THEN Min({100, base + 15})
                                ELSE IF sides < 0 THEN base - 10 ELSE base
      BY <2>3, <3>1, <3>2, <3>6 DEF FlowStability
    <3> QED
      BY <2>1, <3>4, <3>5, <3>7
  <2> QED
    BY <2>2, <2>3
<1>3. StrategyFit(h.regime) \in Int
  BY DEF StrategyFit
<1> QED
  BY <1>1, <1>2, <1>3

\* So more days of the same history never make for less confidence.
LEMMA ConfidenceFollows ==
  ASSUME NEW g \in Histories, NEW h \in Histories, g.days <= h.days, g.flow = h.flow,
         g.ml = h.ml, g.regime = h.regime
  PROVE  Confidence(h) >= Confidence(g)
<1>1. PICK a \in Int, f \in Int, s \in Int :
        a = ModelAccuracy(h.ml) /\ f = FlowStability(h.flow) /\ s = StrategyFit(h.regime)
  BY PointsAreInts
<1>2. PICK c \in Int, d \in Int :
        c = DataCompleteness(g, 120) /\ d = DataCompleteness(h, 120) /\ c <= d
  BY CompletenessFollows
<1>3. PICK m \in Int, n \in Int : m = a + c + f + s /\ n = a + d + f + s /\ m <= n
  BY <1>2
<1>4. Confidence(g) = HalfEven(m, 4) /\ Confidence(h) = HalfEven(n, 4)
  BY <1>1, <1>2, <1>3 DEF Confidence
<1>5. HalfEven(m, 4) <= HalfEven(n, 4) /\ HalfEven(m, 4) \in Int /\ HalfEven(n, 4) \in Int
  BY <1>3, Rounding
<1> QED
  BY <1>4, <1>5

-----------------------------------------------------------------------------
\* Every conclusion is one of figures under a climate, and the confidence that of
\* a history.
ConcludeInv ==
  /\ \A c \in DOMAIN conclusions :
       \E f \in Figures, climate \in Climates : conclusions[c] = Conclude(f, climate)
  /\ confidence # Unavailable =>
       \E h \in Histories : confidence.history = h /\ confidence.score = Confidence(h)

\* No step of evaluate_batch, of the confidence score or of the daily check
\* leaves another kind of conclusion.
LEMMA ConcludeSteps == ConcludeInv /\ [ConcludeNext]_concludeVars => ConcludeInv'
<1> SUFFICES ASSUME ConcludeInv, [ConcludeNext]_concludeVars PROVE ConcludeInv'
  OBVIOUS
<1>1. ASSUME NEW asked \in SUBSET Evaluated, NEW climate \in Climates,
             NEW figuresOf \in [asked -> Figures \union {Unavailable}],
             EvaluateBatch(figuresOf, climate)
      PROVE  ConcludeInv'
  <2>1. PICK evaluated : evaluated = {c \in DOMAIN figuresOf : figuresOf[c] # Unavailable}
    OBVIOUS
  <2>2. /\ conclusions' = [c \in evaluated \union DOMAIN conclusions |->
                             IF c \in evaluated THEN Conclude(figuresOf[c], climate)
                                                ELSE conclusions[c]]
        /\ confidence' = confidence
    BY <1>1, <2>1 DEF EvaluateBatch
  <2>3. ASSUME NEW c \in DOMAIN conclusions'
        PROVE  \E f \in Figures, x \in Climates : conclusions'[c] = Conclude(f, x)
    <3>1. CASE c \in evaluated
      <4>1. figuresOf[c] \in Figures
        BY <2>1, <3>1
      <4>2. conclusions'[c] = Conclude(figuresOf[c], climate)
        BY <2>2, <3>1
      <4> QED
        BY <4>1, <4>2
    <3>2. CASE c \notin evaluated
      <4>1. c \in DOMAIN conclusions /\ conclusions'[c] = conclusions[c]
        BY <2>2, <3>2
      <4> QED
        BY <4>1 DEF ConcludeInv
    <3> QED
      BY <3>1, <3>2
  <2>4. confidence' # Unavailable =>
          \E h \in Histories : confidence'.history = h /\ confidence'.score = Confidence(h)
    BY <2>2 DEF ConcludeInv
  <2> QED
    BY <2>3, <2>4 DEF ConcludeInv
<1>2. ASSUME NEW h \in Histories, EvaluateConfidence(h)
      PROVE  ConcludeInv'
  <2>1. confidence'.history = h /\ confidence'.score = Confidence(h) /\ conclusions' = conclusions
    BY <1>2 DEF EvaluateConfidence
  <2>2. \A c \in DOMAIN conclusions' :
          \E f \in Figures, x \in Climates : conclusions'[c] = Conclude(f, x)
    BY <2>1 DEF ConcludeInv
  <2> QED
    BY <2>1, <2>2 DEF ConcludeInv
<1>3. CASE UNCHANGED <<conclusions, confidence>>
  <2>1. conclusions' = conclusions /\ confidence' = confidence
    BY <1>3
  <2>2. \A c \in DOMAIN conclusions' :
          \E f \in Figures, x \in Climates : conclusions'[c] = Conclude(f, x)
    BY <2>1 DEF ConcludeInv
  <2>3. confidence' # Unavailable =>
          \E h \in Histories : confidence'.history = h /\ confidence'.score = Confidence(h)
    BY <2>1 DEF ConcludeInv
  <2> QED
    BY <2>2, <2>3 DEF ConcludeInv
<1>4. ASSUME NEW records, RunDailyCheck(records)
      PROVE  ConcludeInv'
  BY <1>3, <1>4 DEF RunDailyCheck
<1>5. CASE UNCHANGED concludeVars
  BY <1>3, <1>5 DEF concludeVars
<1> QED
  BY <1>1, <1>2, <1>4, <1>5 DEF ConcludeNext

\* So the conclusions kept are in the order of their scores.
LEMMA InvBetter == ConcludeInv => BetterIsJudgedBetter
<1> SUFFICES ASSUME ConcludeInv PROVE BetterIsJudgedBetter
  OBVIOUS
<1>1. ASSUME NEW c \in DOMAIN conclusions, NEW d \in DOMAIN conclusions,
             conclusions[c].climate = conclusions[d].climate,
             Aspects(conclusions[c].figures) = Aspects(conclusions[d].figures),
             TotalScore(conclusions[c].figures) >= TotalScore(conclusions[d].figures)
      PROVE  conclusions[c].final >= conclusions[d].final
  <2>1. PICK f \in Figures, x \in Climates : conclusions[c] = Conclude(f, x)
    BY DEF ConcludeInv
  <2>2. PICK g \in Figures, y \in Climates : conclusions[d] = Conclude(g, y)
    BY DEF ConcludeInv
  <2>3. \A k, z : Conclude(k, z).figures = k /\ Conclude(k, z).climate = z
    BY DEF Conclude
  <2>4. x = y /\ Aspects(f) = Aspects(g) /\ TotalScore(f) >= TotalScore(g)
    BY <1>1, <2>1, <2>2, <2>3
  <2>5. Conclude(f, x).final >= Conclude(g, x).final
    BY <2>4, FinalsFollow
  <2> QED
    BY <2>1, <2>2, <2>4, <2>5
<1>2. ASSUME confidence # Unavailable, NEW h \in Histories,
             h.days >= confidence.history.days,
             [h EXCEPT !.days = confidence.history.days] = confidence.history
      PROVE  Confidence(h) >= confidence.score
  <2>1. PICK g \in Histories : confidence.history = g /\ confidence.score = Confidence(g)
    BY <1>2 DEF ConcludeInv
  <2>2. PICK n : n = g.days
    OBVIOUS
  <2>3. [h EXCEPT !.days = n] = g
    BY <1>2, <2>1, <2>2
  <2>4. DOMAIN h = {"days", "ml", "regime", "flow"}
    BY HistoriesAssumption
  <2>5. g.ml = h.ml /\ g.regime = h.regime /\ g.flow = h.flow
    BY <2>3, <2>4
  <2>6. g.days <= h.days
    <3>1. g.days \in Nat /\ h.days \in Nat
      BY HistoriesAssumption
    <3> QED
      BY <1>2, <2>1, <3>1
  <2>7. Confidence(h) >= Confidence(g)
    BY <2>5, <2>6, ConfidenceFollows
  <2> QED
    BY <2>1, <2>7
<1> QED
  BY <1>1, <1>2 DEF BetterIsJudgedBetter

\* Of two stocks under one climate that differ in their totals only, the better
\* one is never concluded lower, and more days of the same history never make
\* for less confidence, whatever the figures and the histories.
THEOREM BetterIsNoWorse == ConcludeSpec => []BetterIsJudgedBetter
<1>1. ConcludeInit => ConcludeInv
  BY DEF ConcludeInit, ConcludeInv
<1> QED
  BY <1>1, ConcludeSteps, InvBetter, PTL DEF ConcludeSpec
-----------------------------------------------------------------------------
(* Session: what is held was bought.                                          *)

\* Whatever a loop over codes collects is a sequence of what it has made.
LEMMA CollectsMade ==
  ASSUME NEW T, NEW codes \in Seq(T), NEW made, NEW S, \A c \in DOMAIN made : made[c] \in S
  PROVE  Collected(codes, made) \in Seq(S)
<1>1. PICK n \in Nat : n = Len(codes) /\ DOMAIN codes = 1 .. n
  OBVIOUS
<1>2. PICK M : M = DOMAIN made
  OBVIOUS
<1> DEFINE F == [p \in Seq(S) \X (1 .. n) |->
                   IF codes[p[2]] \in M THEN Append(p[1], made[codes[p[2]]]) ELSE p[1]]
<1>3. StepsIn(F, Seq(S), n) /\ <<>> \in Seq(S)
  <2>1. ASSUME NEW p \in Seq(S) \X (1 .. n)
        PROVE  (IF codes[p[2]] \in M THEN Append(p[1], made[codes[p[2]]]) ELSE p[1]) \in Seq(S)
    <3>1. PICK l \in Seq(S) : l = p[1]
      OBVIOUS
    <3>2. PICK x : x = codes[p[2]]
      OBVIOUS
    <3>3. x \in M => made[x] \in S
      BY <1>2
    <3>4. x \in M => Append(l, made[x]) \in Seq(S)
      BY <3>3
    <3> QED
      BY <3>1, <3>2, <3>4
  <2> QED
    BY <2>1 DEF StepsIn
<1>4. PICK it \in [SUBSET (1 .. n) -> Seq(S)] : Solution(it, <<>>, F, n)
  <2> HIDE DEF F
  <2> QED
    BY <1>3, Recursion
<1>5. it = [s \in SUBSET (1 .. n) |->
              IF s = {} THEN <<>>
              ELSE IF codes[Max(s)] \in DOMAIN made
                   THEN Append(it[s \ {Max(s)}], made[codes[Max(s)]]) ELSE it[s \ {Max(s)}]]
  <2>1. ASSUME NEW s \in SUBSET (1 .. n), s # {}
        PROVE  F[<<it[s \ {Max(s)}], Max(s)>>]
                 = IF codes[Max(s)] \in DOMAIN made
                   THEN Append(it[s \ {Max(s)}], made[codes[Max(s)]]) ELSE it[s \ {Max(s)}]
    <3>1. PICK l \in 1 .. n : l = Max(s)
      BY <2>1, LastPlace
    <3>2. s \ {l} \in SUBSET (1 .. n)
      OBVIOUS
    <3>3. PICK v \in Seq(S) : v = it[s \ {l}]
      BY <3>2
    <3>4. F[<<v, l>>] = IF codes[l] \in M THEN Append(v, made[codes[l]]) ELSE v
      BY <3>1, <3>3
    <3> QED
      BY <1>2, <3>1, <3>3, <3>4
  <2> HIDE DEF F
  <2> QED
    BY <1>4, <2>1 DEF Solution
<1>6. PICK c : c = CHOOSE z : z = [s \in SUBSET (1 .. n) |->
              IF s = {} THEN <<>>
              ELSE IF codes[Max(s)] \in DOMAIN made
                   THEN Append(z[s \ {Max(s)}], made[codes[Max(s)]]) ELSE z[s \ {Max(s)}]]
  OBVIOUS
<1>7. c = [s \in SUBSET (1 .. n) |->
              IF s = {} THEN <<>>
              ELSE IF codes[Max(s)] \in DOMAIN made
                   THEN Append(c[s \ {Max(s)}], made[codes[Max(s)]]) ELSE c[s \ {Max(s)}]]
  <2> HIDE DEF F
  <2> QED
    BY <1>5, <1>6
<1>8. Collected(codes, made) = c[1 .. n]
  BY <1>1, <1>6 DEF Collected, FoldLeft, MapThenFoldSet
<1>9. \A s \in SUBSET (1 .. n) :
        s # {} /\ c[s \ {Max(s)}] \in Seq(S) => c[s] = F[<<c[s \ {Max(s)}], Max(s)>>]
  <2> SUFFICES ASSUME NEW s \in SUBSET (1 .. n), s # {}, c[s \ {Max(s)}] \in Seq(S)
               PROVE  c[s] = F[<<c[s \ {Max(s)}], Max(s)>>]
    OBVIOUS
  <2>1. PICK l \in 1 .. n : l = Max(s)
    BY LastPlace
  <2>2. PICK v \in Seq(S) : v = c[s \ {l}]
    BY <2>1
  <2>3. F[<<v, l>>] = IF codes[l] \in M THEN Append(v, made[codes[l]]) ELSE v
    BY <2>1, <2>2
  <2>4. c[s] = IF codes[l] \in M THEN Append(v, made[codes[l]]) ELSE v
    BY <1>2, <1>7, <2>1, <2>2
  <2> HIDE DEF F
  <2> QED
    BY <2>1, <2>2, <2>3, <2>4
<1>10. c[{}] = <<>>
  BY <1>7
<1> HIDE DEF F
<1>11. PICK r \in [0 .. n -> Seq(S)] : Values(r, c, <<>>, F, n)
  <2>1. SolutionIn(c, <<>>, F, Seq(S), n)
    BY <1>9, <1>10 DEF SolutionIn
  <2> QED
    BY <1>3, <2>1, FoldSteps
<1>12. n \in 0 .. n
  OBVIOUS
<1>13. r[n] \in Seq(S)
  BY <1>11, <1>12
<1> QED
  BY <1>8, <1>11, <1>13 DEF Values

\* Where a value occurs in a sequence.
Occurs(s, x) == {i \in DOMAIN s : s[i] = x}
Times(s, x) == Cardinality(Occurs(s, x))

\* A value occurs finitely often.
LEMMA TimesIsNat ==
  ASSUME NEW S, NEW s \in Seq(S), NEW x
  PROVE  Times(s, x) \in Nat /\ IsFiniteSet(Occurs(s, x))
<1>1. IsFiniteSet(1 .. Len(s))
  BY FS_Interval
<1>2. Occurs(s, x) \subseteq 1 .. Len(s)
  BY DEF Occurs
<1> QED
  BY <1>1, <1>2, FS_Subset, FS_CardinalityType DEF Times

\* In a sequence put together of two it occurs as often as in both.
LEMMA TimesAdd ==
  ASSUME NEW S, NEW s \in Seq(S), NEW t \in Seq(S), NEW x
  PROVE  Times(s \o t, x) = Times(s, x) + Times(t, x)
<1>1. PICK n \in Nat, m \in Nat : n = Len(s) /\ m = Len(t) /\ DOMAIN s = 1 .. n /\ DOMAIN t = 1 .. m
  OBVIOUS
<1>2. /\ DOMAIN (s \o t) = 1 .. n + m
      /\ \A i \in 1 .. n : (s \o t)[i] = s[i]
      /\ \A i \in 1 .. m : (s \o t)[n + i] = t[i]
  BY <1>1
<1> DEFINE A == Occurs(s, x)
           B == Occurs(t, x)
           C == {i \in n + 1 .. n + m : t[i - n] = x}
           f == [i \in B |-> n + i]
<1>3. f \in Bijection(B, C)
  <2>1. \A i \in B : i \in 1 .. m /\ t[i] = x
    BY <1>1 DEF Occurs
  <2>2. \A i \in 1 .. m : n + i \in n + 1 .. n + m /\ (n + i) - n = i
    OBVIOUS
  <2>3. f \in [B -> C]
    BY <2>1, <2>2
  <2>4. \A i, j \in B : f[i] = f[j] => i = j
    BY <2>1
  <2>5. \A k \in C : \E i \in B : f[i] = k
    <3> SUFFICES ASSUME NEW k \in C PROVE \E i \in B : f[i] = k
      OBVIOUS
    <3>1. PICK i \in 1 .. m : k = n + i /\ k - n = i
      <4>1. k - n \in 1 .. m /\ k = n + (k - n)
        OBVIOUS
      <4> QED
        BY <4>1
    <3>2. i \in B
      BY <1>1, <3>1 DEF Occurs
    <3> QED
      BY <3>1, <3>2
  <2> QED
    BY <2>3, <2>4, <2>5 DEF Bijection, Injection, Surjection, IsInjective
<1>4. Occurs(s \o t, x) = A \cup C /\ A \cap C = {}
  <2>1. \A i \in n + 1 .. n + m : i - n \in 1 .. m /\ n + (i - n) = i
    OBVIOUS
  <2>2. \A i \in n + 1 .. n + m : (s \o t)[i] = t[i - n]
    BY <1>2, <2>1
  <2>3. 1 .. n + m = (1 .. n) \cup (n + 1 .. n + m) /\ (1 .. n) \cap (n + 1 .. n + m) = {}
    OBVIOUS
  <2> QED
    BY <1>1, <1>2, <2>2, <2>3 DEF Occurs
<1>5. IsFiniteSet(A) /\ IsFiniteSet(B) /\ Cardinality(A) = Times(s, x) /\ Cardinality(B) = Times(t, x)
      /\ Times(s, x) \in Nat /\ Times(t, x) \in Nat
  BY TimesIsNat DEF Times
<1> HIDE DEF A, B, C, f
<1>6. IsFiniteSet(C) /\ Cardinality(C) = Cardinality(B)
  BY <1>3, <1>5, FS_Bijection DEF ExistsBijection
<1>7. Cardinality(A \cup C) = Cardinality(A) + Cardinality(C)
  <2>1. Cardinality(A \cup C) = Cardinality(A) + Cardinality(C) - Cardinality(A \cap C)
    BY <1>5, <1>6, FS_Union
  <2>2. Cardinality(A \cap C) = 0
    BY <1>4, FS_EmptySet
  <2> QED
    BY <1>5, <1>6, <2>1, <2>2
<1> QED
  BY <1>4, <1>5, <1>6, <1>7 DEF Times

\* Without one of its elements a sequence has a value no more often.
LEMMA TimesRemoved ==
  ASSUME NEW S, NEW s \in Seq(S), NEW i \in DOMAIN s, NEW x
  PROVE  RemoveAt(s, i) \in Seq(S) /\ Times(RemoveAt(s, i), x) <= Times(s, x)
<1>1. PICK n \in Nat : n = Len(s) /\ i \in 1 .. n /\ \A j \in 1 .. n : s[j] \in S
  OBVIOUS
<1>2. PICK k \in Int, l \in Int : k = i - 1 /\ l = i + 1
  BY <1>1
<1>3. PICK a, b, c : a = SubSeq(s, 1, k) /\ b = SubSeq(s, l, n) /\ c = <<s[i]>>
  OBVIOUS
<1>4. a \in Seq(S) /\ b \in Seq(S) /\ c \in Seq(S)
  <2>1. \A j \in 1 .. k : s[j] \in S
    BY <1>1, <1>2
  <2>2. \A j \in l .. n : s[j] \in S
    BY <1>1, <1>2
  <2>3. SubSeq(s, 1, k) \in Seq(S)
    BY <1>2, <2>1, SubSeqProperties
  <2>4. SubSeq(s, l, n) \in Seq(S)
    BY <1>2, <2>2, SubSeqProperties
  <2>5. <<s[i]>> \in Seq(S)
    BY <1>1
  <2> QED
    BY <1>3, <2>3, <2>4, <2>5
<1>5. s = a \o (c \o b)
  <2>1. i \in 1 .. Len(s) /\ n \in i .. Len(s) /\ k \in 0 .. Len(s) /\ n \in k .. Len(s)
    BY <1>1, <1>2
  <2>2. SubSeq(s, 1, k) \o SubSeq(s, i, n) = SubSeq(s, 1, n)
    <3>1. 1 \in 1 .. Len(s) + 1 /\ k \in 1 - 1 .. Len(s) /\ k + 1 = i
      BY <1>1, <1>2, <2>1
    <3>2. SubSeq(s, 1, k) \o SubSeq(s, k + 1, n) = SubSeq(s, 1, n)
      BY <2>1, <3>1, ConcatAdjacentSubSeq
    <3> QED
      BY <3>1, <3>2
  <2>3. SubSeq(s, 1, n) = s
    BY <1>1, SubSeqFull
  <2>4. SubSeq(s, i, n) = <<s[i]>> \o SubSeq(s, i + 1, n)
    BY <2>1, SubSeqRecursiveFirst
  <2> QED
    BY <1>2, <1>3, <2>2, <2>3, <2>4
<1>6. RemoveAt(s, i) = a \o b
  BY <1>1, <1>2, <1>3 DEF RemoveAt
<1>7. c \o b \in Seq(S) /\ a \o b \in Seq(S)
  BY <1>4, ConcatProperties
<1>8. Times(s, x) = Times(a, x) + Times(c \o b, x)
  BY <1>4, <1>5, <1>7, TimesAdd
<1>9. Times(c \o b, x) = Times(c, x) + Times(b, x)
  BY <1>4, TimesAdd
<1>10. Times(a \o b, x) = Times(a, x) + Times(b, x)
  BY <1>4, TimesAdd
<1>11. Times(a, x) \in Nat /\ Times(b, x) \in Nat /\ Times(c, x) \in Nat
  BY <1>4, TimesIsNat
<1> QED
  BY <1>6, <1>7, <1>8, <1>9, <1>10, <1>11

\* The books of the paper trading page, and that no position is in them that has
\* no order.
Holdings == [code : Tickers, price : Nat, lots : Nat]
Orders   == [side : {"buy", "sell"}, code : Tickers, price : Nat, lots : Nat, profit : Int]

BooksOK(books) ==
  /\ DOMAIN books = {"started", "capital", "orders", "positions", "curve"}
  /\ books.orders \in Seq(Orders) /\ books.positions \in Seq(Holdings)
  /\ \A p \in Holdings : Times(books.positions, p) <= Times(books.orders, BuyOrder(p))

\* An order of each holding.
LEMMA OrdersOf ==
  ASSUME NEW p \in Holdings
  PROVE  BuyOrder(p) \in Orders
BY DEF Holdings, Orders, BuyOrder

\* Nothing ordered and nothing held.
LEMMA NewBooks == BooksOK(NewPaper)
<1>1. /\ DOMAIN NewPaper = {"started", "capital", "orders", "positions", "curve"}
      /\ NewPaper.orders = <<>> /\ NewPaper.positions = <<>>
  BY DEF NewPaper
<1>2. <<>> \in Seq(Orders) /\ <<>> \in Seq(Holdings)
  OBVIOUS
<1>3. ASSUME NEW p PROVE Times(<<>>, p) = 0
  <2>1. Occurs(<<>>, p) = {}
    BY DEF Occurs
  <2> QED
    BY <2>1, FS_EmptySet DEF Times
<1> QED
  BY <1>1, <1>2, <1>3 DEF BooksOK

\* Only orders and positions count.
LEMMA OtherBooks ==
  ASSUME NEW books, BooksOK(books), NEW other, DOMAIN other = DOMAIN books,
         other.orders = books.orders, other.positions = books.positions
  PROVE  BooksOK(other)
BY DEF BooksOK

\* Wherever a purchase is cut off, it has recorded its orders first.
LEMMA Booking ==
  ASSUME BooksOK(paper), NEW bought \in Seq(Holdings), NEW cut \in 0 .. 2 * Len(bought)
  PROVE  BooksOK(Booked(bought, cut))
<1>1. PICK k \in Nat, m \in Nat :
        /\ k = cut \div 2 /\ m = (cut + 1) \div 2 /\ k <= m /\ m <= Len(bought)
  <2>1. PICK n \in Nat : n = Len(bought)
    OBVIOUS
  <2>2. cut \in Nat /\ cut <= 2 * n
    BY <2>1
  <2>3. /\ cut \div 2 \in Nat /\ (cut + 1) \div 2 \in Nat
        /\ cut \div 2 <= (cut + 1) \div 2 /\ (cut + 1) \div 2 <= n
    BY <2>1, <2>2
  <2> QED
    BY <2>1, <2>3
<1>2. PICK os : os = [i \in 1 .. m |-> BuyOrder(bought[i])]
  OBVIOUS
<1>3. PICK ps : ps = SubSeq(bought, 1, k)
  OBVIOUS
<1>4. \A i \in 1 .. m : bought[i] \in Holdings
  BY <1>1
<1>5. os \in Seq(Orders) /\ Len(os) = m /\ \A i \in 1 .. m : os[i] = BuyOrder(bought[i])
  <2>1. \A i \in 1 .. m : BuyOrder(bought[i]) \in Orders
    BY <1>4, OrdersOf
  <2> QED
    BY <1>2, <2>1
<1>6. ps \in Seq(Holdings) /\ Len(ps) = k /\ \A i \in 1 .. k : ps[i] = bought[i]
  <2>1. \A i \in 1 .. k : bought[i] \in Holdings
    BY <1>1, <1>4
  <2>2. /\ SubSeq(bought, 1, k) \in Seq(Holdings)
        /\ Len(SubSeq(bought, 1, k)) = IF 1 <= k THEN k - 1 + 1 ELSE 0
        /\ \A i \in 1 .. k - 1 + 1 : SubSeq(bought, 1, k)[i] = bought[1 + i - 1]
    BY <2>1, SubSeqProperties
  <2> QED
    BY <1>3, <2>2
<1>7. /\ DOMAIN Booked(bought, cut) = DOMAIN paper
      /\ Booked(bought, cut).orders = paper.orders \o os
      /\ Booked(bought, cut).positions = paper.positions \o ps
  BY <1>1, <1>2, <1>3 DEF BooksOK, Booked
<1>8. ASSUME NEW p \in Holdings PROVE Times(ps, p) <= Times(os, BuyOrder(p))
  <2>1. Occurs(ps, p) \subseteq Occurs(os, BuyOrder(p))
    <3>1. DOMAIN ps = 1 .. k /\ DOMAIN os = 1 .. m /\ 1 .. k \subseteq 1 .. m
      BY <1>1, <1>5, <1>6
    <3> QED
      BY <1>5, <1>6, <3>1 DEF Occurs
  <2>2. IsFiniteSet(Occurs(os, BuyOrder(p)))
    BY <1>5, TimesIsNat
  <2> QED
    BY <2>1, <2>2, FS_Subset DEF Times
<1>9. paper.orders \in Seq(Orders) /\ paper.positions \in Seq(Holdings)
  BY DEF BooksOK
<1>10. ASSUME NEW p \in Holdings
       PROVE  Times(paper.positions \o ps, p) <= Times(paper.orders \o os, BuyOrder(p))
  <2>1. PICK b : b = BuyOrder(p)
    OBVIOUS
  <2>2. Times(paper.positions, p) <= Times(paper.orders, b) /\ Times(ps, p) <= Times(os, b)
    BY <1>8, <2>1 DEF BooksOK
  <2>3. Times(paper.positions \o ps, p) = Times(paper.positions, p) + Times(ps, p)
    BY <1>6, <1>9, TimesAdd
  <2>4. Times(paper.orders \o os, b) = Times(paper.orders, b) + Times(os, b)
    BY <1>5, <1>9, TimesAdd
  <2>5. /\ Times(paper.positions, p) \in Nat /\ Times(ps, p) \in Nat
        /\ Times(paper.orders, b) \in Nat /\ Times(os, b) \in Nat
    BY <1>5, <1>6, <1>9, TimesIsNat
  <2> QED
    BY <2>1, <2>2, <2>3, <2>4, <2>5
<1>11. paper.orders \o os \in Seq(Orders) /\ paper.positions \o ps \in Seq(Holdings)
  BY <1>5, <1>6, <1>9
<1> QED
  BY <1>7, <1>10, <1>11 DEF BooksOK

\* A single entry is a list.
LEMMA OneEntry ==
  ASSUME NEW S, NEW e \in S
  PROVE  <<e>> \in Seq(S)
OBVIOUS

\* Wherever a sale is cut off, it takes no purchase away.
LEMMA Selling ==
  ASSUME BooksOK(paper), NEW i \in DOMAIN paper.positions, NEW price \in Nat, NEW cut \in Nat,
         Sell(i, price, cut)
  PROVE  BooksOK(paper')
<1>1. PICK p \in Holdings : p = paper.positions[i]
  BY DEF BooksOK
<1>2. PICK profit \in Int : profit = (price - p.price) * p.lots * Lot - 3 * price * p.lots
  <2>1. PICK a \in Nat, l \in Nat : a = p.price /\ l = p.lots
    BY DEF Holdings
  <2>2. (price - a) * l * 1000 - 3 * price * l \in Int
    OBVIOUS
  <2> QED
    BY <2>1, <2>2 DEF Lot
<1>3. PICK o \in Orders : o = SellOrder(p, price, profit)
  BY DEF Holdings, Orders, SellOrder
<1>4. paper.orders \in Seq(Orders) /\ paper.positions \in Seq(Holdings)
  BY DEF BooksOK
<1>5. PICK os : os = IF cut >= 1 THEN Append(paper.orders, o) ELSE paper.orders
  OBVIOUS
<1>6. PICK ps : ps = IF cut >= 3 THEN RemoveAt(paper.positions, i) ELSE paper.positions
  OBVIOUS
<1>7. DOMAIN paper' = DOMAIN paper /\ paper'.orders = os /\ paper'.positions = ps
  <2>1. PICK curve :
          paper' = [paper EXCEPT !.orders = os, !.curve = curve, !.positions = ps]
    <3>1. paper' = [paper EXCEPT
               !.orders    = IF cut >= 1 THEN Append(@, SellOrder(p, price, profit)) ELSE @,
               !.curve     = IF cut >= 2 THEN Append(@, Last(@) + profit) ELSE @,
               !.positions = IF cut >= 3 THEN RemoveAt(@, i) ELSE @]
      BY <1>1, <1>2 DEF Sell
    <3> QED
      BY <1>3, <1>5, <1>6, <3>1
  <2> QED
    BY <2>1 DEF BooksOK
<1>8. os \in Seq(Orders) /\ ps \in Seq(Holdings)
  <2>1. RemoveAt(paper.positions, i) \in Seq(Holdings)
    BY <1>4, TimesRemoved
  <2> QED
    BY <1>4, <1>5, <1>6, <2>1
<1>9. ASSUME NEW q \in Holdings PROVE Times(ps, q) <= Times(os, BuyOrder(q))
  <2>1. PICK b : b = BuyOrder(q)
    OBVIOUS
  <2>2. Times(paper.positions, q) <= Times(paper.orders, b)
    BY <2>1 DEF BooksOK
  <2>3. Times(ps, q) <= Times(paper.positions, q)
    <3>1. Times(RemoveAt(paper.positions, i), q) <= Times(paper.positions, q)
      BY <1>4, TimesRemoved
    <3>2. Times(paper.positions, q) \in Nat
      BY <1>4, TimesIsNat
    <3> QED
      BY <1>6, <3>1, <3>2
  <2>4. Times(paper.orders, b) <= Times(os, b)
    <3>1. PICK t \in Seq(Orders) : t = <<o>>
      BY OneEntry
    <3>2. Append(paper.orders, o) = paper.orders \o t
      BY <1>4, <3>1, AppendIsConcat
    <3>3. Times(paper.orders \o t, b) = Times(paper.orders, b) + Times(t, b)
      BY <1>4, TimesAdd
    <3>4. Times(paper.orders, b) \in Nat /\ Times(t, b) \in Nat
      BY <1>4, TimesIsNat
    <3> QED
      BY <1>5, <3>2, <3>3, <3>4
  <2>5. /\ Times(paper.positions, q) \in Nat /\ Times(ps, q) \in Nat
        /\ Times(paper.orders, b) \in Nat /\ Times(os, b) \in Nat
    BY <1>4, <1>8, TimesIsNat
  <2> QED
    BY <2>1, <2>2, <2>3, <2>4, <2>5
<1> QED
  BY <1>7, <1>8, <1>9 DEF BooksOK

\* A batch buys whole lots of what it was quoted for.
LEMMA Buying ==
  ASSUME NEW codes \in Seq(Tickers), NEW asked \in SUBSET Tickers, NEW quotes \in [asked -> Nat]
  PROVE  Bought(codes, quotes) \in Seq(Holdings)
<1> DEFINE lots(c) == IF quotes[c] = 0 THEN 0 ELSE Amount \div (quotes[c] * Lot)
           taken == {c \in DOMAIN quotes : lots(c) >= 1}
           made == [c \in taken |-> [code |-> c, price |-> quotes[c], lots |-> lots(c)]]
<1>1. \A c \in asked : c \in Tickers /\ quotes[c] \in Nat /\ lots(c) \in Nat
  <2> SUFFICES ASSUME NEW c \in asked PROVE lots(c) \in Nat
    OBVIOUS
  <2>1. CASE quotes[c] = 0
    BY <2>1
  <2>2. CASE quotes[c] # 0
    <3>1. PICK q \in Nat \ {0} : q = quotes[c]
      BY <2>2
    <3>2. PICK a \in Nat : a = Amount
      BY MoneyAssumption
    <3>3. PICK d \in Nat \ {0} : d = q * 1000
      <4>1. q * 1000 \in Nat \ {0}
        BY <3>1
      <4> QED
        BY <4>1
    <3>4. a \div d \in Nat
      BY <3>2, <3>3, Dividing
    <3> QED
      BY <3>1, <3>2, <3>3, <3>4 DEF Lot
  <2> QED
    BY <2>1, <2>2
<1>2. DOMAIN made = taken /\ taken \subseteq asked
  OBVIOUS
<1>3. ASSUME NEW c \in DOMAIN made PROVE made[c] \in Holdings
  <2>1. c \in asked /\ made[c] = [code |-> c, price |-> quotes[c], lots |-> lots(c)]
    OBVIOUS
  <2>2. c \in Tickers /\ quotes[c] \in Nat /\ lots(c) \in Nat
    BY <1>1, <2>1
  <2> HIDE DEF lots, made
  <2> QED
    BY <2>1, <2>2 DEF Holdings
<1>4. Bought(codes, quotes) = Collected(codes, made)
  BY DEF Bought
<1> HIDE DEF made
<1> QED
  BY <1>3, <1>4, CollectsMade

BooksInv == BooksOK(paper)

\* No click takes an order away, or books a position without one.
LEMMA KeepsBooks == BooksInv /\ [SessionNext]_sessionVars => BooksInv'
<1> SUFFICES ASSUME BooksOK(paper), [SessionNext]_sessionVars
             PROVE  BooksOK(paper')
  BY DEF BooksInv
<1>1. ASSUME UNCHANGED paper PROVE BooksOK(paper')
  BY <1>1
<1>2. CASE UNCHANGED sessionVars
  BY <1>1, <1>2 DEF sessionVars
<1>3. CASE ListClicks
  <2>1. CASE NewSession
    BY <2>1, NewBooks DEF NewSession
  <2>2. CASE ~NewSession
    <3>1. UNCHANGED paper
      BY <1>3, <2>2 DEF ListClicks, GoRadar, LoadWatchlist, ClearWatchlist, ScanPicks, Visit,
                        SwitchMarket, AddPicks, ScanTyped, AddChips, RunBacktest
    <3> QED
      BY <1>1, <3>1
  <2> QED
    BY <2>1, <2>2
<1>4. CASE GoPaper
  BY <1>1, <1>4 DEF GoPaper, Visit
<1>5. CASE StopPaper
  <2>1. paper' = [paper EXCEPT !.started = FALSE]
    BY <1>5 DEF StopPaper
  <2>2. DOMAIN paper' = DOMAIN paper /\ paper'.orders = paper.orders
        /\ paper'.positions = paper.positions
    BY <2>1 DEF BooksOK
  <2> QED
    BY <2>2, OtherBooks
<1>6. ASSUME NEW capital \in Int, NEW cut \in Nat, StartPaper(capital, cut)
      PROVE  BooksOK(paper')
  <2>1. DOMAIN paper' = DOMAIN paper /\ paper'.orders = paper.orders
        /\ paper'.positions = paper.positions
    BY <1>6 DEF StartPaper, BooksOK
  <2> QED
    BY <2>1, OtherBooks
<1>7. ASSUME NEW codes \in Seq(Tickers), NEW asked \in SUBSET Tickers, NEW cut \in Nat,
             NEW quotes \in [asked -> Nat], QuickBuild(codes, quotes, cut)
      PROVE  BooksOK(paper')
  <2>1. PICK bought \in Seq(Holdings) : bought = Bought(codes, quotes)
    BY Buying
  <2>2. cut \in 0 .. 2 * Len(bought) /\ paper' = Booked(bought, cut)
    BY <1>7, <2>1 DEF QuickBuild, BatchBuy
  <2> QED
    BY <2>2, Booking
<1>8. ASSUME NEW code \in Tickers, NEW price \in Nat, NEW lots \in Nat, NEW cut \in Nat,
             ManualBuy(code, price, lots, cut)
      PROVE  BooksOK(paper')
  <2>1. PICK p \in Holdings : p = [code |-> code, price |-> price, lots |-> lots]
    BY DEF Holdings
  <2>2. PICK bought \in Seq(Holdings) : bought = <<p>>
    BY OneEntry
  <2>3. cut \in 0 .. 2 * Len(bought) /\ paper' = Booked(bought, cut)
    BY <1>8, <2>1, <2>2 DEF ManualBuy
  <2> QED
    BY <2>3, Booking
<1>9. ASSUME NEW i \in DOMAIN paper.positions, NEW price \in Nat, NEW cut \in Nat,
              Sell(i, price, cut)
       PROVE  BooksOK(paper')
  BY <1>9, Selling
<1> QED
  BY <1>2, <1>3, <1>4, <1>5, <1>6, <1>7, <1>8, <1>9 DEF SessionNext, PaperClicks

\* However the runs of the page are cut off and sessions end, no more positions
\* of a stock at a price are held than buy orders for them were recorded.
THEOREM PositionsWereOrdered == SessionSpec => []PositionsHaveOrders
<1>1. SessionInit => BooksInv
  BY NewBooks DEF SessionInit, BooksInv
<1>2. BooksInv => PositionsHaveOrders
  <2> SUFFICES ASSUME BooksOK(paper), NEW p \in Elements(paper.positions)
               PROVE  Times(paper.positions, p) <= Times(paper.orders, BuyOrder(p))
    BY DEF BooksInv, PositionsHaveOrders, Times, Occurs
  <2>1. p \in Holdings
    BY DEF BooksOK, Elements
  <2> QED
    BY <2>1 DEF BooksOK
<1> QED
  BY <1>1, <1>2, KeepsBooks, PTL DEF SessionSpec

-----------------------------------------------------------------------------
(* PageRules: the two books of the quick backtest.                            *)

\* The totals after each gain.
Adds(r, base, gains) ==
  /\ r[0] = base /\ r[Len(gains)] = TotalOf(base, gains)
  /\ \A k \in 0 .. Len(gains) - 1 : r[k + 1] = r[k] + gains[k + 1]

\* A total goes up by one gain after the other.
LEMMA TotalSteps ==
  ASSUME NEW base \in Int, NEW gains \in Seq(Int)
  PROVE  \E r \in [0 .. Len(gains) -> Int] : Adds(r, base, gains)
<1>1. PICK n \in Nat : n = Len(gains) /\ DOMAIN gains = 1 .. n
  OBVIOUS
<1> DEFINE F == [p \in Int \X (1 .. n) |-> p[1] + gains[p[2]]]
<1>2. StepsIn(F, Int, n)
  BY <1>1 DEF StepsIn
<1>3. PICK it \in [SUBSET (1 .. n) -> Int] : Solution(it, base, F, n)
  BY <1>2, Recursion
<1>4. it = [s \in SUBSET (1 .. n) |-> IF s = {} THEN base ELSE it[s \ {Max(s)}] + gains[Max(s)]]
  <2>1. ASSUME NEW s \in SUBSET (1 .. n), s # {}
        PROVE  F[<<it[s \ {Max(s)}], Max(s)>>] = it[s \ {Max(s)}] + gains[Max(s)]
    <3>1. PICK l \in 1 .. n : l = Max(s)
      BY <2>1, LastPlace
    <3>2. s \ {l} \in SUBSET (1 .. n)
      OBVIOUS
    <3> QED
      BY <3>1, <3>2
  <2> QED
    BY <1>3, <2>1 DEF Solution
<1>5. PICK c : c = CHOOSE z : z = [s \in SUBSET (1 .. n) |->
                                     IF s = {} THEN base ELSE z[s \ {Max(s)}] + gains[Max(s)]]
  OBVIOUS
<1>6. c = [s \in SUBSET (1 .. n) |-> IF s = {} THEN base ELSE c[s \ {Max(s)}] + gains[Max(s)]]
  BY <1>4, <1>5
<1>7. TotalOf(base, gains) = c[1 .. n]
  BY <1>1, <1>5 DEF TotalOf, FoldLeft, MapThenFoldSet
<1>8. \A s \in SUBSET (1 .. n) :
        s # {} /\ c[s \ {Max(s)}] \in Int => c[s] = F[<<c[s \ {Max(s)}], Max(s)>>]
  <2> SUFFICES ASSUME NEW s \in SUBSET (1 .. n), s # {}, c[s \ {Max(s)}] \in Int
               PROVE  c[s] = F[<<c[s \ {Max(s)}], Max(s)>>]
    OBVIOUS
  <2>1. PICK l \in 1 .. n : l = Max(s)
    BY LastPlace
  <2> QED
    BY <1>6, <2>1
<1>9. c[{}] = base
  BY <1>6
<1>10. \A v \in Int, i \in 1 .. n : F[<<v, i>>] = v + gains[i]
  OBVIOUS
<1> HIDE DEF F
<1>11. PICK r \in [0 .. n -> Int] : Values(r, c, base, F, n)
  <2>1. SolutionIn(c, base, F, Int, n)
    BY <1>8, <1>9 DEF SolutionIn
  <2> QED
    BY <1>2, <2>1, FoldSteps
<1>12. ASSUME NEW k \in 0 .. n - 1 PROVE r[k + 1] = r[k] + gains[k + 1]
  <2>1. r[k] \in Int /\ k + 1 \in 1 .. n
    BY <1>11
  <2>2. r[k + 1] = F[<<r[k], k + 1>>]
    BY <1>11 DEF Values
  <2> QED
    BY <1>10, <2>1, <2>2
<1> QED
  BY <1>1, <1>7, <1>11, <1>12 DEF Values, Adds

\* Numbers that begin alike and go up alike are alike.
LEMMA GoAlike ==
  ASSUME NEW n \in Nat, NEW d \in Int, NEW r \in [0 .. n -> Int], NEW q \in [0 .. n -> Int],
         NEW g \in [1 .. n -> Int],
         q[0] = r[0] + d,
         \A k \in 0 .. n - 1 : r[k + 1] = r[k] + g[k + 1] /\ q[k + 1] = q[k] + g[k + 1]
  PROVE  q[n] = r[n] + d
<1> DEFINE P == {k \in Nat : k <= n => q[k] = r[k] + d}
<1>1. 0 \in P
  OBVIOUS
<1>2. ASSUME NEW k \in Nat, k \in P PROVE k + 1 \in P
  <2> SUFFICES ASSUME k + 1 <= n PROVE q[k + 1] = r[k + 1] + d
    OBVIOUS
  <2>1. k \in 0 .. n - 1 /\ k + 1 \in 1 .. n /\ k \in 0 .. n
    OBVIOUS
  <2>2. q[k] = r[k] + d
    BY <1>2
  <2>3. r[k] \in Int /\ q[k] \in Int /\ g[k + 1] \in Int
    BY <2>1
  <2> QED
    BY <2>1, <2>2, <2>3
<1>3. Nat \subseteq P
  <2> HIDE DEF P
  <2> QED
    BY <1>1, <1>2, Induction
<1> QED
  BY <1>3

\* A total with another start differs by the difference of the starts, and a
\* further gain is added.
LEMMA TotalIs ==
  ASSUME NEW base \in Int, NEW gains \in Seq(Int), NEW gain \in Int
  PROVE  /\ TotalOf(base, gains) \in Int
         /\ TotalOf(base, gains) = TotalOf(0, gains) + base
         /\ TotalOf(0, Append(gains, gain)) = TotalOf(0, gains) + gain
         /\ TotalOf(0, <<>>) = 0
<1>1. PICK n \in Nat : n = Len(gains) /\ gains \in [1 .. n -> Int]
  BY LenProperties
<1>2. PICK r \in [0 .. n -> Int] : Adds(r, 0, gains)
  BY <1>1, TotalSteps
<1>3. PICK q \in [0 .. n -> Int] : Adds(q, base, gains)
  BY <1>1, TotalSteps
<1>4. /\ r[0] = 0 /\ r[n] = TotalOf(0, gains) /\ q[0] = base /\ q[n] = TotalOf(base, gains)
      /\ \A k \in 0 .. n - 1 : r[k + 1] = r[k] + gains[k + 1] /\ q[k + 1] = q[k] + gains[k + 1]
  BY <1>1, <1>2, <1>3 DEF Adds
<1>5. q[n] = r[n] + base
  <2>1. q[0] = r[0] + base
    BY <1>4
  <2> QED
    BY <1>1, <1>4, <2>1, GoAlike
<1>6. TotalOf(0, Append(gains, gain)) = TotalOf(0, gains) + gain
  <2>1. PICK more \in Seq(Int) : /\ more = Append(gains, gain) /\ Len(more) = n + 1
                                 /\ \A i \in 1 .. n : more[i] = gains[i]
                                 /\ more[n + 1] = gain
    BY <1>1, AppendProperties
  <2>2. PICK t \in [0 .. n + 1 -> Int] : Adds(t, 0, more)
    <3>1. \E t \in [0 .. Len(more) -> Int] : Adds(t, 0, more)
      BY TotalSteps
    <3> QED
      BY <2>1, <3>1
  <2>3. /\ t[0] = 0 /\ t[n + 1] = TotalOf(0, more)
        /\ \A k \in 0 .. n : t[k + 1] = t[k] + more[k + 1]
    <3>1. t[0] = 0 /\ t[Len(more)] = TotalOf(0, more)
      BY <2>2 DEF Adds
    <3>2. \A k \in 0 .. Len(more) - 1 : t[k + 1] = t[k] + more[k + 1]
      BY <2>2 DEF Adds
    <3>3. Len(more) = n + 1 /\ 0 .. Len(more) - 1 = 0 .. n
      BY <2>1
    <3> QED
      BY <3>1, <3>2, <3>3
  <2> DEFINE u == [k \in 0 .. n |-> t[k]]
  <2>4. u \in [0 .. n -> Int] /\ u[0] = r[0] + 0
    BY <1>4, <2>2, <2>3
  <2>5. ASSUME NEW k \in 0 .. n - 1 PROVE u[k + 1] = u[k] + gains[k + 1]
    <3>1. k \in 0 .. n /\ k + 1 \in 0 .. n /\ k + 1 \in 1 .. n
      OBVIOUS
    <3>2. t[k + 1] = t[k] + more[k + 1] /\ more[k + 1] = gains[k + 1]
      BY <2>1, <2>3, <3>1
    <3> QED
      BY <3>1, <3>2
  <2>6. u[n] = t[n]
    OBVIOUS
  <2> HIDE DEF u
  <2>7. u[n] = r[n] + 0
    <3>1. \A k \in 0 .. n - 1 : r[k + 1] = r[k] + gains[k + 1] /\ u[k + 1] = u[k] + gains[k + 1]
      BY <1>4, <2>5
    <3>2. PICK z \in Int : z = 0
      OBVIOUS
    <3>3. u[0] = r[0] + z
      BY <2>4, <3>2
    <3>4. u[n] = r[n] + z
      BY <1>1, <2>4, <3>1, <3>3, GoAlike
    <3> QED
      BY <3>2, <3>4
  <2>8. t[n + 1] = t[n] + gain
    BY <2>1, <2>3
  <2>9. r[n] \in Int
    OBVIOUS
  <2> QED
    BY <1>4, <2>1, <2>3, <2>6, <2>7, <2>8, <2>9
<1>7. TotalOf(0, <<>>) = 0
  <2>1. PICK e \in Seq(Int) : e = <<>> /\ Len(e) = 0
    BY EmptySeq
  <2>2. PICK t \in [0 .. Len(e) -> Int] : Adds(t, 0, e)
    BY TotalSteps
  <2> QED
    BY <2>1, <2>2 DEF Adds
<1>8. q[n] \in Int
  OBVIOUS
<1> QED
  BY <1>4, <1>5, <1>6, <1>7, <1>8

\* An account of the loop, with what its open trade has cost, is worth the start
\* and the gains so far.
Accounts == [capital : Int, lots : Int, entry : Int, gains : Seq(Int)]
Cost(account) == IF account.lots = 0 THEN 0 ELSE Spent(account.lots, account.entry)
Balanced(start) ==
  {a \in Accounts : a.capital + Cost(a) = start + TotalOf(0, a.gains)}

\* Amounts of whole lots are whole.
LEMMA Amounts ==
  ASSUME NEW lots \in Int, NEW close \in Int
  PROVE  Spent(lots, close) \in Int /\ Revenue(lots, close) \in Int
<1>1. PICK f \in Int, t \in Int : f = FeeRate /\ t = TaxRate
  BY FeesAndHistoryAssumption
<1>2. lots * close * (10000 + f) \in Int /\ lots * close * (10000 - f - t) \in Int
  OBVIOUS
<1> QED
  BY <1>1, <1>2 DEF Spent, Revenue

\* The fields of an account.
LEMMA AccountOf ==
  ASSUME NEW c \in Int, NEW l \in Int, NEW e \in Int, NEW g \in Seq(Int)
  PROVE  LET a == [capital |-> c, lots |-> l, entry |-> e, gains |-> g]
         IN  a \in Accounts /\ a.capital = c /\ a.lots = l /\ a.entry = e /\ a.gains = g
BY DEF Accounts

\* One bar keeps the balance.
LEMMA BarBalances ==
  ASSUME NEW start \in Int, NEW account \in Balanced(start), NEW close \in Nat \ {0}, NEW signal
  PROVE  Bar(account, close, signal) \in Balanced(start)
<1>1. PICK capital \in Int, lots \in Int, entry \in Int, gains \in Seq(Int) :
        account = [capital |-> capital, lots |-> lots, entry |-> entry, gains |-> gains]
  BY DEF Balanced, Accounts
<1>2. PICK total \in Int : total = TotalOf(0, gains)
  BY TotalIs
<1>3. PICK cost \in Int : cost = Cost(account) /\ capital + cost = start + total
  <2>1. Cost(account) \in Int
    BY <1>1, Amounts DEF Cost
  <2>2. capital + Cost(account) = start + total
    BY <1>1, <1>2 DEF Balanced
  <2> QED
    BY <2>1, <2>2
<1>4. CASE signal = 1 /\ lots = 0 /\ LotsFor(capital, close) >= 1
  <2>1. PICK n \in Int : n = LotsFor(capital, close)
    <3>1. PICK d \in Nat \ {0} : d = 1000 * 1000 * close
      <4>1. 1000 * 1000 * close \in Nat \ {0}
        OBVIOUS
      <4> QED
        BY <4>1
    <3>2. PICK c \in Int : c = capital * 95
      OBVIOUS
    <3>3. c \div d \in Int
      OBVIOUS
    <3> QED
      BY <3>1, <3>2, <3>3 DEF LotsFor, Lot
  <2>2. PICK spent \in Int : spent = Spent(n, close)
    BY Amounts
  <2>3. PICK rest \in Int : rest = capital - spent
    OBVIOUS
  <2>4. PICK next : next = [capital |-> rest, lots |-> n, entry |-> close, gains |-> gains]
    OBVIOUS
  <2>5. /\ next \in Accounts
        /\ next.capital = rest /\ next.lots = n /\ next.entry = close /\ next.gains = gains
    BY <2>4, AccountOf
  <2>6. Bar(account, close, signal) = next
    <3>1. Bar(account, close, signal) = [account EXCEPT !.capital = @ - spent, !.lots = n, !.entry = close]
      BY <1>1, <1>4, <2>1, <2>2 DEF Bar
    <3> QED
      BY <1>1, <2>3, <2>4, <3>1
  <2>7. Cost(next) = spent
    <3>1. n # 0
      BY <1>4, <2>1
    <3> QED
      BY <2>2, <2>5, <3>1 DEF Cost
  <2>8. cost = 0
    BY <1>1, <1>3, <1>4 DEF Cost
  <2>9. next.capital + Cost(next) = start + TotalOf(0, next.gains)
    BY <1>2, <1>3, <2>3, <2>5, <2>7, <2>8
  <2> QED
    BY <2>5, <2>6, <2>9 DEF Balanced
<1>5. CASE signal = -1 /\ lots > 0
  <2>1. PICK revenue \in Int : revenue = Revenue(lots, close)
    BY Amounts
  <2>2. PICK gain \in Int : gain = Gain(lots, entry, close) /\ gain = revenue - cost
    <3>1. cost = Spent(lots, entry)
      BY <1>1, <1>3, <1>5 DEF Cost
    <3>2. revenue - cost \in Int
      OBVIOUS
    <3> QED
      BY <2>1, <3>1, <3>2 DEF Gain
  <2>3. PICK more \in Seq(Int) : more = Append(gains, gain)
    BY AppendProperties
  <2>4. PICK rest \in Int : rest = capital + revenue
    OBVIOUS
  <2>5. PICK next : next = [capital |-> rest, lots |-> 0, entry |-> entry, gains |-> more]
    OBVIOUS
  <2>6. /\ next \in Accounts
        /\ next.capital = rest /\ next.lots = 0 /\ next.entry = entry /\ next.gains = more
    <3>1. PICK none \in Int : none = 0
      OBVIOUS
    <3>2. next = [capital |-> rest, lots |-> none, entry |-> entry, gains |-> more]
      BY <2>5, <3>1
    <3> QED
      BY <3>1, <3>2, AccountOf
  <2>7. Bar(account, close, signal) = next
    <3>1. Bar(account, close, signal)
            = [account EXCEPT !.capital = @ + revenue, !.lots = 0, !.gains = Append(@, gain)]
      <4>1. account.lots = lots /\ account.entry = entry
        BY <1>1
      <4>2. ~(signal = 1 /\ account.lots = 0 /\ LotsFor(account.capital, close) >= 1)
        BY <1>5, <4>1
      <4> QED
        BY <1>5, <2>1, <2>2, <4>1, <4>2 DEF Bar
    <3> QED
      BY <1>1, <2>3, <2>4, <2>5, <3>1
  <2>8. Cost(next) = 0
    BY <2>6 DEF Cost
  <2>9. TotalOf(0, more) = total + gain
    BY <1>2, <2>3, TotalIs
  <2>10. next.capital + Cost(next) = start + TotalOf(0, next.gains)
    <3>1. TotalOf(0, next.gains) = total + gain
      BY <2>6, <2>9
    <3>2. rest = start + (total + gain)
      <4>1. capital + cost = start + total
        BY <1>3
      <4>2. gain = revenue - cost
        BY <2>2
      <4> QED
        BY <2>4, <4>1, <4>2
    <3>3. next.capital + Cost(next) = rest
      BY <2>4, <2>6, <2>8
    <3> QED
      BY <3>1, <3>2, <3>3
  <2> QED
    BY <2>6, <2>7, <2>10 DEF Balanced
<1>6. CASE /\ ~(signal = 1 /\ lots = 0 /\ LotsFor(capital, close) >= 1)
           /\ ~(signal = -1 /\ lots > 0)
  BY <1>1, <1>6 DEF Bar
<1> QED
  BY <1>4, <1>5, <1>6

\* So do all bars, whatever the signals.
LEMMA LoopBalances ==
  ASSUME NEW h \in Seq(PriceBars), NEW signals, NEW start \in Int
  PROVE  Loop(h, signals, start) \in Balanced(start)
<1>1. PICK n \in Nat : n = Len(h) /\ DOMAIN h = 1 .. n
  OBVIOUS
<1>2. PICK first : first = [capital |-> start, lots |-> 0, entry |-> 0, gains |-> <<>>]
  OBVIOUS
<1>3. first \in Balanced(start)
  <2>1. PICK e \in Seq(Int) : e = <<>>
    BY EmptySeq
  <2>2. first \in Accounts
    BY <1>2, <2>1 DEF Accounts
  <2>3. Cost(first) = 0 /\ TotalOf(0, first.gains) = 0
    BY <1>2, <2>1, TotalIs DEF Cost
  <2>4. first.capital + Cost(first) = start + TotalOf(0, first.gains)
    BY <1>2, <2>3
  <2> QED
    BY <2>2, <2>4 DEF Balanced
<1>4. PICK R : R = Balanced(start)
  OBVIOUS
<1> DEFINE F == [p \in R \X (1 .. n) |-> Bar(p[1], h[p[2]].close, signals[p[2]])]
<1>5. \A i \in 1 .. n : h[i].close \in Nat \ {0}
  <2>1. \A b \in PriceBars : b.close \in Nat \ {0}
    BY DEF PriceBars
  <2>2. \A i \in 1 .. n : h[i] \in PriceBars
    BY <1>1, ElementOfSeq
  <2> QED
    BY <2>1, <2>2
<1>6. StepsIn(F, R, n)
  <2>1. ASSUME NEW v \in R, NEW i \in 1 .. n PROVE Bar(v, h[i].close, signals[i]) \in R
    BY <1>4, <1>5, BarBalances
  <2> QED
    BY <2>1 DEF StepsIn
<1>7. \A v \in R, i \in 1 .. n : F[<<v, i>>] = Bar(v, h[i].close, signals[i])
  OBVIOUS
<1> HIDE DEF F
<1>8. PICK it \in [SUBSET (1 .. n) -> R] : Solution(it, first, F, n)
  BY <1>3, <1>4, <1>6, Recursion
<1>9. PICK q : q = [i \in DOMAIN h |-> i] /\ DOMAIN q = 1 .. n /\ \A i \in 1 .. n : q[i] = i
  <2>1. PICK q : q = [i \in DOMAIN h |-> i]
    OBVIOUS
  <2>2. DOMAIN q = 1 .. n /\ \A i \in 1 .. n : q[i] = i
    BY <1>1, <2>1
  <2> QED
    BY <2>1, <2>2
<1>10. it = [s \in SUBSET (1 .. n) |->
               IF s = {} THEN first
               ELSE Bar(it[s \ {Max(s)}], h[q[Max(s)]].close, signals[q[Max(s)]])]
  <2>1. ASSUME NEW s \in SUBSET (1 .. n), s # {}
        PROVE  F[<<it[s \ {Max(s)}], Max(s)>>]
                 = Bar(it[s \ {Max(s)}], h[q[Max(s)]].close, signals[q[Max(s)]])
    <3>1. PICK l \in 1 .. n : l = Max(s)
      BY <2>1, LastPlace
    <3>2. PICK v \in R : v = it[s \ {l}]
      BY <3>1
    <3>3. q[l] = l
      BY <1>9
    <3> QED
      BY <1>7, <3>1, <3>2, <3>3
  <2> QED
    BY <1>8, <2>1 DEF Solution
<1>11. PICK c : c = CHOOSE z : z = [s \in SUBSET (1 .. n) |->
               IF s = {} THEN first
               ELSE Bar(z[s \ {Max(s)}], h[q[Max(s)]].close, signals[q[Max(s)]])]
  OBVIOUS
<1>12. c = [s \in SUBSET (1 .. n) |->
               IF s = {} THEN first
               ELSE Bar(c[s \ {Max(s)}], h[q[Max(s)]].close, signals[q[Max(s)]])]
  BY <1>10, <1>11
<1>13. Loop(h, signals, start) = c[1 .. n]
  BY <1>2, <1>9, <1>11 DEF Loop, FoldLeft, MapThenFoldSet
<1>14. \A s \in SUBSET (1 .. n) :
         s # {} /\ c[s \ {Max(s)}] \in R => c[s] = F[<<c[s \ {Max(s)}], Max(s)>>]
  <2> SUFFICES ASSUME NEW s \in SUBSET (1 .. n), s # {}, c[s \ {Max(s)}] \in R
               PROVE  c[s] = F[<<c[s \ {Max(s)}], Max(s)>>]
    OBVIOUS
  <2>1. PICK l \in 1 .. n : l = Max(s)
    BY LastPlace
  <2>2. PICK v \in R : v = c[s \ {l}]
    BY <2>1
  <2>3. c[s] = Bar(v, h[l].close, signals[l])
    BY <1>9, <1>12, <2>1, <2>2
  <2> QED
    BY <1>7, <2>1, <2>2, <2>3
<1>15. c[{}] = first
  BY <1>12
<1>16. PICK r \in [0 .. n -> R] : Values(r, c, first, F, n)
  <2>1. SolutionIn(c, first, F, R, n)
    BY <1>14, <1>15 DEF SolutionIn
  <2> QED
    BY <1>3, <1>4, <1>6, <2>1, FoldSteps
<1>17. n \in 0 .. n
  OBVIOUS
<1> QED
  BY <1>4, <1>13, <1>16, <1>17 DEF Values

\* Every strategy is such a loop.
LEMMA TestBalances ==
  ASSUME NEW h \in Seq(PriceBars), NEW strategy, NEW start \in Int
  PROVE  QuickTest(h, strategy, start) \in Balanced(start)
<1>1. CASE strategy = "institutional"
  <2>1. PICK signals : signals = [i \in DOMAIN h |-> FlowSignal(h, i)]
    OBVIOUS
  <2>2. QuickTest(h, strategy, start) = Loop(h, signals, start)
    BY <1>1, <2>1 DEF QuickTest, InstitutionalBacktest
  <2> QED
    BY <2>2, LoopBalances
<1>2. CASE strategy # "institutional"
  <2>1. PICK signals : signals = [i \in DOMAIN h |-> Signal(h, i, strategy)]
    OBVIOUS
  <2>2. QuickTest(h, strategy, start) = Loop(h, signals, start)
    BY <1>2, <2>1 DEF QuickTest, SimpleBacktest
  <2> QED
    BY <2>2, LoopBalances
<1> QED
  BY <1>1, <1>2

\* What the backtest page shows was tested on enough bars, and balances.
Tested(t) ==
  t.history \in Seq(PriceBars) /\ t.history # <<>> /\ t.account \in Balanced(Capital * 10)
TestsInv == \A i \in DOMAIN tests : Tested(tests[i])

\* A run of backtests leaves such results.
LEMMA RunTests ==
  ASSUME NEW codes \in Seq(Tickers), NEW loaded \in SUBSET Tickers,
         NEW historyOf \in [loaded -> Seq(PriceBars)], NEW strategy,
         RunBacktest(codes, historyOf, strategy)
  PROVE  TestsInv'
<1>1. PICK usable : usable = {c \in DOMAIN historyOf : Len(historyOf[c]) >= MinHistory}
  OBVIOUS
<1>2. PICK made : made = [c \in usable |->
            [code |-> c, history |-> historyOf[c], strategy |-> strategy,
             account |-> QuickTest(historyOf[c], strategy, Capital * 10)]]
  OBVIOUS
<1>3. ASSUME NEW c \in DOMAIN made PROVE Tested(made[c])
  <2>1. c \in loaded /\ Len(historyOf[c]) >= MinHistory /\ c \in usable
    BY <1>1, <1>2
  <2>2. PICK h \in Seq(PriceBars) : h = historyOf[c]
    BY <2>1
  <2>3. h # <<>>
    <3>1. Len(h) >= MinHistory /\ MinHistory \in Nat \ {0} /\ Len(h) \in Nat
      BY <2>1, <2>2, FeesAndHistoryAssumption
    <3> QED
      BY <3>1
  <2>4. PICK start \in Int : start = Capital * 10
    <3>1. PICK x \in Nat : x = Capital
      BY MoneyAssumption
    <3> QED
      BY <3>1
  <2>5. made[c].history = h /\ made[c].account = QuickTest(h, strategy, start)
    BY <1>2, <2>1, <2>2, <2>4
  <2> QED
    BY <2>3, <2>4, <2>5, TestBalances DEF Tested
<1>4. PICK S : S = {made[c] : c \in DOMAIN made}
  OBVIOUS
<1>5. Collected(codes, made) \in Seq(S)
  <2>1. \A c \in DOMAIN made : made[c] \in S
    BY <1>4
  <2> QED
    BY <2>1, CollectsMade
<1>6. tests' = Collected(codes, made)
  BY <1>1, <1>2 DEF RunBacktest
<1>7. \A t \in S : Tested(t)
  BY <1>3, <1>4
<1>8. PICK results \in Seq(S) : results = tests'
  BY <1>5, <1>6
<1>9. \A i \in DOMAIN results : Tested(results[i])
  BY <1>7
<1> QED
  BY <1>8, <1>9 DEF TestsInv, Tested

\* No other click has results of its own.
LEMMA KeepsTests == TestsInv /\ [SessionNext]_sessionVars => TestsInv'
<1> SUFFICES ASSUME TestsInv, [SessionNext]_sessionVars PROVE TestsInv'
  OBVIOUS
<1>1. ASSUME UNCHANGED tests PROVE TestsInv'
  BY <1>1 DEF TestsInv, Tested
<1>2. CASE UNCHANGED sessionVars
  BY <1>1, <1>2 DEF sessionVars, trials
<1>3. CASE PaperClicks
  <2>1. UNCHANGED tests
    BY <1>3 DEF PaperClicks, GoPaper, Visit, StopPaper, StartPaper, QuickBuild, ManualBuy, Sell,
                OnPaper, trials
  <2> QED
    BY <1>1, <2>1
<1>4. CASE ListClicks
  <2>1. CASE NewSession
    BY <2>1 DEF NewSession, TestsInv
  <2>2. ASSUME NEW codes \in Seq(Tickers), NEW loaded \in SUBSET Tickers,
               NEW historyOf \in [loaded -> Seq(PriceBars)], NEW strategy,
               RunBacktest(codes, historyOf, strategy)
        PROVE  TestsInv'
    BY <2>2, RunTests
  <2>3. CASE UNCHANGED tests
    BY <1>1, <2>3
  <2>4. \/ NewSession \/ UNCHANGED tests
        \/ \E codes \in Seq(Tickers), loaded \in SUBSET Tickers :
             \E historyOf \in [loaded -> Seq(PriceBars)] :
               \E strategy : RunBacktest(codes, historyOf, strategy)
    BY <1>4 DEF ListClicks, GoRadar, LoadWatchlist, ClearWatchlist, ScanPicks, Visit,
                SwitchMarket, AddPicks, ScanTyped, AddChips, trials
  <2> QED
    BY <2>1, <2>2, <2>3, <2>4
<1> QED
  BY <1>2, <1>3, <1>4 DEF SessionNext

\* An account that balances has the change of its value in its trades.
LEMMA TradesExplain ==
  ASSUME NEW start \in Int, NEW a \in Balanced(start), NEW h \in Seq(PriceBars), h # <<>>
  PROVE  FinalValue(a, h) - start =
           TotalOf(IF a.lots = 0 THEN 0 ELSE a.lots * Last(h).close * 10000 - Spent(a.lots, a.entry),
                   a.gains)
<1>1. PICK capital \in Int, lots \in Int, entry \in Int, gains \in Seq(Int) :
        capital = a.capital /\ lots = a.lots /\ entry = a.entry /\ gains = a.gains
  BY DEF Balanced, Accounts
<1>2. PICK close \in Int : close = Last(h).close
  <2>1. Last(h) \in PriceBars
    BY EmptySeq, ElementOfSeq DEF Last
  <2> QED
    BY <2>1 DEF PriceBars
<1>3. PICK worth \in Int : worth = lots * close * 10000
  OBVIOUS
<1>4. PICK total \in Int : total = TotalOf(0, gains)
  BY TotalIs
<1>5. PICK cost \in Int : cost = Cost(a) /\ cost = IF lots = 0 THEN 0 ELSE Spent(lots, entry)
  BY <1>1, Amounts DEF Cost
<1>6. capital + cost = start + total
  BY <1>1, <1>4, <1>5 DEF Balanced
<1>7. PICK open \in Int : open = IF lots = 0 THEN 0 ELSE worth - cost
  <2>1. worth - cost \in Int /\ 0 \in Int
    OBVIOUS
  <2> QED
    BY <2>1
<1>8. worth = open + cost
  <2>1. CASE lots = 0
    BY <1>3, <1>5, <1>7, <2>1
  <2>2. CASE lots # 0
    BY <1>7, <2>2
  <2> QED
    BY <2>1, <2>2
<1>9. TotalOf(open, gains) = total + open
  <2>1. 0 \in Int
    OBVIOUS
  <2> QED
    BY <1>4, <2>1, TotalIs
<1>10. FinalValue(a, h) = capital + worth
  BY <1>1, <1>2, <1>3 DEF FinalValue
<1>11. capital + worth - start = total + open
  BY <1>6, <1>8
<1>12. open = IF a.lots = 0 THEN 0 ELSE a.lots * Last(h).close * 10000 - Spent(a.lots, a.entry)
  BY <1>1, <1>2, <1>3, <1>5, <1>7
<1> QED
  BY <1>1, <1>9, <1>10, <1>11, <1>12

\* For every history, strategy, fee and capital the change of the account is the
\* sum of the profits of the closed trades and of the one still open.
THEOREM QuickTestsBalance == SessionSpec => []QuickTestBalances
<1>1. SessionInit => TestsInv
  BY DEF SessionInit, TestsInv
<1>2. TestsInv => QuickTestBalances
  <2> SUFFICES ASSUME TestsInv, NEW i \in DOMAIN tests
               PROVE  FinalValue(tests[i].account, tests[i].history) - Capital * 10 =
                        TotalOf(IF tests[i].account.lots = 0 THEN 0
                                ELSE tests[i].account.lots * Last(tests[i].history).close * 10000
                                       - Spent(tests[i].account.lots, tests[i].account.entry),
                                tests[i].account.gains)
    BY DEF QuickTestBalances
  <2>1. PICK start \in Int : start = Capital * 10
    <3>1. PICK x \in Nat : x = Capital
      BY MoneyAssumption
    <3> QED
      BY <3>1
  <2>2. tests[i].account \in Balanced(start) /\ tests[i].history \in Seq(PriceBars)
        /\ tests[i].history # <<>>
    BY <2>1 DEF TestsInv, Tested
  <2> QED
    BY <2>1, <2>2, TradesExplain
<1> QED
  BY <1>1, <1>2, KeepsTests, PTL DEF SessionSpec
=============================================================================
