----------------------------- MODULE MCServices -----------------------------
(* The services a page asks and the pages themselves, one at a time: `part`   *)
(* says which of them a behaviour is about.  The services without a state of  *)
(* their own answer once.                                                     *)
EXTENDS MCResearch, MarketDownloads, Conclusions, Advice, Session, TradingRules, MarketServices, Portfolio

CONSTANTS
  Parts,      \* the parts a run is about
  MaxOrders   \* bound of the paper trading page

VARIABLE part

\* The range the page asks for, beside the analysis.
MCPageRanges == {<<0, 3>>}

-----------------------------------------------------------------------------
(* The downloads, for a week of three days of trading and one without. *)

Asked == [scan    |-> {"twse_daily", "twse_institutional", "tpex_daily", "tpex_institutional"},
          ratio   |-> {"put_call_ratio", "futures_day"},
          basis   |-> {"futures_tx", "futures_mtx", "mi_index"}]

\* A download may lose the table of today.
Download(asked) ==
  \/ NextDay
  \/ \E t \in asked : Publish(t)
  \/ \E lost \in {{}} \union {{<<t, today>>} : t \in asked} :
       \/ \E t \in asked \ Others : Fetch(t, lost)
       \/ asked = Asked.scan /\ Scan(lost)
       \/ asked = Asked.basis /\ FetchBasis(lost)

-----------------------------------------------------------------------------
(* Conclusions: two stocks, four technical pictures. *)

Pattern(bottom, stars, alignment) == [bottom |-> bottom, stars |-> stars, alignment |-> alignment]
Pictures == {[ma |-> 1, rsi |-> 55, macd |-> 1, pattern |-> Pattern(1, 4, 1), bars |-> 80],
             [ma |-> -1, rsi |-> 75, macd |-> -1, pattern |-> Pattern(0, 0, -1), bars |-> 80],
             [ma |-> 0, rsi |-> 35, macd |-> 1, pattern |-> None, bars |-> 60],
             [ma |-> 1, rsi |-> 55, macd |-> 1, pattern |-> None, bars |-> 30]}
MCFigures ==
  {t @@ [foreign |-> x[1], trust |-> x[2], flow |-> x[3], ret |-> r, anomaly |-> a,
         phase |-> "MARKUP", revenue |-> v] :
     t \in Pictures, x \in {<<-6, -6, "ok">>, <<3, 5, "ok">>, <<0, 0, "error">>},
     r \in {-90, 0, 110}, a \in {"yes", "error"},
     v \in {[yoy |-> 11, mom |-> 1], [yoy |-> -11, mom |-> 1]}}
MCClimates  == [regime : {"BEAR", "none"}, mood : {"EXTREME_FEAR", "none"}]
MCHistories ==
  [days : {0, 60, 110, 120}, ml : {None, 65, 85}, regime : {"BULL", "RANGE", "BEAR", "none"},
   flow : {None} \union [known : BOOLEAN, foreign : {-3, 5, 10}, trust : {-4, 0, 4}]]
MCRecords ==
  {r \in [n : {0, 2, 10, 18}, wins : {0, 4, 7, 10}, sum : {-60, 0, 300}, drawdown : {-30, -2, 0}] :
     r.wins <= r.n}
Concluded ==
  /\ concludeVars = <<<<>>, None, {}>>
  /\ \/ \E f \in [{"a", "b"} -> MCFigures \union {None}], climate \in MCClimates :
          EvaluateBatch(f, climate)
     \/ \E h \in MCHistories : EvaluateConfidence(h)
     \/ \E r \in MCRecords : RunDailyCheck({r})

-----------------------------------------------------------------------------
(* Advice: a stock for each side of the thresholds, and the markets. *)

Row == [close |-> 50, lots |-> 4000, change |-> 15, foreign |-> 600000, trust |-> 0, themes |-> 0]
MCStocks ==
  {[a |-> Row, b |-> [Row EXCEPT !.trust = 200000, !.change = -35, !.themes = 2],
    c |-> [Row EXCEPT !.lots = 600, !.foreign = 0]]}
MCCloses ==
  [a |-> [length |-> 120, above |-> {8, 21, 55, 120}, order |-> "bull", over |-> {8, 21, 55}],
   b |-> [length |-> 60, above |-> {8}, order |-> "bear", over |-> {}],
   c |-> [length |-> 7, above |-> {8}, order |-> "mixed", over |-> {}]]
MCMarkets ==
  [basis : {-5, 0, 5, None}, foreign : {-20000, -4000, 0, 4000, 12000}, net : {-1, 0, 1},
   oi : {0, 70, 100, 13000, None}, volume : {140}, shortMargin : {100, 400},
   raising : {"none", "institutional"}, usage : {10, 60, None}, advances : {100, 900}]

Advised ==
  \/ part = "rank" /\ \/ maDay < 3 /\ NextMaDay
                      \/ \E t \in MCStocks, d \in {{}, {"b"}}, failing \in BOOLEAN :
                           ScanToDataframe(t, d, failing)
  \/ part = "advice" /\ advice = None
     /\ \E m \in MCMarkets : m.usage = None /\ (Advise(m, 0) \/ Advise(m, 3))
  \/ part = "mood" /\ \E m \in MCMarkets :
       /\ m.net = 0 /\ m.shortMargin = 100 /\ m.basis = 0
       /\ GetCurrent(m) \/ Recalculate(m)

-----------------------------------------------------------------------------
(* The session of a browser: two stocks of Taiwan, two of the US. *)

Day == [close |-> 20, spread |-> -1, hist |-> -1, rsi |-> 50, ma |-> 20, surge |-> TRUE]
DayUp == [Day EXCEPT !.spread = 1, !.hist = 1, !.rsi = 25]
PriceHistories ==
  {<<Day, [DayUp EXCEPT !.close = p], [Day EXCEPT !.close = q, !.rsi = 75],
     [DayUp EXCEPT !.close = 25, !.surge = FALSE], [Day EXCEPT !.close = 24, !.ma = 30]>> :
     p \in {20, 25}, q \in {20, 30}} \union {<<Day>>}
Rising == <<Day, DayUp, [Day EXCEPT !.close = 30], DayUp, DayUp>>

ChipRow == [margin |-> 1000, short |-> 310, bought |-> 0, sold |-> 0, net |-> 0, foreign |-> 0]
ChipTables ==
  {[a |-> ChipRow, b |-> [ChipRow EXCEPT !.short = 0, !.net = -4000]],
   [a |-> [ChipRow EXCEPT !.short = 100, !.bought = 1200, !.foreign = -3000],
    b |-> [ChipRow EXCEPT !.margin = 50]]}
ChipRankings(t) == LET Key(c) == MarginScore(t[c])
                   IN  Rankings(Analysed(t), Key)

UsRow == [momentum |-> 4, rsi |-> 55, ma8 |-> 3, ma21 |-> 2, ma55 |-> 1, macd |-> 1,
          volume |-> 200, usual |-> 100]
UsTable == [u |-> UsRow, v |-> [UsRow EXCEPT !.momentum = 9, !.rsi = 75, !.macd = -1, !.ma8 = 1,
                                             !.volume = 100]]
PicksOf(m) ==
  {NotScanned} \union (IF m = "TW" THEN {<<"a", "b">>}
                       ELSE UNION {UsRanked(UsTable, key, 1) : key \in {"score", "volume"}})

EditLists ==
  \/ NewSession \/ GoRadar \/ LoadWatchlist \/ ClearWatchlist
  \/ \E p \in {"radar", "screener", "margin"}, f \in PicksOf(market) : Visit(p, f)
  \/ \E m \in Markets : \E f \in PicksOf(m) : SwitchMarket(m, f)
  \/ \E f \in PicksOf(market) : ScanPicks(f)
  \/ \E l \in {<<"b", "a">>, <<"u">>} : AddPicks(l)
  \/ ScanTyped(<<"a">>)
  \/ \E t \in ChipTables, b \in BOOLEAN : \E r \in ChipRankings(t) : AddChips(t, r, b)

\* A click may cut the run of a page off after any of its assignments.
PracticeTrading ==
  \/ tests = <<>> /\ \E p \in {"backtest", "margin"} : Visit(p, NotScanned)
  \/ tests = <<>> /\ RunBacktest(<<"a", "b">>, [c \in {"a", "b"} |-> Rising], "ma_cross")
  \/ GoPaper \/ StopPaper
  \/ paper.orders = <<>> /\ \E cut \in 0 .. 3 : StartPaper(100000, cut)
  \/ /\ Len(paper.orders) < MaxOrders
     /\ \/ \E cut \in 0 .. 4, l \in {<<"a">>, <<"b", "a">>}, q \in [{"a", "b"} -> {0, 25, 200}] :
             QuickBuild(l, q, cut)
        \/ \E cut \in 1 .. 2 : ManualBuy("a", 25, 1, cut)
        \/ \E i \in DOMAIN paper.positions, cut \in 0 .. 3, p \in {24, 30} : Sell(i, p, cut)

TryStrategies ==
  \/ page # "backtest" /\ Visit("backtest", NotScanned)
  \/ tests = <<>>
     /\ \E h \in [{"a", "b"} -> PriceHistories], l \in {<<"a">>, <<"a", "b">>},
           s \in {"ma_cross", "rsi_revert", "macd_cross", "granville", "institutional"} :
          RunBacktest(l, h, s)

-----------------------------------------------------------------------------
(* The rules: five bars at the most, windows of two or three. *)

Closings == {<<100, 100, 100, 100, 100>>, <<100, 100, 100, 104, 112>>, <<100, 100, 108, 104, 101>>,
             <<100, 101>>}
Volumes  == {<<10, 10, 10, 10, 5>>, <<10, 10, 10, 10, 16>>, <<10, 10, 10, 10, 30>>, <<0, 0, 0, 0, 7>>}
BarsOf(c, v) ==
  [close |-> c, volume |-> SubSeq(v, 1, Len(c)),
   high |-> [i \in DOMAIN c |-> c[i] + (IF i = 3 THEN 6 ELSE 1)],
   low  |-> [i \in DOMAIN c |-> c[i] - (IF i = 2 THEN 5 ELSE 1)]]
Chips == [margin : {-1, 0, 1}, institutional : {-1, 0, 1}, futures : {-1, 0, 1},
          openInterest : {-1, 1}, putCall : {5, 8, 12, 14}]
MCTraderRows == {None} \union [buy : {30, 50, 53, 60}, sell : {30, 50, 53, 60}]

Decided ==
  /\ decision = None
  /\ \/ \E c \in Closings, v \in Volumes, net \in {None} \union [1 .. 5 -> {-2, 0, 1}] :
          DetectPhase(BarsOf(c, v), net)
     \/ \E c \in Closings : CalculateLevels(BarsOf(c, c))
     \/ \E v \in Volumes, foreign \in {-100, 0, 3000}, trust \in {0, 5000}, shares \in {None, 500} :
          AnalyzeRisk(BarsOf(<<100, 100, 100, 104, 112>>, v),
                            [foreign |-> foreign, trust |-> trust, dealer |-> 10], shares)
     \/ \E c \in Chips, basis \in {-20, -10, 0, 10, 20}, lots \in {0, 10} :
          AdviseHedge(c, basis, lots, HedgeRatio(3, 2, 20), 50, 20000)
     \/ \E five, ten \in MCTraderRows : AnalyzeTraders([top5 |-> five, top10 |-> ten])
     \/ \E short \in {None, -8, 0, 8}, long \in {None, -90, 90} : AnalyzeFx(short, long)

-----------------------------------------------------------------------------
(* The market: four days, of which the second and later ones are past the turn *)
(* of the window; the universe of three codes, one of which is cheap.          *)

Quote(price, lots) == [close |-> price, lots |-> lots]
MCTables == {[a |-> Quote(50, 600), b |-> Quote(20, 600), c |-> Quote(5, 600)]}
MCBarsOn == <<1, 2, 2, 3>>

\* The stateless services answer before anything is built.
Surveyed ==
  \/ report = None /\ UniverseNext
  \/ /\ universe = None /\ blacklist = {} /\ lastBuild = None /\ calls = [c \in Calls |-> Idle]
     /\ \E order \in {"bull", "bear", "mixed"}, strength \in {-5, 0, 5} :
          LET index == [order |-> order, strength |-> strength]
          IN  UpdateRegime(index) \/ GetRegime(index)
  \/ /\ svcDay = 1 /\ report = None
     /\ universe = None /\ blacklist = {} /\ lastBuild = None /\ calls = [c \in Calls |-> Idle]
     /\ \/ \E m \in [{"a", "b", "c"} -> {-8, -1, 0, 7}] \union {<<>>} : CalculateBreadth(m)
        \/ \E n \in [{"a", "b"} -> {<<>>, <<1, 0, 2, -1, -9>>, <<0, 0, 0, 0, 30>>, <<1, 1>>}] :
             AskFlow(n, <<<<"a">>, <<"a", "b">>>>)
        \/ \E r \in [{"a", "b", "c", "d"} -> {[short |-> 3, long |-> 1], [short |-> 1, long |-> 3],
                                              [long |-> 2]}] :
             DetectRotation(<<<<"a">>, <<"b">>, <<"c">>, <<"d">>, <<>>>>, r)

-----------------------------------------------------------------------------
(* The portfolio: two positions at most. *)

Held ==
  \/ \E c \in {"a", "b"}, m \in {"TW", "US"}, stop \in {9, 12} :
       AddPosition([code |-> c, market |-> m, entry |-> 10, shares |-> 10, stop |-> stop])
  \/ \E id \in 1 .. 4, price \in {8, 13} : ClosePosition(id, price)
  \/ /\ stats = <<>>
     /\ \E q \in {[a |-> 12], [a |-> 9, b |-> 11]}, m \in {"TW", "US"}, stop \in {9, 11} :
          Query(q, m, stop, 40)

-----------------------------------------------------------------------------

researching == <<dmVars, btVars>>
all == <<part, researching, downloadVars, concludeVars, adviceVars, sessionVars, decision,
         servicesVars, portfolioVars>>

Begin ==
  /\ part \in Parts
  /\ DMInit /\ BTInit /\ DownloadInit /\ ConcludeInit /\ AdviceInit
  /\ SessionInit /\ RulesInit /\ ServicesInit /\ PortfolioInit

ServicesNext ==
  /\ UNCHANGED part
  /\ \/ /\ part = "research" /\ BTNext
        /\ UNCHANGED <<downloadVars, concludeVars, adviceVars, sessionVars,
                       decision, servicesVars, portfolioVars>>
     \/ /\ part \in DOMAIN Asked /\ Download(Asked[part])
        /\ UNCHANGED <<researching, concludeVars, adviceVars, sessionVars,
                       decision, servicesVars, portfolioVars>>
     \/ /\ part = "conclude" /\ Concluded
        /\ UNCHANGED <<researching, downloadVars, adviceVars, sessionVars,
                       decision, servicesVars, portfolioVars>>
     \/ /\ Advised
        /\ UNCHANGED <<researching, downloadVars, concludeVars, sessionVars,
                       decision, servicesVars, portfolioVars>>
     \/ /\ \/ part = "lists" /\ EditLists
           \/ part = "practice" /\ PracticeTrading
           \/ part = "tests" /\ TryStrategies
        /\ UNCHANGED <<researching, downloadVars, concludeVars, adviceVars,
                       decision, servicesVars, portfolioVars>>
     \/ /\ part = "rules" /\ Decided
        /\ UNCHANGED <<researching, downloadVars, concludeVars, adviceVars, sessionVars,
                       servicesVars, portfolioVars>>
     \/ /\ part = "survey" /\ Surveyed
        /\ UNCHANGED <<researching, downloadVars, concludeVars, adviceVars, sessionVars,
                       decision, portfolioVars>>
     \/ /\ part = "journal" /\ Held
        /\ UNCHANGED <<researching, downloadVars, concludeVars, adviceVars, sessionVars,
                       decision, servicesVars>>

ServicesSpec == Begin /\ [][ServicesNext]_all

=============================================================================
