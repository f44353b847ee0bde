------------------------------- MODULE Advice -------------------------------
(***************************************************************************)
(* What the program advises from the market's tables: the ranking of the   *)
(* whole market (atlas/application/smart_screener.py), the hedge advice    *)
(* for a stock and for the market (hedge_advisor.py, with the verdict of   *)
(* atlas/domain/margin_analysis.py) and the market's mood                  *)
(* (atlas/domain/sentiment.py).                                            *)
(*                                                                         *)
(* Percentages are in tenths, put-call ratios in hundredths, the scores of *)
(* the mood in tenths.  Days are numbered by maDay, as only the cache of   *)
(* closing prices looks at them.                                           *)
(***************************************************************************)
EXTENDS Integers, FiniteSets, FiniteSetsExt, Sequences, SequencesExt, TLC

CONSTANTS
  Unknown,   \* what a table does not say, and Python's None
  Stocks,    \* daily tables of the market: [codes -> rows]
  Top,       \* how many rows get the scores of the moving averages (200)
  Closes,    \* the closing prices of each code that can be downloaded
  MarketTables  \* what the futures exchange's and the margin tables may say

\* What a table says is a number, or it does not say it.
Figure == Int \union {Unknown}
ASSUME MarketTablesAssumption ==
  \A m \in MarketTables : {m.basis, m.foreign, m.oi, m.net, m.shortMargin} \subseteq Figure

VARIABLES
  maDay,     \* date.today()
  maCache,   \* _MA_CACHE: the codes kept for the day, with their closing prices
  ranking,   \* the rows of the last scan, in their order
  advice,    \* tables, and the two pieces of advice from them
  mood       \* SentimentService._last_result of one market

adviceVars == <<maDay, maCache, ranking, advice, mood>>

Clamped(x, low, high) == Max({low, Min({x, high})})

-----------------------------------------------------------------------------
(* SmartScreener *)

Tags(r) ==
  {t \in {"foreign", "foreign_big", "trust", "trust_big", "both", "volume", "burst", "strong",
          "up", "weak", "limit_up", "limit_down", "theme", "themes"} :
     CASE t = "foreign"     -> r.foreign > 0
       [] t = "foreign_big" -> r.foreign \div 1000 >= 500
       [] t = "trust"       -> r.trust > 0
       [] t = "trust_big"   -> r.trust \div 1000 >= 100
       [] t = "both"        -> r.foreign > 0 /\ r.trust > 0
       [] t = "volume"      -> r.lots >= 3000
       [] t = "burst"       -> r.lots >= 10000
       [] t = "strong"      -> r.change >= 30
       [] t = "up"          -> r.change \in 10..29
       [] t = "weak"        -> r.change <= -30
       [] t = "limit_up"    -> r.change >= 95
       [] t = "limit_down"  -> r.change <= -95
       [] t = "theme"       -> r.themes > 0
       [] t = "themes"      -> r.themes > 1}

Points ==
  [foreign |-> 20, foreign_big |-> 10, trust |-> 25, trust_big |-> 10, both |-> 15, volume |-> 10,
   burst |-> 5, strong |-> 15, up |-> 5, weak |-> -10, limit_up |-> 5, limit_down |-> -20,
   theme |-> 15, themes |-> 10]

Score(r) == MapThenSumSet(LAMBDA t : Points[t], Tags(r))

\* The prefilter and the rows kept of SmartScreener.scan; a list of disposition
\* stocks that could not be had is the empty set.
Hits(table, disposition) ==
  {c \in DOMAIN table : table[c].close >= 10 /\ table[c].lots >= 500
                        /\ c \notin disposition /\ Score(table[c]) > 0}

\* _score_ma_position and _score_deduction of closing prices, of which is known
\* how many there are, over which averages and earlier prices the last one is,
\* and how the averages are ordered.
MaScore(h) ==
  LET periods == {p \in {8, 21, 55, 120} : p <= h.length}
  IN  IF h.length < 8 THEN 0
      ELSE 3 * Cardinality(h.above \intersect periods)
           + (IF 55 \in periods /\ h.order = "bull" THEN 3 ELSE 0)

DeductionScore(h) ==
  IF h.length < 56 THEN 0
  ELSE MapThenSumSet(LAMBDA p : IF p = 8 THEN 4 ELSE 3, h.over \intersect {8, 21, 55})

\* _batch_ma_deduction: a series from the cache has no truth value, and the
\* exception leaves the default scores.
MaDeductionOf(c, cache, downloaded) ==
  IF c \in DOMAIN cache \/ c \notin DOMAIN downloaded THEN 0
  ELSE MaScore(downloaded[c]) + DeductionScore(downloaded[c])

\* scan_to_dataframe: the hits in the order of their scores, then the scores of
\* the moving averages added to the first of them; failing is a download that
\* raises.
ScanToDataframe(table, disposition, failing) ==
  LET order  == SetToSortSeq(Hits(table, disposition),
                             LAMBDA c, d : Score(table[c]) > Score(table[d]))
      first  == {order[i] : i \in 1 .. Min({Top, Len(order)})}
      downloaded == IF failing THEN <<>> ELSE [c \in first \ DOMAIN maCache |-> Closes[c]]
  IN  /\ ranking' = [i \in DOMAIN order |->
                       [code |-> order[i],
                        score |-> Score(table[order[i]])
                                  + MaDeductionOf(order[i], maCache, downloaded)]]
      /\ maCache' = downloaded @@ maCache
      /\ UNCHANGED <<maDay, advice, mood>>

\* The keys of _MA_CACHE hold the date.
NextMaDay ==
  /\ maDay' = maDay + 1
  /\ maCache' = <<>>
  /\ UNCHANGED <<ranking, advice, mood>>

-----------------------------------------------------------------------------
(* HedgeAdvisor.  m is what the tables say: the basis, the foreign investors' *)
(* net futures, the put-call ratio of open interest and of volume, of the     *)
(* stock the net buying and the short-margin ratio, Unknown if it is not      *)
(* there, and which request raises.                                           *)

Or0(x) == IF x = Unknown THEN 0 ELSE x

\* _fetch_futures_data: what comes after a request that raises keeps its default.
FuturesData(m) ==
  [basis   |-> IF m.raising = "basis" THEN 0 ELSE Or0(m.basis),
   foreign |-> IF m.raising \in {"basis", "institutional"} THEN 0 ELSE Or0(m.foreign),
   ratio   |-> IF m.raising # "none" THEN 0
               ELSE IF Or0(m.oi) > 1000 THEN m.oi \div 100 ELSE Or0(m.oi)]

Side(x, low, high) == IF x > high THEN 1 ELSE IF x < low THEN -1 ELSE 0

\* One point taken for a direction.
OverviewDirectionOfOnePoint(m) ==
  LET d == FuturesData(m)
  IN  Side(Side(d.basis, -1, 1) + Side(d.foreign, -5000, 5000) - Side(d.ratio, 80, 120), 0, 0)

\* market_overview; a ratio that is not there is 0 and passes for a low one.
OverviewDirection(m) ==
  LET d == FuturesData(m)
  IN  Side(Side(d.basis, -1, 1) + Side(d.foreign, -5000, 5000) - Side(d.ratio, 80, 120), -1, 1)

\* Without the changes of the short sales and the cost of the margin, which
\* _run_margin_analysis does not pass on, _determine_verdict is left with two of
\* its five outcomes.
ChipVerdict(shortMarginRatio) == IF shortMarginRatio > 300 THEN "squeeze_alert" ELSE "neutral"

RunMarginAnalysis(m) == ChipVerdict(Or0(m.shortMargin))

StockScore(m) ==
  LET d == FuturesData(m)
  IN  (IF RunMarginAnalysis(m) = "squeeze_alert" THEN 1 ELSE 0)
      + Side(Or0(m.net), 0, 0) + Side(d.basis, -1, 1) + Side(d.foreign, -3000, 3000)
      - (IF d.ratio = 0 THEN 0 ELSE Side(d.ratio, 80, 120))

\* _compute_direction and _decide_actions
StockAdvice(m, lots) ==
  LET score     == StockScore(m)
      direction == Side(score, -1, 1)
      high      == score \notin -2..2
      held      == IF lots > 0 THEN "HOLD" ELSE "NONE"
  IN  [direction |-> direction,
       stock   |-> CASE direction = 1  -> IF high \/ lots = 0 THEN "BUY" ELSE "HOLD"
                     [] direction = -1 -> IF high THEN "SELL" ELSE held
                     [] OTHER          -> held,
       futures |-> CASE direction = 1  -> IF high THEN "BUY" ELSE "NONE"
                     [] direction = -1 -> "SELL"
                     [] OTHER          -> "NONE"]

Advise(m, lots) ==
  /\ advice' = [tables |-> m, market |-> OverviewDirection(m), stock |-> StockAdvice(m, lots)]
  /\ UNCHANGED <<maDay, maCache, ranking, mood>>

-----------------------------------------------------------------------------
(* SentimentService *)

FuturesMood(m) ==
  IF m.raising = "institutional" \/ m.foreign = Unknown THEN 500
  ELSE Clamped(500 + m.foreign \div 50, 100, 900)

MarginMood(usage) ==
  IF usage = Unknown THEN 500
  ELSE IF usage > 50 THEN 800
  ELSE IF usage >= 30 THEN 500 + 15 * (usage - 30)
  ELSE IF usage >= 15 THEN 300 + (200 * (usage - 15)) \div 15
  ELSE 200

\* The ratio as it comes, which the advisor takes for a percentage above 10.
RatioMood(m) ==
  LET ratio == IF Or0(m.oi) > 0 THEN m.oi ELSE Or0(m.volume)
  IN  IF m.raising = "ratio" \/ ratio <= 0 THEN 500
      ELSE IF ratio < 50 THEN 900
      ELSE IF ratio < 80 THEN 900 - (100 * (ratio - 50)) \div 30
      ELSE IF ratio <= 120 THEN 800 - 15 * (ratio - 80)
      ELSE IF ratio <= 150 THEN 200 - (100 * (ratio - 120)) \div 30
      ELSE 100

\* advances among the stocks that moved, in thousandths
IndexValue(m) ==
  (3 * (IF m.advances = Unknown THEN 500 ELSE m.advances) + 3 * FuturesMood(m)
   + 2 * MarginMood(m.usage) + 2 * RatioMood(m)) \div 10

Level(index) == Cardinality({x \in {200, 400, 600, 800} : index >= x})

\* calculate
Calculate(m) ==
  LET level == Level(IndexValue(m))
  IN  mood' = [level |-> level, tables |-> m,
               shifted |-> mood # Unknown /\ mood.level # level]

\* get_current: for the life of the process, the first result.
GetCurrent(m) ==
  /\ IF mood = Unknown THEN Calculate(m) ELSE UNCHANGED mood
  /\ UNCHANGED <<maDay, maCache, ranking, advice>>

Recalculate(m) ==
  /\ Calculate(m)
  /\ UNCHANGED <<maDay, maCache, ranking, advice>>

AdviceInit ==
  /\ maDay = 1
  /\ maCache = <<>>
  /\ ranking = <<>>
  /\ advice = Unknown
  /\ mood = Unknown

AdviceNext ==
  \/ NextMaDay
  \/ \E table \in Stocks, disposition \in SUBSET DOMAIN Closes, failing \in BOOLEAN :
       ScanToDataframe(table, disposition, failing)
  \/ \E m \in MarketTables : GetCurrent(m) \/ Recalculate(m) \/ \E lots \in Nat : Advise(m, lots)

AdviceSpec == AdviceInit /\ [][AdviceNext]_adviceVars

-----------------------------------------------------------------------------
(* Properties *)

\* The advice for the market and for a stock, from the same tables but with
\* different limits and more evidence for the stock, never point in opposite
\* directions when there is a put-call ratio.  (Without one the market's advice
\* counts it as a low one, and they may.)
AdviceAgrees ==
  advice # Unknown /\ FuturesData(advice.tables).ratio # 0
    => advice.market * advice.stock.direction # -1
=============================================================================
