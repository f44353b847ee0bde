---------------------------- MODULE TradingRules ----------------------------
(***************************************************************************)
(* The rules that judge one stock, or the market, from a table: the phase  *)
(* of the smart money (atlas/strategy/smart_money_phase.py), the price     *)
(* levels (price_levels.py), the risk of day traders (daytrader_risk.py),  *)
(* the hedge of a position (hedge_strategy.py), the large traders          *)
(* (atlas/infrastructure/taifex_large_trader.py with                       *)
(* atlas/domain/large_trader_analysis.py) and the exchange rate            *)
(* (atlas/domain/fx_factor.py).                                            *)
(*                                                                         *)
(* None of them keeps anything between two calls: a call is a step that    *)
(* leaves its verdict in decision.  Prices are in hundredths, fractions    *)
(* are pairs of a numerator and a positive denominator.                    *)
(***************************************************************************)
EXTENDS Integers, FiniteSets, FiniteSetsExt, Sequences, SequencesExt

CONSTANTS
  Missing,      \* Python's None
  Period,       \* the bars of a volume average, a trend and a concentration (20)
  Spare,        \* the bars above Period a detection needs (5)
  Streak,       \* days of buying that count as a streak (3)
  SwingWindow,  \* bars on each side of a swing (5)
  AtrPeriod,    \* bars of an average true range (14)
  RiskPeriod    \* bars of the volume average of the day traders' risk (5)

VARIABLE decision   \* which rule was asked, about what, and what it said

Exceeds(fraction, n, d) == fraction[1] * d > n * fraction[2]

IsBelow(fraction, n, d) == fraction[1] * d < n * fraction[2]

Percent(fraction, cap) == Min({100, (100 * Max({fraction[1], 0})) \div (fraction[2] * cap)})

AbsOf(x) == IF x < 0 THEN -x ELSE x

Total(s) == FoldLeft(LAMBDA a, b : a + b, 0, s)

LastOf(s, n) == SubSeq(s, Max({1, Len(s) - n + 1}), Len(s))

-----------------------------------------------------------------------------
(* SmartMoneyDetector *)

Ratio(volume, n) ==
  LET before == Total(LastOf(Front(volume), n))
  IN  IF before <= 0 THEN <<1, 1>> ELSE <<n * Last(volume), before>>

\* what the institutions bought net, over all they bought and sold
Concentration(net) ==
  LET recent == LastOf(net, Period)
      moved  == FoldLeft(LAMBDA a, b : a + AbsOf(b), 0, recent)
  IN  IF net = Missing \/ Len(net) < Spare \/ moved = 0 THEN <<0, 1>>
      ELSE <<Total(recent), moved>>

\* The days in a row of the last day's sign; a last day of 0 is a streak of 0.
StreakOf(net) ==
  IF net = Missing \/ net = <<>> THEN 0
  ELSE LET sign == IF Last(net) > 0 THEN 1 ELSE -1
           runs == {k \in 1 .. Len(net) : \A i \in Len(net) - k + 1 .. Len(net) : sign * net[i] > 0}
       IN  sign * Max(runs \union {0})

Trend(close) ==
  LET recent == LastOf(close, Period)
      change == <<Last(recent) - Head(recent), Head(recent)>>
  IN  IF Exceeds(change, 5, 100) THEN "up"
      ELSE IF IsBelow(change, -5, 100) THEN "down" ELSE "sideways"

Phases == <<"accumulation", "shakeout", "markup", "distribution">>

\* what speaks for each phase, in tenths
Evidence(trend, ratio, chips, streak) ==
  LET If(condition, points) == IF condition THEN points ELSE 0
  IN  [accumulation |-> If(trend = "sideways" /\ IsBelow(ratio, 8, 10), 3)
                        + If(Exceeds(chips, 3, 10), 3) + If(streak >= Streak, 2),
       shakeout     |-> If(trend = "down" /\ Exceeds(ratio, 15, 10) /\ chips[1] > 0, 4)
                        + If(trend = "down" /\ IsBelow(ratio, 7, 10), 3),
       markup       |-> If(trend = "up" /\ Exceeds(ratio, 13, 10), 3)
                        + If(trend = "up" /\ streak >= Streak, 3)
                        + If(trend = "up" /\ Exceeds(chips, 3, 10), 2),
       distribution |-> If(trend # "down" /\ Exceeds(ratio, 2, 1)
                             /\ IsBelow(chips, -2, 10), 4)
                        + If(streak <= -Streak, 3)]

\* detect: the first of the phases with the most evidence, if that is enough.
\* The scores of one phase add up to one at the most.
Detect(bars, net) ==
  LET points == Evidence(Trend(bars.close), Ratio(bars.volume, Period),
                         Concentration(net), StreakOf(net))
      most   == Max({points[p] : p \in DOMAIN points})
      first  == CHOOSE i \in DOMAIN Phases :
                  /\ points[Phases[i]] = most
                  /\ \A j \in 1 .. i - 1 : points[Phases[j]] # most
  IN  IF Len(bars.close) < Period + Spare \/ most < 2
      THEN [phase |-> "unknown", confidence |-> 0]
      ELSE [phase |-> Phases[first], confidence |-> most]

\* generate_narrative: how strongly it is put, and the tag of the action
Narrative(result) ==
  [sure |-> result.confidence >= 6,
   tag  |-> CASE result.phase = "accumulation" -> "build_up"
              [] result.phase = "markup"       -> "institutions_act"
              [] result.phase = "distribution" -> "overnight_trade"
              [] OTHER                         -> "wait"]

DetectPhase(bars, net) ==
  LET result == Detect(bars, net)
  IN  decision' = [rule |-> "phase", given |-> <<bars, net>>, result |-> result,
                   narrative |-> Narrative(result)]

-----------------------------------------------------------------------------
(* PriceLevelCalculator *)

\* the highs (sign 1) or the lows (sign -1) that no bar of the window passes
Swings(prices, sign) ==
  {prices[i] : i \in {j \in SwingWindow + 1 .. Len(prices) - SwingWindow :
                        \A k \in j - SwingWindow .. j + SwingWindow :
                          sign * prices[k] <= sign * prices[j]}}

Atr(bars) ==
  LET n        == Len(bars.close)
      range[i \in 2 .. n] ==
        Max({bars.high[i] - bars.low[i], AbsOf(bars.high[i] - bars.close[i - 1]),
             AbsOf(bars.low[i] - bars.close[i - 1])})
  IN  IF n < AtrPeriod + 1 THEN Missing
      ELSE MapThenSumSet(LAMBDA i : range[i], n - AtrPeriod + 1 .. n) \div AtrPeriod

PullbackBuy(support, current, atr) ==
  IF support = Missing         THEN Missing
  ELSE IF atr \in {Missing, 0} THEN support + current \div 200
  ELSE support + atr \div 2

BreakoutBuy(resistance, current, atr) ==
  IF resistance = Missing      THEN Missing
  ELSE IF atr \in {Missing, 0} THEN resistance + (3 * current) \div 1000
  ELSE resistance + (3 * atr) \div 10

StopLoss(support, current, atr) ==
  CASE support # Missing /\ atr \notin {Missing, 0} -> support - atr
    [] support # Missing /\ atr \in {Missing, 0}    -> (98 * support) \div 100
    [] support = Missing /\ atr \notin {Missing, 0} -> current - 2 * atr
    [] OTHER                                        -> Missing

\* the reward over the risk, when both are there and positive
RiskReward(current, stop, resistance) ==
  IF stop \in {Missing, 0} \/ resistance = Missing \/ current <= stop THEN Missing
  ELSE <<resistance - current, current - stop>>

\* calculate; of the supports and the resistances the nearest ones count.
Levels(bars) ==
  LET current     == Last(bars.close)
      supports    == {s \in Swings(bars.low, -1) : s < current}
      resistances == {r \in Swings(bars.high, 1) : r > current}
      support     == IF supports = {} THEN Missing ELSE Max(supports)
      resistance  == IF resistances = {} THEN Missing ELSE Min(resistances)
      atr         == Atr(bars)
      stop        == StopLoss(support, current, atr)
  IN  IF Len(bars.close) < 2 * SwingWindow + 1
      THEN [current |-> current, support |-> Missing, resistance |-> Missing,
            pullback |-> Missing, breakout |-> Missing, stop |-> Missing, reward |-> Missing]
      ELSE [current |-> current, support |-> support, resistance |-> resistance,
            pullback |-> PullbackBuy(support, current, atr),
            breakout |-> BreakoutBuy(resistance, current, atr),
            stop |-> stop, reward |-> RiskReward(current, stop, resistance)]

CalculateLevels(bars) ==
  decision' = [rule |-> "levels", given |-> bars, result |-> Levels(bars)]

-----------------------------------------------------------------------------
(* DaytraderRiskAnalyzer.  bars are the daily bars, lots the net buying of    *)
(* the day, shares the lots in circulation, Missing if they are not known.    *)

VolumeRatio(volume) ==
  IF Len(volume) < 2 THEN <<1, 1>> ELSE Ratio(volume, Min({Len(volume) - 1, RiskPeriod}))

\* Without the shares, five times the volume of a day is taken for them.
Turnover(volume, shares) ==
  LET others == Front(LastOf(volume, 60))
  IN  IF shares \notin {Missing, 0} THEN <<100 * Last(volume), shares>>
      ELSE IF Len(volume) < 2 \/ Total(others) <= 0 THEN <<0, 1>>
      ELSE <<100 * Len(others) * Last(volume), 5 * Total(others)>>

RiskScore(bars, lots, shares) ==
  LET total == lots.foreign + lots.trust + lots.dealer
      swing == <<100 * (Last(bars.high) - Last(bars.low)), Last(bars.low)>>
      both  == Max({lots.foreign, 0}) + Max({lots.dealer, 0})
  IN  (30 * Percent(<<total, 1>>, 5000) + 25 * Percent(VolumeRatio(bars.volume), 3)
       + 20 * Percent(Turnover(bars.volume, shares), 8) + 15 * Percent(swing, 5)
       + 10 * (IF total <= 0 THEN 0 ELSE Percent(<<10 * both, total>>, 8))) \div 100

AnalyzeRisk(bars, lots, shares) ==
  LET score == RiskScore(bars, lots, shares)
  IN  decision' = [rule |-> "risk", given |-> <<bars, lots, shares>>, score |-> score,
                   result |-> IF score >= 70 THEN "high" ELSE IF score >= 40 THEN "middle"
                              ELSE "low"]

-----------------------------------------------------------------------------
(* HedgeStrategyEngine.  basis is the spot price less the futures price as a   *)
(* percentage of the spot price, in tenths; prices of the hedge are per cent   *)
(* of the entry price.                                                         *)

BasisStatus(basis) == IF basis > 5 THEN "premium" ELSE IF basis < -5 THEN "discount" ELSE "flat"

BasisSignal(basis) ==
  IF AbsOf(basis) > 15 THEN "arbitrage" ELSE IF basis < -5 THEN "panic" ELSE "normal"

\* the covariance over the variance of the index, in hundredths
HedgeRatio(covariance, variance, days) ==
  IF days < 2 \/ variance = 0 THEN 100
  ELSE Max({0, Min({300, (100 * covariance) \div variance})})

Sign(x) == IF x > 0 THEN 1 ELSE IF x < 0 THEN -1 ELSE 0

\* combine_chip_futures: the put-call ratio, in tenths, is read against the crowd.
ChipScore(c) ==
  Sign(c.institutional) - Sign(c.margin) + Sign(c.futures)
  + (IF c.openInterest > 0 THEN Sign(c.futures) ELSE 0)
  + (IF c.putCall > 10 THEN 1 ELSE IF c.putCall < 6 THEN -1 ELSE 0)

ChipSignal(c) ==
  [direction |-> IF ChipScore(c) >= 3 THEN 1 ELSE IF ChipScore(c) <= -3 THEN -1 ELSE 0,
   strength  |-> Min({AbsOf(ChipScore(c)), 5})]

Rounded(n, d) == (2 * n + d) \div (2 * d)

FuturesLots(lots, beta, price, spot) ==
  Max({1, Rounded(lots * 1000 * price * beta, spot * 20000)})

\* suggest_hedge.  Who holds the stock of a bullish signal and finds no discount
\* gets the advice of a neutral one.
SuggestHedge(signal, basis, lots, beta, price, spot) ==
  LET cheap  == signal.direction = 1 /\ BasisStatus(basis) = "discount"
      buys   == cheap \/ (signal.direction = 1 /\ lots = 0)
      sells  == signal.direction = -1
      strong == signal.strength >= 4
      reward == IF strong /\ (buys \/ sells) THEN 3 ELSE 2
  IN  [stock   |-> IF buys THEN "BUY" ELSE IF lots > 0 THEN "HOLD" ELSE "NONE",
       futures |-> IF sells \/ cheap THEN "SELL" ELSE "NONE",
       lots    |-> IF sells THEN IF lots > 0 THEN FuturesLots(lots, beta, price, spot) ELSE 1
                   ELSE IF cheap THEN Max({1, Rounded(lots * beta, 100)}) ELSE 0,
       stop    |-> IF sells THEN 105 ELSE 95,
       target  |-> IF sells THEN 100 - 5 * reward ELSE 100 + 5 * reward,
       reward  |-> reward,
       sure    |-> IF cheap \/ buys \/ sells
                     THEN IF (IF cheap THEN AbsOf(basis) > 15 ELSE strong) THEN "HIGH" ELSE "MEDIUM"
                     ELSE "LOW"]

\* generate_report: its warnings, and whether it says to do anything
Report(c, basis, hedge) ==
  [warnings |-> {w \in {"panic", "bearish", "put_call"} :
                   CASE w = "panic"    -> BasisSignal(basis) = "panic"
                     [] w = "bearish"  -> ChipSignal(c).strength >= 4 /\ ChipSignal(c).direction = -1
                     [] w = "put_call" -> c.putCall > 13},
   acts     |-> hedge.stock = "BUY" \/ hedge.futures = "SELL"]

AdviseHedge(c, basis, lots, beta, price, spot) ==
  LET hedge == SuggestHedge(ChipSignal(c), basis, lots, beta, price, spot)
  IN  decision' = [rule |-> "hedge", given |-> <<c, basis, lots>>, result |-> hedge,
                   report |-> Report(c, basis, hedge)]

-----------------------------------------------------------------------------
(* LargeTraderFetcher and LargeTraderAnalyzer.  table has the percentages of  *)
(* the five and the ten largest traders, Missing for a row that is not there. *)

\* The crowd as everybody but the five largest.
RetailBesidesTopFive(table, side) ==
  IF table.top5 = Missing THEN 100 ELSE Max({0, 100 - table.top5[side]})

Top10(table, side) == IF table.top10 = Missing THEN 0 ELSE table.top10[side]

\* everybody but the ten largest
Retail(table, side) == Max({0, 100 - Top10(table, side)})

Leaning(x, limit) == IF x > limit THEN 1 ELSE IF x < -limit THEN -1 ELSE 0

TraderConfidence(difference, sum) ==
  LET base == IF difference <= 1 THEN 20 ELSE IF difference >= 10 THEN 95
              ELSE 20 + (75 * (difference - 1)) \div 9
  IN  Min({100, base + (IF sum > 100 THEN Min({10, (sum - 100) \div 10}) ELSE 0)})

\* fetch and analyze; a table without either row is no verdict.
AnalyzeTraders(table) ==
  LET large == Top10(table, "buy") - Top10(table, "sell")
  IN  decision' = [rule |-> "traders", given |-> table,
                   result |->
                     IF table.top5 = Missing /\ table.top10 = Missing THEN Missing
                     ELSE [large |-> Leaning(large, 2),
                           retail |-> Leaning(Retail(table, "buy") - Retail(table, "sell"), 5),
                           confidence |-> TraderConfidence(AbsOf(large), Top10(table, "buy")
                                                                         + Top10(table, "sell"))]]

-----------------------------------------------------------------------------
(* FxFactorEngine.  short and long are the changes of the rate over 5 and 20  *)
(* days in tenths of a percent, Missing when there are too few rates.         *)

Momentum(short, long) == Max({-1000, Min({1000, 12 * short + 2 * long})})

AnalyzeFx(short, long) ==
  decision' = [rule |-> "fx", given |-> <<short, long>>,
               result |-> IF Missing \in {short, long} THEN [momentum |-> 0, direction |-> 0]
                          ELSE [momentum |-> Momentum(short, long), direction |-> Leaning(short, 5)]]

RulesInit == decision = Missing

TraderRows == {Missing} \union [buy : Int, sell : Int]

\* Any rule may be asked about anything.
RulesNext ==
  \/ \E bars, net : DetectPhase(bars, net)
  \/ \E bars : CalculateLevels(bars)
  \/ \E bars, lots, shares : AnalyzeRisk(bars, lots, shares)
  \/ \E c, basis, lots, beta, price, spot : AdviseHedge(c, basis, lots, beta, price, spot)
  \/ \E five, ten \in TraderRows : AnalyzeTraders([top5 |-> five, top10 |-> ten])
  \/ \E short, long : AnalyzeFx(short, long)

RulesSpec == RulesInit /\ [][RulesNext]_decision

-----------------------------------------------------------------------------
(* Properties *)

\* LargeTraderAnalyzer reads the crowd as a contrary sign, from percentages
\* LargeTraderFetcher has subtracted from 100: large traders who lean to one
\* side never see the crowd chase the same side, whichever rows are missing.
CrowdOpposes ==
  decision # Missing /\ decision.rule = "traders" /\ decision.result # Missing
    => decision.result.large * decision.result.retail # 1
=============================================================================
