------------------------------ MODULE PageRules ------------------------------
(* The rules the pages of the web interface compute themselves: the chip        *)
(* score of the margin page (p17), the technical score of the US screener (p04) *)
(* and the quick backtest of the backtest page (p07).  Amounts are integers;    *)
(* the money of a quick backtest is counted in tenths, so that a fee in ten-    *)
(* thousandths of a whole lot of 1000 shares is exact.                          *)
EXTENDS Integers, Sequences, FiniteSets, SequencesExt

CONSTANTS
    FeeRate, TaxRate, \* in ten-thousandths
    MinHistory        \* a shorter history is refused: 30

ASSUME FeesAndHistoryAssumption == {FeeRate, TaxRate} \subseteq Nat /\ MinHistory \in Nat \ {0}

Lot == 1000
-----------------------------------------------------------------------------
(* p17: a row of the combined table is [margin, short: balances, bought, sold:  *)
(* margin traded today, net, foreign: institutional flow].                      *)
MarginChange(r) == r.bought - r.sold

RatioPoints(r) ==
    IF r.margin <= 0 THEN -10
    ELSE IF r.short * 100 > 30 * r.margin THEN 30
    ELSE IF r.short * 100 > 20 * r.margin THEN 15
    ELSE IF r.short * 100 < 3 * r.margin THEN -10 ELSE 0

MarginPoints(change) ==
    IF change < -500 THEN 20 ELSE IF change < -100 THEN 10
    ELSE IF change > 1000 THEN -20 ELSE IF change > 300 THEN -10 ELSE 0

FlowPoints(r) ==
    (IF r.net > 3000 THEN 25 ELSE IF r.net > 500 THEN 10
     ELSE IF r.net < -3000 THEN -25 ELSE IF r.net < -500 THEN -10 ELSE 0)
    + (IF r.foreign > 2000 THEN 10 ELSE IF r.foreign < -2000 THEN -10 ELSE 0)

MarginScore(r) == RatioPoints(r) + MarginPoints(MarginChange(r)) + FlowPoints(r)

\* The orders in which a list may come out when it is sorted by falling key:
\* equal keys come in any order.
Rankings(codes, Key(_)) ==
    {s \in SetToSeqs(codes) : \A i \in 1 .. Len(s) - 1 : Key(s[i]) >= Key(s[i + 1])}

\* The stocks offered as bullish and as bearish, at most `top` of each.  Both are
\* taken from the front of the one ranking, so the bearish ones are those
\* closest to neutral.
Bullish(table, ranked, top) ==
    LET good == SelectSeq(ranked, LAMBDA c : MarginScore(table[c]) > 0)
    IN  SubSeq(good, 1, IF Len(good) < top THEN Len(good) ELSE top)
Bearish(table, ranked, top) ==
    LET bad == SelectSeq(ranked, LAMBDA c : MarginScore(table[c]) < 0)
    IN  Reverse(SubSeq(bad, 1, IF Len(bad) < top THEN Len(bad) ELSE top))

\* Only stocks with 100 lots on margin are analysed.
Analysed(table) == {c \in DOMAIN table : table[c].margin >= 100}
-----------------------------------------------------------------------------
(* p04: a US stock is [momentum, rsi, ma8, ma21, ma55, macd, volume, usual].    *)
Clipped(low, x, high) == IF x < low THEN low ELSE IF x > high THEN high ELSE x

UsScore(s) ==
    Clipped(-30, 3 * s.momentum, 30)
    + (IF 40 <= s.rsi /\ s.rsi <= 60 THEN 10
       ELSE IF s.rsi < 30 THEN 20 ELSE IF s.rsi > 70 THEN -10 ELSE 0)
    + (IF s.ma8 > s.ma21 /\ s.ma21 > s.ma55 /\ s.ma55 > 0 THEN 20
       ELSE IF s.ma8 < s.ma21 /\ s.ma21 < s.ma55 /\ s.ma55 > 0 THEN -10 ELSE 0)
    + (IF s.macd > 0 THEN 10 ELSE IF s.macd < 0 THEN -5 ELSE 0)
    + (IF s.usual > 0 /\ 2 * s.volume > 3 * s.usual THEN 10 ELSE 0)

Distance(a, b) == IF a > b THEN a - b ELSE b - a

UsKey(s, sortBy) ==
    CASE sortBy = "momentum" -> s.momentum
      [] sortBy = "rsi"      -> -Distance(s.rsi, 50)
      [] sortBy = "volume"   -> IF s.usual > 0 THEN (100 * s.volume) \div s.usual ELSE 100
      [] OTHER               -> UsScore(s)
-----------------------------------------------------------------------------
(* p07: a history is a sequence of bars [close, spread: MA8 - MA21, hist, rsi,  *)
(* ma: MA21, surge: volume above 1.3 times its mean].                           *)
PriceBars == [close : Nat \ {0}, spread : Int, hist : Int, rsi : Int, ma : Int, surge : BOOLEAN]

Crosses(h, i, Buy(_), Sell(_)) ==
    IF Buy(h[i]) /\ ~Buy(h[i - 1]) THEN 1
    ELSE IF Sell(h[i]) /\ ~Sell(h[i - 1]) THEN -1 ELSE 0

Granville(h, i) ==
    LET b == h[i]  a == h[i - 1]
        near == 50 * Distance(a.close, a.ma) < a.ma
    IN  IF b.ma <= a.ma /\ b.close < b.ma /\ ~(a.close < a.ma) THEN -1
        ELSE IF b.ma > a.ma /\ near /\ b.close > a.close THEN 1 ELSE 0

\* The institutional strategy is replaced by a cross of the averages on volume.
FlowSignal(h, i) ==
    LET s == IF i = 1 THEN 0
             ELSE Crosses(h, i, LAMBDA b : b.spread > 0, LAMBDA b : b.spread < 0)
    IN  IF s = 1 /\ ~h[i].surge THEN 0 ELSE s

Signal(h, i, strategy) ==
    IF i = 1 THEN 0
    ELSE CASE strategy = "ma_cross"   -> Crosses(h, i, LAMBDA b : b.spread > 0, LAMBDA b : b.spread < 0)
           [] strategy = "rsi_revert" -> Crosses(h, i, LAMBDA b : b.rsi < 30, LAMBDA b : b.rsi > 70)
           [] strategy = "macd_cross" -> Crosses(h, i, LAMBDA b : b.hist > 0, LAMBDA b : b.hist < 0)
           [] strategy = "granville"  -> Granville(h, i)
           [] OTHER                   -> 0

\* Whole lots for 95 % of the capital.
LotsFor(capital, close) == (capital * 95) \div (Lot * 1000 * close)
Spent(lots, close)      == lots * close * (10000 + FeeRate)
Revenue(lots, close)    == lots * close * (10000 - FeeRate - TaxRate)
GainWithoutBuyFee(lots, entry, close) == Revenue(lots, close) - lots * entry * 10000
Gain(lots, entry, close)              == Revenue(lots, close) - Spent(lots, entry)

\* One bar of the loop over the history: the account is [capital, lots, entry,
\* gains: the profit of every closed trade].
Bar(account, close, signal) ==
    IF signal = 1 /\ account.lots = 0 /\ LotsFor(account.capital, close) >= 1 THEN
        LET n == LotsFor(account.capital, close)
        IN  [account EXCEPT !.capital = @ - Spent(n, close), !.lots = n, !.entry = close]
    ELSE IF signal = -1 /\ account.lots > 0 THEN
        [account EXCEPT !.capital = @ + Revenue(account.lots, close), !.lots = 0,
                        !.gains = Append(@, Gain(account.lots, account.entry, close))]
    ELSE account

Loop(h, signals, capital) ==
    FoldLeft(LAMBDA account, i : Bar(account, h[i].close, signals[i]),
             [capital |-> capital, lots |-> 0, entry |-> 0, gains |-> <<>>],
             [i \in DOMAIN h |-> i])

SimpleBacktest(h, strategy, capital) ==
    Loop(h, [i \in DOMAIN h |-> Signal(h, i, strategy)], capital)

InstitutionalBacktest(h, capital) ==
    Loop(h, [i \in DOMAIN h |-> FlowSignal(h, i)], capital)

QuickTest(h, strategy, capital) ==
    IF strategy = "institutional" THEN InstitutionalBacktest(h, capital)
                                  ELSE SimpleBacktest(h, strategy, capital)

FinalValue(account, h) == account.capital + account.lots * Last(h).close * 10000
=============================================================================
