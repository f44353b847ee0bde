------------------------------- MODULE Session -------------------------------
(* One browser session of the Streamlit interface: the pages share the session  *)
(* state below, and the watchlist is also written to settings.local.json, which *)
(* outlives the session.  A click reruns the page from its top.  A later click  *)
(* stops a run at its next access to the session state or to an element, so the *)
(* writes of a handler are a list of which a prefix, of length cut, is done.    *)
EXTENDS PageRules

CONSTANTS
    Default,          \* the built-in list of the radar page
    NotScanned,       \* a market without a scan result
    Unreadable,       \* a settings file cut off by a crash
    Capital,          \* start capital offered by the pages
    Amount,           \* money per stock of a batch
    Faults,           \* TRUE: saving may fail, and a process die while it saves
    Tickers,          \* stock codes
    TopStocks         \* stocks offered by the margin page, at most

ASSUME MoneyAssumption == {Capital, Amount} \subseteq Nat

VARIABLES
    page, market,
    watchlist,        \* session: watchlist_codes
    settings,         \* file: watchlist_codes
    radar,            \* radar_watchlist_input, and the stocks last scanned
    picks,            \* scan result of each market, or NotScanned
    tests,            \* bt_results: what was tested and the account at the end
    recommended,      \* backtest_recommended
    paper             \* pt_started, pt_capital, pt_orders, pt_positions, pt_equity_curve

lists       == <<watchlist, settings, radar, picks>>
trials      == <<tests, recommended>>
sessionVars == <<page, market, lists, trials, paper>>

Markets == {"TW", "US"}
\* The pages of the navigation bar; "paper" is reached from the backtest page.
Pages == {"dashboard", "radar", "screener", "backtest", "margin"}

Elements(s) == {s[i] : i \in 1 .. Len(s)}
\* dict.fromkeys(old + new): the first of equal codes stays.
Merged(old, new) ==
    FoldLeft(LAMBDA l, c : IF c \in Elements(l) THEN l ELSE Append(l, c), <<>>, old \o new)
\* What a loop over codes collects, of those it has made something of.
Collected(codes, made) ==
    FoldLeft(LAMBDA l, c : IF c \in DOMAIN made THEN Append(l, made[c]) ELSE l, <<>>, codes)
Persisted == IF settings = Unreadable THEN <<>> ELSE settings

NewPaper == [started |-> FALSE, capital |-> Capital, orders |-> <<>>, positions |-> <<>>,
             curve |-> <<Capital>>]

NewRadar == [input |-> Default, scanned |-> <<>>]

SessionInit ==
    /\ page = "dashboard" /\ market = "TW" /\ watchlist = <<>> /\ settings = <<>>
    /\ radar = NewRadar /\ picks = [c \in Markets |-> NotScanned]
    /\ tests = <<>> /\ recommended = <<>> /\ paper = NewPaper

\* The page is reloaded or the process restarted: the session state is lost.  A
\* process that dies while it rewrites the file leaves it cut off.
NewSession ==
    /\ page' = "dashboard" /\ market' = "TW" /\ watchlist' = <<>>
    /\ radar' = NewRadar /\ picks' = [c \in Markets |-> NotScanned]
    /\ tests' = <<>> /\ recommended' = <<>> /\ paper' = NewPaper
    /\ settings' \in {settings} \cup (IF Faults /\ settings # <<>> THEN {Unreadable} ELSE {})
-----------------------------------------------------------------------------
(* Radar page: an empty list is restored from the file at every run, and the    *)
(* text is scanned again unless the automatic refresh is off.                   *)
RestoredList == IF watchlist = <<>> THEN Persisted ELSE watchlist

ShowRadarUnrestored ==
    /\ \E s \in {radar.scanned, radar.input} : radar' = [radar EXCEPT !.scanned = s]
    /\ UNCHANGED <<watchlist, settings, picks>>

ShowRadar ==
    /\ watchlist' = RestoredList
    /\ \E s \in {radar.scanned, radar.input} : radar' = [radar EXCEPT !.scanned = s]
    /\ UNCHANGED <<settings, picks>>

\* The return is rounded to hundredths of a percent before it is compared with 0.
Positive ==
    LET start == Capital * 10
        good == SelectSeq(tests, LAMBDA t : FinalValue(t.account, t.history) - start > start \div 20000)
    IN  [i \in 1 .. Len(good) |-> good[i].code]
Compared == Len(tests) >= 2 /\ Positive # <<>>

\* What a page does when it is shown: the radar page restores and scans, the
\* screener scans a market it has no result of.
Shown(p, c, found) ==
    IF p = "radar" THEN ShowRadar
    ELSE IF p = "screener" /\ picks[c] = NotScanned THEN
        picks' = [picks EXCEPT ![c] = found] /\ UNCHANGED <<watchlist, settings, radar>>
    ELSE UNCHANGED lists

Visit(p, found) ==
    /\ page' = p /\ Shown(p, market, found)
    /\ recommended' = IF p = "backtest" /\ Compared THEN Positive ELSE recommended
    /\ UNCHANGED <<market, tests, paper>>

SwitchMarket(c, found) ==
    /\ c # market /\ market' = c /\ Shown(page, c, found)
    /\ UNCHANGED <<page, trials, paper>>

\* The buttons that lead from one page to another.
GoRadar == page = "margin" /\ Visit("radar", NotScanned)
GoPaper == page = "backtest" /\ Compared /\ Visit("paper", NotScanned)

\* The restored list is the one the button offers: the page ran before the click.
LoadWatchlist ==
    /\ page = "radar" /\ watchlist # <<>>
    /\ radar' = [input |-> watchlist, scanned |-> watchlist]
    /\ UNCHANGED <<page, market, watchlist, settings, picks, trials, paper>>

\* The stocks typed into the text field, scanned by the button.
ScanTyped(codes) ==
    /\ page = "radar" /\ codes # <<>> /\ watchlist' = RestoredList
    /\ radar' = [radar EXCEPT !.scanned = codes]
    /\ UNCHANGED <<page, market, settings, picks, trials, paper>>
-----------------------------------------------------------------------------
(* Screener page: a failed scan leaves no result.                               *)
UsRanked(table, sortBy, top) ==
    {SubSeq(r, 1, IF Len(r) < top THEN Len(r) ELSE top) :
        r \in Rankings(DOMAIN table, LAMBDA c : UsKey(table[c], sortBy))}

ScanPicks(found) ==
    /\ page = "screener"
    /\ picks' = [picks EXCEPT ![market] = found]
    /\ UNCHANGED <<page, market, watchlist, settings, radar, trials, paper>>

\* _persist_watchlist swallows a failure; a file it cannot read it cannot write.
Persist(codes) ==
    \/ settings # Unreadable /\ settings' = codes
    \/ (settings = Unreadable \/ Faults) /\ UNCHANGED settings
\* The stocks ticked among those shown, or all of them, join the list.
AddPicks(codes) ==
    /\ page = "screener" /\ picks[market] # NotScanned /\ codes # <<>>
    /\ Elements(codes) \subseteq Elements(picks[market])
    /\ watchlist' = Merged(watchlist, codes) /\ Persist(watchlist')
    /\ UNCHANGED <<page, market, radar, picks, trials, paper>>

ClearWatchlist ==
    /\ page = "screener" /\ watchlist # <<>> /\ picks[market] \notin {NotScanned, <<>>}
    /\ watchlist' = <<>> /\ Persist(<<>>)
    /\ UNCHANGED <<page, market, radar, picks, trials, paper>>

\* Margin page: the list of the session only, nothing is saved.
AddChips(table, ranked, bullish) ==
    LET codes == IF bullish THEN Bullish(table, ranked, TopStocks)
                 ELSE Bearish(table, ranked, TopStocks)
    IN  /\ page = "margin" /\ codes # <<>>
        /\ watchlist' = Merged(watchlist, codes)
        /\ UNCHANGED <<page, market, settings, radar, picks, trials, paper>>
-----------------------------------------------------------------------------
(* Backtest page: histories that cannot be loaded or are too short are skipped, *)
(* and the earlier results stay when none is left.                              *)
RunBacktest(codes, historyOf, strategy) ==
    LET usable == {c \in DOMAIN historyOf : Len(historyOf[c]) >= MinHistory}
        results == Collected(codes, [c \in usable |->
            [code |-> c, history |-> historyOf[c], strategy |-> strategy,
             account |-> QuickTest(historyOf[c], strategy, Capital * 10)]])
    IN  /\ page = "backtest" /\ results # <<>>
        /\ tests' = results
        /\ recommended' = IF Compared' THEN Positive' ELSE recommended
        /\ UNCHANGED <<page, market, lists, paper>>
-----------------------------------------------------------------------------
(* Paper trading page.                                                          *)
BuyOrder(p)     == [side |-> "buy", code |-> p.code, price |-> p.price, lots |-> p.lots, profit |-> 0]
SellOrder(p, price, profit) ==
    [side |-> "sell", code |-> p.code, price |-> price, lots |-> p.lots, profit |-> profit]

OnPaper(started) ==
    /\ page = "paper" /\ paper.started = started
    /\ UNCHANGED <<page, market, lists, trials>>

StartPaper(capital, cut) ==
    /\ OnPaper(FALSE)
    /\ paper' = [paper EXCEPT !.started = cut >= 1,
                              !.capital = IF cut >= 2 THEN capital ELSE @,
                              !.curve   = IF cut >= 3 THEN <<capital>> ELSE @]

StopPaper == OnPaper(TRUE) /\ paper' = [paper EXCEPT !.started = FALSE]

BookedBackwards(bought, cut) ==
    [paper EXCEPT
        !.orders    = @ \o [i \in 1 .. cut \div 2 |-> BuyOrder(bought[i])],
        !.positions = @ \o SubSeq(bought, 1, (cut + 1) \div 2)]

\* Each purchase records its order, then its position.
Booked(bought, cut) ==
    [paper EXCEPT
        !.orders    = @ \o [i \in 1 .. (cut + 1) \div 2 |-> BuyOrder(bought[i])],
        !.positions = @ \o SubSeq(bought, 1, cut \div 2)]

\* Whole lots for the amount; a stock without a quote or too dear is skipped.
Bought(codes, quotes) ==
    LET lots(c) == IF quotes[c] = 0 THEN 0 ELSE Amount \div (quotes[c] * Lot)
    IN  Collected(codes, [c \in {c \in DOMAIN quotes : lots(c) >= 1} |->
            [code |-> c, price |-> quotes[c], lots |-> lots(c)]])

BatchBuy(codes, quotes, cut) ==
    LET bought == Bought(codes, quotes)
    IN  /\ cut \in 0 .. 2 * Len(bought)
        /\ paper' = Booked(bought, cut)

\* The stocks ticked among the watched or the recommended ones.
QuickBuild(codes, quotes, cut) ==
    /\ OnPaper(TRUE) /\ codes # <<>>
    /\ \E offered \in {watchlist, recommended} : Elements(codes) \subseteq Elements(offered)
    /\ BatchBuy(codes, quotes, cut)

ManualBuy(code, price, lots, cut) ==
    /\ OnPaper(TRUE) /\ cut \in 1 .. 2
    /\ paper' = Booked(<<[code |-> code, price |-> price, lots |-> lots]>>, cut)

\* The order, the curve and the position follow each other.
Sell(i, price, cut) ==
    LET p == paper.positions[i]
        profit == (price - p.price) * p.lots * Lot - 3 * price * p.lots
    IN  /\ OnPaper(TRUE) /\ price > 0
        /\ paper' = [paper EXCEPT
               !.orders    = IF cut >= 1 THEN Append(@, SellOrder(p, price, profit)) ELSE @,
               !.curve     = IF cut >= 2 THEN Append(@, Last(@) + profit) ELSE @,
               !.positions = IF cut >= 3 THEN RemoveAt(@, i) ELSE @]

ListClicks ==
    \/ NewSession \/ GoRadar \/ LoadWatchlist \/ ClearWatchlist
    \/ \E found : \/ ScanPicks(found)
                  \/ \E p \in Pages : Visit(p, found)
                  \/ \E c \in Markets : SwitchMarket(c, found)
    \/ \E codes \in Seq(Tickers) : AddPicks(codes) \/ ScanTyped(codes)
    \/ \E table, ranked, bullish : AddChips(table, ranked, bullish)
    \/ \E codes \in Seq(Tickers), loaded \in SUBSET Tickers :
          \E historyOf \in [loaded -> Seq(PriceBars)] :
              \E strategy : RunBacktest(codes, historyOf, strategy)

PaperClicks ==
    \/ GoPaper \/ StopPaper
    \/ \E capital \in Int, cut \in Nat : StartPaper(capital, cut)
    \/ \E codes \in Seq(Tickers), asked \in SUBSET Tickers, cut \in Nat :
          \E quotes \in [asked -> Nat] : QuickBuild(codes, quotes, cut)
    \/ \E code \in Tickers, price, lots \in Nat, cut \in Nat : ManualBuy(code, price, lots, cut)
    \/ \E i \in DOMAIN paper.positions, price \in Nat, cut \in Nat : Sell(i, price, cut)

SessionNext == ListClicks \/ PaperClicks
SessionSpec == SessionInit /\ [][SessionNext]_sessionVars
-----------------------------------------------------------------------------
(* Properties                                                                   *)

\* The radar page brings a saved list back: while it is open, the session is
\* without a list only if the file has none either (p03_radar.py, render).
RadarShowsSaved == page = "radar" /\ watchlist = <<>> => Persisted = <<>>

\* Every holding is explained by purchases: the page never holds more positions
\* of a stock at a price than it recorded buy orders for, however the runs of
\* the page are cut off between the two lists (p13_paper_trading.py).
PositionsHaveOrders ==
    \A p \in Elements(paper.positions) :
        Cardinality({i \in DOMAIN paper.positions : paper.positions[i] = p})
          <= Cardinality({i \in DOMAIN paper.orders : paper.orders[i] = BuyOrder(p)})

\* The gains of some trades on top of another one.
TotalOf(base, gains) == FoldLeft(LAMBDA x, y : x + y, base, gains)

\* The two sets of books of a quick backtest agree: the change of the account
\* is the sum of the profits of its closed trades and of the one still open
\* (p07_backtest.py, _run_simple_backtest).
QuickTestBalances ==
    \A i \in DOMAIN tests :
        LET a == tests[i].account  h == tests[i].history
            open == IF a.lots = 0 THEN 0
                    ELSE a.lots * Last(h).close * 10000 - Spent(a.lots, a.entry)
        IN  FinalValue(a, h) - Capital * 10 = TotalOf(open, a.gains)

\* The file is the lasting copy of the watchlist: it loses a stock only when the
\* user clears the list (p04_screener.py, _persist_watchlist).
AddingLosesNothing ==
    [][settings # Unreadable /\ settings' # Unreadable /\ watchlist' # <<>>
        => Elements(settings) \subseteq Elements(settings')]_sessionVars
=============================================================================
