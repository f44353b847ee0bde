---------------------------- MODULE BacktestEngine ----------------------------
(***************************************************************************)
(* The backtest engine (atlas/application/backtest_engine.py) at work on   *)
(* the data manager: runs over several codes, the scan of a parameter grid *)
(* and the walk-forward analysis, whose windows are fetched one after the  *)
(* other by a coroutine beside the other callers of the data manager.      *)
(*                                                                         *)
(* What a strategy signals is a constant operator.  Amounts of money are   *)
(* those of one share, in hundredths.  The Sharpe ratio is kept as its     *)
(* square, with its sign: that orders the runs as the ratio does.          *)
(***************************************************************************)
EXTENDS DataManager, Sequences, FiniteSets, Functions, FiniteSetsExt, SequencesExt

CONSTANTS
  Walker,       \* the coroutine of the analysis, one of DMCallers
  CodesTested,  \* the sequence of codes
  Grid,         \* the sequence of parameters, the combinations of the grid
  Signals(_,_), \* generate_signals: for parameters and days, a sequence of
                \* records of type, day and price
  CostRate,     \* total_cost_rate, in thousandths
  MinBars,      \* the bars without which a code is passed over: 20
  Windows,      \* num_windows
  RatioPct      \* in_sample_ratio, in hundredths

ASSUME BTAssumption ==
  /\ Walker \in DMCallers
  /\ {MinBars, Windows} \subseteq Nat \ {0}
  /\ RatioPct \in 0 .. 100
  /\ CostRate \in Nat
  /\ CodesTested \in Seq(StockCodes)
  /\ Grid # <<>> /\ Grid \in Seq(Range(Grid))  \* without parameters, one combination
  /\ \A params \in Range(Grid), days \in SUBSET (0 .. LastDay) :
       Cardinality(days) >= MinBars =>
         Signals(params, days) \in Seq([type : {"BUY", "SELL", "NEUTRAL", "ALERT"},
                                        day : Int, price : Int])

VARIABLES
  btSide,    \* "idle", "in" or "out" of sample
  btWindow,  \* the number of the window at work
  btTurn,    \* which parameters of the grid are at work
  btCode,    \* which code is
  btTrades,  \* the trades of the run so far
  btUsed,    \* history: the days the run could trade on
  btScan,    \* the results of the scan so far
  btResults  \* the WalkForwardResults, as pairs of BacktestResults

btVars == <<btSide, btWindow, btTurn, btCode, btTrades, btUsed, btScan, btResults>>

-----------------------------------------------------------------------------
(* Trades and metrics *)

Flat == [open |-> FALSE, entry |-> 0, since |-> 0, trades |-> <<>>]

\* A position is bought at the first signal to buy and sold at the next one to
\* sell; what is open at the end is not counted.
TradeOn(pos, sig) ==
  CASE sig.type = "BUY" /\ ~pos.open ->
         [pos EXCEPT !.open = TRUE, !.entry = sig.price, !.since = sig.day]
    [] sig.type = "SELL" /\ pos.open ->
         LET cost == ((pos.entry + sig.price) * CostRate) \div 20
         IN  [pos EXCEPT !.open = FALSE, !.trades = Append(@,
                [entry |-> pos.since, exit |-> sig.day,
                 pnl |-> (sig.price - pos.entry) * 100 - cost])]
    [] OTHER -> pos

TradesOf(signals) == FoldLeft(TradeOn, Flat, signals).trades

SumOver(f(_), seq) == FoldLeft(LAMBDA s, x : s + x, 0, [i \in DOMAIN seq |-> f(seq[i])])
Signum(n) == IF n > 0 THEN 1 ELSE IF n < 0 THEN -1 ELSE 0

\* Mean over deviation; the capital cancels, 252 days make a year.
SharpeSquare(trades) ==
  LET n      == Len(trades)
      sum    == SumOver(LAMBDA t : t.pnl, trades)
      spread == n * SumOver(LAMBDA t : t.pnl * t.pnl, trades) - sum * sum
  IN  IF n > 1 /\ spread > 0 THEN Signum(sum) * ((252 * sum * sum) \div spread) ELSE 0

\* The result of a run that is over: the metrics of one that failed, or has not
\* traded, keep their zeros.
ResultOf(params, status, trades, used) ==
  LET done == status = "COMPLETED"
  IN  [params |-> params, status |-> status, used |-> used,
       trades |-> IF done THEN Len(trades) ELSE 0,
       sharpe |-> IF done THEN SharpeSquare(trades) ELSE 0]

-----------------------------------------------------------------------------
(* Windows *)

WindowDays  == LastDay \div Windows
WStart(i)   == i * WindowDays
WEnd(i)     == Min({WStart(i) + WindowDays, LastDay})
SplitDay(i) == WStart(i) + (WindowDays * RatioPct) \div 100

\* The range of the run at work.
From == IF btSide = "in" THEN WStart(btWindow) ELSE SplitDay(btWindow)
\* The tuning may see the whole window.
ToWindowEnd == WEnd(btWindow)
To == IF btSide = "in" THEN SplitDay(btWindow) ELSE WEnd(btWindow)

\* param_scan sorts by Sharpe ratio, the highest first, the sort being stable.
Worst(scan) ==
  scan[Min({i \in DOMAIN scan : \A j \in DOMAIN scan : scan[i].sharpe <= scan[j].sharpe})]
Best(scan) ==
  scan[Min({i \in DOMAIN scan : \A j \in DOMAIN scan : scan[i].sharpe >= scan[j].sharpe})]
Params == IF btSide = "in" THEN Grid[btTurn] ELSE Best(btScan).params

BTInit ==
  /\ btSide = "idle"
  /\ btWindow = 0
  /\ btTurn = 1
  /\ btCode = 1
  /\ btTrades = <<>>
  /\ btUsed = {}
  /\ btScan = <<>>
  /\ btResults = <<>>

-----------------------------------------------------------------------------
Walking == btSide # "idle"

WalkForward ==
  /\ btSide = "idle"
  /\ btResults = <<>>
  /\ btSide' = "in"
  /\ UNCHANGED <<btWindow, btTurn, btCode, btTrades, btUsed, btScan, btResults, dmVars>>

\* run asks for the bars of its next code.
AskForBars ==
  /\ Walking
  /\ btCode <= Len(CodesTested)
  /\ dmCall[Walker].res = "none"
  /\ DMRequest(Walker, "daily", CodesTested[btCode], From, To)
  /\ UNCHANGED <<dmAsked, btVars>>

Answered == dmCall[Walker].pc = "idle" /\ dmCall[Walker].res # "none"
\* The answer is taken.
Taken == dmCall' = [dmCall EXCEPT ![Walker].res = "none", ![Walker].rows = NoRows]

\* Bars enough are tried, fewer are passed over.
TryBars ==
  /\ Walking
  /\ Answered
  /\ dmCall[Walker].res = "rows"
  /\ Taken
  /\ btCode' = btCode + 1
  /\ LET days == DOMAIN dmCall[Walker].rows
     IN  IF Cardinality(days) < MinBars
           THEN UNCHANGED <<btTrades, btUsed>>
           ELSE /\ btTrades' = btTrades \o TradesOf(Signals(Params, days))
                /\ btUsed' = btUsed \union days
  /\ UNCHANGED <<btSide, btWindow, btTurn, btScan, btResults, dmDb, dmCache, dmAsked>>

NextRun ==
  /\ btCode' = 1
  /\ btTrades' = <<>>
  /\ btUsed' = {}

\* A run is over.  Once the grid is through, its best parameters are taken out
\* of sample; then comes the next window.
RunEnds(status) ==
  LET result == ResultOf(Params, status, btTrades, btUsed)
  IN  /\ NextRun
      /\ IF btSide = "in"
           THEN /\ btScan' = Append(btScan, result)
                /\ btSide' = IF btTurn = Len(Grid) THEN "out" ELSE "in"
                /\ btTurn' = IF btTurn = Len(Grid) THEN 1 ELSE btTurn + 1
                /\ UNCHANGED <<btWindow, btResults>>
           ELSE /\ btResults' = Append(btResults, [in |-> Best(btScan), out |-> result])
                /\ btScan' = <<>>
                /\ btWindow' = btWindow + 1
                /\ btSide' = IF btWindow' < Windows THEN "in" ELSE "idle"
                /\ UNCHANGED btTurn

RunCompletes ==
  /\ Walking
  /\ btCode > Len(CodesTested)
  /\ RunEnds("COMPLETED")
  /\ UNCHANGED dmVars
\* The data manager's exception ends the run, with the trades of the codes
\* before, but not the analysis.
RunFails ==
  /\ Walking
  /\ Answered
  /\ dmCall[Walker].res # "rows"
  /\ Taken
  /\ RunEnds("FAILED")
  /\ UNCHANGED <<dmDb, dmCache, dmAsked>>

BTStep == AskForBars \/ TryBars \/ RunCompletes \/ RunFails

BTNext ==
  \/ WalkForward \/ BTStep
  \/ /\ \/ \E c \in DMCallers : DMStep(c)
        \/ \E c \in DMCallers \ {Walker} : DMAsk(c)
        \/ DMExpiry
     /\ UNCHANGED btVars

BTSpec == DMInit /\ BTInit /\ [][BTNext]_<<dmVars, btVars>>

-----------------------------------------------------------------------------
(* Properties *)

\* The parameters of a window are chosen without sight of what they are tried
\* on: no day of the in-sample runs is later than one of the out-of-sample run,
\* or than one of a later window, whatever of it the database had already.
NotAfter(D, E) == \A d \in D, e \in E : d <= e
NoLookAhead ==
  \A i \in DOMAIN btResults :
    /\ NotAfter(btResults[i].in.used, btResults[i].out.used)
    /\ \A j \in i + 1 .. Len(btResults) :
         NotAfter(btResults[i].in.used \union btResults[i].out.used,
                  btResults[j].in.used \union btResults[j].out.used)

\* An out-of-sample run that completes has tried its parameters on the window
\* behind the split, if enough days of it were traded.
OutOfSampleTested ==
  \A i \in DOMAIN btResults :
    LET out    == btResults[i].out
        traded == {d \in Listed(CodesTested[1]) : SplitDay(i - 1) <= d /\ d <= WEnd(i - 1)}
    IN  out.status = "COMPLETED" /\ Cardinality(traded) >= MinBars => out.used # {}
=============================================================================
