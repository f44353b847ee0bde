---------------------------- MODULE PaperTrading ----------------------------
(***************************************************************************)
(* The paper-trading engine (atlas/application/paper_trading.py) together  *)
(* with the positions it opens and closes in the portfolio manager         *)
(* (atlas/domain/portfolio.py).                                            *)
(*                                                                         *)
(* The engine is asyncio code: a coroutine runs without interruption up to *)
(* its next await of QuoteAdapter.get_quote, the only call that suspends   *)
(* (the portfolio's coroutines await nothing).  Each action below is one   *)
(* such uninterrupted segment.  The quote that an await returns is any     *)
(* element of Prices, or a failure of every source.                        *)
(*                                                                         *)
(* Money is counted in units of 1/FeeScale, so that the two fee rates are  *)
(* integers and no rounding takes place.                                   *)
(***************************************************************************)
EXTENDS Integers, Sequences

CONSTANTS
  Monitors,        \* coroutines that run check_and_fill_pending
  Prices,          \* what a successful quote may say
  Limits,          \* the limit prices callers use
  Stops, Targets,  \* stop-loss and take-profit prices; None leaves one out
  ShareCounts,     \* order sizes
  Capitals,        \* the capitals start() may be called with
  CommissionRate,  \* per FeeScale of the traded amount
  TaxRate,         \* per FeeScale, on sales only
  FeeScale,
  MaxOrders        \* bound on the orders of a behaviour

\* Python's None for a price, and a quote that no source could deliver.
None == 0

ASSUME PricesAssumption ==
  /\ Prices \subseteq Nat \ {0}
  /\ Limits \subseteq Nat \ {0}
  /\ Stops \subseteq Nat
  /\ Targets \subseteq Nat
ASSUME SizesAssumption ==
  /\ ShareCounts \subseteq Nat \ {0}
  /\ Capitals \subseteq Nat \ {0}
  /\ MaxOrders \in Nat

\* The rates are 0.1425% and 0.3% in the code: a sale brings more than it costs.
ASSUME FeesAssumption ==
  /\ FeeScale \in Nat \ {0}
  /\ CommissionRate \in Nat
  /\ TaxRate \in Nat
  /\ CommissionRate + TaxRate < FeeScale

VARIABLES
  started,    \* _started
  capital,    \* _capital
  available,  \* _available_capital
  orders,     \* every order placed, in order of placement
  book,       \* the orders in _orders
  log,        \* _trade_log, and _filled_orders: one entry per fill
  open,       \* the portfolio's open positions, each named by its buy in log
  closed,     \* the portfolio's _closed
  awaiting,   \* market orders whose place_order awaits a quote
  monitor     \* where each check_and_fill_pending stands

vars == <<started, capital, available, orders, book, log, open, closed,
          awaiting, monitor>>

Sides    == {"buy", "sell"}
Statuses == {"pending", "filled", "cancelled", "rejected"}

\* exits is the position a stop-loss or take-profit sale is placed for: the
\* code keeps it in a local of _check_stop_take.
Order == [side : Sides, shares : Nat \ {0}, limit : Nat, stop : Nat, target : Nat,
          status : Statuses, exits : Nat]
Trade == [order : Nat, price : Nat \ {0}]
Exit  == [position : Nat, price : Nat]

Idle == [pc |-> "idle", cur |-> 0, todo |-> {}, sale |-> 0, seen |-> 0]
MonitorState ==
  [pc : {"idle", "order", "position", "sale"}, cur : Nat, todo : SUBSET Nat,
   sale : Nat, seen : Nat]

NewOrder(side, shares, limit, stop, target, exits) ==
  [side |-> side, shares |-> shares, limit |-> limit, stop |-> stop,
   target |-> target, status |-> "pending", exits |-> exits]

-----------------------------------------------------------------------------
(* Money *)

Cost(o, p)       == p * orders[o].shares * FeeScale
Commission(o, p) == p * orders[o].shares * CommissionRate
Tax(o, p)        == p * orders[o].shares * TaxRate

TotalCost(o, p)   == Cost(o, p) + Commission(o, p)
NetProceeds(o, p) == Cost(o, p) - Commission(o, p) - Tax(o, p)

\* The fee left out of the test.
AffordableWithoutFee(o, p) == Cost(o, p) <= available
Affordable(o, p) == TotalCost(o, p) <= available

\* What a trade adds to the cash account.
CashFlow(o, p) ==
  IF orders[o].side = "buy" THEN -TotalCost(o, p) ELSE NetProceeds(o, p)

-----------------------------------------------------------------------------
(* Filling an order *)

Rejected(o) == [orders EXCEPT ![o].status = "rejected"]
Filled(o)   == [orders EXCEPT ![o].status = "filled"]

\* The cost taken off before the test.
RejectAfterDeducting(o, p) ==
  /\ orders' = Rejected(o)
  /\ available' = available - TotalCost(o, p)
  /\ UNCHANGED <<book, log, open>>
RejectForCapital(o, p) ==
  /\ orders' = Rejected(o)
  /\ UNCHANGED <<available, book, log, open>>

\* The cash moves and the position opens, but no trade is recorded.
ExecuteUnlogged(o, p, gone) ==
  /\ available' = available + CashFlow(o, p)
  /\ orders'    = Filled(o)
  /\ book'      = book \ {o}
  /\ open'      = open \union {Len(log) + 1}
  /\ UNCHANGED log
\* The cash moves, the order leaves the book for the log, a buy opens a
\* position.  gone is the position the caller closes next, if any.
Execute(o, p, gone) ==
  /\ available' = available + CashFlow(o, p)
  /\ orders'    = Filled(o)
  /\ book'      = book \ {o}
  /\ log'       = Append(log, [order |-> o, price |-> p])
  /\ open'      = (IF orders[o].side = "buy" THEN open \union {Len(log) + 1}
                                             ELSE open) \ gone

\* _fill_order
FillOrder(o, p, gone) ==
  IF orders[o].side = "buy" /\ ~Affordable(o, p)
    THEN RejectForCapital(o, p)
    ELSE Execute(o, p, gone)

\* The position a buy in the log opened: its stop defaults to 95% of the
\* entry price.  An integer price is at or below 0.95 * p iff it is at or
\* below this quotient.
DefaultStop(p) == (19 * p) \div 20
PositionStop(i) ==
  LET o == orders[log[i].order] IN
    IF o.stop # None THEN o.stop ELSE DefaultStop(log[i].price)
PositionTarget(i) == orders[log[i].order].target

StopHit(i, p)   == PositionStop(i) # None /\ p <= PositionStop(i)
TargetHit(i, p) == PositionTarget(i) # None /\ p >= PositionTarget(i)
ExitDue(i, p)   == StopHit(i, p) \/ TargetHit(i, p)

\* Without the test that there is a limit at all.
LimitMetOrNone(o, p) ==
  \/ orders[o].side = "buy"  /\ p <= orders[o].limit
  \/ orders[o].side = "sell" /\ p >= orders[o].limit
LimitMet(o, p) ==
  /\ orders[o].limit # None
  /\ \/ orders[o].side = "buy"  /\ p <= orders[o].limit
     \/ orders[o].side = "sell" /\ p >= orders[o].limit

-----------------------------------------------------------------------------
Init ==
  /\ started = FALSE
  /\ capital \in Capitals
  /\ available = capital
  /\ orders = << >>
  /\ book = {}
  /\ log = << >>
  /\ open = {}
  /\ closed = {}
  /\ awaiting = {}
  /\ monitor = [m \in Monitors |-> Idle]

-----------------------------------------------------------------------------
(* The caller's operations *)

\* start(initial_capital): the account is reset only if a capital is given;
\* orders, trades and positions of an earlier run stay.
Start(c) ==
  /\ started' = TRUE
  /\ IF c # None THEN capital' = c /\ available' = c
                 ELSE UNCHANGED <<capital, available>>
  /\ UNCHANGED <<orders, book, log, open, closed, awaiting, monitor>>

Stop ==
  /\ started' = FALSE
  /\ UNCHANGED <<capital, available, orders, book, log, open, closed, awaiting,
                 monitor>>

Place(order) ==
  /\ started
  /\ Len(orders) < MaxOrders
  /\ orders' = Append(orders, order)
  /\ book'   = book \union {Len(orders) + 1}

PlaceLimitOrder(side, shares, limit, stop, target) ==
  /\ Place(NewOrder(side, shares, limit, stop, target, 0))
  /\ UNCHANGED <<started, capital, available, log, open, closed, awaiting,
                 monitor>>

\* place_order of a market order, up to _try_fill_market's await.
PlaceMarketOrder(side, shares, stop, target) ==
  /\ Place(NewOrder(side, shares, None, stop, target, 0))
  /\ awaiting' = awaiting \union {Len(orders) + 1}
  /\ UNCHANGED <<started, capital, available, log, open, closed, monitor>>

\* _try_fill_market resumes with a quote, or with the exception.
MarketQuote(o, p) ==
  /\ o \in awaiting
  /\ awaiting' = awaiting \ {o}
  /\ FillOrder(o, p, {})
  /\ UNCHANGED <<started, capital, closed, monitor>>

\* The exception swallowed: the order stays pending for ever.
MarketQuoteFailsSilently(o) ==
  /\ o \in awaiting
  /\ awaiting' = awaiting \ {o}
  /\ UNCHANGED <<started, capital, available, orders, book, log, open, closed,
                 monitor>>
MarketQuoteFails(o) ==
  /\ o \in awaiting
  /\ awaiting' = awaiting \ {o}
  /\ orders' = Rejected(o)
  /\ UNCHANGED <<started, capital, available, book, log, open, closed, monitor>>

Cancel(o) ==
  /\ o \in book
  /\ orders[o].status = "pending"
  /\ orders' = [orders EXCEPT ![o].status = "cancelled"]
  /\ UNCHANGED <<started, capital, available, book, log, open, closed, awaiting,
                 monitor>>

-----------------------------------------------------------------------------
(* check_and_fill_pending *)

\* The oldest of todo is next: its quote is awaited.
Await(m, pc, todo) ==
  \E x \in todo :
    /\ \A y \in todo : x <= y
    /\ monitor' = [monitor EXCEPT
         ![m] = [Idle EXCEPT !.pc = pc, !.cur = x, !.todo = todo \ {x}]]

EndPass(m) == monitor' = [monitor EXCEPT ![m] = Idle]

\* The snapshot is walked over without taking the position off it.
NextPositionAgain(m, todo) ==
  IF todo = {} THEN EndPass(m)
  ELSE \E x \in todo : monitor' = [monitor EXCEPT
         ![m] = [Idle EXCEPT !.pc = "position", !.cur = x, !.todo = todo]]
\* _check_stop_take goes on with the positions of its snapshot, oldest first.
NextPosition(m, todo) ==
  IF todo = {} THEN EndPass(m) ELSE Await(m, "position", todo)

\* The loop body skips whatever is no longer pending when its turn comes.  No
\* order becomes pending again, so the rest of the snapshot may be filtered at
\* once.
PendingOf(todo, ords) == {o \in todo : ords[o].status = "pending"}

\* The scan goes on with the pending orders of its snapshot, oldest first, and
\* then takes the snapshot of the open positions.
NextOrder(m, todo, ords, positions) ==
  LET left == PendingOf(todo, ords) IN
    IF left = {} THEN NextPosition(m, positions) ELSE Await(m, "order", left)

At(m, pc) == monitor[m].pc = pc

\* A call, up to the first await.
BeginPass(m) ==
  /\ At(m, "idle")
  /\ NextOrder(m, book, orders, open)
  /\ UNCHANGED <<started, capital, available, orders, book, log, open, closed,
                 awaiting>>

\* A quote at the limit arrives for a pending order.  The order is filled
\* without a second look at its status.
OrderFills(m, p) ==
  /\ At(m, "order")
  /\ LimitMet(monitor[m].cur, p)
  /\ FillOrder(monitor[m].cur, p, {})
  /\ NextOrder(m, monitor[m].todo, orders', open')
  /\ UNCHANGED <<started, capital, closed, awaiting>>

\* The quote fails, or does not meet the limit, or the order has none.
OrderKept(m) ==
  /\ At(m, "order")
  /\ NextOrder(m, monitor[m].todo, orders, open)
  /\ UNCHANGED <<started, capital, available, orders, book, log, open, closed,
                 awaiting>>

\* A quote for a position hits its stop or target: place_order of a market
\* sale, up to its own await.  seen is the local `current`.
ExitPlaced(m, p) ==
  /\ At(m, "position")
  /\ ExitDue(monitor[m].cur, p)
  /\ LET i == monitor[m].cur IN
       Place(NewOrder("sell", orders[log[i].order].shares, None, None, None, i))
  /\ monitor' = [monitor EXCEPT ![m].pc = "sale", ![m].seen = p,
                                ![m].sale = Len(orders) + 1]
  /\ UNCHANGED <<started, capital, available, log, open, closed, awaiting>>

\* The same, but the engine was stopped meanwhile: place_order raises, and the
\* exception ends the pass.
ExitRefused(m, p) ==
  /\ At(m, "position")
  /\ ExitDue(monitor[m].cur, p)
  /\ ~started
  /\ EndPass(m)
  /\ UNCHANGED <<started, capital, available, orders, book, log, open, closed,
                 awaiting>>

\* The quote fails, or hits neither stop nor target.
PositionKept(m) ==
  /\ At(m, "position")
  /\ NextPosition(m, monitor[m].todo)
  /\ UNCHANGED <<started, capital, available, orders, book, log, open, closed,
                 awaiting>>

\* The exit recorded at the price of the sale.
ExitAtSalePrice(m, p) == [position |-> monitor[m].cur, price |-> p]
\* The exit is recorded at the price that triggered it.
ExitAt(m, p) == [position |-> monitor[m].cur, price |-> monitor[m].seen]

\* The position left in the portfolio after its sale.
LeavesPosition(m) == {}
\* close_position takes the position out of the portfolio; nothing happens if
\* it is not there any more.
ClosesPosition(m) == {monitor[m].cur} \intersect open

\* The sale's quote arrives: it fills, and the position is closed in the same
\* segment.
ExitFills(m, p) ==
  /\ At(m, "sale")
  /\ FillOrder(monitor[m].sale, p, ClosesPosition(m))
  /\ closed' = IF monitor[m].cur \in open THEN closed \union {ExitAt(m, p)}
                                          ELSE closed
  /\ NextPosition(m, monitor[m].todo)
  /\ UNCHANGED <<started, capital, awaiting>>

\* The position closed although its sale was rejected.
ExitFailsYetCloses(m) ==
  /\ At(m, "sale")
  /\ orders' = Rejected(monitor[m].sale)
  /\ open' = open \ ClosesPosition(m)
  /\ NextPosition(m, monitor[m].todo)
  /\ UNCHANGED <<started, capital, available, book, log, closed, awaiting>>
\* The sale's quote fails: the sale is rejected and the position stays open.
ExitFails(m) ==
  /\ At(m, "sale")
  /\ orders' = Rejected(monitor[m].sale)
  /\ NextPosition(m, monitor[m].todo)
  /\ UNCHANGED <<started, capital, available, book, log, open, closed, awaiting>>

-----------------------------------------------------------------------------
Placement ==
  \E side \in Sides, shares \in ShareCounts, stop \in Stops, target \in Targets :
    \/ PlaceMarketOrder(side, shares, stop, target)
    \/ \E limit \in Limits : PlaceLimitOrder(side, shares, limit, stop, target)

MarketQuoteArrives(o) == MarketQuoteFails(o) \/ \E p \in Prices : MarketQuote(o, p)

MonitorResumes(m) ==
  \/ OrderKept(m)
  \/ PositionKept(m)
  \/ ExitFails(m)
  \/ \E p \in Prices :
       \/ OrderFills(m, p)
       \/ ExitPlaced(m, p)
       \/ ExitRefused(m, p)
       \/ ExitFills(m, p)

Next ==
  \/ \E c \in Capitals \union {None} : Start(c)
  \/ Stop
  \/ Placement
  \/ \E o \in DOMAIN orders : Cancel(o) \/ MarketQuoteArrives(o)
  \/ \E m \in Monitors : BeginPass(m) \/ MonitorResumes(m)

Spec == Init /\ [][Next]_vars

\* An awaited get_quote returns or raises: every source of the chain has a
\* timeout.  Nobody is obliged to call the engine.
Fairness ==
  /\ \A o \in 1 .. MaxOrders : WF_vars(o \in DOMAIN orders /\ MarketQuoteArrives(o))
  /\ \A m \in Monitors : WF_vars(MonitorResumes(m))

FairSpec == Spec /\ Fairness

-----------------------------------------------------------------------------
(* Properties *)

TypeOK ==
  /\ started \in BOOLEAN
  /\ capital \in Nat
  /\ available \in Int
  /\ orders \in Seq(Order)
  /\ book \subseteq DOMAIN orders
  /\ log \in Seq(Trade)
  /\ open \subseteq DOMAIN log
  /\ closed \subseteq Exit
  /\ awaiting \subseteq DOMAIN orders
  /\ monitor \in [Monitors -> MonitorState]

\* The engine never spends what it does not have, whatever interleaving of
\* fills its await points allow: _fill_order tests and deducts, fee included,
\* without suspending.
Solvent == available >= 0

\* The log of trades explains every movement of the cash between two calls of
\* start() with a capital: one new trade per movement, for its exact amount.
CashFollowsLog ==
  [][ IF log' # log
        THEN /\ Len(log') = Len(log) + 1
             /\ SubSeq(log', 1, Len(log)) = log
             /\ LET t == log'[Len(log')] IN
                  available' = available + CashFlow(t.order, t.price)
        ELSE available' # available => available' \in Capitals ]_vars

\* While one coroutine runs check_and_fill_pending, no order is filled twice,
\* although it and the order's own place_order both await quotes for it.
FillsOnce ==
  \A i, j \in DOMAIN log : log[i].order = log[j].order => i = j

\* cancel_order answers True for an order that then stays cancelled.
CancelledStaysCancelled ==
  [][ \A o \in DOMAIN orders :
        orders[o].status = "cancelled" => orders'[o].status = "cancelled" ]_vars

\* The sales _check_stop_take got filled are exactly the exits the portfolio
\* recorded: no position is sold twice, and none is closed unsold.
ExitsMatchSales ==
  /\ \A i, j \in DOMAIN log :
       /\ orders[log[i].order].exits # 0
       /\ orders[log[i].order].exits = orders[log[j].order].exits
       => i = j
  /\ {e.position : e \in closed} =
       {orders[log[i].order].exits : i \in DOMAIN log} \ {0}
  /\ {e.position : e \in closed} \intersect open = {}

\* A position is closed only at a price that reached its stop or its target.
ExitsWereDue == \A e \in closed : ExitDue(e.position, e.price)

\* A market order whose quote is awaited ends filled or rejected, cancelled or
\* not.
MarketOrdersSettle ==
  \A o \in 1 .. MaxOrders :
    o \in awaiting ~>
      o \in DOMAIN orders /\ orders[o].status \in {"filled", "rejected"}

\* A pass over the snapshots ends, whatever callers do meanwhile.
PassEnds == \A m \in Monitors : monitor[m].pc # "idle" ~> monitor[m].pc = "idle"

-----------------------------------------------------------------------------
\* What the engine promises, however its coroutines interleave: an account
\* that buys lots within its balance and gives a lot up only against a sale.
Account == INSTANCE TradingAccount WITH cash <- available, lots <- open
Refinement == Account!Spec
=============================================================================
