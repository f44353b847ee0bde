------------------------- MODULE PaperTradingProofs -------------------------
(***************************************************************************)
(* Theorems about the paper-trading engine, for any number of orders and   *)
(* of concurrent check_and_fill_pending coroutines, any prices and rates.  *)
(***************************************************************************)
EXTENDS PaperTrading, TLAPS, SequenceTheorems

-----------------------------------------------------------------------------
(* Money *)

\* Products of naturals are naturals, and a larger rate takes more.
LEMMA Products ==
  ASSUME NEW a \in Nat \ {0}, NEW b \in Nat \ {0}
  PROVE  /\ a * b \in Nat \ {0}
         /\ \A c \in Nat : a * b * c \in Nat
         /\ \A c, d \in Nat : c < d => a * b * c < a * b * d
<1>1. a * b \in Nat \ {0}
  BY SMT
<1>2. \A x \in Nat \ {0}, c \in Nat : x * c \in Nat
  BY SMT
<1>3. \A x \in Nat \ {0}, c, d \in Nat : c < d => x * c < x * d
  BY SMT
<1> QED
  BY <1>1, <1>2, <1>3

\* What a fill moves: a purchase costs something, a sale brings something.
LEMMA Amounts ==
  ASSUME orders \in Seq(Order), NEW o \in DOMAIN orders, NEW p \in Nat \ {0}
  PROVE  /\ TotalCost(o, p) \in Nat \ {0}
         /\ NetProceeds(o, p) \in Nat \ {0}
<1> DEFINE n == p * orders[o].shares
<1>1. orders[o].shares \in Nat \ {0}
  <2>1. orders[o] \in Order
    OBVIOUS
  <2> QED
    BY <2>1 DEF Order
<1>2. n \in Nat \ {0}
  BY <1>1, Products
<1>3. /\ n * FeeScale \in Nat
      /\ n * CommissionRate \in Nat
      /\ n * TaxRate \in Nat
  BY <1>1, Products, FeesAssumption
<1>4. n * (CommissionRate + TaxRate) < n * FeeScale
  <2>1. CommissionRate + TaxRate \in Nat /\ CommissionRate + TaxRate < FeeScale
    BY FeesAssumption
  <2> QED
    BY <2>1, <1>1, Products, FeesAssumption
<1>5. n * (CommissionRate + TaxRate) = n * CommissionRate + n * TaxRate
  BY <1>2, FeesAssumption, SMT
<1>6. n * 0 < n * FeeScale
  BY <1>1, Products, FeesAssumption
<1>7. n * 0 = 0
  BY <1>2
<1> HIDE DEF n
<1>8. /\ n * FeeScale + n * CommissionRate \in Nat \ {0}
      /\ n * FeeScale - n * CommissionRate - n * TaxRate \in Nat \ {0}
  BY <1>3, <1>4, <1>5, <1>6, <1>7
<1> QED
  BY <1>8 DEF n, TotalCost, NetProceeds, Cost, Commission, Tax

-----------------------------------------------------------------------------
(* The inductive invariant: besides the types, every trade is of an order  *)
(* that exists, and a suspended pass refers only to orders and positions   *)
(* that exist.  A pass that awaits the quote of an exit has seen the price *)
(* that made it due.                                                       *)

PassOK(m) ==
  LET s == monitor[m] IN
    /\ s.pc = "order"    => s.cur \in DOMAIN orders /\ s.todo \subseteq DOMAIN orders
    /\ s.pc = "position" => s.cur \in DOMAIN log /\ s.todo \subseteq DOMAIN log
    /\ s.pc = "sale"     => /\ s.cur \in DOMAIN log /\ s.todo \subseteq DOMAIN log
                            /\ s.sale \in DOMAIN orders
                            /\ orders[s.sale].side = "sell"
                            /\ ExitDue(s.cur, s.seen)

ExitsOK == \A e \in closed : e.position \in DOMAIN log /\ ExitDue(e.position, e.price)

TradesOK == \A i \in DOMAIN log : log[i].order \in DOMAIN orders

IInv ==
  /\ TypeOK
  /\ Solvent
  /\ TradesOK
  /\ ExitsOK
  /\ \A m \in Monitors : PassOK(m)

\* Orders keep what they were placed with, trades are never rewritten: what a
\* suspended coroutine remembers of them stays true.
OrdersKept ==
  /\ orders' \in Seq(Order)
  /\ DOMAIN orders \subseteq DOMAIN orders'
  /\ \A o \in DOMAIN orders : /\ orders'[o].side = orders[o].side
                              /\ orders'[o].stop = orders[o].stop
                              /\ orders'[o].target = orders[o].target

LogKept ==
  /\ log' \in Seq(Trade)
  /\ DOMAIN log \subseteq DOMAIN log'
  /\ \A i \in DOMAIN log : log'[i] = log[i]

\* The cash and the lots move as the trading account allows.
AccountMoves ==
  \/ available' = available /\ open' = open
  \/ Account!Buy
  \/ Account!Sell

\* A change of status keeps everything else of the orders.
LEMMA StatusChange ==
  ASSUME orders \in Seq(Order), NEW o \in DOMAIN orders, NEW st \in Statuses,
         orders' = [orders EXCEPT ![o].status = st]
  PROVE  OrdersKept /\ DOMAIN orders' = DOMAIN orders
<1> DEFINE new == [orders[o] EXCEPT !.status = st]
<1>1. orders[o] \in Order
  OBVIOUS
<1>2. /\ new \in Order
      /\ new.side = orders[o].side
      /\ new.stop = orders[o].stop
      /\ new.target = orders[o].target
  BY <1>1 DEF Order
<1>3. orders' = [orders EXCEPT ![o] = new]
  OBVIOUS
<1> HIDE DEF new
<1>4. /\ orders' \in Seq(Order)
      /\ Len(orders') = Len(orders)
      /\ \A i \in 1 .. Len(orders) : orders'[i] = IF i = o THEN new ELSE orders[i]
  BY <1>2, <1>3, ExceptSeq, LenProperties
<1> QED
  BY <1>2, <1>4, LenProperties DEF OrdersKept

\* A new order goes to the end and keeps the others.
LEMMA Placing ==
  ASSUME orders \in Seq(Order), book \subseteq DOMAIN orders,
         NEW order \in Order, Place(order)
  PROVE  /\ OrdersKept
         /\ Len(orders) + 1 \in DOMAIN orders'
         /\ orders'[Len(orders) + 1] = order
         /\ book' \subseteq DOMAIN orders'
<1>1. orders' = Append(orders, order) /\ book' = book \union {Len(orders) + 1}
  BY DEF Place
<1>2. /\ orders' \in Seq(Order)
      /\ Len(orders') = Len(orders) + 1
      /\ \A i \in 1 .. Len(orders) : orders'[i] = orders[i]
      /\ orders'[Len(orders) + 1] = order
  BY <1>1, AppendProperties
<1> QED
  BY <1>1, <1>2, LenProperties DEF OrdersKept

\* The stops and targets of a position do not change, nor does the verdict.
LEMMA ExitDueStable ==
  ASSUME OrdersKept, LogKept, TradesOK, NEW i \in DOMAIN log, NEW p
  PROVE  ExitDue(i, p)' <=> ExitDue(i, p)
BY DEF OrdersKept, LogKept, TradesOK, ExitDue, StopHit, TargetHit, PositionStop,
       PositionTarget

\* What _fill_order does to the engine's state, whatever its caller goes on
\* to close: gone is nothing, or one open position after a sale.
LEMMA Filling ==
  ASSUME TypeOK, Solvent, TradesOK,
         NEW o \in DOMAIN orders, NEW p \in Prices, NEW gone,
         \A x, y \in gone : x = y,
         gone # {} => orders[o].side = "sell",
         FillOrder(o, p, gone)
  PROVE  /\ OrdersKept /\ LogKept /\ TradesOK'
         /\ available' \in Int /\ Solvent'
         /\ book' \subseteq DOMAIN orders'
         /\ open' \subseteq DOMAIN log'
         /\ AccountMoves
<1> USE DEF TypeOK, Solvent
<1>1. p \in Nat \ {0}
  BY PricesAssumption
<1>2. TotalCost(o, p) \in Nat \ {0} /\ NetProceeds(o, p) \in Nat \ {0}
  BY <1>1, Amounts
<1>3. CASE orders[o].side = "buy" /\ ~Affordable(o, p)
  <2>1. /\ orders' = [orders EXCEPT ![o].status = "rejected"]
        /\ UNCHANGED <<available, book, log, open>>
    BY <1>3 DEF FillOrder, RejectForCapital, Rejected
  <2>2. OrdersKept /\ DOMAIN orders' = DOMAIN orders
    BY <2>1, StatusChange DEF Statuses
  <2> QED
    BY <2>1, <2>2 DEF LogKept, TradesOK, AccountMoves
<1>4. CASE ~(orders[o].side = "buy" /\ ~Affordable(o, p))
  <2> DEFINE t == [order |-> o, price |-> p]
  <2>1. Execute(o, p, gone)
    BY <1>4 DEF FillOrder
  <2>2. OrdersKept /\ DOMAIN orders' = DOMAIN orders
    BY <2>1, StatusChange DEF Execute, Filled, Statuses
  <2>3. t \in Trade
    BY <1>1, LenProperties DEF Trade
  <2>4. /\ log' \in Seq(Trade)
        /\ Len(log') = Len(log) + 1
        /\ \A i \in 1 .. Len(log) : log'[i] = log[i]
        /\ log'[Len(log) + 1] = t
    BY <2>1, <2>3, AppendProperties DEF Execute
  <2>5. DOMAIN log = 1 .. Len(log) /\ DOMAIN log' = 1 .. Len(log) + 1 /\ Len(log) \in Nat
    BY <2>4, LenProperties
  <2>6. LogKept
    BY <2>4, <2>5 DEF LogKept
  <2>7. TradesOK'
    <3> SUFFICES ASSUME NEW i \in DOMAIN log' PROVE log'[i].order \in DOMAIN orders'
      BY DEF TradesOK
    <3>1. CASE i \in DOMAIN log
      BY <3>1, <2>2, <2>4, <2>5 DEF TradesOK
    <3>2. CASE i = Len(log) + 1
      BY <3>2, <2>2, <2>4
    <3> QED
      BY <3>1, <3>2, <2>5
  <2>8. /\ available' \in Nat
        /\ open' \subseteq DOMAIN log'
        /\ AccountMoves
    <3>1. CASE orders[o].side = "buy"
      <4>1. gone = {}
        BY <3>1
      <4>2. available' = available - TotalCost(o, p) /\ TotalCost(o, p) <= available
        BY <1>2, <1>4, <2>1, <3>1 DEF Execute, CashFlow, Affordable
      <4>3. open' = open \union {Len(log) + 1}
        BY <2>1, <3>1, <4>1 DEF Execute
      <4>4. Len(log) + 1 \notin open
        BY <2>5
      <4>5. available' \in Nat /\ available' < available
        BY <1>2, <4>2
      <4>6. Account!Buy
        BY <4>3, <4>4, <4>5 DEF Account!Buy
      <4> QED
        BY <2>5, <4>3, <4>5, <4>6 DEF AccountMoves
    <3>2. CASE orders[o].side # "buy"
      <4>1. available' = available + NetProceeds(o, p)
        BY <2>1, <3>2 DEF Execute, CashFlow
      <4>2. open' = open \ gone
        BY <2>1, <3>2 DEF Execute
      <4>3. available' \in Nat /\ available' > available
        BY <1>2, <4>1
      <4>4. Account!Sell
        BY <4>2, <4>3 DEF Account!Sell
      <4> QED
        BY <2>5, <4>2, <4>3, <4>4 DEF AccountMoves
    <3> QED
      BY <3>1, <3>2
  <2>9. book' \subseteq DOMAIN orders'
    BY <2>1, <2>2 DEF Execute
  <2> QED
    BY <2>2, <2>6, <2>7, <2>8, <2>9
<1> QED
  BY <1>3, <1>4

\* A pass that waits while others move the state still refers to what exists.
LEMMA PassStable ==
  ASSUME TypeOK, TradesOK, OrdersKept, LogKept, NEW m \in Monitors, PassOK(m),
         monitor'[m] = monitor[m]
  PROVE  PassOK(m)'
<1> DEFINE s == monitor[m]
<1>1. DOMAIN orders \subseteq DOMAIN orders' /\ DOMAIN log \subseteq DOMAIN log'
  BY DEF OrdersKept, LogKept
<1>2. s.pc = "sale" => orders'[s.sale].side = "sell" /\ ExitDue(s.cur, s.seen)'
  <2> SUFFICES ASSUME s.pc = "sale"
               PROVE  orders'[s.sale].side = "sell" /\ ExitDue(s.cur, s.seen)'
    OBVIOUS
  <2>1. /\ s.cur \in DOMAIN log
        /\ s.sale \in DOMAIN orders
        /\ orders[s.sale].side = "sell"
        /\ ExitDue(s.cur, s.seen)
    BY DEF PassOK
  <2>2. orders'[s.sale].side = "sell"
    BY <2>1 DEF OrdersKept
  <2>3. LET i == s.cur q == s.seen IN ExitDue(i, q)'
    BY <2>1, ExitDueStable
  <2> QED
    BY <2>2, <2>3
<1> QED
  BY <1>1, <1>2 DEF PassOK
\* Going on to the next position, the next order, or ending the pass.
OnlyMoves(m) ==
  /\ monitor' \in [Monitors -> MonitorState]
  /\ \A n \in Monitors \ {m} : monitor'[n] = monitor[n]
  /\ PassOK(m)'

\* A pass that ends moves no other pass.
LEMMA Ending ==
  ASSUME TypeOK, NEW m \in Monitors, EndPass(m)
  PROVE  OnlyMoves(m)
BY DEF TypeOK, EndPass, Idle, MonitorState, OnlyMoves, PassOK

\* A pass that awaits its next order or position moves no other pass.
LEMMA AwaitingNext ==
  ASSUME TypeOK, NEW m \in Monitors, NEW pc \in {"order", "position"},
         NEW todo, Await(m, pc, todo),
         pc = "order" => todo \subseteq DOMAIN orders',
         pc = "position" => todo \subseteq DOMAIN log',
         orders' \in Seq(Order), log' \in Seq(Trade)
  PROVE  OnlyMoves(m)
<1>1. PICK x \in todo :
        monitor' = [monitor EXCEPT
          ![m] = [Idle EXCEPT !.pc = pc, !.cur = x, !.todo = todo \ {x}]]
  BY DEF Await
<1> DEFINE s == [Idle EXCEPT !.pc = pc, !.cur = x, !.todo = todo \ {x}]
<1>2. DOMAIN orders' = 1 .. Len(orders') /\ DOMAIN log' = 1 .. Len(log')
  BY LenProperties
<1>3. todo \subseteq Nat
  BY <1>2
<1>4. /\ s \in MonitorState
      /\ s.pc = pc /\ s.cur = x /\ s.todo = todo \ {x}
  BY <1>3 DEF Idle, MonitorState
<1>5. monitor' = [monitor EXCEPT ![m] = s]
  BY <1>1
<1> HIDE DEF s
<1>6. /\ monitor' \in [Monitors -> MonitorState]
      /\ monitor'[m] = s
      /\ \A n \in Monitors \ {m} : monitor'[n] = monitor[n]
  BY <1>4, <1>5 DEF TypeOK
<1> QED
  BY <1>4, <1>6 DEF OnlyMoves, PassOK

\* Going on with the snapshot of the positions moves no other pass.
LEMMA ResumingPositions ==
  ASSUME TypeOK, NEW m \in Monitors, NEW todo, NextPosition(m, todo),
         todo \subseteq DOMAIN log',
         orders' \in Seq(Order), log' \in Seq(Trade)
  PROVE  OnlyMoves(m)
BY Ending, AwaitingNext DEF NextPosition

\* Going on with the snapshot of the orders moves no other pass.
LEMMA ResumingOrders ==
  ASSUME TypeOK, NEW m \in Monitors, NEW todo, NEW ords, NEW positions,
         NextOrder(m, todo, ords, positions),
         todo \subseteq DOMAIN orders', positions \subseteq DOMAIN log',
         orders' \in Seq(Order), log' \in Seq(Trade)
  PROVE  OnlyMoves(m)
<1> DEFINE left == PendingOf(todo, ords)
<1>1. left \subseteq todo
  BY DEF PendingOf
<1>2. \/ NextPosition(m, positions)
      \/ Await(m, "order", left)
  BY DEF NextOrder
<1> HIDE DEF left
<1> QED
  BY <1>1, <1>2, ResumingPositions, AwaitingNext

-----------------------------------------------------------------------------
\* A new engine satisfies the inductive invariant.
LEMMA Initially == Init => IInv
<1> SUFFICES ASSUME Init PROVE IInv
  OBVIOUS
<1>1. TypeOK
  <2>1. orders \in Seq(Order) /\ log \in Seq(Trade)
    BY EmptySeq DEF Init
  <2>2. Idle \in MonitorState
    BY DEF Idle, MonitorState
  <2>3. monitor \in [Monitors -> MonitorState]
    BY <2>2 DEF Init
  <2>4. started \in BOOLEAN
    BY DEF Init
  <2>5. /\ capital \in Nat /\ available \in Int
        /\ book \subseteq DOMAIN orders /\ open \subseteq DOMAIN log
        /\ closed \subseteq Exit /\ awaiting \subseteq DOMAIN orders
    BY SizesAssumption DEF Init
  <2> QED
    BY <2>1, <2>3, <2>4, <2>5 DEF TypeOK
<1>2. Solvent
  BY SizesAssumption DEF Init, Solvent
<1>3. TradesOK /\ ExitsOK
  BY DEF Init, TradesOK, ExitsOK
<1>4. \A m \in Monitors : PassOK(m)
  BY DEF Init, Idle, PassOK
<1> QED
  BY <1>1, <1>2, <1>3, <1>4 DEF IInv

\* The exits of the portfolio stay due.
LEMMA ExitsStable ==
  ASSUME OrdersKept, LogKept, TradesOK, ExitsOK, closed' = closed
  PROVE  ExitsOK'
BY ExitDueStable DEF ExitsOK, LogKept

\* A step of one pass leaves the others in order.
LEMMA OtherPasses ==
  ASSUME IInv, OrdersKept, LogKept, NEW m \in Monitors, OnlyMoves(m)
  PROVE  \A n \in Monitors : PassOK(n)'
BY PassStable DEF IInv, OnlyMoves

\* A step of no pass leaves them all in order.
LEMMA AllPasses ==
  ASSUME IInv, OrdersKept, LogKept, monitor' = monitor
  PROVE  \A n \in Monitors : PassOK(n)'
BY PassStable DEF IInv

\* Every step keeps the invariant and moves the account as it may.  What is
\* left of a step once this is known: the account's own variables.
LEMMA Step ==
  ASSUME IInv, Next
  PROVE  IInv' /\ (AccountMoves \/ Account!Reopen)
<1> USE DEF TypeOK
<1>0. TypeOK /\ Solvent /\ TradesOK /\ ExitsOK /\ \A m \in Monitors : PassOK(m)
  BY DEF IInv
<1>a. ASSUME OrdersKept, UNCHANGED <<log, open, closed, monitor>>
      PROVE  /\ LogKept /\ TradesOK' /\ ExitsOK' /\ \A m \in Monitors : PassOK(m)'
             /\ open' \subseteq DOMAIN log' /\ closed' \subseteq Exit
             /\ monitor' \in [Monitors -> MonitorState]
  <2>1. LogKept
    BY <1>0, <1>a DEF LogKept
  <2>2. TradesOK'
    BY <1>0, <1>a DEF TradesOK, OrdersKept
  <2> QED
    BY <1>0, <1>a, <2>1, <2>2, ExitsStable, AllPasses
<1>b. ASSUME UNCHANGED orders
      PROVE  OrdersKept /\ DOMAIN orders' = DOMAIN orders
  BY <1>0, <1>b DEF OrdersKept
<1>1. ASSUME NEW c \in Capitals \union {None}, Start(c)
      PROVE  IInv' /\ (AccountMoves \/ Account!Reopen)
  <2>1. /\ started' = TRUE
        /\ UNCHANGED <<orders, book, log, open, closed, awaiting, monitor>>
    BY <1>1 DEF Start
  <2>2. \/ capital' \in Capitals /\ available' = capital'
        \/ capital' = capital /\ available' = available
    BY <1>1 DEF Start
  <2>3. /\ capital' \in Nat /\ available' \in Int /\ Solvent'
    <3>1. CASE capital' \in Capitals /\ available' = capital'
      BY <3>1, SizesAssumption DEF Solvent
    <3>2. CASE capital' = capital /\ available' = available
      BY <1>0, <3>2 DEF Solvent
    <3> QED
      BY <2>2, <3>1, <3>2
  <2>4. started' \in BOOLEAN
    BY <2>1
  <2>5. IInv'
    BY <1>0, <1>a, <1>b, <2>1, <2>3, <2>4 DEF IInv
  <2>6. AccountMoves \/ Account!Reopen
    BY <2>1, <2>2 DEF AccountMoves, Account!Reopen
  <2> QED
    BY <2>5, <2>6
<1>2. ASSUME Stop
      PROVE  IInv' /\ AccountMoves
  <2>1. /\ started' \in BOOLEAN
        /\ UNCHANGED <<capital, available, orders, book, log, open, closed,
                       awaiting, monitor>>
    BY <1>2 DEF Stop
  <2> QED
    BY <1>0, <1>a, <1>b, <2>1 DEF IInv, Solvent, AccountMoves
<1>3. ASSUME Placement
      PROVE  IInv' /\ AccountMoves
  <2>1. PICK order \in Order :
          /\ Place(order)
          /\ awaiting' \subseteq awaiting \union {Len(orders) + 1}
          /\ UNCHANGED <<started, capital, available, log, open, closed, monitor>>
    <3>1. \A side \in Sides, shares \in ShareCounts, limit \in Limits \union {None},
             stop \in Stops, target \in Targets :
             NewOrder(side, shares, limit, stop, target, 0) \in Order
      BY PricesAssumption, SizesAssumption DEF NewOrder, Order, None, Statuses
    <3> QED
      BY <1>3, <3>1 DEF Placement, PlaceMarketOrder, PlaceLimitOrder
  <2>2. /\ OrdersKept
        /\ Len(orders) + 1 \in DOMAIN orders'
        /\ book' \subseteq DOMAIN orders'
    BY <1>0, <2>1, Placing
  <2>3. awaiting' \subseteq DOMAIN orders'
    BY <1>0, <2>1, <2>2 DEF OrdersKept
  <2> QED
    BY <1>0, <1>a, <2>1, <2>2, <2>3 DEF IInv, Solvent, AccountMoves, OrdersKept
<1>4. ASSUME NEW o \in DOMAIN orders, Cancel(o)
      PROVE  IInv' /\ AccountMoves
  <2>1. OrdersKept /\ DOMAIN orders' = DOMAIN orders
    BY <1>0, <1>4, StatusChange DEF Cancel, Statuses
  <2>2. UNCHANGED <<started, capital, available, book, log, open, closed,
                    awaiting, monitor>>
    BY <1>4 DEF Cancel
  <2> QED
    BY <1>0, <1>a, <2>1, <2>2 DEF IInv, Solvent, AccountMoves, OrdersKept
<1>5. ASSUME NEW o \in DOMAIN orders, MarketQuoteFails(o)
      PROVE  IInv' /\ AccountMoves
  <2>1. OrdersKept /\ DOMAIN orders' = DOMAIN orders
    BY <1>0, <1>5, StatusChange DEF MarketQuoteFails, Rejected, Statuses
  <2>2. /\ UNCHANGED <<started, capital, available, book, log, open, closed, monitor>>
        /\ awaiting' \subseteq awaiting
    BY <1>5 DEF MarketQuoteFails
  <2> QED
    BY <1>0, <1>a, <2>1, <2>2 DEF IInv, Solvent, AccountMoves, OrdersKept
<1>6. ASSUME NEW o \in DOMAIN orders, NEW p \in Prices, MarketQuote(o, p)
      PROVE  IInv' /\ AccountMoves
  <2>1. /\ FillOrder(o, p, {})
        /\ UNCHANGED <<started, capital, closed, monitor>>
        /\ awaiting' \subseteq awaiting
    BY <1>6 DEF MarketQuote
  <2>2. /\ OrdersKept /\ LogKept /\ TradesOK'
        /\ available' \in Int /\ Solvent'
        /\ book' \subseteq DOMAIN orders'
        /\ open' \subseteq DOMAIN log'
        /\ AccountMoves
    BY <1>0, <2>1, Filling
  <2>3. ExitsOK' /\ \A m \in Monitors : PassOK(m)'
    BY <1>0, <2>1, <2>2, ExitsStable, AllPasses
  <2> QED
    BY <1>0, <2>1, <2>2, <2>3 DEF IInv, OrdersKept, LogKept
<1>7. ASSUME NEW m \in Monitors, \/ BeginPass(m) \/ OrderKept(m) \/ PositionKept(m)
                                 \/ \E p \in Prices : ExitRefused(m, p)
      PROVE  IInv' /\ AccountMoves
  <2>1. UNCHANGED <<started, capital, available, orders, book, log, open, closed,
                    awaiting>>
    BY <1>7 DEF BeginPass, OrderKept, PositionKept, ExitRefused
  <2>2. OrdersKept /\ LogKept
    BY <1>0, <2>1 DEF OrdersKept, LogKept
  <2>3. OnlyMoves(m)
    <3>1. CASE BeginPass(m)
      BY <1>0, <2>1, <3>1, ResumingOrders DEF BeginPass
    <3>2. CASE OrderKept(m)
      BY <1>0, <2>1, <3>2, ResumingOrders DEF OrderKept, At, PassOK
    <3>3. CASE PositionKept(m)
      BY <1>0, <2>1, <3>3, ResumingPositions DEF PositionKept, At, PassOK
    <3>4. CASE \E p \in Prices : ExitRefused(m, p)
      BY <1>0, <3>4, Ending DEF ExitRefused
    <3> QED
      BY <1>7, <3>1, <3>2, <3>3, <3>4
  <2>4. TradesOK' /\ ExitsOK' /\ \A n \in Monitors : PassOK(n)'
    <3>1. TradesOK'
      BY <1>0, <2>1 DEF TradesOK
    <3> QED
      BY <1>0, <2>1, <2>2, <2>3, <3>1, ExitsStable, OtherPasses
  <2> QED
    BY <1>0, <2>1, <2>3, <2>4 DEF IInv, Solvent, AccountMoves, OnlyMoves
<1>8. ASSUME NEW m \in Monitors, NEW p \in Prices, OrderFills(m, p)
      PROVE  IInv' /\ AccountMoves
  <2>1. /\ FillOrder(monitor[m].cur, p, {})
        /\ NextOrder(m, monitor[m].todo, orders', open')
        /\ UNCHANGED <<started, capital, closed, awaiting>>
        /\ monitor[m].pc = "order"
    BY <1>8 DEF OrderFills, At
  <2>2. monitor[m].cur \in DOMAIN orders /\ monitor[m].todo \subseteq DOMAIN orders
    BY <1>0, <2>1 DEF PassOK
  <2>3. /\ OrdersKept /\ LogKept /\ TradesOK'
        /\ available' \in Int /\ Solvent'
        /\ book' \subseteq DOMAIN orders'
        /\ open' \subseteq DOMAIN log'
        /\ AccountMoves
    BY <1>0, <2>1, <2>2, Filling
  <2>4. OnlyMoves(m)
    BY <1>0, <2>1, <2>2, <2>3, ResumingOrders DEF OrdersKept, LogKept
  <2>5. ExitsOK' /\ \A n \in Monitors : PassOK(n)'
    BY <1>0, <2>1, <2>3, <2>4, ExitsStable, OtherPasses
  <2> QED
    BY <1>0, <2>1, <2>3, <2>4, <2>5 DEF IInv, OrdersKept, LogKept, OnlyMoves
<1>9. ASSUME NEW m \in Monitors, NEW p \in Prices, ExitPlaced(m, p)
      PROVE  IInv' /\ AccountMoves
  <2>0. PICK i : i = monitor[m].cur
    OBVIOUS
  <2> DEFINE sale == NewOrder("sell", orders[log[i].order].shares, None, None, None, i)
  <2>1. /\ Place(sale)
        /\ ExitDue(i, p)
        /\ monitor[m].pc = "position"
        /\ monitor' = [monitor EXCEPT ![m].pc = "sale", ![m].seen = p,
                                      ![m].sale = Len(orders) + 1]
        /\ UNCHANGED <<started, capital, available, log, open, closed, awaiting>>
    BY <1>9, <2>0 DEF ExitPlaced, At
  <2>2. i \in DOMAIN log /\ monitor[m].todo \subseteq DOMAIN log
    BY <1>0, <2>0, <2>1 DEF PassOK
  <2>3. sale \in Order /\ sale.side = "sell"
    <3>1. orders[log[i].order] \in Order
      BY <1>0, <2>2 DEF TradesOK
    <3>2. i \in Nat
      BY <1>0, <2>2, LenProperties
    <3> QED
      BY <3>1, <3>2 DEF NewOrder, Order, Sides, Statuses, None
  <2> HIDE DEF sale
  <2>4. /\ OrdersKept
        /\ Len(orders) + 1 \in DOMAIN orders'
        /\ orders'[Len(orders) + 1] = sale
        /\ book' \subseteq DOMAIN orders'
    BY <1>0, <2>1, <2>3, Placing
  <2>5. LogKept
    BY <1>0, <2>1 DEF LogKept
  <2>6. /\ monitor' \in [Monitors -> MonitorState]
        /\ monitor'[m] = [monitor[m] EXCEPT !.pc = "sale", !.seen = p,
                                            !.sale = Len(orders) + 1]
        /\ \A n \in Monitors \ {m} : monitor'[n] = monitor[n]
    <3>1. [monitor[m] EXCEPT !.pc = "sale", !.seen = p, !.sale = Len(orders) + 1]
            \in MonitorState
      <4>1. p \in Nat /\ Len(orders) + 1 \in Nat
        BY <1>0, PricesAssumption, LenProperties
      <4>2. monitor[m] \in MonitorState
        BY <1>0
      <4> QED
        BY <4>1, <4>2 DEF MonitorState
    <3> QED
      BY <1>0, <2>1, <3>1
  <2>7. /\ monitor'[m].pc = "sale"
        /\ monitor'[m].cur = i
        /\ monitor'[m].seen = p
        /\ monitor'[m].sale = Len(orders) + 1
        /\ monitor'[m].todo = monitor[m].todo
    BY <1>0, <2>0, <2>6 DEF MonitorState
  <2>8. ExitDue(monitor[m].cur, monitor[m].seen)'
    BY <1>0, <2>1, <2>2, <2>4, <2>5, <2>7
    DEF ExitDue, StopHit, TargetHit, PositionStop, PositionTarget, OrdersKept,
        LogKept, TradesOK
  <2>9. PassOK(m)'
    BY <2>1, <2>2, <2>3, <2>4, <2>7, <2>8 DEF PassOK
  <2>10. OnlyMoves(m)
    BY <2>6, <2>9 DEF OnlyMoves
  <2>11. TradesOK' /\ ExitsOK' /\ \A n \in Monitors : PassOK(n)'
    <3>1. TradesOK'
      BY <1>0, <2>1, <2>4 DEF TradesOK, OrdersKept
    <3> QED
      BY <1>0, <2>1, <2>4, <2>5, <2>10, <3>1, ExitsStable, OtherPasses
  <2> QED
    BY <1>0, <2>1, <2>4, <2>6, <2>11 DEF IInv, Solvent, AccountMoves, OrdersKept
<1>10. ASSUME NEW m \in Monitors, ExitFails(m)
       PROVE  IInv' /\ AccountMoves
  <2>1. /\ monitor[m].pc = "sale"
        /\ orders' = Rejected(monitor[m].sale)
        /\ NextPosition(m, monitor[m].todo)
        /\ UNCHANGED <<started, capital, available, book, log, open, closed,
                       awaiting>>
    BY <1>10 DEF ExitFails, At
  <2>2. monitor[m].sale \in DOMAIN orders /\ monitor[m].todo \subseteq DOMAIN log
    BY <1>0, <2>1 DEF PassOK
  <2>3. OrdersKept /\ DOMAIN orders' = DOMAIN orders
    BY <1>0, <2>1, <2>2, StatusChange DEF Rejected, Statuses
  <2>4. LogKept
    BY <1>0, <2>1 DEF LogKept
  <2>5. OnlyMoves(m)
    BY <1>0, <2>1, <2>2, <2>3, ResumingPositions DEF OrdersKept
  <2>6. TradesOK' /\ ExitsOK' /\ \A n \in Monitors : PassOK(n)'
    <3>1. TradesOK'
      BY <1>0, <2>1, <2>3 DEF TradesOK
    <3> QED
      BY <1>0, <2>1, <2>3, <2>4, <2>5, <3>1, ExitsStable, OtherPasses
  <2> QED
    BY <1>0, <2>1, <2>3, <2>5, <2>6 DEF IInv, Solvent, AccountMoves, OrdersKept, OnlyMoves
<1>11. ASSUME NEW m \in Monitors, NEW p \in Prices, ExitFills(m, p)
       PROVE  IInv' /\ AccountMoves
  <2>0. PICK i, q : i = monitor[m].cur /\ q = monitor[m].seen
    OBVIOUS
  <2>1. /\ monitor[m].pc = "sale"
        /\ FillOrder(monitor[m].sale, p, ClosesPosition(m))
        /\ closed' = IF i \in open THEN closed \union {ExitAt(m, p)} ELSE closed
        /\ NextPosition(m, monitor[m].todo)
        /\ UNCHANGED <<started, capital, awaiting>>
    BY <1>11, <2>0 DEF ExitFills, At
  <2>2. /\ monitor[m].sale \in DOMAIN orders
        /\ orders[monitor[m].sale].side = "sell"
        /\ monitor[m].todo \subseteq DOMAIN log
        /\ i \in DOMAIN log
        /\ ExitDue(i, q)
    BY <1>0, <2>0, <2>1 DEF PassOK
  <2>3. \A x, y \in ClosesPosition(m) : x = y
    BY DEF ClosesPosition
  <2>4. /\ OrdersKept /\ LogKept /\ TradesOK'
        /\ available' \in Int /\ Solvent'
        /\ book' \subseteq DOMAIN orders'
        /\ open' \subseteq DOMAIN log'
        /\ AccountMoves
    BY <1>0, <2>1, <2>2, <2>3, Filling
  <2>5. OnlyMoves(m)
    BY <1>0, <2>1, <2>2, <2>4, ResumingPositions DEF OrdersKept, LogKept
  <2>6. ExitAt(m, p) \in Exit /\ ExitAt(m, p).position = i /\ ExitAt(m, p).price = q
    BY <1>0, <2>0, <2>2, LenProperties DEF ExitAt, Exit, MonitorState
  <2>7. ExitsOK'
    <3> SUFFICES ASSUME NEW e \in closed'
                 PROVE  e.position \in DOMAIN log' /\ ExitDue(e.position, e.price)'
      BY DEF ExitsOK
    <3>1. e.position \in DOMAIN log /\ ExitDue(e.position, e.price)
      BY <1>0, <2>1, <2>2, <2>6 DEF ExitsOK
    <3>2. ExitDue(e.position, e.price)'
      BY <1>0, <2>4, <3>1, ExitDueStable
    <3> QED
      BY <2>4, <3>1, <3>2 DEF LogKept
  <2>8. \A n \in Monitors : PassOK(n)'
    BY <2>4, <2>5, OtherPasses
  <2>9. closed' \subseteq Exit
    BY <1>0, <2>1, <2>6
  <2> QED
    BY <1>0, <2>1, <2>4, <2>5, <2>7, <2>8, <2>9 DEF IInv, OrdersKept, LogKept, OnlyMoves
<1> QED
  BY <1>1, <1>2, <1>3, <1>4, <1>5, <1>6, <1>7, <1>8, <1>9, <1>10, <1>11
  DEF Next, MarketQuoteArrives, MonitorResumes

\* Nothing happens when nothing moves.
LEMMA Stutter ==
  ASSUME IInv, UNCHANGED vars
  PROVE  IInv'
BY DEF IInv, vars, TypeOK, Solvent, TradesOK, ExitsOK, PassOK, ExitDue, StopHit,
       TargetHit, PositionStop, PositionTarget

-----------------------------------------------------------------------------
\* The inductive invariant holds in every reachable state of the engine.
THEOREM Invariance == Spec => []IInv
<1>1. IInv /\ [Next]_vars => IInv'
  BY Step, Stutter
<1> QED
  BY <1>1, Initially, PTL DEF Spec

\* The engine's state stays well formed, whatever callers and passes do.
THEOREM TypeCorrect == Spec => []TypeOK
BY Invariance, PTL DEF IInv

\* The available capital never becomes negative (PaperTradingEngine._fill_order).
THEOREM Solvency == Spec => []Solvent
BY Invariance, PTL DEF IInv

\* What a step may do to the cash and the log of trades.
CashStep ==
  IF log' # log
    THEN /\ Len(log') = Len(log) + 1
         /\ SubSeq(log', 1, Len(log)) = log
         /\ LET t == log'[Len(log')] IN
              available' = available + CashFlow(t.order, t.price)
    ELSE available' # available => available' \in Capitals

\* A fill moves the cash by its trade, or not at all.
LEMMA FillCash ==
  ASSUME TypeOK, NEW o \in DOMAIN orders, NEW p \in Prices, NEW gone, FillOrder(o, p, gone)
  PROVE  CashStep
<1>1. CASE UNCHANGED <<log, available>>
  BY <1>1 DEF CashStep
<1>2. CASE Execute(o, p, gone)
  <2>1. PICK t \in Trade : t = [order |-> o, price |-> p]
    <3>1. [order |-> o, price |-> p] \in Trade
      BY PricesAssumption, LenProperties DEF Trade, TypeOK
    <3> QED
      BY <3>1
  <2>2. log' = Append(log, t) /\ available' = available + CashFlow(t.order, t.price)
    BY <1>2, <2>1 DEF Execute
  <2>3. log \in Seq(Trade) /\ Len(log') = Len(log) + 1 /\ log'[Len(log) + 1] = t
    BY <2>2, AppendProperties DEF TypeOK
  <2>4. SubSeq(log', 1, Len(log)) = log
    BY <2>2, <2>3
  <2>5. log' # log /\ log'[Len(log')] = t
    BY <2>3, LenProperties
  <2> QED
    BY <2>2, <2>3, <2>4, <2>5 DEF CashStep
<1> QED
  BY <1>1, <1>2 DEF FillOrder, RejectForCapital

\* The log of trades explains every movement of the cash but the ones of start()
\* (PaperTradingEngine._fill_order).
THEOREM CashIsLogged == Spec => CashFollowsLog
<1>1. IInv /\ [Next]_vars => [CashStep]_vars
  <2> SUFFICES ASSUME IInv, Next PROVE CashStep
    OBVIOUS
  <2>1. TypeOK /\ \A m \in Monitors : PassOK(m)
    BY DEF IInv
  <2>2. CASE \E c \in Capitals \union {None} : Start(c)
    BY <2>2 DEF Start, CashStep
  <2>3. CASE Stop \/ Placement
    BY <2>3 DEF Stop, Placement, PlaceMarketOrder, PlaceLimitOrder, CashStep
  <2>4. ASSUME NEW o \in DOMAIN orders, Cancel(o) \/ MarketQuoteFails(o)
        PROVE  CashStep
    BY <2>4 DEF Cancel, MarketQuoteFails, CashStep
  <2>5. ASSUME NEW o \in DOMAIN orders, NEW p \in Prices, MarketQuote(o, p)
        PROVE  CashStep
    BY <2>1, <2>5, FillCash DEF MarketQuote
  <2>6. ASSUME NEW m \in Monitors,
               \/ BeginPass(m) \/ OrderKept(m) \/ PositionKept(m) \/ ExitFails(m)
               \/ \E p \in Prices : ExitPlaced(m, p) \/ ExitRefused(m, p)
        PROVE  CashStep
    <3>1. UNCHANGED <<log, available>>
      BY <2>6 DEF BeginPass, OrderKept, PositionKept, ExitFails, ExitPlaced, ExitRefused
    <3> QED
      BY <3>1 DEF CashStep
  <2>7. ASSUME NEW m \in Monitors, NEW p \in Prices, OrderFills(m, p) \/ ExitFills(m, p)
        PROVE  CashStep
    <3>1. PICK o, gone : o \in DOMAIN orders /\ FillOrder(o, p, gone)
      BY <2>1, <2>7 DEF OrderFills, ExitFills, At, PassOK
    <3> QED
      BY <2>1, <3>1, FillCash
  <2> QED
    BY <2>2, <2>3, <2>4, <2>5, <2>6, <2>7 DEF Next, MarketQuoteArrives, MonitorResumes
<1>2. [CashStep]_vars => [IF log' # log
        THEN /\ Len(log') = Len(log) + 1
             /\ SubSeq(log', 1, Len(log)) = log
             /\ LET t == log'[Len(log')] IN
                  available' = available + CashFlow(t.order, t.price)
        ELSE available' # available => available' \in Capitals]_vars
  BY DEF CashStep
<1> QED
  BY <1>1, <1>2, Invariance, PTL DEF Spec, CashFollowsLog

\* _check_stop_take closes a position only at a price that reached its stop or
\* its target.
THEOREM DueExits == Spec => []ExitsWereDue
<1>1. IInv => ExitsWereDue
  BY DEF IInv, ExitsOK, ExitsWereDue
<1> QED
  BY <1>1, Invariance, PTL

\* The engine implements the trading account.
THEOREM ImplementsAccount == Spec => Refinement
<1>1. Init => Account!Init
  BY DEF Init, Account!Init
<1>2. IInv /\ [Next]_vars => [Account!Next]_<<available, open>>
  <2>1. ASSUME IInv, Next PROVE [Account!Next]_<<available, open>>
    BY <2>1, Step DEF AccountMoves, Account!Next
  <2>2. ASSUME UNCHANGED vars PROVE UNCHANGED <<available, open>>
    BY <2>2 DEF vars
  <2> QED
    BY <2>1, <2>2
<1> QED
  BY <1>1, <1>2, Invariance, PTL DEF Spec, Refinement, Account!Spec

-----------------------------------------------------------------------------
(* One coroutine runs check_and_fill_pending *)

OneMonitor == \A m, n \in Monitors : m = n

Logged == {log[i].order : i \in DOMAIN log}

\* Only the sales of _check_stop_take exit a position, and they have no limit.
SalesOK == \A o \in DOMAIN orders : orders[o].exits # 0 => orders[o].limit = None

\* A filled order stays filled.
LoggedOK == \A i \in DOMAIN log : orders[log[i].order].status = "filled"

\* A market order whose quote is awaited is not filled yet, and is no such sale.
AwaitingOK ==
  \A o \in awaiting : o \notin Logged /\ orders[o].limit = None /\ orders[o].exits = 0

\* The only pass fills an order with a limit, or the sale it waits for, for the
\* first time, and its snapshot of positions is of open ones it has not sold.
PassOnce(m) ==
  LET s == monitor[m] IN
    /\ s.pc = "order" /\ orders[s.cur].limit # None => s.cur \notin Logged
    /\ s.pc \in {"position", "sale"} =>
         s.cur \in open /\ s.todo \subseteq open /\ s.cur \notin s.todo
    /\ s.pc = "sale" => s.sale \notin Logged /\ orders[s.sale].exits = s.cur

\* ExitsMatchSales, one exit and one sale at a time.
ExitOf(i) == orders[log[i].order].exits
ExitsOnce ==
  /\ \A i, j \in DOMAIN log : ExitOf(i) # 0 /\ ExitOf(i) = ExitOf(j) => i = j
  /\ \A e \in closed : /\ e.position # 0 /\ e.position \notin open
                       /\ \E i \in DOMAIN log : ExitOf(i) = e.position
  /\ \A i \in DOMAIN log : ExitOf(i) # 0 => \E e \in closed : e.position = ExitOf(i)

OnceInv ==
  /\ SalesOK /\ LoggedOK /\ AwaitingOK
  /\ \A m \in Monitors : PassOnce(m)
  /\ FillsOnce /\ ExitsOnce

\* What a coroutine remembers of an order, and what became of the filled ones.
OnceKept ==
  /\ \A o \in DOMAIN orders : /\ orders'[o].limit = orders[o].limit
                              /\ orders'[o].exits = orders[o].exits
  /\ SalesOK' /\ LoggedOK'

\* A snapshot that is walked over further, or to its end.
LEMMA OnceAwait ==
  ASSUME TypeOK, NEW m \in Monitors, NEW pc, NEW todo, Await(m, pc, todo)
  PROVE  /\ monitor'[m].pc = pc /\ monitor'[m].cur \in todo
         /\ monitor'[m].todo = todo \ {monitor'[m].cur}
<1>1. PICK x \in todo :
        monitor' = [monitor EXCEPT
          ![m] = [Idle EXCEPT !.pc = pc, !.cur = x, !.todo = todo \ {x}]]
  BY DEF Await
<1>2. PICK s : s = [Idle EXCEPT !.pc = pc, !.cur = x, !.todo = todo \ {x}]
  OBVIOUS
<1>3. s.pc = pc /\ s.cur = x /\ s.todo = todo \ {x}
  BY <1>2 DEF Idle
<1>4. monitor'[m] = s
  BY <1>1, <1>2 DEF TypeOK
<1> QED
  BY <1>3, <1>4

\* A pass that goes on with open positions has none of them sold.
LEMMA OnceNextPosition ==
  ASSUME TypeOK, NEW m \in Monitors, NEW todo, NextPosition(m, todo), todo \subseteq open'
  PROVE  PassOnce(m)'
<1>1. CASE EndPass(m)
  <2>1. monitor'[m] = Idle
    BY <1>1 DEF EndPass, TypeOK
  <2> QED
    BY <2>1 DEF PassOnce, Idle
<1>2. CASE Await(m, "position", todo)
  BY <1>2, OnceAwait DEF PassOnce
<1> QED
  BY <1>1, <1>2 DEF NextPosition

\* A pass that goes on with pending orders has none of them filled.
LEMMA OnceNextOrder ==
  ASSUME TypeOK, NEW m \in Monitors, NEW todo, NextOrder(m, todo, orders', open'), LoggedOK'
  PROVE  PassOnce(m)'
<1>1. PICK left : left = PendingOf(todo, orders')
  OBVIOUS
<1>2. \A o \in left : o \notin Logged'
  BY <1>1 DEF PendingOf, LoggedOK, Logged
<1>3. \/ NextPosition(m, open')
      \/ Await(m, "order", left)
  BY <1>1 DEF NextOrder
<1>4. CASE NextPosition(m, open')
  <2>1. PICK positions : positions = open'
    OBVIOUS
  <2> QED
    BY <1>4, <2>1, OnceNextPosition
<1>5. CASE Await(m, "order", left)
  BY <1>2, <1>5, OnceAwait DEF PassOnce
<1> QED
  BY <1>3, <1>4, <1>5

\* An order that is not filled changes its status.
LEMMA OnceStatus ==
  ASSUME TypeOK, OnceInv, NEW o \in DOMAIN orders, o \notin Logged, NEW st,
         orders' = [orders EXCEPT ![o].status = st], UNCHANGED <<log, open, closed>>
  PROVE  OnceKept /\ FillsOnce' /\ ExitsOnce'
<1>1. /\ DOMAIN orders' = DOMAIN orders
      /\ \A q \in DOMAIN orders : q # o => orders'[q] = orders[q]
      /\ orders'[o] = [orders[o] EXCEPT !.status = st]
  BY DEF TypeOK
<1>2. orders[o] \in Order
  BY DEF TypeOK
<1>3. orders'[o].limit = orders[o].limit /\ orders'[o].exits = orders[o].exits
  BY <1>1, <1>2 DEF Order
<1>4. \A q \in DOMAIN orders : /\ orders'[q].limit = orders[q].limit
                              /\ orders'[q].exits = orders[q].exits
  BY <1>1, <1>3
<1>5. SalesOK'
  BY <1>1, <1>4 DEF OnceInv, SalesOK
<1>6. \A i \in DOMAIN log : orders'[log[i].order] = orders[log[i].order]
                            /\ orders'[log[i].order].exits = orders[log[i].order].exits
  <2>1. \A i \in DOMAIN log : log[i].order # o
    BY DEF Logged
  <2> QED
    BY <2>1
<1>7. LoggedOK'
  BY <1>6 DEF OnceInv, LoggedOK
<1>8. FillsOnce'
  BY DEF OnceInv, FillsOnce
<1>9. ExitsOnce'
  BY <1>6 DEF OnceInv, ExitsOnce, ExitOf
<1> QED
  BY <1>4, <1>5, <1>7, <1>8, <1>9 DEF OnceKept

\* An order that was not filled is: a limit or market order, or the sale of a
\* position that is open and closed with it.
LEMMA OnceFill ==
  ASSUME TypeOK, TradesOK, ExitsOK, OnceInv, NEW o \in DOMAIN orders, o \notin Logged,
         NEW p \in Prices, NEW gone, FillOrder(o, p, gone),
         \/ orders[o].exits = 0 /\ gone = {} /\ closed' = closed
         \/ \E e \in Exit : /\ orders[o].side = "sell" /\ orders[o].exits = e.position
                           /\ e.position \in open /\ gone = {e.position}
                           /\ closed' = closed \union {e}
  PROVE  /\ OnceKept /\ FillsOnce' /\ ExitsOnce'
         /\ Logged' \subseteq Logged \union {o} /\ open \ gone \subseteq open'
<1>1. CASE orders[o].side = "buy" /\ ~Affordable(o, p)
  <2>1. /\ orders' = [orders EXCEPT ![o].status = "rejected"]
        /\ UNCHANGED <<log, open, closed>>
    BY <1>1 DEF FillOrder, RejectForCapital, Rejected
  <2> QED
    BY <2>1, OnceStatus DEF Logged
<1>2. CASE ~(orders[o].side = "buy" /\ ~Affordable(o, p))
  <2>1. PICK t \in Trade :
          /\ t = [order |-> o, price |-> p]
          /\ orders' = [orders EXCEPT ![o].status = "filled"]
          /\ log' = Append(log, t)
          /\ open' = (IF orders[o].side = "buy" THEN open \union {Len(log) + 1} ELSE open) \ gone
    <3>1. [order |-> o, price |-> p] \in Trade
      BY PricesAssumption, LenProperties DEF Trade, TypeOK
    <3> QED
      BY <1>2, <3>1 DEF FillOrder, Execute, Filled
  <2>2. PICK n \in Nat :
          /\ n = Len(log) + 1 /\ n \notin DOMAIN log /\ n # 0
          /\ DOMAIN log' = DOMAIN log \union {n} /\ log'[n] = t
          /\ \A i \in DOMAIN log : log'[i] = log[i]
    <3>1. /\ Len(log') = Len(log) + 1 /\ log' \in Seq(Trade)
          /\ \A i \in 1 .. Len(log) : log'[i] = log[i]
          /\ log'[Len(log) + 1] = t
      BY <2>1, AppendProperties DEF TypeOK
    <3>2. /\ DOMAIN log = 1 .. Len(log) /\ DOMAIN log' = 1 .. Len(log) + 1
          /\ Len(log) \in Nat
      BY <3>1, LenProperties DEF TypeOK
    <3> QED
      BY <3>1, <3>2
  <2>3. /\ DOMAIN orders' = DOMAIN orders /\ orders'[o].status = "filled"
        /\ \A q \in DOMAIN orders : /\ q # o => orders'[q] = orders[q]
                                   /\ orders'[q].limit = orders[q].limit
                                   /\ orders'[q].exits = orders[q].exits
    <3>1. PICK new : new = [orders[o] EXCEPT !.status = "filled"]
      OBVIOUS
    <3>2. orders[o] \in Order
      BY DEF TypeOK
    <3>3. new.status = "filled" /\ new.limit = orders[o].limit /\ new.exits = orders[o].exits
      BY <3>1, <3>2 DEF Order
    <3>4. DOMAIN orders' = DOMAIN orders /\ orders'[o] = new
      BY <2>1, <3>1 DEF TypeOK
    <3> QED
      BY <2>1, <3>3, <3>4 DEF TypeOK
  <2>4. \A i \in DOMAIN log : /\ log[i].order \in DOMAIN orders /\ log[i].order # o
                             /\ log'[i].order = log[i].order
                             /\ orders'[log'[i].order] = orders[log[i].order]
    BY <2>2, <2>3 DEF TradesOK, Logged
  <2>5. log'[n].order = o
    BY <2>1, <2>2
  <2>6. SalesOK' /\ LoggedOK'
    <3>1. SalesOK'
      BY <2>3 DEF OnceInv, SalesOK
    <3>2. LoggedOK'
      BY <2>2, <2>3, <2>4, <2>5 DEF OnceInv, LoggedOK
    <3> QED
      BY <3>1, <3>2
  <2>7. FillsOnce'
    BY <2>2, <2>4, <2>5 DEF OnceInv, FillsOnce
  <2>8. Logged' \subseteq Logged \union {o}
    BY <2>2, <2>4, <2>5 DEF Logged
  <2>9. open \ gone \subseteq open' /\ open' \subseteq (open \union {n}) \ gone
    BY <2>1, <2>2
  <2>10. \A i \in DOMAIN log : ExitOf(i)' = ExitOf(i)
    BY <2>2, <2>4 DEF ExitOf
  <2>11. ExitOf(n)' = orders[o].exits
    BY <2>3, <2>5 DEF ExitOf
  <2>12. CASE orders[o].exits = 0 /\ gone = {} /\ closed' = closed
    <3>1. \A e \in closed' : e.position \notin open'
      BY <2>2, <2>9, <2>12 DEF ExitsOK, OnceInv, ExitsOnce
    <3>2. ExitOf(n)' = 0
      BY <2>11, <2>12
    <3>3. ExitsOnce'
      BY <2>2, <2>10, <2>12, <3>1, <3>2 DEF OnceInv, ExitsOnce
    <3> QED
      BY <2>3, <2>6, <2>7, <2>8, <2>9, <3>3 DEF OnceKept
  <2>13. ASSUME NEW e \in Exit, orders[o].exits = e.position, e.position \in open,
                gone = {e.position}, closed' = closed \union {e}
         PROVE  ExitsOnce'
    <3>1. e.position # 0 /\ e.position \in DOMAIN log
      BY <2>13, LenProperties DEF TypeOK
    <3>2. /\ \A d \in closed : d.position # e.position
          /\ \A i \in DOMAIN log : ExitOf(i) # e.position
      BY <2>13, <3>1 DEF OnceInv, ExitsOnce
    <3>3. ExitOf(n)' = e.position
      BY <2>11, <2>13
    <3>4. ASSUME NEW i \in DOMAIN log', NEW j \in DOMAIN log', ExitOf(i)' # 0,
                 ExitOf(i)' = ExitOf(j)'
          PROVE  i = j
      BY <2>2, <2>10, <3>2, <3>3, <3>4 DEF OnceInv, ExitsOnce
    <3>5. ASSUME NEW d \in closed'
          PROVE  /\ d.position # 0 /\ d.position \notin open'
                 /\ \E i \in DOMAIN log' : ExitOf(i)' = d.position
      <4>1. CASE d = e
        BY <2>2, <2>9, <2>13, <3>1, <3>3, <4>1
      <4>2. CASE d \in closed
        <5>1. d.position # 0 /\ d.position \notin open /\ d.position # n
          BY <2>2, <4>2 DEF OnceInv, ExitsOnce, ExitsOK
        <5>2. PICK i \in DOMAIN log : ExitOf(i) = d.position
          BY <4>2 DEF OnceInv, ExitsOnce
        <5> QED
          BY <2>2, <2>9, <2>10, <5>1, <5>2
      <4> QED
        BY <2>13, <4>1, <4>2
    <3>6. ASSUME NEW i \in DOMAIN log', ExitOf(i)' # 0
          PROVE  \E d \in closed' : d.position = ExitOf(i)'
      BY <2>2, <2>10, <2>13, <3>3, <3>6 DEF OnceInv, ExitsOnce
    <3> QED
      BY <3>4, <3>5, <3>6 DEF ExitsOnce, ExitOf
  <2> QED
    BY <2>3, <2>6, <2>7, <2>8, <2>9, <2>12, <2>13 DEF OnceKept
<1> QED
  BY <1>1, <1>2

\* The market orders that go on waiting are still those of nobody else.
LEMMA OnceAwaiting ==
  ASSUME TypeOK, OnceInv, OnceKept, awaiting' \subseteq awaiting,
         \A o \in awaiting' : o \in Logged' => o \in Logged
  PROVE  AwaitingOK'
BY DEF TypeOK, OnceInv, OnceKept, AwaitingOK

\* A pass that waits while others move the state waits for what is still its own.
LEMMA OncePassStable ==
  ASSUME TypeOK, OnceInv, OnceKept, NEW m \in Monitors, PassOK(m),
         UNCHANGED monitor, open \subseteq open',
         \A o \in Logged' \ Logged : orders[o].limit = None /\ orders[o].exits = 0
  PROVE  PassOnce(m)'
<1>1. PICK s : s = monitor[m]
  OBVIOUS
<1>2. /\ s.pc = "order" /\ orders[s.cur].limit # None => s.cur \notin Logged
      /\ s.pc \in {"position", "sale"} =>
           s.cur \in open /\ s.todo \subseteq open /\ s.cur \notin s.todo
      /\ s.pc = "sale" => s.sale \notin Logged /\ orders[s.sale].exits = s.cur
  BY <1>1 DEF OnceInv, PassOnce
<1>3. /\ s.pc = "order" => s.cur \in DOMAIN orders
      /\ s.pc = "sale" => s.sale \in DOMAIN orders
  BY <1>1 DEF PassOK
<1>4. s.pc = "order" /\ orders'[s.cur].limit # None => s.cur \notin Logged'
  BY <1>2, <1>3 DEF OnceKept
<1>5. s.pc = "sale" => s.sale \notin Logged' /\ orders'[s.sale].exits = s.cur
  <2>1. s.pc = "sale" => s.cur # 0
    BY <1>2, LenProperties DEF TypeOK
  <2> QED
    BY <1>2, <1>3, <2>1 DEF OnceKept
<1>6. monitor'[m] = s
  BY <1>1
<1> QED
  BY <1>2, <1>4, <1>5, <1>6 DEF PassOnce

\* A step that fills and places nothing.
LEMMA OnceUnchanged ==
  ASSUME IInv, OnceInv, UNCHANGED <<orders, log, open, closed>>
  PROVE  /\ OnceKept /\ FillsOnce' /\ ExitsOnce' /\ Logged' = Logged
         /\ awaiting' \subseteq awaiting => AwaitingOK'
         /\ monitor' = monitor => \A m \in Monitors : PassOnce(m)'
<1>1. OnceKept /\ FillsOnce' /\ ExitsOnce' /\ Logged' = Logged
  BY DEF OnceInv, OnceKept, SalesOK, LoggedOK, FillsOnce, ExitsOnce, ExitOf, Logged
<1>2. TypeOK /\ \A m \in Monitors : PassOK(m)
  BY DEF IInv
<1>3. awaiting' \subseteq awaiting => AwaitingOK'
  BY <1>1, <1>2, OnceAwaiting
<1>4. monitor' = monitor => \A m \in Monitors : PassOnce(m)'
  BY <1>1, <1>2, OncePassStable
<1> QED
  BY <1>1, <1>3, <1>4

\* A new order is not filled, and nothing that waits is about it.
LEMMA OncePlace ==
  ASSUME IInv, OnceInv, NEW order \in Order, Place(order),
         order.exits # 0 => order.limit = None, UNCHANGED <<log, open, closed>>
  PROVE  /\ OnceKept /\ FillsOnce' /\ ExitsOnce' /\ Logged' = Logged
         /\ Len(orders) + 1 \notin Logged /\ orders'[Len(orders) + 1] = order
<1>1. TypeOK /\ TradesOK
  BY DEF IInv
<1>2. PICK n : n = Len(orders) + 1
  OBVIOUS
<1>3. /\ DOMAIN orders' = DOMAIN orders \union {n} /\ n \notin DOMAIN orders
      /\ orders'[n] = order /\ \A o \in DOMAIN orders : orders'[o] = orders[o]
  <2>1. orders' = Append(orders, order)
    BY DEF Place
  <2>2. /\ orders' \in Seq(Order) /\ Len(orders') = Len(orders) + 1
        /\ \A i \in 1 .. Len(orders) : orders'[i] = orders[i]
        /\ orders'[Len(orders) + 1] = order
    BY <1>1, <2>1, AppendProperties DEF TypeOK
  <2>3. /\ DOMAIN orders = 1 .. Len(orders) /\ DOMAIN orders' = 1 .. Len(orders) + 1
        /\ Len(orders) \in Nat
    BY <1>1, <2>2, LenProperties DEF TypeOK
  <2> QED
    BY <1>2, <2>2, <2>3
<1>4. \A i \in DOMAIN log : /\ log[i].order \in DOMAIN orders
                           /\ orders'[log[i].order] = orders[log[i].order]
  BY <1>1, <1>3 DEF TradesOK
<1>5. OnceKept
  <2>1. SalesOK'
    BY <1>3 DEF OnceInv, SalesOK
  <2>2. LoggedOK'
    BY <1>4 DEF OnceInv, LoggedOK
  <2> QED
    BY <1>3, <2>1, <2>2 DEF OnceKept
<1>6. FillsOnce' /\ Logged' = Logged
  BY DEF OnceInv, FillsOnce, Logged
<1>7. \A i \in DOMAIN log : ExitOf(i)' = ExitOf(i)
  BY <1>4 DEF ExitOf
<1>8. ExitsOnce'
  BY <1>7 DEF OnceInv, ExitsOnce
<1>9. n \notin Logged
  BY <1>3, <1>4 DEF Logged
<1> QED
  BY <1>2, <1>3, <1>5, <1>6, <1>8, <1>9

\* With one coroutine at the checks, no step fills an order or sells a position a
\* second time.
LEMMA OnceStep ==
  ASSUME IInv, OnceInv, OneMonitor, Next
  PROVE  OnceInv'
<1>0. /\ TypeOK /\ TradesOK /\ ExitsOK
      /\ \A m \in Monitors : PassOK(m) /\ PassOnce(m)
      /\ LoggedOK /\ AwaitingOK
  BY DEF IInv, OnceInv
<1>1. CASE Stop \/ \E c \in Capitals \union {None} : Start(c)
  <2>1. UNCHANGED <<orders, log, open, closed, awaiting, monitor>>
    BY <1>1 DEF Start, Stop
  <2> QED
    BY <2>1, OnceUnchanged DEF OnceInv, OnceKept
<1>2. CASE Placement
  <2>1. PICK order \in Order :
          /\ Place(order) /\ order.exits = 0
          /\ \/ awaiting' = awaiting
             \/ awaiting' = awaiting \union {Len(orders) + 1} /\ order.limit = None
          /\ UNCHANGED <<log, open, closed, monitor>>
    <3>1. \A side \in Sides, shares \in ShareCounts, limit \in Limits \union {None},
             stop \in Stops, target \in Targets :
             /\ NewOrder(side, shares, limit, stop, target, 0) \in Order
             /\ NewOrder(side, shares, limit, stop, target, 0).exits = 0
             /\ NewOrder(side, shares, limit, stop, target, 0).limit = limit
      BY PricesAssumption, SizesAssumption DEF NewOrder, Order, None, Statuses
    <3>2. ASSUME NEW side \in Sides, NEW shares \in ShareCounts, NEW stop \in Stops,
                 NEW target \in Targets, PlaceMarketOrder(side, shares, stop, target)
          PROVE  \E order \in Order :
                   /\ Place(order) /\ order.exits = 0 /\ order.limit = None
                   /\ awaiting' = awaiting \union {Len(orders) + 1}
                   /\ UNCHANGED <<log, open, closed, monitor>>
      <4>1. PICK order : order = NewOrder(side, shares, None, stop, target, 0)
        OBVIOUS
      <4> QED
        BY <3>1, <3>2, <4>1 DEF PlaceMarketOrder
    <3>3. ASSUME NEW side \in Sides, NEW shares \in ShareCounts, NEW stop \in Stops,
                 NEW target \in Targets, NEW limit \in Limits,
                 PlaceLimitOrder(side, shares, limit, stop, target)
          PROVE  \E order \in Order :
                   /\ Place(order) /\ order.exits = 0 /\ awaiting' = awaiting
                   /\ UNCHANGED <<log, open, closed, monitor>>
      <4>1. PICK order : order = NewOrder(side, shares, limit, stop, target, 0)
        OBVIOUS
      <4> QED
        BY <3>1, <3>3, <4>1 DEF PlaceLimitOrder
    <3> QED
      BY <1>2, <3>2, <3>3 DEF Placement
  <2>2. /\ OnceKept /\ FillsOnce' /\ ExitsOnce' /\ Logged' = Logged
        /\ Len(orders) + 1 \notin Logged /\ orders'[Len(orders) + 1] = order
    BY <2>1, OncePlace
  <2>3. \A m \in Monitors : PassOnce(m)'
    BY <1>0, <2>1, <2>2, OncePassStable
  <2>4. AwaitingOK'
    BY <1>0, <2>1, <2>2 DEF TypeOK, AwaitingOK, OnceKept
  <2> QED
    BY <2>2, <2>3, <2>4 DEF OnceInv, OnceKept
<1>3. ASSUME NEW o \in DOMAIN orders, Cancel(o) \/ MarketQuoteFails(o)
      PROVE  OnceInv'
  <2>1. PICK st : /\ orders' = [orders EXCEPT ![o].status = st]
                  /\ UNCHANGED <<log, open, closed, monitor>> /\ awaiting' \subseteq awaiting
    BY <1>3 DEF Cancel, MarketQuoteFails, Rejected
  <2>2. o \notin Logged
    <3>1. CASE Cancel(o)
      BY <1>0, <3>1 DEF Cancel, LoggedOK, Logged
    <3>2. CASE MarketQuoteFails(o)
      BY <1>0, <3>2 DEF MarketQuoteFails, AwaitingOK
    <3> QED
      BY <1>3, <3>1, <3>2
  <2>3. OnceKept /\ FillsOnce' /\ ExitsOnce'
    BY <1>0, <2>1, <2>2, OnceStatus
  <2>4. Logged' = Logged
    BY <2>1 DEF Logged
  <2>5. AwaitingOK'
    BY <1>0, <2>1, <2>3, <2>4, OnceAwaiting
  <2>6. \A m \in Monitors : PassOnce(m)'
    BY <1>0, <2>1, <2>3, <2>4, OncePassStable
  <2> QED
    BY <2>3, <2>5, <2>6 DEF OnceInv, OnceKept
<1>4. ASSUME NEW o \in DOMAIN orders, NEW p \in Prices, MarketQuote(o, p)
      PROVE  OnceInv'
  <2>1. /\ o \in awaiting /\ awaiting' = awaiting \ {o} /\ FillOrder(o, p, {})
        /\ UNCHANGED <<closed, monitor>>
    BY <1>4 DEF MarketQuote
  <2>2. o \notin Logged /\ orders[o].limit = None /\ orders[o].exits = 0
    BY <1>0, <2>1 DEF AwaitingOK
  <2>3. /\ OnceKept /\ FillsOnce' /\ ExitsOnce'
        /\ Logged' \subseteq Logged \union {o} /\ open \subseteq open'
    BY <1>0, <2>1, <2>2, OnceFill
  <2>4. AwaitingOK'
    BY <1>0, <2>1, <2>3, OnceAwaiting
  <2>5. \A m \in Monitors : PassOnce(m)'
    BY <1>0, <2>1, <2>2, <2>3, OncePassStable
  <2> QED
    BY <2>3, <2>4, <2>5 DEF OnceInv, OnceKept
<1>5. ASSUME NEW m \in Monitors, \/ BeginPass(m) \/ OrderKept(m) \/ PositionKept(m)
                                 \/ \E p \in Prices : ExitRefused(m, p)
      PROVE  OnceInv'
  <2>1. UNCHANGED <<orders, log, open, closed, awaiting>>
    BY <1>5 DEF BeginPass, OrderKept, PositionKept, ExitRefused
  <2>2. OnceKept /\ FillsOnce' /\ ExitsOnce' /\ AwaitingOK'
    BY <2>1, OnceUnchanged
  <2>3. PassOnce(m)'
    <3>1. CASE BeginPass(m) \/ OrderKept(m)
      <4>1. PICK todo : NextOrder(m, todo, orders', open')
        BY <2>1, <3>1 DEF BeginPass, OrderKept
      <4> QED
        BY <1>0, <2>2, <4>1, OnceNextOrder DEF OnceKept
    <3>2. CASE PositionKept(m)
      <4>1. PICK todo : todo = monitor[m].todo
        OBVIOUS
      <4>2. NextPosition(m, todo) /\ todo \subseteq open'
        BY <1>0, <2>1, <3>2, <4>1 DEF PositionKept, At, PassOnce
      <4> QED
        BY <1>0, <4>2, OnceNextPosition
    <3>3. CASE \E p \in Prices : ExitRefused(m, p)
      <4>1. NextPosition(m, {})
        BY <3>3 DEF ExitRefused, NextPosition
      <4> QED
        BY <1>0, <4>1, OnceNextPosition
    <3> QED
      BY <1>5, <3>1, <3>2, <3>3
  <2>4. \A n \in Monitors : PassOnce(n)'
    BY <2>3 DEF OneMonitor
  <2> QED
    BY <2>2, <2>4 DEF OnceInv, OnceKept
<1>6. ASSUME NEW m \in Monitors, NEW p \in Prices, OrderFills(m, p)
      PROVE  OnceInv'
  <2>0. PICK o, todo : o = monitor[m].cur /\ todo = monitor[m].todo
    OBVIOUS
  <2>1. /\ monitor[m].pc = "order" /\ orders[o].limit # None /\ FillOrder(o, p, {})
        /\ NextOrder(m, todo, orders', open') /\ UNCHANGED <<closed, awaiting>>
    BY <1>6, <2>0 DEF OrderFills, At, LimitMet
  <2>2. o \in DOMAIN orders /\ o \notin Logged
    BY <1>0, <2>0, <2>1 DEF PassOK, PassOnce
  <2>3. orders[o].exits = 0
    BY <2>1, <2>2 DEF OnceInv, SalesOK
  <2>4. /\ OnceKept /\ FillsOnce' /\ ExitsOnce'
        /\ Logged' \subseteq Logged \union {o} /\ open \subseteq open'
    BY <1>0, <2>1, <2>2, <2>3, OnceFill
  <2>5. AwaitingOK'
    <3>1. o \notin awaiting
      BY <1>0, <2>1 DEF AwaitingOK
    <3> QED
      BY <1>0, <2>1, <2>4, <3>1, OnceAwaiting
  <2>6. PassOnce(m)'
    BY <1>0, <2>1, <2>4, OnceNextOrder DEF OnceKept
  <2> QED
    BY <2>4, <2>5, <2>6 DEF OnceInv, OnceKept, OneMonitor
<1>7. ASSUME NEW m \in Monitors, NEW p \in Prices, ExitPlaced(m, p)
      PROVE  OnceInv'
  <2>0. PICK s : s = monitor[m]
    OBVIOUS
  <2>1. PICK sale : sale = NewOrder("sell", orders[log[s.cur].order].shares, None, None, None,
                                    s.cur)
    OBVIOUS
  <2>2. /\ Place(sale) /\ s.pc = "position"
        /\ monitor' = [monitor EXCEPT ![m].pc = "sale", ![m].seen = p,
                                      ![m].sale = Len(orders) + 1]
        /\ UNCHANGED <<log, open, closed, awaiting>>
    BY <1>7, <2>0, <2>1 DEF ExitPlaced, At
  <2>3. sale \in Order /\ sale.exits = s.cur /\ sale.limit = None
    <3>1. s.cur \in DOMAIN log
      BY <1>0, <2>0, <2>2 DEF PassOK
    <3>2. orders[log[s.cur].order] \in Order /\ s.cur \in Nat
      BY <1>0, <3>1, LenProperties DEF TradesOK, TypeOK
    <3> QED
      BY <2>1, <3>2 DEF NewOrder, Order, Sides, Statuses, None
  <2>4. /\ OnceKept /\ FillsOnce' /\ ExitsOnce' /\ Logged' = Logged
        /\ Len(orders) + 1 \notin Logged /\ orders'[Len(orders) + 1] = sale
    BY <2>2, <2>3, OncePlace
  <2>5. AwaitingOK'
    BY <1>0, <2>2, <2>4, OnceAwaiting
  <2>6. PICK new : new = [s EXCEPT !.pc = "sale", !.seen = p, !.sale = Len(orders) + 1]
    OBVIOUS
  <2>7. /\ new.pc = "sale" /\ new.cur = s.cur /\ new.todo = s.todo
        /\ new.sale = Len(orders) + 1 /\ monitor'[m] = new
    BY <1>0, <2>0, <2>2, <2>6 DEF TypeOK, MonitorState
  <2>8. s.cur \in open /\ s.todo \subseteq open /\ s.cur \notin s.todo
    BY <1>0, <2>0, <2>2 DEF PassOnce
  <2>9. PassOnce(m)'
    <3>1. new.sale \notin Logged' /\ orders'[new.sale].exits = new.cur
      BY <2>3, <2>4, <2>7
    <3>2. new.cur \in open' /\ new.todo \subseteq open' /\ new.cur \notin new.todo
      BY <2>2, <2>7, <2>8
    <3> QED
      BY <2>7, <3>1, <3>2 DEF PassOnce
  <2> QED
    BY <2>4, <2>5, <2>9 DEF OnceInv, OnceKept, OneMonitor
<1>8. ASSUME NEW m \in Monitors, ExitFails(m) \/ \E p \in Prices : ExitFills(m, p)
      PROVE  OnceInv'
  <2>0. PICK s : s = monitor[m]
    OBVIOUS
  <2>1. /\ s.pc = "sale" /\ NextPosition(m, s.todo) /\ UNCHANGED awaiting
    BY <1>8, <2>0 DEF ExitFails, ExitFills, At
  <2>2. /\ s.sale \in DOMAIN orders /\ orders[s.sale].side = "sell"
        /\ s.sale \notin Logged /\ orders[s.sale].exits = s.cur
        /\ s.cur \in open /\ s.todo \subseteq open /\ s.cur \notin s.todo
    BY <1>0, <2>0, <2>1 DEF PassOK, PassOnce
  <2>3. /\ OnceKept /\ FillsOnce' /\ ExitsOnce'
        /\ Logged' \subseteq Logged \union {s.sale} /\ open \ {s.cur} \subseteq open'
    <3>1. CASE ExitFails(m)
      <4>1. /\ orders' = [orders EXCEPT ![s.sale].status = "rejected"]
            /\ UNCHANGED <<log, open, closed>>
        BY <2>0, <3>1 DEF ExitFails, Rejected
      <4> QED
        BY <1>0, <2>2, <4>1, OnceStatus DEF Logged
    <3>2. ASSUME NEW p \in Prices, ExitFills(m, p)
          PROVE  /\ OnceKept /\ FillsOnce' /\ ExitsOnce'
                 /\ Logged' \subseteq Logged \union {s.sale} /\ open \ {s.cur} \subseteq open'
      <4>1. PICK e : e = ExitAt(m, p)
        OBVIOUS
      <4>2. e \in Exit /\ e.position = s.cur
        BY <1>0, <2>0, <2>2, <4>1, LenProperties DEF ExitAt, Exit, TypeOK, MonitorState
      <4>3. /\ FillOrder(s.sale, p, {s.cur}) /\ closed' = closed \union {e}
        <5>1. ClosesPosition(m) = {s.cur}
          BY <2>0, <2>2 DEF ClosesPosition
        <5> QED
          BY <2>0, <2>2, <3>2, <4>1, <5>1 DEF ExitFills
      <4> QED
        BY <1>0, <2>2, <4>2, <4>3, OnceFill
    <3> QED
      BY <1>8, <3>1, <3>2
  <2>4. AwaitingOK'
    <3>1. s.sale \notin awaiting
      BY <1>0, <2>2, LenProperties DEF AwaitingOK, TypeOK
    <3> QED
      BY <1>0, <2>1, <2>3, <3>1, OnceAwaiting
  <2>5. PassOnce(m)'
    <3>1. PICK todo : todo = s.todo
      OBVIOUS
    <3>2. NextPosition(m, todo) /\ todo \subseteq open'
      BY <2>1, <2>2, <2>3, <3>1
    <3> QED
      BY <1>0, <3>2, OnceNextPosition
  <2> QED
    BY <2>3, <2>4, <2>5 DEF OnceInv, OnceKept, OneMonitor
<1> QED
  BY <1>1, <1>2, <1>3, <1>4, <1>5, <1>6, <1>7, <1>8
  DEF Next, MarketQuoteArrives, MonitorResumes

\* At the start there is nothing that could have happened twice.
LEMMA OnceInitially == Init => OnceInv
<1> SUFFICES ASSUME Init PROVE OnceInv
  OBVIOUS
<1>1. SalesOK /\ LoggedOK /\ AwaitingOK /\ FillsOnce /\ ExitsOnce
  BY DEF Init, SalesOK, LoggedOK, AwaitingOK, FillsOnce, ExitsOnce
<1>2. \A m \in Monitors : PassOnce(m)
  BY DEF Init, PassOnce, Idle
<1> QED
  BY <1>1, <1>2 DEF OnceInv

\* A step that changes nothing keeps the invariant.
LEMMA OnceStutter ==
  ASSUME IInv, OnceInv, UNCHANGED vars
  PROVE  OnceInv'
<1>1. UNCHANGED <<orders, log, open, closed, awaiting, monitor>>
  BY DEF vars
<1> QED
  BY <1>1, OnceUnchanged DEF OnceInv, OnceKept

\* With one monitor the invariant holds of every behaviour.
LEMMA OnceInvariance == OneMonitor /\ Spec => []OnceInv
<1>1. OneMonitor /\ IInv /\ OnceInv /\ [Next]_vars => OnceInv'
  BY OnceStep, OnceStutter
<1>2. ASSUME OneMonitor PROVE Spec => []OnceInv
  <2>1. IInv /\ OnceInv /\ [Next]_vars => OnceInv'
    BY <1>1, <1>2
  <2> QED
    BY <2>1, OnceInitially, Invariance, PTL DEF Spec
<1> QED
  BY <1>2

\* While one coroutine runs check_and_fill_pending, no order is filled twice, also
\* when it and the order's own place_order await quotes for it.
THEOREM OneFill == OneMonitor /\ Spec => []FillsOnce
<1>1. OnceInv => FillsOnce
  BY DEF OnceInv
<1> QED
  BY <1>1, OnceInvariance, PTL

\* While one coroutine does, the sales _check_stop_take got filled are exactly the
\* exits the portfolio recorded, each of a position of its own.
THEOREM OneExit == OneMonitor /\ Spec => []ExitsMatchSales
<1>1. OnceInv => ExitsMatchSales
  <2> SUFFICES ASSUME OnceInv PROVE ExitsMatchSales
    OBVIOUS
  <2>1. \A e \in closed : e.position \in {orders[log[i].order].exits : i \in DOMAIN log} \ {0}
    BY DEF OnceInv, ExitsOnce, ExitOf
  <2>2. \A i \in DOMAIN log : orders[log[i].order].exits # 0 =>
          orders[log[i].order].exits \in {e.position : e \in closed}
    BY DEF OnceInv, ExitsOnce, ExitOf
  <2>3. {e.position : e \in closed} \intersect open = {}
    BY DEF OnceInv, ExitsOnce
  <2>4. \A i, j \in DOMAIN log :
          /\ orders[log[i].order].exits # 0
          /\ orders[log[i].order].exits = orders[log[j].order].exits
          => i = j
    BY DEF OnceInv, ExitsOnce, ExitOf
  <2>5. {e.position : e \in closed} = {orders[log[i].order].exits : i \in DOMAIN log} \ {0}
    BY <2>1, <2>2
  <2> QED
    BY <2>3, <2>4, <2>5 DEF ExitsMatchSales
<1> QED
  BY <1>1, OnceInvariance, PTL
=============================================================================
