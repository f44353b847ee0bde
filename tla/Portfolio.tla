----------------------------- MODULE Portfolio ------------------------------
(***************************************************************************)
(* PortfolioManager of atlas/domain/portfolio.py: the journal of positions *)
(* and what is computed from it.  A journal id is the place of the         *)
(* position in the order they were opened; prices are whole.  R multiples  *)
(* are in hundredths.                                                      *)
(***************************************************************************)
EXTENDS Integers, FiniteSets, FiniteSetsExt, Sequences, SequencesExt

CONSTANTS
  HeldCodes,     \* stock codes
  MaxPositions,  \* bound of the model: positions opened
  LotSize        \* shares of a lot (1000)

\* Journal ids count from 1.
Ids == Nat \ {0}
Position == [code : HeldCodes, market : {"TW", "US"}, entry : Int, shares : Int, stop : Int]
Exits == [position : Position, exit : Int]

VARIABLES
  opened,     \* how many journal ids were given out
  positions,  \* _positions: [journal ids -> positions]
  closed,     \* _closed
  stats       \* what the last call of a query returned

portfolioVars == <<opened, positions, closed, stats>>

AddPosition(position) ==
  /\ opened < MaxPositions
  /\ opened' = opened + 1
  /\ positions' = [id \in DOMAIN positions \union {opened + 1} |->
                     IF id = opened + 1 THEN position ELSE positions[id]]
  /\ UNCHANGED <<closed, stats>>

\* The position looked up, and left among the open ones.
ClosePositionKeeping(id, price) ==
  /\ id \in DOMAIN positions
  /\ closed' = Append(closed, [position |-> positions[id], exit |-> price])
  /\ UNCHANGED <<opened, positions, stats>>

\* close_position; an id that is not there is only logged.
ClosePosition(id, price) ==
  /\ id \in DOMAIN positions
  /\ positions' = [i \in DOMAIN positions \ {id} |-> positions[i]]
  /\ closed' = Append(closed, [position |-> positions[id], exit |-> price])
  /\ UNCHANGED <<opened, stats>>

Pnl(position, price) == (price - position.entry) * position.shares

RMultiple(position, price) ==
  LET risk == position.entry - position.stop
  IN  IF risk > 0 THEN (100 * (price - position.entry)) \div risk ELSE 0

\* update_unrealized_pnl: a code without a quote is left out.
Unrealized(quotes) ==
  [id \in {i \in DOMAIN positions : positions[i].code \in DOMAIN quotes} |->
     [pnl |-> Pnl(positions[id], quotes[positions[id].code]),
      r   |-> RMultiple(positions[id], quotes[positions[id].code])]]

TotalPnl == FoldLeft(LAMBDA sum, c : sum + Pnl(c.position, c.exit), 0, closed)

\* get_performance_stats
Performance ==
  [trades |-> Len(closed),
   wins   |-> Cardinality({i \in DOMAIN closed : Pnl(closed[i].position, closed[i].exit) > 0}),
   pnl    |-> TotalPnl,
   r      |-> FoldLeft(LAMBDA sum, c : sum + RMultiple(c.position, c.exit), 0, closed)]

\* calculate_position_size: at least one lot, or one share, whatever it risks
PositionSize(market, entry, stop, budget) ==
  LET risk == IF entry > stop THEN entry - stop ELSE stop - entry
  IN  IF risk = 0 THEN 0
      ELSE IF market = "TW" THEN LotSize * Max({1, (budget \div risk) \div LotSize})
      ELSE Max({1, budget \div risk})

\* the queries, with get_open_positions of a market
Query(quotes, market, stop, budget) ==
  /\ stats' = [quotes |-> quotes, unrealized |-> Unrealized(quotes), performance |-> Performance,
               open |-> {id \in DOMAIN positions : positions[id].market = market},
               size |-> PositionSize(market, Max({quotes[c] : c \in DOMAIN quotes} \union {1}),
                                     stop, budget)]
  /\ UNCHANGED <<opened, positions, closed>>

PortfolioInit ==
  /\ opened = 0
  /\ positions = <<>>
  /\ closed = <<>>
  /\ stats = <<>>

PortfolioNext ==
  \/ \E position \in Position : AddPosition(position)
  \/ \E id \in Ids, price \in Int : ClosePosition(id, price)
  \/ \E quotes, market, stop, budget : Query(quotes, market, stop, budget)

PortfolioSpec == PortfolioInit /\ [][PortfolioNext]_portfolioVars

-----------------------------------------------------------------------------
(* Properties *)

\* Every position that was opened is either among the open ones, whose gain is
\* unrealized, or once among the closed ones, which the performance adds up;
\* closing it twice or with an id that is gone changes nothing.
CountedOnce == Cardinality(DOMAIN positions) + Len(closed) = opened
=============================================================================
