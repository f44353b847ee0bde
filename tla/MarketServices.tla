--------------------------- MODULE MarketServices ---------------------------
(***************************************************************************)
(* The services about a whole market: the universe of tradable codes       *)
(* (atlas/domain/universe.py), the regime of the index (market_regime.py), *)
(* the breadth of the market (breadth.py), the institutions' funds         *)
(* (fund_flow.py) and the strength of the industries                       *)
(* (industry_analyzer.py).                                                 *)
(*                                                                         *)
(* One market.  A coroutine of the universe service that waits is an entry *)
(* of calls; the others' waits are followed by one assignment, and they    *)
(* are steps.  The stateless services leave what they say in report.       *)
(* Returns and percentages are in whole percents.                          *)
(***************************************************************************)
EXTENDS Integers, FiniteSets, FiniteSetsExt, Sequences, SequencesExt

CONSTANTS
  None,          \* Python's None, and a key that is not in a dictionary
  Calls,         \* coroutines that may call the universe service
  Tables,        \* what a day's table may say: [codes -> [close, lots]]
  Dispositions,  \* what the list of disposition stocks may be, {} if it fails
  Adjustable,    \* codes that are added and removed by hand
  Fresh,         \* days before a universe is rebuilt (30)
  LastSvcDay,    \* bound of the model: the last day
  WindowTurn,    \* days into a year after which its own bars are taken (120)
  LongestMa,     \* bars of the longest average of the regime (89)
  BarsOn,        \* bars of the index from the first of the year to each day
  BarsLastYear   \* bars of the index in the year before

VARIABLES
  svcDay,       \* date.today()
  universe,     \* _universe[market], None if it is not there
  blacklist,    \* _blacklist[market]
  lastBuild,    \* _last_build[market]
  filterStats,  \* _filter_stats[market]: how many codes pass each layer
  stored,       \* the codes of the cache, {} if there are none
  calls,        \* what each coroutine waits for, and the local variables it has
  regime,       \* MarketRegimeService._last_result[market]
  report        \* what the last stateless service said

universeVars == <<universe, blacklist, lastBuild, filterStats, stored, calls>>
servicesVars == <<svcDay, universe, blacklist, lastBuild, filterStats, stored, calls, regime, report>>

Idle == [waits |-> "no"]

-----------------------------------------------------------------------------
(* UniverseService *)

Codes(u) == IF u = None THEN {} ELSE u

\* The layers of build_universe: liquidity, disposition stocks, volume again
\* (which rejects nothing, being the lower limit), and the blacklist.
Liquid(table) == {c \in DOMAIN table : table[c].lots >= 500 /\ table[c].close >= 10}

Layers(table, disposition) ==
  LET regular == Liquid(table) \ disposition
      active  == {c \in regular : table[c].lots >= 100}
  IN  <<Liquid(table), regular, active, active \ blacklist>>

\* What a caller does that needs a build: nothing when the universe is fresh.
BeginBuild(c, op, force) ==
  IF ~ force /\ lastBuild # None /\ svcDay - lastBuild < Fresh
  THEN calls' = [calls EXCEPT ![c] = Idle]
  ELSE calls' = [calls EXCEPT ![c] = [waits |-> "table", op |-> op, old |-> Codes(universe)]]

GetUniverse(c) ==
  /\ calls[c] = Idle
  /\ universe = None
  /\ calls' = [calls EXCEPT ![c] = [waits |-> "cache"]]
  /\ UNCHANGED <<svcDay, universe, blacklist, lastBuild, filterStats, stored, regime, report>>

Restored(c) ==
  /\ calls[c].waits = "cache"
  /\ IF stored # {}
     THEN /\ universe' = stored
          /\ calls' = [calls EXCEPT ![c] = Idle]
     ELSE /\ BeginBuild(c, "get", FALSE)
          /\ UNCHANGED universe
  /\ UNCHANGED <<svcDay, blacklist, lastBuild, filterStats, stored, regime, report>>

BuildUniverse(c, force) ==
  /\ calls[c] = Idle
  /\ BeginBuild(c, "build", force)
  /\ UNCHANGED <<svcDay, universe, blacklist, lastBuild, filterStats, stored, regime, report>>

GetFilterReport(c) ==
  /\ calls[c] = Idle
  /\ filterStats = None
  /\ BeginBuild(c, "report", FALSE)
  /\ UNCHANGED <<svcDay, universe, blacklist, lastBuild, filterStats, stored, regime, report>>

GetMonthlyDiff(c) ==
  /\ calls[c] = Idle
  /\ BeginBuild(c, "diff", TRUE)
  /\ UNCHANGED <<svcDay, universe, blacklist, lastBuild, filterStats, stored, regime, report>>

Diff(old, new) == [added |-> new \ old, removed |-> old \ new, retained |-> old \intersect new]

Said(c, codes) ==
  report' = IF calls[c].op = "diff" THEN Diff(calls[c].old, codes) ELSE report

\* The rest of build_universe that puts back the codes it found when it began.
EndBuildPuttingBack(c, table, disposition) ==
  LET layers == Layers(table, disposition)
  IN  /\ calls[c].waits = "table"
      /\ universe' = IF table = <<>> THEN calls[c].old ELSE layers[4]
      /\ lastBuild' = IF table = <<>> THEN lastBuild ELSE svcDay
      /\ filterStats' = IF table = <<>> THEN filterStats ELSE [i \in 1 .. 4 |-> Cardinality(layers[i])]
      /\ stored' = IF table = <<>> THEN stored ELSE layers[4]
      /\ calls' = [calls EXCEPT ![c] = Idle]
      /\ Said(c, Codes(universe'))
      /\ UNCHANGED <<svcDay, blacklist, regime>>

\* The rest of build_universe, from the table on: without one, nothing changes.
EndBuild(c, table, disposition) ==
  LET layers == Layers(table, disposition)
  IN  /\ calls[c].waits = "table"
      /\ IF table = <<>>
         THEN UNCHANGED <<universe, lastBuild, filterStats, stored>>
         ELSE /\ universe' = layers[4]
              /\ lastBuild' = svcDay
              /\ filterStats' = [i \in 1 .. 4 |-> Cardinality(layers[i])]
              /\ stored' = layers[4]
      /\ calls' = [calls EXCEPT ![c] = Idle]
      /\ Said(c, Codes(universe'))
      /\ UNCHANGED <<svcDay, blacklist, regime>>

\* A code that is added again stays on the blacklist, and the cache keeps the
\* codes it had.
ManualAdjust(add, remove) ==
  /\ universe' = (Codes(universe) \union add) \ remove
  /\ blacklist' = blacklist \union remove
  /\ UNCHANGED <<svcDay, lastBuild, filterStats, stored, calls, regime, report>>

\* The process ends and another one begins with what the cache has.
Restart ==
  /\ universe' = None
  /\ blacklist' = {}
  /\ lastBuild' = None
  /\ filterStats' = None
  /\ calls' = [c \in Calls |-> Idle]
  /\ regime' = None
  /\ UNCHANGED <<svcDay, stored, report>>

NextSvcDay ==
  /\ svcDay < LastSvcDay
  /\ svcDay' = svcDay + 1
  /\ UNCHANGED <<universe, blacklist, lastBuild, filterStats, stored, calls, regime, report>>

Expire ==
  /\ stored' = {}
  /\ UNCHANGED <<svcDay, universe, blacklist, lastBuild, filterStats, calls, regime, report>>

-----------------------------------------------------------------------------
(* MarketRegimeService.  index is how the averages of the index are ordered   *)
(* and how strong its trend is.                                               *)

BarsOfWindow ==
  IF svcDay > WindowTurn THEN BarsOn[svcDay] ELSE BarsLastYear + BarsOn[svcDay]

RegimeOf(index) ==
  CASE index.order = "bull" /\ index.strength > 2  -> "bull"
    [] index.order = "bear" /\ index.strength < -2 -> "bear"
    [] OTHER                                       -> "range"

\* Too few bars make a result that is not kept.
UpdateRegime(index) ==
  /\ regime' = IF BarsOfWindow < LongestMa THEN regime
               ELSE [state |-> RegimeOf(index),
                     changed |-> regime # None /\ regime.state # RegimeOf(index)]
  /\ report' = IF BarsOfWindow < LongestMa THEN [regime |-> "range"]
               ELSE [regime |-> RegimeOf(index)]
  /\ UNCHANGED <<svcDay, universe, blacklist, lastBuild, filterStats, stored, calls>>

GetRegime(index) ==
  IF regime = None THEN UpdateRegime(index)
  ELSE report' = [regime |-> regime.state] /\ UNCHANGED <<svcDay, universeVars, regime>>

-----------------------------------------------------------------------------
(* BreadthService.  moves is each stock's change since the day's opening.     *)

Share(part, whole, cap) == Min({cap, (cap * part) \div whole})

Breadth(moves) ==
  LET up    == Cardinality({c \in DOMAIN moves : moves[c] > 0})
      down  == Cardinality({c \in DOMAIN moves : moves[c] < 0})
      above == (100 * up) \div Cardinality(DOMAIN moves)
      highs == Cardinality({c \in DOMAIN moves : moves[c] > 5})
      lows  == Cardinality({c \in DOMAIN moves : moves[c] < -5})
  IN  IF moves = <<>> THEN 0
      ELSE Share(up, 2 * Max({down, 1}), 30) + Share(above, 70, 30) + Share(8 * above, 500, 20)
           + Max({0, Share(highs - lows + 50, 100, 20)})

CalculateBreadth(moves) ==
  /\ report' = [breadth |-> Breadth(moves)]
  /\ UNCHANGED <<svcDay, universeVars, regime>>

-----------------------------------------------------------------------------
(* FundFlowService.  nets is the net buying of each institution, day by day.  *)

Consecutive(net) ==
  LET sign == IF Last(net) > 0 THEN 1 ELSE IF Last(net) < 0 THEN -1 ELSE 0
      runs == {k \in 1 .. Len(net) : \A i \in Len(net) - k + 1 .. Len(net) : sign * net[i] > 0}
  IN  IF net = <<>> THEN 0 ELSE sign * Max(runs \union {0})

AbsSum(net) == FoldLeft(LAMBDA a, b : a + (IF b < 0 THEN -b ELSE b), 0, net)

NetSum(net) == FoldLeft(LAMBDA a, b : a + b, 0, net)

\* detect_anomaly: more than three times the mean; the day itself is in the mean.
IsAnomaly(net) ==
  /\ Len(net) >= 5
  /\ AbsSum(<<Last(net)>>) * Len(net) > 3 * AbsSum(net)

\* get_industry_flow_rank: what the stocks of an industry that have data took in
TotalNet(nets, codes) ==
  LET ranked == {c \in {codes[i] : i \in 1 .. Min({50, Len(codes)})} : nets[c] # <<>>}
  IN  MapThenSumSet(LAMBDA c : NetSum(nets[c]), ranked)

AskFlow(nets, industries) ==
  /\ report' = [days |-> [c \in DOMAIN nets |-> Consecutive(nets[c])],
                anomalies |-> {c \in DOMAIN nets : IsAnomaly(nets[c])},
                flows |-> [i \in DOMAIN industries |-> TotalNet(nets, industries[i])]]
  /\ UNCHANGED <<svcDay, universeVars, regime>>

-----------------------------------------------------------------------------
(* IndustryAnalyzer.  industries is a sequence of the industries' codes, and  *)
(* returns of each code the returns over the periods it has bars for.         *)

Rs(codes, returns, period) ==
  LET sampled == {c \in {codes[i] : i \in 1 .. Min({10, Len(codes)})} : period \in DOMAIN returns[c]}
  IN  IF sampled = {} THEN 0
      ELSE MapThenSumSet(LAMBDA c : returns[c][period], sampled) \div Cardinality(sampled)

\* The position of each index in a stable descending sort of keys, which are
\* in the order of before.
Ranks(keys, before) ==
  [i \in DOMAIN keys |->
     1 + Cardinality({j \in DOMAIN keys : \/ keys[j] > keys[i]
                                          \/ keys[j] = keys[i] /\ before[j] < before[i]})]

\* detect_rotation: the industries three places higher or lower in the short
\* ranking than in the long one
Rotation(industries, returns) ==
  LET full   == {i \in DOMAIN industries : industries[i] # <<>>}
      long   == Ranks([i \in full |-> Rs(industries[i], returns, "long")], [i \in full |-> i])
      short  == Ranks([i \in full |-> Rs(industries[i], returns, "short")], long)
      change == [i \in full |-> long[i] - short[i]]
  IN  [rising |-> {i \in full : change[i] >= 3}, falling |-> {i \in full : change[i] <= -3}]

DetectRotation(industries, returns) ==
  /\ report' = Rotation(industries, returns)
  /\ UNCHANGED <<svcDay, universeVars, regime>>

ServicesInit ==
  /\ svcDay = 1
  /\ universe = None
  /\ blacklist = {}
  /\ lastBuild = None
  /\ filterStats = None
  /\ stored = {}
  /\ calls = [c \in Calls |-> Idle]
  /\ regime = None
  /\ report = None

UniverseNext ==
  \/ \E c \in Calls :
       \/ GetUniverse(c) \/ Restored(c) \/ GetFilterReport(c) \/ GetMonthlyDiff(c)
       \/ \E force \in BOOLEAN : BuildUniverse(c, force)
       \/ \E table \in Tables \union {<<>>}, disposition \in Dispositions :
            EndBuild(c, table, disposition)
  \/ \E add, remove \in SUBSET Adjustable : ManualAdjust(add, remove)
  \/ Restart
  \/ NextSvcDay
  \/ Expire

\* Each service at any time, whatever the others have said.
MarketNext ==
  \/ UniverseNext
  \/ \E index : UpdateRegime(index) \/ GetRegime(index)
  \/ \E moves : CalculateBreadth(moves)
  \/ \E nets, industries : AskFlow(nets, industries)
  \/ \E industries, returns : DetectRotation(industries, returns)

MarketSpec == ServicesInit /\ [][MarketNext]_servicesVars

-----------------------------------------------------------------------------
(* Properties *)

\* However a build of the universe and the adjustments by hand interleave, a
\* build brings no code of the blacklist back: it reads the blacklist after the
\* table has come, not when it is called.
ExcludedStayOut ==
  [][\A c \in Calls :
       calls[c].waits = "table" /\ calls'[c] = Idle
         => blacklist' \intersect Codes(universe') \subseteq Codes(universe)]_servicesVars
=============================================================================
