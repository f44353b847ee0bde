--------------------------- MODULE MarketDownloads ---------------------------
(***************************************************************************)
(* The tables that are downloaded for the whole market, and what a process *)
(* keeps of them: the exchanges' daily and institutional tables            *)
(* (atlas/infrastructure/twse_bulk.py), the margin tables (margin_data.py) *)
(* and the futures exchange's tables (taifex_data.py).                     *)
(*                                                                         *)
(* Each table has a dictionary by date, some keep failures in it as well,  *)
(* and three of them take their date from a global that the daily table    *)
(* sets.  A table stands for the day it is of; that is what the callers    *)
(* can mix up.  Days are numbered; a week has Workdays days and a rest.    *)
(***************************************************************************)
EXTENDS Integers, FiniteSets, FiniteSetsExt

CONSTANTS
  Week, Workdays,  \* length of a week, and of the part of it with trading
  Lookback,        \* how many days a download goes back, today's included
  Holidays,        \* days without trading in spite of that
  FirstDay, MaxDay \* bounds of a behaviour

\* Every day that a download may go back to has a number above 0.
ASSUME DaysAssumption ==
  /\ {Week, Lookback} \subseteq Nat \ {0}
  /\ {Workdays, MaxDay, FirstDay} \subseteq Nat
  /\ FirstDay >= 2 * Lookback

VARIABLES
  today,      \* date.today()
  published,  \* the newest day each table is published of
  cached,     \* the dictionaries _..._cache
  lastTradingDate,  \* last_trading_date
  screened,   \* the tables that the last scan of SmartScreener put together
  quoted      \* what the last call of fetch_futures_basis was made of

downloadVars == <<today, published, cached, lastTradingDate, screened, quoted>>

NoDay == -1  \* Python's None
Empty == 0   \* an empty table

IsWorkday(d)   == d % Week < Workdays
IsTradingDay(d) == IsWorkday(d) /\ d \notin Holidays

LookingBack == {"twse_daily", "twse_margin", "tpex_margin", "twse_lending"}
KeepingFailures == {"futures_institutional", "put_call_ratio", "top10_traders"}
FollowingDaily == {"twse_institutional", "tpex_daily", "tpex_institutional"}
OfToday == {"futures_day", "futures_night"}
Others  == {"futures_tx", "futures_mtx", "mi_index"}
AllTables == LookingBack \union KeepingFailures \union FollowingDaily \union OfToday \union Others
Keys    == (AllTables \ Others) \union {"futures_daily", "basis"}

Nothing == [daily |-> Empty, otc |-> Empty, inst |-> Empty, otcInst |-> Empty, asked |-> NoDay]

DownloadInit ==
  /\ today = FirstDay
  /\ published = [t \in AllTables |-> FirstDay - 1]
  /\ cached = [k \in Keys |-> <<>>]
  /\ lastTradingDate = NoDay
  /\ screened = Nothing
  /\ quoted = [spot |-> Empty, futures |-> Empty]

-----------------------------------------------------------------------------
(* Requests *)

\* _find_trading_date
FindTradingDate(d) ==
  LET days == {x \in d - Lookback + 1 .. d : IsWorkday(x)}
  IN  IF days = {} THEN d ELSE Max(days)

\* Weekends are passed over, a failed request counts as a day without trading.
Found(t, key, tries, lost) ==
  LET days == {x \in key - tries + 1 .. key :
                 IsTradingDay(x) /\ x <= published[t] /\ <<t, x>> \notin lost}
  IN  IF days = {} THEN Empty ELSE Max(days)

\* A process's memory: the dictionaries and the global.
Memory == [cached |-> cached, last |-> lastTradingDate]
Known(m, k, key) == key \in DOMAIN m.cached[k]
Entered(f, key, table) == [d \in DOMAIN f \union {key} |-> IF d = key THEN table ELSE f[d]]
Keep(m, k, key, table) == [m EXCEPT !.cached[k] = Entered(@, key, table)]
Reply(m, table) == [table |-> table, memory |-> m]

\* The global set to the day that was asked for.
RememberAsked(m, t, key, table) == IF t = "twse_daily" THEN [m EXCEPT !.last = key] ELSE m
Remember(m, t, key, table) == IF t = "twse_daily" THEN [m EXCEPT !.last = table] ELSE m

\* fetch_twse_daily_all and its like, asked without a date.
FetchBack(m, t, lost) ==
  LET key   == FindTradingDate(today)
      table == Found(t, key, Lookback, lost)
  IN  IF Known(m, t, key) THEN Reply(m, m.cached[t][key])
      ELSE IF table # Empty
        THEN Reply(Keep(Remember(m, t, key, table), t, key, table), table)
      ELSE Reply(m, Empty)

\* fetch_futures_institutional, fetch_put_call_ratio and fetch_top10_traders:
\* that there is no table is remembered as well.
FetchKeeping(m, t, lost) ==
  LET key   == FindTradingDate(today)
      table == Found(t, key, Lookback, lost)
  IN  IF Known(m, t, key) THEN Reply(m, m.cached[t][key])
                          ELSE Reply(Keep(m, t, key, table), table)

\* fetch_twse_institutional, fetch_tpex_daily_all and fetch_tpex_institutional:
\* TPEx says nothing of a day it has no table of, and the empty table is kept.
FetchFollowing(m, t, lost) ==
  LET day   == IF m.last = NoDay THEN FindTradingDate(today) ELSE m.last
      table == Found(t, day, 1, lost)
  IN  IF Known(m, t, day) THEN Reply(m, m.cached[t][day])
      ELSE IF table # Empty \/ (t # "twse_institutional" /\ <<t, day>> \notin lost)
        THEN Reply(Keep(m, t, day, table), table)
      ELSE Reply(m, Empty)

\* fetch_taifex_futures
FetchOfToday(m, t, lost) ==
  LET table == Found(t, today, 1, lost)
  IN  IF Known(m, t, today) THEN Reply(m, m.cached[t][today])
      ELSE Reply(IF table = Empty THEN m ELSE Keep(m, t, today, table), table)

\* fetch_futures_daily for a given date: whatever came of it is kept.
FuturesDaily(m, key, lost) ==
  IF Known(m, "futures_daily", key) THEN Reply(m, m.cached["futures_daily"][key])
  ELSE LET tables == <<Found("futures_tx", key, 1, lost), Found("futures_mtx", key, 1, lost)>>
       IN  Reply(Keep(m, "futures_daily", key, tables), tables)

\* fetch_futures_basis; there is no fetch_mi_index to import.
FuturesBasis(m, lost) ==
  LET key     == FindTradingDate(today)
      futures == FuturesDaily(m, key, lost)
      basis   == IF futures.table[1] = Empty THEN [spot |-> Empty, futures |-> Empty]
                 ELSE [spot |-> Found("mi_index", key, Lookback, lost), futures |-> futures.table[1]]
  IN  IF Known(m, "basis", key) THEN Reply(m, m.cached["basis"][key])
      ELSE Reply(Keep(futures.memory, "basis", key, basis), basis)

-----------------------------------------------------------------------------
(* Steps *)

NextDay ==
  /\ today < MaxDay
  /\ today' = today + 1
  /\ UNCHANGED <<published, cached, lastTradingDate, screened, quoted>>

\* A table comes out on its day or later, the older ones first.
Publish(t) ==
  /\ published[t] < today
  /\ published' = [published EXCEPT ![t] = @ + 1]
  /\ UNCHANGED <<today, cached, lastTradingDate, screened, quoted>>

Recall(m) == cached' = m.cached /\ lastTradingDate' = m.last

Fetch(t, lost) ==
  /\ \/ t \in LookingBack /\ Recall(FetchBack(Memory, t, lost).memory)
     \/ t \in KeepingFailures /\ Recall(FetchKeeping(Memory, t, lost).memory)
     \/ t \in FollowingDaily /\ Recall(FetchFollowing(Memory, t, lost).memory)
     \/ t \in OfToday /\ Recall(FetchOfToday(Memory, t, lost).memory)
  /\ UNCHANGED <<today, published, screened, quoted>>

FetchBasis(lost) ==
  LET basis == FuturesBasis(Memory, lost)
  IN  /\ Recall(basis.memory)
      /\ quoted' = basis.table
      /\ UNCHANGED <<today, published, screened>>

\* The tables of SmartScreener.scan, the institutional ones only if there is
\* a stock to look at.
Scan(lost) ==
  LET daily   == FetchBack(Memory, "twse_daily", lost)
      otc     == FetchFollowing(daily.memory, "tpex_daily", lost)
      inst    == FetchFollowing(otc.memory, "twse_institutional", lost)
      otcInst == FetchFollowing(inst.memory, "tpex_institutional", lost)
  IN  /\ IF daily.table = Empty /\ otc.table = Empty
           THEN /\ Recall(otc.memory)
                /\ screened' = Nothing
           ELSE /\ Recall(otcInst.memory)
                /\ screened' = [daily |-> daily.table, otc |-> otc.table, inst |-> inst.table,
                                otcInst |-> otcInst.table, asked |-> otcInst.memory.last]
      /\ UNCHANGED <<today, published, quoted>>

DownloadNext ==
  \/ NextDay
  \/ \E t \in AllTables : Publish(t)
  \/ \E lost \in SUBSET (AllTables \X Int) :
       \/ \E t \in AllTables : Fetch(t, lost)
       \/ FetchBasis(lost)
       \/ Scan(lost)

DownloadSpec == DownloadInit /\ [][DownloadNext]_downloadVars

-----------------------------------------------------------------------------
(* Properties *)

\* A scan never puts the tables of different days together: whatever was cached
\* when, published late or lost, the daily table and the others are of one day.
ScansOneDay ==
  LET days == {screened.daily, screened.otc, screened.inst, screened.otcInst} \ {Empty}
  IN  Cardinality(days) <= 1
=============================================================================
