----------------------------- MODULE DataManager -----------------------------
(***************************************************************************)
(* The data manager (atlas/infrastructure/data_manager.py): bars and other *)
(* data of a stock by way of the cache, the database and the sources on    *)
(* the network, with the way back.                                         *)
(*                                                                         *)
(* Calls overlap: an action is a call's segment between two awaits.  Redis,*)
(* PostgreSQL and every source may fail at each of them.  A bar is its day *)
(* and the source it comes from; a source that answers knows all the days  *)
(* the stock was traded.  The definitions begin with DM, since a module    *)
(* that composes the components extends this one.                          *)
(***************************************************************************)
EXTENDS Integers

CONSTANTS
  DMCallers,  \* coroutines that call the data manager
  StockCodes, \* what callers take for codes: records of market, length, kind
  LastDay,    \* bound: days are numbered from 0
  MonthDays,  \* days of a month
  Listed(_),  \* the days a code was traded
  DMCacheOn,  \* whether the data manager was given a cache manager
  Ranges,     \* bound: the days free callers ask about, from and to
  MaxAsked    \* bound: requests of free callers in a behaviour

ASSUME DMAssumption ==
  /\ LastDay \in Nat
  /\ StockCodes # {}
  /\ Ranges \subseteq (0 .. LastDay) \X (0 .. LastDay)
  /\ MonthDays \in Nat \ {0}
  /\ \A code \in StockCodes : Listed(code) \subseteq 0 .. LastDay

VARIABLES
  dmDb,    \* daily_bars: for each code the source of the row of each day
  dmCache, \* Redis: the rows kept under each key
  dmCall,  \* where each call stands
  dmAsked  \* how many requests of theirs there have been

dmVars == <<dmDb, dmCache, dmCall, dmAsked>>

Days == 0 .. LastDay

\* Rows are a function from days to their source.
NoRows == [d \in {} |-> "none"]
RowsOf(src, days) == [d \in days |-> src]
Between(rows, from, to) == [d \in {x \in DOMAIN rows : from <= x /\ x <= to} |-> rows[d]]

\* save_daily_bars: INSERT, ON CONFLICT UPDATE.
Upsert(old, new) ==
  [d \in DOMAIN old \union DOMAIN new |-> IF d \in DOMAIN new THEN new[d] ELSE old[d]]

\* _validate_code.
ValidCode(code) ==
  /\ code.length > 0
  /\ code.market = "TW" => code.length \in 4 .. 6 /\ code.kind = "digits"
  /\ code.market = "US" => code.length \in 1 .. 5 /\ code.kind = "letters"

\* What fetch_daily_bars, fetch_daily_all, fetch_institutional_flow,
\* fetch_margin_trading, fetch_revenue, fetch_quarterly_financials and
\* validate_data_completeness are called for.
Cached   == {"daily", "all"}
ByDay    == {"flow", "margin"}
Reports  == {"revenue", "quarter"}
Kinds    == Cached \union ByDay \union Reports \union {"complete"}
Asleep ==
  [pc |-> "idle", kind |-> "daily", code |-> CHOOSE code \in StockCodes : TRUE,
   from |-> 0, to |-> 0, at |-> 0, rows |-> NoRows, res |-> "none"]

\* The key of fetch_daily_all names the market only.
KeyOf(k) ==
  [kind |-> k.kind, from |-> k.from, to |-> k.to,
   code |-> IF k.kind = "all" THEN CHOOSE code \in StockCodes : code.market = k.code.market
                              ELSE k.code]
TwseMonth(day) == MonthDays * (day \div MonthDays)

DMInit ==
  /\ dmDb = [code \in StockCodes |-> NoRows]
  /\ dmCache = [key \in {} |-> NoRows]
  /\ dmCall = [c \in DMCallers |-> Asleep]
  /\ dmAsked = 0

-----------------------------------------------------------------------------
\* The call goes on, or is over with a result.
GoOn(c, pc, rows) ==
  dmCall' = [dmCall EXCEPT ![c].pc = pc, ![c].rows = rows, ![c].at = dmCall[c].from]
Answer(c, res, rows) ==
  dmCall' = [dmCall EXCEPT ![c].pc = "idle", ![c].res = res, ![c].rows = rows]

\* Where a valid request begins; the market's checks come after the cache for
\* fetch_daily_all and before anything else for what only Taiwan has.
FirstStep(kind, code) ==
  IF kind \in Cached /\ DMCacheOn THEN "cache"
  ELSE IF kind = "daily"          THEN "db"
  ELSE IF kind = "complete"       THEN "count"
  ELSE IF code.market # "TW"      THEN "unsupported"
  ELSE IF kind = "all"            THEN "everything"
  ELSE IF kind \in ByDay          THEN "day"
  ELSE "mops"

DMRequest(c, kind, code, from, to) ==
  /\ dmCall[c].pc = "idle"
  /\ LET refused == kind \notin {"all", "complete"} /\ ~ValidCode(code)
         first   == FirstStep(kind, code)
     IN  dmCall' = [dmCall EXCEPT ![c] =
           [pc   |-> IF refused \/ first = "unsupported" THEN "idle" ELSE first,
            kind |-> kind, code |-> code, from |-> from, to |-> to, at |-> from,
            rows |-> NoRows,
            res  |-> IF refused THEN "invalid"
                     ELSE IF first = "unsupported" THEN "nothing" ELSE "none"]]
  /\ UNCHANGED <<dmDb, dmCache>>

\* CacheManager.get answers None for a miss and for an error.
CacheHit(c) ==
  /\ dmCall[c].pc = "cache"
  /\ KeyOf(dmCall[c]) \in DOMAIN dmCache
  /\ Answer(c, "rows", dmCache[KeyOf(dmCall[c])])
  /\ UNCHANGED <<dmDb, dmCache, dmAsked>>
CacheMiss(c) ==
  /\ dmCall[c].pc = "cache"
  /\ LET k == dmCall[c]
     IN  \/ k.kind = "daily" /\ GoOn(c, "db", NoRows)
         \/ k.kind # "daily" /\ k.code.market = "TW" /\ GoOn(c, "everything", NoRows)
         \/ k.kind # "daily" /\ k.code.market # "TW" /\ Answer(c, "nothing", NoRows)
  /\ UNCHANGED <<dmDb, dmCache, dmAsked>>

\* Any rows in the range will do; an error of the database counts as none.
DbHit(c) ==
  /\ dmCall[c].pc = "db"
  /\ LET k == dmCall[c]
         rows == Between(dmDb[k.code], k.from, k.to)
     IN  /\ DOMAIN rows # {}
         /\ IF DMCacheOn THEN GoOn(c, "put", rows) ELSE Answer(c, "rows", rows)
  /\ UNCHANGED <<dmDb, dmCache, dmAsked>>
DbMiss(c) ==
  /\ dmCall[c].pc = "db"
  /\ GoOn(c, "yfinance", NoRows)
  /\ UNCHANGED <<dmDb, dmCache, dmAsked>>

-----------------------------------------------------------------------------
(* fetch_daily_bars: the sources *)

SourceFails(c) ==
  IF dmCall[c].pc = "yfinance" /\ dmCall[c].code.market = "TW"
    THEN dmCall' = [dmCall EXCEPT ![c].pc = "twse", ![c].rows = NoRows,
                                  ![c].at = TwseMonth(dmCall[c].from)]
    ELSE Answer(c, "exhausted", NoRows)

ListedIn(k, from, to) == {d \in Listed(k.code) : from <= d /\ d <= to}

\* yfinance has all the days or, with no day to show, none, which is an error.
YFinance(c) ==
  /\ dmCall[c].pc = "yfinance"
  /\ LET k == dmCall[c]
         days == ListedIn(k, k.from, k.to)
     IN  \/ days # {} /\ GoOn(c, "save", RowsOf("yfinance", days))
         \/ SourceFails(c)
  /\ UNCHANGED <<dmDb, dmCache, dmAsked>>

\* TWSE is asked month by month; an error loses the months before it as well.
TwseMonthArrives(c) ==
  /\ dmCall[c].pc = "twse"
  /\ dmCall[c].at <= dmCall[c].to
  /\ LET k == dmCall[c]
         month == ListedIn(k, k.from, k.to) \intersect (k.at .. k.at + MonthDays - 1)
     IN  dmCall' = [dmCall EXCEPT ![c].at = k.at + MonthDays,
                                  ![c].rows = Upsert(@, RowsOf("twse", month))]
  /\ UNCHANGED <<dmDb, dmCache, dmAsked>>
TwseFails(c) ==
  /\ dmCall[c].pc = "twse"
  /\ dmCall[c].at <= dmCall[c].to
  /\ SourceFails(c)
  /\ UNCHANGED <<dmDb, dmCache, dmAsked>>
TwseEnds(c) ==
  /\ dmCall[c].pc = "twse"
  /\ dmCall[c].at > dmCall[c].to
  /\ IF DOMAIN dmCall[c].rows = {} THEN SourceFails(c) ELSE GoOn(c, "save", dmCall[c].rows)
  /\ UNCHANGED <<dmDb, dmCache, dmAsked>>

\* What follows the saving of the rows.
AfterSave(c, rows) == IF DMCacheOn THEN GoOn(c, "put", rows) ELSE Answer(c, "rows", rows)

\* The failed transaction passes for a saved one.
SaveFailsSilently(c) ==
  /\ dmCall[c].pc = "save"
  /\ AfterSave(c, dmCall[c].rows)
  /\ UNCHANGED <<dmDb, dmCache, dmAsked>>
\* One transaction: the rows are in the database, or the error is the caller's
\* and what was fetched is lost.
Save(c) ==
  /\ dmCall[c].pc = "save"
  /\ dmDb' = [dmDb EXCEPT ![dmCall[c].code] = Upsert(@, dmCall[c].rows)]
  /\ AfterSave(c, dmCall[c].rows)
  /\ UNCHANGED <<dmCache, dmAsked>>
SaveFails(c) ==
  /\ dmCall[c].pc = "save"
  /\ Answer(c, "not saved", NoRows)
  /\ UNCHANGED <<dmDb, dmCache, dmAsked>>

\* CacheManager.set swallows its errors.
Put(c) ==
  /\ dmCall[c].pc = "put"
  /\ LET key == KeyOf(dmCall[c])
     IN  \/ dmCache' = [x \in DOMAIN dmCache \union {key} |->
                          IF x = key THEN dmCall[c].rows ELSE dmCache[x]]
         \/ UNCHANGED dmCache
  /\ Answer(c, "rows", dmCall[c].rows)
  /\ UNCHANGED <<dmDb, dmAsked>>

\* An hour later, half an hour for the whole market.
DMExpire(key) ==
  /\ key \in DOMAIN dmCache
  /\ dmCache' = [x \in DOMAIN dmCache \ {key} |-> dmCache[x]]
  /\ UNCHANGED <<dmDb, dmCall, dmAsked>>

-----------------------------------------------------------------------------
(* The other requests *)

\* fetch_daily_all: TWSE's table of the day is cached, unless it is empty, and
\* not saved.
Everything(c) ==
  /\ dmCall[c].pc = "everything"
  /\ LET k == dmCall[c]
         table == IF \E code \in StockCodes : code.market = "TW" /\ k.from \in Listed(code)
                    THEN RowsOf("twse", {k.from}) ELSE NoRows
     IN  \/ IF DOMAIN table # {} /\ DMCacheOn THEN GoOn(c, "put", table)
                                              ELSE Answer(c, "rows", table)
         \/ Answer(c, "source error", NoRows)
  /\ UNCHANGED <<dmDb, dmCache, dmAsked>>

\* fetch_institutional_flow, fetch_margin_trading: day by day, a row for a day
\* whose table has the code; an error loses the days before it as well.
DayArrives(c) ==
  /\ dmCall[c].pc = "day"
  /\ dmCall[c].at <= dmCall[c].to
  /\ LET k == dmCall[c]
         found == {k.at} \intersect Listed(k.code)
     IN  dmCall' = [dmCall EXCEPT ![c].at = @ + 1, ![c].rows = Upsert(@, RowsOf("twse", found))]
  /\ UNCHANGED <<dmDb, dmCache, dmAsked>>
DayFails(c) ==
  /\ dmCall[c].pc = "day"
  /\ dmCall[c].at <= dmCall[c].to
  /\ Answer(c, "source error", NoRows)
  /\ UNCHANGED <<dmDb, dmCache, dmAsked>>
DaysEnd(c) ==
  /\ dmCall[c].pc = "day"
  /\ dmCall[c].at > dmCall[c].to
  /\ Answer(c, "rows", dmCall[c].rows)
  /\ UNCHANGED <<dmDb, dmCache, dmAsked>>

\* fetch_revenue: a report without the code counts as no revenue.
\* fetch_quarterly_financials: a report without a figure, or none, sends it on
\* to yfinance, which answers with whatever figures it has.
Mops(c) ==
  /\ dmCall[c].pc = "mops"
  /\ \/ Answer(c, "figures", NoRows)
     \/ IF dmCall[c].kind = "revenue" THEN Answer(c, "no revenue", NoRows)
                                      ELSE GoOn(c, "figures of yfinance", NoRows)
     \/ dmCall[c].kind = "revenue" /\ Answer(c, "source error", NoRows)
  /\ UNCHANGED <<dmDb, dmCache, dmAsked>>
YFinanceFigures(c) ==
  /\ dmCall[c].pc = "figures of yfinance"
  /\ Answer(c, "figures", NoRows) \/ Answer(c, "source error", NoRows)
  /\ UNCHANGED <<dmDb, dmCache, dmAsked>>

\* validate_data_completeness counts the market's rows of the day; an error
\* counts as none.
Complete(c) ==
  /\ dmCall[c].pc = "count"
  /\ LET k == dmCall[c]
     IN  \/ /\ \E code \in StockCodes : code.market = k.code.market /\ k.from \in DOMAIN dmDb[code]
            /\ Answer(c, "complete", NoRows)
         \/ Answer(c, "incomplete", NoRows)
  /\ UNCHANGED <<dmDb, dmCache, dmAsked>>

-----------------------------------------------------------------------------
DMStep(c) ==
  \/ CacheHit(c) \/ CacheMiss(c) \/ DbHit(c) \/ DbMiss(c)
  \/ YFinance(c) \/ TwseMonthArrives(c) \/ TwseFails(c) \/ TwseEnds(c)
  \/ Save(c) \/ SaveFails(c) \/ Put(c)
  \/ Everything(c) \/ DayArrives(c) \/ DayFails(c) \/ DaysEnd(c)
  \/ Mops(c) \/ YFinanceFigures(c) \/ Complete(c)

DMExpiry == \E key \in DOMAIN dmCache : DMExpire(key)

DMAsk(c) ==
  /\ dmAsked < MaxAsked
  /\ dmAsked' = dmAsked + 1
  /\ \E kind \in Kinds, code \in StockCodes, range \in Ranges :
       /\ kind \notin ByDay \union {"daily"} => range[1] = range[2]
       /\ DMRequest(c, kind, code, range[1], range[2])

DMNext ==
  \/ \E c \in DMCallers : DMAsk(c)
  \/ \E c \in DMCallers : DMStep(c)
  \/ DMExpiry

DMSpec == DMInit /\ [][DMNext]_dmVars

-----------------------------------------------------------------------------
(* Properties *)

\* Whatever fails in between: the bars fetch_daily_bars has answered with, and
\* those the cache would answer with, lie in the range asked for and are in
\* the database.
StoredRows(code, from, to, rows) ==
  DOMAIN rows # {} /\ DOMAIN rows \subseteq (from .. to) \intersect DOMAIN dmDb[code]

DailyBarsStored ==
  /\ \A key \in DOMAIN dmCache :
       key.kind = "daily" => StoredRows(key.code, key.from, key.to, dmCache[key])
  /\ \A c \in DMCallers :
       dmCall[c].kind = "daily" /\ dmCall[c].res = "rows" =>
         StoredRows(dmCall[c].code, dmCall[c].from, dmCall[c].to, dmCall[c].rows)
=============================================================================
