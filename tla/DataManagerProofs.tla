------------------------- MODULE DataManagerProofs --------------------------
(***************************************************************************)
(* Theorems about the data manager, for any callers, stocks, ranges, lists *)
(* of traded days and lengths of a month, with a cache and without, and    *)
(* about the analysis that fetches its bars there, for any strategy, grid  *)
(* of parameters and division into windows.                                *)
(***************************************************************************)
EXTENDS BacktestEngine, FiniteSetTheorems, NaturalsInduction, WellFoundedInduction, TLAPS

Sources == {"yfinance", "twse"}
Rows    == UNION {[days -> Sources] : days \in SUBSET Days}
Pcs     == {"idle", "cache", "db", "yfinance", "twse", "save", "put", "everything", "day",
            "mops", "figures of yfinance", "count"}
Results == {"none", "invalid", "nothing", "rows", "exhausted", "not saved", "source error",
            "figures", "no revenue", "complete", "incomplete"}
DMCalls == [pc : Pcs, kind : Kinds, code : StockCodes, from : Days, to : Days, at : Int,
            rows : Rows, res : Results]

DMTypeOK ==
  /\ dmDb \in [StockCodes -> Rows]
  /\ dmCall \in [DMCallers -> DMCalls]
  /\ \A key \in DOMAIN dmCache : dmCache[key] \in Rows
  /\ dmAsked \in Nat

\* The rows are some, of the range, and in the database db.
Kept(db, code, from, to, rows) ==
  DOMAIN rows # {} /\ DOMAIN rows \subseteq (from .. to) \intersect DOMAIN db[code]

\* What a call has in hand: only daily bars go through the database, what is to be
\* saved is of the range, and what is to be cached is saved.
CallOK(db, k) ==
  /\ k.pc \in {"db", "yfinance", "twse", "save"} => k.kind = "daily"
  /\ k.pc \in {"cache", "put"} => k.kind \in Cached
  /\ k.pc = "everything" => k.kind = "all"
  /\ k.pc = "day" => k.kind \in ByDay
  /\ k.pc \in {"twse", "save"} => DOMAIN k.rows \subseteq k.from .. k.to
  /\ k.pc = "save" => DOMAIN k.rows # {}
  /\ k.pc # "idle" => k.res = "none"
  /\ k.kind = "daily" /\ (k.pc = "put" \/ k.res = "rows") => Kept(db, k.code, k.from, k.to, k.rows)

CacheOK(db, cache) ==
  \A key \in DOMAIN cache :
    key.kind = "daily" => Kept(db, key.code, key.from, key.to, cache[key])

IInv ==
  /\ DMTypeOK
  /\ \A c \in DMCallers : CallOK(dmDb, dmCall[c])
  /\ CacheOK(dmDb, dmCache)
  /\ \A key \in DOMAIN dmCache : key.kind = "daily" => key.code \in StockCodes

-----------------------------------------------------------------------------
(* Rows *)

\* No row at all.
LEMMA NoRowsAreRows == NoRows \in Rows /\ DOMAIN NoRows = {}
<1>1. NoRows \in [{} -> Sources] /\ DOMAIN NoRows = {}
  BY DEF NoRows
<1> QED
  BY <1>1 DEF Rows

\* The rows of a source for some days are rows of these days.
LEMMA RowsOfDays ==
  ASSUME NEW src \in Sources, NEW days \in SUBSET Days
  PROVE  RowsOf(src, days) \in Rows /\ DOMAIN RowsOf(src, days) = days
<1>1. RowsOf(src, days) \in [days -> Sources] /\ DOMAIN RowsOf(src, days) = days
  BY DEF RowsOf
<1> QED
  BY <1>1 DEF Rows

\* Rows are a function from days to sources.
LEMMA RowsAre ==
  ASSUME NEW rows \in Rows
  PROVE  DOMAIN rows \subseteq Days /\ \A d \in DOMAIN rows : rows[d] \in Sources
BY DEF Rows

\* Saving loses no day and adds those of the new rows.
LEMMA UpsertAdds ==
  ASSUME NEW old \in Rows, NEW new \in Rows
  PROVE  Upsert(old, new) \in Rows /\ DOMAIN Upsert(old, new) = DOMAIN old \union DOMAIN new
<1> DEFINE days == DOMAIN old \union DOMAIN new
<1>1. days \in SUBSET Days
  BY RowsAre
<1>2. Upsert(old, new) \in [days -> Sources] /\ DOMAIN Upsert(old, new) = days
  BY RowsAre DEF Upsert
<1> QED
  BY <1>1, <1>2 DEF Rows

\* A selection of rows is of the range and of the days there were.
LEMMA BetweenSelects ==
  ASSUME NEW rows \in Rows, NEW from, NEW to
  PROVE  /\ Between(rows, from, to) \in Rows
         /\ \A x : x \in DOMAIN Between(rows, from, to) <=>
                   x \in DOMAIN rows /\ from <= x /\ x <= to
<1> DEFINE days == {x \in DOMAIN rows : from <= x /\ x <= to}
<1>1. days \in SUBSET Days
  BY RowsAre
<1>2. Between(rows, from, to) \in [days -> Sources] /\ DOMAIN Between(rows, from, to) = days
  BY RowsAre DEF Between
<1> QED
  BY <1>1, <1>2 DEF Rows

-----------------------------------------------------------------------------
(* One call goes on *)

\* Where the database only gains days and the cache stays, what the other calls
\* and the cache have remains stored.
LEMMA OneCall ==
  ASSUME IInv, NEW c \in DMCallers, NEW r \in DMCalls,
         dmCall' = [dmCall EXCEPT ![c] = r], CallOK(dmDb', r),
         dmDb' \in [StockCodes -> Rows],
         \A code \in StockCodes : DOMAIN dmDb[code] \subseteq DOMAIN dmDb'[code],
         UNCHANGED dmCache, dmAsked' \in Nat
  PROVE  IInv'
<1>1. dmCall' \in [DMCallers -> DMCalls]
  BY DEF IInv, DMTypeOK
<1>2. ASSUME NEW code \in StockCodes, NEW from, NEW to, NEW rows, Kept(dmDb, code, from, to, rows)
      PROVE  Kept(dmDb', code, from, to, rows)
  BY <1>2 DEF Kept
<1>3. ASSUME NEW d \in DMCallers
      PROVE  CallOK(dmDb', dmCall'[d])
  <2>1. CASE d = c
    <3>1. dmCall'[d] = r
      BY <2>1 DEF IInv, DMTypeOK
    <3> QED
      BY <3>1
  <2>2. CASE d # c
    <3>1. dmCall'[d] = dmCall[d] /\ dmCall[d] \in DMCalls
      BY <2>2 DEF IInv, DMTypeOK
    <3>2. CallOK(dmDb, dmCall[d]) /\ dmCall[d].code \in StockCodes
      BY <3>1 DEF IInv, DMCalls
    <3> QED
      BY <3>1, <3>2, <1>2 DEF CallOK
  <2> QED
    BY <2>1, <2>2
<1>4. CacheOK(dmDb', dmCache')
  BY <1>2 DEF IInv, CacheOK
<1> QED
  BY <1>1, <1>3, <1>4 DEF IInv, DMTypeOK

\* The same where the database stays as it is.
LEMMA OnlyTheCall ==
  ASSUME IInv, NEW c \in DMCallers, NEW r \in DMCalls,
         dmCall' = [dmCall EXCEPT ![c] = r], CallOK(dmDb, r), UNCHANGED <<dmDb, dmCache>>,
         dmAsked' \in Nat
  PROVE  IInv'
<1>1. dmDb' = dmDb /\ dmDb \in [StockCodes -> Rows]
  BY DEF IInv, DMTypeOK
<1>2. CallOK(dmDb', r)
  BY <1>1
<1> QED
  BY <1>1, <1>2, OneCall

\* What a call is that goes on, and one that is over.
Same(r, k) == r.kind = k.kind /\ r.code = k.code /\ r.from = k.from /\ r.to = k.to

\* A call that only differs in where it stands and in what it has.
Made(k, pc, at, rows, res) ==
  [pc |-> pc, kind |-> k.kind, code |-> k.code, from |-> k.from, to |-> k.to, at |-> at,
   rows |-> rows, res |-> res]

\* Such a call is one, about the same.
LEMMA MadeIsCall ==
  ASSUME NEW k \in DMCalls, NEW pc \in Pcs, NEW at \in Int, NEW rows \in Rows, NEW res \in Results
  PROVE  Made(k, pc, at, rows, res) \in DMCalls /\ Same(Made(k, pc, at, rows, res), k)
BY DEF DMCalls, Made, Same

\* The assignments of GoOn and of the requests that go day by day.
LEMMA MovedCall ==
  ASSUME NEW k \in DMCalls, NEW pc, NEW rows, NEW at
  PROVE  [k EXCEPT !.pc = pc, !.rows = rows, !.at = at] = Made(k, pc, at, rows, k.res)
<1>1. [k EXCEPT !.pc = pc] = Made(k, pc, k.at, k.rows, k.res)
  BY SMT DEF DMCalls, Made
<1>2. [Made(k, pc, k.at, k.rows, k.res) EXCEPT !.rows = rows] = Made(k, pc, k.at, rows, k.res)
  BY SMT DEF Made
<1>3. [Made(k, pc, k.at, rows, k.res) EXCEPT !.at = at] = Made(k, pc, at, rows, k.res)
  BY SMT DEF Made
<1> QED
  BY <1>1, <1>2, <1>3

\* Those of Answer.
LEMMA AnsweredCall ==
  ASSUME NEW k \in DMCalls, NEW res, NEW rows
  PROVE  [k EXCEPT !.pc = "idle", !.res = res, !.rows = rows] = Made(k, "idle", k.at, rows, res)
<1>1. [k EXCEPT !.pc = "idle"] = Made(k, "idle", k.at, k.rows, k.res)
  BY SMT DEF DMCalls, Made
<1>2. [Made(k, "idle", k.at, k.rows, k.res) EXCEPT !.res = res] = Made(k, "idle", k.at, k.rows, res)
  BY SMT DEF Made
<1>3. [Made(k, "idle", k.at, k.rows, res) EXCEPT !.rows = rows] = Made(k, "idle", k.at, rows, res)
  BY SMT DEF Made
<1> QED
  BY <1>1, <1>2, <1>3

\* Those of a request that goes month by month, or day by day.
LEMMA AdvancedCall ==
  ASSUME NEW k \in DMCalls, NEW rows, NEW at
  PROVE  [k EXCEPT !.at = at, !.rows = rows] = Made(k, k.pc, at, rows, k.res)
<1>1. [k EXCEPT !.at = at] = Made(k, k.pc, at, k.rows, k.res)
  BY SMT DEF DMCalls, Made
<1>2. [Made(k, k.pc, at, k.rows, k.res) EXCEPT !.rows = rows] = Made(k, k.pc, at, rows, k.res)
  BY SMT DEF Made
<1> QED
  BY <1>1, <1>2

\* What GoOn makes of a call.
LEMMA GoesOn ==
  ASSUME DMTypeOK, NEW c \in DMCallers, NEW pc \in Pcs, NEW rows \in Rows, GoOn(c, pc, rows)
  PROVE  \E r \in DMCalls : /\ dmCall' = [dmCall EXCEPT ![c] = r]
                          /\ r.pc = pc /\ r.rows = rows /\ r.res = dmCall[c].res
                          /\ Same(r, dmCall[c])
<1> DEFINE k == dmCall[c]
           r == Made(k, pc, k.from, rows, k.res)
<1>1. k \in DMCalls
  BY DEF DMTypeOK
<1>2. k.from \in Int /\ k.res \in Results
  BY <1>1, DMAssumption DEF DMCalls, Days
<1>3. r \in DMCalls /\ Same(r, k)
  BY <1>1, <1>2, MadeIsCall
<1>4. [k EXCEPT !.pc = pc, !.rows = rows, !.at = k.from] = r
  BY <1>1, MovedCall
<1>5. dmCall' = [dmCall EXCEPT ![c] = r]
  BY <1>4 DEF GoOn
<1>6. r.pc = pc /\ r.rows = rows /\ r.res = k.res
  BY DEF Made
<1> QED
  BY <1>3, <1>5, <1>6

\* What Answer makes of a call.
LEMMA Answers ==
  ASSUME DMTypeOK, NEW c \in DMCallers, NEW res \in Results, NEW rows \in Rows,
         Answer(c, res, rows)
  PROVE  \E r \in DMCalls : /\ dmCall' = [dmCall EXCEPT ![c] = r]
                          /\ r.pc = "idle" /\ r.rows = rows /\ r.res = res
                          /\ Same(r, dmCall[c])
<1> DEFINE k == dmCall[c]
           r == Made(k, "idle", k.at, rows, res)
<1>1. k \in DMCalls
  BY DEF DMTypeOK
<1>2. k.at \in Int /\ "idle" \in Pcs
  BY <1>1 DEF DMCalls, Pcs
<1>3. r \in DMCalls /\ Same(r, k)
  BY <1>1, <1>2, MadeIsCall
<1>4. [k EXCEPT !.pc = "idle", !.res = res, !.rows = rows] = r
  BY <1>1, AnsweredCall
<1>5. dmCall' = [dmCall EXCEPT ![c] = r]
  BY <1>4 DEF Answer
<1>6. r.pc = "idle" /\ r.rows = rows /\ r.res = res
  BY DEF Made
<1> QED
  BY <1>3, <1>5, <1>6

\* A call that ends without rows, or not about daily bars, leaves the invariant.
LEMMA AnswerStep ==
  ASSUME IInv, NEW c \in DMCallers, NEW res \in Results, NEW rows \in Rows,
         Answer(c, res, rows), UNCHANGED <<dmDb, dmCache, dmAsked>>,
         dmCall[c].kind = "daily" /\ res = "rows" =>
           Kept(dmDb, dmCall[c].code, dmCall[c].from, dmCall[c].to, rows)
  PROVE  IInv'
<1>1. DMTypeOK /\ dmAsked' \in Nat
  BY DEF IInv, DMTypeOK
<1>2. PICK r \in DMCalls : /\ dmCall' = [dmCall EXCEPT ![c] = r]
                         /\ r.pc = "idle" /\ r.rows = rows /\ r.res = res
                         /\ Same(r, dmCall[c])
  BY <1>1, Answers
<1>3. CallOK(dmDb, r)
  BY <1>2 DEF CallOK, Same
<1> QED
  BY <1>1, <1>2, <1>3, OnlyTheCall

\* A call that goes on to where its rows may be leaves it as well.
LEMMA GoOnStep ==
  ASSUME IInv, NEW c \in DMCallers, NEW pc \in Pcs, NEW rows \in Rows,
         GoOn(c, pc, rows), UNCHANGED <<dmDb, dmCache, dmAsked>>,
         dmCall[c].pc # "idle", pc \notin {"cache", "day"},
         pc \in {"db", "yfinance", "twse", "save"} => dmCall[c].kind = "daily",
         pc = "put" => dmCall[c].kind \in Cached,
         pc = "everything" => dmCall[c].kind = "all",
         pc \in {"twse", "save"} => DOMAIN rows \subseteq dmCall[c].from .. dmCall[c].to,
         pc = "save" => DOMAIN rows # {},
         pc = "put" /\ dmCall[c].kind = "daily" =>
           Kept(dmDb, dmCall[c].code, dmCall[c].from, dmCall[c].to, rows)
  PROVE  IInv'
<1>1. DMTypeOK /\ dmAsked' \in Nat /\ dmCall[c].res = "none"
  BY DEF IInv, DMTypeOK, CallOK
<1>2. PICK r \in DMCalls : /\ dmCall' = [dmCall EXCEPT ![c] = r]
                         /\ r.pc = pc /\ r.rows = rows /\ r.res = dmCall[c].res
                         /\ Same(r, dmCall[c])
  BY <1>1, GoesOn
<1>3. CallOK(dmDb, r)
  BY <1>1, <1>2 DEF CallOK, Same
<1> QED
  BY <1>1, <1>2, <1>3, OnlyTheCall

-----------------------------------------------------------------------------
(* The steps *)

\* A call under way, and what it was called with.
LEMMA CallIs ==
  ASSUME IInv, NEW c \in DMCallers
  PROVE  /\ dmCall[c] \in DMCalls /\ CallOK(dmDb, dmCall[c])
         /\ dmCall[c].code \in StockCodes /\ dmCall[c].rows \in Rows
         /\ dmCall[c].from \in Days /\ dmCall[c].to \in Days /\ dmCall[c].at \in Int
         /\ dmDb[dmCall[c].code] \in Rows
BY DEF IInv, DMTypeOK, DMCalls

\* The days of a list within a range are days of the range.
LEMMA Listing ==
  ASSUME NEW k \in DMCalls
  PROVE  ListedIn(k, k.from, k.to) \subseteq (k.from .. k.to) \intersect Days
<1>1. Listed(k.code) \subseteq Days /\ k.from \in Int /\ k.to \in Int
  BY DMAssumption DEF DMCalls, Days
<1>2. Days \subseteq Int
  BY DMAssumption DEF Days
<1> QED
  BY <1>1, <1>2 DEF ListedIn

\* Neither a cached answer nor a miss touches what is stored.
LEMMA CacheSteps ==
  ASSUME IInv, NEW c \in DMCallers, CacheHit(c) \/ CacheMiss(c)
  PROVE  IInv'
<1> DEFINE k == dmCall[c]
<1>1. k \in DMCalls /\ CallOK(dmDb, k)
  BY CallIs
<1>2. CASE CacheHit(c)
  <2>1. PICK rows : rows = dmCache[KeyOf(k)]
    OBVIOUS
  <2>2. KeyOf(k) \in DOMAIN dmCache /\ Answer(c, "rows", rows) /\ UNCHANGED <<dmDb, dmCache, dmAsked>>
    BY <1>2, <2>1 DEF CacheHit
  <2>3. rows \in Rows
    BY <2>1, <2>2 DEF IInv, DMTypeOK
  <2>4. ASSUME k.kind = "daily"
        PROVE  Kept(dmDb, k.code, k.from, k.to, rows)
    <3>1. /\ KeyOf(k).kind = "daily" /\ KeyOf(k).code = k.code
          /\ KeyOf(k).from = k.from /\ KeyOf(k).to = k.to
      BY <2>4 DEF KeyOf
    <3> QED
      BY <2>1, <2>2, <3>1 DEF IInv, CacheOK
  <2>5. "rows" \in Results
    BY DEF Results
  <2> QED
    BY <2>2, <2>3, <2>4, <2>5, AnswerStep
<1>3. CASE CacheMiss(c)
  <2>1. /\ k.pc # "idle" /\ k.kind \in Cached /\ UNCHANGED <<dmDb, dmCache, dmAsked>>
        /\ "db" \in Pcs /\ "everything" \in Pcs /\ "nothing" \in Results
    BY <1>1, <1>3 DEF CacheMiss, CallOK, Pcs, Results
  <2>2. CASE k.kind = "daily"
    <3>1. GoOn(c, "db", NoRows)
      BY <1>3, <2>2 DEF CacheMiss
    <3> QED
      BY <2>1, <2>2, <3>1, NoRowsAreRows, GoOnStep
  <2>3. CASE k.kind # "daily" /\ k.code.market = "TW"
    <3>1. GoOn(c, "everything", NoRows) /\ k.kind = "all"
      BY <1>3, <2>1, <2>3 DEF CacheMiss, Cached
    <3> QED
      BY <2>1, <3>1, NoRowsAreRows, GoOnStep
  <2>4. CASE k.kind # "daily" /\ k.code.market # "TW"
    <3>1. Answer(c, "nothing", NoRows)
      BY <1>3, <2>4 DEF CacheMiss
    <3> QED
      BY <2>1, <3>1, NoRowsAreRows, AnswerStep
  <2> QED
    BY <2>2, <2>3, <2>4
<1> QED
  BY <1>2, <1>3

\* The rows the database answers with are its own.
LEMMA DbSteps ==
  ASSUME IInv, NEW c \in DMCallers, DbHit(c) \/ DbMiss(c)
  PROVE  IInv'
<1> DEFINE k == dmCall[c]
<1>1. /\ k \in DMCalls /\ k.pc = "db" /\ k.kind = "daily" /\ k.kind \in Cached
      /\ "put" \in Pcs /\ "yfinance" \in Pcs /\ "rows" \in Results
      /\ UNCHANGED <<dmDb, dmCache, dmAsked>>
  BY CallIs DEF DbHit, DbMiss, CallOK, Pcs, Results, Cached
<1>2. CASE DbHit(c)
  <2>1. PICK rows : rows = Between(dmDb[k.code], k.from, k.to)
    OBVIOUS
  <2>2. /\ rows \in Rows
        /\ \A x : x \in DOMAIN rows <=> x \in DOMAIN dmDb[k.code] /\ k.from <= x /\ x <= k.to
    <3>1. dmDb[k.code] \in Rows
      BY CallIs
    <3> QED
      BY <2>1, <3>1, BetweenSelects
  <2>3. DOMAIN rows # {} /\ (GoOn(c, "put", rows) \/ Answer(c, "rows", rows))
    BY <1>2, <2>1 DEF DbHit
  <2>4. DOMAIN dmDb[k.code] \subseteq Int /\ k.from \in Int /\ k.to \in Int
    BY CallIs, RowsAre, DMAssumption DEF Days
  <2>5. Kept(dmDb, k.code, k.from, k.to, rows)
    BY <2>2, <2>3, <2>4 DEF Kept
  <2>6. CASE GoOn(c, "put", rows)
    BY <1>1, <2>2, <2>5, <2>6, GoOnStep
  <2>7. CASE Answer(c, "rows", rows)
    BY <1>1, <2>2, <2>5, <2>7, AnswerStep
  <2> QED
    BY <2>3, <2>6, <2>7
<1>3. CASE DbMiss(c)
  <2>1. GoOn(c, "yfinance", NoRows)
    BY <1>3 DEF DbMiss
  <2> QED
    BY <1>1, <2>1, NoRowsAreRows, GoOnStep
<1> QED
  BY <1>2, <1>3

\* A source that fails sends the call on without rows, or ends it.
LEMMA Failing ==
  ASSUME IInv, NEW c \in DMCallers, dmCall[c].pc \in {"yfinance", "twse"}, SourceFails(c),
         UNCHANGED <<dmDb, dmCache, dmAsked>>
  PROVE  IInv'
<1> DEFINE k == dmCall[c]
           r == Made(k, "twse", TwseMonth(k.from), NoRows, k.res)
<1>1. CASE Answer(c, "exhausted", NoRows)
  <2>1. "exhausted" \in Results
    BY DEF Results
  <2> QED
    BY <1>1, <2>1, NoRowsAreRows, AnswerStep
<1>2. CASE dmCall' = [dmCall EXCEPT ![c].pc = "twse", ![c].rows = NoRows, ![c].at = TwseMonth(k.from)]
  <2>1. k \in DMCalls /\ CallOK(dmDb, k) /\ k.res \in Results /\ k.from \in Int
    BY CallIs, DMAssumption DEF DMCalls, Days
  <2>2. TwseMonth(k.from) \in Int /\ "twse" \in Pcs
    BY <2>1, DMAssumption DEF TwseMonth, Pcs
  <2>3. r \in DMCalls /\ Same(r, k)
    BY <2>1, <2>2, NoRowsAreRows, MadeIsCall
  <2>4. [k EXCEPT !.pc = "twse", !.rows = NoRows, !.at = TwseMonth(k.from)] = r
    <3>1. PICK call, pc, rows, at : /\ call = k /\ pc = "twse" /\ rows = NoRows
                                    /\ at = TwseMonth(k.from)
      OBVIOUS
    <3>2. call \in DMCalls
      BY <2>1, <3>1
    <3>3. [call EXCEPT !.pc = pc, !.rows = rows, !.at = at] = Made(call, pc, at, rows, call.res)
      BY <3>2, MovedCall
    <3> QED
      BY <3>1, <3>3
  <2>5. dmCall' = [dmCall EXCEPT ![c] = r]
    BY <1>2, <2>4
  <2>6. r.pc = "twse" /\ r.rows = NoRows /\ r.res = k.res
    BY DEF Made
  <2>7. CallOK(dmDb, r)
    BY <2>1, <2>3, <2>6, NoRowsAreRows DEF CallOK, Same
  <2>8. dmAsked' \in Nat
    BY DEF IInv, DMTypeOK
  <2> QED
    BY <2>3, <2>5, <2>7, <2>8, OnlyTheCall
<1> QED
  BY <1>1, <1>2 DEF SourceFails

\* The sources' rows are of the range.
LEMMA SourceSteps ==
  ASSUME IInv, NEW c \in DMCallers, YFinance(c) \/ TwseMonthArrives(c) \/ TwseFails(c) \/ TwseEnds(c)
  PROVE  IInv'
<1> DEFINE k == dmCall[c]
<1>1. /\ k \in DMCalls /\ CallOK(dmDb, k) /\ k.pc \in {"yfinance", "twse"} /\ k.kind = "daily"
      /\ UNCHANGED <<dmDb, dmCache, dmAsked>> /\ "save" \in Pcs
  BY CallIs DEF YFinance, TwseMonthArrives, TwseFails, TwseEnds, CallOK, Pcs
<1>2. CASE SourceFails(c)
  BY <1>1, <1>2, Failing
<1>3. CASE YFinance(c) /\ ~SourceFails(c)
  <2>1. PICK days : days = ListedIn(k, k.from, k.to)
    OBVIOUS
  <2>2. days # {} /\ GoOn(c, "save", RowsOf("yfinance", days))
    BY <1>3, <2>1 DEF YFinance
  <2>3. days \subseteq (k.from .. k.to) \intersect Days
    BY <1>1, <2>1, Listing
  <2>4. RowsOf("yfinance", days) \in Rows /\ DOMAIN RowsOf("yfinance", days) = days
    BY <2>3, RowsOfDays DEF Sources
  <2> QED
    BY <1>1, <2>2, <2>3, <2>4, GoOnStep
<1>4. CASE TwseMonthArrives(c)
  <2> DEFINE month == ListedIn(k, k.from, k.to) \intersect (k.at .. k.at + MonthDays - 1)
             rows  == Upsert(k.rows, RowsOf("twse", month))
             r     == Made(k, k.pc, k.at + MonthDays, rows, k.res)
  <2>1. k.pc = "twse" /\ dmCall' = [dmCall EXCEPT ![c].at = k.at + MonthDays, ![c].rows = rows]
    BY <1>4 DEF TwseMonthArrives
  <2>2. month \in SUBSET Days /\ month \subseteq k.from .. k.to
    BY <1>1, Listing
  <2>3. RowsOf("twse", month) \in Rows /\ DOMAIN RowsOf("twse", month) = month
    BY <2>2, RowsOfDays DEF Sources
  <2>4. rows \in Rows /\ DOMAIN rows = DOMAIN k.rows \union month
    BY <2>3, CallIs, UpsertAdds
  <2>5. k.at + MonthDays \in Int /\ k.pc \in Pcs /\ k.res \in Results
    BY <1>1, CallIs, DMAssumption DEF DMCalls
  <2>6. r \in DMCalls /\ Same(r, k)
    BY <1>1, <2>4, <2>5, MadeIsCall
  <2>7. [k EXCEPT !.at = k.at + MonthDays, !.rows = rows] = r
    BY <1>1, AdvancedCall
  <2>8. dmCall' = [dmCall EXCEPT ![c] = r]
    BY <2>1, <2>7
  <2>9. r.pc = "twse" /\ r.rows = rows /\ r.res = k.res
    BY <2>1 DEF Made
  <2>10. DOMAIN k.rows \subseteq k.from .. k.to /\ k.res = "none"
    BY <1>1, <2>1 DEF CallOK
  <2>11. CallOK(dmDb, r)
    BY <1>1, <2>2, <2>4, <2>6, <2>9, <2>10 DEF CallOK, Same
  <2>12. dmAsked' \in Nat
    BY <1>1 DEF IInv, DMTypeOK
  <2> QED
    BY <1>1, <2>6, <2>8, <2>11, <2>12, OnlyTheCall
<1>5. CASE TwseEnds(c) /\ ~SourceFails(c)
  <2>1. k.pc = "twse" /\ DOMAIN k.rows # {} /\ GoOn(c, "save", k.rows)
    BY <1>5 DEF TwseEnds
  <2>2. DOMAIN k.rows \subseteq k.from .. k.to /\ k.rows \in Rows
    BY <1>1, <2>1, CallIs DEF CallOK
  <2> QED
    BY <1>1, <2>1, <2>2, GoOnStep
<1> QED
  BY <1>2, <1>3, <1>4, <1>5 DEF TwseFails

\* What is to be saved is saved for every call, or for none.
LEMMA SaveSteps ==
  ASSUME IInv, NEW c \in DMCallers, Save(c) \/ SaveFails(c)
  PROVE  IInv'
<1> DEFINE k == dmCall[c]
<1>1. /\ k \in DMCalls /\ k.pc = "save" /\ k.kind = "daily" /\ k.res = "none" /\ DMTypeOK
      /\ k.code \in StockCodes /\ k.rows \in Rows
      /\ DOMAIN k.rows # {} /\ DOMAIN k.rows \subseteq k.from .. k.to
      /\ "rows" \in Results /\ "not saved" \in Results /\ "put" \in Pcs /\ k.kind \in Cached
  BY CallIs DEF Save, SaveFails, CallOK, Results, Pcs, Cached, IInv
<1>2. CASE SaveFails(c)
  <2>1. Answer(c, "not saved", NoRows) /\ UNCHANGED <<dmDb, dmCache, dmAsked>>
    BY <1>2 DEF SaveFails
  <2> QED
    BY <1>1, <2>1, NoRowsAreRows, AnswerStep
<1>3. CASE Save(c)
  <2>1. PICK code, old, rows, new : /\ code = k.code /\ old = dmDb[code] /\ rows = k.rows
                                    /\ new = Upsert(old, rows)
    OBVIOUS
  <2>2. code \in StockCodes /\ old \in Rows /\ rows \in Rows
    BY <1>1, <2>1 DEF DMTypeOK
  <2>3. new \in Rows /\ DOMAIN new = DOMAIN old \union DOMAIN rows
    BY <2>1, <2>2, UpsertAdds
  <2>4. /\ dmDb' = [dmDb EXCEPT ![code] = new]
        /\ AfterSave(c, rows) /\ UNCHANGED dmCache /\ UNCHANGED dmAsked
    BY <1>3, <2>1 DEF Save
  <2>5. dmDb \in [StockCodes -> Rows] /\ dmAsked \in Nat
    BY <1>1 DEF DMTypeOK
  <2>6. dmDb' \in [StockCodes -> Rows] /\ dmAsked' \in Nat /\ dmDb'[code] = new
    BY <2>2, <2>3, <2>4, <2>5
  <2>7. ASSUME NEW x \in StockCodes
        PROVE  DOMAIN dmDb[x] \subseteq DOMAIN dmDb'[x]
    BY <2>1, <2>3, <2>4, <2>5
  <2>8. Kept(dmDb', code, k.from, k.to, rows)
    BY <1>1, <2>1, <2>3, <2>6 DEF Kept
  <2>9. DMTypeOK /\ "put" \in Pcs /\ "rows" \in Results
    BY <1>1
  <2>10. CASE DMCacheOn
    <3>1. GoOn(c, "put", rows)
      BY <2>4, <2>10 DEF AfterSave
    <3>2. PICK r \in DMCalls : /\ dmCall' = [dmCall EXCEPT ![c] = r]
                             /\ r.pc = "put" /\ r.rows = rows /\ r.res = dmCall[c].res
                             /\ Same(r, dmCall[c])
      BY <2>2, <2>9, <3>1, GoesOn
    <3>3. CallOK(dmDb', r)
      BY <1>1, <2>1, <2>8, <3>2 DEF CallOK, Same
    <3> QED
      BY <2>4, <2>6, <2>7, <3>2, <3>3, OneCall
  <2>11. CASE ~DMCacheOn
    <3>1. Answer(c, "rows", rows)
      BY <2>4, <2>11 DEF AfterSave
    <3>2. PICK r \in DMCalls : /\ dmCall' = [dmCall EXCEPT ![c] = r]
                             /\ r.pc = "idle" /\ r.rows = rows /\ r.res = "rows"
                             /\ Same(r, dmCall[c])
      BY <2>2, <2>9, <3>1, Answers
    <3>3. CallOK(dmDb', r)
      BY <1>1, <2>1, <2>8, <3>2 DEF CallOK, Same
    <3> QED
      BY <2>4, <2>6, <2>7, <3>2, <3>3, OneCall
  <2> QED
    BY <2>10, <2>11
<1> QED
  BY <1>2, <1>3

\* What is cached was saved.
LEMMA PutStep ==
  ASSUME IInv, NEW c \in DMCallers, Put(c)
  PROVE  IInv'
<1> DEFINE k == dmCall[c]
<1>1. /\ k \in DMCalls /\ k.pc = "put" /\ k.rows \in Rows /\ DMTypeOK /\ "rows" \in Results
      /\ k.code \in StockCodes
      /\ k.kind = "daily" => Kept(dmDb, k.code, k.from, k.to, k.rows)
  BY CallIs DEF Put, CallOK, Results, IInv
<1>2. PICK key, rows : key = KeyOf(k) /\ rows = k.rows
  OBVIOUS
<1>3. /\ Answer(c, "rows", rows) /\ dmDb' = dmDb /\ dmAsked' = dmAsked
      /\ \/ dmCache' = [x \in DOMAIN dmCache \union {key} |-> IF x = key THEN rows ELSE dmCache[x]]
         \/ dmCache' = dmCache
  BY <1>2 DEF Put
<1>4. PICK r \in DMCalls : /\ dmCall' = [dmCall EXCEPT ![c] = r]
                         /\ r.pc = "idle" /\ r.rows = rows /\ r.res = "rows"
                         /\ Same(r, dmCall[c])
  BY <1>1, <1>2, <1>3, Answers
<1>5. CallOK(dmDb, r)
  BY <1>1, <1>2, <1>4 DEF CallOK, Same
<1>6. dmAsked' \in Nat /\ dmDb' \in [StockCodes -> Rows] /\ rows \in Rows
  BY <1>1, <1>2, <1>3 DEF DMTypeOK
<1>7. CASE dmCache' = dmCache
  <2>1. UNCHANGED <<dmDb, dmCache>>
    BY <1>3, <1>7
  <2>2. dmCall' = [dmCall EXCEPT ![c] = r]
    BY <1>4
  <2> QED
    BY <1>5, <1>6, <2>1, <2>2, OnlyTheCall
<1>8. CASE dmCache' = [x \in DOMAIN dmCache \union {key} |-> IF x = key THEN rows ELSE dmCache[x]]
  <2>1. key.kind = "daily" => /\ k.kind = "daily" /\ key.code = k.code
                              /\ key.from = k.from /\ key.to = k.to
    BY <1>2 DEF KeyOf
  <2>2. ASSUME NEW x \in DOMAIN dmCache'
        PROVE  /\ dmCache'[x] \in Rows
               /\ x.kind = "daily" => x.code \in StockCodes
               /\ x.kind = "daily" => Kept(dmDb, x.code, x.from, x.to, dmCache'[x])
    <3>1. CASE x = key
      <4>1. dmCache'[x] = rows
        BY <1>8, <3>1
      <4> QED
        BY <1>1, <1>2, <1>6, <2>1, <3>1, <4>1
    <3>2. CASE x # key
      <4>1. x \in DOMAIN dmCache /\ dmCache'[x] = dmCache[x]
        BY <1>8, <3>2
      <4> QED
        BY <4>1 DEF IInv, DMTypeOK, CacheOK
    <3> QED
      BY <3>1, <3>2
  <2>3. dmCall' \in [DMCallers -> DMCalls]
    BY <1>1, <1>4 DEF DMTypeOK
  <2>4. ASSUME NEW d \in DMCallers
        PROVE  CallOK(dmDb, dmCall'[d])
    <3>1. CASE d = c
      BY <1>1, <1>4, <1>5, <3>1 DEF DMTypeOK
    <3>2. CASE d # c
      <4>1. dmCall'[d] = dmCall[d] /\ CallOK(dmDb, dmCall[d])
        BY <1>1, <1>4, <3>2 DEF DMTypeOK, IInv
      <4> QED
        BY <4>1
    <3> QED
      BY <3>1, <3>2
  <2> QED
    BY <1>3, <1>6, <2>2, <2>3, <2>4 DEF IInv, DMTypeOK, CacheOK
<1> QED
  BY <1>3, <1>7, <1>8

\* A key that expires takes nothing from the database.
LEMMA ExpireStep ==
  ASSUME IInv, DMExpiry
  PROVE  IInv'
<1>1. PICK key \in DOMAIN dmCache : DMExpire(key)
  BY DEF DMExpiry
<1>2. /\ dmCache' = [x \in DOMAIN dmCache \ {key} |-> dmCache[x]]
      /\ dmDb' = dmDb /\ dmCall' = dmCall /\ dmAsked' = dmAsked
  BY <1>1 DEF DMExpire
<1>3. \A x \in DOMAIN dmCache' : x \in DOMAIN dmCache /\ dmCache'[x] = dmCache[x]
  BY <1>2
<1>4. DMTypeOK'
  BY <1>2, <1>3 DEF IInv, DMTypeOK
<1>5. CacheOK(dmDb', dmCache')
  BY <1>2, <1>3 DEF IInv, CacheOK
<1> QED
  BY <1>2, <1>3, <1>4, <1>5 DEF IInv

\* The requests that are not about daily bars have no rows to keep.
LEMMA OtherSteps ==
  ASSUME IInv, NEW c \in DMCallers,
         \/ Everything(c) \/ DayArrives(c) \/ DayFails(c) \/ DaysEnd(c)
         \/ Mops(c) \/ YFinanceFigures(c) \/ Complete(c)
  PROVE  IInv'
<1> DEFINE k == dmCall[c]
<1>1. /\ k \in DMCalls /\ CallOK(dmDb, k) /\ k.pc # "idle" /\ k.rows \in Rows /\ k.from \in Days
      /\ UNCHANGED <<dmDb, dmCache, dmAsked>>
  BY CallIs
     DEF Everything, DayArrives, DayFails, DaysEnd, Mops, YFinanceFigures, Complete
<1>2. /\ "put" \in Pcs /\ "figures of yfinance" \in Pcs
      /\ \A res \in {"rows", "source error", "figures", "no revenue", "complete", "incomplete"} :
           res \in Results
  BY DEF Pcs, Results
<1>3. CASE Everything(c)
  <2>1. k.kind = "all" /\ k.kind \in Cached
    BY <1>1, <1>3 DEF Everything, CallOK, Cached
  <2>2. RowsOf("twse", {k.from}) \in Rows
    <3>1. {k.from} \in SUBSET Days /\ "twse" \in Sources
      BY <1>1 DEF Sources
    <3> QED
      BY <3>1, RowsOfDays
  <2>3. PICK table : /\ table \in Rows
                     /\ \/ GoOn(c, "put", table) \/ Answer(c, "rows", table)
                        \/ Answer(c, "source error", NoRows)
    BY <1>3, <2>2, NoRowsAreRows DEF Everything
  <2>4. CASE GoOn(c, "put", table)
    BY <1>1, <1>2, <2>1, <2>3, <2>4, GoOnStep
  <2>5. CASE Answer(c, "rows", table)
    BY <1>1, <1>2, <2>1, <2>3, <2>5, AnswerStep
  <2>6. CASE Answer(c, "source error", NoRows)
    BY <1>1, <1>2, <2>1, <2>6, NoRowsAreRows, AnswerStep
  <2> QED
    BY <2>3, <2>4, <2>5, <2>6
<1>4. CASE DayArrives(c)
  <2>1. PICK found : found = {k.at} \intersect Listed(k.code)
    OBVIOUS
  <2>2. PICK rows : rows = Upsert(k.rows, RowsOf("twse", found))
    OBVIOUS
  <2> DEFINE r == Made(k, k.pc, k.at + 1, rows, k.res)
  <2>3. /\ k.pc = "day" /\ k.kind \in ByDay /\ k.res = "none"
        /\ dmCall' = [dmCall EXCEPT ![c].at = k.at + 1, ![c].rows = rows]
    BY <1>1, <1>4, <2>1, <2>2 DEF DayArrives, CallOK
  <2>4. found \in SUBSET Days /\ "twse" \in Sources
    BY <1>1, <2>1, CallIs, DMAssumption DEF Days, Sources
  <2>5. RowsOf("twse", found) \in Rows
    BY <2>4, RowsOfDays
  <2>6. rows \in Rows
    BY <1>1, <2>2, <2>5, UpsertAdds
  <2>7. k.at + 1 \in Int /\ k.pc \in Pcs /\ k.res \in Results
    BY <1>1, CallIs DEF DMCalls
  <2>8. r \in DMCalls /\ Same(r, k)
    BY <1>1, <2>6, <2>7, MadeIsCall
  <2>9. [k EXCEPT !.at = k.at + 1, !.rows = rows] = r
    BY <1>1, AdvancedCall
  <2>10. dmCall' = [dmCall EXCEPT ![c] = r]
    BY <2>3, <2>9
  <2>11. r.pc = "day" /\ r.rows = rows /\ r.res = "none" /\ r.kind \in ByDay
    BY <2>3 DEF Made
  <2>12. CallOK(dmDb, r)
    BY <2>11 DEF CallOK, ByDay
  <2>13. dmAsked' \in Nat
    BY <1>1 DEF IInv, DMTypeOK
  <2> QED
    BY <1>1, <2>8, <2>10, <2>12, <2>13, OnlyTheCall
<1>5. CASE DaysEnd(c)
  <2>1. Answer(c, "rows", k.rows) /\ k.kind # "daily"
    BY <1>1, <1>5 DEF DaysEnd, CallOK, ByDay
  <2> QED
    BY <1>1, <1>2, <2>1, AnswerStep
<1>6. CASE DayFails(c)
  <2>1. Answer(c, "source error", NoRows)
    BY <1>6 DEF DayFails
  <2> QED
    BY <1>1, <1>2, <2>1, NoRowsAreRows, AnswerStep
<1>7. CASE Mops(c) \/ YFinanceFigures(c) \/ Complete(c)
  <2>1. \/ GoOn(c, "figures of yfinance", NoRows)
        \/ \E res \in {"source error", "figures", "no revenue", "complete", "incomplete"} :
             Answer(c, res, NoRows)
    BY <1>7 DEF Mops, YFinanceFigures, Complete
  <2>2. CASE GoOn(c, "figures of yfinance", NoRows)
    BY <1>1, <1>2, <2>2, NoRowsAreRows, GoOnStep
  <2>3. ASSUME NEW res \in {"source error", "figures", "no revenue", "complete", "incomplete"},
               Answer(c, res, NoRows)
        PROVE  IInv'
    BY <1>1, <1>2, <2>3, NoRowsAreRows, AnswerStep
  <2> QED
    BY <2>1, <2>2, <2>3
<1> QED
  BY <1>3, <1>4, <1>5, <1>6, <1>7

-----------------------------------------------------------------------------
(* A request begins *)

\* Where it begins fits what it is for.
LEMMA FirstSteps ==
  ASSUME NEW kind \in Kinds, NEW code
  PROVE  \/ FirstStep(kind, code) = "cache" /\ kind \in Cached
         \/ FirstStep(kind, code) = "db" /\ kind = "daily"
         \/ FirstStep(kind, code) = "count"
         \/ FirstStep(kind, code) = "unsupported"
         \/ FirstStep(kind, code) = "everything" /\ kind = "all"
         \/ FirstStep(kind, code) = "day" /\ kind \in ByDay
         \/ FirstStep(kind, code) = "mops"
BY DEF FirstStep, Kinds, Cached, ByDay, Reports

\* A request that begins has nothing to keep yet.
LEMMA RequestStep ==
  ASSUME IInv, NEW c \in DMCallers, NEW kind \in Kinds, NEW code \in StockCodes,
         NEW from \in Days, NEW to \in Days, DMRequest(c, kind, code, from, to), dmAsked' \in Nat
  PROVE  IInv'
<1>1. from \in Int
  BY DMAssumption DEF Days
<1>2. PICK pc, res :
        /\ pc = IF (kind \notin {"all", "complete"} /\ ~ValidCode(code))
                     \/ FirstStep(kind, code) = "unsupported"
                  THEN "idle" ELSE FirstStep(kind, code)
        /\ res = IF kind \notin {"all", "complete"} /\ ~ValidCode(code) THEN "invalid"
                 ELSE IF FirstStep(kind, code) = "unsupported" THEN "nothing" ELSE "none"
  OBVIOUS
<1> DEFINE r == [pc |-> pc, kind |-> kind, code |-> code, from |-> from, to |-> to,
                 at |-> from, rows |-> NoRows, res |-> res]
<1>3. dmCall' = [dmCall EXCEPT ![c] = r] /\ UNCHANGED <<dmDb, dmCache>>
  BY <1>2 DEF DMRequest
<1>4. /\ res \in {"invalid", "nothing", "none"}
      /\ \/ pc = "idle"
         \/ pc \in {"count", "mops"} /\ res = "none"
         \/ pc = "cache" /\ kind \in Cached /\ res = "none"
         \/ pc = "db" /\ kind = "daily" /\ res = "none"
         \/ pc = "everything" /\ kind = "all" /\ res = "none"
         \/ pc = "day" /\ kind \in ByDay /\ res = "none"
  <2>1. CASE kind \notin {"all", "complete"} /\ ~ValidCode(code)
    <3>1. pc = "idle" /\ res = "invalid"
      BY <1>2, <2>1
    <3> QED
      BY <3>1
  <2>2. CASE FirstStep(kind, code) = "unsupported"
    <3>1. pc = "idle" /\ res \in {"invalid", "nothing"}
      BY <1>2, <2>2
    <3> QED
      BY <3>1
  <2>3. CASE /\ ~(kind \notin {"all", "complete"} /\ ~ValidCode(code))
             /\ FirstStep(kind, code) # "unsupported"
    <3>1. pc = FirstStep(kind, code) /\ res = "none"
      BY <1>2, <2>3
    <3> QED
      BY <2>3, <3>1, FirstSteps
  <2> QED
    BY <2>1, <2>2, <2>3
<1>5. pc \in Pcs /\ res \in Results
  BY <1>4 DEF Pcs, Results
<1>6. r \in DMCalls
  BY <1>1, <1>5, NoRowsAreRows DEF DMCalls
<1>7. CallOK(dmDb, r)
  BY <1>4 DEF CallOK
<1> QED
  BY <1>3, <1>6, <1>7, OnlyTheCall

\* Nor has one of a free caller.
LEMMA AskStep ==
  ASSUME IInv, NEW c \in DMCallers, DMAsk(c)
  PROVE  IInv'
<1>1. PICK kind \in Kinds, code \in StockCodes, range \in Ranges :
        DMRequest(c, kind, code, range[1], range[2])
  BY DEF DMAsk
<1>2. range[1] \in Days /\ range[2] \in Days
  BY DMAssumption DEF Days
<1>3. dmAsked' \in Nat
  BY DEF DMAsk, IInv, DMTypeOK
<1> QED
  BY <1>1, <1>2, <1>3, RequestStep

-----------------------------------------------------------------------------
(* The theorems about the data manager *)

\* Nothing is stored and nobody calls, to begin with.
LEMMA InitIInv == DMInit => IInv
<1> SUFFICES ASSUME DMInit PROVE IInv
  OBVIOUS
<1>1. PICK code : code = (CHOOSE x \in StockCodes : TRUE)
  OBVIOUS
<1>2. code \in StockCodes /\ 0 \in Days
  BY <1>1, DMAssumption DEF Days
<1>3. Asleep = [pc |-> "idle", kind |-> "daily", code |-> code, from |-> 0, to |-> 0, at |-> 0,
                rows |-> NoRows, res |-> "none"]
  BY <1>1 DEF Asleep
<1>4. Asleep \in DMCalls
  BY <1>2, <1>3, NoRowsAreRows DEF DMCalls, Pcs, Kinds, Cached, Results
<1>5. \A db : CallOK(db, Asleep)
  BY <1>3 DEF CallOK
<1>6. dmDb \in [StockCodes -> Rows]
  BY NoRowsAreRows DEF DMInit
<1>7. dmCall \in [DMCallers -> DMCalls] /\ \A c \in DMCallers : CallOK(dmDb, dmCall[c])
  BY <1>4, <1>5 DEF DMInit
<1>8. DOMAIN dmCache = {} /\ dmAsked = 0
  BY DEF DMInit
<1> QED
  BY <1>6, <1>7, <1>8 DEF IInv, DMTypeOK, CacheOK

\* Every step keeps the invariant.
LEMMA NextIInv == IInv /\ [DMNext]_dmVars => IInv'
<1> SUFFICES ASSUME IInv, [DMNext]_dmVars PROVE IInv'
  OBVIOUS
<1>1. ASSUME NEW c \in DMCallers, DMAsk(c) PROVE IInv'
  BY <1>1, AskStep
<1>2. ASSUME NEW c \in DMCallers, DMStep(c) PROVE IInv'
  BY <1>2, CacheSteps, DbSteps, SourceSteps, SaveSteps, PutStep, OtherSteps DEF DMStep
<1>3. CASE DMExpiry
  BY <1>3, ExpireStep
<1>4. CASE UNCHANGED dmVars
  BY <1>4 DEF dmVars, IInv, DMTypeOK
<1> QED
  BY <1>1, <1>2, <1>3, <1>4 DEF DMNext

\* The invariant holds in every reachable state: the data manager keeps its types, no call
\* goes to the database for anything but daily bars, and what is to be cached is saved.
THEOREM CallsInOrder == DMSpec => []IInv
BY InitIInv, NextIInv, PTL DEF DMSpec

\* Whatever fails in between, the bars fetch_daily_bars has answered with, and those the cache
\* would answer with, lie in the range asked for and are in the database.
THEOREM BarsAreStored == DMSpec => []DailyBarsStored
<1>1. IInv => DailyBarsStored
  BY DEF IInv, CacheOK, CallOK, Kept, DailyBarsStored, StoredRows
<1> QED
  BY <1>1, CallsInOrder, PTL

-----------------------------------------------------------------------------
(* Induction, and what a fold computes *)

\* Induction, for a set of numbers.
LEMMA Induction ==
  ASSUME NEW P, 0 \in P, \A k \in Nat : k \in P => k + 1 \in P
  PROVE  Nat \subseteq P
<1> SUFFICES ASSUME ~ (Nat \subseteq P) PROVE FALSE
  OBVIOUS
<1> DEFINE T == Nat \ P
<1>1. T \subseteq Nat /\ T # {}
  OBVIOUS
<1>2. PICK n \in T : \A k \in T : ~ (<<k, n>> \in OpToRel(<, Nat))
  BY <1>1, NatLessThanWellFounded, WFMin
<1>3. n \in Nat /\ n # 0
  OBVIOUS
<1>4. PICK k \in Nat : n = k + 1
  <2>1. n - 1 \in Nat /\ n = (n - 1) + 1
    BY <1>3
  <2> QED
    BY <2>1
<1>5. k < n
  BY <1>3, <1>4
<1>6. <<k, n>> \in OpToRel(<, Nat)
  BY <1>3, <1>5 DEF OpToRel
<1>7. k \in P
  BY <1>2, <1>6
<1> QED
  BY <1>4, <1>7

\* The greatest of some numbers is what Max chooses.
LEMMA MaxIs ==
  ASSUME NEW S \in SUBSET Int, NEW m \in S, \A x \in S : x <= m
  PROVE  Max(S) = m
<1>1. \A z \in S : (\A y \in S : z >= y) => z = m
  <2>1. m \in Int /\ \A z \in S : z \in Int
    OBVIOUS
  <2> QED
    BY <2>1
<1>2. \A y \in S : m >= y
  <2>1. m \in Int /\ \A z \in S : z \in Int
    OBVIOUS
  <2> QED
    BY <2>1
<1> QED
  BY <1>1, <1>2 DEF Max

\* Numbers between two others have a last one.
LEMMA LastBetween ==
  ASSUME NEW a \in Int, NEW b \in Int, NEW S \in SUBSET (a .. b), S # {}
  PROVE  Max(S) \in S /\ \A x \in S : x <= Max(S)
<1> DEFINE T == {n \in Nat : b - n \in S}
<1>1. T \subseteq Nat /\ T # {}
  <2>1. PICK x \in S : TRUE
    OBVIOUS
  <2>2. b - x \in Nat /\ b - (b - x) = x
    BY <2>1
  <2> QED
    BY <2>1, <2>2
<1>2. PICK n \in T : \A k \in T : ~ (<<k, n>> \in OpToRel(<, Nat))
  BY <1>1, NatLessThanWellFounded, WFMin
<1>3. \A k \in T : n <= k
  <2> HIDE DEF T
  <2> TAKE k \in T
  <2>1. k \in Nat /\ n \in Nat
    BY <1>1
  <2>2. k < n => <<k, n>> \in OpToRel(<, Nat)
    BY <2>1 DEF OpToRel
  <2>3. ~ (k < n)
    BY <1>2, <2>2
  <2> QED
    BY <2>1, <2>3
<1>4. n \in Nat /\ b - n \in S
  BY <1>2
<1>5. \A x \in S : x <= b - n
  <2> TAKE x \in S
  <2>1. b - x \in Nat /\ b - (b - x) = x
    OBVIOUS
  <2>2. b - x \in T
    BY <2>1
  <2>3. n <= b - x
    BY <1>3, <2>2
  <2> QED
    BY <1>4, <2>1, <2>3
<1> HIDE DEF T
<1>6. \A x \in S : x >= b - n => x = b - n
  BY <1>4, <1>5
<1>7. b - n \in S /\ \A y \in S : b - n >= y
  BY <1>4, <1>5
<1>8. \A z \in S : (\A y \in S : z >= y) => z = b - n
  BY <1>4, <1>6
<1>9. Max(S) = b - n
  BY <1>7, <1>8 DEF Max
<1> QED
  BY <1>4, <1>5, <1>9

\* In particular the last of some places of a sequence.
LEMMA LastPlace ==
  ASSUME NEW n \in Nat, NEW S \in SUBSET (1 .. n), S # {}
  PROVE  Max(S) \in S /\ \A x \in S : x <= Max(S)
<1>1. 1 \in Int /\ n \in Int
  OBVIOUS
<1> QED
  BY <1>1, LastBetween

\* What FoldLeft computes, for a step F: the fold of every set of the first n
\* numbers, the last one last.
StepsIn(F, R, n) == F \in [R \X (1 .. n) -> R]
Solution(it, base, F, n) ==
  \A s \in SUBSET (1 .. n) :
    it[s] = IF s = {} THEN base ELSE F[<<it[s \ {Max(s)}], Max(s)>>]
\* The same, as far as the values are in R.
SolutionIn(it, base, F, R, n) ==
  /\ it[{}] = base
  /\ \A s \in SUBSET (1 .. n) :
       s # {} /\ it[s \ {Max(s)}] \in R => it[s] = F[<<it[s \ {Max(s)}], Max(s)>>]
\* And the folds of the numbers up to each.
Values(r, it, base, F, n) ==
  /\ r[0] = base /\ r[n] = it[1 .. n]
  /\ \A k \in 0 .. n - 1 : r[k + 1] = F[<<r[k], k + 1>>]

\* There is a solution.
LEMMA Recursion ==
  ASSUME NEW n \in Nat, NEW R, NEW base \in R, NEW F, StepsIn(F, R, n)
  PROVE  \E it \in [SUBSET (1 .. n) -> R] : Solution(it, base, F, n)
<1> USE DEF StepsIn, Solution
<1> DEFINE Solves(it, m) ==
             \A s \in SUBSET (1 .. m) :
               it[s] = IF s = {} THEN base ELSE F[<<it[s \ {Max(s)}], Max(s)>>]
           Solvable(m) == \E it \in [SUBSET (1 .. m) -> R] : Solves(it, m)
           P == {m \in Nat : m <= n => Solvable(m)}
<1>1. Solvable(0)
  <2> DEFINE it == [s \in SUBSET (1 .. 0) |-> base]
  <2>1. it \in [SUBSET (1 .. 0) -> R] /\ Solves(it, 0)
    OBVIOUS
  <2> QED
    BY <2>1
<1>2. ASSUME NEW m \in Nat, m + 1 <= n, Solvable(m)
      PROVE  Solvable(m + 1)
  <2>1. PICK h \in [SUBSET (1 .. m) -> R] : Solves(h, m)
    BY <1>2
  <2>2. PICK l \in 1 .. n : l = m + 1
    BY <1>2
  <2> DEFINE it == [s \in SUBSET (1 .. l) |-> IF l \in s THEN F[<<h[s \ {l}], l>>] ELSE h[s]]
  <2>3. \A s \in SUBSET (1 .. l) : s \ {l} \in SUBSET (1 .. m) /\ (l \notin s => s \in SUBSET (1 .. m))
    BY <2>2
  <2>4. it \in [SUBSET (1 .. l) -> R]
    <3>1. ASSUME NEW s \in SUBSET (1 .. l) PROVE it[s] \in R
      <4>1. CASE l \in s
        BY <2>3, <4>1
      <4>2. CASE l \notin s
        BY <2>3, <4>2
      <4> QED
        BY <4>1, <4>2
    <3> QED
      BY <3>1
  <2>5. Solves(it, l)
    <3> SUFFICES ASSUME NEW s \in SUBSET (1 .. l)
                 PROVE  it[s] = IF s = {} THEN base ELSE F[<<it[s \ {Max(s)}], Max(s)>>]
      OBVIOUS
    <3>1. CASE l \in s
      <4>1. Max(s) = l
        <5>1. s \in SUBSET Int /\ \A x \in s : x <= l
          BY <2>2
        <5> QED
          BY <3>1, <5>1, MaxIs
      <4>2. it[s \ {l}] = h[s \ {l}]
        OBVIOUS
      <4> QED
        BY <3>1, <4>1, <4>2
    <3>2. CASE l \notin s /\ s # {}
      <4>1. PICK t : t = Max(s)
        OBVIOUS
      <4>2. s \in SUBSET (1 .. m)
        BY <2>3, <3>2
      <4>3. t \in s
        BY <3>2, <4>1, <4>2, LastPlace
      <4>4. it[s \ {t}] = h[s \ {t}] /\ it[s] = h[s]
        BY <3>2
      <4>5. h[s] = F[<<h[s \ {t}], t>>]
        BY <2>1, <3>2, <4>1, <4>2
      <4> QED
        BY <3>2, <4>1, <4>4, <4>5
    <3>3. CASE s = {}
      <4>1. it[s] = h[s]
        BY <3>3
      <4>2. s \in SUBSET (1 .. m)
        BY <3>3
      <4> QED
        BY <2>1, <3>3, <4>1, <4>2
    <3> QED
      BY <3>1, <3>2, <3>3
  <2> QED
    BY <2>2, <2>4, <2>5
<1>3. Nat \subseteq P
  <2> HIDE DEF Solvable
  <2>1. 0 \in P
    BY <1>1
  <2>2. ASSUME NEW m \in Nat, m \in P PROVE m + 1 \in P
    BY <1>2, <2>2
  <2> HIDE DEF P
  <2> QED
    BY <2>1, <2>2, Induction
<1>4. Solvable(n)
  <2> HIDE DEF Solvable
  <2> QED
    BY <1>3
<1> QED
  BY <1>4

\* What a solution does number by number.
LEMMA FoldSteps ==
  ASSUME NEW n \in Nat, NEW R, NEW base \in R, NEW F, StepsIn(F, R, n), NEW c,
         SolutionIn(c, base, F, R, n)
  PROVE  \E r \in [0 .. n -> R] : Values(r, c, base, F, n)
<1> USE DEF StepsIn, SolutionIn, Values
<1>1. ASSUME NEW k \in Nat, k + 1 <= n
      PROVE  /\ 1 .. k + 1 \in SUBSET (1 .. n) /\ 1 .. k + 1 # {}
             /\ Max(1 .. k + 1) = k + 1 /\ (1 .. k + 1) \ {k + 1} = 1 .. k
  <2>1. PICK m : m = k + 1
    OBVIOUS
  <2>2. 1 .. m \in SUBSET Int /\ m \in 1 .. m /\ \A x \in 1 .. m : x <= m
    BY <2>1
  <2>3. Max(1 .. m) = m
    BY <2>2, MaxIs
  <2>4. (1 .. m) \ {m} = 1 .. k /\ 1 .. m \in SUBSET (1 .. n) /\ 1 .. m # {}
    BY <1>1, <2>1
  <2> QED
    BY <2>1, <2>3, <2>4
<1>2. ASSUME NEW k \in Nat, k + 1 <= n, c[1 .. k] \in R
      PROVE  c[1 .. k + 1] = F[<<c[1 .. k], k + 1>>]
  BY <1>1, <1>2
<1> DEFINE P == {k \in Nat : k <= n => c[1 .. k] \in R}
<1>3. 0 \in P
  <2>1. 1 .. 0 = {}
    OBVIOUS
  <2> QED
    BY <2>1
<1>4. ASSUME NEW k \in Nat, k \in P PROVE k + 1 \in P
  <2> SUFFICES ASSUME k + 1 <= n PROVE c[1 .. k + 1] \in R
    OBVIOUS
  <2>1. c[1 .. k] \in R
    BY <1>4
  <2>2. k + 1 \in 1 .. n
    OBVIOUS
  <2> QED
    BY <1>2, <2>1, <2>2
<1>5. \A k \in 0 .. n : c[1 .. k] \in R
  <2> HIDE DEF P
  <2>1. Nat \subseteq P
    BY <1>3, <1>4, Induction
  <2> QED
    BY <2>1 DEF P
<1> DEFINE r == [k \in 0 .. n |-> c[1 .. k]]
<1>6. r \in [0 .. n -> R] /\ r[n] = c[1 .. n]
  BY <1>5
<1>7. r[0] = base
  <2>1. 1 .. 0 = {}
    OBVIOUS
  <2> QED
    BY <2>1
<1>8. \A k \in 0 .. n - 1 : r[k + 1] = F[<<r[k], k + 1>>]
  BY <1>2, <1>5
<1> QED
  BY <1>6, <1>7, <1>8

\* A sum of whole numbers is one.
LEMMA SumOfInts ==
  ASSUME NEW numbers \in Seq(Int)
  PROVE  FoldLeft(LAMBDA s, x : s + x, 0, numbers) \in Int
<1>1. PICK n \in Nat : n = Len(numbers) /\ DOMAIN numbers = 1 .. n
  OBVIOUS
<1> DEFINE F == [p \in Int \X (1 .. n) |-> p[1] + numbers[p[2]]]
<1>2. StepsIn(F, Int, n) /\ 0 \in Int
  BY <1>1 DEF StepsIn
<1>3. PICK it \in [SUBSET (1 .. n) -> Int] : Solution(it, 0, F, n)
  BY <1>2, Recursion
<1>4. it = [s \in SUBSET (1 .. n) |-> IF s = {} THEN 0 ELSE it[s \ {Max(s)}] + numbers[Max(s)]]
  <2>1. ASSUME NEW s \in SUBSET (1 .. n), s # {}
        PROVE  F[<<it[s \ {Max(s)}], Max(s)>>] = it[s \ {Max(s)}] + numbers[Max(s)]
    <3>1. PICK l \in 1 .. n : l = Max(s)
      BY <2>1, LastPlace
    <3>2. s \ {l} \in SUBSET (1 .. n)
      OBVIOUS
    <3> QED
      BY <3>1, <3>2
  <2> QED
    BY <1>3, <2>1 DEF Solution
<1>5. PICK c : c = CHOOSE z : z = [s \in SUBSET (1 .. n) |->
                                     IF s = {} THEN 0 ELSE z[s \ {Max(s)}] + numbers[Max(s)]]
  OBVIOUS
<1>6. c = [s \in SUBSET (1 .. n) |-> IF s = {} THEN 0 ELSE c[s \ {Max(s)}] + numbers[Max(s)]]
  BY <1>4, <1>5
<1>7. FoldLeft(LAMBDA s, x : s + x, 0, numbers) = c[1 .. n]
  BY <1>1, <1>5 DEF FoldLeft, MapThenFoldSet
<1>8. \A s \in SUBSET (1 .. n) :
        s # {} /\ c[s \ {Max(s)}] \in Int => c[s] = F[<<c[s \ {Max(s)}], Max(s)>>]
  <2> SUFFICES ASSUME NEW s \in SUBSET (1 .. n), s # {}, c[s \ {Max(s)}] \in Int
               PROVE  c[s] = F[<<c[s \ {Max(s)}], Max(s)>>]
    OBVIOUS
  <2>1. PICK l \in 1 .. n : l = Max(s)
    BY LastPlace
  <2> QED
    BY <1>6, <2>1
<1>9. c[{}] = 0
  BY <1>6
<1> HIDE DEF F
<1>10. PICK r \in [0 .. n -> Int] : Values(r, c, 0, F, n)
  <2>1. SolutionIn(c, 0, F, Int, n)
    BY <1>8, <1>9 DEF SolutionIn
  <2> QED
    BY <1>2, <2>1, FoldSteps
<1>11. n \in 0 .. n
  OBVIOUS
<1>12. r[n] \in Int
  BY <1>10, <1>11
<1> QED
  BY <1>7, <1>10, <1>12 DEF Values

-----------------------------------------------------------------------------
(* The windows *)

\* Whole parts of a number, and multiples that follow each other.
LEMMA Dividing ==
  ASSUME NEW a \in Nat, NEW b \in Nat \ {0}
  PROVE  a \div b \in Nat /\ b * (a \div b) <= a
OBVIOUS

\* Of two multiples of a number, the greater is at least that number greater.
LEMMA Multiples ==
  ASSUME NEW i \in Nat, NEW j \in Nat, NEW d \in Nat, i < j
  PROVE  i * d \in Nat /\ j * d \in Nat /\ i * d + d <= j * d
<1>1. PICK k \in Nat : j = i + 1 + k
  <2>1. j - i - 1 \in Nat /\ j = i + 1 + (j - i - 1)
    OBVIOUS
  <2> QED
    BY <2>1
<1>2. k * d \in Nat /\ i * d \in Nat
  OBVIOUS
<1>3. j * d = i * d + d + k * d
  BY <1>1
<1> QED
  BY <1>2, <1>3

\* A percentage of a number of days is no more than all of them.
LEMMA PartOf ==
  ASSUME NEW d \in Nat, NEW p \in 0 .. 100
  PROVE  (d * p) \div 100 \in 0 .. d
<1>1. (100 - p) * d \in Nat /\ d * p \in Nat
  OBVIOUS
<1>2. d * p + (100 - p) * d = 100 * d
  OBVIOUS
<1>3. PICK e \in Nat : e = d * p
  BY <1>1
<1>4. e <= 100 * d
  BY <1>1, <1>2, <1>3
<1>5. e \div 100 \in Nat /\ e \div 100 <= d
  BY <1>4
<1> QED
  BY <1>3, <1>5

\* The windows follow each other, each with its split.
LEMMA WindowsAre ==
  ASSUME NEW i \in Nat, i < Windows
  PROVE  /\ WStart(i) \in Days /\ SplitDay(i) \in Days /\ WEnd(i) \in Days
         /\ WStart(i) <= SplitDay(i) /\ SplitDay(i) <= WEnd(i)
         /\ WEnd(i) = WStart(i) + WindowDays
<1>1. Windows \in Nat \ {0} /\ LastDay \in Nat /\ RatioPct \in 0 .. 100
  BY BTAssumption, DMAssumption
<1>2. PICK d \in Nat : d = WindowDays /\ Windows * d <= LastDay
  BY <1>1, Dividing DEF WindowDays
<1>3. i * d \in Nat /\ i * d + d <= Windows * d
  BY <1>1, Multiples
<1>4. PICK s \in 0 .. d : s = (d * RatioPct) \div 100
  BY <1>1, PartOf
<1>5. WStart(i) = i * d /\ SplitDay(i) = i * d + s
  BY <1>2, <1>4 DEF WStart, SplitDay
<1>6. PICK e \in Nat : e = i * d + d /\ e <= LastDay
  <2>1. Windows * d \in Nat
    BY <1>1
  <2> QED
    BY <1>1, <1>2, <1>3, <2>1
<1>7. WEnd(i) = e
  <2>1. Min({e, LastDay}) = e
    <3>1. e \in {e, LastDay} /\ \A y \in {e, LastDay} : e <= y
      BY <1>1, <1>6
    <3>2. \A z \in {e, LastDay} : (\A y \in {e, LastDay} : z <= y) => z = e
      BY <1>1, <1>6
    <3> QED
      BY <3>1, <3>2 DEF Min
  <2> QED
    BY <1>2, <1>5, <1>6, <2>1 DEF WEnd
<1> QED
  BY <1>1, <1>2, <1>3, <1>4, <1>5, <1>6, <1>7 DEF Days

\* A window ends before a later one begins, or where it does.
LEMMA WindowsFollow ==
  ASSUME NEW i \in Nat, NEW j \in Nat, i < j, j < Windows
  PROVE  WEnd(i) <= WStart(j)
<1>1. Windows \in Nat \ {0} /\ LastDay \in Nat
  BY BTAssumption, DMAssumption
<1>2. PICK d \in Nat : d = WindowDays
  BY <1>1, Dividing DEF WindowDays
<1>3. WEnd(i) = WStart(i) + d
  BY <1>1, <1>2, WindowsAre
<1>4. i * d + d <= j * d
  BY Multiples
<1> QED
  BY <1>2, <1>3, <1>4 DEF WStart

-----------------------------------------------------------------------------
(* Trades and ratios *)

Trades  == [entry : Int, exit : Int, pnl : Int]
Signs   == [type : {"BUY", "SELL", "NEUTRAL", "ALERT"}, day : Int, price : Int]
Holding == [open : BOOLEAN, entry : Int, since : Int, trades : Seq(Trades)]

\* A signal leaves a position and a list of trades.
LEMMA TradeOnHolding ==
  ASSUME NEW pos \in Holding, NEW sig \in Signs
  PROVE  TradeOn(pos, sig) \in Holding
<1>1. CostRate \in Nat
  BY BTAssumption
<1>2. CASE sig.type = "BUY" /\ ~pos.open
  <2>1. TradeOn(pos, sig) = [pos EXCEPT !.open = TRUE, !.entry = sig.price, !.since = sig.day]
    BY <1>2 DEF TradeOn
  <2> QED
    BY <2>1 DEF Holding, Signs
<1>3. CASE sig.type = "SELL" /\ pos.open
  <2>1. PICK cost : cost = ((pos.entry + sig.price) * CostRate) \div 20
    OBVIOUS
  <2>2. cost \in Int
    <3>1. PICK sum \in Int : sum = (pos.entry + sig.price) * CostRate
      BY <1>1 DEF Holding, Signs
    <3> QED
      BY <2>1, <3>1
  <2>3. PICK trade : trade = [entry |-> pos.since, exit |-> sig.day,
                              pnl |-> (sig.price - pos.entry) * 100 - cost]
    OBVIOUS
  <2>4. trade \in Trades
    BY <2>2, <2>3 DEF Holding, Signs, Trades
  <2>5. TradeOn(pos, sig) = [pos EXCEPT !.open = FALSE, !.trades = Append(@, trade)]
    BY <1>3, <2>1, <2>3 DEF TradeOn
  <2>6. Append(pos.trades, trade) \in Seq(Trades)
    BY <2>4 DEF Holding
  <2> QED
    BY <2>5, <2>6 DEF Holding
<1>4. CASE /\ ~(sig.type = "BUY" /\ ~pos.open)
           /\ ~(sig.type = "SELL" /\ pos.open)
  <2>1. TradeOn(pos, sig) = pos
    BY <1>4 DEF TradeOn
  <2> QED
    BY <2>1
<1> QED
  BY <1>2, <1>3, <1>4

\* Whatever a strategy signals, what comes of it is a list of trades.
LEMMA TradesAre ==
  ASSUME NEW signals \in Seq(Signs)
  PROVE  TradesOf(signals) \in Seq(Trades)
<1>1. PICK n \in Nat : n = Len(signals) /\ DOMAIN signals = 1 .. n
  OBVIOUS
<1> DEFINE F == [p \in Holding \X (1 .. n) |-> TradeOn(p[1], signals[p[2]])]
<1>2. StepsIn(F, Holding, n)
  BY <1>1, TradeOnHolding DEF StepsIn
<1>3. Flat \in Holding
  BY DEF Flat, Holding
<1>4. PICK it \in [SUBSET (1 .. n) -> Holding] : Solution(it, Flat, F, n)
  BY <1>2, <1>3, Recursion
<1>5. it = [s \in SUBSET (1 .. n) |->
              IF s = {} THEN Flat ELSE TradeOn(it[s \ {Max(s)}], signals[Max(s)])]
  <2>1. ASSUME NEW s \in SUBSET (1 .. n), s # {}
        PROVE  F[<<it[s \ {Max(s)}], Max(s)>>] = TradeOn(it[s \ {Max(s)}], signals[Max(s)])
    <3>1. PICK l \in 1 .. n : l = Max(s)
      BY <2>1, LastPlace
    <3>2. s \ {l} \in SUBSET (1 .. n)
      OBVIOUS
    <3>3. it[s \ {l}] \in Holding
      BY <3>2
    <3> QED
      BY <3>1, <3>3
  <2> QED
    BY <1>4, <2>1 DEF Solution
<1>6. PICK c : c = CHOOSE z : z = [s \in SUBSET (1 .. n) |->
                 IF s = {} THEN Flat ELSE TradeOn(z[s \ {Max(s)}], signals[Max(s)])]
  OBVIOUS
<1>7. c = [s \in SUBSET (1 .. n) |->
             IF s = {} THEN Flat ELSE TradeOn(c[s \ {Max(s)}], signals[Max(s)])]
  BY <1>5, <1>6
<1>8. FoldLeft(TradeOn, Flat, signals) = c[1 .. n]
  BY <1>1, <1>6 DEF FoldLeft, MapThenFoldSet
<1>9. SolutionIn(c, Flat, F, Holding, n)
  <2>1. c[{}] = Flat
    BY <1>7
  <2>2. ASSUME NEW s \in SUBSET (1 .. n), s # {}, c[s \ {Max(s)}] \in Holding
        PROVE  c[s] = F[<<c[s \ {Max(s)}], Max(s)>>]
    <3>1. PICK l \in 1 .. n : l = Max(s)
      BY <2>2, LastPlace
    <3> QED
      BY <1>7, <2>2, <3>1
  <2> HIDE DEF F
  <2> QED
    BY <2>1, <2>2 DEF SolutionIn
<1> HIDE DEF F
<1>10. PICK r \in [0 .. n -> Holding] : Values(r, c, Flat, F, n)
  BY <1>2, <1>3, <1>9, FoldSteps
<1>11. n \in 0 .. n
  OBVIOUS
<1>12. r[n] \in Holding
  BY <1>10, <1>11
<1> QED
  BY <1>8, <1>10, <1>12 DEF Values, TradesOf, Holding

\* What the trades brought, and its squares, are whole numbers.
LEMMA PnlsAre ==
  ASSUME NEW trades \in Seq(Trades)
  PROVE  /\ [i \in DOMAIN trades |-> trades[i].pnl] \in Seq(Int)
         /\ [i \in DOMAIN trades |-> trades[i].pnl * trades[i].pnl] \in Seq(Int)
<1>1. PICK n \in Nat : n = Len(trades) /\ DOMAIN trades = 1 .. n
  OBVIOUS
<1>2. ASSUME NEW i \in 1 .. n PROVE trades[i].pnl \in Int
  <2>1. trades[i] \in Trades
    BY <1>1
  <2> QED
    BY <2>1 DEF Trades
<1>3. \A f \in [1 .. n -> Int] : f \in Seq(Int)
  OBVIOUS
<1>4. [i \in 1 .. n |-> trades[i].pnl] \in [1 .. n -> Int]
  BY <1>2
<1>5. [i \in 1 .. n |-> trades[i].pnl * trades[i].pnl] \in [1 .. n -> Int]
  BY <1>2
<1> QED
  BY <1>1, <1>3, <1>4, <1>5

\* So is the ratio the runs are ordered by.
LEMMA RatiosAreInts ==
  ASSUME NEW trades \in Seq(Trades)
  PROVE  SharpeSquare(trades) \in Int
<1>1. [i \in DOMAIN trades |-> trades[i].pnl] \in Seq(Int)
  BY PnlsAre
<1>2. [i \in DOMAIN trades |-> trades[i].pnl * trades[i].pnl] \in Seq(Int)
  BY PnlsAre
<1>3. PICK sum \in Int : sum = SumOver(LAMBDA t : t.pnl, trades)
  BY <1>1, SumOfInts DEF SumOver
<1>4. PICK squares \in Int : squares = SumOver(LAMBDA t : t.pnl * t.pnl, trades)
  BY <1>2, SumOfInts DEF SumOver
<1>5. PICK n \in Nat : n = Len(trades)
  OBVIOUS
<1>6. PICK spread \in Int : spread = n * squares - sum * sum
  OBVIOUS
<1>7. PICK e \in Int : e = 252 * sum * sum
  OBVIOUS
<1>8. SharpeSquare(trades) = IF n > 1 /\ spread > 0 THEN Signum(sum) * (e \div spread) ELSE 0
  BY <1>3, <1>4, <1>5, <1>6, <1>7 DEF SharpeSquare
<1>9. Signum(sum) \in Int
  BY DEF Signum
<1>10. spread > 0 => e \div spread \in Int
  OBVIOUS
<1> QED
  BY <1>8, <1>9, <1>10

\* The first of some places of a sequence.
LEMMA FirstIs ==
  ASSUME NEW n \in Nat, NEW S \in SUBSET (1 .. n), S # {}
  PROVE  Min(S) \in S
<1>1. S \subseteq Nat
  OBVIOUS
<1>2. PICK m \in S : \A k \in S : ~ (<<k, m>> \in OpToRel(<, Nat))
  BY <1>1, NatLessThanWellFounded, WFMin
<1>3. \A k \in S : m <= k
  <2> TAKE k \in S
  <2>1. k \in Nat /\ m \in Nat
    BY <1>1
  <2>2. k < m => <<k, m>> \in OpToRel(<, Nat)
    BY <2>1 DEF OpToRel
  <2>3. ~ (k < m)
    BY <1>2, <2>2
  <2> QED
    BY <2>1, <2>3
<1> QED
  BY <1>3 DEF Min

BtResults == [params : Range(Grid), status : {"COMPLETED", "FAILED"}, used : SUBSET Days,
              trades : Nat, sharpe : Int]

\* The best of some results is one of them.
LEMMA BestIsOne ==
  ASSUME NEW scan \in Seq(BtResults), scan # <<>>
  PROVE  \E i \in DOMAIN scan : Best(scan) = scan[i]
<1>1. PICK n \in Nat : n = Len(scan) /\ DOMAIN scan = 1 .. n /\ n # 0
  OBVIOUS
<1>2. PICK f \in [1 .. n -> Int] : \A i \in 1 .. n : f[i] = scan[i].sharpe
  <2>1. ASSUME NEW i \in 1 .. n PROVE scan[i].sharpe \in Int
    <3>1. scan[i] \in BtResults
      BY <1>1
    <3> QED
      BY <3>1 DEF BtResults
  <2>2. [i \in 1 .. n |-> scan[i].sharpe] \in [1 .. n -> Int]
    BY <2>1
  <2> QED
    BY <2>2
<1> DEFINE Highest(m) == \E i \in 1 .. m : \A j \in 1 .. m : f[i] >= f[j]
           P == {m \in Nat : m # 0 /\ m <= n => Highest(m)}
<1>3. ASSUME NEW m \in Nat, m # 0 => Highest(m), m + 1 <= n
      PROVE  Highest(m + 1)
  <2>1. PICK l \in 1 .. n : l = m + 1 /\ 1 .. l = (1 .. m) \union {l}
    BY <1>3
  <2>2. CASE m = 0
    <3>1. \A j \in 1 .. l : f[l] >= f[j]
      BY <2>1, <2>2
    <3> QED
      BY <2>1, <3>1
  <2>3. CASE m # 0
    <3>1. PICK i \in 1 .. m : \A j \in 1 .. m : f[i] >= f[j]
      BY <1>3, <2>3
    <3>2. i \in 1 .. n /\ 1 .. m \subseteq 1 .. n
      BY <2>1
    <3>3. f[i] \in Int /\ f[l] \in Int /\ \A j \in 1 .. m : f[j] \in Int
      BY <3>2
    <3>4. CASE f[l] >= f[i]
      <4>1. ASSUME NEW j \in 1 .. m PROVE f[l] >= f[j]
        <5>1. PICK x \in Int, y \in Int, z \in Int : x = f[l] /\ y = f[i] /\ z = f[j]
          BY <3>3
        <5>2. x >= y /\ y >= z
          BY <3>1, <3>4, <5>1
        <5>3. x >= z
          BY <5>2
        <5> QED
          BY <5>1, <5>3
      <4>2. \A j \in 1 .. l : f[l] >= f[j]
        <5>1. f[l] >= f[l]
          BY <3>3
        <5>2. \A j \in 1 .. l : j \in 1 .. m \/ j = l
          BY <2>1
        <5> QED
          BY <4>1, <5>1, <5>2
      <4> QED
        BY <2>1, <4>2
    <3>5. CASE f[i] >= f[l]
      <4>1. \A j \in 1 .. l : j \in 1 .. m \/ j = l
        BY <2>1
      <4>2. \A j \in 1 .. l : f[i] >= f[j]
        BY <3>1, <3>5, <4>1
      <4> QED
        BY <2>1, <4>2
    <3> QED
      BY <3>3, <3>4, <3>5
  <2> QED
    BY <2>2, <2>3
<1>4. Nat \subseteq P
  <2> HIDE DEF Highest
  <2>1. 0 \in P
    OBVIOUS
  <2>2. ASSUME NEW m \in Nat, m \in P PROVE m + 1 \in P
    BY <1>3, <2>2
  <2> HIDE DEF P
  <2> QED
    BY <2>1, <2>2, Induction
<1>5. Highest(n)
  <2> HIDE DEF Highest
  <2> QED
    BY <1>1, <1>4
<1>6. PICK S : S = {i \in DOMAIN scan : \A j \in DOMAIN scan : scan[i].sharpe >= scan[j].sharpe}
  OBVIOUS
<1>7. S \in SUBSET (1 .. n) /\ S # {}
  BY <1>1, <1>2, <1>5, <1>6
<1>8. Min(S) \in S
  BY <1>7, FirstIs
<1>9. Best(scan) = scan[Min(S)]
  BY <1>6 DEF Best
<1> QED
  BY <1>1, <1>7, <1>8, <1>9

-----------------------------------------------------------------------------
(* The engine at work *)

Asking == dmCall[Walker].pc # "idle" \/ dmCall[Walker].res # "none"

BTTypeOK ==
  /\ btSide \in {"idle", "in", "out"}
  /\ btWindow \in Nat /\ btWindow = Len(btResults) /\ btWindow <= Windows
  /\ btTurn \in 1 .. Len(Grid)
  /\ btCode \in Nat \ {0}
  /\ btTrades \in Seq(Trades)
  /\ btUsed \subseteq Days
  /\ btScan \in Seq(BtResults)
  /\ btResults \in Seq([in : BtResults, out : BtResults])

\* A result of the window w, in sample and out of sample.
InSample(r, w)  == r.used \subseteq WStart(w) .. SplitDay(w)
OutSample(r, w) == r.used \subseteq SplitDay(w) .. WEnd(w)

\* What the walker asks for is of the range of its run, and so are the days the
\* run has used, those of the results of the scan, and those of every window.
BTInv ==
  /\ BTTypeOK
  /\ Asking => /\ Walking /\ btCode <= Len(CodesTested)
               /\ dmCall[Walker].kind = "daily"
               /\ dmCall[Walker].from = From /\ dmCall[Walker].to = To
  /\ Walking => btWindow < Windows /\ btUsed \subseteq From .. To
  /\ btSide = "idle" => btScan = <<>> /\ btUsed = {}
  /\ btSide = "out" => btScan # <<>>
  /\ \A i \in DOMAIN btScan : InSample(btScan[i], btWindow)
  /\ \A i \in DOMAIN btResults :
       InSample(btResults[i].in, i - 1) /\ OutSample(btResults[i].out, i - 1)

\* Nothing is asked for and nothing has been tried, to begin with.
LEMMA BTBegins == DMInit /\ BTInit => BTInv
<1> SUFFICES ASSUME DMInit, BTInit PROVE BTInv
  OBVIOUS
<1>1. dmCall[Walker].pc = "idle" /\ dmCall[Walker].res = "none"
  BY BTAssumption DEF DMInit, Asleep
<1>2. Len(Grid) \in Nat \ {0} /\ 0 <= Windows
  BY BTAssumption
<1>3. btScan = <<>> /\ btResults = <<>> /\ btTrades = <<>> /\ btUsed = {} /\ btWindow = 0
      /\ btTurn = 1 /\ btCode = 1 /\ btSide = "idle"
  BY DEF BTInit
<1>4. Len(btResults) = 0 /\ DOMAIN btScan = {} /\ DOMAIN btResults = {}
      /\ btTrades \in Seq(Trades) /\ btScan \in Seq(BtResults)
      /\ btResults \in Seq([in : BtResults, out : BtResults])
  BY <1>3
<1>5. BTTypeOK
  BY <1>2, <1>3, <1>4 DEF BTTypeOK
<1> QED
  BY <1>1, <1>3, <1>4, <1>5 DEF BTInv, Asking, Walking

\* The range of a run at work lies in its window.
LEMMA RangeIs ==
  ASSUME BTInv, Walking
  PROVE  /\ From \in Days /\ To \in Days /\ btWindow \in Nat /\ btWindow < Windows
         /\ btSide = "in" => From = WStart(btWindow) /\ To = SplitDay(btWindow)
         /\ btSide # "in" => From = SplitDay(btWindow) /\ To = WEnd(btWindow)
BY WindowsAre DEF BTInv, BTTypeOK, From, To

-----------------------------------------------------------------------------
(* The engine at work: the data manager's steps *)

\* A call that moves only changes where it stands and what it has.
Moves(c) ==
  \E pc, at, rows, res : dmCall' = [dmCall EXCEPT ![c] = Made(dmCall[c], pc, at, rows, res)]

\* The assignments of every step of a call are such.
LEMMA Movements ==
  ASSUME DMTypeOK, NEW c \in DMCallers
  PROVE  /\ \A pc, rows : GoOn(c, pc, rows) => Moves(c)
         /\ \A res, rows : Answer(c, res, rows) => Moves(c)
         /\ \A at, rows : dmCall' = [dmCall EXCEPT ![c].at = at, ![c].rows = rows] => Moves(c)
         /\ \A pc, at, rows :
              dmCall' = [dmCall EXCEPT ![c].pc = pc, ![c].rows = rows, ![c].at = at] => Moves(c)
<1> DEFINE k == dmCall[c]
<1>1. k \in DMCalls
  BY DEF DMTypeOK
<1>2. ASSUME NEW pc, NEW rows, NEW at,
             dmCall' = [dmCall EXCEPT ![c].pc = pc, ![c].rows = rows, ![c].at = at]
      PROVE  Moves(c)
  <2>1. [k EXCEPT !.pc = pc, !.rows = rows, !.at = at] = Made(k, pc, at, rows, k.res)
    BY <1>1, MovedCall
  <2>2. dmCall' = [dmCall EXCEPT ![c] = Made(k, pc, at, rows, k.res)]
    BY <1>2, <2>1
  <2> QED
    BY <2>2, Zenon DEF Moves
<1>3. ASSUME NEW res, NEW rows, Answer(c, res, rows)
      PROVE  Moves(c)
  <2>1. [k EXCEPT !.pc = "idle", !.res = res, !.rows = rows] = Made(k, "idle", k.at, rows, res)
    BY <1>1, AnsweredCall
  <2>2. dmCall' = [dmCall EXCEPT ![c] = Made(k, "idle", k.at, rows, res)]
    BY <1>3, <2>1 DEF Answer
  <2> QED
    BY <2>2, Zenon DEF Moves
<1>4. ASSUME NEW at, NEW rows, dmCall' = [dmCall EXCEPT ![c].at = at, ![c].rows = rows]
      PROVE  Moves(c)
  <2>1. [k EXCEPT !.at = at, !.rows = rows] = Made(k, k.pc, at, rows, k.res)
    BY <1>1, AdvancedCall
  <2>2. dmCall' = [dmCall EXCEPT ![c] = Made(k, k.pc, at, rows, k.res)]
    BY <1>4, <2>1
  <2> QED
    BY <2>2, Zenon DEF Moves
<1>5. ASSUME NEW pc, NEW rows, GoOn(c, pc, rows)
      PROVE  Moves(c)
  BY <1>2, <1>5 DEF GoOn
<1> QED
  BY <1>2, <1>3, <1>4, <1>5

\* Whatever step a call makes, it was under way and moves.
LEMMA StepsMove ==
  ASSUME DMTypeOK, NEW c \in DMCallers, DMStep(c)
  PROVE  dmCall[c].pc # "idle" /\ Moves(c)
<1>1. ASSUME SourceFails(c) PROVE Moves(c)
  BY <1>1, Movements DEF SourceFails
<1>2. ASSUME NEW rows, AfterSave(c, rows) PROVE Moves(c)
  BY <1>2, Movements DEF AfterSave
<1>3. CASE CacheHit(c) \/ CacheMiss(c)
  BY <1>3, Movements DEF CacheHit, CacheMiss
<1>4. CASE DbHit(c) \/ DbMiss(c)
  BY <1>4, Movements DEF DbHit, DbMiss
<1>5. CASE YFinance(c) \/ TwseFails(c)
  BY <1>1, <1>5, Movements DEF YFinance, TwseFails
<1>6. CASE TwseMonthArrives(c)
  BY <1>6, Movements DEF TwseMonthArrives
<1>7. CASE TwseEnds(c)
  BY <1>1, <1>7, Movements DEF TwseEnds
<1>8. CASE Save(c) \/ SaveFails(c)
  BY <1>2, <1>8, Movements DEF Save, SaveFails
<1>9. CASE Put(c)
  BY <1>9, Movements DEF Put
<1>10. CASE Everything(c)
  BY <1>10, Movements DEF Everything
<1>11. CASE DayArrives(c)
  BY <1>11, Movements DEF DayArrives
<1>12. CASE DayFails(c) \/ DaysEnd(c)
  BY <1>12, Movements DEF DayFails, DaysEnd
<1>13. CASE Mops(c) \/ YFinanceFigures(c) \/ Complete(c)
  BY <1>13, Movements DEF Mops, YFinanceFigures, Complete
<1> QED
  BY <1>3, <1>4, <1>5, <1>6, <1>7, <1>8, <1>9, <1>10, <1>11, <1>12, <1>13 DEF DMStep

\* A call that moves stays what it was made for, and no other call does anything.
LEMMA MovingKeeps ==
  ASSUME DMTypeOK, NEW c \in DMCallers, Moves(c)
  PROVE  \A d \in DMCallers : Same(dmCall'[d], dmCall[d]) /\ (d # c => dmCall'[d] = dmCall[d])
<1>1. PICK pc, at, rows, res : dmCall' = [dmCall EXCEPT ![c] = Made(dmCall[c], pc, at, rows, res)]
  BY DEF Moves
<1>2. dmCall'[c] = Made(dmCall[c], pc, at, rows, res)
  BY <1>1 DEF DMTypeOK
<1>3. Same(dmCall'[c], dmCall[c])
  BY <1>2 DEF Made, Same
<1>4. \A d \in DMCallers : d # c => dmCall'[d] = dmCall[d]
  BY <1>1 DEF DMTypeOK
<1> QED
  BY <1>3, <1>4 DEF Same

\* While the engine waits, the walker's call keeps what it was made for.
LEMMA WaitingStep ==
  ASSUME BTInv, UNCHANGED btVars, Asking' => Asking, Same(dmCall'[Walker], dmCall[Walker])
  PROVE  BTInv'
<1>1. /\ btSide' = btSide /\ btWindow' = btWindow /\ btTurn' = btTurn /\ btCode' = btCode
      /\ btTrades' = btTrades /\ btUsed' = btUsed /\ btScan' = btScan /\ btResults' = btResults
  BY DEF btVars
<1>2. From' = From /\ To' = To /\ Walking' = Walking
  BY <1>1 DEF From, To, Walking
<1>3. BTTypeOK'
  BY <1>1 DEF BTInv, BTTypeOK
<1>4. Asking' => /\ Walking' /\ btCode' <= Len(CodesTested)
                 /\ dmCall'[Walker].kind = "daily"
                 /\ dmCall'[Walker].from = From' /\ dmCall'[Walker].to = To'
  BY <1>1, <1>2 DEF BTInv, Same
<1>5. Walking' => btWindow' < Windows /\ btUsed' \subseteq From' .. To'
  BY <1>1, <1>2 DEF BTInv
<1>6. (btSide' = "idle" => btScan' = <<>> /\ btUsed' = {}) /\ (btSide' = "out" => btScan' # <<>>)
  BY <1>1 DEF BTInv
<1>7. \A i \in DOMAIN btScan' : InSample(btScan'[i], btWindow')
  BY <1>1 DEF BTInv
<1>8. \A i \in DOMAIN btResults' :
        InSample(btResults'[i].in, i - 1) /\ OutSample(btResults'[i].out, i - 1)
  BY <1>1 DEF BTInv
<1> QED
  BY <1>3, <1>4, <1>5, <1>6, <1>7, <1>8 DEF BTInv

\* Whoever else makes a step: the invariants of the data manager and of the engine remain.
LEMMA OthersStep ==
  ASSUME IInv, BTInv, UNCHANGED btVars,
         \/ \E c \in DMCallers : DMStep(c)
         \/ \E c \in DMCallers \ {Walker} : DMAsk(c)
         \/ DMExpiry
  PROVE  IInv' /\ BTInv'
<1>1. DMTypeOK /\ Walker \in DMCallers
  BY BTAssumption DEF IInv
<1>2. ASSUME NEW c \in DMCallers, DMStep(c)
      PROVE  IInv' /\ BTInv'
  <2>1. IInv'
    BY <1>2, NextIInv DEF DMNext
  <2>2. dmCall[c].pc # "idle" /\ Moves(c)
    BY <1>1, <1>2, StepsMove
  <2>3. Same(dmCall'[Walker], dmCall[Walker]) /\ (Walker # c => dmCall'[Walker] = dmCall[Walker])
    BY <1>1, <2>2, MovingKeeps
  <2>4. Asking' => Asking
    BY <2>2, <2>3 DEF Asking
  <2> QED
    BY <2>1, <2>3, <2>4, WaitingStep
<1>3. ASSUME NEW c \in DMCallers \ {Walker}, DMAsk(c)
      PROVE  IInv' /\ BTInv'
  <2>1. IInv'
    BY <1>3, NextIInv DEF DMNext
  <2>2. dmCall'[Walker] = dmCall[Walker]
    BY <1>1, <1>3 DEF DMAsk, DMRequest, DMTypeOK
  <2>3. Asking' => Asking
    BY <2>2 DEF Asking
  <2>4. Same(dmCall'[Walker], dmCall[Walker])
    BY <2>2 DEF Same
  <2> QED
    BY <2>1, <2>3, <2>4, WaitingStep
<1>4. CASE DMExpiry
  <2>1. IInv'
    BY <1>4, ExpireStep
  <2>2. dmCall' = dmCall
    BY <1>4 DEF DMExpiry, DMExpire
  <2>3. (Asking' => Asking) /\ Same(dmCall'[Walker], dmCall[Walker])
    BY <2>2 DEF Asking, Same
  <2> QED
    BY <2>1, <2>3, WaitingStep
<1> QED
  BY <1>2, <1>3, <1>4

-----------------------------------------------------------------------------
(* The engine's own steps *)

\* The parameters of a run are of the grid.
LEMMA ParamsAre ==
  ASSUME BTInv, Walking
  PROVE  Params \in Range(Grid)
<1>1. CASE btSide = "in"
  <2>1. Grid[btTurn] \in Range(Grid)
    <3>1. btTurn \in DOMAIN Grid
      BY BTAssumption DEF BTInv, BTTypeOK
    <3> QED
      BY <3>1 DEF Range
  <2> QED
    BY <1>1, <2>1 DEF Params
<1>2. CASE btSide = "out"
  <2>1. btScan \in Seq(BtResults) /\ btScan # <<>>
    BY <1>2 DEF BTInv, BTTypeOK
  <2>2. PICK i \in DOMAIN btScan : Best(btScan) = btScan[i]
    BY <2>1, BestIsOne
  <2>3. btScan[i] \in BtResults
    BY <2>1
  <2>4. Best(btScan).params \in Range(Grid)
    BY <2>2, <2>3 DEF BtResults
  <2> QED
    BY <1>2, <2>4 DEF Params
<1> QED
  BY <1>1, <1>2 DEF BTInv, BTTypeOK, Walking

\* The engine asks for the range of its run.
LEMMA AskingStep ==
  ASSUME IInv, BTInv, AskForBars
  PROVE  IInv' /\ BTInv'
<1>1. Walking /\ btCode <= Len(CodesTested) /\ UNCHANGED dmAsked /\ UNCHANGED btVars
  BY DEF AskForBars
<1>2. PICK code, from, to : code = CodesTested[btCode] /\ from = From /\ to = To
  OBVIOUS
<1>3. from \in Days /\ to \in Days
  BY <1>1, <1>2, RangeIs
<1>4. code \in StockCodes
  BY <1>1, <1>2, BTAssumption DEF BTInv, BTTypeOK
<1>5. DMRequest(Walker, "daily", code, from, to)
  BY <1>2 DEF AskForBars
<1>6. "daily" \in Kinds /\ Walker \in DMCallers
  BY BTAssumption DEF Kinds, Cached
<1>7. dmAsked' \in Nat /\ DMTypeOK
  BY <1>1 DEF IInv, DMTypeOK
<1>8. IInv'
  BY <1>3, <1>4, <1>5, <1>6, <1>7, RequestStep
<1>9. dmCall'[Walker].kind = "daily" /\ dmCall'[Walker].from = from /\ dmCall'[Walker].to = to
  BY <1>5, <1>6, <1>7 DEF DMRequest, DMTypeOK
<1>10. /\ btSide' = btSide /\ btWindow' = btWindow /\ btTurn' = btTurn /\ btCode' = btCode
       /\ btTrades' = btTrades /\ btUsed' = btUsed /\ btScan' = btScan /\ btResults' = btResults
  BY <1>1 DEF btVars
<1>11. From' = From /\ To' = To /\ Walking' = Walking
  BY <1>10 DEF From, To, Walking
<1>12. BTTypeOK'
  BY <1>10 DEF BTInv, BTTypeOK
<1>13. /\ Walking' /\ btCode' <= Len(CodesTested)
       /\ dmCall'[Walker].kind = "daily"
       /\ dmCall'[Walker].from = From' /\ dmCall'[Walker].to = To'
  BY <1>1, <1>2, <1>9, <1>10, <1>11
<1>14. Walking' => btWindow' < Windows /\ btUsed' \subseteq From' .. To'
  BY <1>10, <1>11 DEF BTInv
<1>15. (btSide' = "idle" => btScan' = <<>> /\ btUsed' = {}) /\ (btSide' = "out" => btScan' # <<>>)
  BY <1>10 DEF BTInv
<1>16. \A i \in DOMAIN btScan' : InSample(btScan'[i], btWindow')
  BY <1>10 DEF BTInv
<1>17. \A i \in DOMAIN btResults' :
         InSample(btResults'[i].in, i - 1) /\ OutSample(btResults'[i].out, i - 1)
  BY <1>10 DEF BTInv
<1> QED
  BY <1>8, <1>12, <1>13, <1>14, <1>15, <1>16, <1>17 DEF BTInv

\* Once an answer is taken, the engine waits for nothing.
LEMMA TakingStep ==
  ASSUME IInv, Answered, Taken, UNCHANGED <<dmDb, dmCache, dmAsked>>
  PROVE  IInv' /\ ~Asking'
<1>1. Walker \in DMCallers /\ DMTypeOK
  BY BTAssumption DEF IInv
<1> DEFINE k == dmCall[Walker]
<1>2. k \in DMCalls /\ k.pc = "idle" /\ CallOK(dmDb, k)
  BY <1>1, CallIs DEF Answered
<1> DEFINE r == Made(k, k.pc, k.at, NoRows, "none")
<1>3. [k EXCEPT !.res = "none", !.rows = NoRows] = r
  <2>1. PICK rows : rows = NoRows
    OBVIOUS
  <2>2. [k EXCEPT !.res = "none"] = Made(k, k.pc, k.at, k.rows, "none")
    BY <1>2, SMT DEF DMCalls, Made
  <2>3. [Made(k, k.pc, k.at, k.rows, "none") EXCEPT !.rows = rows] = Made(k, k.pc, k.at, rows, "none")
    BY SMT DEF Made
  <2> QED
    BY <2>1, <2>2, <2>3
<1>4. dmCall' = [dmCall EXCEPT ![Walker] = r]
  BY <1>3 DEF Taken
<1>5. r \in DMCalls
  <2>1. k.pc \in Pcs /\ k.at \in Int /\ "none" \in Results
    BY <1>2 DEF DMCalls, Results
  <2> QED
    BY <1>2, <2>1, NoRowsAreRows, MadeIsCall
<1>6. r.pc = "idle" /\ r.res = "none"
  BY <1>2 DEF Made
<1>7. CallOK(dmDb, r)
  BY <1>6 DEF CallOK
<1>8. dmAsked' \in Nat
  BY <1>1 DEF DMTypeOK
<1>9. IInv'
  BY <1>1, <1>4, <1>5, <1>7, <1>8, OnlyTheCall
<1>10. dmCall'[Walker] = r
  BY <1>1, <1>4 DEF DMTypeOK
<1> QED
  BY <1>6, <1>9, <1>10 DEF Asking

\* The days of an answer are of the range of the run.
LEMMA AnswerIsOfRange ==
  ASSUME IInv, BTInv, Answered, dmCall[Walker].res = "rows"
  PROVE  /\ DOMAIN dmCall[Walker].rows \subseteq From .. To
         /\ DOMAIN dmCall[Walker].rows \in SUBSET Days
         /\ IsFiniteSet(DOMAIN dmCall[Walker].rows)
<1>1. Walker \in DMCallers /\ Asking
  BY BTAssumption DEF Answered, Asking
<1>2. /\ dmCall[Walker].kind = "daily"
      /\ dmCall[Walker].from = From /\ dmCall[Walker].to = To
  BY <1>1 DEF BTInv
<1>3. CallOK(dmDb, dmCall[Walker]) /\ dmCall[Walker].rows \in Rows
  BY <1>1, CallIs
<1>4. DOMAIN dmCall[Walker].rows \subseteq From .. To
  BY <1>2, <1>3 DEF CallOK, Kept
<1>5. DOMAIN dmCall[Walker].rows \subseteq Days
  BY <1>3, RowsAre
<1>6. IsFiniteSet(Days)
  <2>1. 0 \in Int /\ LastDay \in Int
    BY DMAssumption
  <2> QED
    BY <2>1, FS_Interval DEF Days
<1>7. IsFiniteSet(DOMAIN dmCall[Walker].rows)
  BY <1>5, <1>6, FS_Subset
<1> QED
  BY <1>4, <1>5, <1>7

\* A code is tried on the days of the answer.
LEMMA TryingStep ==
  ASSUME IInv, BTInv, TryBars
  PROVE  IInv' /\ BTInv'
<1>1. /\ Walking /\ Answered /\ dmCall[Walker].res = "rows" /\ Taken
      /\ UNCHANGED <<btSide, btWindow, btTurn, btScan, btResults, dmDb, dmCache, dmAsked>>
      /\ btCode' = btCode + 1
  BY DEF TryBars
<1>2. IInv' /\ ~Asking'
  BY <1>1, TakingStep
<1>3. PICK days, params : days = DOMAIN dmCall[Walker].rows /\ params = Params
  OBVIOUS
<1>4. days \subseteq From .. To /\ days \in SUBSET Days /\ IsFiniteSet(days)
  BY <1>1, <1>3, AnswerIsOfRange
<1>5. params \in Range(Grid)
  BY <1>1, <1>3, ParamsAre
<1>6. Cardinality(days) \in Nat /\ MinBars \in Nat
  BY <1>4, BTAssumption, FS_CardinalityType
<1>7. \/ btTrades' = btTrades /\ btUsed' = btUsed
      \/ /\ ~(Cardinality(days) < MinBars)
         /\ btTrades' = btTrades \o TradesOf(Signals(params, days))
         /\ btUsed' = btUsed \union days
  BY <1>3 DEF TryBars
<1>8. btTrades \in Seq(Trades) /\ btUsed \subseteq Days /\ btUsed \subseteq From .. To
      /\ btCode \in Nat \ {0}
  BY <1>1 DEF BTInv, BTTypeOK
<1>9. btTrades' \in Seq(Trades) /\ btUsed' \subseteq Days /\ btUsed' \subseteq From .. To
  <2>1. CASE btTrades' = btTrades /\ btUsed' = btUsed
    BY <1>8, <2>1
  <2>2. CASE /\ ~(Cardinality(days) < MinBars)
             /\ btTrades' = btTrades \o TradesOf(Signals(params, days))
             /\ btUsed' = btUsed \union days
    <3>1. Cardinality(days) >= MinBars
      BY <1>6, <2>2
    <3>2. Signals(params, days) \in Seq(Signs)
      BY <1>4, <1>5, <3>1, BTAssumption DEF Signs, Days
    <3>3. TradesOf(Signals(params, days)) \in Seq(Trades)
      BY <3>2, TradesAre
    <3>4. btTrades' \in Seq(Trades)
      BY <1>8, <2>2, <3>3
    <3> QED
      BY <1>4, <1>8, <2>2, <3>4
  <2> QED
    BY <1>7, <2>1, <2>2
<1>10. btSide' = btSide /\ btWindow' = btWindow /\ btTurn' = btTurn
       /\ btScan' = btScan /\ btResults' = btResults
  BY <1>1
<1>11. From' = From /\ To' = To /\ Walking'
  BY <1>1, <1>10 DEF From, To, Walking
<1>12. BTTypeOK'
  <2>1. btCode' \in Nat \ {0}
    BY <1>1, <1>8
  <2> QED
    BY <1>9, <1>10, <2>1 DEF BTInv, BTTypeOK
<1>13. btWindow' < Windows /\ btUsed' \subseteq From' .. To'
  BY <1>1, <1>9, <1>10, <1>11 DEF BTInv
<1>14. btSide' # "idle" /\ (btSide' = "out" => btScan' # <<>>)
  BY <1>1, <1>10 DEF BTInv, Walking
<1>15. \A i \in DOMAIN btScan' : InSample(btScan'[i], btWindow')
  BY <1>10 DEF BTInv
<1>16. \A i \in DOMAIN btResults' :
         InSample(btResults'[i].in, i - 1) /\ OutSample(btResults'[i].out, i - 1)
  BY <1>10 DEF BTInv
<1> QED
  BY <1>2, <1>12, <1>13, <1>14, <1>15, <1>16 DEF BTInv

\* The results of runs are results, with the days the run has used.
LEMMA ResultIs ==
  ASSUME NEW params \in Range(Grid), NEW status \in {"COMPLETED", "FAILED"},
         NEW trades \in Seq(Trades), NEW used \in SUBSET Days
  PROVE  ResultOf(params, status, trades, used) \in BtResults
         /\ ResultOf(params, status, trades, used).used = used
<1>1. PICK n \in Nat : n = Len(trades)
  OBVIOUS
<1>2. PICK ratio \in Int : ratio = SharpeSquare(trades)
  BY RatiosAreInts
<1>3. CASE status = "COMPLETED"
  <2>1. ResultOf(params, status, trades, used) =
          [params |-> params, status |-> status, used |-> used, trades |-> n, sharpe |-> ratio]
    BY <1>1, <1>2, <1>3 DEF ResultOf
  <2> QED
    BY <2>1 DEF BtResults
<1>4. CASE status # "COMPLETED"
  <2>1. ResultOf(params, status, trades, used) =
          [params |-> params, status |-> status, used |-> used, trades |-> 0, sharpe |-> 0]
    BY <1>4 DEF ResultOf
  <2> QED
    BY <2>1 DEF BtResults
<1> QED
  BY <1>3, <1>4

\* What appending does to results that are all fine.
LEMMA Appending ==
  ASSUME NEW R, NEW seq \in Seq(R), NEW e \in R
  PROVE  /\ Append(seq, e) \in Seq(R) /\ Append(seq, e) # <<>>
         /\ Len(Append(seq, e)) = Len(seq) + 1
         /\ \A i \in DOMAIN Append(seq, e) :
              \/ i \in DOMAIN seq /\ Append(seq, e)[i] = seq[i]
              \/ i = Len(seq) + 1 /\ Append(seq, e)[i] = e
OBVIOUS

\* The end of a run in sample: its result joins those of the scan.
LEMMA InSampleEnds ==
  ASSUME BTInv, btSide = "in", NEW status \in {"COMPLETED", "FAILED"}, RunEnds(status), ~Asking'
  PROVE  BTInv'
<1>1. Walking
  BY DEF Walking
<1>2. PICK result : result = ResultOf(Params, status, btTrades, btUsed)
  OBVIOUS
<1>3. btTrades \in Seq(Trades) /\ btUsed \in SUBSET Days /\ btScan \in Seq(BtResults)
      /\ btTurn \in 1 .. Len(Grid) /\ Len(Grid) \in Nat \ {0}
  BY BTAssumption DEF BTInv, BTTypeOK
<1>4. Params \in Range(Grid)
  BY <1>1, ParamsAre
<1>5. result \in BtResults /\ result.used = btUsed
  BY <1>2, <1>3, <1>4, ResultIs
<1>6. /\ btCode' = 1 /\ btTrades' = <<>> /\ btUsed' = {}
      /\ btScan' = Append(btScan, result)
      /\ btSide' = IF btTurn = Len(Grid) THEN "out" ELSE "in"
      /\ btTurn' = IF btTurn = Len(Grid) THEN 1 ELSE btTurn + 1
      /\ btWindow' = btWindow /\ btResults' = btResults
  BY <1>2 DEF RunEnds, NextRun
<1>7. /\ btScan' \in Seq(BtResults) /\ btScan' # <<>>
      /\ \A i \in DOMAIN btScan' :
           \/ i \in DOMAIN btScan /\ btScan'[i] = btScan[i]
           \/ btScan'[i] = result
  BY <1>3, <1>5, <1>6, Appending
<1>8. From = WStart(btWindow) /\ To = SplitDay(btWindow)
  BY <1>1, RangeIs
<1>9. InSample(result, btWindow)
  BY <1>1, <1>5, <1>8 DEF BTInv, InSample
<1>10. \A i \in DOMAIN btScan' : InSample(btScan'[i], btWindow')
  BY <1>6, <1>7, <1>9 DEF BTInv
<1>11. btTurn' \in 1 .. Len(Grid) /\ btSide' \in {"in", "out"} /\ btTrades' \in Seq(Trades)
  <2>1. btTurn' \in 1 .. Len(Grid)
    BY <1>3, <1>6
  <2> QED
    BY <1>6, <2>1
<1>12. BTTypeOK'
  BY <1>6, <1>7, <1>11 DEF BTInv, BTTypeOK
<1>13. btWindow' < Windows /\ btUsed' \subseteq From' .. To'
  BY <1>1, <1>6 DEF BTInv
<1>14. \A i \in DOMAIN btResults' :
         InSample(btResults'[i].in, i - 1) /\ OutSample(btResults'[i].out, i - 1)
  BY <1>6 DEF BTInv
<1>15. (btSide' = "idle" => btScan' = <<>> /\ btUsed' = {}) /\ (btSide' = "out" => btScan' # <<>>)
  BY <1>7, <1>11
<1> QED
  BY <1>10, <1>12, <1>13, <1>14, <1>15 DEF BTInv

\* The end of one out of sample: the window's results are kept, and the next one comes.
LEMMA OutOfSampleEnds ==
  ASSUME BTInv, btSide = "out", NEW status \in {"COMPLETED", "FAILED"}, RunEnds(status), ~Asking'
  PROVE  BTInv'
<1>1. Walking
  BY DEF Walking
<1>2. PICK result, best : result = ResultOf(Params, status, btTrades, btUsed) /\ best = Best(btScan)
  OBVIOUS
<1>3. btTrades \in Seq(Trades) /\ btUsed \in SUBSET Days /\ btScan \in Seq(BtResults)
      /\ btScan # <<>> /\ btResults \in Seq([in : BtResults, out : BtResults])
      /\ btWindow = Len(btResults) /\ btWindow \in Nat
  BY DEF BTInv, BTTypeOK
<1>4. Params \in Range(Grid)
  BY <1>1, ParamsAre
<1>5. result \in BtResults /\ result.used = btUsed
  BY <1>2, <1>3, <1>4, ResultIs
<1>6. PICK i \in DOMAIN btScan : best = btScan[i]
  BY <1>2, <1>3, BestIsOne
<1>7. best \in BtResults /\ InSample(best, btWindow)
  BY <1>3, <1>6 DEF BTInv
<1>8. PICK pair : pair = [in |-> best, out |-> result]
  OBVIOUS
<1>9. pair \in [in : BtResults, out : BtResults] /\ pair.in = best /\ pair.out = result
  BY <1>5, <1>7, <1>8
<1>10. /\ btCode' = 1 /\ btTrades' = <<>> /\ btUsed' = {} /\ btScan' = <<>>
       /\ btResults' = Append(btResults, pair)
       /\ btWindow' = btWindow + 1 /\ btTurn' = btTurn
       /\ btSide' = IF btWindow' < Windows THEN "in" ELSE "idle"
  BY <1>2, <1>8 DEF RunEnds, NextRun
<1>11. From = SplitDay(btWindow) /\ To = WEnd(btWindow)
  BY <1>1, RangeIs
<1>12. OutSample(result, btWindow)
  BY <1>1, <1>5, <1>11 DEF BTInv, OutSample
<1>13. /\ btResults' \in Seq([in : BtResults, out : BtResults])
       /\ Len(btResults') = Len(btResults) + 1
       /\ \A j \in DOMAIN btResults' :
            \/ j \in DOMAIN btResults /\ btResults'[j] = btResults[j]
            \/ j = Len(btResults) + 1 /\ btResults'[j] = pair
  BY <1>3, <1>9, <1>10, Appending
<1>14. ASSUME NEW j \in DOMAIN btResults'
       PROVE  InSample(btResults'[j].in, j - 1) /\ OutSample(btResults'[j].out, j - 1)
  <2>1. CASE j \in DOMAIN btResults /\ btResults'[j] = btResults[j]
    BY <2>1 DEF BTInv
  <2>2. CASE j = Len(btResults) + 1 /\ btResults'[j] = pair
    <3>1. j - 1 = btWindow
      BY <1>3, <2>2
    <3> QED
      BY <1>7, <1>9, <1>12, <2>2, <3>1
  <2> QED
    BY <1>13, <2>1, <2>2
<1>15. DOMAIN btScan' = {} /\ btScan' \in Seq(BtResults) /\ btTrades' \in Seq(Trades)
  BY <1>10
<1>16. btSide' \in {"idle", "in"} /\ (btSide' = "in" => btWindow' < Windows)
  BY <1>10
<1>17. BTTypeOK'
  <2>1. btWindow' \in Nat /\ btWindow' = Len(btResults') /\ btWindow' <= Windows
    <3>1. btWindow < Windows /\ Windows \in Nat
      BY <1>1, BTAssumption DEF BTInv
    <3> QED
      BY <1>3, <1>10, <1>13, <3>1
  <2>2. btTurn' \in 1 .. Len(Grid) /\ btCode' \in Nat \ {0} /\ btUsed' \subseteq Days
    BY <1>10 DEF BTInv, BTTypeOK
  <2> QED
    BY <1>13, <1>15, <1>16, <2>1, <2>2 DEF BTTypeOK
<1>18. Walking' => btWindow' < Windows /\ btUsed' \subseteq From' .. To'
  BY <1>10, <1>16 DEF Walking
<1> QED
  BY <1>10, <1>14, <1>15, <1>16, <1>17, <1>18 DEF BTInv

\* A run that is over, of whatever side.
LEMMA RunsEnd ==
  ASSUME BTInv, Walking, NEW status \in {"COMPLETED", "FAILED"}, RunEnds(status), ~Asking'
  PROVE  BTInv'
<1>1. btSide = "in" \/ btSide = "out"
  BY DEF BTInv, BTTypeOK, Walking
<1> QED
  BY <1>1, InSampleEnds, OutOfSampleEnds

\* The analysis begins with the first window.
LEMMA WalkingStep ==
  ASSUME IInv, BTInv, WalkForward
  PROVE  IInv' /\ BTInv'
<1>1. /\ btSide = "idle" /\ btResults = <<>> /\ btSide' = "in"
      /\ btWindow' = btWindow /\ btTurn' = btTurn /\ btCode' = btCode /\ btTrades' = btTrades
      /\ btUsed' = btUsed /\ btScan' = btScan /\ btResults' = btResults
      /\ UNCHANGED dmVars
  BY DEF WalkForward
<1>2. IInv'
  BY <1>1, NextIInv
<1>3. ~Asking'
  <2>1. ~Asking /\ dmCall' = dmCall
    BY <1>1 DEF BTInv, Walking, dmVars
  <2> QED
    BY <2>1 DEF Asking
<1>4. btWindow = 0 /\ btScan = <<>> /\ btUsed = {} /\ Windows \in Nat \ {0}
  BY <1>1, BTAssumption DEF BTInv, BTTypeOK
<1>5. BTTypeOK'
  BY <1>1 DEF BTInv, BTTypeOK
<1>6. btWindow' < Windows /\ btUsed' \subseteq From' .. To'
  BY <1>1, <1>4
<1>7. DOMAIN btScan' = {} /\ DOMAIN btResults' = {}
  BY <1>1, <1>4
<1> QED
  BY <1>1, <1>2, <1>3, <1>5, <1>6, <1>7 DEF BTInv

\* Every step keeps both invariants.
LEMMA BTSteps == IInv /\ BTInv /\ [BTNext]_<<dmVars, btVars>> => IInv' /\ BTInv'
<1> SUFFICES ASSUME IInv, BTInv, [BTNext]_<<dmVars, btVars>> PROVE IInv' /\ BTInv'
  OBVIOUS
<1>1. CASE RunCompletes
  <2>1. Walking /\ btCode > Len(CodesTested) /\ RunEnds("COMPLETED") /\ UNCHANGED dmVars
    BY <1>1 DEF RunCompletes
  <2>2. Len(CodesTested) \in Nat /\ btCode \in Nat
    BY BTAssumption DEF BTInv, BTTypeOK
  <2>3. ~Asking /\ dmCall' = dmCall
    BY <2>1, <2>2 DEF BTInv, dmVars
  <2>4. ~Asking'
    BY <2>3 DEF Asking
  <2>5. IInv'
    BY <2>1, NextIInv
  <2> QED
    BY <2>1, <2>4, <2>5, RunsEnd
<1>2. CASE RunFails
  <2>1. /\ Walking /\ Answered /\ Taken /\ RunEnds("FAILED")
        /\ UNCHANGED <<dmDb, dmCache, dmAsked>>
    BY <1>2 DEF RunFails
  <2>2. IInv' /\ ~Asking'
    BY <2>1, TakingStep
  <2> QED
    BY <2>1, <2>2, RunsEnd
<1>3. CASE /\ \/ \E c \in DMCallers : DMStep(c)
              \/ \E c \in DMCallers \ {Walker} : DMAsk(c)
              \/ DMExpiry
           /\ UNCHANGED btVars
  BY <1>3, OthersStep
<1>4. CASE UNCHANGED <<dmVars, btVars>>
  <2>1. dmCall' = dmCall /\ UNCHANGED dmVars /\ UNCHANGED btVars
    BY <1>4 DEF dmVars
  <2>2. IInv'
    BY <2>1, NextIInv
  <2>3. (Asking' => Asking) /\ Same(dmCall'[Walker], dmCall[Walker])
    BY <2>1 DEF Asking, Same
  <2> QED
    BY <2>1, <2>2, <2>3, WaitingStep
<1> QED
  BY <1>1, <1>2, <1>3, <1>4, WalkingStep, AskingStep, TryingStep DEF BTNext, BTStep

-----------------------------------------------------------------------------
(* The theorem about the analysis *)

\* Days up to one and days from it on.
LEMMA BetweenNot ==
  ASSUME NEW a \in Int, NEW b \in Int, NEW c \in Int, NEW D \in SUBSET (a .. b),
         NEW E \in SUBSET (b .. c)
  PROVE  NotAfter(D, E)
BY DEF NotAfter

\* Days of a window and days of a later one.
LEMMA InvNoLookAhead == BTInv => NoLookAhead
<1> SUFFICES ASSUME BTInv PROVE NoLookAhead
  OBVIOUS
<1>1. PICK n \in Nat : n = Len(btResults) /\ DOMAIN btResults = 1 .. n /\ n <= Windows
  BY DEF BTInv, BTTypeOK
<1>2. ASSUME NEW i \in 1 .. n
      PROVE  /\ i - 1 \in Nat /\ i - 1 < Windows
             /\ btResults[i].in.used \subseteq WStart(i - 1) .. SplitDay(i - 1)
             /\ btResults[i].out.used \subseteq SplitDay(i - 1) .. WEnd(i - 1)
  <2>1. i - 1 \in Nat /\ i - 1 < Windows
    BY <1>1, BTAssumption
  <2> QED
    BY <1>1, <2>1 DEF BTInv, InSample, OutSample
<1>3. ASSUME NEW w \in Nat, w < Windows
      PROVE  /\ WStart(w) \in Int /\ SplitDay(w) \in Int /\ WEnd(w) \in Int
             /\ WStart(w) <= SplitDay(w) /\ SplitDay(w) <= WEnd(w)
  BY <1>3, WindowsAre, DMAssumption DEF Days
<1>4. ASSUME NEW i \in 1 .. n
      PROVE  NotAfter(btResults[i].in.used, btResults[i].out.used)
  <2>1. PICK w \in Nat : w = i - 1 /\ w < Windows
    BY <1>2
  <2>2. /\ btResults[i].in.used \subseteq WStart(w) .. SplitDay(w)
        /\ btResults[i].out.used \subseteq SplitDay(w) .. WEnd(w)
    BY <1>2, <2>1
  <2> QED
    BY <1>3, <2>1, <2>2, BetweenNot
<1>5. ASSUME NEW i \in 1 .. n, NEW j \in i + 1 .. n
      PROVE  NotAfter(btResults[i].in.used \union btResults[i].out.used,
                      btResults[j].in.used \union btResults[j].out.used)
  <2>1. j \in 1 .. n
    OBVIOUS
  <2>2. PICK v \in Nat : v = i - 1 /\ v < Windows
    BY <1>2
  <2>3. PICK w \in Nat : w = j - 1 /\ w < Windows
    BY <1>2, <2>1
  <2>4. v < w
    BY <2>2, <2>3
  <2>5. WEnd(v) <= WStart(w)
    BY <2>3, <2>4, WindowsFollow
  <2>6. /\ btResults[i].in.used \subseteq WStart(v) .. SplitDay(v)
        /\ btResults[i].out.used \subseteq SplitDay(v) .. WEnd(v)
        /\ btResults[j].in.used \subseteq WStart(w) .. SplitDay(w)
        /\ btResults[j].out.used \subseteq SplitDay(w) .. WEnd(w)
    BY <1>2, <2>1, <2>2, <2>3
  <2>7. PICK a, b, c, d, e, f : /\ a = WStart(v) /\ b = SplitDay(v) /\ c = WEnd(v)
                                /\ d = WStart(w) /\ e = SplitDay(w) /\ f = WEnd(w)
    OBVIOUS
  <2>8. /\ a \in Int /\ b \in Int /\ c \in Int /\ d \in Int /\ e \in Int /\ f \in Int
        /\ a <= b /\ b <= c /\ c <= d /\ d <= e /\ e <= f
    BY <1>3, <2>2, <2>3, <2>5, <2>7
  <2>9. btResults[i].in.used \union btResults[i].out.used \subseteq a .. c
    BY <2>6, <2>7, <2>8
  <2>10. btResults[j].in.used \union btResults[j].out.used \subseteq d .. f
    BY <2>6, <2>7, <2>8
  <2>11. NotAfter(a .. c, d .. f)
    BY <2>8 DEF NotAfter
  <2> QED
    BY <2>9, <2>10, <2>11 DEF NotAfter
<1> QED
  BY <1>1, <1>4, <1>5 DEF NoLookAhead

\* No day of an in-sample run is later than one of the out-of-sample run of its window, or
\* than one of a later window, whatever the other callers ask for and the sources do.
THEOREM NoneLooksAhead == BTSpec => []NoLookAhead
<1>1. DMInit /\ BTInit => IInv /\ BTInv
  BY InitIInv, BTBegins
<1>2. IInv /\ BTInv /\ [BTNext]_<<dmVars, btVars>> => IInv' /\ BTInv'
  BY BTSteps
<1> QED
  BY <1>1, <1>2, InvNoLookAhead, PTL DEF BTSpec
=============================================================================
