---------------------------- MODULE QuoteAdapter ----------------------------
(***************************************************************************)
(* The quote adapter (atlas/infrastructure/quote_adapter.py): quotes of    *)
(* the Taiwanese market from a chain of sources, TWSE, yfinance and the    *)
(* last good quotes, which are kept in Redis or, if there is no cache      *)
(* manager (atlas/infrastructure/cache.py), in memory.                     *)
(*                                                                         *)
(* Calls overlap: an action is a call's segment between two awaits, of a   *)
(* source or of Redis.  Of a price only matters whether it is 0.           *)
(***************************************************************************)
EXTENDS Integers, FiniteSets

CONSTANTS
  Codes,    \* stock codes
  Batches,  \* the sets of codes get_quotes_batch is called for
  Calls     \* coroutines that call get_quote and get_quotes_batch

ASSUME BatchesAssumption == Batches \subseteq SUBSET Codes

VARIABLES
  hasCache,  \* whether the adapter was given a cache manager
  lastGood,  \* the quote in Redis, or else in memory, for each code
  up,        \* whether the chain has its sources
  client,    \* whether the HTTP client of TWSE is open
  closing,   \* whether disconnect() awaits its end
  health,    \* _source_health, by place in the chain
  call,      \* where each call stands
  live       \* history: codes for which a source of the market has had a price

vars == <<hasCache, lastGood, up, client, closing, health, call, live>>
lifecycle == <<hasCache, up, client, closing>>

\* The places in the chain; what get_quote tries after it; the end.
TWSE      == 1
YFinance  == 2
LastGood  == 3
LastClose == 4
Over      == 5
Chain     == TWSE .. LastGood

Prices == {"zero", "good"}
None   == "none"

\* wanted: the codes asked for; left: those without a quote yet; reading: those
\* the last good quotes are still to be read for; writes: the quotes to be
\* written back; got: the quotes found, and where; refused: history, who had no
\* quote for which code; cut: whether the chain the call walks was cleared.
NoQuote == [from |-> Over, price |-> None]
Idle ==
  [kind |-> "idle", src |-> Over, wanted |-> {}, left |-> {}, reading |-> {},
   writes |-> {}, got |-> [c \in Codes |-> NoQuote], refused |-> {}, cut |-> FALSE]

-----------------------------------------------------------------------------
Init ==
  /\ hasCache \in BOOLEAN
  /\ lastGood = [c \in Codes |-> None]
  /\ up = FALSE
  /\ client = FALSE
  /\ closing = FALSE
  /\ health = [s \in Chain |-> "absent"]
  /\ call = [k \in Calls |-> Idle]
  /\ live = {}

-----------------------------------------------------------------------------
(* The owner connects and disconnects *)

Connect ==
  /\ ~closing
  /\ up' = TRUE
  /\ client' = TRUE
  /\ health' = [s \in Chain |-> "healthy"]
  /\ UNCHANGED <<hasCache, lastGood, closing, call, live>>

\* disconnect(), up to the end of the client.
Disconnect ==
  /\ ~closing
  /\ IF client THEN client' = FALSE /\ closing' = TRUE /\ UNCHANGED health
               ELSE health' = [s \in Chain |-> "absent"] /\ UNCHANGED <<client, closing>>
  /\ UNCHANGED <<hasCache, lastGood, up, call, live>>

\* The chain is cleared, also under the calls that walk it.
Disconnected ==
  /\ closing
  /\ closing' = FALSE
  /\ up' = FALSE
  /\ health' = [s \in Chain |-> "absent"]
  /\ call' = [k \in Calls |-> IF call[k].kind = "idle" THEN Idle
                                                       ELSE [call[k] EXCEPT !.cut = TRUE]]
  /\ UNCHANGED <<hasCache, lastGood, client, live>>

-----------------------------------------------------------------------------
(* The calls *)

\* Without its sources, a call raises at once.
Begin(k, kind, codes) ==
  /\ up
  /\ call[k].kind = "idle"
  /\ call' = [call EXCEPT ![k] = [Idle EXCEPT !.kind = kind, !.src = TWSE,
                                              !.wanted = codes, !.left = codes]]
  /\ UNCHANGED <<lifecycle, lastGood, health, live>>

GetQuote(k, c)        == Begin(k, "one", {c})
GetQuotesBatch(k, cs) == Begin(k, "batch", cs)

\* A source that had quotes is the last one.
NextIfNone(r) ==
  IF r.left # r.wanted \/ r.cut \/ r.src = LastGood
    THEN IF r.kind = "one" /\ r.left # {} THEN LastClose ELSE Over
    ELSE r.src + 1
\* The source after this one; a cleared chain has none.
NextSource(r) ==
  IF r.left = {} \/ r.cut \/ r.src = LastGood
    THEN IF r.kind = "one" /\ r.left # {} THEN LastClose ELSE Over
    ELSE r.src + 1

\* A call is done with its source.
MoveOn(r) ==
  LET next == NextSource(r) IN
    [r EXCEPT !.src = next, !.reading = IF next = LastGood THEN r.left ELSE {}]

Refuse(r, codes) == [r EXCEPT !.refused = @ \union (codes \X {r.src})]

\* The quotes q, a function from codes, taken for the results.
Take(r, q) ==
  [r EXCEPT !.left = @ \ DOMAIN q,
            !.got = [c \in Codes |-> IF c \in DOMAIN q THEN [from |-> r.src, price |-> q[c]]
                                                       ELSE r.got[c]]]

\* Quotes of some of the codes.
Partial(codes, prices) == UNION {[cs -> prices] : cs \in SUBSET codes}

\* To a batch TWSE may answer with prices of 0 and, where it can parse nothing,
\* with nothing at all; to get_quote either is a failure.
TWSEAnswers(r) ==
  IF r.kind = "batch" THEN Partial(r.left, Prices) ELSE [r.left -> {"good"}]

\* YFinance refuses a price of 0 itself, code by code, and raises if none is left.
YFinanceAnswers(r) == {q \in Partial(r.left, {"good"}) : DOMAIN q # {}}

Answers(r) == IF r.src = TWSE THEN TWSEAnswers(r) ELSE YFinanceAnswers(r)

Asked(k) == call[k].src \in {TWSE, YFinance} /\ call[k].writes = {}

\* A source of the market answers.  Memory is written at once, Redis by and by.
LiveAnswers(k) ==
  /\ Asked(k)
  /\ call[k].src = TWSE => client
  /\ \E q \in Answers(call[k]) :
       LET taken == Refuse(Take(call[k], q), call[k].left \ DOMAIN q) IN
         /\ live' = live \union {c \in DOMAIN q : q[c] = "good"}
         /\ IF hasCache /\ DOMAIN q # {}
              THEN /\ call' = [call EXCEPT ![k] = [taken EXCEPT !.writes = DOMAIN q]]
                   /\ UNCHANGED lastGood
              ELSE /\ call' = [call EXCEPT ![k] = MoveOn(taken)]
                   /\ lastGood' = [c \in Codes |-> IF up /\ c \in DOMAIN q THEN q[c]
                                                                           ELSE lastGood[c]]
  /\ health' = [health EXCEPT ![call[k].src] = "healthy"]
  /\ UNCHANGED lifecycle

\* It raises, or get_quote refuses its price.
LiveFails(k) ==
  /\ Asked(k)
  /\ call' = [call EXCEPT ![k] = MoveOn(Refuse(call[k], call[k].left))]
  /\ health' = [health EXCEPT ![call[k].src] = "unhealthy"]
  /\ UNCHANGED <<lifecycle, lastGood, live>>

\* Every code in the same place.
StoredForAll(c, price) == [d \in Codes |-> price]
Stored(c, price) == [lastGood EXCEPT ![c] = price]

\* Redis takes a quote, or the cache manager swallows its error; without the
\* last good source, nothing is written.
WriteBack(k, c) ==
  /\ c \in call[k].writes
  /\ lastGood' \in {lastGood, Stored(c, call[k].got[c].price)}
  /\ LET rest == [call[k] EXCEPT !.writes = @ \ {c}] IN
       call' = [call EXCEPT ![k] = IF rest.writes = {} THEN MoveOn(rest) ELSE rest]
  /\ UNCHANGED <<lifecycle, health, live>>

\* Redis is read for one code after the other, and may fail; memory for all
\* codes at once.
ReadLastGood(k) ==
  \E codes \in SUBSET call[k].reading, lost \in SUBSET Codes :
    LET r     == call[k]
        found == {c \in codes \ lost : lastGood[c] \in (IF r.kind = "one" THEN {"good"} ELSE Prices)}
        rest  == [Refuse(Take(r, [c \in found |-> lastGood[c]]), codes \ found)
                    EXCEPT !.reading = @ \ codes]
        any   == \E c \in Codes : rest.got[c].from = LastGood
    IN  /\ codes # {}
        /\ lost \subseteq codes
        /\ IF hasCache THEN Cardinality(codes) = 1 ELSE codes = r.reading /\ lost = {}
        /\ call' = [call EXCEPT ![k] = IF rest.reading = {} THEN MoveOn(rest) ELSE rest]
        /\ health' = IF rest.reading = {}
                       THEN [health EXCEPT ![LastGood] = IF any THEN "healthy" ELSE "unhealthy"]
                       ELSE health
        /\ UNCHANGED <<lifecycle, lastGood, live>>

\* _fallback_last_close, which looks at no price and writes nothing back.
LastCloseAnswers(k) ==
  /\ call[k].src = LastClose
  /\ \/ \E price \in Prices :
          call' = [call EXCEPT ![k] = [Take(@, [c \in @.left |-> price]) EXCEPT !.src = Over]]
     \/ call' = [call EXCEPT ![k] = [Refuse(@, @.left) EXCEPT !.src = Over]]
  /\ UNCHANGED <<lifecycle, lastGood, health, live>>

\* The caller has the quotes, or the exception if there are none.
Done(k) == call[k].kind # "idle" /\ call[k].src = Over
Return(k) ==
  /\ Done(k)
  /\ call' = [call EXCEPT ![k] = Idle]
  /\ UNCHANGED <<lifecycle, lastGood, health, live>>

\* A quote in Redis expires an hour after it was written.
Expire(c) ==
  /\ hasCache
  /\ lastGood[c] # None
  /\ lastGood' = [lastGood EXCEPT ![c] = None]
  /\ UNCHANGED <<lifecycle, health, call, live>>

-----------------------------------------------------------------------------
Next ==
  \/ Connect \/ Disconnect \/ Disconnected
  \/ \E c \in Codes : Expire(c)
  \/ \E k \in Calls :
       \/ \E c \in Codes : GetQuote(k, c) \/ WriteBack(k, c)
       \/ \E cs \in Batches : GetQuotesBatch(k, cs)
       \/ LiveAnswers(k) \/ LiveFails(k) \/ ReadLastGood(k)
       \/ LastCloseAnswers(k) \/ Return(k)

Spec == Init /\ [][Next]_vars

-----------------------------------------------------------------------------
(* Properties *)

\* A call that is over has each quote from the first source of the chain that
\* had one for it, and misses a code only if they all refused it; only a
\* disconnect may cut this short.  So no stale quote stands in for a live one,
\* and a part of a batch is not given up because another part was found.
FallbackExhausted ==
  \A k \in Calls :
    Done(k) /\ ~call[k].cut =>
      \A c \in call[k].wanted, s \in Chain :
        s < call[k].got[c].from => <<c, s>> \in call[k].refused

\* A last good quote is one that a source of the market gave for this very code.
LastGoodWasLive ==
  \A k \in Calls : \A c \in call[k].wanted :
    call[k].got[c] = [from |-> LastGood, price |-> "good"] => c \in live

\* A last good quote gives way to another one, or expires, but never to a price
\* of 0.
LastGoodKept ==
  [][ \A c \in Codes : lastGood[c] = "good" => lastGood'[c] # "zero" ]_vars
=============================================================================
