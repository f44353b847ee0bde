---------------------------- MODULE RealtimePush ----------------------------
(***************************************************************************)
(* The realtime quote service (atlas/infrastructure/ws_server.py): a       *)
(* background thread that polls quotes for the subscribed codes, and the   *)
(* pages that subscribe to codes and read the latest quotes.               *)
(*                                                                         *)
(* Subscriptions and quotes are touched under one lock, _running and       *)
(* _thread are not.  Any page subscribes and unsubscribes at any time; one *)
(* owner at a time starts and stops the service, as the cached factory of  *)
(* the presentation layer does.  Only the presence of a quote is kept.     *)
(***************************************************************************)
CONSTANTS
  Codes,    \* stock codes, stripped and in upper case
  Pollers,  \* identities for the poll threads: a bound on those alive at once
  NoThread  \* Python's None for _thread

VARIABLES
  subscriptions,  \* _subscriptions
  latest,         \* the keys of _latest
  running,        \* _running
  thread,         \* _thread
  poller,         \* where each poll thread stands
  batch,          \* the codes it has still to fetch
  stopping,       \* whether stop() waits in join
  source, quoted  \* whether yfinance answers at all, and for which codes

vars == <<subscriptions, latest, running, thread, poller, batch, stopping,
          source, quoted>>
pages     == <<subscriptions, latest>>
lifecycle == <<running, thread, stopping>>
world     == <<source, quoted>>

Alive(p) == poller[p] # "none"

Init ==
  /\ subscriptions = {}
  /\ latest = {}
  /\ running = FALSE
  /\ thread = NoThread
  /\ poller = [p \in Pollers |-> "none"]
  /\ batch = [p \in Pollers |-> {}]
  /\ stopping = FALSE
  /\ source \in BOOLEAN
  /\ quoted \in SUBSET Codes

\* yfinance, or what it knows of one code, comes and goes.
Outage ==
  /\ \/ source' = ~source /\ UNCHANGED quoted
     \/ \E c \in Codes : quoted' \in {quoted \union {c}, quoted \ {c}} /\ UNCHANGED source
  /\ UNCHANGED <<pages, lifecycle, poller, batch>>

-----------------------------------------------------------------------------
(* The pages *)

Subscribe(codes) ==
  /\ subscriptions' = subscriptions \union codes
  /\ UNCHANGED <<latest, lifecycle, poller, batch, world>>

Unsubscribe(codes) ==
  /\ subscriptions' = subscriptions \ codes
  /\ latest' = latest \ codes
  /\ UNCHANGED <<lifecycle, poller, batch, world>>

-----------------------------------------------------------------------------
(* The owner *)

Start(p) ==
  /\ ~stopping
  /\ ~running
  /\ ~Alive(p)
  /\ running' = TRUE
  /\ thread' = p
  /\ poller' = [poller EXCEPT ![p] = "head"]
  /\ UNCHANGED <<pages, batch, stopping, world>>

\* stop(), up to the join.
Stop ==
  /\ ~stopping
  /\ running' = FALSE
  /\ IF thread # NoThread /\ Alive(thread)
       THEN stopping' = TRUE /\ UNCHANGED thread
       ELSE thread' = NoThread /\ UNCHANGED stopping
  /\ UNCHANGED <<pages, poller, batch, world>>

\* The join is over, because the thread is or because interval + 5 seconds are.
JoinReturns ==
  /\ stopping
  /\ stopping' = FALSE
  /\ thread' = NoThread
  /\ UNCHANGED <<pages, running, poller, batch, world>>

-----------------------------------------------------------------------------
(* _poll_loop *)

\* The thread looks at _running only to cut its sleep short.
HeadOnlySleeps(p) ==
  /\ poller[p] = "head"
  /\ poller' = [poller EXCEPT ![p] = "copy"]
  /\ UNCHANGED <<pages, lifecycle, batch, world>>
Head(p) ==
  /\ poller[p] = "head"
  /\ poller' = [poller EXCEPT ![p] = IF running THEN "copy" ELSE "none"]
  /\ UNCHANGED <<pages, lifecycle, batch, world>>

\* The codes are copied under the lock.
CopyOf(p) == subscriptions

Copy(p) ==
  /\ poller[p] = "copy"
  /\ batch' = [batch EXCEPT ![p] = CopyOf(p)]
  /\ poller' = [poller EXCEPT ![p] = "fetch"]
  /\ UNCHANGED <<pages, lifecycle, world>>

\* The quote is stored under the lock, whether or not anybody still subscribes.
Store(c) == latest \union {c}

\* A code without a quote ends the batch.
FetchUntilFailure(p, c) ==
  /\ poller[p] = "fetch"
  /\ source
  /\ c \in batch[p]
  /\ IF c \in quoted THEN /\ latest' = Store(c)
                          /\ batch' = [batch EXCEPT ![p] = @ \ {c}]
                     ELSE /\ batch' = [batch EXCEPT ![p] = {}]
                          /\ UNCHANGED latest
  /\ UNCHANGED <<subscriptions, lifecycle, poller, world>>
\* The next code of the batch: without a quote, it is skipped.
Fetch(p, c) ==
  /\ poller[p] = "fetch"
  /\ source
  /\ c \in batch[p]
  /\ batch' = [batch EXCEPT ![p] = @ \ {c}]
  /\ latest' = IF c \in quoted THEN Store(c) ELSE latest
  /\ UNCHANGED <<subscriptions, lifecycle, poller, world>>

\* The batch is done, or yfinance cannot be set up for it.
BatchEnds(p) ==
  /\ poller[p] = "fetch"
  /\ batch[p] = {} \/ ~source
  /\ batch' = [batch EXCEPT ![p] = {}]
  /\ poller' = [poller EXCEPT ![p] = "sleep"]
  /\ UNCHANGED <<pages, lifecycle, world>>

Wake(p) ==
  /\ poller[p] = "sleep"
  /\ poller' = [poller EXCEPT ![p] = "head"]
  /\ UNCHANGED <<pages, lifecycle, batch, world>>

-----------------------------------------------------------------------------
Poll(p) ==
  Head(p) \/ Copy(p) \/ BatchEnds(p) \/ Wake(p) \/ \E c \in Codes : Fetch(p, c)

Next ==
  \/ Outage
  \/ \E codes \in SUBSET Codes : Subscribe(codes) \/ Unsubscribe(codes)
  \/ Stop \/ JoinReturns
  \/ \E p \in Pollers : Start(p) \/ Poll(p)

Spec == Init /\ [][Next]_vars

\* Threads run, sleeps end, yfinance answers or times out, and so does join.
PushFairness == WF_vars(JoinReturns) /\ \A p \in Pollers : WF_vars(Poll(p))

-----------------------------------------------------------------------------
(* Properties *)

\* A service stopped for good stops polling, threads that outlived their join
\* included.
PollingStops == <>[](~running) => <>[](\A p \in Pollers : ~Alive(p))

\* A code that stays subscribed while the service runs and yfinance quotes it
\* gets a quote and keeps it.
QuotesArrive ==
  \A c \in Codes :
    <>[](running /\ c \in subscriptions /\ source /\ c \in quoted) => <>[](c \in latest)

\* get_latest has a quote for subscribed codes only.
LatestIsSubscribed == latest \subseteq subscriptions
=============================================================================
