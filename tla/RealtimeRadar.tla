---------------------------- MODULE RealtimeRadar ----------------------------
(***************************************************************************)
(* The realtime radar (atlas/application/realtime_radar.py): the scan loop *)
(* over the watch list, which publishes its alerts on the event bus        *)
(* (atlas/infrastructure/event_bus.py), and the scan that the radar page   *)
(* makes for itself with detectors of its own.                             *)
(*                                                                         *)
(* A pass of the loop gives way only where an alert has subscribers to     *)
(* wait for, and in its sleep: the history of a code is fetched without an *)
(* await.  The history is what the detectors look at: the number of bars   *)
(* n, the last two closes, the last volume, the mean volumes before it and *)
(* the last two values of MA8.  Thresholds in percent are compared without *)
(* a division.                                                             *)
(***************************************************************************)
EXTENDS Integers, Sequences, FiniteSets

CONSTANTS
  Loops,      \* identities for the tasks of _scan_loop, one for each start
  NoLoop,     \* Python's None for _task
  Watchlists, \* the sequences of codes it may be given
  Feeds,      \* bound: the functions from codes to histories of a behaviour
  Toggled,    \* bound: the detectors that are disabled and enabled
  Subscribers \* handlers that subscribe to DetectorTriggered

WatchedCodes == UNION {{w[i] : i \in DOMAIN w} : w \in Watchlists}

ASSUME LoopsAssumption == NoLoop \notin Loops
ASSUME WatchlistsAssumption == \A w \in Watchlists : w \in Seq(WatchedCodes)

VARIABLES
  feed,       \* what yfinance has of each code
  watchlist,  \* _watchlist
  scanning,   \* _running
  radarTask,  \* _task
  loop,       \* where each task stands
  enabled,    \* _enabled_detectors
  alerts,     \* _alerts_today: code, detector and, as history, the task
  handlers,   \* the event bus's subscribers
  listed      \* what the page's last scan listed, and from what

radarVars ==
  <<feed, watchlist, scanning, radarTask, loop, enabled, alerts, handlers, listed>>

-----------------------------------------------------------------------------
(* The detectors *)

\* How many of the thresholds x has reached.
Grade(x, thresholds) == Cardinality({t \in thresholds : x >= t})
Multiples(m, times)  == {m * t : t \in times}
AbsOf(x) == IF x < 0 THEN -x ELSE x

\* 100 times the change of the close, to be compared with percents of the last.
Change(b) == 100 * (b.close - b.prev)

VolumeBreakout(b) ==
  IF b.n >= 6 /\ b.avg5 > 0 THEN Grade(b.vol, Multiples(b.avg5, 2 .. 4)) ELSE 0

LargeOrder(b) ==
  IF b.n >= 21 /\ b.avg20 > 0 /\ b.vol >= 3 * b.avg20
    THEN 1 + Grade(b.vol, Multiples(b.avg20, {3, 5})) ELSE 0

Spike(b) ==
  IF b.n >= 2 /\ b.prev > 0
    THEN Grade(AbsOf(Change(b)), Multiples(b.prev, {3, 5, 7})) ELSE 0

MaBreak(b) ==
  IF b.n >= 10 /\ \/ b.prev > b.ma8p /\ b.close < b.ma8
                  \/ b.prev < b.ma8p /\ b.close > b.ma8
    THEN 2 ELSE 0

RisesThinly(b) == Change(b) > b.prev /\ 10 * b.vol < 6 * b.avg5
\* The volume compared with the whole mean instead of half as much again.
FallsAtAnyVolume(b) == Change(b) < -b.prev /\ b.vol > b.avg5
FallsHeavily(b) == Change(b) < -b.prev /\ 10 * b.vol > 15 * b.avg5
VolumeDiverge(b) ==
  IF ~(b.n >= 6 /\ b.prev > 0 /\ b.avg5 > 0) THEN 0
  ELSE IF RisesThinly(b)                       THEN 2
  ELSE IF ~FallsHeavily(b)                     THEN 0
  ELSE IF Change(b) > -3 * b.prev              THEN 2 ELSE 3

Detectors == {"VOLUME_BREAKOUT", "LARGE_ORDER", "SPIKE", "MA_BREAK", "VOLUME_DIVERGE"}

\* _check_detector; the other detectors of the enumeration have no handler.
Severity(d, b) ==
  CASE d = "VOLUME_BREAKOUT" -> VolumeBreakout(b)
    [] d = "LARGE_ORDER"     -> LargeOrder(b)
    [] d = "SPIKE"           -> Spike(b)
    [] d = "MA_BREAK"        -> MaBreak(b)
    [] d = "VOLUME_DIVERGE"  -> VolumeDiverge(b)

-----------------------------------------------------------------------------
(* The page's scan *)

Row(d, dir, severity) == [detector |-> d, direction |-> dir, severity |-> severity]

\* The rows of scan_watchlist_sync for a code with six bars or more.
VolumeRows(b) ==
  {Row("VOLUME_BREAKOUT", IF b.close >= b.prev THEN "BUY" ELSE "ALERT",
       IF b.vol >= 4 * b.avg5 THEN 3 ELSE IF b.vol >= 3 * b.avg5 THEN 2 ELSE 1) :
     x \in {y \in {b} : y.avg5 > 0 /\ y.vol >= 2 * y.avg5}}
  \union
  {Row("LARGE_ORDER", "ALERT", IF b.vol >= 5 * b.avg20 THEN 3 ELSE 2) :
     x \in {y \in {b} : y.n >= 21 /\ y.avg20 > 0 /\ y.vol >= 3 * y.avg20}}

PriceRows(b) ==
  {Row("SPIKE", IF Change(b) > 0 THEN "BUY" ELSE "SELL",
       IF AbsOf(Change(b)) >= 7 * b.prev THEN 3
       ELSE IF AbsOf(Change(b)) >= 5 * b.prev THEN 2 ELSE 1) :
     x \in {y \in {b} : y.prev > 0 /\ AbsOf(Change(y)) >= 3 * y.prev}}
  \union
  {Row("MA_BREAK", IF b.close > b.ma8 THEN "BUY" ELSE "SELL", 2) :
     x \in {y \in {b} : MaBreak(y) > 0}}

DivergeRows(b) ==
  IF ~(b.avg5 > 0 /\ b.prev > 0) THEN {}
  ELSE IF RisesThinly(b) THEN {Row("VOLUME_DIVERGE", "ALERT", 2)}
  ELSE IF Change(b) < -b.prev /\ 10 * b.vol > 15 * b.avg5
    THEN {Row("VOLUME_DIVERGE", "SELL", IF Change(b) > -3 * b.prev THEN 2 ELSE 3)}
  ELSE {}

\* What the margin figures add: balance, limit, change of it, and short balance.
MarginRows(b, m) ==
  {Row("SHORT_RATIO", "BUY", IF 100 * m.short >= 50 * m.balance THEN 3 ELSE 2) :
     x \in {y \in {m} : 100 * y.short >= 30 * y.balance}}
  \union
  {Row("MARGIN_SURGE", IF b.close >= b.prev THEN "ALERT" ELSE "SELL",
       IF 10 * m.change > m.balance THEN 2 ELSE 1) :
     x \in {y \in {m} : y.change > 0 /\ 20 * y.change > y.balance}}
  \union
  {Row("MARGIN_CALL", "SELL", IF 100 * m.balance >= 80 * m.limit THEN 3 ELSE 2) :
     x \in {y \in {m} : y.limit > 0 /\ 100 * y.balance >= 60 * y.limit}}

ScanRows(b, m) ==
  IF b.n < 6 THEN {}
  ELSE VolumeRows(b) \union PriceRows(b) \union DivergeRows(b)
         \union (IF m.balance > 0 THEN MarginRows(b, m) ELSE {})

\* The histories and the margin figures that a scan may come upon.
Histories == [n : Nat, prev : Int, close : Int, vol : Int, avg5 : Int, avg20 : Int,
              ma8p : Int, ma8 : Int]
Figures   == [balance : Int, limit : Int, change : Int, short : Int]

NotScanned == [rows |-> {}, from |-> {}]

ScanWatchlist(b, m) ==
  /\ listed' = [rows |-> ScanRows(b, m), from |-> {b}]
  /\ UNCHANGED <<feed, watchlist, scanning, radarTask, loop, enabled, alerts, handlers>>

-----------------------------------------------------------------------------
(* The loop *)

\* codes: what the pass has left, the code at work first; left: its detectors
\* not yet tried that have something to alert of; size: how many were enabled
\* when its turn began; touched: whether they were changed meanwhile; waits: the
\* handlers it waits for.
NotStarted ==
  [pc |-> "none", codes |-> <<>>, left |-> {}, size |-> 0, touched |-> FALSE, waits |-> {}]

RadarInit ==
  /\ feed \in Feeds
  /\ watchlist \in Watchlists
  /\ scanning = FALSE
  /\ radarTask = NoLoop
  /\ loop = [t \in Loops |-> NotStarted]
  /\ enabled = Detectors
  /\ alerts = {}
  /\ handlers = {}
  /\ listed = NotScanned

Over(t) == loop[t].pc \in {"none", "cancelled"}

StartRadar(t) ==
  /\ ~scanning
  /\ loop[t] = NotStarted
  /\ scanning' = TRUE
  /\ radarTask' = t
  /\ loop' = [loop EXCEPT ![t].pc = "head"]
  /\ alerts' = {}
  /\ UNCHANGED <<feed, watchlist, enabled, handlers, listed>>

\* The loop is only asked to end by itself.
StopUncancelled ==
  /\ scanning' = FALSE
  /\ UNCHANGED <<feed, watchlist, radarTask, loop, enabled, alerts, handlers, listed>>
\* A cancelled task does nothing more, whatever it waits for.
StopRadar ==
  /\ scanning' = FALSE
  /\ loop' = IF radarTask = NoLoop THEN loop
                                   ELSE [loop EXCEPT ![radarTask] = [NotStarted EXCEPT !.pc = "cancelled"]]
  /\ UNCHANGED <<feed, watchlist, radarTask, enabled, alerts, handlers, listed>>

\* A pass goes on with the list it began with.
SetWatchlist(codes) ==
  /\ watchlist' = codes
  /\ UNCHANGED <<feed, scanning, radarTask, loop, enabled, alerts, handlers, listed>>

\* enable_detector and disable_detector.
Toggle(d) ==
  /\ enabled' = IF d \in enabled THEN enabled \ {d} ELSE enabled \union {d}
  /\ loop' = [t \in Loops |-> IF loop[t].pc = "publish" THEN [loop[t] EXCEPT !.touched = TRUE]
                                                      ELSE loop[t]]
  /\ UNCHANGED <<feed, watchlist, scanning, radarTask, alerts, handlers, listed>>

Subscribe(h) ==
  /\ handlers' = handlers \union {h}
  /\ UNCHANGED <<feed, watchlist, scanning, radarTask, loop, enabled, alerts, listed>>
Unsubscribe(h) ==
  /\ handlers' = handlers \ {h}
  /\ UNCHANGED <<feed, watchlist, scanning, radarTask, loop, enabled, alerts, listed>>
Clear ==
  /\ handlers' = {}
  /\ UNCHANGED <<feed, watchlist, scanning, radarTask, loop, enabled, alerts, listed>>

\* The pairs of a place in the list and a detector that are still to alert,
\* the first code's detectors being those left.
Hits(codes, left) ==
  {h \in (DOMAIN codes) \X enabled :
     (h[1] = 1 => h[2] \in left) /\ Severity(h[2], feed[codes[h[1]]]) > 0}

Found(t, code, d) == [code |-> code, detector |-> d, by |-> t]

Asleep(t) == [loop EXCEPT ![t] = [NotStarted EXCEPT !.pc = "sleep"]]

\* The pass goes on to the next alert somebody has subscribed to, or to its end.
\* size: how many detectors there were when the first code's turn began.
ScanOn(t, codes, left, size) ==
  LET hits == Hits(codes, left)
  IN  IF hits = {} \/ handlers = {}
        THEN /\ alerts' = alerts \union {Found(t, codes[h[1]], h[2]) : h \in hits}
             /\ loop' = Asleep(t)
        ELSE \E h \in hits :
               /\ \A other \in hits : h[1] <= other[1]
               /\ alerts' = alerts \union {Found(t, codes[h[1]], h[2])}
               /\ loop' = [loop EXCEPT ![t] =
                    [pc |-> "publish", codes |-> SubSeq(codes, h[1], Len(codes)),
                     left |-> {d \in enabled : <<h[1], d>> \in hits} \ {h[2]},
                     size |-> IF h[1] = 1 THEN size ELSE Cardinality(enabled),
                     touched |-> FALSE, waits |-> handlers]]

Pass(t) ==
  /\ loop[t].pc = "head"
  /\ IF scanning THEN ScanOn(t, watchlist, enabled, Cardinality(enabled))
                 ELSE loop' = [loop EXCEPT ![t].pc = "cancelled"] /\ UNCHANGED alerts
  /\ UNCHANGED <<feed, watchlist, scanning, radarTask, enabled, handlers, listed>>

\* A handler is done; an exception of its own is logged.
Handled(t, h) ==
  /\ loop[t].pc = "publish"
  /\ h \in loop[t].waits
  /\ loop' = [loop EXCEPT ![t].waits = @ \ {h}]
  /\ UNCHANGED <<feed, watchlist, scanning, radarTask, enabled, alerts, handlers, listed>>

\* The loop dies of the error.
ResumeScanAndDie(t) ==
  /\ loop[t].pc = "publish"
  /\ loop[t].waits = {}
  /\ IF Cardinality(enabled) # loop[t].size
       THEN loop' = [loop EXCEPT ![t].pc = "cancelled"] /\ UNCHANGED alerts
       ELSE ScanOn(t, loop[t].codes, loop[t].left, loop[t].size)
  /\ UNCHANGED <<feed, watchlist, scanning, radarTask, enabled, handlers, listed>>
\* A set that has changed its size ends the iteration, and the pass, with an
\* error; one that has not may show any of its members.
ResumeScan(t) ==
  /\ loop[t].pc = "publish"
  /\ loop[t].waits = {}
  /\ LET l == loop[t]
     IN  IF Cardinality(enabled) # l.size
           THEN loop' = Asleep(t) /\ UNCHANGED alerts
           ELSE \E left \in (IF l.touched THEN SUBSET enabled ELSE {l.left}) :
                  ScanOn(t, l.codes, left, l.size)
  /\ UNCHANGED <<feed, watchlist, scanning, radarTask, enabled, handlers, listed>>

Wake(t) ==
  /\ loop[t].pc = "sleep"
  /\ loop' = [loop EXCEPT ![t].pc = "head"]
  /\ UNCHANGED <<feed, watchlist, scanning, radarTask, enabled, alerts, handlers, listed>>

-----------------------------------------------------------------------------
LoopStep(t) == Pass(t) \/ ResumeScan(t) \/ Wake(t) \/ \E h \in Subscribers : Handled(t, h)

RadarNext ==
  \/ \E t \in Loops : StartRadar(t) \/ LoopStep(t)
  \/ StopRadar \/ Clear
  \/ \E codes \in Watchlists : SetWatchlist(codes)
  \/ \E d \in Toggled : Toggle(d)
  \/ \E h \in Subscribers : Subscribe(h) \/ Unsubscribe(h)

\* The radar with the page's scans of whatever histories and figures there are.
RadarSpec ==
  /\ RadarInit
  /\ [][RadarNext \/ \E b \in Histories, m \in Figures : ScanWatchlist(b, m)]_radarVars

\* The event loop runs its tasks, sleeps end and handlers come back.
RadarFairness == \A t \in Loops : WF_radarVars(LoopStep(t))

-----------------------------------------------------------------------------
(* Properties *)

\* While the radar runs there is one loop at work, the one it knows of, whatever
\* stops, starts and failing passes there have been; all that is alerted of is
\* its own find.
OneScan ==
  /\ scanning => radarTask # NoLoop /\ ~Over(radarTask)
  /\ \A t \in Loops : ~Over(t) => scanning /\ t = radarTask
  /\ \A a \in alerts : a.by = radarTask

Seen(code, d) == \E a \in alerts : a.code = code /\ a.detector = d

\* A radar that stays on with its detectors and codes left alone comes to have alerted of
\* every watched code that triggers one of them: a pass that an error cut short,
\* or that somebody's slow handler held up, is made up for.
TriggersAreSeen ==
  <>[]scanning /\ <>[][UNCHANGED <<enabled, watchlist>>]_radarVars
    => <>[](\A i \in DOMAIN watchlist, d \in enabled :
              Severity(d, feed[watchlist[i]]) > 0 => Seen(watchlist[i], d))

\* The page's scan and the loop, which state the detectors twice, list the same
\* alerts with the same severity for a code of six bars or more.
DetectorsAgree ==
  \A b \in listed.from :
    b.n >= 6 =>
      {<<d, Severity(d, b)>> : d \in {x \in Detectors : Severity(x, b) > 0}}
        = {<<r.detector, r.severity>> : r \in {x \in listed.rows : x.detector \in Detectors}}
=============================================================================
