----------------------------- MODULE MCInterface -----------------------------
(* The services that work in the background of the interface, one at a time:   *)
(* the heartbeats of the health checker, a sender of the notifier and the hub,  *)
(* the quote service and the realtime radar.  `part` says which of them a       *)
(* behaviour is about; the others stay as they are before anybody calls them,   *)
(* so nothing of theirs is enabled that their fairness would call for.          *)
EXTENDS HealthChecker, Notifications, RealtimeRadar

\* The quote service.
CONSTANTS Codes, Pollers, NoThread
VARIABLES subscriptions, latest, serving, thread, poller, batch, stopping, source, quoted
Push == INSTANCE RealtimePush WITH running <- serving

VARIABLE part

\* Two codes of the radar's watch list are busy, the one between them is not.
Quiet == [n |-> 30, prev |-> 100, close |-> 100, vol |-> 100, avg5 |-> 100,
          avg20 |-> 100, ma8p |-> 100, ma8 |-> 100]
Hot   == [Quiet EXCEPT !.close = 104, !.vol = 250]
MCWatchlists == {<<"a", "q", "b">>, <<"b">>}
Busy == [c \in {"a", "b", "q"} |-> IF c = "q" THEN Quiet ELSE Hot]
MCFeeds == {Busy}

\* What the page may scan: histories at the thresholds of the detectors.
Bars == [n : {5, 6, 9, 10, 21}, prev : {0, 100}, close : {90, 98, 100, 102, 104, 108},
         vol : {50, 120, 170, 250, 500}, avg5 : {0, 100}, avg20 : {0, 100},
         ma8p : {99, 101}, ma8 : {99, 101}]
Margins == {[balance |-> 0, limit |-> 0, change |-> 0, short |-> 0],
            [balance |-> 100, limit |-> 150, change |-> 10, short |-> 40],
            [balance |-> 100, limit |-> 120, change |-> 4, short |-> 60]}

\* A batch of three pairs, and one that repeats a pair, as a watch list does that
\* names a stock twice, and ends below the threshold.
Sig(k, severity) == [key |-> k, severity |-> severity, direction |-> "BUY"]
MCBatches == {<<Sig("a", 3), Sig("b", 2), Sig("c", 2)>>,
              <<Sig("a", 5), Sig("a", 2), Sig("b", 1)>>}

InterfaceInit ==
  /\ part \in {"health", "notify", "push", "radar", "rows"}
  /\ Init /\ NotifyInit /\ Push!Init /\ RadarInit
  /\ part # "health" => registered = {} /\ up = [c \in Components |-> TRUE]
  /\ part # "push" => source /\ quoted = {}
  /\ part # "radar" => watchlist = <<"b">>

pushVars   == <<subscriptions, latest, serving, thread, poller, batch, stopping, source, quoted>>
interfaceVars == <<part, vars, notifyVars, pushVars, radarVars>>

InterfaceNext ==
  /\ UNCHANGED part
  /\ \/ part = "health" /\ Next /\ UNCHANGED <<notifyVars, pushVars, radarVars>>
     \/ part = "notify" /\ NotifyNext /\ UNCHANGED <<vars, pushVars, radarVars>>
     \/ part = "push" /\ Push!Next /\ UNCHANGED <<vars, notifyVars, radarVars>>
     \/ part = "radar" /\ RadarNext /\ UNCHANGED <<vars, notifyVars, pushVars>>
     \/ /\ part = "rows" /\ listed.from = {}
        /\ \E b \in Bars, m \in Margins : ScanWatchlist(b, m)
        /\ UNCHANGED <<vars, notifyVars, pushVars>>

InterfaceSpec ==
  /\ InterfaceInit /\ [][InterfaceNext]_interfaceVars
  /\ Fairness /\ NotifyFairness /\ Push!PushFairness /\ RadarFairness
-----------------------------------------------------------------------------
\* A quote service stopped for good stops polling.
PollingStops == Push!PollingStops
\* A subscribed code that yfinance quotes gets its quote and keeps it.
QuotesArrive == Push!QuotesArrive
=============================================================================
