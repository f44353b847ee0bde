---------------------------- MODULE Notifications ---------------------------
(***************************************************************************)
(* Radar signals on their way to the notification channels: the signal     *)
(* notifier (atlas/application/signal_notifier.py), which filters a batch  *)
(* and spaces it out, and the notification hub below it                    *)
(* (atlas/infrastructure/notification_hub.py), which limits the rate and   *)
(* falls back from channel to channel.                                     *)
(*                                                                         *)
(* The hub is one object per process; the scans that send through it run   *)
(* in Streamlit session threads, each with an event loop and a notifier of *)
(* its own.  A thread may be preempted between any two accesses to         *)
(* _send_timestamps, and takes any time to hear from a channel.            *)
(***************************************************************************)
EXTENDS Integers, Sequences, FiniteSets

CONSTANTS
  Senders,           \* threads that notify
  Keys,              \* the "code_detector" pairs
  Batches,           \* the signals a scan may bring: sequences of key, severity, direction
  MinSeverity, Cooldown, MaxPerMinute, Minute,  \* NotifyConfig, and its 60 s
  Directions,        \* the directions to notify of; empty for all
  Channels,          \* how many adapters the hub has
  HubMax, HubWindow, \* rate_limit_max, rate_limit_window
  Epoch,             \* the clock's first reading, later than Cooldown and Minute
  MaxTime, MaxBatches, MaxBroadcasts  \* bounds of a behaviour

Signals == UNION {{b[i] : i \in DOMAIN b} : b \in Batches}

ASSUME NotifyAssumption ==
  /\ Batches \subseteq Seq(Signals) /\ \A x \in Signals : x.key \in Keys
  /\ Cooldown \in Nat /\ Channels \in Nat /\ HubMax \in Nat /\ HubWindow \in Nat
  /\ Epoch \in Nat

VARIABLES
  clock,     \* seconds
  stamps,    \* the hub's _send_timestamps: whose each is, and when it was taken
  pc,        \* where each sender stands
  todo,      \* the signals its process_signals has still to look at
  channel,   \* the adapter it is trying
  pruned,    \* what it keeps of _send_timestamps, to put in their place
  lastSent,  \* _sent_cache
  minute,    \* _minute_start and _minute_count
  sent,      \* history: what its notifier counted as sent, in order
  delivered, \* history: what a channel accepted from send, in order
  batches, broadcasts  \* how many there were

notifyVars == <<clock, stamps, pc, todo, channel, pruned, lastSent, minute, sent,
                delivered, batches, broadcasts>>
notifierVars == <<lastSent, minute, sent>>
bounds       == <<batches, broadcasts>>

-----------------------------------------------------------------------------
NewNotifier == [cache |-> [k \in Keys |-> 0], minute |-> [start |-> 0, count |-> 0]]

NotifyInit ==
  /\ clock = Epoch
  /\ stamps = {}
  /\ pc = [s \in Senders |-> "idle"]
  /\ todo = [s \in Senders |-> << >>]
  /\ channel = [s \in Senders |-> 0]
  /\ pruned = [s \in Senders |-> {}]
  /\ lastSent = [s \in Senders |-> NewNotifier.cache]
  /\ minute = [s \in Senders |-> NewNotifier.minute]
  /\ sent = [s \in Senders |-> << >>]
  /\ delivered = << >>
  /\ batches = 0
  /\ broadcasts = 0

Tick ==
  /\ clock < MaxTime
  /\ clock' = clock + 1
  /\ UNCHANGED <<stamps, pc, todo, channel, pruned, notifierVars, delivered, bounds>>

Goto(s, label) == pc' = [pc EXCEPT ![s] = label]
At(s, label)   == pc[s] = label

-----------------------------------------------------------------------------
(* SignalNotifier *)

\* process_signals of a notifier that has worked before.
ProcessSignals(s, b) ==
  /\ At(s, "idle")
  /\ batches < MaxBatches
  /\ batches' = batches + 1
  /\ todo' = [todo EXCEPT ![s] = b]
  /\ Goto(s, "signal")
  /\ UNCHANGED <<clock, stamps, channel, pruned, notifierVars, delivered, broadcasts>>

\* _notify_signals: every scan makes a notifier of its own.
NotifySignals(s, b) ==
  /\ At(s, "idle")
  /\ batches < MaxBatches
  /\ batches' = batches + 1
  /\ todo' = [todo EXCEPT ![s] = b]
  /\ lastSent' = [lastSent EXCEPT ![s] = NewNotifier.cache]
  /\ minute' = [minute EXCEPT ![s] = NewNotifier.minute]
  /\ sent' = [sent EXCEPT ![s] = << >>]
  /\ Goto(s, "signal")
  /\ UNCHANGED <<clock, stamps, channel, pruned, delivered, broadcasts>>

\* The tests of _should_notify up to the cool-down.
Worthy(s, signal) ==
  /\ signal.severity >= MinSeverity
  /\ Directions = {} \/ signal.direction \in Directions
  /\ clock - lastSent[s][signal.key] >= Cooldown

\* The minute as the next test sees it: a new one starts with the first test
\* after the last one ran out.
CurrentMinute(s) ==
  IF clock - minute[s].start > Minute
    THEN [start |-> clock, count |-> 0]
    ELSE minute[s]

Filter(s) ==
  /\ At(s, "signal")
  /\ todo[s] # << >>
  /\ IF Worthy(s, Head(todo[s]))
       THEN /\ CurrentMinute(s).count >= MaxPerMinute
            /\ minute' = [minute EXCEPT ![s] = CurrentMinute(s)]
       ELSE UNCHANGED minute
  /\ todo' = [todo EXCEPT ![s] = Tail(@)]
  /\ UNCHANGED <<clock, stamps, pc, channel, pruned, lastSent, sent, delivered, bounds>>

\* _send_signal calls the hub, which returns at once if it has no adapters.
Accept(s) ==
  /\ At(s, "signal")
  /\ todo[s] # << >>
  /\ Worthy(s, Head(todo[s]))
  /\ CurrentMinute(s).count < MaxPerMinute
  /\ minute' = [minute EXCEPT ![s] = CurrentMinute(s)]
  /\ Goto(s, IF Channels = 0 THEN "answered" ELSE "limit")
  /\ UNCHANGED <<clock, stamps, todo, channel, pruned, lastSent, sent, delivered, bounds>>

\* The signal taken for sent without being remembered.
ConcludeForgetting(s) ==
  /\ At(s, "answered")
  /\ minute' = [minute EXCEPT ![s].count = @ + 1]
  /\ sent' = [sent EXCEPT ![s] = Append(@, [key |-> Head(todo[s]).key, at |-> clock])]
  /\ todo' = [todo EXCEPT ![s] = Tail(@)]
  /\ Goto(s, "signal")
  /\ UNCHANGED <<clock, stamps, channel, pruned, lastSent, delivered, bounds>>
\* The same signal looked at again.
ConcludeInPlace(s) ==
  /\ At(s, "answered")
  /\ Goto(s, "signal")
  /\ UNCHANGED <<clock, stamps, todo, channel, pruned, notifierVars, delivered, bounds>>
\* The hub's answer is not looked at: the signal counts as sent.
Conclude(s) ==
  /\ At(s, "answered")
  /\ LET key == Head(todo[s]).key IN
       /\ lastSent' = [lastSent EXCEPT ![s][key] = clock]
       /\ sent' = [sent EXCEPT ![s] = Append(@, [key |-> key, at |-> clock])]
  /\ minute' = [minute EXCEPT ![s].count = @ + 1]
  /\ todo' = [todo EXCEPT ![s] = Tail(@)]
  /\ Goto(s, "signal")
  /\ UNCHANGED <<clock, stamps, channel, pruned, delivered, bounds>>

Finish(s) ==
  /\ At(s, "signal")
  /\ todo[s] = << >>
  /\ Goto(s, "idle")
  /\ UNCHANGED <<clock, stamps, todo, channel, pruned, notifierVars, delivered, bounds>>

-----------------------------------------------------------------------------
(* NotificationHub.send *)

\* The list's order matters to nobody: it is filtered, appended to and counted.
InWindow(t) == t > clock - HubWindow

\* _is_rate_limited builds the list of the stamps still in the window, ...
Prune(s) ==
  /\ At(s, "limit")
  /\ pruned' = [pruned EXCEPT ![s] = {stamp \in stamps : InWindow(stamp.at)}]
  /\ Goto(s, "replace")
  /\ UNCHANGED <<clock, stamps, todo, channel, notifierVars, delivered, bounds>>

\* ... puts it in place of _send_timestamps, whatever was appended there since, ...
Replace(s) ==
  /\ At(s, "replace")
  /\ stamps' = pruned[s]
  /\ pruned' = [pruned EXCEPT ![s] = {}]
  /\ Goto(s, "count")
  /\ UNCHANGED <<clock, todo, channel, notifierVars, delivered, bounds>>

\* ... and counts _send_timestamps, which may be another thread's by now.
Decide(s) ==
  /\ At(s, "count")
  /\ IF Cardinality(stamps) >= HubMax
       THEN Goto(s, "answered") /\ UNCHANGED channel
       ELSE Goto(s, "channel") /\ channel' = [channel EXCEPT ![s] = 1]
  /\ UNCHANGED <<clock, stamps, todo, pruned, notifierVars, delivered, bounds>>

\* The stamp of the n-th delivery, or of the n-th broadcast.
Stamp(kind, n) == [of |-> <<kind, n>>, at |-> clock]
\* A delivery by a fallback channel not recorded.
RecordOfFirst(s) ==
  IF channel[s] = 1 THEN stamps \union {Stamp("send", Len(delivered) + 1)} ELSE stamps
\* _record_send
RecordSend(s) == stamps \union {Stamp("send", Len(delivered) + 1)}

\* The channel accepts the message: the send is recorded.
Deliver(s) ==
  /\ At(s, "channel")
  /\ stamps' = RecordSend(s)
  /\ delivered' = Append(delivered, [key |-> Head(todo[s]).key, at |-> clock])
  /\ channel' = [channel EXCEPT ![s] = 0]
  /\ Goto(s, "answered")
  /\ UNCHANGED <<clock, todo, pruned, notifierVars, bounds>>

\* The channel refuses or raises: the next one is tried, if there is one.
FallBack(s) ==
  /\ At(s, "channel")
  /\ IF channel[s] < Channels
       THEN channel' = [channel EXCEPT ![s] = @ + 1] /\ UNCHANGED pc
       ELSE channel' = [channel EXCEPT ![s] = 0] /\ Goto(s, "answered")
  /\ UNCHANGED <<clock, stamps, todo, pruned, notifierVars, delivered, bounds>>

\* broadcast asks nobody for leave; when all channels were tried, it is
\* recorded as one send.
Broadcast ==
  /\ broadcasts < MaxBroadcasts
  /\ broadcasts' = broadcasts + 1
  /\ stamps' = stamps \union {Stamp("broadcast", broadcasts + 1)}
  /\ UNCHANGED <<clock, pc, todo, channel, pruned, notifierVars, delivered, batches>>

-----------------------------------------------------------------------------
Proceed(s) ==
  \/ Filter(s) \/ Accept(s) \/ Conclude(s) \/ Finish(s)
  \/ Prune(s) \/ Replace(s) \/ Decide(s) \/ Deliver(s) \/ FallBack(s)

NotifyNext ==
  \/ Tick
  \/ Broadcast
  \/ \E s \in Senders :
       \/ Proceed(s)
       \/ \E b \in Batches : ProcessSignals(s, b) \/ NotifySignals(s, b)

NotifySpec == NotifyInit /\ [][NotifyNext]_notifyVars

\* A thread in the middle of a batch is scheduled, and each channel answers or
\* times out; nobody has to call.
NotifyFairness == \A s \in Senders : WF_notifyVars(Proceed(s))

-----------------------------------------------------------------------------
(* Properties *)

\* The events of a history in the `window' seconds that end with its i-th.
Burst(history, i, window) ==
  {j \in 1 .. i : history[j].at > history[i].at - window}

\* While one thread at a time sends, the channels accept at most HubMax
\* messages in any HubWindow seconds, however long each delivery takes and
\* whatever is broadcast meanwhile.
HubRate ==
  \A i \in DOMAIN delivered : Burst(delivered, i, HubWindow) \subseteq i - HubMax + 1 .. i

\* A notifier lets the same stock and detector pass again only after the
\* cool-down, counted from when the last one had been sent.
NotifierCoolsDown ==
  \A s \in Senders : \A i, j \in DOMAIN sent[s] :
    i < j /\ sent[s][i].key = sent[s][j].key => sent[s][j].at - sent[s][i].at >= Cooldown

\* The messages about one stock and detector are a cool-down apart.
MessagesCoolDown ==
  \A i, j \in DOMAIN delivered :
    i < j /\ delivered[i].key = delivered[j].key =>
      delivered[j].at - delivered[i].at >= Cooldown

\* Every batch is dealt with to its end, whatever the channels do.
BatchEnds == \A s \in Senders : ~At(s, "idle") ~> At(s, "idle")
=============================================================================
